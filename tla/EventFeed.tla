----------------------------- MODULE EventFeed ------------------------------
(***************************************************************************)
(* What the stream endpoint promises the clients of one task: a feed of    *)
(* events that only grows and that forgets its oldest events, from which   *)
(* every client gets each event at most once, in order, none left out but  *)
(* what the feed has forgotten, and nothing after one that is final.       *)
(***************************************************************************)
EXTENDS Integers, Sequences

CONSTANTS
    Readers,   \* clients
    Types,     \* types of events
    Final,     \* those that end a client's feed
    MaxLen     \* how many of the newest events are kept at least

VARIABLES
    feed,      \* the types of all events ever published
    lost,      \* how many of the oldest are forgotten
    state,     \* whether each client is away, reading or over
    seen       \* the position each client has reached

vars == <<feed, lost, state, seen>>

Init ==
    /\ feed = <<>> /\ lost = 0
    /\ state = [r \in Readers |-> "away"]
    /\ seen = [r \in Readers |-> 0]

\* A full feed may forget what MaxLen newer events follow.
Publish ==
    /\ \E type \in Types : feed' = Append(feed, type)
    /\ \/ lost' = lost
       \/ lost' \in lost..(Len(feed) + 1 - MaxLen)
    /\ UNCHANGED <<state, seen>>

\* The feed has outlived its time.
Expire ==
    /\ lost' = Len(feed)
    /\ UNCHANGED <<feed, state, seen>>

Join(r) ==
    /\ state[r] = "away"
    /\ state' = [state EXCEPT ![r] = "reading"]
    /\ UNCHANGED <<feed, lost, seen>>

\* The next event, which ends the client's feed if it is final.
Deliver(r) ==
    /\ state[r] = "reading"
    /\ seen[r] < Len(feed)
    /\ seen' = [seen EXCEPT ![r] = @ + 1]
    /\ state' = [state EXCEPT ![r] = IF feed[seen[r] + 1] \in Final THEN "over" ELSE @]
    /\ UNCHANGED <<feed, lost>>

\* What is forgotten is passed over once there is something after it.
Skip(r) ==
    /\ state[r] = "reading"
    /\ seen[r] < lost
    /\ lost < Len(feed)
    /\ seen' = [seen EXCEPT ![r] = lost]
    /\ UNCHANGED <<feed, lost, state>>

\* The client leaves, or its time is up.
Quit(r) ==
    /\ state[r] = "reading"
    /\ state' = [state EXCEPT ![r] = "over"]
    /\ UNCHANGED <<feed, lost, seen>>

Next ==
    \/ Publish \/ Expire
    \/ \E r \in Readers : Join(r) \/ Deliver(r) \/ Skip(r) \/ Quit(r)

Spec == Init /\ [][Next]_vars

\* A client that keeps reading gets what the feed still holds.
FairSpec ==
    /\ Spec
    /\ \A r \in Readers : WF_vars(Skip(r) \/ (Deliver(r) /\ lost <= seen[r]))
=============================================================================
