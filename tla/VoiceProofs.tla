----------------------------- MODULE VoiceProofs -----------------------------
(***************************************************************************)
(* Theorems about VoiceAnswer, for every stream of tokens, minimum length  *)
(* of a sentence, MAX_RETRIES and bound on faults: its types, and that the *)
(* announced chunks spell the response, the objects behind them speak what *)
(* was announced, and the response is what is in no think block.           *)
(***************************************************************************)
EXTENDS VoiceAnswer, TextLemmas

USE AnswerAssumption

Streamed == UNION {{raw[i] : i \in DOMAIN raw} : raw \in Tokens}
Symbols == Streamed \ Markers

Row == [task_type : Kinds, status : {"pending", "processing", "completed", "failed"},
        output_mode : Modes, response : Text, error : BOOLEAN]

Event == [attempt : 1..MaxRetries + 1, index : 0..MaxTokens, sentence : Text,
          host : {Endpoint, PublicEndpoint}]

Speaking == {"synthesize", "announce"}

(* An attempt announces at most one chunk per line, and the remainder.      *)
TypeInv ==
    /\ TypeOK
    /\ pc = "stream" => ~ended
    /\ pc = "commit" => ended
    /\ index + (IF pc \in Speaking THEN 1 ELSE 0) <= lines + (IF ended THEN 1 ELSE 0)

-----------------------------------------------------------------------------
(***************************************************************************)
(* Types.                                                                  *)
(***************************************************************************)

(* Text is a set of sequences, the empty one included.                      *)
LEMMA TextIsSeq == Text = Seq(Symbols) /\ <<>> \in Text
<1>1. Text = Seq(Symbols)
  BY DEF Text, Symbols, Streamed
<1>2. <<>> \in Seq(Symbols)
  BY EmptySeq
<1> QED BY <1>1, <1>2

(* What the loop does to its buffer leaves text.                            *)
LEMMA TextClosed ==
    ASSUME NEW s \in Text, NEW t \in Text
    PROVE  s \o t \in Text /\ RStrip(s) \in Text /\ Strip(s) \in Text
  BY TextIsSeq, RStripSpells, StripSpells

(* _clean_token leaves no template marker.                                  *)
LEMMA CleanType == \A raw \in Tokens : CleanToken(raw) \in Text
<1> TAKE raw \in Tokens
<1>1. PICK K : K = {i \in DOMAIN raw : raw[i] \notin Markers}
  OBVIOUS
<1>2. PICK R : R = {raw[i] : i \in K \cap DOMAIN raw}
  OBVIOUS
<1>3. raw \in Seq(STRING)
  OBVIOUS
<1>4. Kept(raw, K) \in Seq(R)
  BY <1>2, <1>3, KeptRange
<1>5. ASSUME NEW i \in K \cap DOMAIN raw PROVE raw[i] \in Symbols
  <2>1. raw[i] \in {raw[j] : j \in DOMAIN raw} /\ raw[i] \notin Markers
    BY <1>1
  <2>2. PICK here : here = {raw[j] : j \in DOMAIN raw}
    OBVIOUS
  <2>3. here \in {{r[j] : j \in DOMAIN r} : r \in Tokens}
    BY <2>2, Zenon
  <2>4. raw[i] \in Streamed
    BY <2>1, <2>2, <2>3 DEF Streamed
  <2> QED BY <2>1, <2>4 DEF Symbols
<1>6. R \subseteq Symbols
  BY <1>2, <1>5
<1>7. Kept(raw, K) \in Seq(Symbols)
  BY <1>4, <1>6, SeqMonotonic
<1> QED BY <1>1, <1>7, TextIsSeq DEF CleanToken

(* The types hold initially.                                                *)
LEMMA TypeInit == Init => TypeInv
<1> SUFFICES ASSUME Init PROVE TypeInv
  OBVIOUS
<1>1. <<>> \in Text
  BY TextIsSeq
<1>2. row \in Row
  BY <1>1 DEF Init, Row
<1>3. events \in Seq(Event)
  BY EmptySeq DEF Init
<1>4. store \in [0..MaxTokens -> Text]
  BY <1>1 DEF Init
<1>5. /\ pc = "load" /\ mode = None /\ attempt = 1 /\ lines = 0 /\ inThink = FALSE
      /\ ended = FALSE /\ index = 0 /\ faults = 0
      /\ said \in Text /\ response \in Text /\ buffer \in Text /\ sentence \in Text
  BY <1>1 DEF Init
<1>6. attempt \in 1..MaxRetries + 1 /\ faults \in 0..MaxFaults
  BY <1>5
<1>7. lines \in 0..MaxTokens /\ index \in 0..MaxTokens + 1
  BY <1>5
<1>8. TypeOK
  BY <1>2, <1>3, <1>4, <1>5, <1>6, <1>7 DEF TypeOK, Row, Event
<1> QED BY <1>5, <1>8 DEF TypeInv, Speaking

(* The body of the loop leaves text, and speaks or reads on.                *)
LEMMA ReceiveType ==
    ASSUME TypeOK, NEW token \in Text, Receive(token)
    PROVE  /\ response' \in Text /\ buffer' \in Text /\ sentence' \in Text
           /\ pc' \in {pc, "synthesize"}
<1>1. PICK stripped : stripped = RStrip(buffer \o token)
  OBVIOUS
<1>2. /\ buffer \o token \in Text /\ response \o token \in Text /\ stripped \in Text
      /\ <<>> \in Text
  BY <1>1, TextClosed, TextIsSeq DEF TypeOK
<1> QED BY <1>1, <1>2 DEF Receive, Speak, TypeOK

(* A line keeps the types, whether it is used or not.                       *)
LEMMA LineType ==
    ASSUME TypeInv, NEW raw \in Tokens, Line(raw)
    PROVE  TypeInv'
<1>1. PICK token \in Text : token = CleanToken(raw)
  BY CleanType
<1>2. response \o token \in Text /\ said \o token \in Text
  BY TextClosed DEF TypeInv, TypeOK
<1>3. /\ response' \in Text /\ buffer' \in Text /\ sentence' \in Text
      /\ pc' \in {"stream", "synthesize"}
  <2>1. CASE (inThink \/ Has(token, "<think>")) \/ token = <<>>
    BY <1>1, <2>1 DEF Line, TypeInv, TypeOK
  <2>2. CASE ~((inThink \/ Has(token, "<think>")) \/ token = <<>>) /\ mode = None
    BY <1>1, <1>2, <2>2 DEF Line, Accumulate, TypeInv, TypeOK
  <2>3. CASE ~((inThink \/ Has(token, "<think>")) \/ token = <<>>) /\ mode # None
    <3>1. Receive(token) /\ pc = "stream"
      BY <1>1, <2>3 DEF Line
    <3> QED BY <3>1, ReceiveType DEF TypeInv
  <2> QED BY <2>1, <2>2, <2>3
<1>4. /\ lines' = lines + 1 /\ lines < MaxTokens /\ said' \in Text /\ pc = "stream"
      /\ UNCHANGED <<row, mode, attempt, ended, index, store, events, faults>>
  BY <1>1, <1>2 DEF Line
<1>5. inThink' \in BOOLEAN
  BY DEF Line, StillThinking, Has
<1> QED BY <1>3, <1>4, <1>5 DEF TypeInv, TypeOK, Speaking

(* What an attempt writes into its row.                                     *)
LEMMA RowType ==
    ASSUME NEW r \in Row, NEW status \in {"processing", "completed", "failed"},
           NEW text \in Text
    PROVE  /\ [r EXCEPT !.status = status] \in Row
           /\ [r EXCEPT !.status = status, !.response = text] \in Row
           /\ [r EXCEPT !.status = status, !.error = TRUE] \in Row
  BY DEF Row

(* Every step keeps the types; only Announce counts the index up.           *)
LEMMA TypeNext == TypeInv /\ [Next]_vars => TypeInv'
<1> SUFFICES ASSUME TypeInv, [Next]_vars PROVE TypeInv'
  OBVIOUS
<1> USE DEF TypeInv, TypeOK, Speaking
<1>0. row \in Row /\ <<>> \in Text
  BY TextIsSeq DEF Row
<1>1. CASE Load
  <2>1. mode' \in {"audio", "text", None}
    BY <1>1 DEF Load, OutputMode, RepoGet
  <2>2. row' \in Row
    BY <1>0, <1>1, RowType DEF Load
  <2>3. /\ pc' = "stream" /\ lines' = 0 /\ inThink' = FALSE /\ ended' = FALSE /\ index' = 0
        /\ said' \in Text /\ response' \in Text /\ buffer' \in Text /\ sentence' \in Text
        /\ UNCHANGED <<attempt, store, events, faults>>
    BY <1>0, <1>1 DEF Load
  <2>4. attempt' \in 1..MaxRetries + 1 /\ store' \in [0..MaxTokens -> Text] /\ faults' \in 0..MaxFaults
    BY <2>3
  <2>5. events' \in Seq([attempt : 1..MaxRetries + 1, index : 0..MaxTokens, sentence : Text,
                         host : {Endpoint, PublicEndpoint}])
    BY <2>3
  <2>6. lines' \in 0..MaxTokens /\ index' \in 0..MaxTokens + 1
    BY <2>3
  <2>7. TypeOK'
    BY <2>1, <2>2, <2>3, <2>4, <2>5, <2>6 DEF Row
  <2> QED BY <2>3, <2>7
<1>2. ASSUME NEW raw \in Tokens, Line(raw) PROVE TypeInv'
  BY <1>2, LineType
<1>3. CASE EndOfStream
  <2>1. Remainder \in Text
    BY TextClosed DEF Remainder
  <2>2. sentence' \in Text /\ pc' \in {"synthesize", "commit"}
    BY <1>3, <2>1 DEF EndOfStream, Speak
  <2> QED BY <1>3, <2>2 DEF EndOfStream
<1>4. CASE Synthesize
  BY <1>4 DEF Synthesize, stream
<1>5. CASE Announce
  <2>1. [attempt |-> attempt, index |-> index, sentence |-> sentence,
         host |-> WorkerLinkHost] \in Event
    BY <1>5 DEF Announce, Event, WorkerLinkHost, PresignEndpoint
  <2>2. events' \in Seq(Event)
    BY <1>5, <2>1 DEF Announce, Event
  <2>3. index' \in 0..MaxTokens + 1 /\ index' = index + 1
    BY <1>5 DEF Announce, NextIndex
  <2> QED BY <1>5, <2>2, <2>3 DEF Announce, stream, Event
<1>6. CASE Commit
  <2>1. row' \in Row
    BY <1>0, <1>6, RowType, TextClosed, Zenon DEF Commit
  <2>2. /\ pc = "commit" /\ pc' = "saved"
        /\ UNCHANGED <<mode, attempt, stream, response, buffer, sentence, index, store,
                       events, faults>>
    BY <1>6 DEF Commit
  <2> QED BY <2>1, <2>2 DEF stream, Row
<1>7. CASE Finish
  BY <1>7 DEF Finish, stream
<1>8. CASE Raise
  <2>1. row' \in Row
    BY <1>0, <1>8, RowType DEF Raise
  <2>2. /\ faults' \in 0..MaxFaults /\ attempt' \in 1..MaxRetries + 1
        /\ pc' \in {"load", "done"} /\ pc \in {"stream", "synthesize", "announce", "commit", "saved"}
        /\ UNCHANGED <<mode, stream, response, buffer, sentence, index, store, events>>
    BY <1>8 DEF Raise
  <2> QED BY <2>1, <2>2 DEF stream, Row
<1>9. CASE UNCHANGED vars
  BY <1>9 DEF vars, stream
<1> QED BY <1>1, <1>2, <1>3, <1>4, <1>5, <1>6, <1>7, <1>8, <1>9 DEF Next

(* Every variable of the pipeline's text keeps its type: no template marker *)
(* reaches the response, a chunk or an event, and no attempt runs out of    *)
(* chunk keys.                                                              *)
THEOREM VoiceTypeOKHolds == Spec => []TypeOK
<1>1. TypeInv => TypeOK
  BY DEF TypeInv
<1> QED BY TypeInit, TypeNext, <1>1, PTL DEF Spec

-----------------------------------------------------------------------------
(***************************************************************************)
(* What an attempt announced, and the objects behind it.                   *)
(***************************************************************************)

\* The events of one attempt.
Of(log, number) == Kept(log, {i \in DOMAIN log : log[i].attempt = number})

(* The events of an attempt are events.                                     *)
LEMMA OfType == \A log \in Seq(Event), number \in Nat : Of(log, number) \in Seq(Event)
<1> TAKE log \in Seq(Event), number \in Nat
<1>1. PICK K : K = {i \in DOMAIN log : log[i].attempt = number}
  OBVIOUS
<1> QED BY <1>1, KeptType DEF Of

(* Every event names the attempt it is of.                                  *)
LEMMA OfWhich == \A log \in Seq(Event) : \A i \in DOMAIN log : log[i].attempt \in Nat
<1> TAKE log \in Seq(Event)
<1> TAKE i \in DOMAIN log
<1>1. log[i] \in Event
  OBVIOUS
<1> QED BY <1>1 DEF Event

(* An attempt that has announced nothing has no events.                     *)
LEMMA OfNone ==
    ASSUME NEW log \in Seq(Event), NEW number \in Nat,
           \A i \in DOMAIN log : log[i].attempt # number
    PROVE  Of(log, number) = <<>>
<1>1. PICK K : K = {i \in DOMAIN log : log[i].attempt = number}
  OBVIOUS
<1>2. K \cap DOMAIN log = {}
  BY <1>1
<1> QED BY <1>1, <1>2, KeptNone DEF Of

(* An event of the attempt comes last.                                      *)
LEMMA OfAppend ==
    ASSUME NEW log \in Seq(Event), NEW e \in Event
    PROVE  Of(Append(log, e), e.attempt) = Append(Of(log, e.attempt), e)
<1>1. PICK more : more = Append(log, e)
  OBVIOUS
<1>2. PICK number : number = e.attempt
  OBVIOUS
<1>3. PICK K : K = {i \in DOMAIN log : log[i].attempt = number}
  OBVIOUS
<1>4. PICK L : L = {i \in DOMAIN more : more[i].attempt = number}
  OBVIOUS
<1>5. /\ DOMAIN more = 1..Len(log) + 1 /\ more[Len(log) + 1] = e
      /\ \A i \in DOMAIN log : i \in DOMAIN more /\ more[i] = log[i]
  BY <1>1
<1>6. Len(log) + 1 \in L
  BY <1>2, <1>4, <1>5
<1>7. \A i \in DOMAIN log : i \in L <=> i \in K
  BY <1>3, <1>4, <1>5
<1>8. Kept(more, L) = Append(Kept(log, L), e)
  BY <1>1, <1>6, KeptAppend
<1>9. Kept(log, L) = Kept(log, K)
  BY <1>7, KeptSame
<1> QED BY <1>1, <1>2, <1>3, <1>4, <1>8, <1>9 DEF Of

(* The chunks an attempt has announced are numbered from zero, and the      *)
(* object under the key of each speaks its sentence, that of the chunk in   *)
(* the making included.  No event is of an attempt to come.                 *)
ChunkInv ==
    /\ \A i \in DOMAIN events : /\ events[i].attempt <= attempt
                                /\ pc = "load" => events[i].attempt < attempt
    /\ pc # "load" =>
         /\ Len(Announced) = index
         /\ \A i \in 1..index : /\ Announced[i].index = i - 1
                                /\ store[i - 1] = Announced[i].sentence
    /\ pc = "announce" => store[index] = sentence

(* Nothing has been announced at first.                                     *)
LEMMA ChunkInit == Init => ChunkInv
<1> SUFFICES ASSUME Init PROVE ChunkInv
  OBVIOUS
<1>1. events = <<>> /\ pc = "load"
  BY DEF Init
<1> QED BY <1>1 DEF ChunkInv

(* Only Synthesize writes an object and only Announce an event.             *)
LEMMA ChunkNext == TypeInv /\ TypeInv' /\ ChunkInv /\ [Next]_vars => ChunkInv'
<1> SUFFICES ASSUME TypeInv, TypeInv', ChunkInv, [Next]_vars PROVE ChunkInv'
  OBVIOUS
<1>1. /\ events \in Seq(Event) /\ attempt \in Nat /\ events' \in Seq(Event)
      /\ attempt' \in Nat /\ index \in Nat
  BY DEF TypeInv, TypeOK, Event
<1>2. Announced = Of(events, attempt) /\ Announced' = Of(events', attempt')
  BY DEF Announced, Of
<1>3. Announced \in Seq(Event) /\ Announced' \in Seq(Event)
  BY <1>1, <1>2, OfType
<1>4. ASSUME UNCHANGED <<events, attempt, index, store>>, pc # "load", pc' \notin {"load", "announce"}
      PROVE  ChunkInv'
  <2>1. Announced' = Announced
    BY <1>2, <1>4
  <2> QED BY <1>4, <2>1 DEF ChunkInv
<1>5. CASE Load
  <2>1. /\ UNCHANGED <<events, attempt>> /\ pc = "load" /\ pc' = "stream" /\ index' = 0
    BY <1>5 DEF Load
  <2>2. \A i \in DOMAIN events : events[i].attempt <= attempt /\ events[i].attempt # attempt
    <3> TAKE i \in DOMAIN events
    <3>1. events[i].attempt \in Nat /\ events[i].attempt < attempt
      BY <1>1, <2>1, OfWhich DEF ChunkInv
    <3> QED BY <1>1, <3>1
  <2>3. Announced' = <<>>
    BY <1>1, <1>2, <2>1, <2>2, OfNone
  <2>4. Len(Announced') = 0
    BY <2>3
  <2> QED BY <2>1, <2>2, <2>4 DEF ChunkInv
<1>6. ASSUME NEW raw \in Tokens, Line(raw) PROVE ChunkInv'
  <2>1. /\ UNCHANGED <<events, attempt, index, store>> /\ pc = "stream"
        /\ pc' \in {"stream", "synthesize"}
    BY <1>6 DEF Line, Accumulate, Receive, Speak
  <2> QED BY <1>4, <2>1
<1>7. CASE EndOfStream
  <2>1. /\ UNCHANGED <<events, attempt, index, store>> /\ pc = "stream"
        /\ pc' \in {"synthesize", "commit"}
    BY <1>7 DEF EndOfStream, Speak
  <2> QED BY <1>4, <2>1
<1>8. CASE Synthesize
  <2>1. /\ UNCHANGED <<events, attempt, index, sentence>> /\ pc = "synthesize"
        /\ pc' = "announce" /\ store' = [store EXCEPT ![index] = sentence]
    BY <1>8 DEF Synthesize
  <2>2. index \in 0..MaxTokens /\ store \in [0..MaxTokens -> Text]
    BY <2>1 DEF TypeInv, TypeOK, Speaking
  <2>3. Announced' = Announced
    BY <1>2, <2>1
  <2>4. store'[index] = sentence /\ \A i \in 1..index : store'[i - 1] = store[i - 1]
    BY <2>1, <2>2
  <2> QED BY <2>1, <2>3, <2>4 DEF ChunkInv
<1>9. CASE Announce
  <2>1. PICK e \in Event : /\ events' = Append(events, e) /\ e.attempt = attempt
                           /\ e.index = index /\ e.sentence = sentence
    <3>1. [attempt |-> attempt, index |-> index, sentence |-> sentence,
           host |-> WorkerLinkHost] \in Event
      BY <1>9 DEF Announce, Event, WorkerLinkHost, PresignEndpoint, TypeInv, TypeOK, Speaking
    <3> QED BY <1>9, <3>1 DEF Announce
  <2>2. /\ UNCHANGED <<attempt, store>> /\ index' = index + 1 /\ pc = "announce"
        /\ pc' \in {"commit", "stream"}
    BY <1>9 DEF Announce, NextIndex
  <2>3. Announced' = Append(Announced, e)
    BY <1>1, <1>2, <2>1, <2>2, OfAppend
  <2>4. /\ Len(Announced') = index + 1 /\ Announced'[index + 1] = e
        /\ \A i \in 1..index : Announced'[i] = Announced[i]
    BY <1>1, <1>3, <2>2, <2>3 DEF ChunkInv
  <2>5. \A i \in DOMAIN events' : events'[i].attempt <= attempt
    <3> TAKE i \in DOMAIN events'
    <3>1. i \in 1..Len(events) + 1 /\ events'[i] = IF i = Len(events) + 1 THEN e ELSE events[i]
      BY <1>1, <2>1
    <3> QED BY <1>1, <2>1, <3>1 DEF ChunkInv
  <2>6. \A i \in 1..index + 1 : /\ Announced'[i].index = i - 1
                                /\ store[i - 1] = Announced'[i].sentence
    <3> TAKE i \in 1..index + 1
    <3>1. CASE i = index + 1
      BY <1>1, <2>1, <2>2, <2>4, <3>1 DEF ChunkInv
    <3>2. CASE i \in 1..index
      BY <2>2, <2>4, <3>2 DEF ChunkInv
    <3> QED BY <1>1, <3>1, <3>2
  <2> QED BY <2>2, <2>4, <2>5, <2>6 DEF ChunkInv
<1>10. CASE Commit \/ Finish
  <2>1. /\ UNCHANGED <<events, attempt, index, store>> /\ pc \in {"commit", "saved"}
        /\ pc' \in {"saved", "done"}
    BY <1>10 DEF Commit, Finish
  <2> QED BY <1>4, <2>1
<1>11. CASE Raise
  <2>1. /\ UNCHANGED <<events, index, store>> /\ pc \notin {"load", "done"}
        /\ \/ attempt' = attempt + 1 /\ pc' = "load"
           \/ attempt' = attempt /\ pc' = "done"
    BY <1>11 DEF Raise
  <2>2. CASE attempt' = attempt /\ pc' = "done"
    BY <1>4, <2>1, <2>2
  <2>3. CASE attempt' = attempt + 1 /\ pc' = "load"
    <3>1. \A i \in DOMAIN events : /\ events[i].attempt \in Nat /\ events[i].attempt <= attempt
      BY <1>1, OfWhich DEF ChunkInv
    <3> QED BY <1>1, <2>1, <2>3, <3>1 DEF ChunkInv
  <2> QED BY <2>1, <2>2, <2>3
<1>12. CASE UNCHANGED vars
  <2>1. UNCHANGED <<events, attempt, index, store, sentence, pc>>
    BY <1>12 DEF vars, stream
  <2>2. Announced' = Announced
    BY <1>2, <2>1
  <2> QED BY <2>1, <2>2 DEF ChunkInv
<1> QED BY <1>5, <1>6, <1>7, <1>8, <1>9, <1>10, <1>11, <1>12 DEF Next

(* The object behind every chunk the latest attempt announced speaks the    *)
(* sentence announced, although all attempts write to the same keys: an     *)
(* attempt's chunks are numbered 0, 1, 2, ... and each object is written    *)
(* before its number is used (_synthesize_chunk).                           *)
THEOREM ChunksSpeakTheirSentenceHolds == Spec => []ChunksSpeakTheirSentence
<1>1. TypeInv /\ ChunkInv => ChunksSpeakTheirSentence
  <2> SUFFICES ASSUME TypeInv, ChunkInv, NEW i \in DOMAIN Announced
               PROVE  store[Announced[i].index] = Announced[i].sentence
    BY DEF ChunksSpeakTheirSentence
  <2>1. events \in Seq(Event) /\ attempt \in Nat /\ Announced = Of(events, attempt)
    BY DEF TypeInv, TypeOK, Event, Announced, Of
  <2>2. Announced \in Seq(Event)
    BY <2>1, OfType
  <2>3. CASE pc = "load"
    <3>1. \A j \in DOMAIN events : events[j].attempt # attempt
      <4> TAKE j \in DOMAIN events
      <4>1. events[j].attempt \in Nat /\ events[j].attempt < attempt
        BY <2>1, <2>3, OfWhich DEF ChunkInv
      <4> QED BY <2>1, <4>1
    <3>2. Announced = <<>>
      BY <2>1, <3>1, OfNone
    <3> QED BY <3>2
  <2>4. CASE pc # "load"
    BY <2>2, <2>4 DEF ChunkInv
  <2> QED BY <2>3, <2>4
<1> QED BY TypeInit, TypeNext, ChunkInit, ChunkNext, <1>1, PTL DEF Spec

-----------------------------------------------------------------------------
(***************************************************************************)
(* The filter of think blocks.                                             *)
(***************************************************************************)
Tags == {"<think>", "</think>"}

(* A tag comes in a token of its own: the filter works by tokens.           *)
TagsAlone ==
    \A raw \in Tokens : (\E tag \in Tags : Has(CleanToken(raw), tag)) => Len(CleanToken(raw)) = 1

\* Whether a think block is open at the end of a text.
Open(text) == \E j \in 1..Len(text) : /\ text[j] = "<think>"
                                      /\ \A k \in j..Len(text) : text[k] # "</think>"

ThinkInv == pc # "load" => (inThink <=> Open(said)) /\ response = Visible(said)

(* The two parts of a concatenation.                                        *)
LEMMA ConcatAt ==
    ASSUME NEW T, NEW s \in Seq(T), NEW t \in Seq(T)
    PROVE  /\ s \o t \in Seq(T) /\ Len(s \o t) = Len(s) + Len(t)
           /\ \A i \in 1..Len(s) : (s \o t)[i] = s[i]
           /\ \A i \in 1..Len(t) : (s \o t)[Len(s) + i] = t[i]
  OBVIOUS

(* What follows a position does not matter to whether it is in a block.     *)
LEMMA BlockBefore ==
    ASSUME NEW T, NEW s \in Seq(T), NEW t \in Seq(T), NEW i \in 1..Len(s)
    PROVE  InBlock(s \o t, i) <=> InBlock(s, i)
<1>1. PICK both \in Seq(T) : both = s \o t
  BY ConcatAt
<1>2. \A k \in 1..Len(s) : both[k] = s[k]
  BY <1>1, ConcatAt
<1>3. i \in Nat /\ \A k \in 1..i : both[k] = s[k]
  BY <1>2
<1>4. \A j \in 1..i - 1 : j..i - 1 \subseteq 1..i
  BY <1>3
<1>5. \A j \in 1..i - 1 : (\A k \in j..i - 1 : both[k] # "</think>")
                         <=> (\A k \in j..i - 1 : s[k] # "</think>")
  BY <1>3, <1>4
<1>6. both[i] = s[i] /\ \A j \in 1..i - 1 : both[j] = s[j]
  BY <1>3
<1>7. InBlock(both, i) <=> InBlock(s, i)
  BY <1>5, <1>6, Zenon DEF InBlock
<1> QED BY <1>1, <1>7

(* Before the first tag of what is added, the block that was open is open.  *)
LEMMA BlockAfter ==
    ASSUME NEW T, NEW s \in Seq(T), NEW t \in Seq(T), NEW i \in 1..Len(t),
           \A k \in 1..i - 1 : t[k] \notin Tags
    PROVE  InBlock(s \o t, Len(s) + i) <=> t[i] = "<think>" \/ Open(s)
<1>1. PICK both \in Seq(T) : both = s \o t
  BY ConcatAt
<1>2. /\ \A k \in 1..Len(s) : both[k] = s[k]
      /\ \A k \in 1..Len(t) : both[Len(s) + k] = t[k]
      /\ Len(s) \in Nat /\ Len(t) \in Nat
  BY <1>1, ConcatAt
<1>3. \A k \in Len(s) + 1..Len(s) + i - 1 : both[k] \notin Tags
  <2> TAKE k \in Len(s) + 1..Len(s) + i - 1
  <2>1. k - Len(s) \in 1..i - 1 /\ k - Len(s) \in 1..Len(t) /\ k = Len(s) + (k - Len(s))
    BY <1>2
  <2>2. both[k] = t[k - Len(s)]
    BY <1>2, <2>1
  <2> QED BY <2>1, <2>2
<1>4. both[Len(s) + i] = t[i]
  BY <1>2
<1>5. ASSUME Open(s) PROVE InBlock(both, Len(s) + i)
  <2>1. PICK j \in 1..Len(s) : s[j] = "<think>" /\ \A k \in j..Len(s) : s[k] # "</think>"
    BY <1>5 DEF Open
  <2>2. j \in 1..(Len(s) + i) - 1 /\ both[j] = "<think>"
    BY <1>2, <2>1
  <2>3. \A k \in j..(Len(s) + i) - 1 : both[k] # "</think>"
    <3> TAKE k \in j..(Len(s) + i) - 1
    <3>1. CASE k \in j..Len(s)
      BY <1>2, <2>1, <3>1
    <3>2. CASE k \in Len(s) + 1..Len(s) + i - 1
      BY <1>3, <3>2 DEF Tags
    <3> QED BY <1>2, <3>1, <3>2
  <2> QED BY <2>2, <2>3 DEF InBlock
<1>6. ASSUME InBlock(both, Len(s) + i), t[i] # "<think>" PROVE Open(s)
  <2>1. PICK j \in 1..(Len(s) + i) - 1 :
          /\ both[j] = "<think>"
          /\ \A k \in j..(Len(s) + i) - 1 : both[k] # "</think>"
    BY <1>4, <1>6 DEF InBlock
  <2>2. j \in 1..Len(s)
    BY <1>2, <1>3, <2>1 DEF Tags
  <2>3. \A k \in j..Len(s) : k \in j..(Len(s) + i) - 1 /\ k \in 1..Len(s)
    BY <1>2, <2>2
  <2>4. s[j] = "<think>" /\ \A k \in j..Len(s) : s[k] # "</think>"
    BY <1>2, <2>1, <2>2, <2>3
  <2> QED BY <2>2, <2>4 DEF Open
<1>7. t[i] = "<think>" => InBlock(both, Len(s) + i)
  BY <1>4 DEF InBlock
<1> QED BY <1>1, <1>5, <1>6, <1>7

(* A text without tags leaves a block open or closed; a tag decides.        *)
LEMMA OpenMore ==
    ASSUME NEW T, NEW s \in Seq(T), NEW t \in Seq(T),
           Len(t) = 1 \/ \A k \in 1..Len(t) : t[k] \notin Tags
    PROVE  Open(s \o t) <=> (Open(s) \/ Has(t, "<think>")) /\ ~Has(t, "</think>")
<1>1. PICK both \in Seq(T) : both = s \o t
  BY ConcatAt
<1>2. /\ \A k \in 1..Len(s) : both[k] = s[k]
      /\ \A k \in 1..Len(t) : both[Len(s) + k] = t[k]
      /\ Len(s) \in Nat /\ Len(t) \in Nat /\ Len(both) = Len(s) + Len(t)
  BY <1>1, ConcatAt
<1>3. \A k \in Len(s) + 1..Len(both) : k - Len(s) \in 1..Len(t) /\ both[k] = t[k - Len(s)]
  <2> TAKE k \in Len(s) + 1..Len(both)
  <2>1. k - Len(s) \in 1..Len(t) /\ k = Len(s) + (k - Len(s))
    BY <1>2
  <2> QED BY <1>2, <2>1
<1>4. \A x : Has(t, x) <=> \E k \in 1..Len(t) : t[k] = x
  BY DEF Has
<1>5. CASE \A k \in 1..Len(t) : t[k] \notin Tags
  <2>1. ~Has(t, "<think>") /\ ~Has(t, "</think>")
    BY <1>4, <1>5 DEF Tags
  <2>2. \A k \in Len(s) + 1..Len(both) : both[k] \notin Tags
    BY <1>3, <1>5
  <2>3. ASSUME Open(s) PROVE Open(both)
    <3>1. PICK j \in 1..Len(s) : s[j] = "<think>" /\ \A k \in j..Len(s) : s[k] # "</think>"
      BY <2>3 DEF Open
    <3>2. \A k \in j..Len(both) : both[k] # "</think>"
      <4> TAKE k \in j..Len(both)
      <4>1. CASE k \in j..Len(s)
        BY <1>2, <3>1, <4>1
      <4>2. CASE k \in Len(s) + 1..Len(both)
        BY <2>2, <4>2 DEF Tags
      <4> QED BY <1>2, <4>1, <4>2
    <3>3. j \in 1..Len(both) /\ both[j] = "<think>"
      BY <1>2, <3>1
    <3> QED BY <3>2, <3>3 DEF Open
  <2>4. ASSUME Open(both) PROVE Open(s)
    <3>1. PICK j \in 1..Len(both) : both[j] = "<think>" /\ \A k \in j..Len(both) : both[k] # "</think>"
      BY <2>4 DEF Open
    <3>2. j \in 1..Len(s)
      BY <1>2, <2>2, <3>1 DEF Tags
    <3>3. s[j] = "<think>" /\ \A k \in j..Len(s) : s[k] # "</think>"
      BY <1>2, <3>1, <3>2
    <3> QED BY <3>2, <3>3 DEF Open
  <2> QED BY <1>1, <2>1, <2>3, <2>4
<1>6. CASE Len(t) = 1
  <2>1. Len(both) = Len(s) + 1 /\ both[Len(s) + 1] = t[1]
    BY <1>2, <1>6
  <2>2. (Has(t, "<think>") <=> t[1] = "<think>") /\ (Has(t, "</think>") <=> t[1] = "</think>")
    BY <1>4, <1>6
  <2>3. CASE t[1] \notin Tags
    BY <1>5, <1>6, <2>3
  <2>4. CASE t[1] = "<think>"
    <3>1. Len(both) \in 1..Len(both) /\ \A k \in Len(both)..Len(both) : both[k] # "</think>"
      BY <1>2, <2>1, <2>4
    <3>2. Open(both)
      BY <2>1, <2>4, <3>1 DEF Open
    <3> QED BY <1>1, <2>2, <2>4, <3>2
  <2>5. CASE t[1] = "</think>"
    <3>1. ~Open(both)
      <4> SUFFICES ASSUME NEW j \in 1..Len(both), \A k \in j..Len(both) : both[k] # "</think>"
                   PROVE  FALSE
        BY DEF Open
      <4>1. Len(both) \in j..Len(both)
        BY <1>2, <2>1
      <4> QED BY <2>1, <2>5, <4>1
    <3> QED BY <1>1, <2>2, <2>5, <3>1
  <2> QED BY <2>3, <2>4, <2>5 DEF Tags
<1> QED BY <1>5, <1>6

(* What is visible of a text that grows.                                    *)
LEMMA VisibleMore ==
    ASSUME NEW T, NEW s \in Seq(T), NEW t \in Seq(T), NEW hidden \in BOOLEAN,
           \A i \in 1..Len(t) : InBlock(s \o t, Len(s) + i) <=> hidden
    PROVE  Visible(s \o t) = Visible(s) \o (IF hidden THEN <<>> ELSE t)
<1>1. PICK both \in Seq(T) : both = s \o t
  BY ConcatAt
<1>2. PICK K : K = {i \in DOMAIN both : ~InBlock(both, i)}
  OBVIOUS
<1>3. PICK K0 : K0 = {i \in DOMAIN s : ~InBlock(s, i)}
  OBVIOUS
<1>4. PICK L : L = IF hidden THEN {} ELSE 1..Len(t)
  OBVIOUS
<1>5. /\ Len(s) \in Nat /\ Len(t) \in Nat /\ DOMAIN both = 1..Len(s) + Len(t)
      /\ DOMAIN s = 1..Len(s) /\ DOMAIN t = 1..Len(t)
  BY <1>1, ConcatAt
<1>6. \A i \in 1..Len(t) : i \in L <=> Len(s) + i \in K
  BY <1>1, <1>2, <1>4, <1>5
<1>7. Kept(both, K) = Kept(s, K) \o Kept(t, L)
  BY <1>1, <1>6, KeptConcat
<1>8. \A i \in DOMAIN s : i \in K <=> i \in K0
  BY <1>1, <1>2, <1>3, <1>5, BlockBefore
<1>9. Kept(s, K) = Kept(s, K0)
  BY <1>8, KeptSame
<1>10. Kept(t, L) = IF hidden THEN <<>> ELSE t
  <2>1. CASE hidden
    BY <1>4, <2>1, KeptNone
  <2>2. CASE ~hidden
    BY <1>4, <1>5, <2>2, KeptAll
  <2> QED BY <2>1, <2>2
<1> QED BY <1>1, <1>2, <1>3, <1>7, <1>9, <1>10 DEF Visible

(* A line brings what the block, open or opened by it, hides, or what is    *)
(* visible.                                                                 *)
LEMMA ThinkLine ==
    ASSUME TagsAlone, TypeInv, ThinkInv, NEW raw \in Tokens, Line(raw)
    PROVE  ThinkInv'
<1>1. PICK token \in Seq(Symbols) : token = CleanToken(raw)
  BY CleanType, TextIsSeq
<1>2. /\ said \in Seq(Symbols) /\ response \in Seq(Symbols) /\ inThink \in BOOLEAN
      /\ pc = "stream" /\ (inThink <=> Open(said)) /\ response = Visible(said)
  BY TextIsSeq DEF TypeInv, TypeOK, ThinkInv, Line
<1>3. Len(token) = 1 \/ \A k \in 1..Len(token) : token[k] \notin Tags
  <2>1. SUFFICES ASSUME NEW k \in 1..Len(token), token[k] \in Tags PROVE Len(token) = 1
    OBVIOUS
  <2>2. Has(token, token[k])
    BY DEF Has
  <2> QED BY <1>1, <2>1, <2>2 DEF TagsAlone
<1>4. PICK thinking \in BOOLEAN : thinking = (inThink \/ Has(token, "<think>"))
  BY <1>2 DEF Has
<1>5. inThink' <=> Open(said')
  <2>1. said' = said \o token /\ (inThink' <=> thinking /\ ~Has(token, "</think>"))
    BY <1>1, <1>4 DEF Line, StillThinking
  <2>2. Open(said \o token) <=> (Open(said) \/ Has(token, "<think>")) /\ ~Has(token, "</think>")
    BY <1>2, <1>3, OpenMore
  <2> QED BY <1>2, <1>4, <2>1, <2>2
<1>6. ASSUME NEW i \in 1..Len(token) PROVE InBlock(said \o token, Len(said) + i) <=> thinking
  <2>1. \A k \in 1..i - 1 : token[k] \notin Tags
    <3>1. CASE Len(token) = 1
      BY <3>1
    <3>2. CASE \A k \in 1..Len(token) : token[k] \notin Tags
      BY <3>2
    <3> QED BY <1>3, <3>1, <3>2
  <2>2. InBlock(said \o token, Len(said) + i) <=> token[i] = "<think>" \/ Open(said)
    BY <1>2, <2>1, BlockAfter
  <2>3. token[i] = "<think>" <=> Has(token, "<think>")
    <3>1. CASE Len(token) = 1
      BY <3>1 DEF Has
    <3>2. CASE \A k \in 1..Len(token) : token[k] \notin Tags
      BY <3>2 DEF Has, Tags
    <3> QED BY <1>3, <3>1, <3>2
  <2> QED BY <1>2, <1>4, <2>2, <2>3
<1>7. Visible(said \o token) = Visible(said) \o (IF thinking THEN <<>> ELSE token)
  BY <1>2, <1>6, VisibleMore
<1>8. response' = Visible(said')
  <2>1. said' = said \o token
    BY <1>1 DEF Line
  <2>2. CASE thinking \/ token = <<>>
    <3>1. response' = response
      BY <1>1, <1>4, <2>2 DEF Line
    <3>2. (IF thinking THEN <<>> ELSE token) = <<>>
      BY <2>2
    <3>3. response \o <<>> = response
      BY <1>2
    <3> QED BY <1>2, <1>7, <2>1, <3>1, <3>2, <3>3
  <2>3. CASE ~(thinking \/ token = <<>>)
    <3>1. response' = response \o token
      BY <1>1, <1>4, <2>3 DEF Line, Accumulate, Receive
    <3> QED BY <1>2, <1>7, <2>1, <2>3, <3>1
  <2> QED BY <2>2, <2>3
<1> QED BY <1>5, <1>8 DEF ThinkInv

(* Only a line changes what was said.                                       *)
LEMMA ThinkNext == TagsAlone /\ TypeInv /\ ThinkInv /\ [Next]_vars => ThinkInv'
<1> SUFFICES ASSUME TagsAlone, TypeInv, ThinkInv, [Next]_vars PROVE ThinkInv'
  OBVIOUS
<1>1. CASE Load
  <2>1. said' = <<>> /\ response' = <<>> /\ inThink' = FALSE
    BY <1>1 DEF Load
  <2>2. ~Open(<<>>)
    BY DEF Open
  <2>3. Visible(<<>>) = <<>>
    <3>1. PICK K : K = {i \in DOMAIN <<>> : ~InBlock(<<>>, i)}
      OBVIOUS
    <3>2. K \cap DOMAIN <<>> = {}
      BY <3>1
    <3>3. <<>> \in Seq(Symbols)
      BY EmptySeq
    <3> QED BY <3>1, <3>2, <3>3, KeptNone DEF Visible
  <2> QED BY <2>1, <2>2, <2>3 DEF ThinkInv
<1>2. ASSUME NEW raw \in Tokens, Line(raw) PROVE ThinkInv'
  BY <1>2, ThinkLine
<1>3. CASE \/ EndOfStream \/ Synthesize \/ Announce \/ Commit \/ Finish \/ Raise
         \/ UNCHANGED vars
  <2>1. UNCHANGED <<said, response, inThink>> /\ (pc = "load" => pc' = "load")
    BY <1>3 DEF EndOfStream, Synthesize, Announce, Commit, Finish, Raise, vars, stream
  <2> QED BY <2>1 DEF ThinkInv
<1> QED BY <1>1, <1>2, <1>3 DEF Next

(* "Filter <think>...</think> blocks": the response is what the model said  *)
(* outside its think blocks, no more and no less, for every stream whose    *)
(* tags come in tokens of their own (stream_generate).                      *)
THEOREM ThoughtsFilteredHolds == TagsAlone => (Spec => []ThoughtsFiltered)
<1> SUFFICES ASSUME TagsAlone PROVE Spec => []ThoughtsFiltered
  OBVIOUS
<1>1. Init => ThinkInv
  BY DEF Init, ThinkInv
<1>2. TypeInv /\ ThinkInv /\ [Next]_vars => ThinkInv'
  BY ThinkNext
<1>3. ThinkInv => ThoughtsFiltered
  BY DEF ThinkInv, ThoughtsFiltered
<1> QED BY TypeInit, TypeNext, <1>1, <1>2, <1>3, PTL DEF Spec

-----------------------------------------------------------------------------
(***************************************************************************)
(* What the chunks spell.                                                  *)
(***************************************************************************)

\* The sentences of a series of events, one after the other.
Said(log) == FlattenSeq([i \in DOMAIN log |-> log[i].sentence])

(* The sentences of events are text.                                        *)
LEMMA Sentences ==
    ASSUME NEW log \in Seq(Event)
    PROVE  /\ [i \in DOMAIN log |-> log[i].sentence] \in Seq(Seq(Symbols))
           /\ Len([i \in DOMAIN log |-> log[i].sentence]) = Len(log)
           /\ Said(log) \in Seq(Symbols)
<1>1. PICK n \in Nat : n = Len(log) /\ DOMAIN log = 1..n
  OBVIOUS
<1>2. \A i \in 1..n : log[i].sentence \in Seq(Symbols)
  <2> TAKE i \in 1..n
  <2>1. log[i] \in Event
    BY <1>1
  <2> QED BY <2>1, TextIsSeq DEF Event
<1>3. PICK f : f = [i \in DOMAIN log |-> log[i].sentence]
  OBVIOUS
<1>4. f \in [1..n -> Seq(Symbols)]
  BY <1>1, <1>2, <1>3
<1>5. f \in Seq(Seq(Symbols)) /\ Len(f) = n
  BY <1>4
<1>6. FlattenSeq(f) \in Seq(Symbols)
  BY <1>5, FlattenType
<1> QED BY <1>1, <1>3, <1>5, <1>6 DEF Said

(* No event says nothing.                                                   *)
LEMMA SaidNothing == Said(<<>>) = <<>>
<1>1. [i \in DOMAIN <<>> |-> <<>>[i].sentence] = <<>>
  OBVIOUS
<1> QED BY <1>1, FlattenEmpty DEF Said

(* An event more says its sentence last.                                    *)
LEMMA SaidMore ==
    ASSUME NEW log \in Seq(Event), NEW e \in Event
    PROVE  Said(Append(log, e)) = Said(log) \o e.sentence
<1>1. PICK more \in Seq(Event) : more = Append(log, e)
  <2>1. Append(log, e) \in Seq(Event)
    OBVIOUS
  <2> QED BY <2>1, Zenon
<1>2. PICK n \in Nat : /\ n = Len(log) /\ DOMAIN log = 1..n /\ DOMAIN more = 1..n + 1
                       /\ more[n + 1] = e /\ \A i \in 1..n : more[i] = log[i]
  BY <1>1
<1>3. PICK f : f = [i \in DOMAIN log |-> log[i].sentence]
  OBVIOUS
<1>4. PICK g : g = [i \in DOMAIN more |-> more[i].sentence]
  OBVIOUS
<1>5. /\ f \in Seq(Seq(Symbols)) /\ Len(f) = n
      /\ g \in Seq(Seq(Symbols)) /\ Len(g) = Len(more)
  BY <1>2, <1>3, <1>4, Sentences
<1>6. Len(more) = n + 1 /\ g[n + 1] = e.sentence /\ \A i \in 1..n : f[i] = g[i]
  BY <1>1, <1>2, <1>3, <1>4
<1>7. FlattenSeq(g) = IF n = 0 THEN g[n + 1] ELSE FlattenSeq(f) \o g[n + 1]
  <2>1. Len(f) = n /\ Len(g) = n + 1
    BY <1>5, <1>6
  <2>2. n \in Nat /\ \A i \in 1..n : f[i] = g[i]
    BY <1>2, <1>6
  <2> QED BY <2>1, <2>2, FlattenMore, Zenon
<1>8. e.sentence \in Seq(Symbols)
  BY TextIsSeq DEF Event
<1>9. CASE n = 0
  <2>1. log = <<>>
    BY <1>2, <1>9
  <2>2. Said(log) = <<>>
    BY <2>1, SaidNothing
  <2>3. <<>> \o e.sentence = e.sentence
    BY <1>8
  <2> QED BY <1>1, <1>4, <1>6, <1>7, <1>9, <2>2, <2>3 DEF Said
<1>10. CASE n # 0
  BY <1>1, <1>3, <1>4, <1>6, <1>7, <1>10 DEF Said
<1> QED BY <1>9, <1>10

(* Concatenation, for the equations below.                                  *)
LEMMA Joined ==
    ASSUME NEW a \in Seq(Symbols), NEW b \in Seq(Symbols), NEW c \in Seq(Symbols)
    PROVE  /\ a \o b \in Seq(Symbols) /\ (a \o b) \o c = a \o (b \o c)
           /\ a \o <<>> = a /\ <<>> \o a = a /\ <<>> \in Seq(Symbols)
  OBVIOUS

(* Concatenation is associative.                                            *)
LEMMA Regrouped == \A a, b, c \in Seq(Symbols) : a \o (b \o c) = (a \o b) \o c
  BY Joined

(* While an attempt runs, the chunks announced, the one in the making and   *)
(* the buffer spell the response so far; from the commit on, the chunks     *)
(* alone do, and the row holds the response.                                *)
Balanced ==
    (Squeeze(Said(Announced)) \o Squeeze(IF pc \in Speaking THEN sentence ELSE <<>>))
      \o Squeeze(IF ended THEN <<>> ELSE buffer)
    = Squeeze(response)

SpeltInv ==
    /\ mode = "audio" /\ pc \in Speaking \cup {"stream", "commit"} => Balanced
    /\ row.status = "completed" =>
         /\ pc \in {"saved", "done"}
         /\ row.response = Strip(response)
         /\ mode = "audio" => Squeeze(Said(Announced)) = Squeeze(response)

(* What the steps need to know of types.                                    *)
LEMMA SpeltTypes ==
    ASSUME TypeInv
    PROVE  /\ response \in Seq(Symbols) /\ buffer \in Seq(Symbols)
           /\ sentence \in Seq(Symbols) /\ Announced \in Seq(Event)
           /\ Said(Announced) \in Seq(Symbols) /\ Squeeze(Said(Announced)) \in Seq(Symbols)
           /\ Announced = Of(events, attempt) /\ events \in Seq(Event) /\ attempt \in Nat
           /\ row \in Row
<1>1. /\ response \in Seq(Symbols) /\ buffer \in Seq(Symbols) /\ sentence \in Seq(Symbols)
  BY TextIsSeq DEF TypeInv, TypeOK
<1>2. events \in Seq(Event) /\ attempt \in Nat
  BY DEF TypeInv, TypeOK, Event
<1>3. Announced = Of(events, attempt)
  BY DEF Announced, Of
<1>4. Announced \in Seq(Event)
  BY <1>2, <1>3, OfType
<1>5. Said(Announced) \in Seq(Symbols)
  BY <1>4, Sentences
<1>6. Squeeze(Said(Announced)) \in Seq(Symbols)
  BY <1>5, SqueezeType
<1>7. row \in Row
  BY DEF TypeInv, TypeOK, Row
<1> QED BY <1>1, <1>2, <1>3, <1>4, <1>5, <1>6, <1>7

(* A line adds to the response and to the buffer alike; a flush moves the   *)
(* buffer into the chunk in the making.                                     *)
LEMMA SpeltLine ==
    ASSUME TypeInv, SpeltInv, NEW raw \in Tokens, Line(raw)
    PROVE  SpeltInv'
<1> DEFINE spoken == Squeeze(Said(Announced))
<1>1. /\ response \in Seq(Symbols) /\ buffer \in Seq(Symbols) /\ spoken \in Seq(Symbols)
  BY SpeltTypes
<1>2. PICK token \in Seq(Symbols) : token = CleanToken(raw)
  BY CleanType, TextIsSeq
<1>3. /\ pc = "stream" /\ ended = FALSE /\ ended' = ended /\ mode' = mode /\ row' = row
      /\ pc' \in {"stream", "synthesize"}
  BY DEF Line, TypeInv, TypeOK, Accumulate, Receive, Speak
<1>4. Announced' = Announced /\ row.status # "completed"
  <2>1. UNCHANGED <<events, attempt>>
    BY DEF Line
  <2> QED BY <1>3, <2>1 DEF Announced, SpeltInv
<1>5. ASSUME mode = "audio" PROVE Balanced'
  <2>1. Squeeze(<<>>) = <<>> /\ spoken \o Squeeze(buffer) = Squeeze(response)
    <3>1. (spoken \o Squeeze(<<>>)) \o Squeeze(buffer) = Squeeze(response)
      BY <1>3, <1>5 DEF SpeltInv, Balanced, Speaking
    <3> QED BY <1>1, <3>1, SqueezeEmpty, Joined
  <2>2. CASE (inThink \/ Has(token, "<think>")) \/ token = <<>>
    <3>1. response' = response /\ buffer' = buffer /\ pc' = pc
      BY <1>2, <2>2 DEF Line
    <3> HIDE DEF spoken
    <3>2. (spoken \o Squeeze(<<>>)) \o Squeeze(buffer') = Squeeze(response')
      BY <1>1, <2>1, <3>1, Joined
    <3> QED BY <1>3, <1>4, <3>1, <3>2 DEF Balanced, Speaking, spoken
  <2>3. CASE ~((inThink \/ Has(token, "<think>")) \/ token = <<>>)
    <3>1. Receive(token)
      BY <1>2, <1>5, <2>3 DEF Line
    <3>2. /\ Squeeze(buffer \o token) = Squeeze(buffer) \o Squeeze(token)
          /\ Squeeze(response \o token) = Squeeze(response) \o Squeeze(token)
          /\ buffer \o token \in Seq(Symbols)
      <4>1. Squeeze(buffer \o token) = Squeeze(buffer) \o Squeeze(token)
        BY <1>1, SqueezeConcat
      <4>2. Squeeze(response \o token) = Squeeze(response) \o Squeeze(token)
        BY <1>1, SqueezeConcat
      <4> QED BY <1>1, <4>1, <4>2, Joined
    <3>3. /\ Squeeze(buffer) \in Seq(Symbols) /\ Squeeze(token) \in Seq(Symbols)
          /\ Squeeze(buffer \o token) \in Seq(Symbols)
      BY <1>1, <3>2, SqueezeType
    <3>4. spoken \o Squeeze(buffer \o token) = Squeeze(response \o token)
      <4> HIDE DEF spoken
      <4>1. spoken \o (Squeeze(buffer) \o Squeeze(token))
              = (spoken \o Squeeze(buffer)) \o Squeeze(token)
        <5>1. PICK b \in Seq(Symbols) : b = Squeeze(buffer)
          BY <3>3, Zenon
        <5>2. PICK c \in Seq(Symbols) : c = Squeeze(token)
          BY <3>3, Zenon
        <5>3. spoken \in Seq(Symbols)
          BY <1>1
        <5>4. spoken \o (b \o c) = (spoken \o b) \o c
          BY <5>3, Regrouped
        <5> QED BY <5>1, <5>2, <5>4
      <4> QED BY <2>1, <3>2, <4>1
    <3>5. response' = response \o token
      BY <3>1 DEF Receive
    <3>6. PICK stripped : stripped = RStrip(buffer \o token)
      OBVIOUS
    <3>7. CASE Flushes(stripped)
      <4>1. buffer' = <<>> /\ sentence' = stripped /\ pc' = "synthesize"
        BY <1>5, <3>1, <3>6, <3>7 DEF Receive, Speak
      <4>2. Squeeze(stripped) = Squeeze(buffer \o token)
        BY <3>2, <3>6, RStripSpells
      <4> HIDE DEF spoken
      <4>3. (spoken \o Squeeze(sentence')) \o Squeeze(buffer') = Squeeze(response')
        <5>1. spoken \o Squeeze(sentence') \in Seq(Symbols)
          BY <1>1, <3>3, <4>1, <4>2, Joined
        <5>2. spoken \o Squeeze(sentence') = Squeeze(response')
          BY <3>4, <3>5, <4>1, <4>2
        <5>3. Squeeze(buffer') = <<>>
          BY <2>1, <4>1
        <5> QED BY <5>1, <5>2, <5>3, Joined
      <4> QED BY <1>3, <1>4, <4>1, <4>3 DEF Balanced, Speaking, spoken
    <3>8. CASE ~Flushes(stripped)
      <4>1. buffer' = buffer \o token /\ pc' = pc
        BY <3>1, <3>6, <3>8 DEF Receive
      <4> HIDE DEF spoken
      <4>2. (spoken \o Squeeze(<<>>)) \o Squeeze(buffer') = Squeeze(response')
        BY <1>1, <2>1, <3>4, <3>5, <4>1, Joined
      <4> QED BY <1>3, <1>4, <4>1, <4>2 DEF Balanced, Speaking, spoken
    <3> QED BY <3>7, <3>8
  <2> QED BY <2>2, <2>3
<1> QED BY <1>3, <1>4, <1>5 DEF SpeltInv

(* Announcing moves the chunk in the making to those announced; the commit  *)
(* finds nothing but announced chunks.                                      *)
LEMMA SpeltNext == TypeInv /\ ChunkInv /\ SpeltInv /\ [Next]_vars => SpeltInv'
<1> SUFFICES ASSUME TypeInv, ChunkInv, SpeltInv, [Next]_vars PROVE SpeltInv'
  OBVIOUS
<1> DEFINE spoken == Squeeze(Said(Announced))
<1>0. /\ response \in Seq(Symbols) /\ buffer \in Seq(Symbols) /\ sentence \in Seq(Symbols)
      /\ spoken \in Seq(Symbols) /\ Announced \in Seq(Event) /\ Said(Announced) \in Seq(Symbols)
      /\ Announced = Of(events, attempt) /\ events \in Seq(Event) /\ attempt \in Nat
      /\ Squeeze(<<>>) = <<>> /\ row \in Row
  BY SpeltTypes, SqueezeEmpty
<1>1. CASE Load
  <2>1. /\ pc' = "stream" /\ ended' = FALSE /\ buffer' = <<>> /\ response' = <<>>
        /\ UNCHANGED <<events, attempt>> /\ pc = "load"
    BY <1>1 DEF Load
  <2>2. \A i \in DOMAIN events : events[i].attempt # attempt
    <3> TAKE i \in DOMAIN events
    <3>1. events[i].attempt \in Nat /\ events[i].attempt < attempt
      BY <1>0, <2>1, OfWhich DEF ChunkInv
    <3> QED BY <1>0, <3>1
  <2>3. Announced' = <<>>
    <3>1. Announced' = Of(events', attempt')
      BY DEF Announced, Of
    <3> QED BY <1>0, <2>1, <2>2, <3>1, OfNone
  <2>4. Squeeze(Said(Announced')) = <<>>
    BY <1>0, <2>3, SaidNothing
  <2>5. Balanced'
    <3>1. (<<>> \o Squeeze(<<>>)) \o Squeeze(<<>>) = Squeeze(<<>>)
      <4>1. <<>> \in Seq(Symbols)
        BY EmptySeq
      <4>2. PICK e \in Seq(Symbols) : e = <<>>
        BY <4>1, Zenon
      <4>3. e \o <<>> = e
        BY Joined
      <4> QED BY <1>0, <4>2, <4>3, Zenon
    <3>2. (IF pc' \in Speaking THEN sentence' ELSE <<>>) = <<>>
      BY <2>1 DEF Speaking
    <3>3. (IF ended' THEN <<>> ELSE buffer') = <<>>
      BY <2>1
    <3> QED BY <2>1, <2>4, <3>1, <3>2, <3>3 DEF Balanced
  <2>6. row'.status # "completed"
    <3>1. row' = [row EXCEPT !.status = "processing"]
      BY <1>1 DEF Load
    <3> QED BY <1>0, <3>1 DEF Row
  <2> QED BY <2>5, <2>6 DEF SpeltInv
<1>2. ASSUME NEW raw \in Tokens, Line(raw) PROVE SpeltInv'
  BY <1>2, SpeltLine
<1>3. CASE EndOfStream
  <2>1. /\ pc = "stream" /\ ended = FALSE /\ ended' = TRUE /\ pc' \in {"synthesize", "commit"}
        /\ UNCHANGED <<row, mode, response, buffer, events, attempt>>
    BY <1>3 DEF EndOfStream, Speak, TypeInv, TypeOK
  <2>2. Announced' = Announced /\ row.status # "completed"
    BY <2>1 DEF Announced, SpeltInv
  <2>3. ASSUME mode = "audio" PROVE Balanced'
    <3>1. spoken \o Squeeze(buffer) = Squeeze(response)
      <4>1. (spoken \o Squeeze(<<>>)) \o Squeeze(buffer) = Squeeze(response)
        BY <2>1, <2>3 DEF SpeltInv, Balanced, Speaking
      <4> QED BY <1>0, <4>1, Joined
    <3>2. PICK remainder \in Seq(Symbols) :
            /\ remainder = Remainder /\ Squeeze(remainder) = Squeeze(buffer)
            /\ remainder = <<>> => Squeeze(buffer) = <<>>
      <4>1. /\ Strip(buffer) \in Seq(Symbols) /\ Squeeze(Strip(buffer)) = Squeeze(buffer)
            /\ Strip(buffer) = <<>> => Solid(buffer) = {}
        BY <1>0, StripSpells
      <4>2. Solid(buffer) = {} => Squeeze(buffer) = <<>>
        BY <1>0, SqueezeBlank
      <4> QED BY <4>1, <4>2 DEF Remainder
    <3>3. Squeeze(buffer) \in Seq(Symbols) /\ spoken \o Squeeze(buffer) \in Seq(Symbols)
      BY <1>0, SqueezeType, Joined
    <3>4. CASE remainder # <<>>
      <4>1. sentence' = remainder /\ pc' = "synthesize"
        BY <1>3, <2>3, <3>2, <3>4 DEF EndOfStream, Speak
      <4> HIDE DEF spoken
      <4>2. (spoken \o Squeeze(sentence')) \o Squeeze(<<>>) = Squeeze(response')
        BY <1>0, <2>1, <3>1, <3>2, <3>3, <4>1, Joined
      <4> QED BY <2>1, <2>2, <4>1, <4>2 DEF Balanced, Speaking, spoken
    <3>5. CASE remainder = <<>>
      <4>1. pc' = "commit"
        BY <1>3, <3>2, <3>5 DEF EndOfStream
      <4> HIDE DEF spoken
      <4>2. (spoken \o Squeeze(<<>>)) \o Squeeze(<<>>) = Squeeze(response')
        BY <1>0, <2>1, <3>1, <3>2, <3>5, Joined
      <4> QED BY <2>1, <2>2, <4>1, <4>2 DEF Balanced, Speaking, spoken
    <3> QED BY <3>4, <3>5
  <2> QED BY <2>1, <2>2, <2>3 DEF SpeltInv
<1>4. CASE Synthesize
  <2>1. /\ pc = "synthesize" /\ pc' = "announce"
        /\ UNCHANGED <<row, mode, response, buffer, sentence, ended, events, attempt>>
    BY <1>4 DEF Synthesize, stream
  <2>2. Announced' = Announced
    BY <2>1 DEF Announced
  <2> QED BY <2>1, <2>2 DEF SpeltInv, Balanced, Speaking
<1>5. CASE Announce
  <2>1. PICK e \in Event : /\ events' = Append(events, e) /\ e.attempt = attempt
                           /\ e.sentence = sentence
    <3>1. [attempt |-> attempt, index |-> index, sentence |-> sentence,
           host |-> WorkerLinkHost] \in Event
      BY <1>5 DEF Announce, Event, WorkerLinkHost, PresignEndpoint, TypeInv, TypeOK, Speaking
    <3> QED BY <1>5, <3>1 DEF Announce
  <2>2. /\ pc = "announce" /\ pc' \in {"stream", "commit"}
        /\ UNCHANGED <<row, mode, response, buffer, ended, attempt>>
    BY <1>5 DEF Announce, stream
  <2>3. Announced' = Append(Announced, e)
    <3>1. Announced' = Of(events', attempt')
      BY DEF Announced, Of
    <3> QED BY <1>0, <2>1, <2>2, <3>1, OfAppend
  <2>4. Squeeze(Said(Announced')) = spoken \o Squeeze(sentence)
    <3>1. Said(Announced') = Said(Announced) \o sentence
      BY <1>0, <2>1, <2>3, SaidMore
    <3> QED BY <1>0, <3>1, SqueezeConcat
  <2>5. ASSUME mode = "audio" PROVE Balanced'
    <3> DEFINE left == Squeeze(IF ended THEN <<>> ELSE buffer)
    <3>1. (spoken \o Squeeze(sentence)) \o left = Squeeze(response)
      BY <2>2, <2>5 DEF SpeltInv, Balanced, Speaking
    <3>2. spoken \o Squeeze(sentence) \in Seq(Symbols)
      BY <1>0, SqueezeType, Joined
    <3>3. (Squeeze(Said(Announced')) \o Squeeze(<<>>)) \o left = Squeeze(response)
      <4> HIDE DEF spoken, left
      <4> QED BY <1>0, <2>4, <3>1, <3>2, Joined
    <3> QED BY <2>2, <3>3 DEF Balanced, Speaking
  <2>6. row.status # "completed"
    BY <2>2 DEF SpeltInv
  <2> QED BY <2>2, <2>5, <2>6 DEF SpeltInv
<1>6. CASE Commit
  <2>1. /\ pc = "commit" /\ pc' = "saved" /\ ended
        /\ UNCHANGED <<mode, response, events, attempt>>
    BY <1>6 DEF Commit, TypeInv
  <2>2. row'.response = Strip(response)
    <3>1. row' = [row EXCEPT !.status = "completed", !.response = Strip(response)]
      BY <1>6 DEF Commit
    <3>2. PICK text \in Seq(Symbols) : text = Strip(response)
      <4>1. Strip(response) \in Seq(Symbols)
        BY <1>0, StripSpells
      <4> QED BY <4>1, Zenon
    <3>3. row' = [row EXCEPT !.status = "completed", !.response = text]
      BY <3>1, <3>2
    <3> QED BY <1>0, <3>2, <3>3 DEF Row
  <2>3. Announced' = Announced
    BY <2>1 DEF Announced
  <2>4. ASSUME mode = "audio" PROVE spoken = Squeeze(response)
    <3>1. (spoken \o Squeeze(<<>>)) \o Squeeze(<<>>) = Squeeze(response)
      BY <2>1, <2>4 DEF SpeltInv, Balanced, Speaking
    <3> QED BY <1>0, <3>1, Joined
  <2> QED BY <2>1, <2>2, <2>3, <2>4 DEF SpeltInv, Speaking
<1>7. CASE Finish
  <2>1. /\ pc = "saved" /\ pc' = "done" /\ UNCHANGED <<row, mode, response, events, attempt>>
    BY <1>7 DEF Finish
  <2>2. Announced' = Announced
    BY <2>1 DEF Announced
  <2> QED BY <2>1, <2>2 DEF SpeltInv, Speaking
<1>8. CASE Raise
  <2>1. row' = [row EXCEPT !.status = "failed", !.error = TRUE] /\ pc' \in {"load", "done"}
    BY <1>8 DEF Raise
  <2>2. row'.status = "failed"
    BY <1>0, <2>1 DEF Row
  <2> QED BY <2>1, <2>2 DEF SpeltInv, Speaking
<1>9. CASE UNCHANGED vars
  <2>1. UNCHANGED <<row, pc, mode, response, buffer, sentence, ended, events, attempt>>
    BY <1>9 DEF vars, stream
  <2>2. Announced' = Announced
    BY <2>1 DEF Announced
  <2> QED BY <2>1, <2>2 DEF SpeltInv, Balanced, Speaking
<1> QED BY <1>1, <1>2, <1>3, <1>4, <1>5, <1>6, <1>7, <1>8, <1>9 DEF Next

(* When a voice task is completed, the sentences announced by the attempt   *)
(* that completed it spell the response in its row but for white space:     *)
(* however the stream splits into tokens and wherever the earlier attempts  *)
(* raised, nothing is lost, spoken twice or reordered, and nothing of a     *)
(* failed attempt gets in (execute's sentence buffer).                      *)
THEOREM ChunksSpellResponseHolds == Spec => []ChunksSpellResponse
<1>1. Init => SpeltInv
  <2> SUFFICES ASSUME Init PROVE SpeltInv
    OBVIOUS
  <2>1. pc = "load" /\ row.status = "pending"
    BY DEF Init
  <2> QED BY <2>1 DEF SpeltInv, Speaking
<1>2. TypeInv /\ SpeltInv => ChunksSpellResponse
  <2> SUFFICES ASSUME TypeInv, SpeltInv, row.status = "completed", mode = "audio"
               PROVE  Squeeze(Said(Announced)) = Squeeze(row.response)
    BY DEF ChunksSpellResponse, Said
  <2>1. Squeeze(Strip(response)) = Squeeze(response)
    BY SpeltTypes, StripSpells
  <2> QED BY <2>1 DEF SpeltInv
<1> QED BY TypeInit, TypeNext, ChunkInit, ChunkNext, SpeltNext, <1>1, <1>2, PTL DEF Spec
==============================================================================
