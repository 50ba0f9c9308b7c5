---------------------------- MODULE SpeechProofs ----------------------------
(***************************************************************************)
(* Proofs about SpeechRecognition: for every recording, and every output   *)
(* of the network, of any length and over any vocabulary, the decoding     *)
(* loop keeps the first label of every run of equal labels, in order, and  *)
(* the transcript is what those that are no blank spell.                   *)
(***************************************************************************)
EXTENDS SpeechRecognition, TextLemmas

Before == {"fetch", "prepare", "preprocess", "infer"}
After == {"answered", "raised"}

\* The types the argument needs.
LoopType ==
    /\ pc \in Before \cup {"decode", "dedupe"} \cup After
    /\ indices \in Seq(Labels)
    /\ pos \in 0..Len(indices)
    /\ deduped \in Seq(Labels)
    /\ starts \in Seq(1..Len(indices))

\* Before the loop nothing is kept; in it, the last label kept is the last
\* label read, which is why the code may compare with either.
LoopPhase ==
    /\ pc \in Before => indices = <<>>
    /\ pc \in Before \cup {"decode"} => pos = 0 /\ deduped = <<>> /\ starts = <<>>
    /\ pc = "decode" => Len(indices) >= 1
    /\ pc = "dedupe" => /\ pos >= 1 /\ Len(deduped) >= 1
                        /\ deduped[Len(deduped)] = indices[pos]

LoopInv == LoopType /\ LoopPhase /\ DedupedIsCollapse

-----------------------------------------------------------------------------
(* At first nothing has been read and nothing is kept.                      *)
LEMMA InitLoop == Init => LoopInv
<1> SUFFICES ASSUME Init PROVE LoopInv
  OBVIOUS
<1>1. LoopType /\ LoopPhase
  BY DEF Init, LoopType, LoopPhase, Before, After
<1>2. RunStarts(pos) = {}
  BY DEF Init, RunStarts
<1>3. DedupedIsCollapse
  BY <1>2 DEF Init, DedupedIsCollapse
<1> QED BY <1>1, <1>3 DEF LoopInv

(* The first label begins the first run.                                    *)
LEMMA FirstLoop == LoopInv /\ First => LoopInv'
<1> SUFFICES ASSUME LoopInv, First PROVE LoopInv'
  OBVIOUS
<1> USE DEF LoopInv, LoopType, LoopPhase
<1>1. /\ indices' = indices /\ indices \in Seq(Labels)
      /\ Len(indices) \in Nat /\ Len(indices) >= 1 /\ indices[1] \in Labels
      /\ pos' = 1 /\ deduped' = <<indices[1]>> /\ starts' = <<1>> /\ pc' = "dedupe"
  BY DEF First
<1>2. LoopType' /\ LoopPhase'
  BY <1>1 DEF Before, After
<1>3. RunStarts(pos)' = {1}
  BY <1>1 DEF RunStarts
<1>4. {starts'[k] : k \in DOMAIN starts'} = {1}
  BY <1>1
<1>5. DedupedIsCollapse'
  BY <1>1, <1>3, <1>4 DEF DedupedIsCollapse
<1> QED BY <1>2, <1>5

(* A label that repeats the last one kept is in its run; another one begins *)
(* a run.                                                                   *)
LEMMA DedupeLoop == LoopInv /\ Dedupe => LoopInv'
<1> SUFFICES ASSUME LoopInv, Dedupe PROVE LoopInv'
  OBVIOUS
<1> USE DEF LoopInv, LoopType, LoopPhase
<1>1. /\ pc = "dedupe" /\ pc' = "dedupe" /\ indices' = indices
      /\ Len(indices) \in Nat /\ pos \in Nat /\ pos < Len(indices)
      /\ pos' = pos + 1 /\ pos >= 1 /\ Len(deduped) >= 1
      /\ deduped[Len(deduped)] = indices[pos]
      /\ indices[pos + 1] \in Labels
  BY DEF Dedupe
<1>2. Last(deduped) = indices[pos]
  BY <1>1 DEF Last
<1>3. CASE indices[pos + 1] = indices[pos]
  <2>1. deduped' = deduped /\ starts' = starts
    BY <1>1, <1>2, <1>3 DEF Dedupe, Repeats
  <2>2. LoopType' /\ LoopPhase'
    BY <1>1, <1>3, <2>1 DEF Before, After
  <2>3. RunStarts(pos)' = RunStarts(pos)
    BY <1>1, <1>3 DEF RunStarts
  <2> QED BY <1>1, <2>1, <2>2, <2>3 DEF DedupedIsCollapse
<1>4. CASE indices[pos + 1] # indices[pos]
  <2> DEFINE label == indices[pos + 1]
  <2>1. deduped' = Append(deduped, label) /\ starts' = Append(starts, pos + 1)
    BY <1>1, <1>2, <1>4 DEF Dedupe, Repeats
  <2>2. LoopType'
    BY <1>1, <2>1 DEF Before, After
  <2>3. /\ Len(starts') = Len(starts) + 1 /\ Len(deduped') = Len(deduped) + 1
        /\ deduped'[Len(deduped')] = label /\ starts'[Len(starts')] = pos + 1
        /\ \A k \in 1..Len(starts) : starts'[k] = starts[k]
        /\ \A k \in 1..Len(deduped) : deduped'[k] = deduped[k]
    BY <1>1, <2>1
  <2>4. LoopPhase'
    BY <1>1, <2>3 DEF Before
  <2>5. RunStarts(pos)' = RunStarts(pos) \cup {pos + 1}
    BY <1>1, <1>4 DEF RunStarts
  <2>6. /\ Len(starts) = Len(deduped) /\ DOMAIN starts = 1..Len(starts)
        /\ DOMAIN starts' = 1..Len(starts) + 1
    BY <2>1, <2>3 DEF DedupedIsCollapse
  <2>7. \A k \in DOMAIN starts' : deduped'[k] = indices'[starts'[k]]
    BY <1>1, <2>3, <2>6 DEF DedupedIsCollapse
  <2>8. \A k \in DOMAIN starts : starts[k] \in 1..pos
    <3>1. \A k \in DOMAIN starts : starts[k] \in RunStarts(pos)
      BY DEF DedupedIsCollapse
    <3> QED BY <3>1 DEF RunStarts
  <2>9. \A j, k \in DOMAIN starts' : j < k => starts'[j] < starts'[k]
    <3> SUFFICES ASSUME NEW j \in DOMAIN starts', NEW k \in DOMAIN starts', j < k
                 PROVE  starts'[j] < starts'[k]
      OBVIOUS
    <3>1. j \in DOMAIN starts /\ starts'[j] = starts[j] /\ starts[j] \in 1..pos
      BY <2>3, <2>6, <2>8
    <3>2. CASE k \in DOMAIN starts
      BY <3>1, <3>2, <2>3, <2>6 DEF DedupedIsCollapse
    <3>3. CASE k = Len(starts) + 1
      BY <3>1, <3>3, <2>3, <1>1
    <3> QED BY <3>2, <3>3, <2>6
  <2>10. {starts'[k] : k \in DOMAIN starts'} = {starts[k] : k \in DOMAIN starts} \cup {pos + 1}
    <3>1. /\ Len(starts) \in Nat
          /\ DOMAIN starts' = DOMAIN starts \cup {Len(starts) + 1}
          /\ \A k \in DOMAIN starts : starts'[k] = starts[k]
          /\ starts'[Len(starts) + 1] = pos + 1
      BY <2>3, <2>6
    <3>2. ASSUME NEW k \in DOMAIN starts' PROVE starts'[k] \in {starts[i] : i \in DOMAIN starts} \cup {pos + 1}
      <4>1. CASE k \in DOMAIN starts
        BY <3>1, <4>1
      <4>2. CASE k = Len(starts) + 1
        BY <3>1, <4>2
      <4> QED BY <3>1, <3>2, <4>1, <4>2
    <3>3. ASSUME NEW k \in DOMAIN starts PROVE starts[k] \in {starts'[i] : i \in DOMAIN starts'}
      <4>1. k \in DOMAIN starts' /\ starts[k] = starts'[k]
        BY <3>1, <3>3
      <4> QED BY <4>1
    <3>4. pos + 1 \in {starts'[i] : i \in DOMAIN starts'}
      BY <3>1
    <3> QED BY <3>2, <3>3, <3>4
  <2> QED BY <2>2, <2>4, <2>3, <2>5, <2>6, <2>7, <2>9, <2>10 DEF DedupedIsCollapse
<1> QED BY <1>3, <1>4

(* No other step touches what the loop keeps; the network gives it at least *)
(* one label to begin with.                                                 *)
LEMMA NextLoop == LoopInv /\ [Next]_vars => LoopInv'
<1> SUFFICES ASSUME LoopInv, [Next]_vars PROVE LoopInv'
  OBVIOUS
<1>1. CASE First
  BY <1>1, FirstLoop
<1>2. CASE Dedupe
  BY <1>2, DedupeLoop
<1>3. CASE Infer
  <2> USE DEF LoopInv, LoopType, LoopPhase
  <2>1. PICK steps \in 1..MaxSteps : indices' \in [1..steps -> Labels]
    BY <1>3 DEF Infer
  <2>2. indices' \in Seq(Labels) /\ Len(indices') = steps
    BY <2>1, SpeechAssumption
  <2>3. /\ pc' = "decode" /\ pos' = 0 /\ deduped' = <<>> /\ starts' = <<>>
    BY <1>3 DEF Infer, Before
  <2>4. LoopType' /\ LoopPhase'
    BY <2>2, <2>3, SpeechAssumption DEF Before, After
  <2>5. RunStarts(pos)' = {}
    BY <2>3 DEF RunStarts
  <2> QED BY <2>3, <2>4, <2>5 DEF DedupedIsCollapse
<1>4. CASE loop' = loop /\ (Fetch \/ Prepare \/ Preprocess \/ InferRaises \/ Finish \/ UNCHANGED vars)
  <2>1. /\ indices' = indices /\ pos' = pos /\ deduped' = deduped /\ starts' = starts
    BY <1>4 DEF loop
  <2>2. LoopType' /\ LoopPhase'
    BY <1>4, <2>1 DEF Fetch, Prepare, Preprocess, InferRaises, Finish, vars, LoopInv,
                      LoopType, LoopPhase, Before, After
  <2>3. DedupedIsCollapse'
    BY <2>1 DEF LoopInv, DedupedIsCollapse, RunStarts
  <2> QED BY <2>2, <2>3 DEF LoopInv
<1> QED
  BY <1>1, <1>2, <1>3, <1>4
  DEF Next, Fetch, Prepare, Preprocess, InferRaises, Finish, vars, loop

(* _ctc_greedy_decode keeps exactly the first label of every run of equal   *)
(* labels, in order, whatever the network returns.                          *)
THEOREM DedupedIsCollapseHolds == Spec => []DedupedIsCollapse
<1>1. LoopInv => DedupedIsCollapse
  BY DEF LoopInv
<1> QED BY InitLoop, NextLoop, <1>1, PTL DEF Spec

-----------------------------------------------------------------------------
(***************************************************************************)
(* Types.                                                                  *)
(***************************************************************************)

\* The symbols of the vocabulary.
Letters == UNION {{token[k] : k \in DOMAIN token} : token \in {Vocabulary[i] : i \in DOMAIN Vocabulary}}

\* The labels that have a text.
Sounds == Labels \ {Blank}

(* Labels that are no blank have a text.                                    *)
LEMMA SpokenType ==
    ASSUME NEW labels \in Seq(Labels)
    PROVE  Kept(labels, Spoken(labels)) \in Seq(Sounds)
<1>1. PICK K : K = Spoken(labels)
  OBVIOUS
<1>2. PICK R : R = {labels[i] : i \in K \cap DOMAIN labels}
  OBVIOUS
<1>3. Kept(labels, K) \in Seq(R)
  BY <1>2, KeptRange
<1>4. R \subseteq Sounds
  <2>1. \A i \in K \cap DOMAIN labels : labels[i] \in Labels /\ labels[i] # Blank
    BY <1>1 DEF Spoken
  <2> QED BY <1>2, <2>1 DEF Sounds
<1> QED BY <1>1, <1>3, <1>4, SeqMonotonic

(* A label that is no blank has a text in letters of the vocabulary.        *)
LEMMA TokenType == \A label \in Sounds : Token(label) \in Seq(Letters)
<1> TAKE label \in Sounds
<1>1. PICK i \in DOMAIN Vocabulary : Token(label) = Vocabulary[i]
  <2>1. label + 1 \in DOMAIN Vocabulary
    BY SpeechAssumption DEF Sounds, Labels, Blank
  <2> QED BY <2>1 DEF Token
<1>2. PICK word \in Seq(STRING) : word = Token(label)
  <2>1. Vocabulary[i] \in Seq(STRING)
    BY <1>1, SpeechAssumption
  <2> QED BY <1>1, <2>1
<1>3. PICK all : all = {Vocabulary[j] : j \in DOMAIN Vocabulary}
  OBVIOUS
<1>4. word \in all
  BY <1>1, <1>2, <1>3
<1>5. ASSUME NEW k \in DOMAIN word PROVE word[k] \in Letters
  <2>1. PICK here : here = {word[j] : j \in DOMAIN word}
    OBVIOUS
  <2>2. here \in {{token[j] : j \in DOMAIN token} : token \in all}
    BY <1>4, <2>1, Zenon
  <2>3. word[k] \in here
    BY <2>1
  <2> QED BY <1>3, <2>2, <2>3 DEF Letters
<1>6. word \in Seq(Letters)
  <2>1. word \in [1..Len(word) -> Letters] /\ Len(word) \in Nat
    BY <1>5
  <2> QED BY <2>1
<1> QED BY <1>2, <1>6

(* So have the labels joined.                                               *)
LEMMA JoinType ==
    ASSUME NEW labels \in Seq(Sounds)
    PROVE  Join(labels) \in Seq(Letters)
<1>1. PICK n \in Nat : n = Len(labels) /\ DOMAIN labels = 1..n
  OBVIOUS
<1>2. \A k \in 1..n : Token(labels[k]) \in Seq(Letters)
  <2> TAKE k \in 1..n
  <2>1. labels[k] \in Sounds
    BY <1>1
  <2> QED BY <2>1, TokenType
<1>3. PICK f : f = [k \in DOMAIN labels |-> Token(labels[k])]
  OBVIOUS
<1>4. f \in [1..n -> Seq(Letters)]
  BY <1>1, <1>2, <1>3
<1>5. f \in Seq(Seq(Letters))
  BY <1>1, <1>4
<1>6. FlattenSeq(f) \in Seq(Letters)
  BY <1>5, FlattenType
<1> QED BY <1>3, <1>6 DEF Join

(* No separator is left, and none comes back with the white space.          *)
LEMMA SpacedType ==
    ASSUME NEW text \in Seq(Letters)
    PROVE  Strip(Spaced(text)) \in Seq(Written)
<1>1. Space \in Written
  <2>1. Space # Separator
    BY DEF Space, Separator
  <2> QED BY <2>1 DEF Written
<1>2. PICK n \in Nat : n = Len(text) /\ DOMAIN text = 1..n
  OBVIOUS
<1>3. \A k \in 1..n : (IF text[k] = Separator THEN Space ELSE text[k]) \in Written
  <2> TAKE k \in 1..n
  <2>1. text[k] \in Letters
    BY <1>2
  <2> QED BY <1>1, <2>1 DEF Written, Letters
<1>4. Spaced(text) \in [1..n -> Written]
  BY <1>2, <1>3 DEF Spaced
<1>5. Spaced(text) \in Seq(Written)
  BY <1>2, <1>4
<1> QED BY <1>5, StripSpells

(* A recording of any length at any rate has a number of frames.            *)
LEMMA FramesType ==
    ASSUME NEW samples \in Nat \ {0}, NEW rate \in Nat \ {0}
    PROVE  Frames(Resampled(samples, rate)) \in Nat
<1>1. \A a \in Nat, d \in Nat \ {0} : a \div d \in Nat
  OBVIOUS
<1>2. TargetRate \in Nat \ {0} /\ HopLength \in Nat \ {0}
  BY SpeechAssumption
<1>3. PICK product \in Nat : product = samples * TargetRate
  BY <1>2
<1>4. product + rate - 1 \in Nat
  OBVIOUS
<1>5. (product + rate - 1) \div rate \in Nat
  BY <1>1, <1>4
<1>6. Resampled(samples, rate) \in Nat
  BY <1>3, <1>5 DEF Resampled
<1>7. Resampled(samples, rate) \div HopLength \in Nat
  BY <1>1, <1>2, <1>6
<1> QED BY <1>7 DEF Frames

SpeechInv == LoopInv /\ TypeOK

(* Every step keeps the types.                                              *)
LEMMA SpeechNext == SpeechInv /\ [Next]_vars => SpeechInv'
<1> SUFFICES ASSUME SpeechInv, [Next]_vars PROVE SpeechInv'
  OBVIOUS
<1>1. LoopInv /\ LoopInv' /\ TypeOK
  BY NextLoop DEF SpeechInv
<1>2. /\ pc' \in Before \cup {"decode", "dedupe"} \cup After
      /\ indices' \in Seq(Labels) /\ pos' \in 0..Len(indices')
      /\ deduped' \in Seq(Labels) /\ starts' \in Seq(1..Len(indices'))
  BY <1>1 DEF LoopInv, LoopType
<1>3. recording' \in Recordings /\ fetched' \in BOOLEAN
  BY <1>1 DEF TypeOK, Next, Fetch, Prepare, Preprocess, Infer, InferRaises, First, Dedupe,
              Finish, vars
<1>4. frames' \in Nat /\ Len(indices') <= frames'
  <2>1. CASE Preprocess
    <3>1. /\ frames' = Frames(Resampled(recording.samples, recording.rate))
          /\ indices' = indices /\ indices = <<>>
      BY <1>1, <2>1 DEF Preprocess, loop, LoopInv, LoopPhase, Before
    <3>2. recording.samples \in Nat \ {0} /\ recording.rate \in Nat \ {0}
      <4>1. recording \in [decodable : BOOLEAN, samples : Nat \ {0}, rate : Nat \ {0}]
        BY <1>1, SpeechAssumption DEF TypeOK
      <4> QED BY <4>1
    <3>3. frames' \in Nat
      BY <3>1, <3>2, FramesType
    <3> QED BY <3>1, <3>3
  <2>2. CASE Infer
    <3>1. PICK steps \in 1..MaxSteps : steps <= frames /\ indices' \in [1..steps -> Labels]
      BY <2>2 DEF Infer
    <3>2. Len(indices') = steps
      BY <3>1, SpeechAssumption
    <3> QED BY <1>1, <2>2, <3>1, <3>2 DEF Infer, TypeOK
  <2>3. CASE UNCHANGED <<frames, indices>>
    BY <1>1, <2>3 DEF TypeOK
  <2> QED BY <2>1, <2>2, <2>3
          DEF Next, Fetch, Prepare, InferRaises, First, Dedupe, Finish, vars, loop
<1>5. transcript' \in Seq(Written)
  <2>1. CASE Finish
    <3>1. Kept(deduped, Spoken(deduped)) \in Seq(Sounds)
      BY <1>1, SpokenType DEF TypeOK
    <3>2. Join(Kept(deduped, Spoken(deduped))) \in Seq(Letters)
      BY <3>1, JoinType
    <3> QED BY <2>1, <3>2, SpacedType DEF Finish
  <2>2. CASE transcript' = transcript
    BY <1>1, <2>2 DEF TypeOK
  <2> QED BY <2>1, <2>2
          DEF Next, Fetch, Prepare, Preprocess, Infer, InferRaises, First, Dedupe, vars
<1>6. TypeOK'
  BY <1>2, <1>3, <1>4, <1>5 DEF TypeOK, Before, After
<1> QED BY <1>1, <1>6 DEF SpeechInv

(* The types hold initially.                                                *)
LEMMA SpeechInit == Init => SpeechInv
<1> SUFFICES ASSUME Init PROVE SpeechInv
  OBVIOUS
<1>1. LoopInv
  BY InitLoop
<1>2. transcript \in Seq(Written)
  BY EmptySeq DEF Init
<1>3. /\ pc = "fetch" /\ recording \in Recordings /\ fetched \in BOOLEAN /\ frames = 0
      /\ indices = <<>>
  BY DEF Init
<1>4. frames \in Nat /\ Len(indices) <= frames
  <2>1. Len(indices) = 0
    BY <1>3
  <2> QED BY <1>3, <2>1
<1> QED BY <1>1, <1>2, <1>3, <1>4 DEF SpeechInv, TypeOK, LoopInv, LoopType

(* Every variable of the transcription keeps its type: no more labels than  *)
(* frames reach the decoder, every label it writes has a text, and no word  *)
(* separator is left in the transcript.                                     *)
THEOREM SpeechTypeOKHolds == Spec => []TypeOK
<1>1. SpeechInv => TypeOK
  BY DEF SpeechInv
<1> QED BY SpeechInit, SpeechNext, <1>1, PTL DEF Spec

-----------------------------------------------------------------------------
(***************************************************************************)
(* The transcript.                                                         *)
(***************************************************************************)

\* What a listener has heard by a time step.
HeardBy(n) == {i \in Heard : i <= n}

(* The labels kept that are no blank are those heard so far.                *)
HeardInv ==
    /\ pc = "dedupe" => Kept(deduped, Spoken(deduped)) = Kept(indices, HeardBy(pos))
    /\ TranscriptIsCollapse

(* The first label.                                                         *)
LEMMA FirstHeard == LoopInv /\ First => HeardInv'
<1> SUFFICES ASSUME LoopInv, First PROVE HeardInv'
  OBVIOUS
<1>1. /\ indices' = indices /\ indices \in Seq(Labels) /\ Len(indices) >= 1
      /\ pos' = 1 /\ pc' = "dedupe" /\ indices[1] \in Labels
      /\ deduped' = <<indices[1]>>
  BY DEF First, LoopInv, LoopType, LoopPhase
<1>2. PICK H : H = HeardBy(1)
  OBVIOUS
<1>3. H = IF indices[1] = Blank THEN {} ELSE {1}
  BY <1>1, <1>2 DEF HeardBy, Heard, Spoken
<1>4. Kept(indices, H) = Kept(deduped', Spoken(deduped'))
  <2>1. PICK none : none = {}
    OBVIOUS
  <2>2. Kept(indices, none) = <<>>
    BY <1>1, <2>1, KeptNone
  <2>3. PICK one \in Seq(Labels) : one = deduped' /\ Len(one) = 1 /\ one[1] = indices[1]
    <3>1. deduped' \in Seq(Labels) /\ Len(deduped') = 1 /\ deduped'[1] = indices[1]
      BY <1>1
    <3> QED BY <3>1, Zenon
  <2>4. PICK K : K = Spoken(one)
    OBVIOUS
  <2>5. CASE indices[1] = Blank
    <3>1. K \cap DOMAIN one = {}
      BY <2>3, <2>4, <2>5 DEF Spoken
    <3>2. Kept(one, K) = <<>>
      BY <2>3, <3>1, KeptNone
    <3> QED BY <1>3, <2>1, <2>2, <2>3, <2>4, <2>5, <3>2
  <2>6. CASE indices[1] # Blank
    <3>1. DOMAIN one \subseteq K
      BY <2>3, <2>4, <2>6 DEF Spoken
    <3>2. Kept(one, K) = one
      BY <2>3, <3>1, KeptAll
    <3>3. Kept(indices, H) = Append(Kept(indices, none), indices[1])
      <4>1. PICK n \in Nat : n = 0
        OBVIOUS
      <4>2. n < Len(indices) /\ none \subseteq 1..n /\ n + 1 = 1 /\ none \cup {n + 1} = H
        BY <1>1, <1>3, <2>1, <2>6, <4>1
      <4>3. Kept(indices, none \cup {n + 1}) = Append(Kept(indices, none), indices[n + 1])
        BY <1>1, <4>2, KeptNext
      <4> QED BY <4>2, <4>3
    <3>4. Append(<<>>, indices[1]) = deduped'
      BY <1>1
    <3>5. Kept(indices, H) = one
      BY <2>2, <2>3, <3>3, <3>4
    <3> QED BY <2>3, <2>4, <3>2, <3>5, Zenon
  <2> QED BY <2>5, <2>6
<1>5. HeardBy(pos)' = H
  BY <1>1, <1>2 DEF HeardBy, Heard, Spoken
<1> QED BY <1>1, <1>4, <1>5 DEF HeardInv, TranscriptIsCollapse

(* A label is heard when it is no blank and another one than the label      *)
(* before it, which is the last one kept.                                   *)
LEMMA DedupeHeard == LoopInv /\ HeardInv /\ Dedupe => HeardInv'
<1> SUFFICES ASSUME LoopInv, HeardInv, Dedupe PROVE HeardInv'
  OBVIOUS
<1>1. /\ indices' = indices /\ indices \in Seq(Labels) /\ deduped \in Seq(Labels)
      /\ pc = "dedupe" /\ pc' = "dedupe" /\ pos' = pos + 1
      /\ pos \in Nat /\ pos >= 1 /\ pos < Len(indices) /\ indices[pos + 1] \in Labels
      /\ Len(deduped) >= 1 /\ deduped[Len(deduped)] = indices[pos]
  BY DEF Dedupe, LoopInv, LoopType, LoopPhase
<1>2. Last(deduped) = indices[pos]
  BY <1>1 DEF Last
<1>3. PICK H : H = HeardBy(pos)
  OBVIOUS
<1>4. PICK H1 : H1 = HeardBy(pos)'
  OBVIOUS
<1>5. H \subseteq 1..pos
  BY <1>1, <1>3 DEF HeardBy, Heard, Spoken
<1>6. H1 = IF indices[pos + 1] # Blank /\ indices[pos + 1] # indices[pos]
           THEN H \cup {pos + 1} ELSE H
  <2>1. \A i : i \in H <=>
                 (i \in 1..pos /\ indices[i] # Blank /\ (i = 1 \/ indices[i] # indices[i - 1]))
    BY <1>1, <1>3 DEF HeardBy, Heard, Spoken
  <2>2. \A i : i \in H1 <=>
                 (i \in 1..pos + 1 /\ indices[i] # Blank /\ (i = 1 \/ indices[i] # indices[i - 1]))
    BY <1>1, <1>4 DEF HeardBy, Heard, Spoken
  <2>3. pos + 1 \in H1 <=> indices[pos + 1] # Blank /\ indices[pos + 1] # indices[pos]
    BY <1>1, <2>2
  <2>4. \A i \in 1..pos : i \in H1 <=> i \in H
    BY <1>1, <2>1, <2>2
  <2>5. H1 \subseteq 1..pos \cup {pos + 1} /\ pos + 1 \notin 1..pos
    BY <1>1, <2>2
  <2>6. CASE pos + 1 \in H1
    <3>1. \A i : i \in H1 <=> i \in H \cup {pos + 1}
      BY <1>5, <2>4, <2>5, <2>6
    <3>2. H1 = H \cup {pos + 1}
      BY <3>1, Zenon
    <3> QED BY <2>3, <2>6, <3>2
  <2>7. CASE pos + 1 \notin H1
    <3>1. \A i : i \in H1 <=> i \in H
      BY <1>5, <2>4, <2>5, <2>7
    <3>2. H1 = H
      BY <3>1, Zenon
    <3> QED BY <2>3, <2>7, <3>2
  <2> QED BY <2>6, <2>7
<1>7. Kept(deduped, Spoken(deduped)) = Kept(indices, H)
  BY <1>1, <1>3 DEF HeardInv
<1>8. PICK K : K = Spoken(deduped)
  OBVIOUS
<1>9. PICK K1 : K1 = Spoken(deduped')
  OBVIOUS
<1>10. Kept(deduped', K1) = Kept(indices, H1)
  <2>1. CASE indices[pos + 1] = indices[pos]
    <3>1. deduped' = deduped /\ H1 = H
      BY <1>1, <1>2, <1>6, <2>1 DEF Dedupe, Repeats
    <3> QED BY <1>7, <1>9, <3>1
  <2>2. CASE indices[pos + 1] # indices[pos]
    <3>1. deduped' = Append(deduped, indices[pos + 1])
      BY <1>1, <1>2, <2>2 DEF Dedupe, Repeats
    <3>2. /\ \A i \in DOMAIN deduped : i \in K1 <=> i \in K
          /\ Len(deduped) + 1 \in K1 <=> indices[pos + 1] # Blank
      BY <1>1, <1>8, <1>9, <3>1 DEF Spoken
    <3>3. Kept(deduped, K1) = Kept(deduped, K)
      BY <3>2, KeptSame
    <3>4. Kept(Append(deduped, indices[pos + 1]), K1)
            = IF Len(deduped) + 1 \in K1 THEN Append(Kept(deduped, K1), indices[pos + 1])
              ELSE Kept(deduped, K1)
      BY <1>1, KeptAppend
    <3>5. CASE indices[pos + 1] = Blank
      BY <1>6, <1>7, <1>8, <3>1, <3>2, <3>3, <3>4, <3>5
    <3>6. CASE indices[pos + 1] # Blank
      <4>1. Kept(indices, H \cup {pos + 1}) = Append(Kept(indices, H), indices[pos + 1])
        BY <1>1, <1>5, KeptNext
      <4> QED BY <1>6, <1>7, <1>8, <2>2, <3>1, <3>2, <3>3, <3>4, <3>6, <4>1
    <3> QED BY <3>5, <3>6
  <2> QED BY <2>1, <2>2
<1> QED BY <1>1, <1>4, <1>9, <1>10 DEF HeardInv, TranscriptIsCollapse

(* Finish makes the transcript of what has been heard.                      *)
LEMMA HeardNext == LoopInv /\ LoopInv' /\ HeardInv /\ [Next]_vars => HeardInv'
<1> SUFFICES ASSUME LoopInv, LoopInv', HeardInv, [Next]_vars PROVE HeardInv'
  OBVIOUS
<1>1. CASE First
  BY <1>1, FirstHeard
<1>2. CASE Dedupe
  BY <1>2, DedupeHeard
<1>3. CASE Finish
  <2>1. /\ pc = "dedupe" /\ pos = Len(indices) /\ indices' = indices
        /\ transcript' = Strip(Spaced(Join(Kept(deduped, Spoken(deduped))))) /\ pc' = "answered"
    BY <1>3 DEF Finish, loop
  <2>2. indices \in Seq(Labels)
    BY DEF LoopInv, LoopType
  <2>3. HeardBy(pos) = Heard
    <3>1. \A i \in Heard : i \in 1..Len(indices)
      BY <2>2 DEF Heard, Spoken
    <3> QED BY <2>1, <2>2, <3>1 DEF HeardBy
  <2>4. transcript' = Strip(Spaced(Join(Kept(indices, Heard))))
    BY <2>1, <2>3 DEF HeardInv
  <2>5. Heard' = Heard
    BY <2>1 DEF Heard, Spoken
  <2> QED BY <2>1, <2>4, <2>5 DEF HeardInv, TranscriptIsCollapse
<1>4. CASE Fetch \/ Prepare \/ Preprocess \/ Infer \/ InferRaises
  BY <1>4 DEF Fetch, Prepare, Preprocess, Infer, InferRaises, HeardInv, TranscriptIsCollapse
<1>5. CASE UNCHANGED vars
  <2>1. UNCHANGED <<pc, indices, pos, deduped, transcript>>
    BY <1>5 DEF vars, loop
  <2>2. Heard' = Heard /\ HeardBy(pos)' = HeardBy(pos)
    BY <2>1 DEF Heard, HeardBy, Spoken
  <2> QED BY <2>1, <2>2 DEF HeardInv, TranscriptIsCollapse
<1> QED BY <1>1, <1>2, <1>3, <1>4, <1>5 DEF Next

(* The transcript is the CTC collapse of the network's labels, whatever the *)
(* network returns: repeats without a blank between them are one sound, a   *)
(* blank keeps doubled letters apart, and the rest is spelled, its word     *)
(* separators turned into spaces, in order (_ctc_greedy_decode).            *)
THEOREM TranscriptIsCollapseHolds == Spec => []TranscriptIsCollapse
<1>1. Init => HeardInv
  BY DEF Init, HeardInv, TranscriptIsCollapse
<1>2. HeardInv => TranscriptIsCollapse
  BY DEF HeardInv
<1> QED BY InitLoop, NextLoop, HeardNext, <1>1, <1>2, PTL DEF Spec
=============================================================================
