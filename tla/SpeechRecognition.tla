-------------------------- MODULE SpeechRecognition --------------------------
(***************************************************************************)
(* How a stored recording becomes a transcript: execute fetches the object *)
(* the adapter decodes it, the model of the inference server resamples it, *)
(* runs the network and turns the network's best label of every time step  *)
(* into text (greedy CTC decoding), one label after the other.             *)
(*                                                                         *)
(* Labels count from 0 as in the code; sequences count from 1.  Text is a  *)
(* sequence of symbols.                                                    *)
(***************************************************************************)
EXTENDS Text

CONSTANTS
    Vocabulary,    \* the text of every label, "_" being the word separator
    Recordings,    \* stored objects: decodable or not, samples, sample rate
    TargetRate,    \* TARGET_SAMPLE_RATE
    HopLength,     \* HOP_LENGTH
    MaxSteps       \* bound: time steps of the network's output

ASSUME SpeechAssumption ==
    /\ Vocabulary \in Seq(Seq(STRING))
    /\ Recordings \subseteq [decodable : BOOLEAN, samples : Nat \ {0}, rate : Nat \ {0}]
    /\ TargetRate \in Nat \ {0} /\ HopLength \in Nat \ {0} /\ MaxSteps \in Nat \ {0}

VARIABLES
    pc,            \* where the transcription is
    recording,     \* the stored object
    fetched,       \* whether storage.get returned its bytes, and not None
    frames,        \* columns of the mel spectrogram
    indices,       \* the network's best label of every time step
    pos,           \* how many of them the loop has looked at
    deduped,       \* as in _ctc_greedy_decode
    starts,        \* history: where each label of deduped was read
    transcript

loop == <<indices, pos, deduped, starts>>
vars == <<pc, recording, fetched, frames, loop, transcript>>

-----------------------------------------------------------------------------
Separator == "_"

\* blank_id: one past the vocabulary.
Blank == Len(Vocabulary)
Labels == 0..Blank
Token(label) == Vocabulary[label + 1]

\* librosa.resample: the samples of the recording at the target rate.
Resampled(samples, rate) ==
    IF rate = TargetRate THEN samples ELSE (samples * TargetRate + rate - 1) \div rate

\* The columns of a centred spectrogram.
Frames(samples) == 1 + samples \div HopLength

\* The positions of labels that are no blank.
Spoken(labels) == {k \in DOMAIN labels : labels[k] # Blank}

\* Defect: blanks do not separate equal labels.
RepeatsSpoken(label) ==
    \/ label = Last(deduped)
    \/ label # Blank /\ label = Last(<<Blank>> \o Kept(deduped, Spoken(deduped)))

\* idx != deduped[-1], negated.
Repeats(label) == label = Last(deduped)

Join(labels) == FlattenSeq([k \in DOMAIN labels |-> Token(labels[k])])

\* Defect: the word separator stays in the text.
SpacedNot(text) == text

Spaced(text) == [k \in DOMAIN text |-> IF text[k] = Separator THEN Space ELSE text[k]]

-----------------------------------------------------------------------------
Init ==
    /\ pc = "fetch"
    /\ recording \in Recordings
    /\ fetched = FALSE /\ frames = 0
    /\ indices = <<>> /\ pos = 0 /\ deduped = <<>> /\ starts = <<>>
    /\ transcript = <<>>

\* storage.get: every ClientError, a missing key or not, comes back as None;
\* any other exception is raised.
Fetch ==
    /\ pc = "fetch"
    /\ \/ fetched' \in BOOLEAN /\ pc' = "prepare"
       \/ UNCHANGED fetched /\ pc' = "raised"
    /\ UNCHANGED <<recording, frames, loop, transcript>>

\* _prepare_inputs: librosa decodes the bytes or raises.
Prepare ==
    /\ pc = "prepare"
    /\ pc' = IF fetched /\ recording.decodable THEN "preprocess" ELSE "raised"
    /\ UNCHANGED <<recording, fetched, frames, loop, transcript>>

Preprocess ==
    /\ pc = "preprocess"
    /\ frames' = Frames(Resampled(recording.samples, recording.rate))
    /\ pc' = "infer"
    /\ UNCHANGED <<recording, fetched, loop, transcript>>

\* The network: at least one time step, no more than frames.
Infer ==
    /\ pc = "infer"
    /\ \E steps \in 1..MaxSteps :
         steps <= frames /\ indices' \in [1..steps -> Labels]
    /\ pc' = "decode"
    /\ UNCHANGED <<recording, fetched, frames, pos, deduped, starts, transcript>>

\* The call of the inference server raises.
InferRaises ==
    /\ pc = "infer"
    /\ pc' = "raised"
    /\ UNCHANGED <<recording, fetched, frames, loop, transcript>>

\* Defect: the loop starts one label too late.
FirstSkips ==
    /\ pc = "decode"
    /\ deduped' = <<indices[1]>> /\ starts' = <<1>> /\ pos' = Min({2, Len(indices)})
    /\ pc' = "dedupe"
    /\ UNCHANGED <<recording, fetched, frames, indices, transcript>>

\* deduped = [indices[0]]
First ==
    /\ pc = "decode"
    /\ deduped' = <<indices[1]>> /\ starts' = <<1>> /\ pos' = 1
    /\ pc' = "dedupe"
    /\ UNCHANGED <<recording, fetched, frames, indices, transcript>>

\* for idx in indices[1:]
Dedupe ==
    /\ pc = "dedupe" /\ pos < Len(indices)
    /\ LET label == indices[pos + 1] IN
       IF Repeats(label) THEN UNCHANGED <<deduped, starts>>
       ELSE deduped' = Append(deduped, label) /\ starts' = Append(starts, pos + 1)
    /\ pos' = pos + 1
    /\ UNCHANGED <<pc, recording, fetched, frames, indices, transcript>>

\* Drop the blanks, join, replace the separator, strip.
Finish ==
    /\ pc = "dedupe" /\ pos = Len(indices)
    /\ transcript' = Strip(Spaced(Join(Kept(deduped, Spoken(deduped)))))
    /\ pc' = "answered"
    /\ UNCHANGED <<recording, fetched, frames, loop>>

Next ==
    \/ Fetch \/ Prepare \/ Preprocess \/ Infer \/ InferRaises
    \/ First \/ Dedupe \/ Finish

Spec == Init /\ [][Next]_vars

-----------------------------------------------------------------------------
\* What a transcript is written with.
Written ==
    ((UNION {{token[k] : k \in DOMAIN token} : token \in {Vocabulary[i] : i \in DOMAIN Vocabulary}})
       \cup {Space}) \ {Separator}

\* Every variable has its type; no separator is left in the transcript.
TypeOK ==
    /\ pc \in {"fetch", "prepare", "preprocess", "infer", "decode", "dedupe",
               "answered", "raised"}
    /\ recording \in Recordings
    /\ fetched \in BOOLEAN
    /\ frames \in Nat
    /\ indices \in Seq(Labels) /\ Len(indices) <= frames
    /\ pos \in 0..Len(indices)
    /\ deduped \in Seq(Labels)
    /\ starts \in Seq(1..Len(indices))
    /\ transcript \in Seq(Written)

\* Where, among the first n time steps, a label is not the one before it.
RunStarts(n) == {i \in 1..n : i = 1 \/ indices[i] # indices[i - 1]}

(* The loop keeps exactly the first label of every run of equal labels, in  *)
(* order: comparing with the last label kept comes to the same as comparing *)
(* with the last label read (_ctc_greedy_decode, deduped).                  *)
DedupedIsCollapse ==
    /\ Len(starts) = Len(deduped)
    /\ \A k \in DOMAIN starts : deduped[k] = indices[starts[k]]
    /\ \A j, k \in DOMAIN starts : j < k => starts[j] < starts[k]
    /\ {starts[k] : k \in DOMAIN starts} = RunStarts(pos)

\* The time steps a listener hears: no blank, and not a label still held.
Heard == {i \in Spoken(indices) : i = 1 \/ indices[i] # indices[i - 1]}

(* The transcript is the CTC collapse of the labels: repeats without a      *)
(* blank between them are one sound, a blank keeps doubled letters apart,   *)
(* and words are separated once (_ctc_greedy_decode as a whole).            *)
TranscriptIsCollapse ==
    pc = "answered" =>
        transcript = Strip(Spaced(Join(Kept(indices, Heard))))
=============================================================================
