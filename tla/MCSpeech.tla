------------------------------ MODULE MCSpeech ------------------------------
(***************************************************************************)
(* The instance of SpeechRecognition for TLC.                              *)
(***************************************************************************)
EXTENDS SpeechRecognition

\* A word start, a letter, a separator alone.
ThreeLabels == << <<"_", "a">>, <<"a">>, <<"_">> >>

\* Shorter than a hop, at the target rate, above and below it, not decodable.
FiveRecordings ==
    { [decodable |-> TRUE, samples |-> 1, rate |-> 2],
      [decodable |-> TRUE, samples |-> 10, rate |-> 2],
      [decodable |-> TRUE, samples |-> 11, rate |-> 3],
      [decodable |-> TRUE, samples |-> 4, rate |-> 1],
      [decodable |-> FALSE, samples |-> 4, rate |-> 2] }
=============================================================================
