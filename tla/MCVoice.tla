------------------------------ MODULE MCVoice -------------------------------
(***************************************************************************)
(* Instances of VoiceAnswer for TLC.                                       *)
(***************************************************************************)
EXTENDS VoiceAnswer

\* Words, spaces and sentence ends split in several ways.
WordTokens == {<<"a">>, <<"b", ".">>, <<".">>, <<" ">>, <<".", " ", "c">>}

\* The same with a template marker, and with every tag in a token of its own.
TaggedWords == {<<"a">>, <<"b", ".", "<|im_end|>">>, <<" ">>, <<".", " ", "c">>,
                <<"<think>">>, <<"</think>">>}
=============================================================================
