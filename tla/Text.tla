-------------------------------- MODULE Text --------------------------------
(***************************************************************************)
(* Text as the code handles it: a sequence of symbols, of which one is     *)
(* white space, and the methods of str that are called on it.              *)
(***************************************************************************)
EXTENDS Integers, Sequences, SequencesExt

Space == " "

\* What a sequence holds at a set of positions, in order.
Kept(seq, positions) ==
    FlattenSeq([i \in DOMAIN seq |-> IF i \in positions THEN <<seq[i]>> ELSE <<>>])

\* The positions of text that are not white space.
Solid(text) == {i \in DOMAIN text : text[i] # Space}

RStrip(text) == IF Solid(text) = {} THEN <<>> ELSE SubSeq(text, 1, Max(Solid(text)))

Strip(text) ==
    IF Solid(text) = {} THEN <<>>
    ELSE SubSeq(text, Min(Solid(text)), Max(Solid(text)))

\* What there is of text but for white space.
Squeeze(text) == Kept(text, Solid(text))
=============================================================================
