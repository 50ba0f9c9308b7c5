------------------------------ MODULE MCStream ------------------------------
(***************************************************************************)
(* Instances of EventStream for TLC: one reader of one stream, since       *)
(* readers share nothing but the stream, which they only read.             *)
(***************************************************************************)
EXTENDS EventStream

CONSTANT r1
=============================================================================
