------------------------------ MODULE MCAnswers ------------------------------
(***************************************************************************)
(* The instance of TaskAnswers for TLC.                                    *)
(***************************************************************************)
EXTENDS TaskAnswers

CONSTANTS c1, c2

TwoClients == {c1, c2}
=============================================================================
