---------------------------- MODULE MCVerifierd ----------------------------
(***************************************************************************)
(* A small instance of Verifierd for TLC.                                  *)
(***************************************************************************)
EXTENDS Verifierd, TLC

Starts == [a \in Assignments |-> 0]
Deadlines == [a \in Assignments |-> 6]
=============================================================================
