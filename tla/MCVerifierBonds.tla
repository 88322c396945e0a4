-------------------------- MODULE MCVerifierBonds --------------------------
(***************************************************************************)
(* Small instances of VerifierBonds for TLC.                               *)
(***************************************************************************)
EXTENDS VerifierBonds, TLC

CONSTANTS v1, v2

Bonded1 == v1 :> MinBond
Deposits == [v \in Verifiers |-> IF v \in DOMAIN GenesisBonds THEN GenesisBonds[v] ELSE 0]
=============================================================================
