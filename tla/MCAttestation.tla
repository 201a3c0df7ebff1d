---------------------------- MODULE MCAttestation ----------------------------
(***************************************************************************)
(* The verifier for TLC: measurements of everything, and of nothing but the *)
(* firmware; rows of the inventory with the identity's id and with others. *)
(***************************************************************************)
EXTENDS Attestation

CONSTANTS good, bad

Genuine == [f \in Fields |-> good]
Sparse == [f \in Fields |-> IF f = "firmware" THEN good ELSE Absent]

MCMeasurements == {Genuine, Sparse}

(* The devices of the rows have one identity: rows with its id, and with    *)
(* ids of their own, as in cmd/api.                                         *)
MCIdentity == [r \in Rows |-> CHOOSE d \in Known : TRUE]
===============================================================================
