------------------------------- MODULE Nonces -------------------------------
(***************************************************************************)
(* What the attestation verifier promises of the nonces it hands out: each *)
(* is made for one device, lets at most one report pass, a report of that  *)
(* device, and once it has done so or has been given up it is never live   *)
(* again.                                                                  *)
(***************************************************************************)
EXTENDS Naturals, Sequences

CONSTANTS Devices, MaxNonces

VARIABLES
  live,     (* the nonces that can be used                                  *)
  owner,    (* the devices the nonces were made for, in the order of making *)
  passed    (* per nonce: the devices whose reports it let pass             *)

Init == live = {} /\ owner = <<>> /\ passed = [n \in 1..MaxNonces |-> <<>>]

Issue(d) ==
  /\ owner' = Append(owner, d)
  /\ live' = live \union {Len(owner')}
  /\ UNCHANGED passed

Pass(n) ==
  /\ n \in live
  /\ live' = live \ {n}
  /\ passed[n] = <<>>
  /\ passed' = [passed EXCEPT ![n] = <<owner[n]>>]
  /\ UNCHANGED owner

(* Expired, or lost with the process.                                       *)
GiveUp ==
  /\ live' \subseteq live
  /\ UNCHANGED <<owner, passed>>

Next == GiveUp \/ (\E d \in Devices : Issue(d)) \/ (\E n \in live : Pass(n))

Spec == Init /\ [][Next]_<<live, owner, passed>>
===============================================================================
