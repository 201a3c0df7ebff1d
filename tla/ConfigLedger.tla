----------------------------- MODULE ConfigLedger -----------------------------
(***************************************************************************)
(* What the configuration manager promises of a device's history: a list   *)
(* of configurations that only grows at its end.  The outcome of a         *)
(* deployment is recorded with an entry; nothing else about it changes, no *)
(* entry is lost, replaced or moved, and no entry becomes pending again.   *)
(***************************************************************************)
EXTENDS Naturals, Sequences

CONSTANTS Devices, Configs

VARIABLE ledger

Outcomes == {"applied", "failed", "rolled_back"}

Init == ledger = [d \in Devices |-> <<>>]

Extend(d, config) ==
  ledger' = [ledger EXCEPT ![d] = Append(@, [config |-> config, status |-> "pending"])]

Settle(d, n, outcome) ==
  ledger' = [ledger EXCEPT ![d][n].status = outcome]

Next ==
  \E d \in Devices :
    \/ \E config \in Configs : Extend(d, config)
    \/ \E n \in DOMAIN ledger[d], outcome \in Outcomes : Settle(d, n, outcome)

Spec == Init /\ [][Next]_ledger
===============================================================================
