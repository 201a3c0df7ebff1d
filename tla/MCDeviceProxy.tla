---------------------------- MODULE MCDeviceProxy ----------------------------
(***************************************************************************)
(* The issuer and the proxy for TLC: a router and a switch, a token that   *)
(* reads both, writes routers and may be delegated once for writing, and a *)
(* share that asks for more than that.                                     *)
(***************************************************************************)
EXTENDS DeviceProxy, TLC

CONSTANTS read, write, router, switch

AllNames == {router, switch, Blank}

Everything == [type |-> DeviceType, id |-> Blank, ids |-> AllNames]
Routers == [type |-> DeviceType, id |-> Blank, ids |-> {router}]
TheRouter == [type |-> DeviceType, id |-> router, ids |-> AllNames]
TheSwitch == [type |-> DeviceType, id |-> switch, ids |-> AllNames]

MCSelectors == {Everything, Routers, TheRouter, TheSwitch}

Asked(s, actions) ==
  [selector |-> s, actions |-> actions, approval |-> FALSE, quorum |-> 0, denied |-> {}]

MCRequests ==
  {[grants |-> 1 :> Asked(Routers, {read, write}) @@ 2 :> Asked(TheSwitch, {read}),
    duration |-> 0,
    delegation |-> [depth |-> 1, actions |-> {write}]]}

MCShares ==
  {1 :> Asked(Everything, {write}) @@ 2 :> Asked(TheRouter, {read, write})}

CallersAlike == Permutations(Callers)
===============================================================================
