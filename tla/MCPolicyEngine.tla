---------------------------- MODULE MCPolicyEngine ----------------------------
(***************************************************************************)
(* The policy engine for TLC: two policies, a content that allows, one     *)
(* that bans after allowing or demands a step-up and has an EffectiveUntil,*)
(* and two requests of one subject that differ in their context.           *)
(***************************************************************************)
EXTENDS PolicyEngine, PolicyRules

CONSTANTS allow, guard, plain, urgent, key

(* An operator who is on call declares an emergency, or does not.           *)
Asks(emergency) ==
  [subject  |-> [id |-> "ann", type |-> "operator", groups |-> {"oncall"}, roles |-> {},
                 attributes |-> <<>>],
   resource |-> [type |-> "device", id |-> "core", attributes |-> [zone |-> Str("lab")]],
   action   |-> "config.write",
   context  |-> [sourceIP |-> "10.0.0.1", mfaVerified |-> TRUE, devicePosture |-> Unset,
                 ticket |-> {"open"}, emergency |-> emergency, custom |-> <<>>,
                 time |-> [hour |-> 14, day_of_week |-> 1, day_of_month |-> 2, month |-> 3]]]

RequestOf == plain :> Asks(FALSE) @@ urgent :> Asks(TRUE)

Anybody    == [any |-> TRUE, groups |-> {}, roles |-> {}, identities |-> {}]
OnCall     == [Anybody EXCEPT !.any = FALSE, !.groups = {"oncall"}]
Ann        == [Anybody EXCEPT !.any = FALSE,
                              !.identities = {[type |-> "operator", id |-> "ann"]}]
Nobody     == [Anybody EXCEPT !.any = FALSE]
Everything == [any |-> FALSE, types |-> {}, ids |-> {}]
Devices    == [Everything EXCEPT !.types = {"device"}]
Core       == [Devices EXCEPT !.ids = {"core"}]

Condition(type, field, operator, value, negate) ==
  [type |-> type, field |-> field, operator |-> operator, value |-> value, negate |-> negate]

Emergency(value) == Condition("context", "emergency.declared", "eq", Bool(value), FALSE)
OfficeHours == {Condition("time", "hour", "gte", Num(8), FALSE),
                Condition("time", "hour", "lt", Num(18), FALSE)}
OpenTicket == Condition("context", "change_ticket.status", "in", List(<<Str("open")>>), FALSE)
InTheLab   == Condition("resource", "zone", "ne", Str("lab"), TRUE)

Rule(subjects, resources, actions, conditions, effect) ==
  [subjects |-> subjects, resources |-> resources, actions |-> actions,
   conditions |-> conditions, effect |-> effect]

RulesOf ==
  allow :> <<Rule(Nobody, Everything, {"*"}, {}, "deny"),
             Rule(OnCall, Devices, {"config.write"}, {Emergency(FALSE)}, "step_up"),
             Rule(Anybody, Everything, {"config.write", "config.read"}, OfficeHours, "allow")>> @@
  guard :> <<Rule(Ann, Core, {"*"}, {Emergency(FALSE), OpenTicket}, "allow"),
             Rule(Anybody, Core, {"config.write"}, {Emergency(FALSE), InTheLab}, "deny"),
             Rule(Ann, Devices, {"*"}, {Emergency(FALSE)}, "allow"),
             Rule(Anybody, Everything, {"*"}, {Emergency(TRUE)}, "step_up")>>

(* What the rules say of each request, and that the two requests are one to *)
(* the cache.                                                               *)
MCMatching ==
  allow :> (plain :> <<"step_up", "allow">> @@ urgent :> <<"allow">>) @@
  guard :> (plain :> <<"allow", "deny", "allow">> @@ urgent :> <<"step_up">>)

MCKey == plain :> key @@ urgent :> key

ASSUME RulesSay ==
  \A content \in {allow, guard}, r \in {plain, urgent} :
    MCMatching[content][r] =
      EffectsOf(RulesOf[content], MatchingRules(RulesOf[content], RequestOf[r]))

ASSUME KeysShared ==
  \A q, r \in {plain, urgent} : CacheKey(RequestOf[q]) = CacheKey(RequestOf[r]) <=> MCKey[q] = MCKey[r]

-------------------------------------------------------------------------------
(* The loop over a policy's rules, against what it amounts to: a denial     *)
(* anywhere, else the last rule that matches.                               *)
ASSUME LastRuleUnlessDenied ==
  \A said \in SeqOf(Effects, 4) \ {<<>>} :
    FoldLeft(NextRule, None, said) = IF "deny" \in ToSet(said) THEN "deny" ELSE Last(said)

(* Comparisons, over values of every kind: equality is an equivalence,      *)
(* numbers alone are ordered, and of two operators that are each other's    *)
(* contrary exactly one holds, except of what is no number.                 *)
Sample == {Nil, Bool(TRUE), Num(1), Num(2), Str("1"), List(<<Num(1), Str("1")>>), List(<<>>)}

ASSUME ComparisonsAgree ==
  \A a, b \in Sample :
    /\ CompareEqual(a, b) <=> a = b
    /\ CompareValues("eq", a, b) # CompareValues("ne", a, b)
    /\ CompareValues("in", a, b) # CompareValues("not_in", a, b)
    /\ CompareValues("in", a, List(<<b>>)) <=> CompareEqual(a, b)
    /\ (CompareValues("lt", a, b) # CompareValues("gte", a, b)) <=> {a, b} \subseteq {Num(1), Num(2)}
===============================================================================
