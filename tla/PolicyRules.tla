------------------------------ MODULE PolicyRules ------------------------------
(***************************************************************************)
(* What the rules of a policy say of a request: the matching of            *)
(* models/policy.go, without state.  PolicyEngine takes its result as the  *)
(* parameter Matching.                                                     *)
(*                                                                         *)
(* A matcher's patterns, attributes and tags and a policy's defaults are   *)
(* declared in the code and read by nothing, so they are not here.         *)
(***************************************************************************)
EXTENDS Integers, Sequences, FiniteSets, SequencesExt

(* A value of a request's field or of a condition, as encoding/json would   *)
(* write it: its kind and what it is.  A list holds values that are none.   *)
Value(kind, is) == [kind |-> kind, is |-> is]

Nil     == Value("nil", 0)
Bool(b) == Value("bool", b)
Num(n)  == Value("number", n)
Str(s)  == Value("string", s)
List(s) == Value("list", s)

(* A field that is not given: the empty string, a nil pointer.              *)
Unset == ""

-------------------------------------------------------------------------------
(* Who and what                                                            *)

Meet(s, t) == s \intersect t # {}

(* One group, role or identity is enough; a matcher with none matches       *)
(* nobody, unless it says any.                                              *)
MatchesSubject(matcher, subject) ==
  \/ matcher.any
  \/ Meet(matcher.groups, subject.groups)
  \/ Meet(matcher.roles, subject.roles)
  \/ \E identity \in matcher.identities :
       identity.type \in {Unset, subject.type} /\ identity.id \in {Unset, subject.id}

(* Types and ids must both agree where they are given; a matcher with none  *)
(* matches everything.                                                      *)
MatchesResource(matcher, resource) ==
  \/ matcher.any
  \/ /\ matcher.types = {} \/ resource.type \in matcher.types
     /\ matcher.ids = {} \/ resource.id \in matcher.ids

-------------------------------------------------------------------------------
(* Under which conditions                                                  *)

Attribute(attributes, field) ==
  IF field \in DOMAIN attributes THEN attributes[field] ELSE Nil

ContextValue(field, context) ==
  CASE field = "source_ip"            -> Str(context.sourceIP)
    [] field = "mfa_verified"         -> Bool(context.mfaVerified)
    [] field = "device_posture"       -> Str(context.devicePosture)
    [] field = "change_ticket.exists" -> Bool(context.ticket # {})
    [] field = "change_ticket.status" ->
         Str(IF context.ticket = {} THEN Unset ELSE CHOOSE status \in context.ticket : TRUE)
    [] field = "emergency.declared"   -> Bool(context.emergency)
    [] OTHER                          -> Attribute(context.custom, field)

TimeFields == {"hour", "day_of_week", "day_of_month", "month"}

TimeValue(field, time) == IF field \in TimeFields THEN Num(time[field]) ELSE Nil

(* Of a subject and of a resource alike: the type, the id, or an attribute. *)
OwnValue(field, thing) ==
  CASE field = "type" -> Str(thing.type)
    [] field = "id"   -> Str(thing.id)
    [] OTHER          -> Attribute(thing.attributes, field)

(* compareEqual compares the JSON of both.                                  *)
SameScalar(a, b) == a.kind = b.kind /\ a.is = b.is

CompareEqual(a, b) ==
  IF a.kind = "list" /\ b.kind = "list"
    THEN /\ Len(a.is) = Len(b.is)
         /\ \A i \in DOMAIN a.is : SameScalar(a.is[i], b.is[i])
    ELSE a.kind # "list" /\ SameScalar(a, b)

ContainsValue(container, value) ==
  container.kind = "list" /\ \E i \in DOMAIN container.is : CompareEqual(container.is[i], value)

CompareNumeric(op, actual, expected) ==
  /\ actual.kind = "number" /\ expected.kind = "number"
  /\ \/ op = "gt"  /\ actual.is > expected.is
     \/ op = "gte" /\ actual.is >= expected.is
     \/ op = "lt"  /\ actual.is < expected.is
     \/ op = "lte" /\ actual.is <= expected.is

(* "contains", "starts_with", "ends_with", "matches" and "between" are      *)
(* declared and compare nothing: they never hold.                           *)
CompareValues(op, actual, expected) ==
  \/ op = "eq"     /\ CompareEqual(actual, expected)
  \/ op = "ne"     /\ ~CompareEqual(actual, expected)
  \/ op = "in"     /\ ContainsValue(expected, actual)
  \/ op = "not_in" /\ ~ContainsValue(expected, actual)
  \/ op = "exists" /\ actual.kind # "nil"
  \/ CompareNumeric(op, actual, expected)

(* An external condition has no value; negated it holds when the            *)
(* comparison does not, whatever the reason.                                *)
EvaluateCondition(condition, req) ==
  LET value ==
        CASE condition.type = "context"  -> ContextValue(condition.field, req.context)
          [] condition.type = "time"     -> TimeValue(condition.field, req.context.time)
          [] condition.type = "subject"  -> OwnValue(condition.field, req.subject)
          [] condition.type = "resource" -> OwnValue(condition.field, req.resource)
          [] OTHER                       -> Nil
  IN  CompareValues(condition.operator, value, condition.value) # condition.negate

-------------------------------------------------------------------------------
MatchesRule(rule, req) ==
  /\ MatchesSubject(rule.subjects, req.subject)
  /\ MatchesResource(rule.resources, req.resource)
  /\ Meet(rule.actions, {req.action, "*"})
  /\ \A condition \in rule.conditions : EvaluateCondition(condition, req)

(* The rules of a definition that match, by position, and their effects in  *)
(* the order of the definition; priorities order nothing.                   *)
MatchingRules(rules, req) == {i \in DOMAIN rules : MatchesRule(rules[i], req)}

EffectsOf(rules, at) ==
  LET inOrder == SetToSortSeq(at, <) IN [i \in DOMAIN inOrder |-> rules[inOrder[i]].effect]

(* What the engine's cache takes a request to be.                           *)
CacheKey(req) == <<req.subject.id, req.resource.type, req.resource.id, req.action>>

(* EmergencyAccess asks the policies nothing.                               *)
EmergencyAccess(req) == req.context.emergency
(* A rule that looks at nothing but what the key holds.                     *)
LooksAtKeyOnly(rule) ==
  /\ rule.subjects.groups = {} /\ rule.subjects.roles = {}
  /\ \A identity \in rule.subjects.identities : identity.type = Unset
  /\ \A condition \in rule.conditions :
       <<condition.type, condition.field>> \in
         {<<"subject", "id">>, <<"resource", "id">>, <<"resource", "type">>}
================================================================================
