------------------------------ MODULE AuditEvents ------------------------------
(***************************************************************************)
(* What the services put in the audit log and what is read out of it again,*)
(* without state: the events of the Log...Event calls of audit/service.go, *)
(* which of them alert, and the filters and counts of audit/repository.go. *)
(* AuditLog takes an event's class, alerting or routine, as a parameter.   *)
(***************************************************************************)
EXTENDS Integers, Sequences, FiniteSets

(* A field that is not given: an empty string, a nil pointer.               *)
Absent == ""

(* NewAuditEventBuilder: the event at first.                                *)
NewAuditEvent(type, at) ==
  [type |-> type, at |-> at, severity |-> "info", result |-> "success", flags |-> {},
   actor |-> Absent, actorType |-> Absent, resourceType |-> Absent, resource |-> Absent,
   capability |-> Absent, operation |-> Absent, source |-> Absent, context |-> <<>>]

(* What the six calls have in common: the actor, if there is one, counts as *)
(* an operator, whoever it is.                                              *)
WithActor(event, actor) ==
  IF actor = Absent THEN event
                    ELSE [event EXCEPT !.actor = actor, !.actorType = "operator"]

WithResource(event, type, id) ==
  IF id = Absent THEN event ELSE [event EXCEPT !.resourceType = type, !.resource = id]

About(type, at, actor, resourceType, resource, details) ==
  [WithResource(WithActor(NewAuditEvent(type, at), actor), resourceType, resource)
     EXCEPT !.context = details]

(* The severity and the security flags that a call gives an event for its   *)
(* type; of a type it does not know, info and none.                         *)
GradeOf(type) ==
  CASE type = "identity.auth_failed"  -> [severity |-> "warning",  flags |-> {"auth_failure"}]
    [] type = "identity.delete"       -> [severity |-> "warning",  flags |-> {}]
    [] type = "capability.revoke"     -> [severity |-> "warning",  flags |-> {}]
    [] type = "operation.denied"      -> [severity |-> "warning",  flags |-> {"access_denied"}]
    [] type = "operation.failed"      -> [severity |-> "error",    flags |-> {}]
    [] type = "config.rollback"       -> [severity |-> "warning",  flags |-> {}]
    [] type = "device.attest_failed"  -> [severity |-> "critical", flags |-> {"attestation_failure"}]
    [] OTHER                          -> [severity |-> "info",     flags |-> {}]

(* A call grades the types it knows, whatever type it is given.             *)
Graded(event, result, known) ==
  LET grade == GradeOf(IF event.type \in known THEN event.type ELSE Absent)
  IN  [event EXCEPT !.severity = grade.severity, !.flags = grade.flags, !.result = result]

LogIdentityEvent(type, at, identity, actor, result, details) ==
  Graded(About(type, at, actor, "identity", identity, details), result,
         {"identity.auth_failed", "identity.delete"})

LogCapabilityEvent(type, at, capability, actor, result, details) ==
  [Graded(About(type, at, actor, "capability", capability, details), result,
          {"capability.revoke"})
     EXCEPT !.capability = capability]

LogOperationEvent(type, at, operation, device, actor, result, details) ==
  [Graded(About(type, at, actor, "device", device, details), result,
          {"operation.denied", "operation.failed"})
     EXCEPT !.operation = operation]

LogConfigEvent(type, at, device, actor, result, details) ==
  Graded(About(type, at, actor, "device", device, details), result, {"config.rollback"})

LogAttestationEvent(type, at, device, result, details) ==
  Graded(About(type, at, Absent, "device", device, details), result, {"device.attest_failed"})

(* A security event has the severity it is given, and always failed.        *)
LogSecurityEvent(type, at, severity, actor, resourceType, resource, details) ==
  [About(type, at, actor, resourceType, resource, details)
     EXCEPT !.severity = severity, !.result = "failure", !.flags = {"security_event"}]

-------------------------------------------------------------------------------
(* Alerts                                                                  *)

SecurityTypes == {"security.alert", "security.incident", "security.violation"}

FailuresToAlert == 5

ShouldAlert(event) ==
  \/ event.type \in SecurityTypes \union {"device.attest_failed"}
  \/ /\ event.type = "identity.auth_failed"
     /\ "consecutive_failures" \in DOMAIN event.context
     /\ event.context["consecutive_failures"] >= FailuresToAlert
  \/ event.type = "operation.denied" /\ event.severity = "critical"

ClassOf(event) == IF ShouldAlert(event) THEN "alerting" ELSE "routine"

-------------------------------------------------------------------------------
(* Queries                                                                 *)

DefaultLimit == 50
LargestLimit == 1000

PageLimit(limit) ==
  CASE limit = 0            -> DefaultLimit
    [] limit > LargestLimit -> LargestLimit
    [] OTHER                -> limit

Agrees(wanted, is) == wanted \in {Absent, is}
AmongIfAny(wanted, is) == wanted = {} \/ is \in wanted

(* The filters both repositories have; from and to hold one time, or none.  *)
MatchesQuery(event, query) ==
  /\ \A from \in query.from : event.at >= from
  /\ \A to \in query.to : event.at <= to
  /\ AmongIfAny(query.types, event.type)
  /\ AmongIfAny(query.severities, event.severity)
  /\ Agrees(query.actor, event.actor) /\ Agrees(query.actorType, event.actorType)
  /\ Agrees(query.resource, event.resource) /\ Agrees(query.resourceType, event.resourceType)
  /\ Agrees(query.result, event.result)

(* The table's query asks for the capability and the source as well; the    *)
(* operation a query names is looked at by neither repository.              *)
MatchesRow(event, query) ==
  /\ MatchesQuery(event, query)
  /\ Agrees(query.capability, event.capability)
  /\ Agrees(query.source, event.source)

(* GetStats, of the events of a period.                                     *)
EventStats(events, from, to) ==
  LET within == {i \in DOMAIN events : from <= events[i].at /\ events[i].at <= to}
      Count(types) == Cardinality({i \in within : events[i].type \in types})
      By(field) == [is \in {events[i][field] : i \in within} |->
                      Cardinality({i \in within : events[i][field] = is})]
  IN  [total    |-> Cardinality(within),
       byType   |-> By("type"), bySeverity |-> By("severity"), byResult |-> By("result"),
       security |-> Count(SecurityTypes),
       failed   |-> Count({"identity.auth_failed"}),
       denied   |-> Count({"operation.denied"})]
================================================================================
