------------------------------ MODULE MCAuditLog ------------------------------
(***************************************************************************)
(* The audit log for TLC: two goroutines that log.                         *)
(***************************************************************************)
EXTENDS AuditLog, AuditEvents

CONSTANTS operations, alarms

MCCallers == {operations, alarms}

(* One logs deployments with nanosecond timestamps, the other failed        *)
(* attestations whose timestamps happen to be whole microseconds.           *)
Deployed == LogConfigEvent("config.deploy", 1, "core", "ann", "success", <<>>)
Rejected == LogAttestationEvent("device.attest_failed", 2, "core", "failure", <<>>)

MCShape ==
  [c \in MCCallers |-> IF c = operations THEN [class |-> "routine", nanos |-> TRUE]
                                         ELSE [class |-> "alerting", nanos |-> FALSE]]

ASSUME ShapesAgree ==
  MCShape[operations].class = ClassOf(Deployed) /\ MCShape[alarms].class = ClassOf(Rejected)

-------------------------------------------------------------------------------
(* What the calls log, with and without an actor, of types each knows and   *)
(* of a type it does not.                                                   *)
Actors == {Absent, "ann"}

Often(n) == [consecutive_failures |-> n]

Failures ==
  {LogIdentityEvent("identity.auth_failed", n, "bob", Absent, "failure", Often(n)) : n \in 4 .. 5}

Denials ==
  {LogOperationEvent("operation.denied", 3, "op", "core", actor, "denied", <<>>) : actor \in Actors}

Others ==
  UNION {{LogIdentityEvent("identity.delete", 4, "bob", actor, "success", <<>>),
          LogIdentityEvent("identity.auth_failed", 4, Absent, actor, "failure", <<>>),
          LogCapabilityEvent("capability.revoke", 5, "cap", actor, "success", <<>>),
          LogConfigEvent("operation.denied", 6, "core", actor, "denied", <<>>),
          LogSecurityEvent("security.alert", 7, "info", actor, "device", Absent, <<>>)}
         : actor \in Actors}

Logged == {Deployed, Rejected} \union Failures \union Denials \union Others

(* Whatever is logged through the calls, the notifier is given failed       *)
(* attestations, security events and the fifth failure of a login; a denied *)
(* operation never, for the calls grade none of them critical.              *)
ASSUME AlertsAre ==
  \A event \in Logged :
    ShouldAlert(event) <=>
      \/ event.type \in {"device.attest_failed", "security.alert"}
      \/ event.context = Often(5)

(* A query for anything or for one thing.                                   *)
Everything ==
  [from |-> {}, to |-> {}, types |-> {}, severities |-> {}, actor |-> Absent,
   actorType |-> Absent, resource |-> Absent, resourceType |-> Absent, result |-> Absent,
   capability |-> Absent, source |-> Absent]

Queries ==
  UNION {{[Everything EXCEPT !.from = {t}], [Everything EXCEPT !.to = {t}]} : t \in 1 .. 7}
    \union {[Everything EXCEPT !.types = SecurityTypes], [Everything EXCEPT !.actor = "ann"],
            [Everything EXCEPT !.severities = {"warning"}, !.result = "denied"],
            [Everything EXCEPT !.resource = "core", !.actorType = "operator"],
            [Everything EXCEPT !.capability = "cap"], [Everything EXCEPT !.source = "10.0.0.1"]}

(* The two repositories answer alike, except where a query names a          *)
(* capability or a source that an event does not have.                      *)
ASSUME RepositoriesAgree ==
  \A event \in Logged, query \in Queries :
    MatchesRow(event, query) # MatchesQuery(event, query) <=>
      \/ query.capability \notin {Absent, event.capability}
      \/ query.source \notin {Absent, event.source}

(* The counts by type, by severity and by result each add up to the total.  *)
ASSUME CountsAddUp ==
  LET events == <<Deployed, Rejected, Deployed>>
      stats  == EventStats(events, 1, 1)
  IN  /\ stats.total = 2 /\ stats.security = 0
      /\ \A by \in {stats.byType, stats.bySeverity, stats.byResult} :
           \A is \in DOMAIN by : by[is] = 2

(* A page has at least one event and at most a thousand.                    *)
ASSUME PagesBounded == \A limit \in {0, 1, 50, 999, 1000, 1001} : PageLimit(limit) \in 1 .. LargestLimit
===============================================================================
