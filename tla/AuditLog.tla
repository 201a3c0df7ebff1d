------------------------------- MODULE AuditLog -------------------------------
(***************************************************************************)
(* The audit log of internal/audit: Service (service.go), which chains     *)
(* every event to the previous one by hash, over its Repository            *)
(* (repository.go) and the table behind it (schema.sql).                   *)
(*                                                                         *)
(* A hash is modelled as the list of the contents it covers: EventHash is  *)
(* a collision-free function of PrevHash and of the event's own content,   *)
(* so it determines the whole history that leads to the event.  nil is the *)
(* empty list.                                                             *)
(***************************************************************************)
EXTENDS Integers, Sequences, FiniteSets

CONSTANTS
  Replicas,     (* audit.Service instances that share one repository       *)
  Callers,      (* goroutines calling Log                                  *)
  Verifiers,    (* goroutines calling VerifyChain                          *)
  Backends,     (* repositories explored, see OnTable                      *)
  Shape,        (* per caller: class and timestamp precision of its events *)
  Free,         (* the mutex has no holder                                 *)
  MaxEvents,    (* bound on events built                                   *)
  MaxFailures,  (* bound on refused and lost inserts, per behaviour        *)
  MaxCrashes,   (* bound on process crashes                                *)
  MaxDamage     (* bound on rows damaged outside the service               *)

ASSUME BackendsAssumption == Backends \subseteq {"memory", "postgres", "postgres_fixed"}
ASSUME ShapeAssumption ==
  Shape \in [Callers -> [class : {"routine", "alerting"}, nanos : BOOLEAN]]
ASSUME FreeAssumption == Free \notin Callers \union Replicas
ASSUME BoundsAssumption ==
  MaxEvents \in Nat /\ MaxFailures \in Nat /\ MaxCrashes \in Nat /\ MaxDamage \in Nat

VARIABLES
  backend,   (* the repository implementation in use                       *)
  rows,      (* the stored events, in insertion order                      *)
  nextval,   (* audit_sequence_seq of the schema                           *)
  svc,       (* per replica: running or not, lastEvent, sequence, chainValid *)
  mu,        (* per replica: the holder of Service.mu                      *)
  call,      (* per caller: where its Log call is, and its event           *)
  check,     (* per verifier: its VerifyChain call                         *)
  built,     (* builders created so far: gives each event its identity     *)
  acked,     (* history: the events Log returned, in that order           *)
  offered,   (* history: contents of the events given to the notifier      *)
  faults,    (* history: which repository faults have occurred             *)
  damage,    (* rows damaged so far                                        *)
  crashes,   (* crashes so far                                             *)
  failures   (* refused or lost inserts so far                             *)

vars == <<backend, rows, nextval, svc, mu, call, check, built, acked, offered,
          faults, damage, crashes, failures>>

(* The in-memory repository, or the table of schema.sql.  As written, the   *)
(* INSERT of PostgresRepository names its column "source_ip::text", which   *)
(* PostgreSQL rejects as a syntax error; "postgres_fixed" is the same       *)
(* repository with the column named source_ip, as its SELECTs intend.       *)
OnTable == backend # "memory"
Accepts == backend # "postgres"

(* Event types checkSecurityAlert gives to the notifier, and the others.   *)
Classes == {"routine", "alerting"}

(* What the hash covers of an event besides the link: body stands for the   *)
(* fields together (neither the id nor the sequence are among them), class  *)
(* for the event type, and nanos tells whether the timestamp has digits     *)
(* below the microsecond.                                                   *)
Content == [body : Nat, class : Classes, nanos : BOOLEAN]
Hash    == Seq(Content)
Row     == [content : Content, seq : Nat, prev : Hash, hash : Hash]

(* A service's memory, a caller's Log and a verifier's VerifyChain.         *)
Service == [up : BOOLEAN, last : Hash, seq : Nat, valid : BOOLEAN]
Call    == [pc : {"idle", "lock", "append", "ok", "error", "alert"},
            at : Replicas \union {Free}, event : Row]
Check   == [pc : {"idle", "reading", "done"}, at : Replicas \union {Free},
            seen : Seq(Row), valid : BOOLEAN]

ComputeHash(prev, content) == Append(prev, content)

Garbled == [body |-> 0, class |-> "routine", nanos |-> FALSE]
NoEvent == [content |-> Garbled, seq |-> 0, prev |-> <<>>, hash |-> <<>>]
Idle    == [pc |-> "idle", at |-> Free, event |-> NoEvent]
NoCheck == [pc |-> "idle", at |-> Free, seen |-> <<>>, valid |-> TRUE]

(* No sequence number of a behaviour is larger.                            *)
MaxSequence == MaxEvents + MaxFailures

-------------------------------------------------------------------------------
(* Verification, as the service computes it.                               *)

(* TIMESTAMPTZ keeps microseconds: a row read back from PostgreSQL has lost *)
(* the nanoseconds the hash was computed from.                              *)
ReadBack(row) ==
  IF OnTable THEN [row EXCEPT !.content.nanos = FALSE] ELSE row

Verify(row) == row.hash = ComputeHash(row.prev, row.content)

(* Bug: the link is judged by its number alone.                             *)
VerifyLinkBySequence(row, previous) == row.seq = previous.seq + 1

VerifyLink(row, previous) ==
  /\ row.seq = previous.seq + 1
  /\ row.prev = previous.hash

(* The loop of VerifyChain; the first event's link is not examined.         *)
RangeValid(seen) ==
  \A i \in DOMAIN seen :
    /\ Verify(seen[i])
    /\ i > 1 => VerifyLink(seen[i], seen[i - 1])

(* The rows numbered from .. to, in order.  The rows are sorted by number   *)
(* (SequenceOrder), so these are the ones between two positions.            *)
Before(number) == Cardinality({i \in DOMAIN rows : rows[i].seq < number})

GetEventRange(from, to) ==
  LET found == SubSeq(rows, Before(from) + 1, Before(to + 1))
  IN  [i \in 1 .. Len(found) |-> ReadBack(found[i])]

VerifyEvent(row) ==
  /\ Verify(ReadBack(row))
  /\ row.seq > 1 => \E k \in DOMAIN rows :
                      /\ rows[k].seq = row.seq - 1
                      /\ VerifyLink(row, rows[k])

(* A page of Query without filters: PostgreSQL counts from the newest event *)
(* back, the in-memory repository from the oldest on.                       *)
Query(offset, limit) ==
  LET n      == Len(rows)
      At(i)  == IF OnTable THEN rows[n + 1 - i] ELSE rows[i]
      last  == IF limit < n - offset THEN limit ELSE n - offset
  IN  [i \in 1 .. last |-> At(offset + i)]

(* Export links each event of the page to the one before it in the page.    *)
ExportValid(events) ==
  \A i \in 2 .. Len(events) : VerifyLink(events[i], events[i - 1])

-------------------------------------------------------------------------------
Init ==
  /\ backend \in Backends
  /\ rows = <<>>
  /\ nextval = 1
  /\ svc = [r \in Replicas |-> [up |-> TRUE, last |-> <<>>, seq |-> 0, valid |-> TRUE]]
  /\ mu = [r \in Replicas |-> Free]
  /\ call = [c \in Callers |-> Idle]
  /\ check = [v \in Verifiers |-> NoCheck]
  /\ built = 0
  /\ acked = <<>>
  /\ offered = {}
  /\ faults = {}
  /\ damage = 0
  /\ crashes = 0
  /\ failures = 0

-------------------------------------------------------------------------------
(* Log                                                                     *)

(* A goroutine creates its builder, which fixes the event's id, type and    *)
(* timestamp, calls Log and waits for Service.mu.                           *)
Request(c, r) ==
  /\ call[c].pc = "idle"
  /\ svc[r].up
  /\ built < MaxEvents
  /\ built' = built + 1
  /\ call' = [call EXCEPT ![c] =
                [pc |-> "lock", at |-> r, event |->
                   [NoEvent EXCEPT !.content =
                      [body |-> built + 1, class |-> Shape[c].class, nanos |-> Shape[c].nanos]]]]
  /\ UNCHANGED <<backend, rows, nextval, svc, mu, check, acked, offered, faults, damage,
                 crashes, failures>>

(* Bug: the hash does not cover the link.                                   *)
BuildUnlinked(service, event) ==
  [event EXCEPT !.seq  = service.seq + 1,
                !.prev = service.last,
                !.hash = ComputeHash(<<>>, event.content)]

(* Build: the event is placed after lastEvent, at the next sequence.        *)
BuildAfter(service, event) ==
  [event EXCEPT !.seq  = service.seq + 1,
                !.prev = service.last,
                !.hash = ComputeHash(service.last, event.content)]

(* Bug: the chain state is read and advanced without the lock.              *)
AcquireUnlocked(c) ==
  LET r == call[c].at
  IN  /\ call[c].pc = "lock"
      /\ mu' = [mu EXCEPT ![r] = c]
      /\ svc' = [svc EXCEPT ![r].seq = @ + 1]
      /\ call' = [call EXCEPT ![c].pc = "append",
                              ![c].event = BuildAfter(svc[r], call[c].event)]
      /\ UNCHANGED <<backend, rows, nextval, check, built, acked, offered, faults, damage,
                     crashes, failures>>

(* It takes the lock, increments the sequence and builds its event.         *)
Acquire(c) ==
  LET r == call[c].at
  IN  /\ call[c].pc = "lock"
      /\ mu[r] = Free
      /\ mu' = [mu EXCEPT ![r] = c]
      /\ svc' = [svc EXCEPT ![r].seq = @ + 1]
      /\ call' = [call EXCEPT ![c].pc = "append",
                              ![c].event = BuildAfter(svc[r], call[c].event)]
      /\ UNCHANGED <<backend, rows, nextval, check, built, acked, offered, faults, damage,
                     crashes, failures>>

(* Bug: the table keeps the number the service sent.                        *)
StoredAsSent(event) == event

(* The row as the table keeps it: the trigger of schema.sql replaces the    *)
(* sequence the service chose by the next value of its own counter.         *)
Stored(event) ==
  IF OnTable THEN [event EXCEPT !.seq = nextval] ELSE event

NextValue == IF OnTable THEN nextval + 1 ELSE nextval

(* Repository.Append stores the event.  Only PostgreSQL can still report an *)
(* error: the reply is lost after the insert took effect.                   *)
Insert(c, answer) ==
  /\ call[c].pc = "append"
  /\ Accepts
  /\ rows' = Append(rows, Stored(call[c].event))
  /\ nextval' = NextValue
  /\ call' = [call EXCEPT ![c].pc = answer]
  /\ \/ /\ answer = "ok"
        /\ UNCHANGED <<faults, failures>>
     \/ /\ answer = "error"
        /\ OnTable
        /\ failures < MaxFailures
        /\ failures' = failures + 1
        /\ faults' = faults \union {"lost reply"}
  /\ UNCHANGED <<backend, svc, mu, check, built, acked, offered, damage, crashes>>

(* Append refuses the event: a constraint fails after the trigger has drawn *)
(* a sequence number (nextval is not rolled back), or before it ran.        *)
Refuse(c, drawn) ==
  /\ call[c].pc = "append"
  /\ Accepts
  /\ OnTable
  /\ failures < MaxFailures
  /\ failures' = failures + 1
  /\ nextval' = IF drawn THEN nextval + 1 ELSE nextval
  /\ faults' = IF drawn THEN faults \union {"gap"} ELSE faults
  /\ call' = [call EXCEPT ![c].pc = "error"]
  /\ UNCHANGED <<backend, rows, svc, mu, check, built, acked, offered, damage, crashes>>

(* Append as written over PostgreSQL: the statement does not parse.         *)
Reject(c) ==
  /\ call[c].pc = "append"
  /\ ~Accepts
  /\ call' = [call EXCEPT ![c].pc = "error"]
  /\ UNCHANGED <<backend, rows, nextval, svc, mu, check, built, acked, offered, faults,
                 damage, crashes, failures>>

(* What the error return leaves alone.                                      *)
FailFrame == UNCHANGED <<backend, rows, nextval, check, built, acked, offered, faults,
                         damage, crashes, failures>>

(* Bug: the error return gives the number back twice.                       *)
FailDecrementsTwice(c) ==
  /\ call[c].pc = "error"
  /\ svc' = [svc EXCEPT ![call[c].at].seq = @ - 2]
  /\ mu' = [mu EXCEPT ![call[c].at] = Free]
  /\ call' = [call EXCEPT ![c] = Idle]
  /\ FailFrame

(* Bug: it keeps the lock.                                                  *)
FailKeepsLock(c) ==
  /\ call[c].pc = "error"
  /\ svc' = [svc EXCEPT ![call[c].at].seq = @ - 1]
  /\ call' = [call EXCEPT ![c] = Idle]
  /\ UNCHANGED mu /\ FailFrame

(* Log's error return: sequence--, and the deferred unlock.                 *)
Fail(c) ==
  LET r == call[c].at
  IN  /\ call[c].pc = "error"
      /\ svc' = [svc EXCEPT ![r].seq = @ - 1]
      /\ mu' = [mu EXCEPT ![r] = Free]
      /\ call' = [call EXCEPT ![c] = Idle]
      /\ FailFrame

(* Log returns the event and releases the lock.                             *)
Return(c) ==
  /\ mu' = [mu EXCEPT ![call[c].at] = Free]
  /\ call' = [call EXCEPT ![c] = Idle]
  /\ acked' = Append(acked, call[c].event)

(* Bug: the call returns without looking for an alert.                      *)
SucceedSilently(c) ==
  /\ call[c].pc = "ok"
  /\ svc' = [svc EXCEPT ![call[c].at].last = call[c].event.hash]
  /\ Return(c)
  /\ UNCHANGED <<backend, rows, nextval, check, built, offered, faults, damage, crashes,
                 failures>>

(* Append succeeded: the event becomes lastEvent; an alerting one goes to   *)
(* the notifier while the lock is still held.                               *)
Succeed(c) ==
  LET r == call[c].at
  IN  /\ call[c].pc = "ok"
      /\ svc' = [svc EXCEPT ![r].last = call[c].event.hash]
      /\ IF call[c].event.content.class = "alerting"
           THEN /\ call' = [call EXCEPT ![c].pc = "alert"]
                /\ UNCHANGED <<mu, acked>>
           ELSE Return(c)
      /\ UNCHANGED <<backend, rows, nextval, check, built, offered, faults, damage,
                     crashes, failures>>

(* SendAlert returns; its error is only logged.                             *)
Alert(c) ==
  /\ call[c].pc = "alert"
  /\ offered' = offered \union {call[c].event.content}
  /\ Return(c)
  /\ UNCHANGED <<backend, rows, nextval, svc, check, built, faults, damage, crashes,
                 failures>>

-------------------------------------------------------------------------------
(* VerifyChain: the rows are read in one query, then examined; Service.mu   *)
(* is not taken.                                                            *)
VerifyRead(v, r, from, to) ==
  /\ check[v].pc = "idle"
  /\ svc[r].up
  /\ check' = [check EXCEPT ![v] = [pc |-> "reading", at |-> r, valid |-> TRUE,
                                    seen |-> GetEventRange(from, to)]]
  /\ UNCHANGED <<backend, rows, nextval, svc, mu, call, built, acked, offered, faults,
                 damage, crashes, failures>>

(* The query fails: the verdict is "not valid", with the error.             *)
VerifyReadFails(v, r) ==
  /\ check[v].pc = "idle"
  /\ svc[r].up
  /\ OnTable
  /\ check' = [check EXCEPT ![v] = [pc |-> "done", at |-> r, valid |-> FALSE, seen |-> <<>>]]
  /\ UNCHANGED <<backend, rows, nextval, svc, mu, call, built, acked, offered, faults,
                 damage, crashes, failures>>

VerifyReport(v) ==
  LET r     == check[v].at
      valid == RangeValid(check[v].seen)
  IN  /\ check[v].pc = "reading"
      /\ check' = [check EXCEPT ![v].pc = "done", ![v].valid = valid]
      /\ svc' = IF check[v].seen = <<>> THEN svc ELSE [svc EXCEPT ![r].valid = valid]
      /\ UNCHANGED <<backend, rows, nextval, mu, call, built, acked, offered, faults,
                     damage, crashes, failures>>

(* The caller of VerifyChain has used the verdict.                          *)
VerifyEnd(v) ==
  /\ check[v].pc = "done"
  /\ check' = [check EXCEPT ![v] = NoCheck]
  /\ UNCHANGED <<backend, rows, nextval, svc, mu, call, built, acked, offered, faults,
                 damage, crashes, failures>>

-------------------------------------------------------------------------------
(* The process and the storage                                             *)

(* The process dies: its memory and its calls are gone, and with them the   *)
(* in-memory repository.                                                    *)
Crash(r) ==
  /\ svc[r].up
  /\ crashes < MaxCrashes
  /\ crashes' = crashes + 1
  /\ svc' = [svc EXCEPT ![r] = [up |-> FALSE, last |-> <<>>, seq |-> 0, valid |-> TRUE]]
  /\ mu' = [mu EXCEPT ![r] = Free]
  /\ call' = [c \in Callers |-> IF call[c].at = r THEN Idle ELSE call[c]]
  /\ check' = [v \in Verifiers |-> IF check[v].at = r THEN NoCheck ELSE check[v]]
  /\ IF ~OnTable
       THEN rows' = <<>> /\ acked' = <<>> /\ offered' = {}
       ELSE UNCHANGED <<rows, acked, offered>>
  /\ UNCHANGED <<backend, nextval, built, faults, damage, failures>>

IsLastEvent(i) ==
  /\ i \in DOMAIN rows
  /\ \A j \in DOMAIN rows : rows[j].seq <= rows[i].seq

(* Bug: the service starts without reading the last event.                  *)
RestartBlank(r) ==
  /\ ~svc[r].up
  /\ svc' = [svc EXCEPT ![r].up = TRUE]
  /\ UNCHANGED <<backend, rows, nextval, mu, call, check, built, acked, offered, faults,
                 damage, crashes, failures>>

(* NewService: the chain state comes from GetLastEvent; when that read      *)
(* fails the error is dropped and the service starts as on an empty log.    *)
Restart(r) ==
  /\ ~svc[r].up
  /\ \/ /\ rows = <<>>
        /\ svc' = [svc EXCEPT ![r].up = TRUE]
        /\ UNCHANGED faults
     \/ \E i \in DOMAIN rows :
          /\ IsLastEvent(i)
          /\ svc' = [svc EXCEPT ![r] = [up |-> TRUE, last |-> rows[i].hash,
                                        seq |-> rows[i].seq, valid |-> TRUE]]
        /\ UNCHANGED faults
     \/ /\ OnTable
        /\ rows # <<>>
        /\ svc' = [svc EXCEPT ![r].up = TRUE]
        /\ faults' = faults \union {"blind start"}
  /\ UNCHANGED <<backend, rows, nextval, mu, call, check, built, acked, offered, damage,
                 crashes, failures>>

(* A stored event is altered, or lost from the table, behind the service's  *)
(* back.                                                                    *)
Damage(i) ==
  /\ damage < MaxDamage
  /\ damage' = damage + 1
  /\ \/ rows' = [rows EXCEPT ![i].content = Garbled]
     \/ /\ OnTable
        /\ rows' = SubSeq(rows, 1, i - 1) \o SubSeq(rows, i + 1, Len(rows))
  /\ UNCHANGED <<backend, nextval, svc, mu, call, check, built, acked, offered, faults,
                 crashes, failures>>

-------------------------------------------------------------------------------
LogStep(c) ==
  \/ Acquire(c)
  \/ \E answer \in {"ok", "error"} : Insert(c, answer)
  \/ \E drawn \in BOOLEAN : Refuse(c, drawn)
  \/ Reject(c)
  \/ Fail(c)
  \/ Succeed(c)
  \/ Alert(c)

Next ==
  \/ \E c \in Callers, r \in Replicas : Request(c, r)
  \/ \E c \in Callers : LogStep(c)
  \/ \E v \in Verifiers, r \in Replicas, from, to \in 1 .. MaxSequence :
        VerifyRead(v, r, from, to)
  \/ \E v \in Verifiers, r \in Replicas : VerifyReadFails(v, r)
  \/ \E v \in Verifiers : VerifyReport(v) \/ VerifyEnd(v)
  \/ \E r \in Replicas : Crash(r) \/ Restart(r)
  \/ \E i \in DOMAIN rows : Damage(i)

(* The repository answers.                                                  *)
Answer(c) == (\E answer \in {"ok", "error"} : Insert(c, answer)) \/ Reject(c)

(* Callers of Log may stop coming and nothing has to fail; but a call that  *)
(* has begun goes on: the runtime hands the mutex to every waiter in turn,  *)
(* and the repository and the notifier answer.                              *)
Fairness ==
  \A c \in Callers :
    /\ SF_vars(Acquire(c))
    /\ WF_vars(Answer(c) \/ Fail(c) \/ Succeed(c) \/ Alert(c))

Spec == Init /\ [][Next]_vars /\ Fairness

-------------------------------------------------------------------------------
(* Properties                                                              *)

TypeOK ==
  /\ backend \in Backends
  /\ rows \in Seq(Row)
  /\ nextval \in Nat \ {0}
  /\ svc \in [Replicas -> Service]
  /\ mu \in [Replicas -> Callers \union {Free}]
  /\ call \in [Callers -> Call]
  /\ check \in [Verifiers -> Check]
  /\ built \in Nat
  /\ acked \in Seq(Row)
  /\ offered \subseteq Content
  /\ faults \subseteq {"lost reply", "gap", "blind start"}
  /\ damage \in Nat
  /\ crashes \in Nat
  /\ failures \in Nat

(* Nothing but crashes and plainly refused inserts has disturbed the log.   *)
Pristine == faults = {} /\ damage = 0

PrevHash(i) == IF i = 1 THEN <<>> ELSE rows[i - 1].hash

(* The chain: numbered from 1 without a gap, each event hashing itself and  *)
(* naming the hash of the one before.                                       *)
Linked ==
  \A i \in DOMAIN rows :
    /\ rows[i].seq = i
    /\ rows[i].prev = PrevHash(i)
    /\ Verify(rows[i])

(* Log keeps one unbroken chain, whatever the interleaving of callers and   *)
(* wherever the process crashed, as long as the repository was honest.      *)
ChainIntact == Pristine => Linked

(* The stored sequence numbers strictly increase, through lost replies,     *)
(* drawn and unused numbers, restarts on a failed read, and lost rows.      *)
SequenceOrder == \A i, j \in DOMAIN rows : i < j => rows[i].seq < rows[j].seq

(* An event Log returned is in the log as returned: number, link and hash.  *)
AckedAsStored == Pristine => \A k \in DOMAIN acked : \E n \in DOMAIN rows : rows[n] = acked[k]

Positions(event) == {n \in DOMAIN rows : rows[n].content = event.content}

(* The log keeps every event Log returned, in the order of the returns,     *)
(* even when other inserts were lost or repeated in between.                *)
AckedInOrder ==
  damage = 0 =>
    \A i, j \in DOMAIN acked :
      /\ Positions(acked[i]) # {}
      /\ i < j => \A m \in Positions(acked[i]), n \in Positions(acked[j]) : m < n

(* The notifier is given stored events only, and was given an alerting      *)
(* event before Log returned it.                                            *)
AlertsFollowLog ==
  /\ \A k \in DOMAIN acked :
       acked[k].content.class = "alerting" => acked[k].content \in offered
  /\ damage = 0 => \A content \in offered : \E n \in DOMAIN rows : rows[n].content = content

(* A verdict "valid" means that the events read are consecutive events of   *)
(* one history: the hash of the last one covers exactly their contents, in  *)
(* this order, at its end.  Rows altered or lost in between cannot pass.    *)
ValidMeansHistory ==
  \A v \in Verifiers :
    LET seen == check[v].seen
        n    == Len(seen)
    IN  check[v].pc = "done" /\ check[v].valid /\ n > 0 =>
          LET covered == seen[n].hash
          IN  /\ Len(covered) >= n
              /\ \A i \in 1 .. n : covered[Len(covered) - n + i] = seen[i].content

(* Every check of the service accepts an intact log: VerifyChain on any     *)
(* range, VerifyEvent on any event, and Export of any page.                 *)
IntactLogVerifies ==
  Pristine =>
    /\ \A from, to \in 1 .. MaxSequence : RangeValid(GetEventRange(from, to))
    /\ \A n \in DOMAIN rows : VerifyEvent(rows[n])
    /\ \A offset \in 0 .. Len(rows), limit \in 0 .. MaxSequence : ExportValid(Query(offset, limit))

(* It does over the in-memory repository: PostgreSQL keeps microseconds,    *)
(* numbers with gaps and lists backwards.                                   *)
MemoryLogVerifies == ~OnTable => IntactLogVerifies

(* A call of Log ends, by returning, failing or dying with its process.     *)
LogReturns == \A c \in Callers : call[c].pc # "idle" ~> call[c].pc = "idle"

-------------------------------------------------------------------------------
(* The inductive invariant behind the proofs                               *)

Holding(c) == call[c].pc \in {"append", "ok", "error", "alert"}

(* Calls live in running processes; one caller at most is past Lock, and the *)
(* sequence it took is there to be given back.                              *)
Locked ==
  /\ \A c \in Callers : call[c].pc # "idle" => call[c].at \in Replicas /\ svc[call[c].at].up
  /\ \A c \in Callers : Holding(c) => mu[call[c].at] = c
  /\ \A c \in Callers : call[c].pc \in {"append", "ok", "error"} => svc[call[c].at].seq > 0
  /\ \A r \in Replicas : ~svc[r].up => svc[r].seq = 0 /\ svc[r].last = <<>>

TailHash == IF rows = <<>> THEN <<>> ELSE rows[Len(rows)].hash

(* The number a service has in memory, compared with the rows: one ahead    *)
(* while a call is appending or has failed.                                 *)
Ahead(r) == \E c \in Callers : call[c].at = r /\ call[c].pc \in {"append", "error"}

Numbered ==
  ~OnTable \/ Pristine =>
    /\ \A i \in DOMAIN rows : rows[i].seq = i
    /\ OnTable => nextval = Len(rows) + 1
    /\ \A r \in Replicas :
         svc[r].up => svc[r].seq = IF Ahead(r) THEN Len(rows) + 1 ELSE Len(rows)
    /\ \A c \in Callers : call[c].pc = "append" => call[c].event.seq = Len(rows) + 1

(* And its lastEvent: the last row, except between the insert and the       *)
(* assignment.                                                              *)
Chained ==
  Pristine =>
    /\ Linked
    /\ \A r \in Replicas :
         svc[r].up => \/ svc[r].last = TailHash
                     \/ \E c \in Callers : call[c].at = r /\ call[c].pc = "ok"
    /\ \A c \in Callers :
         call[c].pc = "append" => /\ call[c].event.prev = TailHash
                                  /\ Verify(call[c].event)
    /\ \A c \in Callers :
         call[c].pc \in {"ok", "alert"} =>
           rows # <<>> /\ call[c].event = rows[Len(rows)]

(* The table's numbers are below its counter.                               *)
BelowCounter == OnTable => \A i \in DOMAIN rows : rows[i].seq < nextval

(* A verdict "valid" on events is the one the loop reached.                 *)
Judged ==
  \A v \in Verifiers :
    check[v].pc = "done" /\ check[v].valid /\ check[v].seen # <<>> => RangeValid(check[v].seen)

(* The contents that are stored.  Nothing but damage takes one from the     *)
(* table.                                                                   *)
IsStored(content) == \E n \in DOMAIN rows : rows[n].content = content

(* Every event has a body of its own: the builder gave it one that no       *)
(* earlier event has, and only its own insert stores it.                    *)
Identified ==
  damage = 0 =>
    /\ \A i \in DOMAIN rows : rows[i].content.body \in 1 .. built
    /\ \A i, j \in DOMAIN rows : rows[i].content.body = rows[j].content.body => i = j
    /\ \A c \in Callers :
         call[c].pc # "idle" => call[c].event.content.body \in 1 .. built
    /\ \A c, d \in Callers :
         /\ call[c].pc # "idle" /\ call[d].pc # "idle"
         /\ call[c].event.content.body = call[d].event.content.body
         => c = d
    /\ \A c \in Callers, i \in DOMAIN rows :
         call[c].pc \in {"lock", "append"} =>
           rows[i].content.body # call[c].event.content.body

(* What an answered call is about to return is stored.                      *)
AnsweredStored ==
  damage = 0 =>
    \A c \in Callers : call[c].pc \in {"ok", "alert"} => IsStored(call[c].event.content)

(* And it is the last row, which no call has returned yet.                  *)
AnsweredLast ==
  damage = 0 =>
    \A c \in Callers :
      call[c].pc \in {"ok", "alert"} =>
        /\ rows # <<>>
        /\ rows[Len(rows)].content = call[c].event.content
        /\ \A k \in DOMAIN acked : acked[k].content # call[c].event.content
===============================================================================
