--------------------------- MODULE AuditLogProofs ---------------------------
(***************************************************************************)
(* Proofs about the audit log.                                             *)
(***************************************************************************)
EXTENDS AuditLog, SequenceTheorems, FiniteSetTheorems, WellFoundedInduction, TLAPS

-----------------------------------------------------------------------------
(* The operators the model is built from                                    *)

(* The rows below a number are at most all the rows.                        *)
LEMMA BeforeType ==
  ASSUME rows \in Seq(Row), NEW n \in Nat
  PROVE  Before(n) \in Nat /\ Before(n) <= Len(rows)
<1> DEFINE I == {i \in DOMAIN rows : rows[i].seq < n}
<1>1. IsFiniteSet(1 .. Len(rows)) /\ Cardinality(1 .. Len(rows)) = Len(rows)
  <2>1. Len(rows) \in Nat
    BY LenProperties
  <2>2. IsFiniteSet(1 .. Len(rows))
        /\ Cardinality(1 .. Len(rows)) = IF 1 > Len(rows) THEN 0 ELSE Len(rows) - 1 + 1
    BY <2>1, FS_Interval
  <2> QED
    BY <2>1, <2>2
<1>2. I \subseteq 1 .. Len(rows)
  BY LenProperties
<1>3. IsFiniteSet(I) /\ Cardinality(I) <= Cardinality(1 .. Len(rows))
  BY <1>1, <1>2, FS_Subset
<1> QED
  BY <1>1, <1>3, FS_CardinalityType DEF Before

(* The rows of a range are rows.                                            *)
LEMMA RangeType ==
  ASSUME rows \in Seq(Row), NEW from \in Nat, NEW to \in Nat
  PROVE  GetEventRange(from, to) \in Seq(Row)
<1>1. \A n \in Nat : Before(n) \in Nat /\ Before(n) <= Len(rows)
  BY BeforeType
<1> DEFINE a     == Before(from) + 1
           b     == Before(to + 1)
           found == SubSeq(rows, a, b)
<1>2. found \in Seq(Row)
  <2>1. a \in Nat /\ a >= 1 /\ b \in Nat /\ b <= Len(rows)
    <3>1. to + 1 \in Nat
      OBVIOUS
    <3>2. Before(from) \in Nat
      BY <1>1
    <3>3. b \in Nat /\ b <= Len(rows)
      BY ONLY <1>1, <3>1
    <3> QED
      BY <3>2, <3>3
  <2>2. \A i \in a .. b : rows[i] \in Row
    <3> HIDE DEF a, b
    <3>1. Len(rows) \in Nat
      BY LenProperties
    <3>2. \A i \in a .. b : i \in 1 .. Len(rows)
      BY <2>1, <3>1
    <3> QED
      BY <3>2, ElementOfSeq
  <2> QED
    BY <2>1, <2>2, SubSeqProperties
<1>3. \A row \in Row : ReadBack(row) \in Row
  BY DEF ReadBack, Row, Content
<1>4. \A i \in 1 .. Len(found) : ReadBack(found[i]) \in Row
  BY <1>2, <1>3, ElementOfSeq
<1>5. Len(found) \in Nat /\ GetEventRange(from, to) \in [1 .. Len(found) -> Row]
  BY <1>2, <1>4, LenProperties DEF GetEventRange
<1>6. \A n \in Nat : [1 .. n -> Row] \subseteq Seq(Row)
  BY SeqDef
<1> QED
  BY <1>5, <1>6

LEMMA NoEventType == NoEvent \in Row
<1>1. Garbled \in Content
  BY DEF Garbled, Content, Classes
<1>2. <<>> \in Hash
  BY DEF Hash
<1> QED
  BY <1>1, <1>2 DEF NoEvent, Row

LEMMA IdleType == Idle \in Call
BY NoEventType DEF Idle, Call

(* Building an event and storing it yield rows.                             *)
LEMMA BuildType ==
  ASSUME NEW service \in Service, NEW event \in Row
  PROVE  BuildAfter(service, event) \in Row
<1>1. event.content \in Content
  BY DEF Row
<1>2. service.last \in Hash /\ service.seq + 1 \in Nat
  BY DEF Service
<1>3. ComputeHash(service.last, event.content) \in Hash
  BY <1>1, <1>2, AppendProperties DEF ComputeHash, Hash
<1> QED
  BY <1>1, <1>2, <1>3 DEF BuildAfter, Row

LEMMA StoredType ==
  ASSUME NEW event \in Row, nextval \in Nat
  PROVE  Stored(event) \in Row
BY DEF Stored, Row

(* What a change of one field of a call, or of a service, leaves alone.      *)
LEMMA Advance ==
  ASSUME call \in [Callers -> Call], NEW c \in Callers,
         NEW pc \in {"append", "ok", "error", "alert"},
         call' = [call EXCEPT ![c].pc = pc]
  PROVE  /\ call' \in [Callers -> Call]
         /\ \A d \in Callers : /\ call'[d].at = call[d].at
                               /\ call'[d].event = call[d].event
                               /\ call'[d].pc = IF d = c THEN pc ELSE call[d].pc
BY DEF Call

LEMMA Finish ==
  ASSUME call \in [Callers -> Call], NEW c \in Callers, call' = [call EXCEPT ![c] = Idle]
  PROVE  /\ call' \in [Callers -> Call]
         /\ \A d \in Callers : call'[d] = IF d = c THEN Idle ELSE call[d]
BY IdleType

LEMMA Renumber ==
  ASSUME svc \in [Replicas -> Service], NEW r \in Replicas, NEW seq \in Nat,
         svc' = [svc EXCEPT ![r].seq = seq]
  PROVE  /\ svc' \in [Replicas -> Service]
         /\ \A q \in Replicas : /\ svc'[q].up = svc[q].up
                                /\ svc'[q].last = svc[q].last
                                /\ svc'[q].seq = IF q = r THEN seq ELSE svc[q].seq
BY DEF Service

LEMMA Relink ==
  ASSUME svc \in [Replicas -> Service], NEW r \in Replicas, NEW last \in Hash,
         svc' = [svc EXCEPT ![r].last = last]
  PROVE  /\ svc' \in [Replicas -> Service]
         /\ \A q \in Replicas : /\ svc'[q].up = svc[q].up
                                /\ svc'[q].seq = svc[q].seq
                                /\ svc'[q].last = IF q = r THEN last ELSE svc[q].last
BY DEF Service

-----------------------------------------------------------------------------
(* Typing, and the discipline of the lock                                   *)

LEMMA TypingInit == Init => TypeOK /\ Locked
<1> SUFFICES ASSUME Init PROVE TypeOK /\ Locked
  OBVIOUS
<1>1. <<>> \in Hash
  BY DEF Hash
<1>2. svc \in [Replicas -> Service]
  BY <1>1 DEF Init, Service
<1>3. call \in [Callers -> Call]
  BY IdleType DEF Init
<1>4. check \in [Verifiers -> Check]
  BY DEF Init, NoCheck, Check
<1>5. TypeOK
  BY <1>2, <1>3, <1>4 DEF Init, TypeOK
<1>6. Locked
  BY DEF Init, Locked, Holding, Idle
<1> QED
  BY <1>5, <1>6

LEMMA RequestTyped ==
  ASSUME TypeOK, Locked, NEW c \in Callers, NEW r \in Replicas, Request(c, r)
  PROVE  TypeOK' /\ Locked'
<1>0. built + 1 \in Nat
  <2>1. built \in Nat
    BY DEF TypeOK
  <2> QED
    BY <2>1
<1> DEFINE content == [body |-> built + 1, class |-> Shape[c].class, nanos |-> Shape[c].nanos]
           event   == [NoEvent EXCEPT !.content = content]
           next    == [pc |-> "lock", at |-> r, event |-> event]
<1>1. event \in Row
  <2>1. content \in Content
    BY <1>0, ShapeAssumption DEF Content, Classes
  <2> QED
    BY <2>1, NoEventType DEF Row
<1>2. call' = [call EXCEPT ![c] = next]
  BY DEF Request
<1> HIDE DEF event
<1>3. next \in Call
  BY <1>1 DEF Call
<1>4. next.pc = "lock" /\ next.at = r
  OBVIOUS
<1> HIDE DEF next
<1>5. TypeOK'
  <2>1. call' \in [Callers -> Call]
    BY <1>2, <1>3 DEF TypeOK
  <2>2. built' \in Nat
    BY <1>0 DEF Request
  <2> QED
    BY <2>1, <2>2 DEF Request, TypeOK
<1>6. \A d \in Callers : call'[d] = IF d = c THEN next ELSE call[d]
  BY <1>2 DEF TypeOK
<1>7. svc[r].up /\ UNCHANGED <<svc, mu>>
  BY DEF Request
<1>8. Locked'
  BY <1>4, <1>6, <1>7 DEF Locked, Holding
<1> QED
  BY <1>5, <1>8

LEMMA AcquireTyped ==
  ASSUME TypeOK, Locked, NEW c \in Callers, Acquire(c)
  PROVE  /\ TypeOK' /\ Locked'
         /\ call[c].at \in Replicas
         /\ \A d \in Callers \ {c} : call'[d] = call[d]
         /\ call'[c].pc = "append" /\ call'[c].at = call[c].at
         /\ call'[c].event = BuildAfter(svc[call[c].at], call[c].event)
         /\ \A q \in Replicas :
              /\ svc'[q].up = svc[q].up
              /\ svc'[q].last = svc[q].last
              /\ svc'[q].seq = IF q = call[c].at THEN svc[q].seq + 1 ELSE svc[q].seq
<1> DEFINE r     == call[c].at
           event == BuildAfter(svc[r], call[c].event)
<1>1. r \in Replicas /\ svc[r].up
  BY DEF Acquire, Locked
<1>2. svc[r].seq \in Nat /\ svc[r].seq + 1 \in Nat
  <2>1. svc[r] \in Service
    BY <1>1 DEF TypeOK
  <2> QED
    BY <2>1 DEF Service
<1>3. event \in Row
  <2>1. call[c].event \in Row
    BY DEF TypeOK, Call
  <2> QED
    BY <1>1, <2>1, BuildType DEF TypeOK
<1>4. call' = [call EXCEPT ![c].pc = "append", ![c].event = event]
  BY DEF Acquire
<1>5. svc' = [svc EXCEPT ![r].seq = svc[r].seq + 1] /\ mu' = [mu EXCEPT ![r] = c] /\ mu[r] = Free
  BY DEF Acquire
<1>6. UNCHANGED <<backend, rows, nextval, check, built, acked, offered, faults, damage,
                  crashes, failures>>
  BY DEF Acquire
<1> HIDE DEF event
<1>7. /\ call' \in [Callers -> Call]
      /\ \A d \in Callers \ {c} : call'[d] = call[d]
      /\ call'[c].pc = "append" /\ call'[c].at = r /\ call'[c].event = event
  BY <1>3, <1>4 DEF TypeOK, Call
<1>8. /\ svc' \in [Replicas -> Service]
      /\ \A q \in Replicas : /\ svc'[q].up = svc[q].up
                             /\ svc'[q].last = svc[q].last
                             /\ svc'[q].seq = IF q = r THEN svc[r].seq + 1 ELSE svc[q].seq
  <2> DEFINE seq == svc[r].seq + 1
  <2>1. seq \in Nat /\ svc \in [Replicas -> Service]
    BY <1>2 DEF TypeOK
  <2>2. svc' = [svc EXCEPT ![r].seq = seq]
    BY <1>5
  <2> HIDE DEF seq, r
  <2>3. /\ svc' \in [Replicas -> Service]
        /\ \A q \in Replicas : /\ svc'[q].up = svc[q].up
                               /\ svc'[q].last = svc[q].last
                               /\ svc'[q].seq = IF q = r THEN seq ELSE svc[q].seq
    BY <1>1, <2>1, <2>2, Renumber
  <2> QED
    BY <2>3 DEF seq
<1>9. /\ mu' \in [Replicas -> Callers \union {Free}]
      /\ \A q \in Replicas : mu'[q] = IF q = r THEN c ELSE mu[q]
  BY <1>1, <1>5 DEF TypeOK
<1>10. TypeOK'
  BY <1>6, <1>7, <1>8, <1>9 DEF TypeOK
<1>11. Locked'
  BY <1>1, <1>2, <1>5, <1>7, <1>8, <1>9, FreeAssumption DEF Locked, Holding
<1> QED
  BY <1>1, <1>7, <1>8, <1>10, <1>11 DEF event

LEMMA InsertTyped ==
  ASSUME TypeOK, Locked, NEW c \in Callers, NEW answer \in {"ok", "error"}, Insert(c, answer)
  PROVE  /\ TypeOK' /\ Locked'
         /\ call[c].event \in Row /\ Stored(call[c].event) \in Row
         /\ rows' = Append(rows, Stored(call[c].event))
         /\ \A d \in Callers : /\ call'[d].at = call[d].at
                               /\ call'[d].event = call[d].event
                               /\ call'[d].pc = IF d = c THEN answer ELSE call[d].pc
<1>1. call[c].event \in Row
  BY DEF TypeOK, Call
<1>2. nextval \in Nat \ {0} /\ rows \in Seq(Row) /\ call \in [Callers -> Call]
  BY DEF TypeOK
<1>3. Stored(call[c].event) \in Row
  BY <1>1, <1>2, StoredType
<1>4. rows' = Append(rows, Stored(call[c].event))
  BY DEF Insert
<1>5. rows' \in Seq(Row)
  BY <1>2, <1>3, <1>4, AppendProperties
<1>6. nextval' \in Nat \ {0}
  <2>1. nextval' = nextval \/ nextval' = nextval + 1
    BY DEF Insert, NextValue
  <2> QED
    BY <1>2, <2>1
<1>7. failures' \in Nat /\ faults' \subseteq {"lost reply", "gap", "blind start"}
  <2>1. failures \in Nat /\ (failures' = failures \/ failures' = failures + 1)
    BY DEF Insert, TypeOK
  <2>2. faults \subseteq {"lost reply", "gap", "blind start"}
    BY DEF TypeOK
  <2>3. faults' = faults \/ faults' = faults \union {"lost reply"}
    BY DEF Insert
  <2>4. failures' \in Nat
    BY <2>1
  <2>5. faults' \subseteq {"lost reply", "gap", "blind start"}
    BY <2>2, <2>3
  <2> QED
    BY <2>4, <2>5
<1>8. call' = [call EXCEPT ![c].pc = answer] /\ call[c].pc = "append"
  BY DEF Insert
<1>9. /\ call' \in [Callers -> Call]
      /\ \A d \in Callers : /\ call'[d].at = call[d].at
                            /\ call'[d].event = call[d].event
                            /\ call'[d].pc = IF d = c THEN answer ELSE call[d].pc
  <2>1. answer \in {"append", "ok", "error", "alert"}
    OBVIOUS
  <2> QED
    BY <1>2, <1>8, <2>1, Advance
<1>10. UNCHANGED <<backend, svc, mu, check, built, acked, offered, damage, crashes>>
  BY DEF Insert
<1>11. TypeOK'
  BY <1>5, <1>6, <1>7, <1>9, <1>10 DEF TypeOK
<1>12. Locked'
  BY <1>8, <1>9, <1>10 DEF Locked, Holding
<1> QED
  BY <1>1, <1>3, <1>4, <1>9, <1>11, <1>12

LEMMA RefuseTyped ==
  ASSUME TypeOK, Locked, NEW c \in Callers, NEW drawn \in BOOLEAN, Refuse(c, drawn)
  PROVE  /\ TypeOK' /\ Locked'
         /\ \A d \in Callers : /\ call'[d].at = call[d].at
                               /\ call'[d].event = call[d].event
                               /\ call'[d].pc = IF d = c THEN "error" ELSE call[d].pc
<1>1. /\ nextval' \in Nat \ {0}
      /\ failures' \in Nat
      /\ faults' \subseteq {"lost reply", "gap", "blind start"}
  <2>1. nextval \in Nat \ {0} /\ (nextval' = nextval \/ nextval' = nextval + 1)
    BY DEF Refuse, TypeOK
  <2>2. failures \in Nat /\ failures' = failures + 1
    BY DEF Refuse, TypeOK
  <2>3. faults \subseteq {"lost reply", "gap", "blind start"}
    BY DEF TypeOK
  <2>4. faults' \subseteq faults \union {"gap"}
    BY DEF Refuse
  <2>5. nextval' \in Nat \ {0}
    BY <2>1
  <2>6. failures' \in Nat
    BY <2>2
  <2>7. faults' \subseteq {"lost reply", "gap", "blind start"}
    BY <2>3, <2>4
  <2> QED
    BY <2>5, <2>6, <2>7
<1>2. call' = [call EXCEPT ![c].pc = "error"] /\ call[c].pc = "append"
  BY DEF Refuse
<1>3. /\ call' \in [Callers -> Call]
      /\ \A d \in Callers : /\ call'[d].at = call[d].at
                            /\ call'[d].event = call[d].event
                            /\ call'[d].pc = IF d = c THEN "error" ELSE call[d].pc
  BY <1>2, Advance DEF TypeOK
<1>4. UNCHANGED <<backend, rows, svc, mu, check, built, acked, offered, damage, crashes>>
  BY DEF Refuse
<1>5. TypeOK'
  BY <1>1, <1>3, <1>4 DEF TypeOK
<1>6. Locked'
  BY <1>2, <1>3, <1>4 DEF Locked, Holding
<1> QED
  BY <1>3, <1>5, <1>6

LEMMA RejectTyped ==
  ASSUME TypeOK, Locked, NEW c \in Callers, Reject(c)
  PROVE  /\ TypeOK' /\ Locked'
         /\ \A d \in Callers : /\ call'[d].at = call[d].at
                               /\ call'[d].event = call[d].event
                               /\ call'[d].pc = IF d = c THEN "error" ELSE call[d].pc
<1>1. call' = [call EXCEPT ![c].pc = "error"] /\ call[c].pc = "append"
  BY DEF Reject
<1>2. /\ call' \in [Callers -> Call]
      /\ \A d \in Callers : /\ call'[d].at = call[d].at
                            /\ call'[d].event = call[d].event
                            /\ call'[d].pc = IF d = c THEN "error" ELSE call[d].pc
  BY <1>1, Advance DEF TypeOK
<1>3. UNCHANGED <<backend, rows, nextval, svc, mu, check, built, acked, offered, faults,
                  damage, crashes, failures>>
  BY DEF Reject
<1>4. TypeOK'
  BY <1>2, <1>3 DEF TypeOK
<1>5. Locked'
  BY <1>1, <1>2, <1>3 DEF Locked, Holding
<1> QED
  BY <1>2, <1>4, <1>5

LEMMA FailTyped ==
  ASSUME TypeOK, Locked, NEW c \in Callers, Fail(c)
  PROVE  /\ TypeOK' /\ Locked'
         /\ call[c].at \in Replicas
         /\ \A d \in Callers : call'[d] = IF d = c THEN Idle ELSE call[d]
         /\ \A q \in Replicas :
              /\ svc'[q].up = svc[q].up
              /\ svc'[q].last = svc[q].last
              /\ svc'[q].seq = IF q = call[c].at THEN svc[q].seq - 1 ELSE svc[q].seq
<1> DEFINE r   == call[c].at
           seq == svc[r].seq - 1
<1>1. r \in Replicas /\ svc[r].up /\ svc[r].seq > 0 /\ mu[r] = c
  BY DEF Fail, Locked, Holding
<1>2. seq \in Nat
  <2>1. svc[r] \in Service
    BY <1>1 DEF TypeOK
  <2>2. svc[r].seq \in Nat
    BY <2>1 DEF Service
  <2> QED
    BY <1>1, <2>2
<1>3. /\ svc' = [svc EXCEPT ![r].seq = seq]
      /\ mu' = [mu EXCEPT ![r] = Free]
      /\ call' = [call EXCEPT ![c] = Idle]
      /\ call[c].pc = "error"
      /\ UNCHANGED <<backend, rows, nextval, check, built, acked, offered, faults,
                     damage, crashes, failures>>
  BY DEF Fail, FailFrame
<1> HIDE DEF r, seq
<1>4. /\ call' \in [Callers -> Call]
      /\ \A d \in Callers : call'[d] = IF d = c THEN Idle ELSE call[d]
  BY <1>3, Finish DEF TypeOK
<1>5. /\ svc' \in [Replicas -> Service]
      /\ \A q \in Replicas : /\ svc'[q].up = svc[q].up
                             /\ svc'[q].last = svc[q].last
                             /\ svc'[q].seq = IF q = r THEN seq ELSE svc[q].seq
  <2>1. svc \in [Replicas -> Service]
    BY DEF TypeOK
  <2> QED
    BY ONLY <1>1, <1>2, <1>3, <2>1, Renumber
<1>6. /\ mu' \in [Replicas -> Callers \union {Free}]
      /\ \A q \in Replicas : mu'[q] = IF q = r THEN Free ELSE mu[q]
  BY <1>1, <1>3 DEF TypeOK
<1>7. TypeOK'
  BY <1>3, <1>4, <1>5, <1>6 DEF TypeOK
<1>8. Locked'
  BY <1>1, <1>4, <1>5, <1>6 DEF Locked, Holding, Idle
<1> QED
  BY <1>1, <1>4, <1>5, <1>7, <1>8 DEF r, seq

LEMMA SucceedTyped ==
  ASSUME TypeOK, Locked, NEW c \in Callers, Succeed(c)
  PROVE  /\ TypeOK' /\ Locked'
         /\ call[c].at \in Replicas
         /\ \A q \in Replicas :
              /\ svc'[q].up = svc[q].up
              /\ svc'[q].seq = svc[q].seq
              /\ svc'[q].last = IF q = call[c].at THEN call[c].event.hash ELSE svc[q].last
         /\ \A d \in Callers \ {c} : call'[d] = call[d]
         /\ \/ /\ call'[c].pc = "alert" /\ call'[c].at = call[c].at
               /\ call'[c].event = call[c].event
               /\ acked' = acked
            \/ /\ call'[c] = Idle
               /\ acked' = Append(acked, call[c].event)
<1> DEFINE r    == call[c].at
           last == call[c].event.hash
<1>1. r \in Replicas /\ svc[r].up /\ svc[r].seq > 0 /\ mu[r] = c
  BY DEF Succeed, Locked, Holding
<1>2. call[c].event \in Row /\ last \in Hash
  <2>1. call[c].event \in Row
    BY DEF TypeOK, Call
  <2> QED
    BY <2>1 DEF Row
<1>3. /\ svc' = [svc EXCEPT ![r].last = last]
      /\ call[c].pc = "ok"
      /\ \/ /\ call' = [call EXCEPT ![c].pc = "alert"]
            /\ mu' = mu
            /\ acked' = acked
         \/ /\ call' = [call EXCEPT ![c] = Idle]
            /\ mu' = [mu EXCEPT ![r] = Free]
            /\ acked' = Append(acked, call[c].event)
      /\ UNCHANGED <<backend, rows, nextval, check, built, offered, faults, damage, crashes,
                     failures>>
  BY DEF Succeed, Return
<1> HIDE DEF r, last
<1>4. /\ svc' \in [Replicas -> Service]
      /\ \A q \in Replicas : /\ svc'[q].up = svc[q].up
                             /\ svc'[q].seq = svc[q].seq
                             /\ svc'[q].last = IF q = r THEN last ELSE svc[q].last
  <2>1. svc \in [Replicas -> Service]
    BY DEF TypeOK
  <2> QED
    BY ONLY <1>1, <1>2, <1>3, <2>1, Relink
<1>5. CASE /\ call' = [call EXCEPT ![c].pc = "alert"]
           /\ mu' = mu
           /\ acked' = acked
  <2>1. /\ call' \in [Callers -> Call]
        /\ \A d \in Callers : /\ call'[d].at = call[d].at
                              /\ call'[d].event = call[d].event
                              /\ call'[d].pc = IF d = c THEN "alert" ELSE call[d].pc
        /\ \A d \in Callers \ {c} : call'[d] = call[d]
    BY <1>5, Advance DEF TypeOK
  <2>2. TypeOK'
    BY <1>3, <1>4, <1>5, <2>1 DEF TypeOK
  <2>3. Locked'
    <3>1. \A d \in Callers : d = c => call'[d].at = r /\ call'[d].pc = "alert"
      BY <2>1 DEF r
    <3>2. \A d \in Callers : d # c => call'[d] = call[d]
      BY <2>1
    <3> QED
      BY <1>1, <1>4, <1>5, <3>1, <3>2 DEF Locked, Holding
  <2> QED
    BY <1>1, <1>4, <1>5, <2>1, <2>2, <2>3 DEF r, last
<1>6. CASE /\ call' = [call EXCEPT ![c] = Idle]
           /\ mu' = [mu EXCEPT ![r] = Free]
           /\ acked' = Append(acked, call[c].event)
  <2>1. /\ call' \in [Callers -> Call]
        /\ \A d \in Callers : call'[d] = IF d = c THEN Idle ELSE call[d]
    BY <1>6, Finish DEF TypeOK
  <2>2. /\ mu' \in [Replicas -> Callers \union {Free}]
        /\ \A q \in Replicas : mu'[q] = IF q = r THEN Free ELSE mu[q]
    BY <1>1, <1>6 DEF TypeOK
  <2>3. acked' \in Seq(Row)
    BY <1>2, <1>6, AppendProperties DEF TypeOK
  <2>4. TypeOK'
    BY <1>3, <1>4, <2>1, <2>2, <2>3 DEF TypeOK
  <2>5. Locked'
    BY <1>1, <1>4, <2>1, <2>2 DEF Locked, Holding, Idle
  <2> QED
    BY <1>1, <1>4, <1>6, <2>1, <2>4, <2>5 DEF r, last
<1> QED
  BY <1>3, <1>5, <1>6

LEMMA AlertTyped ==
  ASSUME TypeOK, Locked, NEW c \in Callers, Alert(c)
  PROVE  /\ TypeOK' /\ Locked'
         /\ \A d \in Callers : call'[d] = IF d = c THEN Idle ELSE call[d]
         /\ acked' = Append(acked, call[c].event)
<1> DEFINE r == call[c].at
<1>1. r \in Replicas /\ mu[r] = c
  BY DEF Alert, Locked, Holding
<1>2. call[c].event \in Row /\ call[c].event.content \in Content
  <2>1. call[c].event \in Row
    BY DEF TypeOK, Call
  <2> QED
    BY <2>1 DEF Row
<1>3. /\ call' = [call EXCEPT ![c] = Idle]
      /\ mu' = [mu EXCEPT ![r] = Free]
      /\ acked' = Append(acked, call[c].event)
      /\ offered' = offered \union {call[c].event.content}
      /\ UNCHANGED <<backend, rows, nextval, svc, check, built, faults, damage, crashes,
                     failures>>
  BY DEF Alert, Return
<1> HIDE DEF r
<1>4. /\ call' \in [Callers -> Call]
      /\ \A d \in Callers : call'[d] = IF d = c THEN Idle ELSE call[d]
  BY <1>3, Finish DEF TypeOK
<1>5. /\ mu' \in [Replicas -> Callers \union {Free}]
      /\ \A q \in Replicas : mu'[q] = IF q = r THEN Free ELSE mu[q]
  BY <1>1, <1>3 DEF TypeOK
<1>6. acked' \in Seq(Row) /\ offered' \subseteq Content
  BY <1>2, <1>3, AppendProperties DEF TypeOK
<1>7. TypeOK'
  BY <1>3, <1>4, <1>5, <1>6 DEF TypeOK
<1>8. Locked'
  BY <1>1, <1>3, <1>4, <1>5 DEF Locked, Holding, Idle
<1> QED
  BY <1>3, <1>4, <1>7, <1>8

(* The verifier's steps touch no call and no lock.                          *)
LEMMA VerifierTyped ==
  ASSUME TypeOK, Locked, NEW v \in Verifiers,
         \/ \E r \in Replicas, from, to \in 1 .. MaxSequence : VerifyRead(v, r, from, to)
         \/ \E r \in Replicas : VerifyReadFails(v, r)
         \/ VerifyReport(v)
         \/ VerifyEnd(v)
  PROVE  /\ TypeOK' /\ Locked'
         /\ UNCHANGED <<backend, rows, nextval, mu, call, built, acked, offered, faults, damage,
                        crashes, failures>>
         /\ \A q \in Replicas : /\ svc'[q].up = svc[q].up
                                /\ svc'[q].seq = svc[q].seq
                                /\ svc'[q].last = svc[q].last
<1>1. UNCHANGED <<backend, rows, nextval, mu, call, built, acked, offered, faults, damage,
                  crashes, failures>>
  BY DEF VerifyRead, VerifyReadFails, VerifyReport, VerifyEnd
<1>2. check' \in [Verifiers -> Check]
  <2>0. check \in [Verifiers -> Check] /\ rows \in Seq(Row)
    BY DEF TypeOK
  <2>1. CASE \E r \in Replicas, from, to \in 1 .. MaxSequence : VerifyRead(v, r, from, to)
    <3>1. PICK r \in Replicas, from \in 1 .. MaxSequence, to \in 1 .. MaxSequence :
             VerifyRead(v, r, from, to)
      BY <2>1
    <3>2. from \in Nat /\ to \in Nat
      <4>1. MaxSequence \in Nat
        BY BoundsAssumption DEF MaxSequence
      <4> QED
        BY <4>1
    <3>3. GetEventRange(from, to) \in Seq(Row)
      BY <2>0, <3>2, RangeType
    <3>4. check' = [check EXCEPT ![v] = [pc |-> "reading", at |-> r, valid |-> TRUE,
                                         seen |-> GetEventRange(from, to)]]
      BY <3>1 DEF VerifyRead
    <3> QED
      BY <2>0, <3>3, <3>4 DEF Check
  <2>2. CASE \E r \in Replicas : VerifyReadFails(v, r)
    BY <2>0, <2>2 DEF VerifyReadFails, Check
  <2>3. CASE VerifyReport(v)
    <3>1. RangeValid(check[v].seen) \in BOOLEAN
      BY DEF RangeValid
    <3>2. check' = [check EXCEPT ![v].pc = "done", ![v].valid = RangeValid(check[v].seen)]
      BY <2>3 DEF VerifyReport
    <3> QED
      BY <2>0, <3>1, <3>2 DEF Check
  <2>4. CASE VerifyEnd(v)
    BY <2>0, <2>4 DEF VerifyEnd, NoCheck, Check
  <2> QED
    BY <2>1, <2>2, <2>3, <2>4
<1>3. /\ svc' \in [Replicas -> Service]
      /\ \A q \in Replicas : /\ svc'[q].up = svc[q].up
                             /\ svc'[q].seq = svc[q].seq
                             /\ svc'[q].last = svc[q].last
  <2>0. svc \in [Replicas -> Service]
    BY DEF TypeOK
  <2>1. RangeValid(check[v].seen) \in BOOLEAN
    BY DEF RangeValid
  <2>2. \/ svc' = svc
        \/ svc' = [svc EXCEPT ![check[v].at].valid = RangeValid(check[v].seen)]
    BY DEF VerifyRead, VerifyReadFails, VerifyReport, VerifyEnd
  <2> QED
    BY <2>0, <2>1, <2>2 DEF Service
<1>4. TypeOK'
  BY <1>1, <1>2, <1>3 DEF TypeOK
<1>5. Locked'
  BY <1>1, <1>3 DEF Locked, Holding
<1> QED
  BY <1>1, <1>3, <1>4, <1>5

LEMMA CrashTyped ==
  ASSUME TypeOK, Locked, NEW r \in Replicas, Crash(r)
  PROVE  /\ TypeOK' /\ Locked'
         /\ \A c \in Callers : call'[c] = IF call[c].at = r THEN Idle ELSE call[c]
         /\ \A q \in Replicas \ {r} : svc'[q] = svc[q]
         /\ ~svc'[r].up
<1> DEFINE down == [up |-> FALSE, last |-> <<>>, seq |-> 0, valid |-> TRUE]
<1>1. down \in Service /\ ~down.up /\ down.last = <<>> /\ down.seq = 0
  <2>1. <<>> \in Hash
    BY DEF Hash
  <2> QED
    BY <2>1 DEF Service
<1>2. svc' = [svc EXCEPT ![r] = down] /\ mu' = [mu EXCEPT ![r] = Free]
  BY DEF Crash
<1> HIDE DEF down
<1>3. /\ svc' \in [Replicas -> Service]
      /\ \A q \in Replicas : svc'[q] = IF q = r THEN down ELSE svc[q]
  BY <1>1, <1>2 DEF TypeOK
<1>4. /\ mu' \in [Replicas -> Callers \union {Free}]
      /\ \A q \in Replicas : mu'[q] = IF q = r THEN Free ELSE mu[q]
  BY <1>2 DEF TypeOK
<1>5. /\ call' \in [Callers -> Call]
      /\ \A c \in Callers : call'[c] = IF call[c].at = r THEN Idle ELSE call[c]
  BY IdleType DEF Crash, TypeOK
<1>6. check' \in [Verifiers -> Check]
  <2>1. NoCheck \in Check
    BY DEF NoCheck, Check
  <2> QED
    BY <2>1 DEF Crash, TypeOK
<1>7. crashes' \in Nat
  <2>1. crashes \in Nat /\ crashes' = crashes + 1
    BY DEF Crash, TypeOK
  <2> QED
    BY <2>1
<1>8. rows' \in Seq(Row) /\ acked' \in Seq(Row) /\ offered' \subseteq Content
  <2>1. rows \in Seq(Row) /\ acked \in Seq(Row) /\ offered \subseteq Content
    BY DEF TypeOK
  <2>2. <<>> \in Seq(Row)
    OBVIOUS
  <2>3. \/ rows' = <<>> /\ acked' = <<>> /\ offered' = {}
        \/ rows' = rows /\ acked' = acked /\ offered' = offered
    BY DEF Crash
  <2> QED
    BY <2>1, <2>2, <2>3
<1>9. UNCHANGED <<backend, nextval, built, faults, damage, failures>>
  BY DEF Crash
<1>10. TypeOK'
  BY <1>3, <1>4, <1>5, <1>6, <1>7, <1>8, <1>9 DEF TypeOK
<1>11. Locked'
  <2>1. Idle.pc = "idle"
    BY DEF Idle
  <2> QED
    BY <1>1, <1>3, <1>4, <1>5, <2>1 DEF Locked, Holding
<1> QED
  BY <1>1, <1>3, <1>5, <1>10, <1>11

LEMMA RestartTyped ==
  ASSUME TypeOK, Locked, NEW r \in Replicas, Restart(r)
  PROVE  /\ TypeOK' /\ Locked'
         /\ \A q \in Replicas \ {r} : svc'[q] = svc[q]
         /\ svc'[r].up
         /\ \/ /\ rows = <<>>
               /\ svc'[r].seq = 0 /\ svc'[r].last = <<>>
            \/ \E i \in DOMAIN rows : /\ IsLastEvent(i)
                                      /\ svc'[r].seq = rows[i].seq
                                      /\ svc'[r].last = rows[i].hash
            \/ OnTable /\ "blind start" \in faults'
         /\ faults \subseteq faults'
<1>1. /\ svc \in [Replicas -> Service] /\ svc[r].seq = 0 /\ svc[r].last = <<>>
  BY DEF Restart, Locked, TypeOK
<1>2. \A i \in DOMAIN rows :
        [up |-> TRUE, last |-> rows[i].hash, seq |-> rows[i].seq, valid |-> TRUE] \in Service
  <2>1. \A i \in DOMAIN rows : rows[i] \in Row
    BY LenProperties, ElementOfSeq DEF TypeOK
  <2> QED
    BY <2>1 DEF Row, Service
<1>3. \/ /\ svc' = [svc EXCEPT ![r].up = TRUE]
         /\ \/ rows = <<>> /\ faults' = faults
            \/ OnTable /\ faults' = faults \union {"blind start"}
      \/ /\ \E i \in DOMAIN rows :
              /\ IsLastEvent(i)
              /\ svc' = [svc EXCEPT ![r] = [up |-> TRUE, last |-> rows[i].hash,
                                            seq |-> rows[i].seq, valid |-> TRUE]]
         /\ faults' = faults
  BY DEF Restart
<1>4. /\ svc' \in [Replicas -> Service]
      /\ \A q \in Replicas \ {r} : svc'[q] = svc[q]
      /\ svc'[r].up
      /\ \/ svc'[r].seq = 0 /\ svc'[r].last = <<>>
               /\ \/ rows = <<>> /\ faults' = faults
                  \/ OnTable /\ faults' = faults \union {"blind start"}
         \/ \E i \in DOMAIN rows : /\ IsLastEvent(i)
                                   /\ svc'[r].seq = rows[i].seq
                                   /\ svc'[r].last = rows[i].hash
  <2>1. CASE /\ svc' = [svc EXCEPT ![r].up = TRUE]
             /\ \/ rows = <<>> /\ faults' = faults
                \/ OnTable /\ faults' = faults \union {"blind start"}
    BY <1>1, <2>1 DEF Service
  <2>2. CASE \E i \in DOMAIN rows :
               /\ IsLastEvent(i)
               /\ svc' = [svc EXCEPT ![r] = [up |-> TRUE, last |-> rows[i].hash,
                                             seq |-> rows[i].seq, valid |-> TRUE]]
    <3>1. PICK i \in DOMAIN rows :
            /\ IsLastEvent(i)
            /\ svc' = [svc EXCEPT ![r] = [up |-> TRUE, last |-> rows[i].hash,
                                          seq |-> rows[i].seq, valid |-> TRUE]]
      BY <2>2
    <3> DEFINE next == [up |-> TRUE, last |-> rows[i].hash, seq |-> rows[i].seq, valid |-> TRUE]
    <3>2. next \in Service /\ next.up /\ next.seq = rows[i].seq /\ next.last = rows[i].hash
      BY <1>2
    <3>3. svc' = [svc EXCEPT ![r] = next]
      BY <3>1
    <3> HIDE DEF next
    <3> QED
      BY <1>1, <3>1, <3>2, <3>3
  <2> QED
    BY <1>3, <2>1, <2>2
<1>5. faults \subseteq faults' /\ faults' \subseteq {"lost reply", "gap", "blind start"}
  BY <1>3 DEF TypeOK
<1>6. UNCHANGED <<backend, rows, nextval, mu, call, check, built, acked, offered, damage,
                  crashes, failures>>
  BY DEF Restart
<1>7. TypeOK'
  BY <1>4, <1>5, <1>6 DEF TypeOK
<1>8. Locked'
  <2>1. \A c \in Callers : call[c].pc # "idle" => call[c].at # r
    BY DEF Locked, Restart
  <2> QED
    BY <1>4, <1>6, <2>1 DEF Locked, Holding
<1> QED
  BY <1>4, <1>5, <1>7, <1>8

LEMMA DamageTyped ==
  ASSUME TypeOK, Locked, NEW i \in DOMAIN rows, Damage(i)
  PROVE  TypeOK' /\ Locked'
<1>1. rows \in Seq(Row) /\ Len(rows) \in Nat /\ i \in 1 .. Len(rows)
  BY LenProperties DEF TypeOK
<1>2. [rows EXCEPT ![i].content = Garbled] \in Seq(Row)
  <2> DEFINE row == [rows[i] EXCEPT !.content = Garbled]
  <2>1. rows[i] \in Row
    BY <1>1, ElementOfSeq
  <2>2. Garbled \in Content
    BY DEF Garbled, Content, Classes
  <2>3. row \in Row
    BY <2>1, <2>2 DEF Row
  <2> HIDE DEF row
  <2>4. [rows EXCEPT ![i] = row] \in Seq(Row)
    BY <1>1, <2>3, ExceptSeq
  <2> QED
    BY <2>4 DEF row
<1>3. SubSeq(rows, 1, i - 1) \o SubSeq(rows, i + 1, Len(rows)) \in Seq(Row)
  <2>1. \A k \in 1 .. i - 1 : rows[k] \in Row
    BY <1>1, ElementOfSeq
  <2>2. \A k \in i + 1 .. Len(rows) : rows[k] \in Row
    BY <1>1, ElementOfSeq
  <2>3. 1 \in Int /\ i - 1 \in Int /\ i + 1 \in Int /\ Len(rows) \in Int
    BY <1>1
  <2>4. SubSeq(rows, 1, i - 1) \in Seq(Row)
    BY <2>1, <2>3, SubSeqProperties
  <2>5. SubSeq(rows, i + 1, Len(rows)) \in Seq(Row)
    BY <2>2, <2>3, SubSeqProperties
  <2> QED
    BY <2>4, <2>5, ConcatProperties
<1>4. rows' \in Seq(Row)
  BY <1>2, <1>3 DEF Damage
<1>5. damage' \in Nat
  <2>1. damage \in Nat /\ damage' = damage + 1
    BY DEF Damage, TypeOK
  <2> QED
    BY <2>1
<1>6. UNCHANGED <<backend, nextval, svc, mu, call, check, built, acked, offered, faults,
                  crashes, failures>>
  BY DEF Damage
<1>7. TypeOK'
  BY <1>4, <1>5, <1>6 DEF TypeOK
<1>8. Locked'
  BY <1>6 DEF Locked, Holding
<1> QED
  BY <1>7, <1>8

LEMMA TypingStep == TypeOK /\ Locked /\ [Next]_vars => TypeOK' /\ Locked'
<1> SUFFICES ASSUME TypeOK, Locked, [Next]_vars
             PROVE  TypeOK' /\ Locked'
  OBVIOUS
<1>1. CASE \E c \in Callers, r \in Replicas : Request(c, r)
  BY <1>1, RequestTyped
<1>2. CASE \E c \in Callers : LogStep(c)
  BY <1>2, AcquireTyped, InsertTyped, RefuseTyped, RejectTyped, FailTyped, SucceedTyped,
     AlertTyped DEF LogStep
<1>3. CASE \E v \in Verifiers, r \in Replicas, from, to \in 1 .. MaxSequence :
             VerifyRead(v, r, from, to)
  BY <1>3, VerifierTyped
<1>4. CASE \/ \E v \in Verifiers, r \in Replicas : VerifyReadFails(v, r)
           \/ \E v \in Verifiers : VerifyReport(v) \/ VerifyEnd(v)
  BY <1>4, VerifierTyped
<1>5. CASE \E r \in Replicas : Crash(r) \/ Restart(r)
  BY <1>5, CrashTyped, RestartTyped
<1>6. CASE \E i \in DOMAIN rows : Damage(i)
  BY <1>6, DamageTyped
<1>7. CASE UNCHANGED vars
  BY <1>7 DEF vars, TypeOK, Locked, Holding
<1> QED
  BY <1>1, <1>2, <1>3, <1>4, <1>5, <1>6, <1>7 DEF Next

(* The audit log's state is well typed: in particular the sequence number a *)
(* failed Log gives back is one it took, so it never becomes negative.      *)
THEOREM AuditLogTyped == Spec => []TypeOK
<1>1. Init => TypeOK /\ Locked
  BY TypingInit
<1>2. TypeOK /\ Locked /\ [Next]_vars => (TypeOK /\ Locked)'
  BY TypingStep
<1> QED
  BY <1>1, <1>2, PTL DEF Spec

-----------------------------------------------------------------------------
(* The order of the table                                                   *)

LEMMA RemoveRow ==
  ASSUME rows \in Seq(Row), NEW i \in 1 .. Len(rows), NEW rest,
         rest = SubSeq(rows, 1, i - 1) \o SubSeq(rows, i + 1, Len(rows))
  PROVE  /\ Len(rest) = Len(rows) - 1 /\ DOMAIN rest = 1 .. Len(rest)
         /\ \A k \in 1 .. Len(rest) : rest[k] = IF k < i THEN rows[k] ELSE rows[k + 1]
<1> DEFINE front == SubSeq(rows, 1, i - 1)
           back  == SubSeq(rows, i + 1, Len(rows))
<1>1. Len(rows) \in Nat /\ i \in Int /\ i - 1 \in Int /\ i + 1 \in Int /\ 1 \in Int
  BY LenProperties
<1>2. /\ front \in Seq(Row) /\ Len(front) = i - 1
      /\ \A k \in 1 .. i - 1 : front[k] = rows[k]
  <2>1. \A k \in 1 .. i - 1 : rows[k] \in Row
    BY <1>1, ElementOfSeq
  <2>2. /\ front \in Seq(Row)
        /\ Len(front) = IF 1 <= i - 1 THEN i - 1 - 1 + 1 ELSE 0
        /\ \A k \in 1 .. i - 1 - 1 + 1 : front[k] = rows[1 + k - 1]
    BY <1>1, <2>1, SubSeqProperties
  <2> HIDE DEF front
  <2> QED
    BY <1>1, <2>2
<1>3. /\ back \in Seq(Row) /\ Len(back) = Len(rows) - i
      /\ \A k \in 1 .. Len(rows) - i : back[k] = rows[i + k]
  <2>1. \A k \in i + 1 .. Len(rows) : rows[k] \in Row
    BY <1>1, ElementOfSeq
  <2>2. /\ back \in Seq(Row)
        /\ Len(back) = IF i + 1 <= Len(rows) THEN Len(rows) - (i + 1) + 1 ELSE 0
        /\ \A k \in 1 .. Len(rows) - (i + 1) + 1 : back[k] = rows[i + 1 + k - 1]
    BY <1>1, <2>1, SubSeqProperties
  <2> HIDE DEF back
  <2> QED
    BY <1>1, <2>2
<1> HIDE DEF front, back
<1>4. rest = front \o back
  BY DEF front, back
<1>5. /\ rest \in Seq(Row)
      /\ Len(rest) = Len(front) + Len(back)
      /\ \A k \in 1 .. Len(front) + Len(back) :
           rest[k] = IF k <= Len(front) THEN front[k] ELSE back[k - Len(front)]
  <2>1. /\ front \o back \in Seq(Row)
        /\ Len(front \o back) = Len(front) + Len(back)
        /\ \A k \in 1 .. Len(front) + Len(back) :
             (front \o back)[k] = IF k <= Len(front) THEN front[k] ELSE back[k - Len(front)]
    BY <1>2, <1>3, ConcatProperties
  <2> QED
    BY <1>4, <2>1
<1>6. DOMAIN rest = 1 .. Len(rest) /\ Len(rest) = Len(rows) - 1
  <2>1. DOMAIN rest = 1 .. Len(rest)
    BY <1>5, LenProperties
  <2>2. Len(rest) = (i - 1) + (Len(rows) - i)
    BY <1>2, <1>3, <1>5
  <2>3. \A m, n \in Int : (m - 1) + (n - m) = n - 1
    OBVIOUS
  <2>4. Len(rest) = Len(rows) - 1
    BY ONLY <1>1, <2>2, <2>3
  <2> QED
    BY <2>1, <2>4
<1>7. ASSUME NEW k \in 1 .. Len(rest)
      PROVE  rest[k] = IF k < i THEN rows[k] ELSE rows[k + 1]
  <2>1. rest[k] = IF k <= i - 1 THEN front[k] ELSE back[k - (i - 1)]
    BY <1>1, <1>2, <1>3, <1>5
  <2>2. CASE k < i
    BY <1>1, <1>2, <2>1, <2>2
  <2>3. CASE ~(k < i)
    <3>1. k - (i - 1) \in 1 .. Len(rows) - i /\ i + (k - (i - 1)) = k + 1
      <4>1. \A n, m, j \in Nat :
              j \in 1 .. n - 1 /\ m \in 1 .. n /\ ~(j < m) => j - (m - 1) \in 1 .. n - m /\ m + (j - (m - 1)) = j + 1
        OBVIOUS
      <4>2. k \in 1 .. Len(rows) - 1 /\ k \in Nat /\ i \in Nat
        BY ONLY <1>1, <1>6, k \in 1 .. Len(rest), i \in 1 .. Len(rows)
      <4> QED
        BY <1>1, <2>3, <4>1, <4>2
    <3> QED
      BY <1>1, <1>3, <2>1, <2>3, <3>1
  <2> QED
    BY <2>2, <2>3
<1> QED
  BY <1>6, <1>7

TableOrder == OnTable => SequenceOrder

LEMMA TableOrderStep ==
  ASSUME TypeOK, Locked, BelowCounter, TableOrder, [Next]_vars
  PROVE  BelowCounter' /\ TableOrder'
<1>0. /\ rows \in Seq(Row) /\ Len(rows) \in Nat /\ DOMAIN rows = 1 .. Len(rows)
      /\ \A i \in 1 .. Len(rows) : rows[i].seq \in Nat
      /\ nextval \in Nat
  <2>1. rows \in Seq(Row) /\ nextval \in Nat
    BY DEF TypeOK
  <2>2. Len(rows) \in Nat /\ DOMAIN rows = 1 .. Len(rows)
    BY <2>1, LenProperties
  <2>3. \A i \in 1 .. Len(rows) : rows[i] \in Row
    BY <2>1, ElementOfSeq
  <2> QED
    BY <2>1, <2>2, <2>3 DEF Row
<1>1. CASE UNCHANGED <<backend, rows>> /\ nextval' \in Nat /\ nextval' >= nextval
  BY <1>0, <1>1 DEF BelowCounter, TableOrder, SequenceOrder, OnTable
<1>2. ASSUME NEW c \in Callers, NEW answer \in {"ok", "error"}, Insert(c, answer)
      PROVE  BelowCounter' /\ TableOrder'
  <2> SUFFICES ASSUME OnTable PROVE BelowCounter' /\ SequenceOrder'
    BY <1>2 DEF Insert, BelowCounter, TableOrder, OnTable
  <2> DEFINE row == Stored(call[c].event)
  <2>1. row \in Row /\ rows' = Append(rows, row)
    BY <1>2, InsertTyped
  <2>2. row.seq = nextval
    <3>1. call[c].event \in Row
      BY <1>2, InsertTyped
    <3> QED
      BY <3>1 DEF Stored, Row
  <2>3. nextval' = nextval + 1 /\ backend' = backend
    BY <1>2 DEF Insert, NextValue
  <2> HIDE DEF row
  <2>4. /\ Len(rows') = Len(rows) + 1 /\ DOMAIN rows' = 1 .. Len(rows) + 1
        /\ \A i \in 1 .. Len(rows) : rows'[i] = rows[i]
        /\ rows'[Len(rows) + 1] = row
    <3>1. /\ rows' \in Seq(Row) /\ Len(rows') = Len(rows) + 1
          /\ \A i \in 1 .. Len(rows) : rows'[i] = rows[i]
          /\ rows'[Len(rows) + 1] = row
      BY <1>0, <2>1, AppendProperties
    <3>2. DOMAIN rows' = 1 .. Len(rows')
      BY <3>1, LenProperties
    <3> QED
      BY <3>1, <3>2
  <2>5. BelowCounter'
    BY <1>0, <2>2, <2>3, <2>4 DEF BelowCounter, OnTable
  <2>6. SequenceOrder'
    BY <1>0, <2>2, <2>4 DEF BelowCounter, TableOrder, SequenceOrder, OnTable
  <2> QED
    BY <2>5, <2>6
<1>3. ASSUME NEW c \in Callers, NEW drawn \in BOOLEAN, Refuse(c, drawn)
      PROVE  BelowCounter' /\ TableOrder'
  <2>1. UNCHANGED <<backend, rows>> /\ (nextval' = nextval \/ nextval' = nextval + 1)
    BY <1>3 DEF Refuse
  <2> QED
    BY <1>0, <1>1, <2>1
<1>4. ASSUME NEW r \in Replicas, Crash(r)
      PROVE  BelowCounter' /\ TableOrder'
  <2>1. UNCHANGED <<backend, nextval>> /\ (OnTable => rows' = rows)
    BY <1>4 DEF Crash
  <2> QED
    BY <2>1 DEF BelowCounter, TableOrder, SequenceOrder, OnTable
<1>5. ASSUME NEW i \in DOMAIN rows, Damage(i)
      PROVE  BelowCounter' /\ TableOrder'
  <2>0. UNCHANGED <<backend, nextval>> /\ i \in 1 .. Len(rows)
    BY <1>0, <1>5 DEF Damage
  <2>1. CASE rows' = [rows EXCEPT ![i].content = Garbled]
    <3>1. DOMAIN rows' = 1 .. Len(rows) /\ \A k \in 1 .. Len(rows) : rows'[k].seq = rows[k].seq
      <4>1. \A k \in 1 .. Len(rows) : rows[k] \in Row
        BY <1>0, ElementOfSeq
      <4> QED
        BY <1>0, <2>1, <4>1 DEF Row
    <3> QED
      BY <1>0, <2>0, <3>1 DEF BelowCounter, TableOrder, SequenceOrder, OnTable
  <2>2. CASE rows' = SubSeq(rows, 1, i - 1) \o SubSeq(rows, i + 1, Len(rows))
    <3>1. /\ Len(rows') = Len(rows) - 1 /\ DOMAIN rows' = 1 .. Len(rows')
          /\ \A k \in 1 .. Len(rows') : rows'[k] = IF k < i THEN rows[k] ELSE rows[k + 1]
      BY <1>0, <2>0, <2>2, RemoveRow
    <3>2. \A k \in 1 .. Len(rows') :
            \E m \in 1 .. Len(rows) : /\ rows'[k].seq = rows[m].seq
                                      /\ m = IF k < i THEN k ELSE k + 1
      BY <1>0, <2>0, <3>1
    <3>3. BelowCounter'
      BY <1>0, <2>0, <3>1, <3>2 DEF BelowCounter, OnTable
    <3>4. TableOrder'
      <4> SUFFICES ASSUME OnTable, NEW k \in 1 .. Len(rows'), NEW n \in 1 .. Len(rows'), k < n
                   PROVE  rows'[k].seq < rows'[n].seq
        BY <2>0, <3>1 DEF TableOrder, SequenceOrder, OnTable
      <4>1. PICK m \in 1 .. Len(rows) : /\ rows'[k].seq = rows[m].seq
                                        /\ m = IF k < i THEN k ELSE k + 1
        BY <3>2
      <4>2. PICK p \in 1 .. Len(rows) : /\ rows'[n].seq = rows[p].seq
                                        /\ p = IF n < i THEN n ELSE n + 1
        BY <3>2
      <4>3. m < p
        BY <2>0, <4>1, <4>2
      <4> QED
        BY <1>0, <4>1, <4>2, <4>3 DEF TableOrder, SequenceOrder
    <3> QED
      BY <3>3, <3>4
  <2> QED
    BY <1>5, <2>1, <2>2 DEF Damage
<1>6. nextval >= nextval
  BY <1>0
<1>7. ASSUME UNCHANGED <<backend, rows, nextval>>
      PROVE  BelowCounter' /\ TableOrder'
  BY <1>0, <1>1, <1>6, <1>7
<1>8. CASE \E c \in Callers, r \in Replicas : Request(c, r)
  BY <1>7, <1>8 DEF Request
<1>9. CASE \E c \in Callers : LogStep(c)
  <2>1. PICK c \in Callers : LogStep(c)
    BY <1>9
  <2>2. CASE Acquire(c) \/ Reject(c) \/ Fail(c) \/ Succeed(c) \/ Alert(c)
    BY <1>7, <2>2 DEF Acquire, Reject, Fail, FailFrame, Succeed, Alert
  <2> QED
    BY <1>2, <1>3, <2>1, <2>2 DEF LogStep
<1>10. CASE \/ \E v \in Verifiers, r \in Replicas, from, to \in 1 .. MaxSequence :
                 VerifyRead(v, r, from, to)
            \/ \E v \in Verifiers, r \in Replicas : VerifyReadFails(v, r)
            \/ \E v \in Verifiers : VerifyReport(v) \/ VerifyEnd(v)
  BY <1>7, <1>10 DEF VerifyRead, VerifyReadFails, VerifyReport, VerifyEnd
<1>11. CASE \E r \in Replicas : Restart(r)
  BY <1>7, <1>11 DEF Restart
<1>12. CASE UNCHANGED vars
  BY <1>7, <1>12 DEF vars
<1> QED
  BY <1>4, <1>5, <1>8, <1>9, <1>10, <1>11, <1>12 DEF Next

(* Over the table of schema.sql the stored sequence numbers strictly        *)
(* increase for any number of services, crashes, lost replies and rows.     *)
THEOREM TableSequenceOrder == Spec => [](OnTable => SequenceOrder)
<1> DEFINE Inv == TypeOK /\ Locked /\ BelowCounter /\ TableOrder
<1>1. Init => Inv
  <2>1. Init => BelowCounter /\ TableOrder
    BY DEF Init, BelowCounter, TableOrder, SequenceOrder
  <2> QED
    BY <2>1, TypingInit
<1>2. Inv /\ [Next]_vars => Inv'
  BY TypingStep, TableOrderStep
<1>3. Inv => (OnTable => SequenceOrder)
  BY DEF TableOrder
<1> QED
  BY <1>1, <1>2, <1>3, PTL DEF Spec

-----------------------------------------------------------------------------
(* One service                                                              *)

(* The rows, as facts the steps below share.                                *)
LEMMA RowFacts ==
  ASSUME TypeOK
  PROVE  /\ rows \in Seq(Row) /\ Len(rows) \in Nat /\ DOMAIN rows = 1 .. Len(rows)
         /\ rows = <<>> <=> Len(rows) = 0
         /\ \A i \in 1 .. Len(rows) : rows[i] \in Row /\ rows[i].seq \in Nat
         /\ acked \in Seq(Row) /\ Len(acked) \in Nat /\ DOMAIN acked = 1 .. Len(acked)
<1>1. rows \in Seq(Row) /\ acked \in Seq(Row)
  BY DEF TypeOK
<1>2. /\ Len(rows) \in Nat /\ DOMAIN rows = 1 .. Len(rows)
      /\ Len(acked) \in Nat /\ DOMAIN acked = 1 .. Len(acked)
  BY <1>1, LenProperties
<1>3. \A i \in 1 .. Len(rows) : rows[i] \in Row
  BY <1>1, ElementOfSeq
<1>4. rows = <<>> <=> Len(rows) = 0
  BY <1>1, EmptySeq
<1> QED
  BY <1>1, <1>2, <1>3, <1>4 DEF Row

(* With one service, its lock lets one call at most past Lock.              *)
LEMMA OneHolder ==
  ASSUME Locked, NEW R, Replicas = {R}
  PROVE  /\ \A c \in Callers : call[c].pc # "idle" => call[c].at = R /\ svc[R].up
         /\ \A c, d \in Callers : Holding(c) /\ Holding(d) => c = d
         /\ \A c \in Callers : Holding(c) => mu[R] = c
<1>1. \A c \in Callers : Holding(c) => call[c].pc # "idle"
  BY DEF Holding
<1> QED
  BY <1>1 DEF Locked

ChainInv == Numbered /\ Chained /\ AckedAsStored

(* A step that leaves the rows, the counters and every call past Lock as    *)
(* they are.                                                                *)
LEMMA Quiet ==
  ASSUME ChainInv, UNCHANGED <<backend, rows, nextval, acked, faults, damage>>,
         \A c \in Callers : \/ call'[c] = call[c]
                            \/ ~Holding(c) /\ ~Holding(c)',
         \A q \in Replicas : /\ svc'[q].up = svc[q].up
                             /\ svc'[q].seq = svc[q].seq
                             /\ svc'[q].last = svc[q].last
  PROVE  ChainInv'
<1>1. OnTable' = OnTable /\ Pristine' = Pristine /\ Linked' = Linked /\ TailHash' = TailHash
  BY DEF OnTable, Pristine, Linked, TailHash, PrevHash, Verify
<1>2. \A q \in Replicas : Ahead(q)' = Ahead(q)
  BY DEF Ahead, Holding
<1>3. Numbered'
  BY <1>1, <1>2 DEF ChainInv, Numbered, Holding
<1>4. Chained'
  BY <1>1 DEF ChainInv, Chained, Holding, Verify
<1>5. AckedAsStored'
  BY <1>1 DEF ChainInv, AckedAsStored
<1> QED
  BY <1>3, <1>4, <1>5 DEF ChainInv

LEMMA AcquireChains ==
  ASSUME TypeOK, Locked, ChainInv, NEW R, Replicas = {R}, NEW c \in Callers, Acquire(c)
  PROVE  ChainInv'
<1>1. /\ call[c].at = R /\ svc[R].up /\ R \in Replicas
      /\ \A d \in Callers : ~Holding(d)
  <2>1. call[c].pc = "lock" /\ mu[call[c].at] = Free
    BY DEF Acquire
  <2> QED
    BY <2>1, OneHolder, FreeAssumption
<1>2. /\ \A d \in Callers \ {c} : call'[d] = call[d]
      /\ call'[c].pc = "append" /\ call'[c].at = R
      /\ call'[c].event = BuildAfter(svc[R], call[c].event)
      /\ svc'[R].up /\ svc'[R].last = svc[R].last /\ svc'[R].seq = svc[R].seq + 1
  BY <1>1, AcquireTyped
<1>3. UNCHANGED <<backend, rows, nextval, acked, faults, damage>>
  BY DEF Acquire
<1>4. OnTable' = OnTable /\ Pristine' = Pristine /\ Linked' = Linked /\ TailHash' = TailHash
  BY <1>3 DEF OnTable, Pristine, Linked, TailHash, PrevHash, Verify
<1>5. ~Ahead(R) /\ Ahead(R)'
  BY <1>1, <1>2 DEF Ahead, Holding
<1>6. LET event == call'[c].event
      IN  /\ event.seq = svc[R].seq + 1
          /\ event.prev = svc[R].last
          /\ Verify(event)
  <2>1. call[c].event \in Row
    BY DEF TypeOK, Call
  <2> QED
    BY <1>2, <2>1 DEF BuildAfter, Verify, Row
<1>7. Numbered'
  <2> SUFFICES ASSUME ~OnTable \/ Pristine PROVE Numbered'
    BY <1>4 DEF Numbered
  <2>1. svc[R].seq = Len(rows)
    BY <1>1, <1>5 DEF ChainInv, Numbered
  <2>2. svc'[R].seq = Len(rows) + 1 /\ call'[c].event.seq = Len(rows) + 1
    BY <1>2, <1>6, <2>1
  <2>3. \A d \in Callers : call'[d].pc = "append" => d = c
    BY <1>1, <1>2 DEF Holding
  <2> QED
    BY <1>3, <1>4, <1>5, <2>2, <2>3 DEF ChainInv, Numbered
<1>8. Chained'
  <2> SUFFICES ASSUME Pristine PROVE Chained'
    BY <1>4 DEF Chained
  <2>1. svc[R].last = TailHash
    BY <1>1 DEF ChainInv, Chained, Holding
  <2>2. \A d \in Callers : Holding(d)' => d = c /\ call'[d].pc = "append"
    BY <1>1, <1>2 DEF Holding
  <2> QED
    BY <1>1, <1>2, <1>4, <1>6, <2>1, <2>2 DEF ChainInv, Chained, Holding, Verify
<1>9. AckedAsStored'
  BY <1>3, <1>4 DEF ChainInv, AckedAsStored
<1> QED
  BY <1>7, <1>8, <1>9 DEF ChainInv

LEMMA InsertChains ==
  ASSUME TypeOK, Locked, ChainInv, NEW R, Replicas = {R}, NEW c \in Callers,
         NEW answer \in {"ok", "error"}, Insert(c, answer)
  PROVE  ChainInv'
<1> DEFINE event == call[c].event
           n     == Len(rows)
<1>0. call[c].pc = "append" /\ backend' = backend /\ UNCHANGED <<svc, acked, damage>>
  BY DEF Insert
<1>1. /\ call[c].at = R /\ svc[R].up /\ R \in Replicas
      /\ \A d \in Callers : Holding(d) => d = c
  BY <1>0, OneHolder DEF Holding
<1>2. /\ event \in Row /\ Stored(event) \in Row
      /\ rows' = Append(rows, Stored(event))
      /\ \A d \in Callers : /\ call'[d].at = call[d].at
                            /\ call'[d].event = call[d].event
                            /\ call'[d].pc = IF d = c THEN answer ELSE call[d].pc
  BY InsertTyped
<1>3. CASE answer = "error"
  <2>1. OnTable' /\ ~Pristine'
    BY <1>0, <1>3 DEF Insert, OnTable, Pristine
  <2> QED
    BY <2>1 DEF ChainInv, Numbered, Chained, AckedAsStored
<1>4. CASE answer = "ok"
  <2>1. Pristine' = Pristine /\ OnTable' = OnTable
    BY <1>0, <1>4 DEF Insert, OnTable, Pristine
  <2>2. /\ n \in Nat /\ DOMAIN rows = 1 .. n /\ rows \in Seq(Row)
        /\ rows = <<>> <=> n = 0
    BY RowFacts
  <2>3. /\ Len(rows') = n + 1 /\ DOMAIN rows' = 1 .. n + 1 /\ rows' # <<>>
        /\ \A i \in 1 .. n : rows'[i] = rows[i]
        /\ rows'[n + 1] = Stored(event)
    <3>1. /\ rows' \in Seq(Row) /\ Len(rows') = n + 1 /\ rows' # <<>>
          /\ \A i \in 1 .. n : rows'[i] = rows[i]
          /\ rows'[n + 1] = Stored(event)
      BY <1>2, <2>2, AppendProperties
    <3>2. DOMAIN rows' = 1 .. Len(rows')
      BY <3>1, LenProperties
    <3> QED
      BY <3>1, <3>2
  <2>4. Ahead(R) /\ ~Ahead(R)'
    BY <1>0, <1>1, <1>2, <1>4 DEF Ahead, Holding
  <2>5. \A d \in Callers : call'[d].pc # "append"
    BY <1>1, <1>2, <1>4 DEF Holding
  <2>6. ~OnTable \/ Pristine =>
          /\ \A i \in 1 .. n : rows[i].seq = i
          /\ event.seq = n + 1
          /\ OnTable => nextval = n + 1
          /\ svc[R].seq = n + 1
    BY <1>0, <1>1, <2>2, <2>4 DEF ChainInv, Numbered
  <2>7. ~OnTable \/ Pristine => Stored(event) = event
    BY <1>2, <2>6 DEF Stored, Row
  <2> HIDE DEF event, n
  <2>8. Numbered'
    <3> SUFFICES ASSUME ~OnTable \/ Pristine PROVE Numbered'
      BY <2>1 DEF Numbered
    <3>1. \A i \in 1 .. n + 1 : rows'[i].seq = i
      BY <2>2, <2>3, <2>6, <2>7
    <3>2. OnTable => nextval' = n + 1 + 1
      BY <2>6 DEF Insert, NextValue
    <3> QED
      BY <1>0, <1>1, <2>1, <2>2, <2>3, <2>4, <2>5, <2>6, <3>1, <3>2 DEF Numbered
  <2>9. Chained'
    <3> SUFFICES ASSUME Pristine PROVE Chained'
      BY <2>1 DEF Chained
    <3>1. Linked /\ event.prev = TailHash /\ Verify(event)
      BY <1>0 DEF ChainInv, Chained, event
    <3>2. Linked'
      <4> SUFFICES ASSUME NEW i \in 1 .. n + 1
                   PROVE  /\ rows'[i].seq = i
                          /\ rows'[i].prev = PrevHash(i)'
                          /\ Verify(rows'[i])
        BY <2>3 DEF Linked, Verify
      <4>1. CASE i \in 1 .. n
        <5>1. PrevHash(i)' = PrevHash(i)
          BY <2>2, <2>3, <4>1 DEF PrevHash
        <5> QED
          BY <2>2, <2>3, <3>1, <4>1, <5>1 DEF Linked
      <4>2. CASE i = n + 1
        <5>1. PrevHash(i)' = TailHash
          BY <2>2, <2>3, <4>2 DEF PrevHash, TailHash, n
        <5> QED
          BY <2>3, <2>6, <2>7, <3>1, <4>2, <5>1
      <4> QED
        BY <2>2, <4>1, <4>2
    <3>3. \A d \in Callers : call'[d].pc \in {"ok", "alert"} => d = c
      BY <1>1, <1>2 DEF Holding
    <3>4. call'[c].event = rows'[Len(rows')] /\ call'[c].at = R /\ call'[c].pc = "ok"
      BY <1>1, <1>2, <1>4, <2>3, <2>7 DEF event
    <3> QED
      BY <2>3, <2>5, <3>2, <3>3, <3>4 DEF Chained
  <2>10. AckedAsStored'
    <3> SUFFICES ASSUME Pristine, NEW k \in DOMAIN acked
                 PROVE  \E i \in DOMAIN rows' : rows'[i] = acked[k]
      BY <1>0, <2>1 DEF AckedAsStored
    <3>1. PICK i \in 1 .. n : rows[i] = acked[k]
      BY <2>2 DEF ChainInv, AckedAsStored
    <3> QED
      BY <2>2, <2>3, <3>1
  <2> QED
    BY <2>8, <2>9, <2>10 DEF ChainInv
<1> QED
  BY <1>3, <1>4

(* An insert that fails without a trace; one that draws a number voids the  *)
(* premise.                                                                 *)
LEMMA ErrorChains ==
  ASSUME TypeOK, Locked, ChainInv, NEW R, Replicas = {R}, NEW c \in Callers,
         Reject(c) \/ \E drawn \in BOOLEAN : Refuse(c, drawn)
  PROVE  ChainInv'
<1>0. call[c].pc = "append" /\ UNCHANGED <<backend, rows, svc, acked, damage>>
  BY DEF Reject, Refuse
<1>1. \A d \in Callers : /\ call'[d].at = call[d].at
                         /\ call'[d].event = call[d].event
                         /\ call'[d].pc = IF d = c THEN "error" ELSE call[d].pc
  BY RejectTyped, RefuseTyped
<1>2. CASE OnTable /\ "gap" \in faults'
  <2>1. OnTable' /\ ~Pristine'
    BY <1>0, <1>2 DEF OnTable, Pristine
  <2> QED
    BY <2>1 DEF ChainInv, Numbered, Chained, AckedAsStored
<1>3. CASE UNCHANGED <<nextval, faults>>
  <2>1. OnTable' = OnTable /\ Pristine' = Pristine /\ Linked' = Linked /\ TailHash' = TailHash
    BY <1>0, <1>3 DEF OnTable, Pristine, Linked, TailHash, PrevHash, Verify
  <2>2. \A r \in Replicas : Ahead(r)' = Ahead(r)
    BY <1>0, <1>1 DEF Ahead
  <2>3. Numbered'
    BY <1>0, <1>1, <1>3, <2>1, <2>2 DEF ChainInv, Numbered
  <2>4. Chained'
    BY <1>0, <1>1, <2>1 DEF ChainInv, Chained, Verify
  <2>5. AckedAsStored'
    BY <1>0, <2>1 DEF ChainInv, AckedAsStored
  <2> QED
    BY <2>3, <2>4, <2>5 DEF ChainInv
<1> QED
  BY <1>2, <1>3 DEF Reject, Refuse

LEMMA FailChains ==
  ASSUME TypeOK, Locked, ChainInv, NEW R, Replicas = {R}, NEW c \in Callers, Fail(c)
  PROVE  ChainInv'
<1>0. call[c].pc = "error" /\ UNCHANGED <<backend, rows, nextval, acked, faults, damage>>
  BY DEF Fail, FailFrame
<1>1. /\ call[c].at = R /\ svc[R].up /\ R \in Replicas
      /\ \A d \in Callers : Holding(d) => d = c
  BY <1>0, OneHolder DEF Holding
<1>2. /\ \A d \in Callers : call'[d] = IF d = c THEN Idle ELSE call[d]
      /\ svc'[R].up = svc[R].up /\ svc'[R].last = svc[R].last /\ svc'[R].seq = svc[R].seq - 1
  BY <1>1, FailTyped
<1>3. OnTable' = OnTable /\ Pristine' = Pristine /\ Linked' = Linked /\ TailHash' = TailHash
  BY <1>0 DEF OnTable, Pristine, Linked, TailHash, PrevHash, Verify
<1>4. Ahead(R) /\ ~Ahead(R)' /\ \A d \in Callers : ~Holding(d)'
  BY <1>0, <1>1, <1>2 DEF Ahead, Holding, Idle
<1>5. Numbered'
  <2> SUFFICES ASSUME ~OnTable \/ Pristine PROVE Numbered'
    BY <1>3 DEF Numbered
  <2>1. svc[R].seq = Len(rows) + 1 /\ Len(rows) \in Nat
    BY <1>1, <1>4, RowFacts DEF ChainInv, Numbered
  <2>2. svc'[R].seq = Len(rows)
    BY <1>2, <2>1
  <2> QED
    BY <1>0, <1>3, <1>4, <2>2 DEF ChainInv, Numbered, Holding
<1>6. Chained'
  <2> SUFFICES ASSUME Pristine PROVE Chained'
    BY <1>3 DEF Chained
  <2>1. svc[R].last = TailHash
    BY <1>0, <1>1 DEF ChainInv, Chained, Holding
  <2> QED
    BY <1>2, <1>3, <1>4, <2>1 DEF ChainInv, Chained, Holding
<1>7. AckedAsStored'
  BY <1>0, <1>3 DEF ChainInv, AckedAsStored
<1> QED
  BY <1>5, <1>6, <1>7 DEF ChainInv

(* Returning the last row acknowledges a stored event.                      *)
LEMMA AckLast ==
  ASSUME TypeOK, Chained, AckedAsStored, Pristine, NEW c \in Callers,
         call[c].pc \in {"ok", "alert"}, acked' = Append(acked, call[c].event),
         UNCHANGED <<rows, faults, damage>>
  PROVE  AckedAsStored'
<1>1. rows # <<>> /\ call[c].event = rows[Len(rows)]
  BY DEF Chained
<1>2. Len(rows) \in DOMAIN rows /\ acked \in Seq(Row) /\ Len(acked) \in Nat
      /\ DOMAIN acked = 1 .. Len(acked) /\ call[c].event \in Row
  BY <1>1, RowFacts
<1>3. /\ DOMAIN acked' = 1 .. Len(acked) + 1
      /\ \A k \in 1 .. Len(acked) : acked'[k] = acked[k]
      /\ acked'[Len(acked) + 1] = call[c].event
  BY <1>2, AppendProperties, LenProperties
<1> SUFFICES ASSUME NEW k \in 1 .. Len(acked) + 1
             PROVE  \E n \in DOMAIN rows : rows[n] = acked'[k]
  BY <1>3 DEF AckedAsStored
<1>4. CASE k \in 1 .. Len(acked)
  BY <1>2, <1>3, <1>4 DEF AckedAsStored
<1>5. CASE k = Len(acked) + 1
  BY <1>1, <1>2, <1>3, <1>5
<1> QED
  BY <1>2, <1>4, <1>5

LEMMA SucceedChains ==
  ASSUME TypeOK, Locked, ChainInv, NEW R, Replicas = {R}, NEW c \in Callers, Succeed(c)
  PROVE  ChainInv'
<1>0. call[c].pc = "ok" /\ UNCHANGED <<backend, rows, nextval, faults, damage>>
  BY DEF Succeed
<1>1. /\ call[c].at = R /\ svc[R].up /\ R \in Replicas
      /\ \A d \in Callers : Holding(d) => d = c
  BY <1>0, OneHolder DEF Holding
<1>2. /\ svc'[R].up /\ svc'[R].seq = svc[R].seq /\ svc'[R].last = call[c].event.hash
      /\ \A d \in Callers \ {c} : call'[d] = call[d]
      /\ \/ /\ call'[c].pc = "alert" /\ call'[c].event = call[c].event
            /\ acked' = acked
         \/ /\ call'[c].pc = "idle"
            /\ acked' = Append(acked, call[c].event)
  BY <1>1, SucceedTyped DEF Idle
<1>3. OnTable' = OnTable /\ Pristine' = Pristine /\ Linked' = Linked /\ TailHash' = TailHash
  BY <1>0 DEF OnTable, Pristine, Linked, TailHash, PrevHash, Verify
<1>4. /\ ~Ahead(R) /\ ~Ahead(R)' /\ \A d \in Callers : call'[d].pc # "append"
      /\ \A d \in Callers : call'[d].pc \in {"ok", "alert"} => d = c /\ call'[c].pc = "alert"
  BY <1>0, <1>1, <1>2 DEF Ahead, Holding
<1>5. Numbered'
  BY <1>0, <1>1, <1>2, <1>3, <1>4 DEF ChainInv, Numbered
<1>6. Chained'
  <2> SUFFICES ASSUME Pristine PROVE Chained'
    BY <1>3 DEF Chained
  <2>1. rows # <<>> /\ call[c].event = rows[Len(rows)]
    BY <1>0 DEF ChainInv, Chained
  <2>2. svc'[R].last = TailHash
    BY <1>2, <2>1 DEF TailHash
  <2> QED
    BY <1>0, <1>2, <1>3, <1>4, <2>1, <2>2 DEF ChainInv, Chained
<1>7. AckedAsStored'
  <2>1. CASE acked' = acked
    BY <1>0, <1>3, <2>1 DEF ChainInv, AckedAsStored
  <2>2. CASE acked' = Append(acked, call[c].event) /\ Pristine
    BY <1>0, <2>2, AckLast DEF ChainInv
  <2>3. CASE ~Pristine
    BY <1>3, <2>3 DEF AckedAsStored
  <2> QED
    BY <1>2, <2>1, <2>2, <2>3
<1> QED
  BY <1>5, <1>6, <1>7 DEF ChainInv

LEMMA AlertChains ==
  ASSUME TypeOK, Locked, ChainInv, NEW R, Replicas = {R}, NEW c \in Callers, Alert(c)
  PROVE  ChainInv'
<1>0. call[c].pc = "alert" /\ UNCHANGED <<backend, rows, nextval, svc, faults, damage>>
  BY DEF Alert
<1>1. /\ \A d \in Callers : call'[d] = IF d = c THEN Idle ELSE call[d]
      /\ acked' = Append(acked, call[c].event)
  BY AlertTyped
<1>2. OnTable' = OnTable /\ Pristine' = Pristine /\ Linked' = Linked /\ TailHash' = TailHash
  BY <1>0 DEF OnTable, Pristine, Linked, TailHash, PrevHash, Verify
<1>3. \A r \in Replicas : Ahead(r)' = Ahead(r)
  <2>1. \A d \in Callers : call'[d].pc \in {"append", "error"} <=> call[d].pc \in {"append", "error"}
    BY <1>0, <1>1 DEF Idle
  <2>2. \A d \in Callers : call[d].pc \in {"append", "error"} => call'[d] = call[d]
    BY <1>0, <1>1
  <2> QED
    BY <2>1, <2>2 DEF Ahead
<1>4. \A d \in Callers : call'[d].pc # "idle" => call'[d] = call[d]
  BY <1>1 DEF Idle
<1>5. Numbered'
  BY <1>0, <1>2, <1>3, <1>4 DEF ChainInv, Numbered
<1>6. Chained'
  <2> SUFFICES ASSUME Pristine PROVE Chained'
    BY <1>2 DEF Chained
  <2>1. \A d \in Callers : call[d].pc = "ok" => call'[d] = call[d]
    BY <1>0, <1>1
  <2> QED
    BY <1>0, <1>2, <1>4, <2>1 DEF ChainInv, Chained, Verify
<1>7. AckedAsStored'
  <2>1. CASE Pristine
    BY <1>0, <1>1, <2>1, AckLast DEF ChainInv
  <2>2. CASE ~Pristine
    BY <1>2, <2>2 DEF AckedAsStored
  <2> QED
    BY <2>1, <2>2
<1> QED
  BY <1>5, <1>6, <1>7 DEF ChainInv

LEMMA CrashChains ==
  ASSUME TypeOK, Locked, ChainInv, NEW R, Replicas = {R}, Crash(R)
  PROVE  ChainInv'
<1>1. ~svc'[R].up /\ \A c \in Callers : call'[c].pc = "idle"
  <2>1. \A c \in Callers : call[c].pc = "idle" \/ call[c].at = R
    BY OneHolder
  <2> QED
    BY <2>1, CrashTyped DEF Idle
<1>2. UNCHANGED <<backend, nextval, faults, damage>>
  BY DEF Crash
<1>3. \/ ~OnTable /\ rows' = <<>> /\ acked' = <<>>
      \/ OnTable /\ rows' = rows /\ acked' = acked
  BY DEF Crash
<1>4. OnTable' = OnTable /\ Pristine' = Pristine
  BY <1>2 DEF OnTable, Pristine
<1>5. CASE ~OnTable /\ rows' = <<>> /\ acked' = <<>>
  BY <1>1, <1>4, <1>5 DEF ChainInv, Numbered, Chained, Linked, AckedAsStored
<1>6. CASE OnTable /\ rows' = rows /\ acked' = acked
  <2>1. Linked' = Linked
    BY <1>6 DEF Linked, PrevHash, Verify
  <2> QED
    BY <1>1, <1>2, <1>4, <1>6, <2>1 DEF ChainInv, Numbered, Chained, AckedAsStored
<1> QED
  BY <1>3, <1>5, <1>6

LEMMA RestartChains ==
  ASSUME TypeOK, Locked, ChainInv, NEW R, Replicas = {R}, Restart(R)
  PROVE  ChainInv'
<1>0. ~svc[R].up /\ UNCHANGED <<backend, rows, nextval, call, acked, damage>>
  BY DEF Restart
<1>1. \A c \in Callers : call[c].pc = "idle"
  BY <1>0, OneHolder
<1>2. CASE OnTable /\ "blind start" \in faults'
  <2>1. OnTable' /\ ~Pristine'
    BY <1>0, <1>2 DEF OnTable, Pristine
  <2> QED
    BY <2>1 DEF ChainInv, Numbered, Chained, AckedAsStored
<1>3. CASE \/ /\ rows = <<>>
              /\ svc'[R].seq = 0 /\ svc'[R].last = <<>>
           \/ \E i \in DOMAIN rows : /\ IsLastEvent(i)
                                     /\ svc'[R].seq = rows[i].seq
                                     /\ svc'[R].last = rows[i].hash
  <2>1. OnTable' = OnTable /\ Linked' = Linked /\ TailHash' = TailHash
    BY <1>0 DEF OnTable, Linked, TailHash, PrevHash, Verify
  <2>2. Pristine' => Pristine
    <3>1. faults \subseteq faults'
      BY RestartTyped
    <3> QED
      BY <1>0, <3>1 DEF Pristine
  <2>3. ~Ahead(R)'
    BY <1>0, <1>1 DEF Ahead
  <2>4. ~OnTable \/ Pristine => svc'[R].seq = Len(rows) /\ svc'[R].last = TailHash
    <3> SUFFICES ASSUME ~OnTable \/ Pristine
                 PROVE  svc'[R].seq = Len(rows) /\ svc'[R].last = TailHash
      OBVIOUS
    <3>1. CASE rows = <<>> /\ svc'[R].seq = 0 /\ svc'[R].last = <<>>
      BY <3>1, RowFacts DEF TailHash
    <3>2. ASSUME NEW i \in DOMAIN rows, IsLastEvent(i),
                 svc'[R].seq = rows[i].seq, svc'[R].last = rows[i].hash
          PROVE  svc'[R].seq = Len(rows) /\ svc'[R].last = TailHash
      <4>1. \A k \in 1 .. Len(rows) : rows[k].seq = k
        BY RowFacts DEF ChainInv, Numbered
      <4>2. Len(rows) \in Nat /\ i \in 1 .. Len(rows) /\ rows # <<>> /\ DOMAIN rows = 1 .. Len(rows)
        BY <3>2, RowFacts
      <4>3. rows[Len(rows)].seq <= rows[i].seq
        BY <3>2, <4>2 DEF IsLastEvent
      <4>4. i = Len(rows)
        BY <4>1, <4>2, <4>3
      <4> QED
        BY <3>2, <4>1, <4>2, <4>4 DEF TailHash
    <3> QED
      BY <1>3, <3>1, <3>2
  <2>5. Numbered'
    BY <1>0, <1>1, <2>1, <2>2, <2>3, <2>4 DEF ChainInv, Numbered
  <2>6. Chained'
    BY <1>0, <1>1, <2>1, <2>2, <2>4 DEF ChainInv, Chained
  <2>7. AckedAsStored'
    BY <1>0, <2>2 DEF ChainInv, AckedAsStored
  <2> QED
    BY <2>5, <2>6, <2>7 DEF ChainInv
<1> QED
  BY <1>2, <1>3, RestartTyped

LEMMA DamageChains ==
  ASSUME TypeOK, Locked, ChainInv, NEW i \in DOMAIN rows, Damage(i)
  PROVE  ChainInv'
<1>1. ~Pristine'
  <2>1. damage \in Nat /\ damage' = damage + 1
    BY DEF Damage, TypeOK
  <2> QED
    BY <2>1 DEF Pristine
<1>2. UNCHANGED <<backend, nextval, svc, call>>
  BY DEF Damage
<1>3. CASE OnTable
  BY <1>1, <1>2, <1>3 DEF OnTable, ChainInv, Numbered, Chained, AckedAsStored
<1>4. CASE ~OnTable
  <2>1. rows' = [rows EXCEPT ![i].content = Garbled]
    BY <1>4 DEF Damage
  <2>2. Len(rows') = Len(rows) /\ DOMAIN rows' = DOMAIN rows
    <3>1. rows \in Seq(Row) /\ i \in 1 .. Len(rows) /\ Len(rows) \in Nat /\ DOMAIN rows = 1 .. Len(rows)
      BY RowFacts
    <3>2. rows' \in Seq(Row)
      BY DamageTyped DEF TypeOK
    <3>3. DOMAIN rows' = DOMAIN rows
      BY <2>1
    <3> QED
      BY <3>1, <3>2, <3>3, LenProperties
  <2>3. \A k \in DOMAIN rows : rows'[k].seq = rows[k].seq
    <3>1. \A k \in DOMAIN rows : rows[k] \in Row
      BY RowFacts
    <3> QED
      BY <2>1, <3>1 DEF Row
  <2>4. \A r \in Replicas : Ahead(r)' = Ahead(r)
    BY <1>2 DEF Ahead
  <2>5. Numbered'
    BY <1>2, <1>4, <2>2, <2>3, <2>4 DEF ChainInv, Numbered, OnTable
  <2> QED
    BY <1>1, <2>5 DEF ChainInv, Chained, AckedAsStored
<1> QED
  BY <1>3, <1>4

LEMMA ChainStep ==
  ASSUME TypeOK, Locked, ChainInv, NEW R, Replicas = {R}, [Next]_vars
  PROVE  ChainInv'
<1>1. CASE \E c \in Callers, r \in Replicas : Request(c, r)
  <2>1. PICK c \in Callers, r \in Replicas : Request(c, r)
    BY <1>1
  <2>2. /\ \A d \in Callers \ {c} : call'[d] = call[d]
        /\ ~Holding(c) /\ ~Holding(c)'
    BY <2>1 DEF Request, Holding, TypeOK
  <2>3. UNCHANGED <<backend, rows, nextval, svc, acked, faults, damage>>
    BY <2>1 DEF Request
  <2> QED
    BY <2>2, <2>3, Quiet
<1>2. CASE \E c \in Callers : LogStep(c)
  BY <1>2, AcquireChains, InsertChains, ErrorChains, FailChains, SucceedChains, AlertChains
     DEF LogStep
<1>3. CASE \/ \E v \in Verifiers, r \in Replicas, from, to \in 1 .. MaxSequence :
                VerifyRead(v, r, from, to)
           \/ \E v \in Verifiers, r \in Replicas : VerifyReadFails(v, r)
           \/ \E v \in Verifiers : VerifyReport(v) \/ VerifyEnd(v)
  <2>1. /\ UNCHANGED <<backend, rows, nextval, call, acked, faults, damage>>
        /\ \A q \in Replicas : /\ svc'[q].up = svc[q].up
                               /\ svc'[q].seq = svc[q].seq
                               /\ svc'[q].last = svc[q].last
    BY <1>3, VerifierTyped
  <2> QED
    BY <2>1, Quiet
<1>4. CASE \E r \in Replicas : Crash(r) \/ Restart(r)
  BY <1>4, CrashChains, RestartChains
<1>5. CASE \E i \in DOMAIN rows : Damage(i)
  BY <1>5, DamageChains
<1>6. CASE UNCHANGED vars
  BY <1>6, Quiet DEF vars
<1> QED
  BY <1>1, <1>2, <1>3, <1>4, <1>5, <1>6 DEF Next

LEMMA ChainInit == Init => ChainInv
<1> SUFFICES ASSUME Init PROVE ChainInv
  OBVIOUS
<1>1. rows = <<>> /\ acked = <<>> /\ nextval = 1 /\ \A c \in Callers : call[c].pc = "idle"
  BY DEF Init, Idle
<1>2. \A r \in Replicas : svc[r].seq = 0 /\ svc[r].last = <<>> /\ ~Ahead(r)
  BY <1>1 DEF Init, Ahead
<1> QED
  BY <1>1, <1>2 DEF ChainInv, Numbered, Chained, Linked, TailHash, AckedAsStored

LEMMA OneServiceInvariant ==
  ASSUME NEW R, Replicas = {R}
  PROVE  Spec => [](TypeOK /\ Locked /\ ChainInv)
<1>1. Init => TypeOK /\ Locked /\ ChainInv
  BY TypingInit, ChainInit
<1>2. TypeOK /\ Locked /\ ChainInv /\ [Next]_vars => (TypeOK /\ Locked /\ ChainInv)'
  BY TypingStep, ChainStep
<1> QED
  BY <1>1, <1>2, PTL DEF Spec

(* One service keeps one unbroken chain through every interleaving of its   *)
(* callers, every refused insert and every crash, for any number of events. *)
THEOREM OneServiceChainIntact ==
  ASSUME NEW R, Replicas = {R}
  PROVE  Spec => []ChainIntact
<1>1. TypeOK /\ Locked /\ ChainInv => ChainIntact
  BY DEF ChainInv, Chained, ChainIntact
<1> QED
  BY <1>1, OneServiceInvariant, PTL

(* And every event its Log returned is stored with the number, link and     *)
(* hash it was returned with.                                               *)
THEOREM OneServiceAckedAsStored ==
  ASSUME NEW R, Replicas = {R}
  PROVE  Spec => []AckedAsStored
<1>1. TypeOK /\ Locked /\ ChainInv => AckedAsStored
  BY DEF ChainInv
<1> QED
  BY <1>1, OneServiceInvariant, PTL

(* One service numbers its events in order over every repository.           *)
THEOREM OneServiceSequenceOrder ==
  ASSUME NEW R, Replicas = {R}
  PROVE  Spec => []SequenceOrder
<1>1. (TypeOK /\ Locked /\ ChainInv) /\ (OnTable => SequenceOrder) => SequenceOrder
  <2> SUFFICES ASSUME TypeOK, ChainInv, ~OnTable PROVE SequenceOrder
    OBVIOUS
  <2>1. \A i \in DOMAIN rows : rows[i].seq = i
    BY DEF ChainInv, Numbered
  <2> QED
    BY <2>1, RowFacts DEF SequenceOrder
<1> QED
  BY <1>1, OneServiceInvariant, TableSequenceOrder, PTL

(* The events of a range of an intact in-memory log are consecutive rows.   *)
LEMMA MemoryRange ==
  ASSUME TypeOK, ~OnTable, NEW from \in Nat, NEW to \in Nat, NEW seen,
         seen = GetEventRange(from, to)
  PROVE  \E a \in Nat : \A i \in DOMAIN seen : /\ a + i \in DOMAIN rows
                                               /\ seen[i] = rows[a + i]
                                               /\ i \in Nat \ {0}
<1> DEFINE a     == Before(from)
           b     == Before(to + 1)
           found == SubSeq(rows, a + 1, b)
<1>1. a \in Nat /\ b \in Nat /\ b <= Len(rows)
  <2>1. to + 1 \in Nat /\ rows \in Seq(Row)
    BY RowFacts
  <2> QED
    BY <2>1, BeforeType
<1>2. /\ found \in Seq(Row)
      /\ Len(found) = IF a + 1 <= b THEN b - (a + 1) + 1 ELSE 0
      /\ \A i \in 1 .. b - (a + 1) + 1 : found[i] = rows[a + 1 + i - 1]
  <2> HIDE DEF a, b
  <2>1. \A i \in a + 1 .. b : rows[i] \in Row
    BY <1>1, RowFacts
  <2>2. a + 1 \in Int /\ b \in Int
    BY <1>1
  <2> QED
    BY <2>1, <2>2, SubSeqProperties
<1>3. seen = [i \in 1 .. Len(found) |-> found[i]]
  BY DEF GetEventRange, ReadBack
<1> HIDE DEF a, b, found
<1>4. ASSUME NEW i \in DOMAIN seen
      PROVE  a + i \in DOMAIN rows /\ seen[i] = rows[a + i] /\ i \in Nat \ {0}
  <2>1. i \in 1 .. Len(found) /\ seen[i] = found[i] /\ DOMAIN rows = 1 .. Len(rows) /\ Len(rows) \in Nat
    BY <1>3, RowFacts
  <2>2. Len(found) \in Nat /\ i \in Nat \ {0} /\ i <= Len(found)
    BY ONLY <1>2, <2>1
  <2>3. i <= b - (a + 1) + 1
    BY ONLY <1>1, <1>2, <2>2
  <2>4. i \in 1 .. b - (a + 1) + 1 /\ a + 1 + i - 1 = a + i /\ a + i \in 1 .. Len(rows)
    BY ONLY <1>1, <2>1, <2>2, <2>3
  <2> QED
    BY <1>2, <2>1, <2>2, <2>4
<1> QED
  BY <1>1, <1>4

(* Consecutive rows of an intact log are linked.                            *)
LEMMA RowsLink ==
  ASSUME TypeOK, Linked, NEW i \in DOMAIN rows, NEW k \in DOMAIN rows, i = k + 1
  PROVE  VerifyLink(rows[i], rows[k])
<1>1. i # 1 /\ i - 1 = k
  BY RowFacts
<1> QED
  BY <1>1, RowFacts DEF Linked, VerifyLink, PrevHash

(* Every check of the service accepts the log it keeps in memory.           *)
THEOREM OneServiceMemoryLogVerifies ==
  ASSUME NEW R, Replicas = {R}
  PROVE  Spec => []MemoryLogVerifies
<1>1. ASSUME TypeOK, ChainInv PROVE MemoryLogVerifies
  <2> SUFFICES ASSUME ~OnTable, Pristine
               PROVE  /\ \A from, to \in 1 .. MaxSequence : RangeValid(GetEventRange(from, to))
                      /\ \A n \in DOMAIN rows : VerifyEvent(rows[n])
                      /\ \A offset \in 0 .. Len(rows), limit \in 0 .. MaxSequence :
                           ExportValid(Query(offset, limit))
    BY DEF MemoryLogVerifies, IntactLogVerifies
  <2>1. Linked /\ MaxSequence \in Nat
    BY <1>1, BoundsAssumption DEF ChainInv, Chained, MaxSequence
  <2>2. ASSUME NEW from \in 1 .. MaxSequence, NEW to \in 1 .. MaxSequence
        PROVE  RangeValid(GetEventRange(from, to))
    <3> DEFINE seen == GetEventRange(from, to)
    <3> HIDE DEF seen
    <3>1. PICK a \in Nat : \A i \in DOMAIN seen : /\ a + i \in DOMAIN rows
                                                  /\ seen[i] = rows[a + i]
                                                  /\ i \in Nat \ {0}
      BY <1>1, <2>1, MemoryRange DEF seen
    <3> SUFFICES ASSUME NEW i \in DOMAIN seen
                 PROVE  Verify(seen[i]) /\ (i > 1 => VerifyLink(seen[i], seen[i - 1]))
      BY DEF RangeValid, seen
    <3>2. Verify(seen[i])
      BY <2>1, <3>1 DEF Linked
    <3>3. ASSUME i > 1
          PROVE  VerifyLink(seen[i], seen[i - 1])
      <4>1. i - 1 \in DOMAIN seen
        <5>1. seen \in Seq(Row)
          BY <1>1, <2>1, RowFacts, RangeType DEF seen
        <5>2. DOMAIN seen = 1 .. Len(seen) /\ Len(seen) \in Nat
          BY <5>1, LenProperties
        <5> QED
          BY <3>1, <3>3, <5>2
      <4>2. /\ a + i \in DOMAIN rows /\ a + (i - 1) \in DOMAIN rows
            /\ seen[i] = rows[a + i] /\ seen[i - 1] = rows[a + (i - 1)]
            /\ a + i = a + (i - 1) + 1
        BY <3>1, <4>1
      <4> QED
        BY <1>1, <2>1, <4>2, RowsLink
    <3> QED
      BY <3>2, <3>3
  <2>3. ASSUME NEW n \in DOMAIN rows
        PROVE  VerifyEvent(rows[n])
    <3>1. rows[n].seq = n /\ Verify(rows[n]) /\ ReadBack(rows[n]) = rows[n]
      BY <2>1 DEF Linked, ReadBack
    <3>2. ASSUME n > 1
          PROVE  \E k \in DOMAIN rows : rows[k].seq = n - 1 /\ VerifyLink(rows[n], rows[k])
      <4>1. n - 1 \in DOMAIN rows /\ n = n - 1 + 1
        BY <1>1, <3>2, RowFacts
      <4> QED
        BY <1>1, <2>1, <4>1, RowsLink DEF Linked
    <3> QED
      BY <3>1, <3>2 DEF VerifyEvent
  <2>4. ASSUME NEW offset \in 0 .. Len(rows), NEW limit \in 0 .. MaxSequence
        PROVE  ExportValid(Query(offset, limit))
    <3> DEFINE last == IF limit < Len(rows) - offset THEN limit ELSE Len(rows) - offset
               page == [i \in 1 .. last |-> rows[offset + i]]
    <3>1. Query(offset, limit) = page
      BY DEF Query
    <3>2. last \in Nat /\ offset + last <= Len(rows) /\ Len(rows) \in Nat /\ DOMAIN rows = 1 .. Len(rows)
      BY <1>1, <2>1, RowFacts
    <3>3. Len(page) = last
      BY <3>2
    <3> HIDE DEF last
    <3> SUFFICES ASSUME NEW i \in 2 .. last PROVE VerifyLink(rows[offset + i], rows[offset + (i - 1)])
      BY <3>1, <3>2, <3>3 DEF ExportValid
    <3>4. offset + i \in DOMAIN rows /\ offset + (i - 1) \in DOMAIN rows
          /\ offset + i = offset + (i - 1) + 1
      BY <3>2
    <3> QED
      BY <1>1, <2>1, <3>4, RowsLink
  <2> QED
    BY <2>2, <2>3, <2>4
<1> QED
  BY <1>1, OneServiceInvariant, PTL

-----------------------------------------------------------------------------
(* What a verdict means                                                    *)

(* A set of numbers that is not empty has a smallest member, and so a set   *)
(* with 0 and every successor of its members holds every number.            *)
LEMMA Smallest ==
  ASSUME NEW T \in SUBSET Nat, T # {}
  PROVE  \E n \in T : \A m \in T : n <= m
<1> DEFINE R == {p \in Nat \X Nat : p[1] < p[2]}
<1>1. IsWellFoundedOn(R, Nat)
  BY NatLessThanWellFounded DEF OpToRel
<1> HIDE DEF R
<1>2. PICK n \in T : \A m \in T : ~ (<<m, n>> \in R)
  BY <1>1, WFMin
<1>3. \A m \in T : ~ (m < n)
  BY <1>2 DEF R
<1> QED
  BY <1>3

LEMMA EveryNumber ==
  ASSUME NEW S, 0 \in S, \A n \in Nat : n \in S => n + 1 \in S
  PROVE  Nat \subseteq S
<1> SUFFICES ASSUME Nat \ S # {} PROVE FALSE
  OBVIOUS
<1>1. PICK n \in Nat \ S : \A m \in Nat \ S : n <= m
  BY Smallest
<1>2. n - 1 \in Nat /\ n - 1 \in S
  BY <1>1
<1> QED
  BY <1>1, <1>2

(* The hash of the n-th of a valid range covers the contents before it.     *)
Covers(seen, n) ==
  LET covered == seen[n].hash
  IN  /\ Len(covered) >= n
      /\ \A i \in 1 .. n : covered[Len(covered) - n + i] = seen[i].content

LEMMA CoversNext ==
  ASSUME NEW seen \in Seq(Row), RangeValid(seen), NEW n \in Nat, n + 1 \in DOMAIN seen,
         n # 0 => Covers(seen, n)
  PROVE  Covers(seen, n + 1)
<1> DEFINE row     == seen[n + 1]
           before  == row.prev
           covered == row.hash
<1>1. row \in Row /\ before \in Hash /\ row.content \in Content
  <2>1. row \in Row
    BY ElementOfSeq, LenProperties
  <2> QED
    BY <2>1 DEF Row
<1>2. /\ covered \in Hash /\ Len(covered) = Len(before) + 1 /\ Len(before) \in Nat
      /\ \A i \in 1 .. Len(before) : covered[i] = before[i]
      /\ covered[Len(before) + 1] = row.content
  <2>1. covered = Append(before, row.content)
    BY DEF RangeValid, Verify, ComputeHash
  <2> HIDE DEF before, covered, row
  <2> QED
    BY <1>1, <2>1, AppendProperties, LenProperties DEF Hash
<1>3. n # 0 => before = seen[n].hash
  <2>1. n # 0 => VerifyLink(seen[n + 1], seen[n + 1 - 1]) /\ n + 1 - 1 = n
    BY DEF RangeValid
  <2> QED
    BY <2>1 DEF VerifyLink
<1>4. n # 0 => /\ Len(before) >= n
               /\ \A i \in 1 .. n : before[Len(before) - n + i] = seen[i].content
  BY <1>3 DEF Covers
<1> HIDE DEF before, covered
<1>5. Len(covered) >= n + 1
  BY <1>2, <1>4
<1>6. ASSUME NEW i \in 1 .. n + 1
      PROVE  covered[Len(covered) - (n + 1) + i] = seen[i].content
  <2>1. CASE i = n + 1
    <3>1. Len(covered) - (n + 1) + i = Len(before) + 1
      BY <1>2, <2>1
    <3> QED
      BY <1>2, <2>1, <3>1
  <2>2. CASE i # n + 1
    <3>1. i \in 1 .. n /\ n # 0
      BY <2>2
    <3>2. /\ Len(covered) - (n + 1) + i = Len(before) - n + i
          /\ Len(before) - n + i \in 1 .. Len(before)
      <4>1. Len(before) >= n /\ Len(before) \in Nat /\ Len(covered) = Len(before) + 1
        BY <1>2, <1>4, <3>1
      <4> QED
        BY ONLY <3>1, <4>1, n \in Nat
    <3> QED
      BY <1>2, <1>4, <3>1, <3>2
  <2> QED
    BY <2>1, <2>2
<1> QED
  BY <1>5, <1>6 DEF Covers, covered

LEMMA CoversAll ==
  ASSUME NEW seen \in Seq(Row), RangeValid(seen), seen # <<>>
  PROVE  Covers(seen, Len(seen))
<1>1. Len(seen) \in Nat /\ DOMAIN seen = 1 .. Len(seen) /\ Len(seen) # 0
  BY LenProperties, EmptySeq
<1> DEFINE S == {n \in Nat : n \in DOMAIN seen => Covers(seen, n)}
<1>2. 0 \in S
  BY <1>1
<1>3. \A n \in Nat : n \in S => n + 1 \in S
  <2> SUFFICES ASSUME NEW n \in Nat, n \in S, n + 1 \in DOMAIN seen
               PROVE  Covers(seen, n + 1)
    OBVIOUS
  <2>1. n # 0 => n \in DOMAIN seen
    BY <1>1
  <2> QED
    BY <2>1, CoversNext
<1> HIDE DEF S
<1>4. Len(seen) \in S
  BY <1>1, <1>2, <1>3, EveryNumber
<1> QED
  BY <1>1, <1>4 DEF S

LEMMA JudgedStep == TypeOK /\ Judged /\ [Next]_vars => Judged'
<1> SUFFICES ASSUME TypeOK, Judged, [Next]_vars
             PROVE  Judged'
  OBVIOUS
<1>0. check \in [Verifiers -> Check]
  BY DEF TypeOK
<1>1. CASE check' = check
  BY <1>1 DEF Judged, RangeValid
<1>2. CASE \E v \in Verifiers, r \in Replicas, from, to \in 1 .. MaxSequence :
             VerifyRead(v, r, from, to)
  BY <1>0, <1>2 DEF VerifyRead, Judged
<1>3. CASE \E v \in Verifiers, r \in Replicas : VerifyReadFails(v, r)
  BY <1>0, <1>3 DEF VerifyReadFails, Judged
<1>4. CASE \E v \in Verifiers : VerifyReport(v)
  <2>1. PICK v \in Verifiers : VerifyReport(v)
    BY <1>4
  <2> DEFINE valid == RangeValid(check[v].seen)
  <2>2. check' = [check EXCEPT ![v].pc = "done", ![v].valid = valid]
    BY <2>1 DEF VerifyReport
  <2> HIDE DEF valid
  <2>3. \A w \in Verifiers : /\ check'[w].seen = check[w].seen
                             /\ w # v => check'[w] = check[w]
                             /\ w = v => check'[w].valid = valid
    BY <1>0, <2>2 DEF Check
  <2> QED
    BY <2>3 DEF Judged, valid
<1>5. CASE \E v \in Verifiers : VerifyEnd(v)
  BY <1>0, <1>5 DEF VerifyEnd, NoCheck, Judged
<1>6. CASE \E r \in Replicas : Crash(r)
  BY <1>0, <1>6 DEF Crash, NoCheck, Judged
<1> QED
  <2>1. CASE \E c \in Callers, r \in Replicas : Request(c, r)
    BY <1>1, <2>1 DEF Request
  <2>2. CASE \E c \in Callers : LogStep(c)
    BY <1>1, <2>2 DEF LogStep, Acquire, Insert, Refuse, Reject, Fail, FailFrame, Succeed, Alert
  <2>3. CASE \E r \in Replicas : Restart(r)
    BY <1>1, <2>3 DEF Restart
  <2>4. CASE \E i \in DOMAIN rows : Damage(i)
    BY <1>1, <2>4 DEF Damage
  <2>5. CASE UNCHANGED vars
    BY <1>1, <2>5 DEF vars
  <2> QED
    BY <1>2, <1>3, <1>4, <1>5, <1>6, <2>1, <2>2, <2>3, <2>4, <2>5 DEF Next

(* A verdict "valid" of VerifyChain means one history, however many services *)
(* write and however the rows are damaged meanwhile.                        *)
THEOREM ValidIsHistory == Spec => []ValidMeansHistory
<1>1. Init => Judged
  BY DEF Init, NoCheck, Judged
<1>2. TypeOK /\ Judged => ValidMeansHistory
  <2> SUFFICES ASSUME TypeOK, Judged, NEW v \in Verifiers, check[v].pc = "done",
                      check[v].valid, Len(check[v].seen) > 0
               PROVE  Covers(check[v].seen, Len(check[v].seen))
    BY DEF ValidMeansHistory, Covers
  <2> DEFINE seen == check[v].seen
  <2>1. seen \in Seq(Row)
    BY DEF TypeOK, Check
  <2>2. seen # <<>> /\ RangeValid(seen)
    BY DEF Judged
  <2> QED
    BY <2>1, <2>2, CoversAll
<1> QED
  BY <1>1, <1>2, JudgedStep, AuditLogTyped, PTL DEF Spec

-----------------------------------------------------------------------------
(* What each kind of step does to the rows, the calls and the history       *)

(* A builder makes an event, and its call waits.                            *)
Requested(c) ==
  /\ UNCHANGED <<rows, acked, offered, damage>>
  /\ call[c].pc = "idle" /\ built' = built + 1
  /\ call'[c].pc = "lock" /\ call'[c].event.content.body = built + 1
  /\ \A d \in Callers \ {c} : call'[d] = call[d]

(* The event of a call becomes the last row, reported or not.               *)
Inserted(c) ==
  /\ UNCHANGED <<acked, offered, damage, built>>
  /\ call[c].pc = "append" /\ call'[c].pc \in {"ok", "error"}
  /\ \A d \in Callers : /\ call'[d].event = call[d].event
                        /\ d # c => call'[d].pc = call[d].pc
  /\ rows' = Append(rows, Stored(call[c].event))

(* An answered call returns its event, given to the notifier if it alerts.  *)
Returned(c) ==
  /\ UNCHANGED <<rows, damage, built>>
  /\ call[c].pc \in {"ok", "alert"}
  /\ \A d \in Callers : call'[d] = IF d = c THEN Idle ELSE call[d]
  /\ acked' = Append(acked, call[c].event)
  /\ \/ offered' = offered /\ call[c].event.content.class # "alerting"
     \/ offered' = offered \union {call[c].event.content}

(* Calls go on or end with the contents they had; none is answered.         *)
GoesOn ==
  /\ UNCHANGED <<rows, acked, offered, damage, built>>
  /\ \A c \in Callers :
       call'[c].pc # "idle" =>
         /\ call[c].pc # "idle"
         /\ call'[c].event.content = call[c].event.content
         /\ call'[c].pc \in {"lock", "append"} => call[c].pc \in {"lock", "append"}
         /\ call'[c].pc \in {"ok", "alert"} => call[c].pc \in {"ok", "alert"}

(* The process dies with the repository in its memory.                      *)
Lost(r) ==
  /\ ~OnTable
  /\ UNCHANGED <<damage, built>>
  /\ rows' = <<>> /\ acked' = <<>> /\ offered' = {}
  /\ \A c \in Callers : call'[c] = IF call[c].at = r THEN Idle ELSE call[c]

(* Rows are altered or removed.                                             *)
Damaged == damage' # 0 /\ UNCHANGED <<acked, offered>>

LEMMA RequestKind ==
  ASSUME TypeOK, NEW c \in Callers, NEW r \in Replicas, Request(c, r)
  PROVE  Requested(c)
<1>1. call \in [Callers -> Call]
  BY DEF TypeOK
<1> DEFINE content == [body |-> built + 1, class |-> Shape[c].class, nanos |-> Shape[c].nanos]
           next    == [pc |-> "lock", at |-> r, event |-> [NoEvent EXCEPT !.content = content]]
<1>2. next.pc = "lock" /\ next.event.content.body = built + 1
  BY DEF NoEvent
<1>3. call' = [call EXCEPT ![c] = next]
  BY DEF Request
<1> HIDE DEF next
<1> QED
  BY <1>1, <1>2, <1>3 DEF Request, Requested

LEMMA ErrorKind ==
  ASSUME TypeOK, NEW c \in Callers, call[c].pc = "append",
         UNCHANGED <<rows, acked, offered, damage, built>>,
         \A d \in Callers : /\ call'[d].event = call[d].event
                            /\ call'[d].pc = IF d = c THEN "error" ELSE call[d].pc
  PROVE  GoesOn
BY DEF GoesOn

LEMMA LogStepKind ==
  ASSUME TypeOK, Locked, NEW c \in Callers, LogStep(c)
  PROVE  Inserted(c) \/ Returned(c) \/ GoesOn
<1>1. CASE Acquire(c)
  <2>1. /\ \A d \in Callers \ {c} : call'[d] = call[d]
        /\ call'[c].pc = "append" /\ call'[c].event = BuildAfter(svc[call[c].at], call[c].event)
    BY <1>1, AcquireTyped
  <2>2. call[c].event \in Row
    BY DEF TypeOK, Call
  <2>3. call'[c].event.content = call[c].event.content
    BY <2>1, <2>2 DEF BuildAfter, Row
  <2>4. call[c].pc = "lock" /\ UNCHANGED <<rows, acked, offered, damage, built>>
    BY <1>1 DEF Acquire
  <2> QED
    BY <2>1, <2>3, <2>4 DEF GoesOn
<1>2. ASSUME NEW answer \in {"ok", "error"}, Insert(c, answer)
      PROVE  Inserted(c)
  <2>1. call[c].pc = "append" /\ UNCHANGED <<acked, offered, damage, built>>
    BY <1>2 DEF Insert
  <2> QED
    BY <1>2, <2>1, InsertTyped DEF Inserted
<1>3. ASSUME NEW drawn \in BOOLEAN, Refuse(c, drawn)
      PROVE  GoesOn
  <2>1. call[c].pc = "append" /\ UNCHANGED <<rows, acked, offered, damage, built>>
    BY <1>3 DEF Refuse
  <2> QED
    BY <1>3, <2>1, RefuseTyped, ErrorKind
<1>4. CASE Reject(c)
  <2>1. call[c].pc = "append" /\ UNCHANGED <<rows, acked, offered, damage, built>>
    BY <1>4 DEF Reject
  <2> QED
    BY <1>4, <2>1, RejectTyped, ErrorKind
<1>5. CASE Fail(c)
  <2>1. UNCHANGED <<rows, acked, offered, damage, built>>
    BY <1>5 DEF Fail, FailFrame
  <2> QED
    BY <1>5, <2>1, FailTyped DEF GoesOn, Idle
<1>6. CASE Succeed(c)
  <2>1. call[c].pc = "ok" /\ UNCHANGED <<rows, offered, damage, built>>
    BY <1>6 DEF Succeed
  <2>2. /\ \A d \in Callers \ {c} : call'[d] = call[d]
        /\ \/ call'[c].pc = "alert" /\ call'[c].event = call[c].event /\ acked' = acked
           \/ call'[c] = Idle /\ acked' = Append(acked, call[c].event)
    BY <1>6, SucceedTyped
  <2>3. call'[c].pc # "alert" => call[c].event.content.class # "alerting"
    <3>1. call \in [Callers -> Call]
      BY DEF TypeOK
    <3> QED
      BY <1>6, <3>1 DEF Succeed, Call
  <2>4. CASE call'[c].pc = "alert" /\ call'[c].event = call[c].event /\ acked' = acked
    BY <2>1, <2>2, <2>4 DEF GoesOn
  <2>5. CASE call'[c] = Idle /\ acked' = Append(acked, call[c].event)
    BY <2>1, <2>2, <2>3, <2>5 DEF Returned, Idle
  <2> QED
    BY <2>2, <2>4, <2>5
<1>7. CASE Alert(c)
  <2>1. /\ call[c].pc = "alert" /\ UNCHANGED <<rows, damage, built>>
        /\ offered' = offered \union {call[c].event.content}
    BY <1>7 DEF Alert
  <2> QED
    BY <1>7, <2>1, AlertTyped DEF Returned
<1> QED
  BY <1>1, <1>2, <1>3, <1>4, <1>5, <1>6, <1>7 DEF LogStep

LEMMA StepKinds ==
  ASSUME TypeOK, Locked, [Next]_vars
  PROVE  \/ \E c \in Callers : Requested(c) \/ Inserted(c) \/ Returned(c)
         \/ \E r \in Replicas : Lost(r)
         \/ GoesOn
         \/ Damaged
<1>1. CASE \E c \in Callers, r \in Replicas : Request(c, r)
  BY <1>1, RequestKind
<1>2. CASE \E c \in Callers : LogStep(c)
  BY <1>2, LogStepKind
<1>3. CASE UNCHANGED <<rows, acked, offered, damage, built, call>>
  BY <1>3 DEF GoesOn
<1>4. CASE \/ \E v \in Verifiers, r \in Replicas, from, to \in 1 .. MaxSequence :
                VerifyRead(v, r, from, to)
           \/ \E v \in Verifiers, r \in Replicas : VerifyReadFails(v, r)
           \/ \E v \in Verifiers : VerifyReport(v) \/ VerifyEnd(v)
  BY <1>3, <1>4, VerifierTyped
<1>5. ASSUME NEW r \in Replicas, Crash(r)
      PROVE  Lost(r) \/ GoesOn
  <2>1. \A c \in Callers : call'[c] = IF call[c].at = r THEN Idle ELSE call[c]
    BY <1>5, CrashTyped
  <2>2. /\ UNCHANGED <<damage, built>>
        /\ \/ ~OnTable /\ rows' = <<>> /\ acked' = <<>> /\ offered' = {}
           \/ UNCHANGED <<rows, acked, offered>>
    BY <1>5 DEF Crash
  <2>3. CASE ~OnTable /\ rows' = <<>> /\ acked' = <<>> /\ offered' = {}
    BY <2>1, <2>2, <2>3 DEF Lost
  <2>4. CASE UNCHANGED <<rows, acked, offered>>
    BY <2>1, <2>2, <2>4 DEF GoesOn, Idle
  <2> QED
    BY <2>2, <2>3, <2>4
<1>6. CASE \E r \in Replicas : Restart(r)
  BY <1>3, <1>6 DEF Restart
<1>7. CASE \E i \in DOMAIN rows : Damage(i)
  <2>1. damage \in Nat /\ damage' = damage + 1 /\ UNCHANGED <<acked, offered>>
    BY <1>7 DEF Damage, TypeOK
  <2> QED
    BY <2>1 DEF Damaged
<1>8. CASE UNCHANGED vars
  BY <1>3, <1>8 DEF vars
<1> QED
  BY <1>1, <1>2, <1>4, <1>5, <1>6, <1>7, <1>8 DEF Next

(* The rows after an insert.                                                *)
LEMMA InsertedRows ==
  ASSUME TypeOK, NEW c \in Callers, Inserted(c)
  PROVE  /\ Len(rows') = Len(rows) + 1 /\ DOMAIN rows' = 1 .. Len(rows) + 1
         /\ \A i \in 1 .. Len(rows) : rows'[i] = rows[i]
         /\ rows'[Len(rows) + 1].content = call[c].event.content
<1> DEFINE row == Stored(call[c].event)
<1>1. call[c].event \in Row /\ nextval \in Nat
  BY DEF TypeOK, Call
<1>2. row \in Row /\ row.content = call[c].event.content
  BY <1>1, StoredType DEF Stored, Row
<1>3. rows' = Append(rows, row)
  BY DEF Inserted
<1> HIDE DEF row
<1>4. rows \in Seq(Row)
  BY DEF TypeOK
<1>5. /\ rows' \in Seq(Row) /\ Len(rows') = Len(rows) + 1
      /\ \A i \in 1 .. Len(rows) : rows'[i] = rows[i]
      /\ rows'[Len(rows) + 1] = row
  BY <1>2, <1>3, <1>4, AppendProperties
<1> QED
  BY <1>2, <1>5, LenProperties

(* The events after a return.                                               *)
LEMMA ReturnedAcked ==
  ASSUME TypeOK, NEW c \in Callers, Returned(c)
  PROVE  /\ DOMAIN acked' = 1 .. Len(acked) + 1
         /\ \A k \in 1 .. Len(acked) : acked'[k] = acked[k]
         /\ acked'[Len(acked) + 1] = call[c].event
<1>1. acked \in Seq(Row) /\ call[c].event \in Row
  BY DEF TypeOK, Call
<1> QED
  BY <1>1, AppendProperties, LenProperties DEF Returned

-----------------------------------------------------------------------------
(* The identity of events                                                   *)

LEMMA BuiltNat == TypeOK => built \in Nat
BY DEF TypeOK

LEMMA IdentifiedStep ==
  ASSUME TypeOK, Locked, Identified, [Next]_vars
  PROVE  Identified'
<1>1. ASSUME NEW c \in Callers, Requested(c)
      PROVE  Identified'
  <2>1. built \in Nat /\ built' = built + 1
    BY <1>1, BuiltNat DEF Requested
  <2>2. 1 .. built \subseteq 1 .. built' /\ built + 1 \in 1 .. built' /\ built + 1 \notin 1 .. built
    BY <2>1
  <2>3. /\ UNCHANGED <<rows, damage>>
        /\ call'[c].pc = "lock" /\ call'[c].event.content.body = built + 1
        /\ \A d \in Callers \ {c} : call'[d] = call[d]
    BY <1>1 DEF Requested
  <2> SUFFICES ASSUME damage = 0 PROVE Identified'
    BY <2>3 DEF Identified
  <2>4. /\ \A i \in DOMAIN rows : rows[i].content.body \in 1 .. built
        /\ \A d \in Callers : call[d].pc # "idle" => call[d].event.content.body \in 1 .. built
    BY DEF Identified
  <2>5. \A i \in DOMAIN rows' : rows'[i].content.body \in 1 .. built'
    BY <2>2, <2>3, <2>4
  <2>6. \A d \in Callers : call'[d].pc # "idle" => call'[d].event.content.body \in 1 .. built'
    BY <2>2, <2>3, <2>4
  <2>7. \A d, e \in Callers :
          /\ call'[d].pc # "idle" /\ call'[e].pc # "idle"
          /\ call'[d].event.content.body = call'[e].event.content.body
          => d = e
    BY <2>2, <2>3, <2>4 DEF Identified
  <2>8. \A d \in Callers, i \in DOMAIN rows' :
          call'[d].pc \in {"lock", "append"} =>
            rows'[i].content.body # call'[d].event.content.body
    BY <2>2, <2>3, <2>4 DEF Identified
  <2> QED
    BY <2>3, <2>5, <2>6, <2>7, <2>8 DEF Identified
<1>2. ASSUME NEW c \in Callers, Inserted(c)
      PROVE  Identified'
  <2>1. /\ UNCHANGED <<damage, built>> /\ call[c].pc = "append"
        /\ call'[c].pc \in {"ok", "error"}
        /\ \A d \in Callers : /\ call'[d].event = call[d].event
                              /\ d # c => call'[d].pc = call[d].pc
    BY <1>2 DEF Inserted
  <2>2. /\ DOMAIN rows' = 1 .. Len(rows) + 1 /\ DOMAIN rows = 1 .. Len(rows) /\ Len(rows) \in Nat
        /\ \A i \in 1 .. Len(rows) : rows'[i] = rows[i]
        /\ rows'[Len(rows) + 1].content = call[c].event.content
    BY <1>2, InsertedRows, RowFacts
  <2> SUFFICES ASSUME damage = 0 PROVE Identified'
    BY <2>1 DEF Identified
  <2>3. /\ \A i \in DOMAIN rows : rows[i].content.body # call[c].event.content.body
        /\ call[c].event.content.body \in 1 .. built
        /\ \A d \in Callers : call[d].pc # "idle" /\ d # c =>
             call[d].event.content.body # call[c].event.content.body
    BY <2>1 DEF Identified
  <2>4. \A i \in DOMAIN rows' : i \in DOMAIN rows \/ i = Len(rows) + 1
    BY <2>2
  <2>5. \A i \in DOMAIN rows' : rows'[i].content.body \in 1 .. built
    BY <2>2, <2>3, <2>4 DEF Identified
  <2>6. \A i, j \in DOMAIN rows' : rows'[i].content.body = rows'[j].content.body => i = j
    BY <2>2, <2>3, <2>4 DEF Identified
  <2>7. /\ \A d \in Callers : call'[d].pc # "idle" => call[d].pc # "idle"
        /\ \A d \in Callers : call'[d].pc \in {"lock", "append"} =>
                                call[d].pc \in {"lock", "append"} /\ d # c
    BY <2>1
  <2>8. \A d \in Callers, i \in DOMAIN rows' :
          call'[d].pc \in {"lock", "append"} =>
            rows'[i].content.body # call'[d].event.content.body
    <3> SUFFICES ASSUME NEW d \in Callers, NEW i \in DOMAIN rows',
                        call'[d].pc \in {"lock", "append"}
                 PROVE  rows'[i].content.body # call[d].event.content.body
      BY <2>1
    <3>1. call[d].pc \in {"lock", "append"} /\ d # c /\ call[d].pc # "idle"
      BY <2>7
    <3>2. CASE i = Len(rows) + 1
      BY <2>2, <2>3, <3>1, <3>2
    <3>3. CASE i \in DOMAIN rows
      BY <2>2, <3>1, <3>3 DEF Identified
    <3> QED
      BY <2>4, <3>2, <3>3
  <2> QED
    BY <2>1, <2>5, <2>6, <2>7, <2>8 DEF Identified
<1>3. ASSUME UNCHANGED <<damage, built>>, rows' = rows \/ rows' = <<>>,
             \A c \in Callers :
               call'[c].pc # "idle" =>
                 /\ call[c].pc # "idle"
                 /\ call'[c].event.content = call[c].event.content
                 /\ call'[c].pc \in {"lock", "append"} => call[c].pc \in {"lock", "append"}
      PROVE  Identified'
  <2>1. \A i \in DOMAIN rows' : i \in DOMAIN rows /\ rows'[i] = rows[i]
    BY <1>3
  <2> SUFFICES ASSUME damage = 0 PROVE Identified'
    BY <1>3 DEF Identified
  <2>2. /\ \A i \in DOMAIN rows' : rows'[i].content.body \in 1 .. built
        /\ \A i, j \in DOMAIN rows' : rows'[i].content.body = rows'[j].content.body => i = j
    BY <2>1 DEF Identified
  <2>3. \A c \in Callers : call'[c].pc # "idle" => call'[c].event.content.body \in 1 .. built
    BY <1>3 DEF Identified
  <2>4. \A c, d \in Callers :
          /\ call'[c].pc # "idle" /\ call'[d].pc # "idle"
          /\ call'[c].event.content.body = call'[d].event.content.body
          => c = d
    <3> SUFFICES ASSUME NEW c \in Callers, NEW d \in Callers,
                        call'[c].pc # "idle", call'[d].pc # "idle",
                        call'[c].event.content.body = call'[d].event.content.body
                 PROVE  c = d
      OBVIOUS
    <3>1. /\ call[c].pc # "idle" /\ call'[c].event.content = call[c].event.content
          /\ call[d].pc # "idle" /\ call'[d].event.content = call[d].event.content
      BY <1>3
    <3> QED
      BY <3>1 DEF Identified
  <2>5. \A c \in Callers, i \in DOMAIN rows' :
          call'[c].pc \in {"lock", "append"} =>
            rows'[i].content.body # call'[c].event.content.body
    <3> SUFFICES ASSUME NEW c \in Callers, NEW i \in DOMAIN rows',
                        call'[c].pc \in {"lock", "append"}
                 PROVE  rows'[i].content.body # call'[c].event.content.body
      OBVIOUS
    <3>1. call[c].pc \in {"lock", "append"} /\ call'[c].event.content = call[c].event.content
      BY <1>3
    <3> QED
      BY <2>1, <3>1 DEF Identified
  <2> QED
    BY <1>3, <2>2, <2>3, <2>4, <2>5 DEF Identified
<1>4. ASSUME NEW c \in Callers, Returned(c)
      PROVE  Identified'
  <2>1. UNCHANGED <<rows, damage, built>> /\ \A d \in Callers : call'[d] = IF d = c THEN Idle ELSE call[d]
    BY <1>4 DEF Returned
  <2> QED
    BY <1>3, <2>1 DEF Idle
<1>5. ASSUME NEW r \in Replicas, Lost(r)
      PROVE  Identified'
  <2>1. /\ UNCHANGED <<damage, built>> /\ rows' = <<>>
        /\ \A c \in Callers : call'[c] = IF call[c].at = r THEN Idle ELSE call[c]
    BY <1>5 DEF Lost
  <2> QED
    BY <1>3, <2>1 DEF Idle
<1>6. CASE GoesOn
  BY <1>3, <1>6 DEF GoesOn
<1>7. CASE Damaged
  BY <1>7 DEF Damaged, Identified
<1> QED
  BY <1>1, <1>2, <1>4, <1>5, <1>6, <1>7, StepKinds

-----------------------------------------------------------------------------
(* The notifier                                                             *)

AlertsOffered ==
  \A k \in DOMAIN acked :
    acked[k].content.class = "alerting" => acked[k].content \in offered

OfferedStored == damage = 0 => \A content \in offered : IsStored(content)

(* A repository that no other process can take along.                       *)
Keeps == OnTable \/ \A q, r \in Replicas : q = r

LEMMA AlertsOfferedStep ==
  ASSUME TypeOK, Locked, AlertsOffered, [Next]_vars
  PROVE  AlertsOffered'
<1>0. DOMAIN acked = 1 .. Len(acked) /\ Len(acked) \in Nat
  BY RowFacts
<1>1. ASSUME NEW c \in Callers, Returned(c)
      PROVE  AlertsOffered'
  <2>1. /\ DOMAIN acked' = 1 .. Len(acked) + 1
        /\ \A k \in 1 .. Len(acked) : acked'[k] = acked[k]
        /\ acked'[Len(acked) + 1] = call[c].event
    BY <1>1, ReturnedAcked
  <2>2. /\ offered \subseteq offered'
        /\ call[c].event.content.class = "alerting" => call[c].event.content \in offered'
    BY <1>1 DEF Returned
  <2>3. \A k \in DOMAIN acked' : k \in DOMAIN acked \/ k = Len(acked) + 1
    BY <1>0, <2>1
  <2> QED
    BY <1>0, <2>1, <2>2, <2>3 DEF AlertsOffered
<1>2. CASE UNCHANGED <<acked, offered>>
  BY <1>2 DEF AlertsOffered
<1>3. ASSUME NEW r \in Replicas, Lost(r)
      PROVE  AlertsOffered'
  BY <1>3 DEF Lost, AlertsOffered
<1> QED
  BY <1>1, <1>2, <1>3, StepKinds DEF Requested, Inserted, GoesOn, Damaged

(* What was stored still is.                                                *)
LEMMA StoredStays ==
  ASSUME TypeOK, NEW content, IsStored(content),
         UNCHANGED rows \/ \E c \in Callers : Inserted(c)
  PROVE  IsStored(content)'
<1>1. CASE UNCHANGED rows
  BY <1>1 DEF IsStored
<1>2. ASSUME NEW c \in Callers, Inserted(c)
      PROVE  IsStored(content)'
  <2>1. /\ DOMAIN rows' = 1 .. Len(rows) + 1 /\ DOMAIN rows = 1 .. Len(rows) /\ Len(rows) \in Nat
        /\ \A i \in 1 .. Len(rows) : rows'[i] = rows[i]
    BY <1>2, InsertedRows, RowFacts
  <2>2. PICK n \in DOMAIN rows : rows[n].content = content
    BY DEF IsStored
  <2>3. n \in DOMAIN rows' /\ rows'[n].content = content
    BY <2>1, <2>2
  <2> QED
    BY <2>3 DEF IsStored
<1> QED
  BY <1>1, <1>2

LEMMA AnsweredStoredStep ==
  ASSUME TypeOK, Locked, AnsweredStored, OfferedStored, Keeps, [Next]_vars
  PROVE  AnsweredStored' /\ OfferedStored'
<1>1. CASE Damaged
  BY <1>1 DEF Damaged, AnsweredStored, OfferedStored
<1>2. ASSUME NEW c \in Callers, Inserted(c)
      PROVE  AnsweredStored' /\ OfferedStored'
  <2>1. /\ UNCHANGED <<damage, offered>>
        /\ \A d \in Callers : /\ call'[d].event = call[d].event
                              /\ d # c => call'[d].pc = call[d].pc
    BY <1>2 DEF Inserted
  <2>2. IsStored(call[c].event.content)'
    <3>1. /\ Len(rows) + 1 \in DOMAIN rows'
          /\ rows'[Len(rows) + 1].content = call'[c].event.content
      BY <1>2, <2>1, InsertedRows, RowFacts
    <3> QED
      BY <3>1 DEF IsStored
  <2>3. ASSUME damage = 0, NEW d \in Callers, call'[d].pc \in {"ok", "alert"}
        PROVE  IsStored(call[d].event.content)'
    <3>1. CASE d = c
      BY <2>2, <3>1
    <3>2. CASE d # c
      <4>1. PICK content : content = call[d].event.content /\ content = call'[d].event.content
        BY <2>1
      <4>2. IsStored(content)
        BY <2>1, <2>3, <3>2, <4>1 DEF AnsweredStored
      <4>3. IsStored(content)'
        BY <1>2, <4>2, StoredStays
      <4> QED
        BY <4>1, <4>3
    <3> QED
      BY <3>1, <3>2
  <2>4. ASSUME damage = 0, NEW content \in offered
        PROVE  IsStored(content)'
    BY <1>2, <2>4, StoredStays DEF OfferedStored
  <2> QED
    BY <2>1, <2>3, <2>4 DEF AnsweredStored, OfferedStored
<1>3. ASSUME UNCHANGED <<rows, damage>>,
             \A d \in Callers :
               call'[d].pc \in {"ok", "alert"} =>
                 /\ call[d].pc \in {"ok", "alert"}
                 /\ call'[d].event.content = call[d].event.content
      PROVE  AnsweredStored'
  <2> SUFFICES ASSUME damage = 0, NEW d \in Callers, call'[d].pc \in {"ok", "alert"}
               PROVE  IsStored(call[d].event.content)'
    BY <1>3 DEF AnsweredStored
  <2> QED
    BY <1>3 DEF AnsweredStored, IsStored
<1>4. ASSUME UNCHANGED <<rows, damage, offered>>
      PROVE  OfferedStored'
  BY <1>4 DEF OfferedStored, IsStored
<1>5. ASSUME NEW c \in Callers, Requested(c)
      PROVE  AnsweredStored' /\ OfferedStored'
  BY <1>3, <1>4, <1>5 DEF Requested
<1>6. CASE GoesOn
  <2>1. \A d \in Callers : call'[d].pc \in {"ok", "alert"} => call'[d].pc # "idle"
    OBVIOUS
  <2> QED
    BY <1>3, <1>4, <1>6, <2>1 DEF GoesOn
<1>7. ASSUME NEW c \in Callers, Returned(c)
      PROVE  AnsweredStored' /\ OfferedStored'
  <2>1. UNCHANGED <<rows, damage>> /\ \A d \in Callers : call'[d] = IF d = c THEN Idle ELSE call[d]
    BY <1>7 DEF Returned
  <2>2. AnsweredStored'
    BY <1>3, <2>1 DEF Idle
  <2>3. OfferedStored'
    <3>1. damage = 0 => IsStored(call[c].event.content)
      BY <1>7 DEF Returned, AnsweredStored
    <3>2. \A content \in offered' : content \in offered \/ content = call[c].event.content
      BY <1>7 DEF Returned
    <3> QED
      BY <2>1, <3>1, <3>2 DEF OfferedStored, IsStored
  <2> QED
    BY <2>2, <2>3
<1>8. ASSUME NEW r \in Replicas, Lost(r)
      PROVE  AnsweredStored' /\ OfferedStored'
  <2>1. \A c \in Callers : call'[c].pc = "idle"
    BY <1>8 DEF Lost, Keeps, Locked, Idle
  <2> QED
    BY <1>8, <2>1 DEF Lost, AnsweredStored, OfferedStored
<1> QED
  BY <1>1, <1>2, <1>5, <1>6, <1>7, <1>8, StepKinds

LEMMA IdentityInvariant ==
  Spec => [](TypeOK /\ Locked /\ Identified /\ AlertsOffered)
<1>1. Init => TypeOK /\ Locked
  BY TypingInit
<1>2. Init => Identified /\ AlertsOffered
  BY DEF Init, Idle, Identified, AlertsOffered
<1>3. TypeOK /\ Locked /\ Identified /\ AlertsOffered /\ [Next]_vars
        => (TypeOK /\ Locked /\ Identified /\ AlertsOffered)'
  BY TypingStep, IdentifiedStep, AlertsOfferedStep
<1> QED
  BY <1>1, <1>2, <1>3, PTL DEF Spec

LEMMA AlertsInvariant == Spec => [](Keeps => AnsweredStored /\ OfferedStored)
<1>1. Init => AnsweredStored /\ OfferedStored
  BY DEF Init, Idle, AnsweredStored, OfferedStored
<1>2. ~Keeps /\ [Next]_vars => ~Keeps'
  <2> SUFFICES ASSUME [Next]_vars PROVE backend' = backend
    BY DEF Keeps, OnTable
  <2> QED
    BY DEF Next, vars, Request, LogStep, Acquire, Insert, Refuse, Reject, Fail, FailFrame, Succeed,
       Alert, VerifyRead, VerifyReadFails, VerifyReport, VerifyEnd, Crash, Restart, Damage
<1>3. TypeOK /\ Locked /\ (Keeps => AnsweredStored /\ OfferedStored) /\ [Next]_vars
        => (Keeps => AnsweredStored /\ OfferedStored)'
  BY <1>2, AnsweredStoredStep
<1> QED
  BY <1>1, <1>3, IdentityInvariant, PTL DEF Spec

(* Whatever the number of services over one table, the notifier is given    *)
(* stored events only, and an alerting event before its Log returns it.     *)
THEOREM TableAlertsFollowLog == Spec => [](OnTable => AlertsFollowLog)
<1>1. AlertsOffered /\ (Keeps => AnsweredStored /\ OfferedStored) => (OnTable => AlertsFollowLog)
  BY DEF AlertsOffered, OfferedStored, Keeps, AlertsFollowLog, IsStored
<1> QED
  BY <1>1, IdentityInvariant, AlertsInvariant, PTL

(* One service does so over every repository.                               *)
THEOREM OneServiceAlertsFollowLog ==
  ASSUME NEW R, Replicas = {R}
  PROVE  Spec => []AlertsFollowLog
<1>1. AlertsOffered /\ (Keeps => AnsweredStored /\ OfferedStored) => AlertsFollowLog
  BY DEF AlertsOffered, OfferedStored, Keeps, AlertsFollowLog, IsStored
<1> QED
  BY <1>1, IdentityInvariant, AlertsInvariant, PTL

-----------------------------------------------------------------------------
(* The order of the returns                                                 *)

AckedStored == damage = 0 => \A k \in DOMAIN acked : IsStored(acked[k].content)

AckedOrdered ==
  damage = 0 =>
    \A i, j \in DOMAIN acked, m, n \in DOMAIN rows :
      i < j /\ rows[m].content = acked[i].content /\ rows[n].content = acked[j].content => m < n

AckOrder == AckedStored /\ AckedOrdered /\ AnsweredLast

LEMMA AckInsert ==
  ASSUME TypeOK, Locked, Identified, AckOrder, NEW R, Replicas = {R},
         NEW c \in Callers, Inserted(c), damage = 0
  PROVE  AckOrder'
<1>1. /\ UNCHANGED <<acked, damage>> /\ call[c].pc = "append"
      /\ \A d \in Callers : /\ call'[d].event = call[d].event
                            /\ d # c => call'[d].pc = call[d].pc
  BY DEF Inserted
<1>2. /\ DOMAIN rows' = 1 .. Len(rows) + 1 /\ DOMAIN rows = 1 .. Len(rows) /\ Len(rows) \in Nat
      /\ Len(rows') = Len(rows) + 1
      /\ \A i \in 1 .. Len(rows) : rows'[i] = rows[i]
      /\ rows'[Len(rows) + 1].content = call[c].event.content
  BY InsertedRows, RowFacts
<1>3. \A n \in DOMAIN rows : rows[n].content # call[c].event.content
  BY <1>1 DEF Identified
<1>4. \A k \in DOMAIN acked : acked[k].content # call[c].event.content
  BY <1>3 DEF AckOrder, AckedStored, IsStored
<1>5. AckedStored'
  BY <1>1, StoredStays DEF AckOrder, AckedStored
<1>6. AckedOrdered'
  <2> SUFFICES ASSUME NEW i \in DOMAIN acked, NEW j \in DOMAIN acked,
                      NEW m \in DOMAIN rows', NEW n \in DOMAIN rows', i < j,
                      rows'[m].content = acked[i].content, rows'[n].content = acked[j].content
               PROVE  m < n
    BY <1>1 DEF AckedOrdered
  <2>1. m \in DOMAIN rows /\ n \in DOMAIN rows /\ rows'[m] = rows[m] /\ rows'[n] = rows[n]
    BY <1>2, <1>4
  <2> QED
    BY <2>1 DEF AckOrder, AckedOrdered
<1>7. AnsweredLast'
  <2>1. ASSUME NEW d \in Callers, call'[d].pc \in {"ok", "alert"}
        PROVE  d = c
    <3>1. Holding(c)
      BY <1>1 DEF Holding
    <3>2. d # c => Holding(d)
      BY <1>1, <2>1 DEF Holding
    <3> QED
      BY <3>1, <3>2, OneHolder
  <2>2. rows' # <<>>
    BY <1>2
  <2>3. rows'[Len(rows')].content = call'[c].event.content
    BY <1>1, <1>2
  <2>4. \A k \in DOMAIN acked' : acked'[k].content # call'[c].event.content
    BY <1>1, <1>4
  <2> QED
    BY <2>1, <2>2, <2>3, <2>4 DEF AnsweredLast
<1> QED
  BY <1>5, <1>6, <1>7 DEF AckOrder

LEMMA AckReturn ==
  ASSUME TypeOK, Locked, Identified, AckOrder, NEW R, Replicas = {R},
         NEW c \in Callers, Returned(c), damage = 0
  PROVE  AckOrder'
<1>1. /\ UNCHANGED <<rows, damage>> /\ call[c].pc \in {"ok", "alert"}
      /\ \A d \in Callers : call'[d] = IF d = c THEN Idle ELSE call[d]
  BY DEF Returned
<1>2. /\ DOMAIN acked' = 1 .. Len(acked) + 1 /\ DOMAIN acked = 1 .. Len(acked) /\ Len(acked) \in Nat
      /\ \A k \in 1 .. Len(acked) : acked'[k] = acked[k]
      /\ acked'[Len(acked) + 1] = call[c].event
  BY ReturnedAcked, RowFacts
<1>3. /\ rows # <<>> /\ rows[Len(rows)].content = call[c].event.content
      /\ \A k \in DOMAIN acked : acked[k].content # call[c].event.content
  BY <1>1 DEF AckOrder, AnsweredLast
<1>4. Len(rows) \in DOMAIN rows /\ DOMAIN rows = 1 .. Len(rows) /\ Len(rows) \in Nat
  BY <1>3, RowFacts
<1>5. \A n \in DOMAIN rows : rows[n].content = call[c].event.content => n = Len(rows)
  BY <1>3, <1>4 DEF Identified
<1>6. \A k \in DOMAIN acked' : k \in DOMAIN acked \/ k = Len(acked) + 1
  BY <1>2
<1>7. AckedStored'
  <2> SUFFICES ASSUME NEW k \in DOMAIN acked'
               PROVE  \E n \in DOMAIN rows : rows[n].content = acked'[k].content
    BY <1>1 DEF AckedStored, IsStored
  <2>1. CASE k \in DOMAIN acked
    BY <1>2, <2>1 DEF AckOrder, AckedStored, IsStored
  <2>2. CASE k = Len(acked) + 1
    BY <1>2, <1>3, <1>4, <2>2
  <2> QED
    BY <1>6, <2>1, <2>2
<1>8. AckedOrdered'
  <2> SUFFICES ASSUME NEW i \in DOMAIN acked', NEW j \in DOMAIN acked',
                      NEW m \in DOMAIN rows, NEW n \in DOMAIN rows, i < j,
                      rows[m].content = acked'[i].content, rows[n].content = acked'[j].content
               PROVE  m < n
    BY <1>1 DEF AckedOrdered
  <2>1. i \in DOMAIN acked /\ acked'[i] = acked[i]
    BY <1>2
  <2>2. CASE j \in DOMAIN acked
    <3>1. acked'[j] = acked[j]
      BY <1>2, <2>2
    <3> QED
      BY <2>1, <2>2, <3>1 DEF AckOrder, AckedOrdered
  <2>3. CASE j = Len(acked) + 1
    <3>1. n = Len(rows) /\ m # Len(rows)
      BY <1>2, <1>3, <1>5, <2>1, <2>3
    <3> QED
      BY <1>4, <3>1
  <2> QED
    BY <1>6, <2>2, <2>3
<1>9. AnsweredLast'
  <2>1. \A d \in Callers : ~(call'[d].pc \in {"ok", "alert"})
    <3> SUFFICES ASSUME NEW d \in Callers, call'[d].pc \in {"ok", "alert"} PROVE FALSE
      OBVIOUS
    <3>1. d # c /\ Holding(d) /\ Holding(c)
      BY <1>1 DEF Idle, Holding
    <3> QED
      BY <3>1, OneHolder
  <2> QED
    BY <2>1 DEF AnsweredLast
<1> QED
  BY <1>7, <1>8, <1>9 DEF AckOrder

LEMMA AckStep ==
  ASSUME TypeOK, Locked, Identified, AckOrder, NEW R, Replicas = {R}, [Next]_vars
  PROVE  AckOrder'
<1>1. CASE damage' # 0
  BY <1>1 DEF AckOrder, AckedStored, AckedOrdered, AnsweredLast
<1>2. ASSUME UNCHANGED <<rows, acked, damage>>,
             \A d \in Callers :
               call'[d].pc \in {"ok", "alert"} =>
                 /\ call[d].pc \in {"ok", "alert"}
                 /\ call'[d].event.content = call[d].event.content
      PROVE  AckOrder'
  <2>1. AckedStored' /\ AckedOrdered'
    BY <1>2 DEF AckOrder, AckedStored, AckedOrdered, IsStored
  <2>2. AnsweredLast'
    BY <1>2 DEF AckOrder, AnsweredLast
  <2> QED
    BY <2>1, <2>2 DEF AckOrder
<1>3. ASSUME NEW c \in Callers, Requested(c)
      PROVE  AckOrder'
  BY <1>2, <1>3 DEF Requested
<1>4. CASE GoesOn
  <2>1. \A d \in Callers : call'[d].pc \in {"ok", "alert"} => call'[d].pc # "idle"
    OBVIOUS
  <2> QED
    BY <1>2, <1>4, <2>1 DEF GoesOn
<1>5. ASSUME NEW r \in Replicas, Lost(r)
      PROVE  AckOrder'
  <2>1. \A c \in Callers : call'[c].pc = "idle"
    BY <1>5 DEF Lost, Locked, Idle
  <2> QED
    BY <1>5, <2>1 DEF Lost, AckOrder, AckedStored, AckedOrdered, AnsweredLast
<1>6. ASSUME NEW c \in Callers, Inserted(c) \/ Returned(c), ~(damage' # 0)
      PROVE  AckOrder'
  <2>1. damage = 0
    BY <1>6 DEF Inserted, Returned
  <2> QED
    BY <1>6, <2>1, AckInsert, AckReturn
<1> QED
  BY <1>1, <1>3, <1>4, <1>5, <1>6, StepKinds DEF Damaged

(* Through refused inserts, lost replies and crashes, the log of one service *)
(* keeps every event its Log returned, in the order of the returns.         *)
THEOREM OneServiceAckedInOrder ==
  ASSUME NEW R, Replicas = {R}
  PROVE  Spec => []AckedInOrder
<1>1. Init => AckOrder
  BY DEF Init, Idle, AckOrder, AckedStored, AckedOrdered, AnsweredLast
<1>2. TypeOK /\ Locked /\ Identified /\ AckOrder /\ [Next]_vars => AckOrder'
  BY AckStep
<1>3. AckOrder => AckedInOrder
  BY DEF AckOrder, AckedStored, AckedOrdered, IsStored, AckedInOrder, Positions
<1> QED
  BY <1>1, <1>2, <1>3, IdentityInvariant, PTL DEF Spec
=============================================================================
