-------------------------- MODULE AttestationProofs --------------------------
(***************************************************************************)
(* Proofs about the attestation verifier.                                  *)
(***************************************************************************)
EXTENDS Attestation, TLAPS

-----------------------------------------------------------------------------
(* Calls                                                                    *)

LEMMA NoneFresh == None \notin Measurements /\ None \notin Devices /\ None \notin Kinds
BY AttestationAssumption

LEMMA IdleType == Idle \in Call /\ Idle.pc = "idle"
BY DEF Idle, Call

(* What an entry of call has to be.                                         *)
Typed(entry) ==
  /\ entry \in Call
  /\ entry.pc # "idle" => entry.device # None
  /\ entry.pc \in {"identity", "expected", "learn"} => entry.measured # None
  /\ entry.pc \in {"expected", "learn", "trust", "contain"} => entry.device \in Known

LEMMA IdleTyped == Typed(Idle)
BY IdleType DEF Typed

LEMMA AdmitTyped ==
  ASSUME NEW d \in Devices
  PROVE  Typed([Idle EXCEPT !.pc = "admit", !.device = d])
BY NoneFresh DEF Typed, Idle, Call

LEMMA SpendTyped ==
  ASSUME NEW d \in Devices, NEW kind \in Kinds, NEW measured \in Measurements
  PROVE  Typed([Idle EXCEPT !.pc = "identity", !.device = d, !.kind = kind,
                            !.measured = measured])
BY NoneFresh DEF Typed, Idle, Call

LEMMA VerdictTyped ==
  ASSUME NEW d \in Known, NEW verified \in BOOLEAN
  PROVE  /\ Typed(Verdict(d, verified))
         /\ Verdict(d, verified).pc = "trust"
<1>1. d \in Devices /\ d # None
  BY AttestationAssumption
<1> QED
  BY <1>1 DEF Typed, Verdict, Idle, Call

LEMMA EntryTyped ==
  ASSUME TypeOK, NEW c \in Callers
  PROVE  /\ Typed(call[c])
         /\ call[c].pc # "idle" => call[c].device \in Devices
         /\ call[c].pc \in {"identity", "expected", "learn"} => call[c].measured \in Measurements
         /\ call[c].verified \in BOOLEAN /\ call[c].alone \in BOOLEAN
<1>1. call[c] \in Call
  BY DEF TypeOK
<1>2. Typed(call[c])
  BY <1>1 DEF TypeOK, Typed
<1> QED
  BY <1>1, <1>2 DEF Typed, Call

(* A call goes to its next point.                                           *)
LEMMA GoesTyped ==
  ASSUME NEW entry, Typed(entry), entry.pc # "idle",
         NEW pc \in {"expected", "learn"}, entry.device \in Known, entry.measured # None
  PROVE  Typed([entry EXCEPT !.pc = pc])
BY DEF Typed, Call

LEMMA DisturbTyped ==
  ASSUME TypeOK, NEW d
  PROVE  \A c \in Callers :
           /\ Typed(Disturb(d)[c])
           /\ Disturb(d)[c].pc = call[c].pc /\ Disturb(d)[c].device = call[c].device
           /\ Disturb(d)[c].verified = call[c].verified
           /\ Disturb(d)[c].alone => call[c].alone
           /\ Disturb(d)[c].alone /\ call[c].pc = "contain" => call[c].device # d
<1> SUFFICES ASSUME NEW c \in Callers
             PROVE  /\ Typed(Disturb(d)[c])
                    /\ Disturb(d)[c].pc = call[c].pc /\ Disturb(d)[c].device = call[c].device
                    /\ Disturb(d)[c].verified = call[c].verified
                    /\ Disturb(d)[c].alone => call[c].alone
                    /\ Disturb(d)[c].alone /\ call[c].pc = "contain" => call[c].device # d
  OBVIOUS
<1>1. Typed(call[c]) /\ call[c] \in Call
  BY EntryTyped DEF Typed
<1>2. CASE c \in At("contain", d)
  <2>1. Disturb(d)[c] = [call[c] EXCEPT !.alone = FALSE]
    BY <1>2 DEF Disturb
  <2> QED
    BY <1>1, <2>1 DEF Typed, Call
<1>3. CASE c \notin At("contain", d)
  <2>1. Disturb(d)[c] = call[c]
    BY <1>3 DEF Disturb
  <2> QED
    BY <1>1, <1>3, <2>1 DEF At, Of
<1> QED
  BY <1>2, <1>3

-----------------------------------------------------------------------------
(* Typing                                                                   *)

(* TypeOK without the calls.                                                *)
StoresTyped ==
  /\ repository \in Repositories
  /\ baseline \in [Devices -> Measurements \union {None}]
  /\ standing \in [Devices -> Measurements \union {None}]
  /\ accepted \in [Devices -> SUBSET Measurements]
  /\ trust \in [Rows -> Trust]
  /\ confused \subseteq Devices

NoncesTyped ==
  /\ owner \in Seq(Devices) /\ Len(owner) <= MaxNonces /\ expired \in 0..Len(owner)
  /\ DOMAIN nonceStore \subseteq 1..Len(owner)
  /\ nonceStore \in [DOMAIN nonceStore -> [device : Devices, used : BOOLEAN]]
  /\ passed \in [1..MaxNonces -> Seq(Devices)]

RestTyped ==
  /\ quarantined \subseteq Devices /\ settled \in [Devices -> Trust]
  /\ quarantineOn \in BOOLEAN
  /\ events \in 0..MaxEvents

CallsTyped == call \in [Callers -> Call] /\ \A c \in Callers : Typed(call[c])

LEMMA TypeParts == TypeOK <=> StoresTyped /\ NoncesTyped /\ RestTyped /\ CallsTyped
BY DEF TypeOK, StoresTyped, NoncesTyped, RestTyped, CallsTyped, Typed

LEMMA TypePartsNext == TypeOK' <=> StoresTyped' /\ NoncesTyped' /\ RestTyped' /\ CallsTyped'
BY DEF TypeOK, StoresTyped, NoncesTyped, RestTyped, CallsTyped, Typed

LEMMA StoresKept == StoresTyped /\ UNCHANGED stores => StoresTyped'
BY DEF StoresTyped, stores

LEMMA NoncesKept == NoncesTyped /\ UNCHANGED nonceVars => NoncesTyped'
BY DEF NoncesTyped, nonceVars

LEMMA RestKept == RestTyped /\ UNCHANGED <<quarantineVars, events>> => RestTyped'
BY DEF RestTyped, quarantineVars

LEMMA HappensType ==
  ASSUME RestTyped, NEW event \in BOOLEAN, Happens(event)
  PROVE  events' \in 0..MaxEvents
BY AttestationBounds DEF RestTyped, Happens

LEMMA UnsettleType ==
  ASSUME RestTyped, NEW d, Unsettle(d)
  PROVE  settled' \in [Devices -> Trust]
BY DEF RestTyped, Unsettle, Trust

LEMMA SettleType ==
  ASSUME RestTyped, NEW c \in Callers, NEW d, Settle(c, d)
  PROVE  settled' \in [Devices -> Trust]
BY DEF RestTyped, Settle, VerdictOf, Trust

LEMMA CallSet ==
  ASSUME CallsTyped, NEW c \in Callers, NEW entry, Typed(entry),
         call' = [call EXCEPT ![c] = entry]
  PROVE  CallsTyped' /\ call'[c] = entry /\ \A o \in Callers \ {c} : call'[o] = call[o]
<1>1. entry \in Call
  BY DEF Typed
<1> QED
  BY <1>1 DEF CallsTyped, Typed

LEMMA CallIdle ==
  ASSUME CallsTyped, NEW c \in Callers, call' = [call EXCEPT ![c] = Idle]
  PROVE  CallsTyped' /\ call'[c] = Idle /\ \A o \in Callers \ {c} : call'[o] = call[o]
BY IdleTyped, CallSet

LEMMA CallsKept == CallsTyped /\ UNCHANGED call => CallsTyped'
BY DEF CallsTyped, Typed

LEMMA TypeInit == Init => TypeOK
<1> SUFFICES ASSUME Init PROVE StoresTyped /\ NoncesTyped /\ RestTyped /\ CallsTyped
  BY TypeParts
<1>1. StoresTyped
  BY DEF Init, StoresTyped, Trust
<1>2. NoncesTyped
  BY AttestationBounds DEF Init, NoncesTyped
<1>3. RestTyped
  BY AttestationAssumption, AttestationBounds DEF Init, RestTyped, Trust
<1>4. CallsTyped
  <2>1. call = [c \in Callers |-> Idle]
    BY DEF Init
  <2> QED
    BY <2>1, IdleType, IdleTyped DEF CallsTyped
<1> QED
  BY <1>1, <1>2, <1>3, <1>4

LEMMA TypeStep == TypeOK /\ [Next]_vars => TypeOK'
<1> SUFFICES ASSUME StoresTyped, NoncesTyped, RestTyped, CallsTyped, TypeOK, [Next]_vars
             PROVE  StoresTyped' /\ NoncesTyped' /\ RestTyped' /\ CallsTyped'
  BY TypeParts, TypePartsNext
<1>0. /\ repository \in Repositories
      /\ baseline \in [Devices -> Measurements \union {None}]
      /\ standing \in [Devices -> Measurements \union {None}]
      /\ accepted \in [Devices -> SUBSET Measurements]
      /\ trust \in [Rows -> Trust]
      /\ confused \subseteq Devices
  BY DEF StoresTyped
<1>1. /\ owner \in Seq(Devices) /\ Len(owner) <= MaxNonces /\ expired \in 0..Len(owner)
      /\ Len(owner) \in Nat /\ MaxNonces \in Nat
      /\ DOMAIN nonceStore \subseteq 1..Len(owner)
      /\ nonceStore \in [DOMAIN nonceStore -> [device : Devices, used : BOOLEAN]]
      /\ passed \in [1..MaxNonces -> Seq(Devices)]
  BY AttestationBounds DEF NoncesTyped
<1>2. /\ quarantined \subseteq Devices /\ settled \in [Devices -> Trust]
      /\ quarantineOn \in BOOLEAN
  BY DEF RestTyped
<1>3. ASSUME NEW c \in Callers, NEW d \in Devices, Request(c, d)
      PROVE  StoresTyped' /\ NoncesTyped' /\ RestTyped' /\ CallsTyped'
  BY <1>3, AdmitTyped, CallSet, StoresKept, NoncesKept, RestKept DEF Request
<1>4. ASSUME NEW c \in Callers, Issue(c)
      PROVE  StoresTyped' /\ NoncesTyped' /\ RestTyped' /\ CallsTyped'
  <2>1. call[c].device \in Devices
    BY <1>4, EntryTyped DEF Issue
  <2>2. /\ owner' = Append(owner, call[c].device)
        /\ owner' \in Seq(Devices) /\ Len(owner') = Len(owner) + 1
    BY <1>1, <1>4, <2>1 DEF Issue
  <2>3. Len(owner') <= MaxNonces
    BY <1>1, <1>4, <2>2 DEF Issue
  <2>4. /\ DOMAIN nonceStore' = DOMAIN nonceStore \union {Len(owner')}
        /\ \A n \in DOMAIN nonceStore' :
             nonceStore'[n] = IF n \in DOMAIN nonceStore THEN nonceStore[n]
                              ELSE [device |-> call[c].device, used |-> FALSE]
    BY <1>4 DEF Issue
  <2>5. nonceStore' \in [DOMAIN nonceStore' -> [device : Devices, used : BOOLEAN]]
    <3>1. nonceStore' = [n \in DOMAIN nonceStore' |-> nonceStore'[n]]
      BY <1>4 DEF Issue
    <3> QED
      <4>1. [device |-> call[c].device, used |-> FALSE] \in [device : Devices, used : BOOLEAN]
        BY <2>1
      <4>2. \A n \in DOMAIN nonceStore : nonceStore[n] \in [device : Devices, used : BOOLEAN]
        BY <1>1
      <4>3. \A n \in DOMAIN nonceStore' : nonceStore'[n] \in [device : Devices, used : BOOLEAN]
        BY <2>4, <4>1, <4>2
      <4> QED
        BY ONLY <3>1, <4>3
  <2>6. DOMAIN nonceStore' \subseteq 1..Len(owner')
    BY <1>1, <2>2, <2>4
  <2>7. NoncesTyped'
    BY <1>1, <1>4, <2>2, <2>3, <2>5, <2>6 DEF Issue, NoncesTyped
  <2> QED
    BY <1>4, <2>7, CallIdle, StoresKept, RestKept DEF Issue
<1>5. ASSUME NEW c \in Callers, NoNonce(c)
      PROVE  StoresTyped' /\ NoncesTyped' /\ RestTyped' /\ CallsTyped'
  BY <1>5, CallIdle, StoresKept, NoncesKept, RestKept DEF NoNonce
<1>6. ASSUME NEW c \in Callers, NEW n \in DOMAIN nonceStore, NEW d \in Devices,
             NEW kind \in Kinds, NEW measured \in Measurements,
             Spend(c, n, d, kind, measured)
      PROVE  StoresTyped' /\ NoncesTyped' /\ RestTyped' /\ CallsTyped'
  <2>1. nonceStore' = [nonceStore EXCEPT ![n].used = TRUE]
    BY <1>6 DEF Spend
  <2>2. /\ DOMAIN nonceStore' = DOMAIN nonceStore
        /\ nonceStore' \in [DOMAIN nonceStore -> [device : Devices, used : BOOLEAN]]
    BY <1>1, <2>1
  <2>3. passed' \in [1..MaxNonces -> Seq(Devices)]
    <3>1. n \in 1..MaxNonces
      BY <1>1
    <3> QED
      BY <1>1, <1>6, <3>1 DEF Spend
  <2>4. NoncesTyped'
    BY <1>1, <1>6, <2>2, <2>3 DEF Spend, NoncesTyped
  <2>5. CallsTyped'
    BY <1>6, SpendTyped, CallSet DEF Spend
  <2> QED
    BY <1>6, <2>4, <2>5, StoresKept, RestKept DEF Spend
<1>7. ASSUME NEW nonces, nonceStore' = Keep(nonces), UNCHANGED <<owner, expired, passed>>
      PROVE  NoncesTyped'
  <2>1. /\ DOMAIN nonceStore' = DOMAIN nonceStore \intersect nonces
        /\ \A n \in DOMAIN nonceStore' : nonceStore'[n] = nonceStore[n]
        /\ nonceStore' = [n \in DOMAIN nonceStore' |-> nonceStore'[n]]
    BY <1>7 DEF Keep
  <2>2. nonceStore' \in [DOMAIN nonceStore' -> [device : Devices, used : BOOLEAN]]
    BY <1>1, <2>1
  <2> QED
    BY <1>1, <1>7, <2>1, <2>2 DEF NoncesTyped
<1>8. ASSUME NEW n \in DOMAIN nonceStore, Reject(n)
      PROVE  StoresTyped' /\ NoncesTyped' /\ RestTyped' /\ CallsTyped'
  BY <1>7, <1>8, CallsKept, StoresKept, RestKept DEF Reject
<1>9. ASSUME NEW c \in Callers, NEW failed \in BOOLEAN, Identify(c, failed)
      PROVE  StoresTyped' /\ NoncesTyped' /\ RestTyped' /\ CallsTyped'
  <2>1. Typed(call[c]) /\ call[c].pc = "identity" /\ call[c].measured # None
    BY <1>9, EntryTyped, NoneFresh DEF Identify
  <2>2. CallsTyped'
    <3>1. CASE failed \/ call[c].device \notin Known
      BY <1>9, <3>1, CallIdle DEF Identify
    <3>2. CASE ~(failed \/ call[c].device \notin Known)
      <4>1. Typed([call[c] EXCEPT !.pc = "expected"])
        BY <2>1, <3>2, GoesTyped
      <4>2. call' = [call EXCEPT ![c] = [call[c] EXCEPT !.pc = "expected"]]
        BY <1>9, <3>2 DEF Identify
      <4> QED
        BY <4>1, <4>2, CallSet
    <3> QED
      BY <3>1, <3>2
  <2>3. RestTyped'
    BY <1>2, <1>9, HappensType DEF Identify, RestTyped, quarantineVars
  <2> QED
    BY <1>9, <2>2, <2>3, StoresKept, NoncesKept DEF Identify
<1>10. ASSUME NEW c \in Callers, NEW failed \in BOOLEAN, ReadExpected(c, failed)
       PROVE  StoresTyped' /\ NoncesTyped' /\ RestTyped' /\ CallsTyped'
  <2> DEFINE d == call[c].device
             expected == GetExpectedMeasurements(d, failed)
             missing == expected = None
             verified == ~missing /\ Verified(expected, call[c].kind, call[c].measured)
  <2>1. /\ Typed(call[c]) /\ call[c].pc = "expected" /\ call[c].measured \in Measurements
        /\ call[c].measured # None /\ d \in Known /\ d \in Devices
    BY <1>10, EntryTyped, NoneFresh DEF ReadExpected, Typed
  <2>2. verified \in BOOLEAN
    OBVIOUS
  <2>3. /\ call' = [call EXCEPT ![c] = IF missing THEN [call[c] EXCEPT !.pc = "learn"]
                                       ELSE Verdict(d, verified)]
        /\ Accept(d, call[c].measured, verified)
        /\ confused' \subseteq confused \union {d}
        /\ Happens(failed)
        /\ UNCHANGED <<repository, baseline, trust, standing, nonceVars, quarantineVars>>
    BY <1>10 DEF ReadExpected
  <2> HIDE DEF verified, missing, d
  <2>4. Typed(IF missing THEN [call[c] EXCEPT !.pc = "learn"] ELSE Verdict(d, verified))
    <3>1. Typed([call[c] EXCEPT !.pc = "learn"])
      BY <2>1, GoesTyped DEF d
    <3> QED
      BY <2>1, <2>2, <3>1, VerdictTyped
  <2>5. CallsTyped'
    BY <2>3, <2>4, CallSet
  <2>6. accepted' \in [Devices -> SUBSET Measurements]
    BY <1>0, <2>1, <2>3 DEF Accept
  <2>7. StoresTyped'
    BY <1>0, <2>1, <2>3, <2>6 DEF StoresTyped
  <2>8. RestTyped'
    BY <1>2, <2>3, HappensType DEF RestTyped, quarantineVars
  <2> QED
    BY <2>3, <2>5, <2>7, <2>8, NoncesKept
<1>11. ASSUME NEW c \in Callers, NEW failed \in BOOLEAN, Learn(c, failed)
       PROVE  StoresTyped' /\ NoncesTyped' /\ RestTyped' /\ CallsTyped'
  <2> DEFINE d == call[c].device
             measured == call[c].measured
             verified == Verified(measured, call[c].kind, measured)
  <2>1. /\ measured \in Measurements /\ d \in Known /\ d \in Devices
    BY <1>11, EntryTyped, AttestationAssumption DEF Learn, Typed
  <2>2. verified \in BOOLEAN
    BY DEF Verified, SignatureValid, Agrees
  <2>3. /\ call' = [call EXCEPT ![c] = Verdict(d, verified)]
        /\ Accept(d, measured, verified)
        /\ baseline' = IF failed THEN baseline ELSE [baseline EXCEPT ![d] = measured]
        /\ standing' = IF standing[d] = None THEN [standing EXCEPT ![d] = measured] ELSE standing
        /\ confused' = IF failed THEN confused \union {d} ELSE confused
        /\ Happens(failed)
        /\ UNCHANGED <<repository, trust, nonceVars, quarantineVars>>
    BY <1>11 DEF Learn, SaveExpectedMeasurements
  <2> HIDE DEF verified, measured, d
  <2>4. CallsTyped'
    BY <2>1, <2>2, <2>3, VerdictTyped, CallSet
  <2>5. accepted' \in [Devices -> SUBSET Measurements]
    BY <1>0, <2>1, <2>3 DEF Accept
  <2>6. StoresTyped'
    BY <1>0, <2>1, <2>3, <2>5 DEF StoresTyped
  <2>7. RestTyped'
    BY <1>2, <2>3, HappensType DEF RestTyped, quarantineVars
  <2> QED
    BY <2>3, <2>4, <2>6, <2>7, NoncesKept
<1>12. ASSUME NEW c \in Callers, NEW failed \in BOOLEAN, WriteTrust(c, failed)
       PROVE  StoresTyped' /\ NoncesTyped' /\ RestTyped' /\ CallsTyped'
  <2> DEFINE d == call[c].device
             alone == ~failed /\ At("contain", d) = {}
  <2>1. Disturb(d)[c].pc = "trust" /\ Typed(Disturb(d)[c]) /\ Disturb(d)[c].device \in Known
    BY <1>12, DisturbTyped DEF WriteTrust, Typed
  <2>2. Typed([Disturb(d)[c] EXCEPT !.pc = "contain", !.alone = alone])
    BY <2>1 DEF Typed, Call
  <2>3. call' = [Disturb(d) EXCEPT ![c] =
                   [Disturb(d)[c] EXCEPT !.pc = "contain", !.alone = alone]]
    BY <1>12 DEF WriteTrust
  <2>4. Disturb(d) = [o \in Callers |-> Disturb(d)[o]] /\ \A o \in Callers : Typed(Disturb(d)[o])
    BY DisturbTyped DEF Disturb
  <2>5. CallsTyped'
    BY <2>2, <2>3, <2>4 DEF CallsTyped, Typed
  <2>6. trust' \in [Rows -> Trust]
    BY <1>0, <1>12 DEF WriteTrust, VerdictOf, Trust
  <2>7. StoresTyped'
    BY <1>0, <1>12, <2>6 DEF WriteTrust, StoresTyped
  <2>8. RestTyped'
    BY <1>2, <1>12, HappensType, UnsettleType DEF WriteTrust, RestTyped
  <2> QED
    BY <1>12, <2>5, <2>7, <2>8, NoncesKept DEF WriteTrust
<1>13. ASSUME NEW c \in Callers, Contain(c)
       PROVE  StoresTyped' /\ NoncesTyped' /\ RestTyped' /\ CallsTyped'
  <2>1. call[c].device \in Devices
    BY <1>13, EntryTyped DEF Contain
  <2>2. RestTyped'
    BY <1>13, <2>1, SettleType DEF Contain, RestTyped
  <2> QED
    BY <1>13, <2>2, CallIdle, StoresKept, NoncesKept DEF Contain
<1>14. ASSUME NEW d \in Devices, NEW in \in BOOLEAN, Override(d, in)
       PROVE  StoresTyped' /\ NoncesTyped' /\ RestTyped' /\ CallsTyped'
  <2>1. CallsTyped'
    <3>1. call' = [o \in Callers |-> Disturb(d)[o]] /\ \A o \in Callers : Typed(Disturb(d)[o])
      BY <1>14, DisturbTyped DEF Override, Disturb
    <3> QED
      BY <3>1 DEF CallsTyped, Typed
  <2>2. RestTyped'
    BY <1>2, <1>14, HappensType, UnsettleType DEF Override, RestTyped
  <2> QED
    BY <1>14, <2>1, <2>2, StoresKept, NoncesKept DEF Override
<1>15. ASSUME NEW d \in Devices, NEW expected \in Measurements,
              UpdateExpectedMeasurements(d, expected)
       PROVE  StoresTyped' /\ NoncesTyped' /\ RestTyped' /\ CallsTyped'
  <2>1. /\ baseline' = [baseline EXCEPT ![d] = expected]
        /\ standing' = [standing EXCEPT ![d] = expected]
        /\ accepted' = [accepted EXCEPT ![d] = {}]
        /\ confused' \subseteq confused \union {d}
        /\ UNCHANGED <<repository, trust>>
    BY <1>15 DEF UpdateExpectedMeasurements, SaveExpectedMeasurements
  <2>2. StoresTyped'
    BY <1>0, <2>1 DEF StoresTyped
  <2>3. RestTyped'
    BY <1>2, <1>15, HappensType DEF UpdateExpectedMeasurements, RestTyped, quarantineVars
  <2> QED
    BY <1>15, <2>2, <2>3, CallsKept, NoncesKept DEF UpdateExpectedMeasurements
<1>16. ASSUME NEW on \in BOOLEAN, UpdatePolicy(on)
       PROVE  StoresTyped' /\ NoncesTyped' /\ RestTyped' /\ CallsTyped'
  <2>1. RestTyped'
    BY <1>2, <1>16, HappensType DEF UpdatePolicy, RestTyped
  <2> QED
    BY <1>16, <2>1, CallsKept, StoresKept, NoncesKept DEF UpdatePolicy
<1>17. CASE Expire
  <2>1. NoncesTyped'
    BY <1>1, <1>17 DEF Expire, NoncesTyped
  <2> QED
    BY <1>17, <2>1, CallsKept, StoresKept, RestKept DEF Expire
<1>18. CASE Cleanup
  BY <1>7, <1>18, CallsKept, StoresKept, RestKept DEF Cleanup
<1>19. CASE Restart
  <2>1. /\ nonceStore' = <<>> /\ quarantined' = {}
        /\ settled' = [d \in Devices |-> "unknown"]
        /\ quarantineOn' = QuarantineOnFailure
        /\ call' = [c \in Callers |-> Idle]
        /\ UNCHANGED <<repository, trust, owner, expired, passed>>
        /\ Happens(TRUE)
    BY <1>19 DEF Restart
  <2>2. StoresTyped'
    BY <1>0, <1>19 DEF Restart, StoresTyped
  <2>3. NoncesTyped'
    BY <1>1, <2>1 DEF NoncesTyped
  <2>4. RestTyped'
    BY <2>1, HappensType, AttestationAssumption DEF RestTyped, Trust
  <2>5. CallsTyped'
    BY <2>1, IdleType, IdleTyped DEF CallsTyped, Typed
  <2> QED
    BY <2>2, <2>3, <2>4, <2>5
<1>20. CASE UNCHANGED vars
  <2>1. UNCHANGED <<stores, nonceVars, quarantineVars, call, events>>
    BY <1>20 DEF vars
  <2> QED
    BY <2>1, CallsKept, StoresKept, NoncesKept, RestKept
<1> QED
  BY <1>3, <1>4, <1>5, <1>6, <1>8, <1>9, <1>10, <1>11, <1>12, <1>13, <1>14, <1>15, <1>16,
     <1>17, <1>18, <1>19, <1>20 DEF Next, Ask, Step

(* The verifier's state has its types.                                      *)
THEOREM VerifierTyped == Spec => []TypeOK
<1>1. Init => TypeOK
  BY TypeInit
<1>2. TypeOK /\ [Next]_vars => TypeOK'
  BY TypeStep
<1> QED
  BY <1>1, <1>2, PTL DEF Spec

-----------------------------------------------------------------------------
(* Nonces                                                                   *)

(* Only these actions have to do with nonces.                               *)
LEMMA NonceActions ==
  ASSUME [Next]_vars
  PROVE  \/ \E c \in Callers : Issue(c)
         \/ \E c \in Callers, n \in DOMAIN nonceStore, d \in Devices, kind \in Kinds,
               measured \in Measurements : Spend(c, n, d, kind, measured)
         \/ \E nonces : nonceStore' = Keep(nonces) /\ UNCHANGED <<owner, expired, passed>>
         \/ Expire
         \/ Restart
         \/ UNCHANGED nonceVars
<1>1. ASSUME NEW c \in Callers, NEW failed \in BOOLEAN,
             \/ Identify(c, failed)
             \/ ReadExpected(c, failed)
             \/ Learn(c, failed)
             \/ WriteTrust(c, failed)
             \/ Contain(c)
             \/ NoNonce(c)
      PROVE  UNCHANGED nonceVars
  BY <1>1 DEF Identify, ReadExpected, Learn, WriteTrust, Contain, NoNonce
<1>2. ASSUME NEW c \in Callers, NEW d \in Devices, Request(c, d) PROVE UNCHANGED nonceVars
  BY <1>2 DEF Request
<1>3. ASSUME NEW d \in Devices, NEW in \in BOOLEAN, Override(d, in) PROVE UNCHANGED nonceVars
  BY <1>3 DEF Override
<1>4. ASSUME NEW d \in Devices, NEW expected \in Measurements,
             UpdateExpectedMeasurements(d, expected)
      PROVE  UNCHANGED nonceVars
  BY <1>4 DEF UpdateExpectedMeasurements
<1>5. ASSUME NEW on \in BOOLEAN, UpdatePolicy(on) PROVE UNCHANGED nonceVars
  BY <1>5 DEF UpdatePolicy
<1>6. ASSUME NEW n \in DOMAIN nonceStore, Reject(n)
      PROVE  \E nonces : nonceStore' = Keep(nonces) /\ UNCHANGED <<owner, expired, passed>>
  BY <1>6 DEF Reject
<1>7. ASSUME Cleanup
      PROVE  \E nonces : nonceStore' = Keep(nonces) /\ UNCHANGED <<owner, expired, passed>>
  BY <1>7 DEF Cleanup
<1>8. UNCHANGED vars => UNCHANGED nonceVars
  BY DEF vars
<1> QED
  BY <1>1, <1>2, <1>3, <1>4, <1>5, <1>6, <1>7, <1>8 DEF Next, Ask, Step

LEMMA NonceInit == Init => NoncesTold /\ N!Init
<1> SUFFICES ASSUME Init PROVE NoncesTold /\ N!Init
  OBVIOUS
<1>1. nonceStore = <<>> /\ owner = <<>> /\ passed = [n \in 1..MaxNonces |-> <<>>]
  BY DEF Init
<1>2. DOMAIN nonceStore = {}
  BY <1>1
<1> QED
  BY <1>1, <1>2 DEF NoncesTold, N!Init, Live

LEMMA NonceStep ==
  ASSUME TypeOK, NoncesTold, [Next]_vars
  PROVE  NoncesTold' /\ [N!Next]_<<Live, owner, passed>>
<1>0. /\ owner \in Seq(Devices) /\ Len(owner) \in Nat /\ Len(owner) <= MaxNonces
      /\ MaxNonces \in Nat /\ expired \in Nat /\ expired <= Len(owner)
      /\ DOMAIN nonceStore \subseteq 1..Len(owner)
      /\ nonceStore \in [DOMAIN nonceStore -> [device : Devices, used : BOOLEAN]]
      /\ passed \in [1..MaxNonces -> Seq(Devices)]
  BY AttestationBounds DEF TypeOK
<1>1. ASSUME NEW n \in DOMAIN nonceStore
      PROVE  nonceStore[n] \in [device : Devices, used : BOOLEAN] /\ n \in 1..Len(owner)
             /\ n \in 1..MaxNonces
  BY <1>0, <1>1
<1>2. ASSUME NEW c \in Callers, Issue(c)
      PROVE  NoncesTold' /\ [N!Next]_<<Live, owner, passed>>
  <2> DEFINE d == call[c].device
             new == Len(owner) + 1
  <2>1. d \in Devices /\ new \in 1..MaxNonces /\ new \notin DOMAIN nonceStore
    <3>1. call[c].device \in Devices
      BY <1>2, EntryTyped DEF Issue
    <3> QED
      BY <1>0, <1>2, <3>1 DEF Issue
  <2>2. /\ owner' = Append(owner, d) /\ Len(owner') = new
        /\ owner'[new] = d
        /\ \A n \in 1..Len(owner) : owner'[n] = owner[n]
    BY <1>0, <1>2, <2>1 DEF Issue
  <2>3. /\ DOMAIN nonceStore' = DOMAIN nonceStore \union {new}
        /\ \A n \in DOMAIN nonceStore : nonceStore'[n] = nonceStore[n]
        /\ nonceStore'[new] = [device |-> d, used |-> FALSE]
        /\ passed' = passed /\ expired' = expired
    BY <1>2, <2>1, <2>2 DEF Issue
  <2> HIDE DEF d, new
  <2>4. new > Len(owner) /\ new > expired /\ passed[new] = <<>>
    BY <1>0, <2>1 DEF new, NoncesTold
  <2>5. NoncesTold'
    <3>1. ASSUME NEW n \in DOMAIN nonceStore'
          PROVE  nonceStore'[n].device = owner'[n] /\ (~nonceStore'[n].used => passed'[n] = <<>>)
      <4>1. CASE n \in DOMAIN nonceStore
        BY <1>1, <2>2, <2>3, <4>1 DEF NoncesTold
      <4>2. CASE n = new
        BY <2>2, <2>3, <2>4, <4>2
      <4> QED
        BY <2>3, <3>1, <4>1, <4>2
    <3>2. ASSUME NEW n \in 1..MaxNonces, n > Len(owner') PROVE passed'[n] = <<>>
      BY <1>0, <2>2, <2>3, <2>4, <3>2 DEF NoncesTold
    <3> QED
      BY <3>1, <3>2 DEF NoncesTold
  <2>6. Live' = Live \union {new}
    BY <2>3, <2>4 DEF Live
  <2>7. N!Issue(d)
    BY <2>2, <2>3, <2>6 DEF N!Issue
  <2> QED
    BY <2>1, <2>5, <2>7 DEF N!Next
<1>3. ASSUME NEW c \in Callers, NEW n \in DOMAIN nonceStore, NEW d \in Devices,
             NEW kind \in Kinds, NEW measured \in Measurements,
             Spend(c, n, d, kind, measured)
      PROVE  NoncesTold' /\ [N!Next]_<<Live, owner, passed>>
  <2>1. n \in Live /\ passed[n] = <<>> /\ owner[n] = d
    BY <1>3 DEF Spend, Live, NoncesTold
  <2>2. /\ DOMAIN nonceStore' = DOMAIN nonceStore
        /\ \A o \in DOMAIN nonceStore \ {n} : nonceStore'[o] = nonceStore[o]
        /\ nonceStore'[n].used /\ nonceStore'[n].device = nonceStore[n].device
    BY <1>1, <1>3 DEF Spend
  <2>3. /\ passed' = [passed EXCEPT ![n] = <<owner[n]>>]
        /\ UNCHANGED <<owner, expired>>
    BY <1>3, <2>1 DEF Spend
  <2>4. /\ \A o \in 1..MaxNonces \ {n} : passed'[o] = passed[o]
    BY <1>0, <2>3
  <2>5. NoncesTold'
    <3>1. ASSUME NEW o \in DOMAIN nonceStore'
          PROVE  nonceStore'[o].device = owner'[o] /\ (~nonceStore'[o].used => passed'[o] = <<>>)
      BY <1>1, <2>2, <2>3, <2>4 DEF NoncesTold
    <3>2. ASSUME NEW o \in 1..MaxNonces, o > Len(owner') PROVE passed'[o] = <<>>
      BY <1>0, <1>1, <2>3, <2>4, <3>2 DEF NoncesTold
    <3> QED
      BY <3>1, <3>2 DEF NoncesTold
  <2>6. Live' = Live \ {n}
    BY <2>2, <2>3 DEF Live
  <2>7. N!Pass(n)
    BY <2>1, <2>3, <2>6 DEF N!Pass
  <2> QED
    BY <2>1, <2>5, <2>7 DEF N!Next
<1>4. ASSUME NEW nonces, nonceStore' = Keep(nonces), UNCHANGED <<owner, expired, passed>>
      PROVE  NoncesTold' /\ [N!Next]_<<Live, owner, passed>>
  <2>1. /\ DOMAIN nonceStore' \subseteq DOMAIN nonceStore
        /\ \A n \in DOMAIN nonceStore' : nonceStore'[n] = nonceStore[n]
    BY <1>4 DEF Keep
  <2>2. NoncesTold'
    BY <1>4, <2>1 DEF NoncesTold
  <2>3. Live' \subseteq Live
    BY <1>4, <2>1 DEF Live
  <2> QED
    BY <1>4, <2>2, <2>3 DEF N!Next, N!GiveUp
<1>5. CASE Expire
  <2>1. UNCHANGED <<nonceStore, owner, passed>> /\ expired' = expired + 1
    BY <1>5 DEF Expire
  <2>2. NoncesTold'
    BY <2>1 DEF NoncesTold
  <2>3. Live' \subseteq Live
    BY <1>0, <1>1, <2>1 DEF Live
  <2> QED
    BY <2>1, <2>2, <2>3 DEF N!Next, N!GiveUp
<1>6. CASE Restart
  <2>1. nonceStore' = <<>> /\ UNCHANGED <<owner, expired, passed>>
    BY <1>6 DEF Restart
  <2>2. DOMAIN nonceStore' = {}
    BY <2>1
  <2>3. NoncesTold'
    BY <2>1, <2>2 DEF NoncesTold
  <2>4. Live' \subseteq Live
    BY <2>2 DEF Live
  <2> QED
    BY <2>1, <2>3, <2>4 DEF N!Next, N!GiveUp
<1>7. CASE UNCHANGED nonceVars
  <2>1. UNCHANGED <<nonceStore, owner, expired, passed>>
    BY <1>7 DEF nonceVars
  <2>2. NoncesTold'
    BY <2>1 DEF NoncesTold
  <2>3. UNCHANGED <<Live, owner, passed>>
    BY <2>1 DEF Live
  <2> QED
    BY <2>2, <2>3
<1> QED
  BY <1>2, <1>3, <1>4, <1>5, <1>6, <1>7, NonceActions

(* A nonce lets one report pass, one of its device, and never again once it *)
(* is used, expired, removed or lost: the verifier implements Nonces.       *)
THEOREM VerifierImplementsNonces == Spec => NonceSpec
<1>1. Init => TypeOK /\ NoncesTold /\ N!Init
  BY TypeInit, NonceInit
<1>2. TypeOK /\ NoncesTold /\ [Next]_vars
        => TypeOK' /\ NoncesTold' /\ [N!Next]_<<Live, owner, passed>>
  BY TypeStep, NonceStep
<1> QED
  BY <1>1, <1>2, PTL DEF Spec, NonceSpec, N!Spec

-----------------------------------------------------------------------------
(* Trust and quarantine                                                     *)

TrustInv == ContainsAlone /\ VerdictsStand

(* What becomes of the verdict put down.                                    *)
LEMMA UnsettleTells ==
  ASSUME TypeOK, NEW d, Unsettle(d)
  PROVE  \A e \in Devices : settled'[e] = IF e = d THEN "unknown" ELSE settled[e]
BY DEF TypeOK, Unsettle

LEMMA SettleTells ==
  ASSUME TypeOK, NEW c \in Callers, NEW d, Settle(c, d)
  PROVE  /\ \A e \in Devices : e # d => settled'[e] = settled[e]
         /\ d \in Devices /\ settled'[d] # settled[d] =>
              /\ call[c].alone /\ (call[c].verified \/ quarantineOn)
              /\ settled'[d] = VerdictOf(call[c].verified)
BY DEF TypeOK, Settle

(* A step that puts down no verdict: no call comes to the second half, and  *)
(* those that are there stay as they are or are no longer alone.            *)
LEMMA TrustKept ==
  ASSUME TrustInv,
         UNCHANGED <<trust, quarantined, settled>>,
         \A c \in Callers : call'[c].pc = "contain" =>
           /\ call[c].pc = "contain" /\ call'[c].device = call[c].device
           /\ call'[c].verified = call[c].verified
           /\ call'[c].alone => call[c].alone
  PROVE  TrustInv'
<1>1. ContainsAlone'
  BY DEF TrustInv, ContainsAlone
<1>2. VerdictsStand'
  BY DEF TrustInv, VerdictsStand
<1> QED
  BY <1>1, <1>2 DEF TrustInv

(* The same of a step of c to another point than that.                      *)
LEMMA TrustKeptByCall ==
  ASSUME TypeOK, TrustInv, NEW c \in Callers, NEW entry, entry.pc # "contain",
         call' = [call EXCEPT ![c] = entry],
         UNCHANGED <<trust, quarantined, settled>>
  PROVE  TrustInv'
<1>1. call \in [Callers -> Call]
  BY DEF TypeOK
<1>2. call'[c] = entry /\ \A o \in Callers \ {c} : call'[o] = call[o]
  BY <1>1
<1> QED
  BY <1>2, TrustKept

LEMMA TrustInit == Init => TrustInv
BY IdleType DEF Init, TrustInv, ContainsAlone, VerdictsStand

LEMMA TrustStep ==
  ASSUME TypeOK, TrustInv, [Next]_vars
  PROVE  TrustInv'
<1>0. /\ call \in [Callers -> Call] /\ trust \in [Rows -> Trust]
      /\ Idle.pc = "idle"
      /\ \A d, v : Verdict(d, v).pc = "trust"
      /\ \A o \in Callers : call[o].pc \in {"trust", "contain"} =>
           call[o].device \in Known /\ call[o].device \in Devices
  BY IdleType, AttestationAssumption DEF TypeOK, Verdict, Idle
<1>1. ASSUME NEW c \in Callers, NEW failed \in BOOLEAN, WriteTrust(c, failed) PROVE TrustInv'
  <2> DEFINE d == call[c].device
             alone == ~failed /\ At("contain", d) = {}
  <2>1. /\ call'[c].pc = "contain" /\ call'[c].device = d
        /\ call'[c].verified = call[c].verified
        /\ call'[c].alone = alone
    <3>1. /\ Disturb(d)[c].device = d /\ Disturb(d)[c].verified = call[c].verified
          /\ Disturb(d)[c] \in Call
      BY DisturbTyped DEF Typed
    <3>2. call' = [Disturb(d) EXCEPT ![c] =
                     [Disturb(d)[c] EXCEPT !.pc = "contain", !.alone = alone]]
      BY <1>1 DEF WriteTrust
    <3>3. c \in DOMAIN Disturb(d)
      BY DEF Disturb
    <3>4. call'[c] = [Disturb(d)[c] EXCEPT !.pc = "contain", !.alone = alone]
      BY <3>2, <3>3
    <3> QED
      BY <3>1, <3>4 DEF Call
  <2>2. ASSUME NEW o \in Callers \ {c}, call'[o].pc = "contain"
        PROVE  /\ call[o].pc = "contain" /\ call'[o].device = call[o].device
               /\ call'[o].verified = call[o].verified
               /\ call'[o].alone => call[o].alone /\ call[o].device # d
    <3>1. call'[o] = Disturb(d)[o]
      BY <1>1 DEF WriteTrust, Disturb
    <3> QED
      BY <2>2, <3>1, DisturbTyped
  <2>3. /\ UNCHANGED quarantined
        /\ \A e \in Devices : settled'[e] = IF e = d THEN "unknown" ELSE settled[e]
        /\ \A r \in Rows : r # d => trust'[r] = trust[r]
        /\ ~failed /\ d \in Rows => trust'[d] = VerdictOf(call[c].verified)
    BY <1>1, UnsettleTells DEF WriteTrust
  <2>4. alone => \A o \in Callers \ {c} : call[o].pc = "contain" => call[o].device # d
    BY DEF At, Of
  <2>5. d \in Known /\ d \in Devices
    BY <1>0, <1>1 DEF WriteTrust
  <2> HIDE DEF d, alone
  <2>6. ContainsAlone'
    <3>1. ASSUME NEW o \in Callers, call'[o].pc = "contain"
          PROVE  settled'[call'[o].device] = "unknown"
      BY <1>0, <2>1, <2>2, <2>3, <2>5, <3>1 DEF TrustInv, ContainsAlone
    <3>2. ASSUME NEW o \in Callers, call'[o].pc = "contain", call'[o].alone,
                 NEW e \in Callers \ {o}, call'[e].pc = "contain"
          PROVE  call'[e].device # call'[o].device
      <4>1. CASE o = c
        BY <2>1, <2>2, <2>4, <3>2, <4>1
      <4>2. CASE e = c
        BY <2>1, <2>2, <3>2, <4>2
      <4>3. CASE o # c /\ e # c
        BY <2>2, <3>2, <4>3 DEF TrustInv, ContainsAlone
      <4> QED
        BY <4>1, <4>2, <4>3
    <3>3. ASSUME NEW o \in Callers, call'[o].pc = "contain", call'[o].alone,
                 call'[o].device \in Rows
          PROVE  trust'[call'[o].device] = VerdictOf(call'[o].verified)
      <4>1. CASE o = c
        BY <2>1, <2>3, <3>3, <4>1 DEF alone
      <4>2. CASE o # c
        BY <2>2, <2>3, <3>3, <4>2 DEF TrustInv, ContainsAlone
      <4> QED
        BY <4>1, <4>2
    <3> QED
      BY <3>1, <3>2, <3>3 DEF ContainsAlone
  <2>7. VerdictsStand'
    BY <2>3, <2>5 DEF TrustInv, VerdictsStand
  <2> QED
    BY <2>6, <2>7 DEF TrustInv
<1>2. ASSUME NEW c \in Callers, Contain(c) PROVE TrustInv'
  <2> DEFINE d == call[c].device
  <2>1. d \in Devices
    BY <1>0, <1>2 DEF Contain
  <2>2. call'[c].pc = "idle" /\ \A o \in Callers \ {c} : call'[o] = call[o]
    BY <1>0, <1>2 DEF Contain
  <2>3. /\ UNCHANGED trust
        /\ \A e : e # d => (e \in quarantined' <=> e \in quarantined)
        /\ \A e \in Devices : e # d => settled'[e] = settled[e]
        /\ settled'[d] # settled[d] =>
             /\ call[c].alone /\ settled'[d] = VerdictOf(call[c].verified)
             /\ d \in quarantined' <=> ~call[c].verified
    BY <1>2, <2>1, SettleTells DEF Contain, stores
  <2>4. call[c].pc = "contain" /\ settled[d] = "unknown"
    BY <1>2 DEF Contain, TrustInv, ContainsAlone
  <2> HIDE DEF d
  <2>5. ContainsAlone'
    <3>1. ASSUME NEW o \in Callers, call'[o].pc = "contain"
          PROVE  settled'[call'[o].device] = "unknown"
      <4>1. /\ o # c /\ call'[o] = call[o] /\ settled[call[o].device] = "unknown"
            /\ call[o].device \in Devices
        BY <1>0, <2>2, <3>1 DEF TrustInv, ContainsAlone
      <4>2. call[c].alone => call[o].device # d
        BY <2>4, <3>1, <4>1 DEF TrustInv, ContainsAlone, d
      <4> QED
        BY <2>3, <2>4, <4>1, <4>2
    <3> QED
      BY <2>2, <2>3, <3>1 DEF TrustInv, ContainsAlone
  <2>6. VerdictsStand'
    <3>1. ASSUME NEW e \in Devices, settled'[e] # "unknown"
          PROVE  /\ e \in quarantined' <=> settled'[e] = "untrusted"
                 /\ e \in Rows => trust'[e] = settled'[e]
      <4>1. CASE e # d
        BY <2>3, <3>1, <4>1 DEF TrustInv, VerdictsStand
      <4>2. CASE e = d
        <5>1. /\ call[c].alone /\ settled'[d] = VerdictOf(call[c].verified)
              /\ d \in quarantined' <=> ~call[c].verified
          BY <2>3, <2>4, <3>1, <4>2
        <5>2. d \in Rows => trust[d] = VerdictOf(call[c].verified)
          BY <2>4, <5>1 DEF TrustInv, ContainsAlone, d
        <5> QED
          BY <2>3, <4>2, <5>1, <5>2 DEF VerdictOf
      <4> QED
        BY <4>1, <4>2
    <3> QED
      BY <2>3, <3>1 DEF TrustInv, VerdictsStand
  <2> QED
    BY <2>5, <2>6 DEF TrustInv
<1>3. ASSUME NEW d \in Devices, NEW in \in BOOLEAN, Override(d, in) PROVE TrustInv'
  <2>1. /\ call' = Disturb(d) /\ UNCHANGED trust
        /\ \A e \in Devices : settled'[e] = IF e = d THEN "unknown" ELSE settled[e]
        /\ \A e : e # d => (e \in quarantined' <=> e \in quarantined)
    BY <1>3, UnsettleTells DEF Override, stores
  <2>2. ContainsAlone'
    BY <1>0, <2>1, DisturbTyped DEF TrustInv, ContainsAlone
  <2>3. VerdictsStand'
    BY <2>1 DEF TrustInv, VerdictsStand
  <2> QED
    BY <2>2, <2>3 DEF TrustInv
<1>4. CASE Restart
  <2>1. /\ call' = [c \in Callers |-> Idle] /\ UNCHANGED trust
        /\ settled' = [d \in Devices |-> "unknown"]
    BY <1>4 DEF Restart
  <2> QED
    BY <1>0, <2>1 DEF TrustInv, ContainsAlone, VerdictsStand
<1>5. ASSUME NEW c \in Callers, NEW d \in Devices, Request(c, d) PROVE TrustInv'
  <2>1. [Idle EXCEPT !.pc = "admit", !.device = d].pc # "contain"
    BY DEF Idle
  <2> QED
    BY <1>5, <2>1, TrustKeptByCall DEF Request, stores, quarantineVars
<1>6. ASSUME NEW c \in Callers, Issue(c) \/ NoNonce(c) PROVE TrustInv'
  BY <1>0, <1>6, TrustKeptByCall DEF Issue, NoNonce, stores, quarantineVars
<1>7. ASSUME NEW c \in Callers, NEW n \in DOMAIN nonceStore, NEW d \in Devices,
             NEW kind \in Kinds, NEW measured \in Measurements,
             Spend(c, n, d, kind, measured)
      PROVE  TrustInv'
  <2>1. [Idle EXCEPT !.pc = "identity", !.device = d, !.kind = kind,
                     !.measured = measured].pc # "contain"
    BY DEF Idle
  <2> QED
    BY <1>7, <2>1, TrustKeptByCall DEF Spend, stores, quarantineVars
<1>8. ASSUME NEW c \in Callers, NEW failed \in BOOLEAN, Identify(c, failed) PROVE TrustInv'
  <2>1. [call[c] EXCEPT !.pc = "expected"].pc # "contain"
    BY <1>0 DEF Call
  <2> QED
    BY <1>0, <1>8, <2>1, TrustKeptByCall DEF Identify, stores, quarantineVars
<1>9. ASSUME NEW c \in Callers, NEW failed \in BOOLEAN, ReadExpected(c, failed) PROVE TrustInv'
  <2>1. [call[c] EXCEPT !.pc = "learn"].pc # "contain"
    BY <1>0 DEF Call
  <2>2. /\ \E v : call' = [call EXCEPT ![c] = Verdict(call[c].device, v)]
                  \/ call' = [call EXCEPT ![c] = [call[c] EXCEPT !.pc = "learn"]]
        /\ UNCHANGED <<trust, quarantined, settled>>
    BY <1>9 DEF ReadExpected, quarantineVars
  <2> QED
    BY <1>0, <2>1, <2>2, TrustKeptByCall
<1>10. ASSUME NEW c \in Callers, NEW failed \in BOOLEAN, Learn(c, failed) PROVE TrustInv'
  BY <1>0, <1>10, TrustKeptByCall DEF Learn, quarantineVars
<1>11. ASSUME UNCHANGED <<call, trust, quarantined, settled>> PROVE TrustInv'
  BY <1>11, TrustKept
<1>12. ASSUME NEW d \in Devices, NEW expected \in Measurements,
              UpdateExpectedMeasurements(d, expected)
       PROVE  TrustInv'
  BY <1>11, <1>12 DEF UpdateExpectedMeasurements, quarantineVars
<1>13. ASSUME NEW on \in BOOLEAN, UpdatePolicy(on) PROVE TrustInv'
  BY <1>11, <1>13 DEF UpdatePolicy, stores
<1>14. ASSUME NEW n \in DOMAIN nonceStore, Reject(n) PROVE TrustInv'
  BY <1>11, <1>14 DEF Reject, stores, quarantineVars
<1>15. CASE Expire \/ Cleanup
  BY <1>11, <1>15 DEF Expire, Cleanup, stores, quarantineVars
<1>16. CASE UNCHANGED vars
  BY <1>11, <1>16 DEF vars, stores, quarantineVars
<1> QED
  BY <1>1, <1>2, <1>3, <1>4, <1>5, <1>6, <1>7, <1>8, <1>9, <1>10, <1>12, <1>13, <1>14,
     <1>15, <1>16 DEF Next, Ask, Step

(* What was last put down undisturbed of a device is what the quarantine    *)
(* and the row with its id say, and a row without an identity's id is never *)
(* written, for any inventory and any number of overlapping verdicts,       *)
(* operators, errors and restarts.                                          *)
THEOREM VerifierVerdictsStand == Spec => []VerdictsStand
<1>1. Init => TypeOK /\ TrustInv
  BY TypeInit, TrustInit
<1>2. TypeOK /\ TrustInv /\ [Next]_vars => TypeOK' /\ TrustInv'
  BY TypeStep, TrustStep
<1>3. TrustInv => VerdictsStand
  BY DEF TrustInv
<1> QED
  BY <1>1, <1>2, <1>3, PTL DEF Spec

-----------------------------------------------------------------------------
(* Baselines                                                                *)

LearnInv == LearnsAlone /\ AcceptedAgree

LEMMA AgreesWithItself == \A measured \in Measurements : Agrees(measured, measured)
BY DEF Agrees

LEMMA LearnInit == Init => LearnInv
BY IdleType DEF Init, LearnInv, LearnsAlone, AcceptedAgree

(* A step that leaves the baselines alone, and brings no call to "learn".   *)
LEMMA LearnKept ==
  ASSUME LearnInv,
         UNCHANGED <<baseline, standing, accepted, confused>>,
         \A c \in Callers : call'[c].pc = "learn" =>
           call[c].pc = "learn" /\ call'[c].device = call[c].device
  PROVE  LearnInv'
<1>1. LearnsAlone'
  BY DEF LearnInv, LearnsAlone
<1>2. AcceptedAgree'
  BY DEF LearnInv, AcceptedAgree
<1> QED
  BY <1>1, <1>2 DEF LearnInv

LEMMA LearnKeptByCall ==
  ASSUME TypeOK, LearnInv, NEW c \in Callers, NEW entry, entry.pc # "learn",
         call' = [call EXCEPT ![c] = entry],
         UNCHANGED stores
  PROVE  LearnInv'
<1>1. call'[c] = entry /\ \A o \in Callers \ {c} : call'[o] = call[o]
  BY DEF TypeOK
<1> QED
  BY <1>1, LearnKept DEF stores

LEMMA LearnStep ==
  ASSUME TypeOK, LearnInv, [Next]_vars
  PROVE  LearnInv'
<1>0. /\ call \in [Callers -> Call]
      /\ baseline \in [Devices -> Measurements \union {None}]
      /\ standing \in [Devices -> Measurements \union {None}]
      /\ accepted \in [Devices -> SUBSET Measurements]
      /\ Idle.pc = "idle"
      /\ \A d, v : Verdict(d, v).pc = "trust"
  BY IdleType DEF TypeOK, Verdict, Idle
<1>1. ASSUME NEW c \in Callers, NEW failed \in BOOLEAN, ReadExpected(c, failed) PROVE LearnInv'
  <2> DEFINE d == call[c].device
             measured == call[c].measured
             expected == GetExpectedMeasurements(d, failed)
             missing == expected = None
             verified == ~missing /\ Verified(expected, call[c].kind, measured)
  <2>1. d \in Devices /\ call[c].pc = "expected"
    BY <1>1, EntryTyped DEF ReadExpected
  <2>2. /\ call' = [call EXCEPT ![c] = IF missing THEN [call[c] EXCEPT !.pc = "learn"]
                                       ELSE Verdict(d, verified)]
        /\ Accept(d, measured, verified)
        /\ confused' = IF failed \/ (missing /\ At("learn", d) # {})
                       THEN confused \union {d} ELSE confused
        /\ UNCHANGED <<baseline, standing>>
    BY <1>1 DEF ReadExpected
  <2>3. /\ \A o \in Callers \ {c} : call'[o] = call[o]
        /\ call'[c].pc = "learn" => missing /\ call'[c].device = d
    BY <1>0, <2>2 DEF Call
  <2>4. ~failed => expected = baseline[d]
    BY DEF GetExpectedMeasurements
  <2>5. verified => ~missing /\ Agrees(expected, measured)
    BY DEF Verified
  <2> HIDE DEF verified, missing, expected, measured, d
  <2>6. ASSUME missing, d \notin confused'
        PROVE  /\ standing[d] = None
               /\ \A o \in Callers : ~(call[o].pc = "learn" /\ call[o].device = d)
    <3>1. ~failed /\ At("learn", d) = {} /\ d \notin confused
      BY <2>2, <2>6
    <3>2. baseline[d] = None
      BY <2>4, <2>6, <3>1 DEF missing
    <3> QED
      BY <2>1, <3>1, <3>2 DEF At, Of, LearnInv, LearnsAlone
  <2>7. LearnsAlone'
    <3>1. ASSUME NEW e \in Devices \ confused' PROVE baseline'[e] = standing'[e]
      BY <2>2, <3>1 DEF LearnInv, LearnsAlone
    <3>2. ASSUME NEW o \in Callers, call'[o].pc = "learn", call'[o].device \notin confused'
          PROVE  /\ standing'[call'[o].device] = None
                 /\ \A e \in Callers \ {o} : call'[e].pc = "learn" => call'[e].device # call'[o].device
      <4>1. CASE o = c
        <5>1. missing /\ call'[o].device = d
          BY <2>3, <3>2, <4>1
        <5> QED
          BY <2>2, <2>3, <2>6, <3>2, <4>1, <5>1
      <4>2. CASE o # c
        <5>1. call'[o] = call[o] /\ call[o].device \notin confused
          BY <2>2, <2>3, <3>2, <4>2
        <5>2. call'[c].pc = "learn" => call'[c].device # call'[o].device
          BY <2>3, <2>6, <3>2, <4>2
        <5> QED
          BY <2>2, <2>3, <3>2, <4>2, <5>1, <5>2 DEF LearnInv, LearnsAlone
      <4> QED
        BY <4>1, <4>2
    <3> QED
      BY <3>1, <3>2 DEF LearnsAlone
  <2>8. AcceptedAgree'
    <3>1. ASSUME NEW e \in Devices \ confused', NEW x \in accepted'[e]
          PROVE  standing'[e] # None /\ Agrees(standing'[e], x)
      <4>1. e \notin confused /\ standing' = standing
        BY <2>2, <3>1
      <4>2. CASE x \in accepted[e]
        BY <4>1, <4>2 DEF LearnInv, AcceptedAgree
      <4>3. CASE x \notin accepted[e]
        <5>1. e = d /\ x = measured /\ verified
          BY <1>0, <2>1, <2>2, <3>1, <4>3 DEF Accept
        <5>2. ~failed
          BY <2>2, <3>1, <5>1
        <5>3. standing[d] = baseline[d]
          BY <4>1, <5>1 DEF LearnInv, LearnsAlone
        <5> QED
          BY <2>4, <2>5, <4>1, <5>1, <5>2, <5>3 DEF missing
      <4> QED
        BY <4>2, <4>3
    <3> QED
      BY <3>1 DEF AcceptedAgree
  <2> QED
    BY <2>7, <2>8 DEF LearnInv
<1>2. ASSUME NEW c \in Callers, NEW failed \in BOOLEAN, Learn(c, failed) PROVE LearnInv'
  <2> DEFINE d == call[c].device
             measured == call[c].measured
             verified == Verified(measured, call[c].kind, measured)
  <2>1. d \in Devices /\ call[c].pc = "learn" /\ measured \in Measurements
    BY <1>2, EntryTyped DEF Learn
  <2>2. /\ call' = [call EXCEPT ![c] = Verdict(d, verified)]
        /\ Accept(d, measured, verified)
        /\ baseline' = IF failed THEN baseline ELSE [baseline EXCEPT ![d] = measured]
        /\ standing' = IF standing[d] = None THEN [standing EXCEPT ![d] = measured] ELSE standing
        /\ confused' = IF failed THEN confused \union {d} ELSE confused
    BY <1>2 DEF Learn, SaveExpectedMeasurements
  <2>3. call'[c].pc # "learn" /\ \A o \in Callers \ {c} : call'[o] = call[o]
    BY <1>0, <2>2
  <2>4. d \notin confused => standing[d] = None
    BY <2>1 DEF LearnInv, LearnsAlone
  <2> HIDE DEF verified
  <2>5. LearnsAlone'
    <3>1. ASSUME NEW e \in Devices \ confused' PROVE baseline'[e] = standing'[e]
      BY <1>0, <2>1, <2>2, <2>4, <3>1 DEF LearnInv, LearnsAlone
    <3>2. ASSUME NEW o \in Callers, call'[o].pc = "learn", call'[o].device \notin confused'
          PROVE  /\ standing'[call'[o].device] = None
                 /\ \A e \in Callers \ {o} : call'[e].pc = "learn" => call'[e].device # call'[o].device
      <4>1. o # c /\ call'[o] = call[o] /\ call[o].device \notin confused
        BY <2>2, <2>3, <3>2
      <4>2. standing[call[o].device] = None /\ call[o].device # d
        BY <2>1, <3>2, <4>1 DEF LearnInv, LearnsAlone
      <4>3. standing'[call[o].device] = None
        BY <1>0, <2>2, <4>2
      <4>4. ASSUME NEW e \in Callers \ {o}, call'[e].pc = "learn"
            PROVE  call'[e].device # call'[o].device
        BY <2>3, <3>2, <4>1, <4>4 DEF LearnInv, LearnsAlone
      <4> QED
        BY <4>1, <4>3, <4>4
    <3> QED
      BY <3>1, <3>2 DEF LearnsAlone
  <2>6. AcceptedAgree'
    <3>1. ASSUME NEW e \in Devices \ confused', NEW x \in accepted'[e]
          PROVE  standing'[e] # None /\ Agrees(standing'[e], x)
      <4>1. e \notin confused
        BY <2>2, <3>1
      <4>2. CASE e = d
        <5>1. accepted[d] = {}
          BY <1>0, <2>1, <2>4, <4>1, <4>2 DEF LearnInv, AcceptedAgree
        <5>2. x = measured /\ standing'[d] = measured
          BY <1>0, <2>1, <2>2, <2>4, <3>1, <4>1, <4>2, <5>1 DEF Accept
        <5> QED
          BY <2>1, <4>2, <5>2, AgreesWithItself, NoneFresh
      <4>3. CASE e # d
        <5>1. accepted'[e] = accepted[e] /\ standing'[e] = standing[e]
          BY <1>0, <2>2, <4>3 DEF Accept
        <5> QED
          BY <3>1, <4>1, <5>1 DEF LearnInv, AcceptedAgree
      <4> QED
        BY <4>2, <4>3
    <3> QED
      BY <3>1 DEF AcceptedAgree
  <2> QED
    BY <2>5, <2>6 DEF LearnInv
<1>3. ASSUME NEW d \in Devices, NEW expected \in Measurements,
             UpdateExpectedMeasurements(d, expected)
      PROVE  LearnInv'
  <2>1. /\ baseline' = [baseline EXCEPT ![d] = expected]
        /\ standing' = [standing EXCEPT ![d] = expected]
        /\ accepted' = [accepted EXCEPT ![d] = {}]
        /\ \A e : e # d => (e \in confused' <=> e \in confused)
        /\ d \notin confused' => At("learn", d) = {}
        /\ UNCHANGED call
    BY <1>3 DEF UpdateExpectedMeasurements, SaveExpectedMeasurements
  <2>2. LearnsAlone'
    <3>1. ASSUME NEW e \in Devices \ confused' PROVE baseline'[e] = standing'[e]
      BY <1>0, <2>1, <3>1 DEF LearnInv, LearnsAlone
    <3>2. ASSUME NEW o \in Callers, call'[o].pc = "learn", call'[o].device \notin confused'
          PROVE  /\ standing'[call'[o].device] = None
                 /\ \A e \in Callers \ {o} : call'[e].pc = "learn" => call'[e].device # call'[o].device
      <4>1. call[o].device # d
        BY <2>1, <3>2 DEF At, Of
      <4> QED
        BY <1>0, <2>1, <3>2, <4>1 DEF LearnInv, LearnsAlone
    <3> QED
      BY <3>1, <3>2 DEF LearnsAlone
  <2>3. AcceptedAgree'
    BY <1>0, <2>1 DEF LearnInv, AcceptedAgree
  <2> QED
    BY <2>2, <2>3 DEF LearnInv
<1>4. CASE Restart
  <2>1. call' = [c \in Callers |-> Idle]
    BY <1>4 DEF Restart
  <2>2. CASE repository = "postgres"
    <3>1. UNCHANGED <<baseline, standing, accepted, confused>>
      BY <1>4, <2>2 DEF Restart
    <3> QED
      BY <1>0, <2>1, <3>1, LearnKept
  <2>3. CASE repository # "postgres"
    <3>1. \A d \in Devices : baseline'[d] = None /\ standing'[d] = None /\ accepted'[d] = {}
      BY <1>4, <2>3 DEF Restart
    <3> QED
      BY <1>0, <2>1, <3>1 DEF LearnInv, LearnsAlone, AcceptedAgree
  <2> QED
    BY <2>2, <2>3
<1>5. ASSUME NEW c \in Callers, NEW d \in Devices, Request(c, d) PROVE LearnInv'
  <2>1. [Idle EXCEPT !.pc = "admit", !.device = d].pc # "learn"
    BY DEF Idle
  <2> QED
    BY <1>5, <2>1, LearnKeptByCall DEF Request
<1>6. ASSUME NEW c \in Callers, Issue(c) \/ NoNonce(c) \/ Contain(c) PROVE LearnInv'
  BY <1>0, <1>6, LearnKeptByCall DEF Issue, NoNonce, Contain
<1>7. ASSUME NEW c \in Callers, NEW n \in DOMAIN nonceStore, NEW d \in Devices,
             NEW kind \in Kinds, NEW measured \in Measurements,
             Spend(c, n, d, kind, measured)
      PROVE  LearnInv'
  <2>1. [Idle EXCEPT !.pc = "identity", !.device = d, !.kind = kind,
                     !.measured = measured].pc # "learn"
    BY DEF Idle
  <2> QED
    BY <1>7, <2>1, LearnKeptByCall DEF Spend
<1>8. ASSUME NEW c \in Callers, NEW failed \in BOOLEAN, Identify(c, failed) PROVE LearnInv'
  <2>1. [call[c] EXCEPT !.pc = "expected"].pc # "learn"
    BY <1>0 DEF Call
  <2> QED
    BY <1>0, <1>8, <2>1, LearnKeptByCall DEF Identify
<1>9. ASSUME NEW c \in Callers, NEW failed \in BOOLEAN, WriteTrust(c, failed) PROVE LearnInv'
  <2> DEFINE d == call[c].device
             alone == ~failed /\ At("contain", d) = {}
  <2>1. /\ call' = [Disturb(d) EXCEPT ![c] =
                      [Disturb(d)[c] EXCEPT !.pc = "contain", !.alone = alone]]
        /\ UNCHANGED <<baseline, standing, accepted, confused>>
    BY <1>9 DEF WriteTrust
  <2>2. Disturb(d)[c] \in Call /\ c \in DOMAIN Disturb(d)
    BY DisturbTyped DEF Typed, Disturb
  <2>3. call'[c].pc = "contain" /\ \A o \in Callers \ {c} : call'[o] = Disturb(d)[o]
    BY <2>1, <2>2 DEF Disturb, Call
  <2> QED
    BY <2>1, <2>3, DisturbTyped, LearnKept
<1>10. ASSUME NEW d \in Devices, NEW in \in BOOLEAN, Override(d, in) PROVE LearnInv'
  <2>1. call' = Disturb(d) /\ UNCHANGED <<baseline, standing, accepted, confused>>
    BY <1>10 DEF Override, stores
  <2> QED
    BY <2>1, DisturbTyped, LearnKept
<1>11. ASSUME UNCHANGED <<stores, call>> PROVE LearnInv'
  BY <1>11, LearnKept DEF stores
<1>12. ASSUME NEW on \in BOOLEAN, UpdatePolicy(on) PROVE LearnInv'
  BY <1>11, <1>12 DEF UpdatePolicy
<1>13. ASSUME NEW n \in DOMAIN nonceStore, Reject(n) PROVE LearnInv'
  BY <1>11, <1>13 DEF Reject
<1>14. CASE Expire \/ Cleanup
  BY <1>11, <1>14 DEF Expire, Cleanup
<1>15. CASE UNCHANGED vars
  BY <1>11, <1>15 DEF vars
<1> QED
  BY <1>1, <1>2, <1>3, <1>4, <1>5, <1>6, <1>7, <1>8, <1>9, <1>10, <1>12, <1>13, <1>14,
     <1>15 DEF Next, Ask, Step

(* Whatever was verified agrees with the baseline that stands, but for the  *)
(* devices whose baseline was read or written with an error or by two calls *)
(* at a time.                                                               *)
THEOREM VerifierAcceptedAgree == Spec => []AcceptedAgree
<1>1. Init => TypeOK /\ LearnInv
  BY TypeInit, LearnInit
<1>2. TypeOK /\ LearnInv /\ [Next]_vars => TypeOK' /\ LearnInv'
  BY TypeStep, LearnStep
<1>3. LearnInv => AcceptedAgree
  BY DEF LearnInv
<1> QED
  BY <1>1, <1>2, <1>3, PTL DEF Spec
===============================================================================
