----------------------------- MODULE Attestation -----------------------------
(***************************************************************************)
(* The attestation verifier of internal/attestation/verifier.go with its   *)
(* two repositories: it hands out nonces, compares a device's report with  *)
(* the measurements expected of it, and keeps a quarantine.                *)
(*                                                                         *)
(* The identity service (internal/identity) and the trust status in the    *)
(* inventory (internal/inventory) are reached through an interface: what   *)
(* has an identity and what has a row are parameters.                      *)
(***************************************************************************)
EXTENDS Integers, Sequences, FiniteSets

CONSTANTS
  Callers,       (* goroutines calling the verifier                         *)
  Devices,       (* ids that are asked about                                *)
  Known,         (* those with an identity                                  *)
  Rows,          (* ids of the rows of the inventory                        *)
  Identity,      (* per row: the identity its device was registered with    *)
  QuarantineOnFailure,   (* the process's configuration                     *)
  Repositories,  (* the repositories to choose from: "memory", "postgres"   *)
  Hashes, Absent,   (* a measured hash, and none                            *)
  Kinds,         (* the kinds of reports: "signed", "forged", "tpm"         *)
  Measurements,  (* what devices report and operators expect                *)
  None,
  MaxNonces,     (* bound on nonces                                         *)
  MaxEvents      (* bound on errors, operators' changes and restarts        *)

Fields == {"firmware", "os", "agent"}

ASSUME AttestationAssumption ==
  /\ QuarantineOnFailure \in BOOLEAN
  /\ Known \subseteq Devices /\ Identity \in [Rows -> Devices]
  /\ Repositories \subseteq {"memory", "postgres"}
  /\ Kinds \subseteq {"signed", "forged", "tpm"}
  /\ Measurements \subseteq [Fields -> Hashes \union {Absent}]
  /\ None \notin Measurements /\ None \notin Devices /\ None \notin Kinds
ASSUME AttestationBounds == MaxNonces \in Nat /\ MaxEvents \in Nat

VARIABLES
  repository,    (* the repository in use                                   *)
  nonceStore,    (* nonces by number: the device and whether it is used     *)
  owner,         (* the devices of all nonces ever made, in order           *)
  expired,       (* the nonces up to this one are older than NonceExpiry    *)
  quarantined,   (* quarantinedDevices                                      *)
  quarantineOn,  (* the policy's QuarantineOnFailure                        *)
  baseline,      (* per device: the expected measurements stored            *)
  trust,         (* per row of the inventory: trust_status                  *)
  call,          (* per caller: its call in progress                        *)
  passed,        (* history, per nonce: devices whose reports it let pass   *)
  standing,      (* history, per device: what an operator set last, or the  *)
                 (* first report taken as a baseline since                  *)
  accepted,      (* history, per device: what was verified against that     *)
  confused,      (* history: devices whose baseline was read or written     *)
                 (* with an error or by two calls at a time                 *)
  settled,       (* history, per device: its last verdict, if that was put  *)
                 (* down alone                                              *)
  events         (* errors, changes and restarts so far                     *)

stores == <<repository, baseline, trust, standing, accepted, confused>>
nonceVars == <<nonceStore, owner, expired, passed>>
quarantineVars == <<quarantined, quarantineOn, settled>>
vars == <<stores, nonceVars, quarantineVars, call, events>>

Trust == {"unknown", "verified", "untrusted"}

(* RequestAttestation: "admit" with the quarantine checked. VerifyAttestation: *)
(* "identity" with the nonce used, "expected" with the identity found, "learn" *)
(* with no baseline read, "trust" with a verdict, "contain" with its trust     *)
(* status written.                                                             *)
Call == [pc       : {"idle", "admit", "identity", "expected", "learn", "trust", "contain"},
         device   : Devices \union {None},
         kind     : Kinds \union {None},
         measured : Measurements \union {None},
         verified : BOOLEAN,
         alone    : BOOLEAN]     (* history: no other wrote d's verdict meanwhile *)

Idle == [pc |-> "idle", device |-> None, kind |-> None, measured |-> None,
         verified |-> FALSE, alone |-> FALSE]

-------------------------------------------------------------------------------
(* The report and the expected measurements                                *)

(* A hash that is not expected is not compared.                             *)
Agrees(expected, measured) ==
  \A f \in Fields : expected[f] # Absent => measured[f] = expected[f]

(* Report.Verify: a software signature verifies or not, a TPM's is not      *)
(* looked at and never becomes valid.                                       *)
SignatureValid(kind) == kind = "signed"

Verified(expected, kind, measured) == SignatureValid(kind) /\ Agrees(expected, measured)

Of(d) == {c \in Callers : call[c].device = d}
At(pc, d) == {c \in Of(d) : call[c].pc = pc}

-------------------------------------------------------------------------------
Init ==
  /\ repository \in Repositories
  /\ nonceStore = <<>> /\ owner = <<>> /\ expired = 0
  /\ quarantined = {} /\ quarantineOn = QuarantineOnFailure
  /\ baseline = [d \in Devices |-> None]
  /\ trust = [r \in Rows |-> "unknown"]
  /\ call = [c \in Callers |-> Idle]
  /\ passed = [n \in 1..MaxNonces |-> <<>>]
  /\ standing = [d \in Devices |-> None]
  /\ accepted = [d \in Devices |-> {}]
  /\ confused = {} /\ settled = [d \in Devices |-> "unknown"]
  /\ events = 0

(* RequestAttestation refuses a quarantined device.                         *)
Request(c, d) ==
  /\ call[c].pc = "idle"
  /\ d \notin quarantined
  /\ call' = [call EXCEPT ![c] = [Idle EXCEPT !.pc = "admit", !.device = d]]
  /\ UNCHANGED <<stores, nonceVars, quarantineVars, events>>

(* The nonce is 32 random bytes: none is made twice.                        *)
Issue(c) ==
  /\ call[c].pc = "admit" /\ Len(owner) < MaxNonces
  /\ owner' = Append(owner, call[c].device)
  /\ nonceStore' = [n \in DOMAIN nonceStore \union {Len(owner')} |->
                      IF n \in DOMAIN nonceStore THEN nonceStore[n]
                      ELSE [device |-> call[c].device, used |-> FALSE]]
  /\ call' = [call EXCEPT ![c] = Idle]
  /\ UNCHANGED <<stores, expired, passed, quarantineVars, events>>

(* There were no random bytes.                                              *)
NoNonce(c) ==
  /\ call[c].pc = "admit"
  /\ call' = [call EXCEPT ![c] = Idle]
  /\ UNCHANGED <<stores, nonceVars, quarantineVars, events>>

Keep(nonces) == [n \in DOMAIN nonceStore \intersect nonces |-> nonceStore[n]]

(* Bug: the entry is marked in a copy that is not put back.                 *)
SpendCopy(c, n, d, kind, measured) ==
  /\ call[c].pc = "idle" /\ n \in DOMAIN nonceStore
  /\ ~nonceStore[n].used /\ n > expired
  /\ nonceStore[n].device = d
  /\ passed' = [passed EXCEPT ![n] = Append(@, d)]
  /\ call' = [call EXCEPT ![c] = [Idle EXCEPT !.pc = "identity", !.device = d,
                                              !.kind = kind, !.measured = measured]]
  /\ UNCHANGED <<stores, nonceStore, owner, expired, quarantineVars, events>>

(* VerifyAttestation of a report whose nonce was made for its device, is    *)
(* young and was not used.  An unknown or used nonce or that of another     *)
(* device is refused, and nothing changes.                                  *)
Spend(c, n, d, kind, measured) ==
  /\ call[c].pc = "idle" /\ n \in DOMAIN nonceStore
  /\ ~nonceStore[n].used /\ n > expired
  /\ nonceStore[n].device = d
  /\ nonceStore' = [nonceStore EXCEPT ![n].used = TRUE]
  /\ passed' = [passed EXCEPT ![n] = Append(@, d)]
  /\ call' = [call EXCEPT ![c] = [Idle EXCEPT !.pc = "identity", !.device = d,
                                              !.kind = kind, !.measured = measured]]
  /\ UNCHANGED <<stores, owner, expired, quarantineVars, events>>

(* One that is too old is removed.                                          *)
Reject(n) ==
  /\ n \in DOMAIN nonceStore /\ ~nonceStore[n].used /\ n <= expired
  /\ nonceStore' = Keep(DOMAIN nonceStore \ {n})
  /\ UNCHANGED <<stores, owner, expired, passed, quarantineVars, call, events>>

Happens(event) ==
  /\ event => events < MaxEvents
  /\ events' = IF event THEN events + 1 ELSE events

(* Bug: whoever has no identity goes on.                                    *)
IdentifyAnyone(c, failed) ==
  /\ call[c].pc = "identity"
  /\ Happens(failed)
  /\ call' = [call EXCEPT ![c] = IF failed THEN Idle ELSE [@ EXCEPT !.pc = "expected"]]
  /\ UNCHANGED <<stores, nonceVars, quarantineVars>>

(* GetByID: without an identity the report is refused and its nonce gone.   *)
Identify(c, failed) ==
  /\ call[c].pc = "identity"
  /\ Happens(failed)
  /\ call' = [call EXCEPT ![c] = IF failed \/ call[c].device \notin Known
                                 THEN Idle ELSE [@ EXCEPT !.pc = "expected"]]
  /\ UNCHANGED <<stores, nonceVars, quarantineVars>>

Verdict(d, verified) == [Idle EXCEPT !.pc = "trust", !.device = d, !.verified = verified]

Accept(d, measured, verified) ==
  accepted' = IF verified THEN [accepted EXCEPT ![d] = @ \union {measured}] ELSE accepted

(* The repository: only the table can fail.                                 *)
GetExpectedMeasurements(d, failed) == IF failed THEN None ELSE baseline[d]

SaveExpectedMeasurements(d, expected, failed) ==
  baseline' = IF failed THEN baseline ELSE [baseline EXCEPT ![d] = expected]

(* Any error is taken for the absence of a baseline.  What was read is      *)
(* compared with the report.                                                *)
ReadExpected(c, failed) ==
  LET d        == call[c].device
      expected == GetExpectedMeasurements(d, failed)
      missing  == expected = None
      verified == ~missing /\ Verified(expected, call[c].kind, call[c].measured)
  IN  /\ call[c].pc = "expected"
      /\ failed => repository = "postgres"
      /\ Happens(failed)
      /\ call' = [call EXCEPT ![c] = IF missing THEN [@ EXCEPT !.pc = "learn"]
                                                ELSE Verdict(d, verified)]
      /\ Accept(d, call[c].measured, verified)
      /\ confused' = IF failed \/ (missing /\ At("learn", d) # {})
                     THEN confused \union {d} ELSE confused
      /\ UNCHANGED <<repository, baseline, trust, standing,
                     nonceVars, quarantineVars>>

(* Bug: the report is what is expected in this call only.                   *)
LearnUnsaved(c, failed) ==
  LET d        == call[c].device
      verified == Verified(call[c].measured, call[c].kind, call[c].measured)
  IN  /\ call[c].pc = "learn"
      /\ ~failed /\ Happens(FALSE)
      /\ standing' = IF standing[d] = None
                     THEN [standing EXCEPT ![d] = call[c].measured] ELSE standing
      /\ call' = [call EXCEPT ![c] = Verdict(d, verified)]
      /\ Accept(d, call[c].measured, verified)
      /\ UNCHANGED <<repository, baseline, confused, trust, nonceVars, quarantineVars>>

(* The report itself becomes what is expected, whatever its signature, and  *)
(* is compared with itself.  That it could not be saved is only logged.     *)
Learn(c, failed) ==
  LET d        == call[c].device
      verified == Verified(call[c].measured, call[c].kind, call[c].measured)
  IN  /\ call[c].pc = "learn"
      /\ failed => repository = "postgres"
      /\ Happens(failed)
      /\ SaveExpectedMeasurements(d, call[c].measured, failed)
      /\ standing' = IF standing[d] = None
                     THEN [standing EXCEPT ![d] = call[c].measured] ELSE standing
      /\ confused' = IF failed THEN confused \union {d} ELSE confused
      /\ call' = [call EXCEPT ![c] = Verdict(d, verified)]
      /\ Accept(d, call[c].measured, verified)
      /\ UNCHANGED <<repository, trust, nonceVars, quarantineVars>>

VerdictOf(verified) == IF verified THEN "verified" ELSE "untrusted"

Unsettle(d) == settled' = [settled EXCEPT ![d] = "unknown"]

(* Both halves of the verdict on d are down.                                *)
Settle(c, d) ==
  settled' = IF call[c].alone /\ (call[c].verified \/ quarantineOn)
             THEN [settled EXCEPT ![d] = VerdictOf(call[c].verified)] ELSE settled

(* Others about to write the second half of a verdict on d are not alone.   *)
Disturb(d) == [c \in Callers |-> IF c \in At("contain", d)
                                 THEN [call[c] EXCEPT !.alone = FALSE] ELSE call[c]]

(* handleVerificationResult: the trust status of the row with the device's  *)
(* id, if there is one; an error is only logged.                            *)
WriteTrust(c, failed) ==
  LET d == call[c].device
  IN  /\ call[c].pc = "trust"
      /\ Happens(failed)
      /\ trust' = IF failed THEN trust
                  ELSE [r \in Rows |-> IF r = d THEN VerdictOf(call[c].verified) ELSE trust[r]]
      /\ call' = [Disturb(d) EXCEPT ![c] =
                    [@ EXCEPT !.pc = "contain", !.alone = ~failed /\ At("contain", d) = {}]]
      /\ Unsettle(d)
      /\ UNCHANGED <<repository, baseline, standing, accepted, confused, nonceVars,
                     quarantined, quarantineOn>>

(* Bug: a verified device stays in the quarantine.                          *)
ContainOnly(c) ==
  LET d == call[c].device
  IN  /\ call[c].pc = "contain"
      /\ quarantined' = IF ~call[c].verified /\ quarantineOn
                        THEN quarantined \union {d} ELSE quarantined
      /\ Settle(c, d)
      /\ call' = [call EXCEPT ![c] = Idle]
      /\ UNCHANGED <<stores, nonceVars, quarantineOn, events>>

(* ... and then its place in the quarantine.                                *)
Contain(c) ==
  LET d == call[c].device
  IN  /\ call[c].pc = "contain"
      /\ quarantined' = IF call[c].verified THEN quarantined \ {d}
                        ELSE IF quarantineOn THEN quarantined \union {d} ELSE quarantined
      /\ Settle(c, d)
      /\ call' = [call EXCEPT ![c] = Idle]
      /\ UNCHANGED <<stores, nonceVars, quarantineOn, events>>

(* Quarantine and Unquarantine by an operator.                              *)
Override(d, in) ==
  /\ Happens(TRUE)
  /\ quarantined' = IF in THEN quarantined \union {d} ELSE quarantined \ {d}
  /\ Unsettle(d)
  /\ call' = Disturb(d)
  /\ UNCHANGED <<stores, nonceVars, quarantineOn>>

UpdateExpectedMeasurements(d, expected) ==
  /\ Happens(TRUE)
  /\ SaveExpectedMeasurements(d, expected, FALSE)
  /\ standing' = [standing EXCEPT ![d] = expected]
  /\ accepted' = [accepted EXCEPT ![d] = {}]
  /\ confused' = IF At("learn", d) = {} THEN confused \ {d} ELSE confused \union {d}
  /\ UNCHANGED <<repository, trust, nonceVars, quarantineVars, call>>

UpdatePolicy(on) ==
  /\ Happens(TRUE)
  /\ quarantineOn' = on
  /\ UNCHANGED <<stores, nonceVars, quarantined, settled, call>>

(* The time NonceExpiry passes, for one nonce after the other.              *)
Expire ==
  /\ expired < Len(owner)
  /\ expired' = expired + 1
  /\ UNCHANGED <<stores, nonceStore, owner, passed, quarantineVars, call, events>>

(* Bug: used nonces are kept.                                               *)
CleanupUnused ==
  /\ nonceStore' = Keep({n \in DOMAIN nonceStore : n > expired \/ nonceStore[n].used})
  /\ UNCHANGED <<stores, owner, expired, passed, quarantineVars, call, events>>

(* cleanupExpiredNonces, every minute.                                      *)
Cleanup ==
  /\ nonceStore' = Keep({n \in DOMAIN nonceStore : n > expired})
  /\ UNCHANGED <<stores, owner, expired, passed, quarantineVars, call, events>>

(* The process starts again: without its nonces and its quarantine, and     *)
(* without the baselines if they were kept in memory.                       *)
Restart ==
  LET kept(store, empty) ==
        IF repository = "postgres" THEN store ELSE [d \in Devices |-> empty]
  IN  /\ Happens(TRUE)
      /\ nonceStore' = <<>> /\ quarantined' = {}
      /\ settled' = [d \in Devices |-> "unknown"]
      /\ quarantineOn' = QuarantineOnFailure
      /\ call' = [c \in Callers |-> Idle]
      /\ baseline' = kept(baseline, None)
      /\ standing' = kept(standing, None)
      /\ accepted' = kept(accepted, {})
      /\ confused' = IF repository = "postgres" THEN confused ELSE {}
      /\ UNCHANGED <<repository, trust, owner, expired, passed>>

Step(c) ==
  \/ Issue(c)
  \/ NoNonce(c)
  \/ \E failed \in BOOLEAN : Identify(c, failed)
  \/ \E failed \in BOOLEAN : ReadExpected(c, failed)
  \/ \E failed \in BOOLEAN : Learn(c, failed)
  \/ \E failed \in BOOLEAN : WriteTrust(c, failed)
  \/ Contain(c)

Ask(c) ==
  \/ \E d \in Devices : Request(c, d)
  \/ \E n \in DOMAIN nonceStore, d \in Devices, kind \in Kinds, measured \in Measurements :
       Spend(c, n, d, kind, measured)

Next ==
  \/ \E c \in Callers : Ask(c) \/ Step(c)
  \/ \E n \in DOMAIN nonceStore : Reject(n)
  \/ \E d \in Devices, in \in BOOLEAN : Override(d, in)
  \/ \E d \in Devices, expected \in Measurements : UpdateExpectedMeasurements(d, expected)
  \/ \E on \in BOOLEAN : UpdatePolicy(on)
  \/ Expire
  \/ Cleanup
  \/ Restart

(* Goroutines go on, time passes, and the ticker ticks.                     *)
Fairness ==
  /\ \A c \in Callers : WF_vars(Step(c))
  /\ WF_vars(Expire) /\ WF_vars(Cleanup)

Spec == Init /\ [][Next]_vars /\ Fairness

-------------------------------------------------------------------------------
(* Properties                                                              *)

(* The types; entries of the store are of nonces that were made, and past   *)
(* "identity" a call's device has one.                                      *)
TypeOK ==
  /\ repository \in Repositories
  /\ owner \in Seq(Devices) /\ Len(owner) <= MaxNonces /\ expired \in 0..Len(owner)
  /\ DOMAIN nonceStore \subseteq 1..Len(owner)
  /\ nonceStore \in [DOMAIN nonceStore -> [device : Devices, used : BOOLEAN]]
  /\ passed \in [1..MaxNonces -> Seq(Devices)]
  /\ quarantined \subseteq Devices /\ settled \in [Devices -> Trust]
  /\ confused \subseteq Devices
  /\ quarantineOn \in BOOLEAN
  /\ baseline \in [Devices -> Measurements \union {None}]
  /\ standing \in [Devices -> Measurements \union {None}]
  /\ accepted \in [Devices -> SUBSET Measurements]
  /\ trust \in [Rows -> Trust]
  /\ call \in [Callers -> Call]
  /\ \A c \in Callers :
       /\ call[c].pc # "idle" => call[c].device # None
       /\ call[c].pc \in {"identity", "expected", "learn"} => call[c].measured # None
       /\ call[c].pc \in {"expected", "learn", "trust", "contain"} => call[c].device \in Known
  /\ events \in 0..MaxEvents

(* A nonce lets one report pass, of the device it was made for, and none    *)
(* after it expired, was removed or was lost with the process: the verifier *)
(* implements Nonces.                                                       *)
Live == {n \in DOMAIN nonceStore : ~nonceStore[n].used /\ n > expired}

N == INSTANCE Nonces WITH live <- Live

NonceSpec == N!Spec

(* What was verified of a device agrees with what an operator last said to  *)
(* expect of it, or with the first report taken for that: unless the        *)
(* baseline could not be read or saved, or a report was taken for it while  *)
(* another call wrote it.                                                   *)
AcceptedAgree ==
  \A d \in Devices \ confused : \A measured \in accepted[d] :
    standing[d] # None /\ Agrees(standing[d], measured)

(* A verdict on a device whose two writes no other verdict or operator came *)
(* between, and that no error kept from being written, is what the          *)
(* quarantine says of the device, and the row with the device's id if the   *)
(* inventory has one, until the next one.  A row whose id no identity has,  *)
(* as every row of the gateway, is never written.                           *)
VerdictsStand ==
  /\ \A d \in Devices : settled[d] # "unknown" =>
       /\ d \in quarantined <=> settled[d] = "untrusted"
       /\ d \in Rows => trust[d] = settled[d]
  /\ \A r \in Rows \ Known : trust[r] = "unknown"

(* What the reports say: the row of a device tells the last verdict on it.  *)
TrustFollowsVerdict ==
  \A r \in Rows : settled[Identity[r]] # "unknown" => trust[r] = settled[Identity[r]]

(* A nonce is not kept for ever, used or not.                               *)
NoncesReclaimed ==
  \A n \in 1..MaxNonces : n \in DOMAIN nonceStore ~> n \notin DOMAIN nonceStore

-------------------------------------------------------------------------------
(* The inductive invariant behind the proofs                               *)

(* A nonce of the store is the one made, and nothing passed with it before  *)
(* it is used.                                                              *)
NoncesTold ==
  /\ \A n \in DOMAIN nonceStore :
       /\ nonceStore[n].device = owner[n]
       /\ ~nonceStore[n].used => passed[n] = <<>>
  /\ \A n \in 1..MaxNonces : n > Len(owner) => passed[n] = <<>>

(* Where nothing is confused the baseline is what stands, and whoever makes *)
(* a report the baseline is alone and first.                                *)
LearnsAlone ==
  /\ \A d \in Devices \ confused : baseline[d] = standing[d]
  /\ \A c \in Callers : call[c].pc = "learn" /\ call[c].device \notin confused =>
       /\ standing[call[c].device] = None
       /\ \A o \in Callers \ {c} : call[o].pc = "learn" => call[o].device # call[c].device

(* Whoever is to put down the second half of a verdict alone is, and the    *)
(* first half stands; nobody is to once the device is settled.              *)
ContainsAlone ==
  \A c \in Callers : call[c].pc = "contain" =>
    /\ settled[call[c].device] = "unknown"
    /\ call[c].alone =>
         /\ \A o \in Callers \ {c} : call[o].pc = "contain" => call[o].device # call[c].device
         /\ call[c].device \in Rows => trust[call[c].device] = VerdictOf(call[c].verified)

===============================================================================
