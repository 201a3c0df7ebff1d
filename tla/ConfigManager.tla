---------------------------- MODULE ConfigManager ----------------------------
(***************************************************************************)
(* The configuration manager of internal/config/manager.go: blocks chained *)
(* per device by CreateConfigBlock, four-phase Deploy, and Rollback, which *)
(* is a new block with an old configuration, deployed.                     *)
(*                                                                         *)
(* Its repository, validators and deployment service are interfaces with   *)
(* no implementation in the tree.  The repository is taken to be the table *)
(* config_blocks of schema.sql; the others answer as the interfaces allow. *)
(*                                                                         *)
(* A block is identified by its position in the order of insertion, and so *)
(* is its hash, which covers the block's id and time; 0 is the nil hash.   *)
(***************************************************************************)
EXTENDS Integers, Sequences, FiniteSets

CONSTANTS
  Devices,
  Configs,      (* configuration payloads                                   *)
  Callers,      (* goroutines calling the manager                           *)
  None,         (* no device, no configuration, no caller                   *)
  MaxBlocks,    (* bound on blocks                                          *)
  MaxErrors,    (* bound on errors of the deployment service and of status  *)
                (* updates                                                  *)
  MaxCrashes,   (* bound on crashes of the process                          *)
  MaxDamage     (* bound on devices whose stored chain is damaged           *)

ASSUME NoneAssumption == None \notin Devices \union Configs \union Callers
ASSUME BoundsAssumption ==
  MaxBlocks \in Nat /\ MaxErrors \in Nat /\ MaxCrashes \in Nat /\ MaxDamage \in Nat

VARIABLES
  blocks,     (* config_blocks, in order of insertion                       *)
  op,         (* per caller: its call in progress                           *)
  pending,    (* pendingDeploys: per block, whose DeploymentState it holds  *)
  running,    (* per device: the block whose configuration it runs          *)
  committed,  (* history: blocks whose commit succeeded                     *)
  disturbed,  (* history: devices whose deployments overlapped or broke off *)
  tampered,   (* devices for which the repository's VerifyChain is false    *)
  errors,     (* errors so far                                              *)
  crashes     (* crashes so far                                             *)

vars == <<blocks, op, pending, running, committed, disturbed, tampered, errors, crashes>>

Statuses == {"pending", "applied", "failed", "rolled_back"}

(* Deploy's arguments: no verification checks; checks; checks together with *)
(* rollbackOnFailure.                                                       *)
Modes == {"unchecked", "checked", "revert"}

Block == [device : Devices, seq : Nat, prev : Nat, config : Configs,
          invalid : BOOLEAN, status : Statuses]

Deploying == {"prepare", "commit", "verify", "undo", "mark", "leave"}

Op == [pc     : {"idle", "latest", "store", "get"} \union Deploying,
       device : Devices \union {None},   (* the device                       *)
       config : Configs \union {None},   (* the configuration to store       *)
       target : Nat,    (* Rollback: the block it goes back to               *)
       latest : Nat,    (* CreateConfigBlock: latestBlock                    *)
       block  : Nat,    (* Deploy: the block                                 *)
       mode   : Modes,
       saved  : Nat,    (* what the device ran when it was prepared          *)
       mark   : Statuses]   (* the status to record                          *)

Idle == [pc |-> "idle", device |-> None, config |-> None, target |-> 0, latest |-> 0,
         block |-> 0, mode |-> "unchecked", saved |-> 0, mark |-> "pending"]

-------------------------------------------------------------------------------
Init ==
  /\ blocks = <<>>
  /\ op = [c \in Callers |-> Idle]
  /\ pending = [b \in 1 .. MaxBlocks |-> None]
  /\ running = [d \in Devices |-> 0]
  /\ committed = {}
  /\ disturbed = {}
  /\ tampered = {}
  /\ errors = 0
  /\ crashes = 0

End(c) == op' = [op EXCEPT ![c] = Idle]

-------------------------------------------------------------------------------
(* CreateConfigBlock, called directly or by Rollback                       *)

Create(c, d, config) ==
  /\ op[c].pc = "idle"
  /\ op' = [op EXCEPT ![c] = [Idle EXCEPT !.pc = "latest", !.device = d, !.config = config]]
  /\ UNCHANGED <<blocks, pending, running, committed, disturbed, tampered, errors, crashes>>

(* Rollback reads the target by its sequence number: the table has one      *)
(* block for it.                                                            *)
Rollback(c, t) ==
  /\ op[c].pc = "idle"
  /\ op' = [op EXCEPT ![c] = [Idle EXCEPT !.pc = "latest", !.device = blocks[t].device,
                                          !.config = blocks[t].config, !.target = t]]
  /\ UNCHANGED <<blocks, pending, running, committed, disturbed, tampered, errors, crashes>>

(* GetLatestBlock: the highest sequence number of the device, if any.       *)
IsLatest(d, b) ==
  LET own == {i \in DOMAIN blocks : blocks[i].device = d}
  IN  \/ own = {} /\ b = 0
      \/ b \in own /\ \A i \in own : blocks[i].seq <= blocks[b].seq

ReadLatest(c, b) ==
  /\ op[c].pc = "latest"
  /\ IsLatest(op[c].device, b)
  /\ op' = [op EXCEPT ![c] = [@ EXCEPT !.pc = "store", !.latest = b]]
  /\ UNCHANGED <<blocks, pending, running, committed, disturbed, tampered, errors, crashes>>

(* Bug: the hash is taken from the block before latest.                     *)
NewBlockMislinked(device, config, latest, invalid) ==
  [device |-> device, config |-> config, prev |-> latest - 1,
   seq |-> IF latest = 0 THEN 1 ELSE blocks[latest].seq + 1,
   invalid |-> invalid, status |-> "pending"]

(* NewConfigBlock: the block after latest; its validation recorded errors   *)
(* or not.                                                                  *)
NewBlock(device, config, latest, invalid) ==
  [device |-> device, config |-> config, prev |-> latest,
   seq |-> IF latest = 0 THEN 1 ELSE blocks[latest].seq + 1,
   invalid |-> invalid, status |-> "pending"]

(* Bug: Rollback deploys its target again.                                  *)
RedeployTarget(call) ==
  IF call.target = 0 THEN Idle
                     ELSE [Idle EXCEPT !.pc = "get", !.device = call.device,
                                       !.target = call.target, !.block = call.target]

(* The next step of a call whose block is stored: Rollback deploys it.      *)
AfterStore(call) ==
  IF call.target = 0 THEN Idle
                     ELSE [Idle EXCEPT !.pc = "get", !.device = call.device,
                                       !.target = call.target, !.block = Len(blocks) + 1]

(* Bug: the table has no UNIQUE (device_id, sequence).                      *)
StoreUnconstrained(c, invalid, lost) ==
  LET block == NewBlock(op[c].device, op[c].config, op[c].latest, invalid)
  IN  /\ op[c].pc = "store"
      /\ Len(blocks) < MaxBlocks
      /\ blocks' = Append(blocks, block)
      /\ op' = [op EXCEPT ![c] = IF lost THEN Idle ELSE AfterStore(op[c])]
      /\ UNCHANGED <<pending, running, committed, disturbed, tampered, errors, crashes>>

(* The validators have answered, with errors in the configuration or none;  *)
(* the block is signed and inserted if its number is still free.  The reply *)
(* of the insert may be lost.                                               *)
Store(c, invalid, lost) ==
  LET block == NewBlock(op[c].device, op[c].config, op[c].latest, invalid)
  IN  /\ op[c].pc = "store"
      /\ Len(blocks) < MaxBlocks
      /\ ~ \E i \in DOMAIN blocks : blocks[i].device = block.device /\ blocks[i].seq = block.seq
      /\ blocks' = Append(blocks, block)
      /\ op' = [op EXCEPT ![c] = IF lost THEN Idle ELSE AfterStore(op[c])]
      /\ UNCHANGED <<pending, running, committed, disturbed, tampered, errors, crashes>>

(* Bug: an insert that fails starts over with the latest block, always.     *)
AbandonRetries(c) ==
  /\ op[c].pc \in {"latest", "store", "get"}
  /\ op' = [op EXCEPT ![c] = IF @.pc = "store" THEN [@ EXCEPT !.pc = "latest", !.latest = 0]
                                               ELSE Idle]
  /\ UNCHANGED <<blocks, pending, running, committed, disturbed, tampered, errors, crashes>>

(* A call returns the error of a read, of a validator or of the insert, or, *)
(* at its Deploy, that the block is already deployed.                       *)
Abandon(c) ==
  /\ op[c].pc \in {"latest", "store", "get"}
  /\ End(c)
  /\ UNCHANGED <<blocks, pending, running, committed, disturbed, tampered, errors, crashes>>

-------------------------------------------------------------------------------
(* Deploy, called directly or by Rollback                                  *)

Busy(c, d) == \E x \in Callers \ {c} : op[x].pc \in Deploying /\ op[x].device = d

(* Bug: the validation phase is skipped.                                    *)
EnterUnvalidated(c, b, mode) ==
  /\ blocks[b].status # "applied"
  /\ op' = [op EXCEPT ![c] = [op[c] EXCEPT !.pc = "prepare", !.device = blocks[b].device,
                                           !.block = b, !.mode = mode]]
  /\ pending' = [pending EXCEPT ![b] = c]
  /\ disturbed' = IF Busy(c, blocks[b].device) THEN disturbed \union {blocks[b].device}
                                               ELSE disturbed
  /\ UNCHANGED <<blocks, running, committed, tampered, errors, crashes>>

(* GetBlock, the status check, the registration in pendingDeploys and the   *)
(* validation phase.  Nothing looks at the registration.                    *)
Enter(c, b, mode) ==
  /\ blocks[b].status # "applied"
  /\ op' = [op EXCEPT ![c] = [op[c] EXCEPT !.pc = IF blocks[b].invalid THEN "leave" ELSE "prepare",
                                           !.device = blocks[b].device, !.block = b, !.mode = mode]]
  /\ pending' = [pending EXCEPT ![b] = c]
  /\ disturbed' = IF Busy(c, blocks[b].device) THEN disturbed \union {blocks[b].device}
                                               ELSE disturbed
  /\ UNCHANGED <<blocks, running, committed, tampered, errors, crashes>>

Deploy(c, b, mode) == op[c].pc = "idle" /\ Enter(c, b, mode)

DeployRollback(c) == op[c].pc = "get" /\ Enter(c, op[c].block, "unchecked")

(* The call goes on to record the outcome.                                  *)
Record(call, outcome) ==
  [call EXCEPT !.pc = "mark", !.mark = outcome, !.mode = "unchecked", !.saved = 0]

Fails == errors < MaxErrors /\ errors' = errors + 1

(* Two-phase commit, first phase: the deployment service is ready to put    *)
(* back what the device runs.                                               *)
Prepare(c, ok) ==
  /\ op[c].pc = "prepare"
  /\ IF ok THEN /\ op' = [op EXCEPT ![c] = [@ EXCEPT !.pc = "commit", !.saved = running[op[c].device]]]
                /\ UNCHANGED errors
           ELSE /\ Fails
                /\ op' = [op EXCEPT ![c] = Record(@, "failed")]
  /\ UNCHANGED <<blocks, pending, running, committed, disturbed, tampered, crashes>>

(* Second phase.  A commit that reports an error may still have reached the *)
(* device; the service is not asked to roll back.                           *)
Commit(c, ok, landed) ==
  LET d == op[c].device
      b == op[c].block
  IN  /\ op[c].pc = "commit"
      /\ running' = IF ok \/ landed THEN [running EXCEPT ![d] = b] ELSE running
      /\ committed' = IF ok THEN committed \union {b} ELSE committed
      /\ IF ok
           THEN /\ op' = IF op[c].mode = "unchecked"
                           THEN [op EXCEPT ![c] = Record(@, "applied")]
                           ELSE [op EXCEPT ![c] = [@ EXCEPT !.pc = "verify"]]
                /\ UNCHANGED <<errors, disturbed>>
           ELSE /\ Fails
                /\ op' = [op EXCEPT ![c] = Record(@, "failed")]
                /\ disturbed' = IF landed THEN disturbed \union {d} ELSE disturbed
      /\ UNCHANGED <<blocks, pending, tampered, crashes>>

(* The checks, when there are any.  Failed checks without rollbackOnFailure *)
(* fall through to success.                                                 *)
Verify(c, ok) ==
  /\ op[c].pc = "verify"
  /\ op' = IF ~ok /\ op[c].mode = "revert" THEN [op EXCEPT ![c] = [@ EXCEPT !.pc = "undo"]]
                                           ELSE [op EXCEPT ![c] = Record(@, "applied")]
  /\ UNCHANGED <<blocks, pending, running, committed, disturbed, tampered, errors, crashes>>

(* Bug: the deployment service is not asked to roll back.                   *)
UndoNothing(c, ok) ==
  /\ op[c].pc = "undo"
  /\ ok
  /\ op' = [op EXCEPT ![c] = Record(@, "rolled_back")]
  /\ UNCHANGED <<blocks, pending, running, committed, disturbed, tampered, errors, crashes>>

(* The deployment service rolls back; an error is only logged.              *)
Undo(c, ok) ==
  LET d == op[c].device
  IN  /\ op[c].pc = "undo"
      /\ op' = [op EXCEPT ![c] = Record(@, "rolled_back")]
      /\ IF ok THEN /\ running' = [running EXCEPT ![d] = op[c].saved]
                    /\ UNCHANGED <<disturbed, errors>>
               ELSE /\ Fails
                    /\ disturbed' = disturbed \union {d}
                    /\ UNCHANGED running
      /\ UNCHANGED <<blocks, pending, committed, tampered, crashes>>

(* UpdateDeploymentStatus; its error is ignored.                            *)
Mark(c, ok) ==
  LET b == op[c].block
  IN  /\ op[c].pc = "mark"
      /\ op' = [op EXCEPT ![c] = [@ EXCEPT !.pc = "leave"]]
      /\ IF ok THEN /\ blocks' = [blocks EXCEPT ![b].status = op[c].mark]
                    /\ UNCHANGED <<disturbed, errors>>
               ELSE /\ Fails
                    /\ disturbed' = disturbed \union {op[c].device}
                    /\ UNCHANGED blocks
      /\ UNCHANGED <<pending, running, committed, tampered, crashes>>

(* Bug: only a deployment that got as far as a status clears its entry.     *)
LeaveEntry(c) ==
  /\ op[c].pc = "leave"
  /\ End(c)
  /\ pending' = IF op[c].mark = "pending" THEN pending ELSE [pending EXCEPT ![op[c].block] = None]
  /\ UNCHANGED <<blocks, running, committed, disturbed, tampered, errors, crashes>>

(* The deferred delete from pendingDeploys, and the return.                 *)
Leave(c) ==
  /\ op[c].pc = "leave"
  /\ End(c)
  /\ pending' = [pending EXCEPT ![op[c].block] = None]
  /\ UNCHANGED <<blocks, running, committed, disturbed, tampered, errors, crashes>>

-------------------------------------------------------------------------------
(* The process dies with its calls and its pendingDeploys.                  *)
Crash ==
  /\ crashes < MaxCrashes
  /\ crashes' = crashes + 1
  /\ op' = [c \in Callers |-> Idle]
  /\ pending' = [b \in 1 .. MaxBlocks |-> None]
  /\ disturbed' = disturbed \union {op[c].device : c \in {x \in Callers : op[x].pc \in Deploying}}
  /\ UNCHANGED <<blocks, running, committed, tampered, errors>>

(* A stored block of the device is altered behind the manager's back: its   *)
(* hash or signature no longer fits, and the repository's VerifyChain says  *)
(* so when it is asked.                                                     *)
Tamper(d) ==
  /\ \E i \in DOMAIN blocks : blocks[i].device = d
  /\ Cardinality(tampered) < MaxDamage
  /\ tampered' = tampered \union {d}
  /\ UNCHANGED <<blocks, op, pending, running, committed, disturbed, errors, crashes>>

-------------------------------------------------------------------------------
(* A call in progress takes its next step.                                  *)
Proceed(c) ==
  \/ \E b \in 0 .. MaxBlocks : ReadLatest(c, b)
  \/ \E invalid, lost \in BOOLEAN : Store(c, invalid, lost)
  \/ Abandon(c)
  \/ DeployRollback(c)
  \/ \E ok \in BOOLEAN : Prepare(c, ok) \/ Verify(c, ok) \/ Undo(c, ok) \/ Mark(c, ok)
  \/ \E ok, landed \in BOOLEAN : Commit(c, ok, landed)
  \/ Leave(c)

Next ==
  \/ \E c \in Callers, d \in Devices, config \in Configs : Create(c, d, config)
  \/ \E c \in Callers, t \in DOMAIN blocks : Rollback(c, t)
  \/ \E c \in Callers, b \in DOMAIN blocks, mode \in Modes : Deploy(c, b, mode)
  \/ \E c \in Callers : Proceed(c)
  \/ Crash
  \/ \E d \in Devices : Tamper(d)

(* Every call into an interface returns; nobody has to call the manager.    *)
Fairness == \A c \in Callers : WF_vars(Proceed(c))

Spec == Init /\ [][Next]_vars /\ Fairness

-------------------------------------------------------------------------------
(* Properties                                                              *)

TypeOK ==
  /\ blocks \in Seq(Block)
  /\ op \in [Callers -> Op]
  /\ pending \in [1 .. MaxBlocks -> Callers \union {None}]
  /\ running \in [Devices -> Nat]
  /\ committed \subseteq Nat
  /\ disturbed \subseteq Devices
  /\ tampered \subseteq Devices
  /\ errors \in Nat
  /\ crashes \in Nat

(* No two blocks of a device have the same number.                          *)
Unique ==
  \A i, j \in DOMAIN blocks :
    blocks[i].device = blocks[j].device /\ blocks[i].seq = blocks[j].seq => i = j

(* A block is the first of its device, or follows, by number and hash, an   *)
(* earlier block of the same device.                                        *)
Linked ==
  \A i \in DOMAIN blocks :
    LET prev == blocks[i].prev
    IN  IF prev = 0
          THEN blocks[i].seq = 1
          ELSE /\ prev \in 1 .. i - 1
               /\ blocks[prev].device = blocks[i].device
               /\ blocks[i].seq = blocks[prev].seq + 1

(* Each device has one chain, numbered without gaps, however the calls of   *)
(* CreateConfigBlock and Rollback interleave between reading the latest     *)
(* block and inserting the next, and wherever they stop.                    *)
ChainLinear == Unique /\ Linked

(* The history of each device as ConfigLedger sees it.                      *)
Sequences(d) == {blocks[i].seq : i \in {k \in DOMAIN blocks : blocks[k].device = d}}

Entry(d, n) ==
  LET at == {i \in DOMAIN blocks : blocks[i].device = d /\ blocks[i].seq = n}
      i  == CHOOSE i \in at : \A j \in at : j <= i
  IN  [config |-> blocks[i].config, status |-> blocks[i].status]

History == [d \in Devices |-> [n \in 1 .. Cardinality(Sequences(d)) |-> Entry(d, n)]]

Ledger == INSTANCE ConfigLedger WITH ledger <- History

(* The manager's blocks are, per device, such a ledger.                     *)
LedgerSpec == Ledger!Spec

(* A device runs blocks of its own, that passed validation, that the        *)
(* repository has, and "applied" is only ever said of a committed block.    *)
OnlyValidBlocksRun ==
  /\ \A d \in Devices :
       running[d] # 0 => /\ running[d] \in DOMAIN blocks
                         /\ blocks[running[d]].device = d
                         /\ ~blocks[running[d]].invalid
  /\ \A b \in DOMAIN blocks : blocks[b].status = "applied" => b \in committed

Quiet(d) == \A c \in Callers : op[c].pc \in Deploying => op[c].device # d

(* As long as the deployments of a device came one after the other, none    *)
(* broke off and no error was swallowed: between deployments the device     *)
(* runs a block recorded as applied, and one recorded as failed or rolled   *)
(* back does not run.                                                       *)
StatusTellsRunning ==
  \A d \in Devices \ disturbed :
    Quiet(d) /\ running[d] # 0 => blocks[running[d]].status = "applied"

(* Under the same conditions a Rollback that succeeds leaves the device     *)
(* with the configuration of its target.                                    *)
RollbackRestores ==
  \A c \in Callers :
    /\ op[c].pc = "leave" /\ op[c].target # 0 /\ op[c].mark = "applied"
    /\ op[c].device \notin disturbed
    => /\ running[op[c].device] = op[c].block
       /\ blocks[op[c].block].config = blocks[op[c].target].config
       /\ blocks[op[c].block].seq > blocks[op[c].target].seq

(* pendingDeploys never keeps an entry whose deployment is over, and a      *)
(* deployment of a block of an undisturbed device can be found there.       *)
PendingMatchesDeploys ==
  /\ \A b \in 1 .. MaxBlocks :
       pending[b] # None => op[pending[b]].pc \in Deploying /\ op[pending[b]].block = b
  /\ \A c \in Callers :
       op[c].pc \in Deploying /\ op[c].device \notin disturbed => pending[op[c].block] = c

(* Every call of the manager returns, or dies with the process.             *)
CallsEnd == \A c \in Callers : op[c].pc # "idle" ~> op[c].pc = "idle"

(* A deployment whose commit failed leaves nothing on the device.           *)
FailedNeverRuns ==
  \A d \in Devices :
    Quiet(d) /\ running[d] # 0 /\ crashes = 0 => blocks[running[d]].status # "failed"

-------------------------------------------------------------------------------
(* The inductive invariant behind the proofs                               *)

(* The block can be told to run on the device.                              *)
Runnable(d, b) == b \in DOMAIN blocks /\ blocks[b].device = d /\ ~blocks[b].invalid

(* What a call holds fits what is stored.                                   *)
Fits(call) ==
  /\ call.pc # "idle" => call.device \in Devices
  /\ call.pc \in {"latest", "store"} => call.config \in Configs
  /\ call.pc = "store" /\ call.latest # 0
       => call.latest \in DOMAIN blocks /\ blocks[call.latest].device = call.device
  /\ call.pc \in Deploying \union {"get"} => call.block \in DOMAIN blocks
  /\ call.pc \in Deploying => blocks[call.block].device = call.device
  /\ call.pc \in Deploying \ {"leave"} => ~blocks[call.block].invalid
  /\ call.pc \in {"verify", "undo"} \/ (call.pc = "mark" /\ call.mark = "applied")
       => call.block \in committed
  /\ call.saved # 0 => call.pc \in Deploying /\ Runnable(call.device, call.saved)

CallsFit == \A c \in Callers : Fits(op[c])

(* A Rollback goes back to a block of its device, stores its configuration  *)
(* under a later number, and deploys what it stored.                        *)
RollbackFits(call) ==
  /\ call.pc = "idle" => call.target = 0
  /\ call.target # 0 => call.target \in DOMAIN blocks
  /\ call.target # 0 /\ call.pc \in {"latest", "store"}
       => /\ blocks[call.target].device = call.device
          /\ blocks[call.target].config = call.config
  /\ call.target # 0 /\ call.pc = "store"
       => call.latest # 0 /\ blocks[call.target].seq <= blocks[call.latest].seq
  /\ call.target # 0 /\ call.pc \in Deploying \union {"get"}
       => /\ blocks[call.block].config = blocks[call.target].config
          /\ blocks[call.block].seq > blocks[call.target].seq

RollbacksFit == \A c \in Callers : RollbackFits(op[c])

Settled(d) == running[d] # 0 => blocks[running[d]].status = "applied"

(* How far a deployment that nothing disturbed has brought its device: up   *)
(* to the commit it runs what it ran, recorded as applied; then the block,  *)
(* not yet recorded so; and what is put back was recorded as applied.       *)
DeployFits(call) ==
  /\ call.pc \in {"prepare", "commit"} \/ (call.pc = "mark" /\ call.mark # "applied")
       => Settled(call.device) /\ blocks[call.block].status # "applied"
  /\ call.pc = "commit" => call.saved = running[call.device]
  /\ call.pc \in {"verify", "undo"}
       => /\ running[call.device] = call.block
          /\ blocks[call.block].status # "applied"
          /\ call.saved # 0 => blocks[call.saved].status = "applied"
  /\ call.pc = "leave" => Settled(call.device)
  /\ call.pc \in {"mark", "leave"} /\ call.mark = "applied" => running[call.device] = call.block

DeploysFit ==
  \A c \in Callers :
    op[c].pc \in Deploying /\ op[c].device \notin disturbed => DeployFits(op[c])

(* The mark of a call that has none to record yet.                          *)
MarksFit ==
  \A c \in Callers :
    /\ op[c].pc \notin Deploying => op[c].mark = "pending"
    /\ op[c].pc = "mark" => op[c].mark # "pending"

(* An undisturbed device has at most one deployment.                        *)
OneDeploys ==
  \A c, x \in Callers :
    /\ op[c].pc \in Deploying /\ op[x].pc \in Deploying
    /\ op[c].device = op[x].device /\ op[c].device \notin disturbed
    => c = x

(* The numbers of a device's blocks have no gap.                            *)
NoGaps == \A d \in Devices : \E n \in Nat : Sequences(d) = 1 .. n
==============================================================================
