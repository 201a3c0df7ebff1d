------------------------- MODULE ConfigManagerProofs -------------------------
(***************************************************************************)
(* Proofs about the configuration manager: what its blocks, its            *)
(* deployments and its callers keep to, and that the blocks implement the  *)
(* ledger of ConfigLedger.                                                 *)
(***************************************************************************)
EXTENDS ConfigManager, SequenceTheorems, FiniteSetTheorems, TLAPS

-----------------------------------------------------------------------------
(* Blocks: every step keeps them, but for their status, and may add some    *)

Grown ==
  /\ blocks' \in Seq(Block)
  /\ Len(blocks) <= Len(blocks')
  /\ \A i \in 1 .. Len(blocks) : /\ blocks'[i].device = blocks[i].device
                                 /\ blocks'[i].seq = blocks[i].seq
                                 /\ blocks'[i].prev = blocks[i].prev
                                 /\ blocks'[i].config = blocks[i].config
                                 /\ blocks'[i].invalid = blocks[i].invalid
  /\ committed \subseteq committed'

LEMMA BlockType ==
  ASSUME blocks \in Seq(Block)
  PROVE  /\ Len(blocks) \in Nat
         /\ DOMAIN blocks = 1 .. Len(blocks)
         /\ \A b \in DOMAIN blocks : /\ blocks[b] \in Block
                                     /\ blocks[b].device \in Devices
                                     /\ blocks[b].seq \in Nat
                                     /\ blocks[b].prev \in Nat
                                     /\ blocks[b].config \in Configs
                                     /\ blocks[b].invalid \in BOOLEAN
                                     /\ blocks[b].status \in Statuses
<1>1. Len(blocks) \in Nat /\ DOMAIN blocks = 1 .. Len(blocks)
  BY LenProperties
<1>2. \A b \in DOMAIN blocks : blocks[b] \in Block
  BY <1>1, ElementOfSeq
<1> QED
  BY <1>1, <1>2 DEF Block

LEMMA SameBlocks ==
  ASSUME blocks \in Seq(Block), UNCHANGED blocks, committed \subseteq committed'
  PROVE  Grown
BY BlockType DEF Grown

(* The block CreateConfigBlock stores.                                      *)
LEMMA NewBlockType ==
  ASSUME TypeOK, CallsFit, NEW c \in Callers, op[c].pc = "store", NEW invalid \in BOOLEAN
  PROVE  NewBlock(op[c].device, op[c].config, op[c].latest, invalid) \in Block
<1> DEFINE call == op[c]
<1>1. call.device \in Devices /\ call.config \in Configs /\ call.latest \in Nat
  BY DEF CallsFit, Fits, TypeOK, Op
<1>2. call.latest # 0 => call.latest \in DOMAIN blocks
  BY DEF CallsFit, Fits
<1>3. call.latest # 0 => blocks[call.latest].seq + 1 \in Nat
  BY <1>2, BlockType DEF TypeOK
<1> QED
  BY <1>1, <1>3 DEF NewBlock, Block, Statuses

LEMMA StoreGrows ==
  ASSUME TypeOK, CallsFit, NEW c \in Callers, NEW invalid \in BOOLEAN, NEW lost \in BOOLEAN,
         Store(c, invalid, lost)
  PROVE  /\ Grown
         /\ Len(blocks') = Len(blocks) + 1
         /\ blocks'[Len(blocks) + 1] = NewBlock(op[c].device, op[c].config, op[c].latest, invalid)
         /\ UNCHANGED committed
<1> DEFINE block == NewBlock(op[c].device, op[c].config, op[c].latest, invalid)
<1>1. block \in Block
  BY NewBlockType DEF Store
<1>2. blocks \in Seq(Block) /\ blocks' = Append(blocks, block) /\ UNCHANGED committed
  BY DEF TypeOK, Store
<1> HIDE DEF block
<1>3. /\ blocks' \in Seq(Block)
      /\ Len(blocks') = Len(blocks) + 1
      /\ \A i \in 1 .. Len(blocks) : blocks'[i] = blocks[i]
      /\ blocks'[Len(blocks) + 1] = block
  BY <1>1, <1>2, AppendProperties
<1>4. Grown
  BY <1>2, <1>3, LenProperties DEF Grown
<1> QED
  BY <1>2, <1>3, <1>4 DEF block

LEMMA MarkGrows ==
  ASSUME TypeOK, CallsFit, NEW c \in Callers, NEW ok \in BOOLEAN, Mark(c, ok)
  PROVE  /\ Grown
         /\ Len(blocks') = Len(blocks)
         /\ \A b \in DOMAIN blocks :
              blocks'[b].status \in {blocks[b].status} \union
                                    (IF b = op[c].block THEN {op[c].mark} ELSE {})
<1>0. blocks \in Seq(Block) /\ UNCHANGED committed
  BY DEF TypeOK, Mark
<1>1. CASE ~ok
  BY <1>0, <1>1, SameBlocks DEF Mark
<1>2. CASE ok
  <2> DEFINE b   == op[c].block
             new == [blocks[b] EXCEPT !.status = op[c].mark]
  <2>1. b \in DOMAIN blocks
    BY DEF CallsFit, Fits, Mark, Deploying
  <2>2. op[c].mark \in Statuses
    BY DEF TypeOK, Op
  <2>3. blocks[b] \in Block
    BY <1>0, <2>1, BlockType
  <2>4. new \in Block
    BY <2>2, <2>3 DEF Block
  <2>5. blocks' = [blocks EXCEPT ![b] = new]
    BY <1>2 DEF Mark
  <2>6. b \in 1 .. Len(blocks) /\ DOMAIN blocks = 1 .. Len(blocks)
    BY <1>0, <2>1, BlockType
  <2>7. /\ blocks' \in Seq(Block)
        /\ Len(blocks') = Len(blocks)
        /\ \A j \in 1 .. Len(blocks) : blocks'[j] = IF j = b THEN new ELSE blocks[j]
    <3> HIDE DEF b, new
    <3> QED
      BY <1>0, <2>4, <2>5, <2>6, ExceptSeq
  <2>8. /\ new.device = blocks[b].device /\ new.seq = blocks[b].seq
        /\ new.prev = blocks[b].prev /\ new.config = blocks[b].config
        /\ new.invalid = blocks[b].invalid /\ new.status = op[c].mark
    BY <2>3 DEF Block
  <2> HIDE DEF new
  <2>9. Grown
    BY <1>0, <2>7, <2>8, BlockType DEF Grown
  <2> QED
    BY <2>6, <2>7, <2>8, <2>9
<1> QED
  BY <1>1, <1>2

(* A step with either of these effects is one of the two actions.           *)
LEMMA Grows ==
  ASSUME TypeOK, CallsFit, [Next]_vars
  PROVE  Grown
<1>0. blocks \in Seq(Block)
  BY DEF TypeOK
<1>1. ASSUME UNCHANGED blocks, committed \subseteq committed' PROVE Grown
  BY <1>0, <1>1, SameBlocks
<1>2. ASSUME NEW c \in Callers, NEW d \in Devices, NEW config \in Configs, Create(c, d, config)
      PROVE Grown
  BY <1>1, <1>2 DEF Create
<1>3. ASSUME NEW c \in Callers, NEW t \in DOMAIN blocks, Rollback(c, t) PROVE Grown
  BY <1>1, <1>3 DEF Rollback
<1>4. ASSUME NEW c \in Callers, NEW b \in DOMAIN blocks, NEW mode \in Modes, Deploy(c, b, mode)
      PROVE Grown
  BY <1>1, <1>4 DEF Deploy, Enter
<1>5. ASSUME NEW c \in Callers, Proceed(c) PROVE Grown
  <2>1. ASSUME NEW b \in 0 .. MaxBlocks, ReadLatest(c, b) PROVE Grown
    BY <1>1, <2>1 DEF ReadLatest
  <2>2. ASSUME NEW invalid \in BOOLEAN, NEW lost \in BOOLEAN, Store(c, invalid, lost) PROVE Grown
    BY <1>5, <2>2, StoreGrows
  <2>3. ASSUME Abandon(c) \/ Leave(c) PROVE Grown
    BY <1>1, <2>3 DEF Abandon, Leave
  <2>4. ASSUME DeployRollback(c) PROVE Grown
    BY <1>1, <2>4 DEF DeployRollback, Enter
  <2>5. ASSUME NEW ok \in BOOLEAN, Prepare(c, ok) \/ Verify(c, ok) \/ Undo(c, ok) PROVE Grown
    BY <1>1, <2>5 DEF Prepare, Verify, Undo
  <2>6. ASSUME NEW ok \in BOOLEAN, Mark(c, ok) PROVE Grown
    BY <1>5, <2>6, MarkGrows
  <2>7. ASSUME NEW ok \in BOOLEAN, NEW landed \in BOOLEAN, Commit(c, ok, landed) PROVE Grown
    BY <1>1, <2>7 DEF Commit
  <2> QED
    BY <1>5, <2>1, <2>2, <2>3, <2>4, <2>5, <2>6, <2>7 DEF Proceed
<1>6. ASSUME Crash \/ \E d \in Devices : Tamper(d) PROVE Grown
  BY <1>1, <1>6 DEF Crash, Tamper
<1>7. CASE UNCHANGED vars
  BY <1>1, <1>7 DEF vars
<1> QED
  BY <1>2, <1>3, <1>4, <1>5, <1>6, <1>7 DEF Next

-----------------------------------------------------------------------------
(* Calls: a step changes one call into one that fits the blocks             *)

LEMMA IdleFits == Idle \in Op /\ Fits(Idle) /\ Fits(Idle)'
BY DEF Idle, Op, Fits, Deploying, Modes, Statuses

(* A call that fits goes on fitting as blocks grow.                         *)
LEMMA Stays ==
  ASSUME TypeOK, Grown, NEW call \in Op, Fits(call)
  PROVE  Fits(call)'
<1>1. blocks \in Seq(Block) /\ blocks' \in Seq(Block)
  BY DEF TypeOK, Grown
<1>2. DOMAIN blocks = 1 .. Len(blocks) /\ DOMAIN blocks' = 1 .. Len(blocks')
      /\ Len(blocks) \in Nat /\ Len(blocks') \in Nat
  BY <1>1, LenProperties
<1>3. Len(blocks) <= Len(blocks') /\ committed \subseteq committed'
  BY DEF Grown
<1>4. DOMAIN blocks \subseteq DOMAIN blocks'
  BY <1>2, <1>3
<1>5. \A b \in DOMAIN blocks : /\ blocks'[b].device = blocks[b].device
                              /\ blocks'[b].invalid = blocks[b].invalid
  BY <1>2 DEF Grown
<1>6. ASSUME call.saved # 0 PROVE Runnable(call.device, call.saved)'
  BY <1>4, <1>5, <1>6 DEF Fits, Runnable
<1> QED
  BY <1>3, <1>4, <1>5, <1>6 DEF Fits, Deploying

(* The call changes to another, or stays as it is with all the others.      *)
Moves(c) ==
  \E call \in Op : op' = [op EXCEPT ![c] = call] /\ (Fits(call) \/ Fits(call)')

LEMMA Ends ==
  ASSUME NEW c \in Callers, End(c)
  PROVE  Moves(c)
BY IdleFits DEF End, Moves

LEMMA CreateMoves ==
  ASSUME NEW c \in Callers, NEW d \in Devices, NEW config \in Configs, Create(c, d, config)
  PROVE  Moves(c)
<1> DEFINE call == [Idle EXCEPT !.pc = "latest", !.device = d, !.config = config]
<1>1. call \in Op
  BY IdleFits DEF Op
<1>2. Fits(call)
  BY DEF Idle, Fits, Deploying
<1> QED
  BY <1>1, <1>2 DEF Create, Moves

LEMMA RollbackMoves ==
  ASSUME TypeOK, NEW c \in Callers, NEW t \in DOMAIN blocks, Rollback(c, t)
  PROVE  Moves(c)
<1> DEFINE call == [Idle EXCEPT !.pc = "latest", !.device = blocks[t].device,
                                !.config = blocks[t].config, !.target = t]
<1>1. blocks[t].device \in Devices /\ blocks[t].config \in Configs /\ t \in Nat
  BY BlockType DEF TypeOK
<1>2. call \in Op
  BY <1>1, IdleFits DEF Op
<1>3. Fits(call)
  BY <1>1 DEF Idle, Fits, Deploying
<1> QED
  BY <1>2, <1>3 DEF Rollback, Moves

LEMMA ReadLatestMoves ==
  ASSUME TypeOK, CallsFit, NEW c \in Callers, NEW b \in Nat, ReadLatest(c, b)
  PROVE  Moves(c)
<1> DEFINE call == [op[c] EXCEPT !.pc = "store", !.latest = b]
<1>1. op[c] \in Op /\ op[c].pc = "latest" /\ Fits(op[c])
  BY DEF TypeOK, CallsFit, ReadLatest
<1>2. call \in Op
  BY <1>1 DEF Op
<1>3. b # 0 => b \in DOMAIN blocks /\ blocks[b].device = op[c].device
  BY DEF ReadLatest, IsLatest
<1>4. /\ call.pc = "store" /\ call.latest = b /\ call.device = op[c].device
      /\ call.config = op[c].config /\ call.saved = op[c].saved
  BY <1>1 DEF Op
<1>5. Fits(call)
  BY <1>1, <1>3, <1>4 DEF Fits, Deploying
<1> QED
  BY <1>2, <1>5 DEF ReadLatest, Moves

LEMMA StoreMoves ==
  ASSUME TypeOK, CallsFit, NEW c \in Callers, NEW invalid \in BOOLEAN, NEW lost \in BOOLEAN,
         Store(c, invalid, lost)
  PROVE  Moves(c)
<1> DEFINE n    == Len(blocks) + 1
           next == [Idle EXCEPT !.pc = "get", !.device = op[c].device,
                                !.target = op[c].target, !.block = n]
<1>1. op[c] \in Op /\ op[c].device \in Devices
  BY DEF TypeOK, CallsFit, Fits, Store
<1>2. n \in Nat /\ n \in DOMAIN blocks'
  <2>1. blocks' \in Seq(Block) /\ Len(blocks') = n
    BY StoreGrows DEF Grown
  <2>2. Len(blocks) \in Nat
    BY BlockType DEF TypeOK
  <2> QED
    BY <2>1, <2>2, LenProperties
<1>3. next \in Op
  <2>1. op[c].target \in Nat
    BY <1>1 DEF Op
  <2> HIDE DEF n
  <2> QED
    BY <1>1, <1>2, <2>1, IdleFits DEF Op
<1>4. \E call \in Op : call = next /\ Fits(call)'
  <2>1. PICK call \in Op : call = next
    BY <1>3
  <2>2. call.pc = "get" /\ call.device \in Devices /\ call.block = n /\ call.saved = 0
    BY <1>1, <2>1 DEF Idle
  <2> HIDE DEF next, n
  <2>3. Fits(call)'
    BY <1>2, <2>2 DEF Fits, Deploying
  <2> QED
    BY <2>1, <2>3
<1>5. op' = [op EXCEPT ![c] = Idle] \/ op' = [op EXCEPT ![c] = next]
  BY DEF Store, AfterStore
<1> HIDE DEF next
<1> QED
  BY <1>4, <1>5, IdleFits DEF Moves

LEMMA EnterMoves ==
  ASSUME TypeOK, CallsFit, NEW c \in Callers, op[c].pc \in {"idle", "get"},
         NEW b \in DOMAIN blocks, NEW mode \in Modes, Enter(c, b, mode)
  PROVE  Moves(c)
<1> DEFINE next == IF blocks[b].invalid THEN "leave" ELSE "prepare"
           call == [op[c] EXCEPT !.pc = next, !.device = blocks[b].device,
                                 !.block = b, !.mode = mode]
<1>1. op[c] \in Op /\ Fits(op[c])
  BY DEF TypeOK, CallsFit
<1>2. blocks[b].device \in Devices /\ b \in Nat
  BY BlockType DEF TypeOK
<1>3. op[c].saved = 0
  BY <1>1 DEF Fits, Deploying
<1>4. call \in Op
  BY <1>1, <1>2 DEF Op, Deploying
<1>5. /\ call.pc = next /\ call.device = blocks[b].device /\ call.block = b
      /\ call.saved = op[c].saved
  BY <1>1 DEF Op
<1>6. Fits(call)
  BY <1>2, <1>3, <1>5 DEF Fits, Deploying
<1> QED
  BY <1>4, <1>6 DEF Enter, Moves

(* A call that goes on to record the outcome.                               *)
LEMMA RecordFits ==
  ASSUME TypeOK, NEW call \in Op, NEW outcome \in Statuses,
         call.pc \in Deploying \ {"leave"}, Fits(call),
         outcome = "applied" => call.block \in committed'
  PROVE  /\ Record(call, outcome) \in Op
         /\ Grown => Fits(Record(call, outcome))'
<1> DEFINE next == Record(call, outcome)
<1>1. next \in Op
  BY DEF Record, Op, Deploying, Modes
<1>2. /\ next.pc = "mark" /\ next.device = call.device /\ next.block = call.block
      /\ next.mark = outcome /\ next.saved = 0
  BY DEF Record, Op
<1>3. ASSUME Grown PROVE Fits(next)'
  <2>1. Fits(call)'
    BY <1>3, Stays
  <2> HIDE DEF next
  <2> QED
    BY <1>2, <2>1 DEF Fits, Deploying
<1> QED
  BY <1>1, <1>3

LEMMA RecordMoves ==
  ASSUME TypeOK, Grown, NEW c \in Callers, NEW outcome \in Statuses, op[c] \in Op, Fits(op[c]),
         op[c].pc \in Deploying \ {"leave"},
         outcome = "applied" => op[c].block \in committed',
         op' = [op EXCEPT ![c] = Record(op[c], outcome)]
  PROVE  Moves(c)
<1>1. PICK call \in Op : call = op[c]
  OBVIOUS
<1>2. Record(call, outcome) \in Op /\ Fits(Record(call, outcome))'
  BY <1>1, RecordFits
<1> QED
  BY <1>1, <1>2 DEF Moves

LEMMA PrepareMoves ==
  ASSUME TypeOK, CallsFit, OnlyValidBlocksRun, NEW c \in Callers, NEW ok \in BOOLEAN,
         Prepare(c, ok)
  PROVE  Moves(c)
<1> DEFINE call == [op[c] EXCEPT !.pc = "commit", !.saved = running[op[c].device]]
<1>1. op[c] \in Op /\ Fits(op[c]) /\ op[c].pc = "prepare" /\ op[c].device \in Devices
  BY DEF TypeOK, CallsFit, Fits, Prepare
<1>2. CASE ok
  <2>1. running[op[c].device] \in Nat
    BY <1>1 DEF TypeOK
  <2>2. call \in Op
    BY <1>1, <2>1 DEF Op, Deploying
  <2>3. /\ call.pc = "commit" /\ call.device = op[c].device /\ call.block = op[c].block
        /\ call.saved = running[op[c].device]
    BY <1>1 DEF Op
  <2>4. call.saved # 0 => Runnable(call.device, call.saved)
    BY <1>1, <2>3 DEF OnlyValidBlocksRun, Runnable
  <2>5. Fits(call)
    <3> HIDE DEF call
    <3> QED
      BY <1>1, <2>3, <2>4 DEF Fits, Deploying
  <2>6. op' = [op EXCEPT ![c] = call]
    BY <1>2 DEF Prepare
  <2> HIDE DEF call
  <2> QED
    BY <2>2, <2>5, <2>6 DEF Moves
<1>3. CASE ~ok
  <2>1. Grown
    BY SameBlocks DEF TypeOK, Prepare
  <2>2. op' = [op EXCEPT ![c] = Record(op[c], "failed")]
    BY <1>3 DEF Prepare
  <2> QED
    BY <1>1, <2>1, <2>2, RecordMoves DEF Deploying, Statuses
<1> QED
  BY <1>2, <1>3

LEMMA CommitMoves ==
  ASSUME TypeOK, CallsFit, NEW c \in Callers, NEW ok \in BOOLEAN, NEW landed \in BOOLEAN,
         Commit(c, ok, landed)
  PROVE  Moves(c)
<1> DEFINE call == [op[c] EXCEPT !.pc = "verify"]
<1>1. op[c] \in Op /\ Fits(op[c]) /\ op[c].pc = "commit"
  BY DEF TypeOK, CallsFit, Commit
<1>2. Grown
  BY SameBlocks DEF TypeOK, Commit
<1>3. ok => op[c].block \in committed'
  BY DEF Commit
<1>4. CASE op' = [op EXCEPT ![c] = call] /\ ok
  <2>1. call \in Op
    BY <1>1 DEF Op, Deploying
  <2>2. \E next \in Op : next = call /\ Fits(next)'
    <3>1. PICK next \in Op : next = call
      BY <2>1
    <3>2. /\ next.pc = "verify" /\ next.device = op[c].device /\ next.block = op[c].block
          /\ next.saved = op[c].saved
      BY <1>1, <3>1 DEF Op
    <3>3. PICK old \in Op : old = op[c]
      BY <1>1
    <3>4. Fits(old)'
      BY <1>1, <1>2, <3>3, Stays
    <3>5. Fits(next)'
      <4> HIDE DEF call
      <4> QED
        BY <1>1, <1>3, <1>4, <3>2, <3>3, <3>4 DEF Fits, Deploying
    <3> QED
      BY <3>1, <3>5
  <2> HIDE DEF call
  <2> QED
    BY <1>4, <2>2 DEF Moves
<1>5. CASE op' = [op EXCEPT ![c] = Record(op[c], "applied")] /\ ok
  BY <1>1, <1>2, <1>3, <1>5, RecordMoves DEF Deploying, Statuses
<1>6. CASE op' = [op EXCEPT ![c] = Record(op[c], "failed")]
  BY <1>1, <1>2, <1>6, RecordMoves DEF Deploying, Statuses
<1> QED
  BY <1>4, <1>5, <1>6 DEF Commit

LEMMA VerifyMoves ==
  ASSUME TypeOK, CallsFit, NEW c \in Callers, NEW ok \in BOOLEAN, Verify(c, ok)
  PROVE  Moves(c)
<1> DEFINE call == [op[c] EXCEPT !.pc = "undo"]
<1>1. op[c] \in Op /\ Fits(op[c]) /\ op[c].pc = "verify"
  BY DEF TypeOK, CallsFit, Verify
<1>2. CASE op' = [op EXCEPT ![c] = call]
  <2>1. call \in Op
    BY <1>1 DEF Op, Deploying
  <2>2. /\ call.pc = "undo" /\ call.device = op[c].device /\ call.block = op[c].block
        /\ call.saved = op[c].saved
    BY <1>1 DEF Op
  <2>3. Fits(call)
    <3> HIDE DEF call
    <3> QED
      BY <1>1, <2>2 DEF Fits, Deploying
  <2> QED
    BY <1>2, <2>1, <2>3 DEF Moves
<1>3. CASE op' = [op EXCEPT ![c] = Record(op[c], "applied")]
  <2>1. op[c].block \in committed'
    BY <1>1 DEF Fits, Verify
  <2>2. Grown
    BY SameBlocks DEF TypeOK, Verify
  <2> QED
    BY <1>1, <1>3, <2>1, <2>2, RecordMoves DEF Deploying, Statuses
<1> QED
  BY <1>2, <1>3 DEF Verify

LEMMA UndoMoves ==
  ASSUME TypeOK, CallsFit, NEW c \in Callers, NEW ok \in BOOLEAN, Undo(c, ok)
  PROVE  Moves(c)
<1>1. op[c] \in Op /\ Fits(op[c]) /\ op[c].pc = "undo"
  BY DEF TypeOK, CallsFit, Undo
<1>2. Grown
  BY SameBlocks DEF TypeOK, Undo
<1>3. op' = [op EXCEPT ![c] = Record(op[c], "rolled_back")]
  BY DEF Undo
<1> QED
  BY <1>1, <1>2, <1>3, RecordMoves DEF Deploying, Statuses

LEMMA MarkMoves ==
  ASSUME TypeOK, CallsFit, NEW c \in Callers, NEW ok \in BOOLEAN, Mark(c, ok)
  PROVE  Moves(c)
<1> DEFINE call == [op[c] EXCEPT !.pc = "leave"]
<1>1. op[c] \in Op /\ Fits(op[c]) /\ op[c].pc = "mark"
  BY DEF TypeOK, CallsFit, Mark
<1>2. call \in Op
  BY <1>1 DEF Op, Deploying
<1>3. /\ call.pc = "leave" /\ call.device = op[c].device /\ call.block = op[c].block
      /\ call.saved = op[c].saved
  BY <1>1 DEF Op
<1>4. Fits(call)
  <2> HIDE DEF call
  <2> QED
    BY <1>1, <1>3 DEF Fits, Deploying
<1> QED
  BY <1>2, <1>4 DEF Mark, Moves

(* A step changes at most one call, or ends them all.                       *)
LEMMA StepMoves ==
  ASSUME TypeOK, CallsFit, OnlyValidBlocksRun, [Next]_vars
  PROVE  UNCHANGED op \/ op' = [c \in Callers |-> Idle] \/ \E c \in Callers : Moves(c)
<1>1. ASSUME NEW c \in Callers, NEW d \in Devices, NEW config \in Configs, Create(c, d, config)
      PROVE Moves(c)
  BY <1>1, CreateMoves
<1>2. ASSUME NEW c \in Callers, NEW t \in DOMAIN blocks, Rollback(c, t) PROVE Moves(c)
  BY <1>2, RollbackMoves
<1>3. ASSUME NEW c \in Callers, NEW b \in DOMAIN blocks, NEW mode \in Modes, Deploy(c, b, mode)
      PROVE Moves(c)
  BY <1>3, EnterMoves DEF Deploy
<1>4. ASSUME NEW c \in Callers, Proceed(c) PROVE Moves(c)
  <2>1. ASSUME NEW b \in 0 .. MaxBlocks, ReadLatest(c, b) PROVE Moves(c)
    BY <1>4, <2>1, ReadLatestMoves, BoundsAssumption
  <2>2. ASSUME NEW invalid \in BOOLEAN, NEW lost \in BOOLEAN, Store(c, invalid, lost)
        PROVE Moves(c)
    BY <1>4, <2>2, StoreMoves
  <2>3. ASSUME Abandon(c) \/ Leave(c) PROVE Moves(c)
    BY <1>4, <2>3, Ends DEF Abandon, Leave
  <2>4. ASSUME DeployRollback(c) PROVE Moves(c)
    <3>1. op[c].block \in DOMAIN blocks /\ "unchecked" \in Modes
      BY <1>4, <2>4 DEF CallsFit, Fits, DeployRollback, Modes
    <3> QED
      BY <1>4, <2>4, <3>1, EnterMoves DEF DeployRollback
  <2>5. ASSUME NEW ok \in BOOLEAN, Prepare(c, ok) \/ Verify(c, ok) \/ Undo(c, ok) \/ Mark(c, ok)
        PROVE Moves(c)
    BY <1>4, <2>5, PrepareMoves, VerifyMoves, UndoMoves, MarkMoves
  <2>6. ASSUME NEW ok \in BOOLEAN, NEW landed \in BOOLEAN, Commit(c, ok, landed) PROVE Moves(c)
    BY <1>4, <2>6, CommitMoves
  <2> QED
    BY <1>4, <2>1, <2>2, <2>3, <2>4, <2>5, <2>6 DEF Proceed
<1>5. CASE Crash
  BY <1>5 DEF Crash
<1>6. CASE \E d \in Devices : Tamper(d)
  BY <1>6 DEF Tamper
<1>7. CASE UNCHANGED vars
  BY <1>7 DEF vars
<1> QED
  BY <1>1, <1>2, <1>3, <1>4, <1>5, <1>6, <1>7 DEF Next

LEMMA CallsStep ==
  ASSUME TypeOK, CallsFit, OnlyValidBlocksRun, [Next]_vars
  PROVE  op' \in [Callers -> Op] /\ CallsFit'
<1>0. op \in [Callers -> Op] /\ Grown
  BY Grows DEF TypeOK
<1>1. ASSUME NEW call \in Op, Fits(call) PROVE Fits(call)'
  BY <1>0, <1>1, Stays
<1>2. \A x \in Callers : op[x] \in Op /\ Fits(op[x])
  BY <1>0 DEF CallsFit
<1>3. CASE UNCHANGED op
  <2>1. \A x \in Callers : \E call \in Op : op'[x] = call /\ Fits(call)'
    BY <1>1, <1>2, <1>3
  <2> QED
    BY <1>0, <1>3, <2>1 DEF CallsFit
<1>4. CASE op' = [c \in Callers |-> Idle]
  BY <1>4, IdleFits DEF CallsFit
<1>5. ASSUME NEW c \in Callers, Moves(c) PROVE op' \in [Callers -> Op] /\ CallsFit'
  <2>1. PICK call \in Op : op' = [op EXCEPT ![c] = call] /\ (Fits(call) \/ Fits(call)')
    BY <1>5 DEF Moves
  <2>2. \A x \in Callers : op'[x] = IF x = c THEN call ELSE op[x]
    BY <1>0, <2>1
  <2>3. \A x \in Callers : \E old \in Op : op'[x] = old /\ Fits(old)'
    BY <1>1, <1>2, <2>1, <2>2
  <2> QED
    BY <1>0, <2>1, <2>3 DEF CallsFit
<1> QED
  BY <1>3, <1>4, <1>5, StepMoves

-----------------------------------------------------------------------------
(* The other variables                                                      *)

LEMMA TypeStep ==
  ASSUME TypeOK, CallsFit, OnlyValidBlocksRun, [Next]_vars
  PROVE  TypeOK'
<1> DEFINE Rest == /\ pending \in [1 .. MaxBlocks -> Callers \union {None}]
                   /\ running \in [Devices -> Nat]
                   /\ committed \subseteq Nat
                   /\ disturbed \subseteq Devices
                   /\ tampered \subseteq Devices
                   /\ errors \in Nat
                   /\ crashes \in Nat
<1>0. Rest /\ op \in [Callers -> Op] /\ blocks \in Seq(Block)
  BY DEF TypeOK
<1>1. \A c \in Callers : /\ op[c].block \in Nat /\ op[c].saved \in Nat
                         /\ op[c].pc # "idle" => op[c].device \in Devices
  BY <1>0 DEF Op, CallsFit, Fits
<1>2. \A b \in DOMAIN blocks : blocks[b].device \in Devices
  BY <1>0, BlockType
<1>3. ASSUME UNCHANGED <<pending, running, committed, disturbed, tampered, errors, crashes>>
      PROVE  Rest'
  BY <1>0, <1>3
<1>4. ASSUME NEW c \in Callers, NEW b \in DOMAIN blocks, NEW mode \in Modes, Enter(c, b, mode)
      PROVE  Rest'
  BY <1>0, <1>2, <1>4 DEF Enter
<1>5. ASSUME NEW c \in Callers, NEW d \in Devices, NEW config \in Configs, Create(c, d, config)
      PROVE Rest'
  BY <1>3, <1>5 DEF Create
<1>6. ASSUME NEW c \in Callers, NEW t \in DOMAIN blocks, Rollback(c, t) PROVE Rest'
  BY <1>3, <1>6 DEF Rollback
<1>7. ASSUME NEW c \in Callers, Proceed(c) PROVE Rest'
  <2>1. ASSUME NEW b \in 0 .. MaxBlocks, ReadLatest(c, b) PROVE Rest'
    BY <1>3, <2>1 DEF ReadLatest
  <2>2. ASSUME NEW invalid \in BOOLEAN, NEW lost \in BOOLEAN, Store(c, invalid, lost) PROVE Rest'
    BY <1>3, <2>2 DEF Store
  <2>3. ASSUME Abandon(c) PROVE Rest'
    BY <1>3, <2>3 DEF Abandon
  <2>4. ASSUME DeployRollback(c) PROVE Rest'
    <3>1. op[c].block \in DOMAIN blocks /\ "unchecked" \in Modes
      BY <1>7, <2>4 DEF CallsFit, Fits, DeployRollback, Modes
    <3> QED
      BY <1>4, <1>7, <2>4, <3>1 DEF DeployRollback
  <2>5. ASSUME NEW ok \in BOOLEAN, Prepare(c, ok) PROVE Rest'
    BY <1>0, <2>5 DEF Prepare, Fails
  <2>6. ASSUME NEW ok \in BOOLEAN, Verify(c, ok) PROVE Rest'
    BY <1>3, <2>6 DEF Verify
  <2>7. ASSUME NEW ok \in BOOLEAN, Undo(c, ok) PROVE Rest'
    <3>1. op[c].device \in Devices /\ op[c].saved \in Nat
      BY <1>1, <1>7, <2>7 DEF Undo
    <3> QED
      BY <1>0, <2>7, <3>1 DEF Undo, Fails
  <2>8. ASSUME NEW ok \in BOOLEAN, Mark(c, ok) PROVE Rest'
    <3>1. op[c].device \in Devices
      BY <1>1, <1>7, <2>8 DEF Mark
    <3> QED
      BY <1>0, <2>8, <3>1 DEF Mark, Fails
  <2>9. ASSUME NEW ok \in BOOLEAN, NEW landed \in BOOLEAN, Commit(c, ok, landed) PROVE Rest'
    <3>1. op[c].device \in Devices /\ op[c].block \in Nat
      BY <1>1, <1>7, <2>9 DEF Commit
    <3> QED
      BY <1>0, <2>9, <3>1 DEF Commit, Fails
  <2>10. ASSUME Leave(c) PROVE Rest'
    BY <1>0, <2>10 DEF Leave
  <2> HIDE DEF Rest
  <2> QED
    BY <1>7, <2>1, <2>2, <2>3, <2>4, <2>5, <2>6, <2>7, <2>8, <2>9, <2>10 DEF Proceed
<1>8. ASSUME Crash PROVE Rest'
  <2>1. disturbed' \subseteq Devices
    BY <1>0, <1>1, <1>8 DEF Crash, Deploying
  <2> QED
    BY <1>0, <1>8, <2>1 DEF Crash
<1>9. ASSUME NEW d \in Devices, Tamper(d) PROVE Rest'
  BY <1>0, <1>9 DEF Tamper
<1>10. ASSUME UNCHANGED vars PROVE Rest'
  BY <1>3, <1>10 DEF vars
<1>11. ASSUME Next PROVE Rest'
  <2> HIDE DEF Rest
  <2> QED
    BY <1>4, <1>5, <1>6, <1>7, <1>8, <1>9, <1>11 DEF Next, Deploy
<1>12. Rest'
  <2> HIDE DEF Rest
  <2> QED
    BY <1>10, <1>11
<1>13. blocks' \in Seq(Block)
  BY Grows DEF Grown
<1> QED
  BY <1>12, <1>13, CallsStep DEF TypeOK

-----------------------------------------------------------------------------
(* The chain                                                                *)

(* A step that adds no block keeps the chain.                               *)
LEMMA SameChain ==
  ASSUME TypeOK, Grown, Len(blocks') = Len(blocks), ChainLinear
  PROVE  ChainLinear'
<1>1. DOMAIN blocks = 1 .. Len(blocks) /\ DOMAIN blocks' = 1 .. Len(blocks)
  BY LenProperties DEF TypeOK, Grown
<1>2. Unique'
  BY <1>1 DEF ChainLinear, Unique, Grown
<1>3. Linked'
  <2> SUFFICES ASSUME NEW i \in 1 .. Len(blocks)
               PROVE  IF blocks'[i].prev = 0
                        THEN blocks'[i].seq = 1
                        ELSE /\ blocks'[i].prev \in 1 .. i - 1
                             /\ blocks'[blocks'[i].prev].device = blocks'[i].device
                             /\ blocks'[i].seq = blocks'[blocks'[i].prev].seq + 1
    BY <1>1 DEF Linked
  <2> DEFINE prev == blocks[i].prev
  <2>1. IF prev = 0
          THEN blocks[i].seq = 1
          ELSE /\ prev \in 1 .. i - 1
               /\ blocks[prev].device = blocks[i].device
               /\ blocks[i].seq = blocks[prev].seq + 1
    BY <1>1 DEF ChainLinear, Linked
  <2>2. blocks'[i].prev = prev /\ blocks'[i].seq = blocks[i].seq
        /\ blocks'[i].device = blocks[i].device
    BY DEF Grown
  <2>3. prev # 0 => prev \in 1 .. Len(blocks)
    BY <2>1, LenProperties DEF TypeOK
  <2>4. prev # 0 => blocks'[prev].device = blocks[prev].device /\ blocks'[prev].seq = blocks[prev].seq
    BY <2>3 DEF Grown
  <2> HIDE DEF prev
  <2> QED
    BY <2>1, <2>2, <2>4
<1> QED
  BY <1>2, <1>3 DEF ChainLinear

LEMMA StoreChain ==
  ASSUME TypeOK, CallsFit, ChainLinear, NEW c \in Callers, NEW invalid \in BOOLEAN,
         NEW lost \in BOOLEAN, Store(c, invalid, lost)
  PROVE  ChainLinear'
<1> DEFINE n     == Len(blocks) + 1
           last  == op[c].latest
           block == NewBlock(op[c].device, op[c].config, last, invalid)
<1>1. Len(blocks) \in Nat /\ DOMAIN blocks = 1 .. Len(blocks) /\ DOMAIN blocks' = 1 .. n
  <2>1. blocks' \in Seq(Block) /\ Len(blocks') = n
    BY StoreGrows DEF Grown
  <2> QED
    BY <2>1, LenProperties DEF TypeOK
<1>2. /\ \A i \in 1 .. Len(blocks) : /\ blocks'[i].device = blocks[i].device
                                     /\ blocks'[i].seq = blocks[i].seq
                                     /\ blocks'[i].prev = blocks[i].prev
      /\ blocks'[n] = block
  BY StoreGrows DEF Grown
<1>3. ~ \E i \in DOMAIN blocks : blocks[i].device = block.device /\ blocks[i].seq = block.seq
  BY DEF Store
<1>4. /\ last # 0 => last \in DOMAIN blocks /\ blocks[last].device = op[c].device
      /\ block.prev = last /\ block.device = op[c].device
      /\ block.seq = IF last = 0 THEN 1 ELSE blocks[last].seq + 1
  BY DEF Store, CallsFit, Fits, NewBlock
<1> HIDE DEF block, last
<1>5. Unique'
  BY <1>1, <1>2, <1>3 DEF ChainLinear, Unique
<1>6. Linked'
  <2> SUFFICES ASSUME NEW i \in 1 .. n
               PROVE  IF blocks'[i].prev = 0
                        THEN blocks'[i].seq = 1
                        ELSE /\ blocks'[i].prev \in 1 .. i - 1
                             /\ blocks'[blocks'[i].prev].device = blocks'[i].device
                             /\ blocks'[i].seq = blocks'[blocks'[i].prev].seq + 1
    BY <1>1 DEF Linked
  <2>1. CASE i = n
    <3>1. last # 0 => blocks'[last].device = blocks[last].device /\ blocks'[last].seq = blocks[last].seq
                      /\ last \in 1 .. i - 1
      BY <1>1, <1>2, <1>4, <2>1
    <3> QED
      BY <1>2, <1>4, <2>1, <3>1
  <2>2. CASE i \in 1 .. Len(blocks)
    <3> DEFINE prev == blocks[i].prev
    <3>1. IF prev = 0
            THEN blocks[i].seq = 1
            ELSE /\ prev \in 1 .. i - 1
                 /\ blocks[prev].device = blocks[i].device
                 /\ blocks[i].seq = blocks[prev].seq + 1
      BY <1>1, <2>2 DEF ChainLinear, Linked
    <3>2. prev # 0 => prev \in 1 .. Len(blocks)
      BY <1>1, <2>2, <3>1
    <3> HIDE DEF prev
    <3>3. blocks'[i].prev = prev
      BY <1>2, <2>2 DEF prev
    <3> QED
      BY <1>2, <2>2, <3>1, <3>2, <3>3
  <2> QED
    BY <1>1, <2>1, <2>2
<1> QED
  BY <1>5, <1>6 DEF ChainLinear

LEMMA ChainStep ==
  ASSUME TypeOK, CallsFit, ChainLinear, [Next]_vars
  PROVE  ChainLinear'
<1>0. ASSUME UNCHANGED blocks PROVE ChainLinear'
  BY <1>0 DEF ChainLinear, Unique, Linked
<1>1. ASSUME NEW c \in Callers, Proceed(c) PROVE ChainLinear'
  <2>1. ASSUME NEW invalid \in BOOLEAN, NEW lost \in BOOLEAN, Store(c, invalid, lost)
        PROVE ChainLinear'
    BY <1>1, <2>1, StoreChain
  <2>2. ASSUME NEW ok \in BOOLEAN, Mark(c, ok) PROVE ChainLinear'
    BY <1>1, <2>2, MarkGrows, SameChain
  <2>3. ASSUME ~ \E invalid, lost \in BOOLEAN : Store(c, invalid, lost),
               ~ \E ok \in BOOLEAN : Mark(c, ok)
        PROVE  UNCHANGED blocks
    BY <1>1, <2>3 DEF Proceed, ReadLatest, Abandon, DeployRollback, Enter, Prepare, Verify, Undo,
                      Commit, Leave
  <2> QED
    BY <1>0, <2>1, <2>2, <2>3
<1>2. ASSUME ~ \E c \in Callers : Proceed(c) PROVE UNCHANGED blocks
  BY <1>2 DEF Next, Create, Rollback, Deploy, Enter, Crash, Tamper, vars
<1> QED
  BY <1>0, <1>1, <1>2

-----------------------------------------------------------------------------
(* What devices run                                                         *)

LEMMA RunningStep ==
  ASSUME TypeOK, CallsFit, OnlyValidBlocksRun, [Next]_vars
  PROVE  OnlyValidBlocksRun'
<1>0. Grown
  BY Grows
<1>1. /\ Len(blocks) \in Nat /\ Len(blocks') \in Nat
      /\ DOMAIN blocks = 1 .. Len(blocks) /\ DOMAIN blocks' = 1 .. Len(blocks')
  BY <1>0, LenProperties DEF TypeOK, Grown
<1>2. \A d, b : Runnable(d, b) => Runnable(d, b)'
  BY <1>0, <1>1 DEF Runnable, Grown
<1>3. \A d \in Devices : running[d] # 0 => Runnable(d, running[d])
  BY DEF OnlyValidBlocksRun, Runnable
<1> DEFINE Good == \A d \in Devices : running'[d] # 0 => Runnable(d, running'[d])
           Said == \A b \in DOMAIN blocks' : blocks'[b].status = "applied" => b \in committed'
<1>4. ASSUME UNCHANGED running PROVE Good
  BY <1>3, <1>4
<1>5. ASSUME UNCHANGED blocks, committed \subseteq committed' PROVE Said
  BY <1>5 DEF OnlyValidBlocksRun
<1>6. ASSUME NEW c \in Callers, NEW ok \in BOOLEAN, NEW landed \in BOOLEAN, Commit(c, ok, landed)
      PROVE  Good /\ Said
  <2>1. Runnable(op[c].device, op[c].block)
    BY <1>6 DEF CallsFit, Fits, Runnable, Commit, Deploying
  <2>2. running \in [Devices -> Nat]
    BY DEF TypeOK
  <2>3. running' = [running EXCEPT ![op[c].device] = op[c].block] \/ running' = running
    BY <1>6 DEF Commit
  <2>4. Good
    BY <1>3, <2>1, <2>2, <2>3
  <2>5. UNCHANGED blocks /\ committed \subseteq committed'
    BY <1>6 DEF Commit
  <2> QED
    BY <1>5, <2>4, <2>5
<1>7. ASSUME NEW c \in Callers, NEW ok \in BOOLEAN, Undo(c, ok) PROVE Good /\ Said
  <2>1. op[c].saved # 0 => Runnable(op[c].device, op[c].saved)
    BY <1>7 DEF CallsFit, Fits
  <2>2. running \in [Devices -> Nat]
    BY DEF TypeOK
  <2>3. running' = [running EXCEPT ![op[c].device] = op[c].saved] \/ running' = running
    BY <1>7 DEF Undo
  <2>4. Good
    BY <1>3, <2>1, <2>2, <2>3
  <2>5. UNCHANGED blocks /\ committed \subseteq committed'
    BY <1>7 DEF Undo
  <2> QED
    BY <1>5, <2>4, <2>5
<1>8. ASSUME NEW c \in Callers, NEW invalid \in BOOLEAN, NEW lost \in BOOLEAN,
             Store(c, invalid, lost)
      PROVE  Good /\ Said
  <2>1. /\ Len(blocks') = Len(blocks) + 1
        /\ blocks'[Len(blocks) + 1].status = "pending"
        /\ UNCHANGED <<committed, running>>
    BY <1>8, StoreGrows DEF NewBlock, Store
  <2>2. \A i \in 1 .. Len(blocks) : blocks'[i] = blocks[i]
    <3>1. NewBlock(op[c].device, op[c].config, op[c].latest, invalid) \in Block
      BY <1>8, NewBlockType DEF Store
    <3>2. blocks' = Append(blocks, NewBlock(op[c].device, op[c].config, op[c].latest, invalid))
      BY <1>8 DEF Store
    <3> QED
      BY <3>1, <3>2, AppendProperties DEF TypeOK
  <2>3. Said
    BY <1>1, <2>1, <2>2 DEF OnlyValidBlocksRun
  <2> QED
    BY <1>4, <2>1, <2>3
<1>9. ASSUME NEW c \in Callers, NEW ok \in BOOLEAN, Mark(c, ok) PROVE Good /\ Said
  <2>1. UNCHANGED <<committed, running>>
    BY <1>9 DEF Mark
  <2>2. op[c].mark = "applied" => op[c].block \in committed
    BY <1>9 DEF Mark, CallsFit, Fits
  <2>3. /\ DOMAIN blocks' = DOMAIN blocks
        /\ \A b \in DOMAIN blocks :
             blocks'[b].status \in {blocks[b].status} \union
                                   (IF b = op[c].block THEN {op[c].mark} ELSE {})
    BY <1>1, <1>9, MarkGrows
  <2>4. Said
    BY <2>1, <2>2, <2>3 DEF OnlyValidBlocksRun
  <2> QED
    BY <1>4, <2>1, <2>4
<1> HIDE DEF Good, Said
<1>10. ASSUME NEW c \in Callers, Proceed(c) PROVE Good /\ Said
  <2>1. ASSUME NEW b \in 0 .. MaxBlocks, ReadLatest(c, b) PROVE Good /\ Said
    BY <1>4, <1>5, <2>1 DEF ReadLatest
  <2>2. ASSUME Abandon(c) \/ Leave(c) PROVE Good /\ Said
    BY <1>4, <1>5, <2>2 DEF Abandon, Leave
  <2>3. ASSUME DeployRollback(c) PROVE Good /\ Said
    BY <1>4, <1>5, <2>3 DEF DeployRollback, Enter
  <2>4. ASSUME NEW ok \in BOOLEAN, Prepare(c, ok) \/ Verify(c, ok) PROVE Good /\ Said
    BY <1>4, <1>5, <2>4 DEF Prepare, Verify
  <2> QED
    BY <1>6, <1>7, <1>8, <1>9, <1>10, <2>1, <2>2, <2>3, <2>4 DEF Proceed
<1>11. ASSUME ~ \E c \in Callers : Proceed(c) PROVE Good /\ Said
  BY <1>4, <1>5, <1>11 DEF Next, Create, Rollback, Deploy, Enter, Crash, Tamper, vars
<1>12. Good /\ Said
  BY <1>10, <1>11
<1> QED
  <2>1. ASSUME NEW d \in Devices, running'[d] # 0
        PROVE  /\ running'[d] \in DOMAIN blocks'
               /\ blocks'[running'[d]].device = d
               /\ ~blocks'[running'[d]].invalid
    <3>1. PICK b : b = running'[d]
      OBVIOUS
    <3>2. Runnable(d, b)
      BY <1>12, <2>1, <3>1 DEF Good
    <3>3. Runnable(d, b)'
      BY <1>2, <3>2
    <3> QED
      BY <3>1, <3>3 DEF Runnable
  <2> QED
    BY <1>12, <2>1 DEF OnlyValidBlocksRun, Said

-----------------------------------------------------------------------------
(* The theorems                                                             *)

Invariant == TypeOK /\ CallsFit /\ ChainLinear /\ OnlyValidBlocksRun

LEMMA InvariantInit == Init => Invariant
<1> SUFFICES ASSUME Init PROVE Invariant
  OBVIOUS
<1>1. blocks = <<>> /\ blocks \in Seq(Block) /\ DOMAIN blocks = {}
  BY EmptySeq DEF Init
<1>2. TypeOK
  BY <1>1, IdleFits, BoundsAssumption DEF Init, TypeOK
<1>3. CallsFit
  BY IdleFits DEF Init, CallsFit
<1>4. ChainLinear
  BY <1>1 DEF ChainLinear, Unique, Linked
<1>5. OnlyValidBlocksRun
  BY <1>1 DEF Init, OnlyValidBlocksRun
<1> QED
  BY <1>2, <1>3, <1>4, <1>5 DEF Invariant

LEMMA InvariantStep == Invariant /\ [Next]_vars => Invariant'
BY TypeStep, CallsStep, ChainStep, RunningStep DEF Invariant

LEMMA InvariantHolds == Spec => []Invariant
BY InvariantInit, InvariantStep, PTL DEF Spec

(* The manager's state keeps its types, whatever the devices, configurations, *)
(* callers and bounds.                                                      *)
THEOREM ManagerTyped == Spec => []TypeOK
<1>1. Invariant => TypeOK
  BY DEF Invariant
<1> QED
  BY <1>1, InvariantHolds, PTL

(* Every device has one chain, linked by number and hash, for any number of *)
(* callers creating and rolling back blocks at once.                        *)
THEOREM ManagerChainLinear == Spec => []ChainLinear
<1>1. Invariant => ChainLinear
  BY DEF Invariant
<1> QED
  BY <1>1, InvariantHolds, PTL

(* No block that failed validation, or belongs to another device, is ever   *)
(* run, and "applied" is said of committed blocks only, even when           *)
(* deployments of a device overlap, break off and fail.                     *)
THEOREM ManagerOnlyValidBlocksRun == Spec => []OnlyValidBlocksRun
<1>1. Invariant => OnlyValidBlocksRun
  BY DEF Invariant
<1> QED
  BY <1>1, InvariantHolds, PTL

-----------------------------------------------------------------------------
(* The numbers of a device's blocks                                         *)

LEMMA NumbersOf ==
  ASSUME NEW d
  PROVE  /\ \A i \in DOMAIN blocks : blocks[i].device = d => blocks[i].seq \in Sequences(d)
         /\ \A n \in Sequences(d) :
              \E i \in DOMAIN blocks : blocks[i].device = d /\ blocks[i].seq = n
BY DEF Sequences

LEMMA SameNumbers ==
  ASSUME TypeOK, Grown, Len(blocks') = Len(blocks)
  PROVE  \A d \in Devices : Sequences(d)' = Sequences(d)
<1>1. DOMAIN blocks = 1 .. Len(blocks) /\ DOMAIN blocks' = 1 .. Len(blocks)
  BY LenProperties DEF TypeOK, Grown
<1>2. \A i \in 1 .. Len(blocks) : blocks'[i].device = blocks[i].device /\ blocks'[i].seq = blocks[i].seq
  BY DEF Grown
<1> QED
  BY <1>1, <1>2 DEF Sequences

(* The block stored takes the next number of its device.                    *)
LEMMA StoreNumbers ==
  ASSUME TypeOK, CallsFit, ChainLinear, NoGaps, NEW c \in Callers, NEW invalid \in BOOLEAN,
         NEW lost \in BOOLEAN, Store(c, invalid, lost)
  PROVE  \E dev, n :
           /\ dev = op[c].device /\ dev \in Devices /\ n \in Nat
           /\ \A d \in Devices \ {dev} : Sequences(d)' = Sequences(d)
           /\ Sequences(dev) = 1 .. n /\ Sequences(dev)' = 1 .. n + 1
           /\ blocks'[Len(blocks) + 1].seq = n + 1
<1>0. PICK dev : dev = op[c].device
  OBVIOUS
<1> DEFINE last  == op[c].latest
           block == NewBlock(dev, op[c].config, last, invalid)
           new   == Len(blocks) + 1
<1>1. Len(blocks) \in Nat /\ DOMAIN blocks = 1 .. Len(blocks) /\ DOMAIN blocks' = 1 .. new
  <2>1. blocks' \in Seq(Block) /\ Len(blocks') = new
    BY StoreGrows DEF Grown
  <2> QED
    BY <2>1, LenProperties DEF TypeOK
<1>2. /\ \A i \in 1 .. Len(blocks) : /\ blocks'[i].device = blocks[i].device
                                     /\ blocks'[i].seq = blocks[i].seq
      /\ blocks'[new] = block
  BY <1>0, StoreGrows DEF Grown
<1>3. \A i \in DOMAIN blocks : ~ (blocks[i].device = block.device /\ blocks[i].seq = block.seq)
  BY <1>0 DEF Store
<1>4. /\ dev \in Devices
      /\ last # 0 => last \in DOMAIN blocks /\ blocks[last].device = dev
      /\ block.device = dev
      /\ block.seq = IF last = 0 THEN 1 ELSE blocks[last].seq + 1
  BY <1>0 DEF Store, CallsFit, Fits, NewBlock
<1> HIDE DEF block, last
<1>5. \A d \in Devices \ {dev} : Sequences(d)' = Sequences(d)
  <2> SUFFICES ASSUME NEW d \in Devices \ {dev} PROVE Sequences(d)' = Sequences(d)
    OBVIOUS
  <2>1. {i \in 1 .. new : blocks'[i].device = d} = {i \in 1 .. Len(blocks) : blocks[i].device = d}
    BY <1>1, <1>2, <1>4
  <2> QED
    BY <1>1, <1>2, <2>1 DEF Sequences
<1>6. PICK n \in Nat : Sequences(dev) = 1 .. n
  BY <1>4 DEF NoGaps
<1>7. block.seq = n + 1
  <2>1. block.seq \notin 1 .. n
    BY <1>3, <1>4, <1>6, NumbersOf
  <2>2. CASE last = 0
    BY <1>4, <1>6, <2>1, <2>2
  <2>3. CASE last # 0
    <3>1. blocks[last].seq \in 1 .. n
      BY <1>4, <1>6, <2>3, NumbersOf
    <3> QED
      BY <1>4, <2>1, <2>3, <3>1
  <2> QED
    BY <2>2, <2>3
<1>8. Sequences(dev)' = 1 .. n + 1
  <2>1. Sequences(dev)' = Sequences(dev) \union {n + 1}
    <3>1. ASSUME NEW m \in Sequences(dev)' PROVE m \in Sequences(dev) \union {n + 1}
      <4>1. PICK i \in 1 .. new : blocks'[i].device = dev /\ blocks'[i].seq = m
        BY <1>1, <3>1 DEF Sequences
      <4>2. i = new \/ i \in 1 .. Len(blocks)
        BY <1>1, <4>1
      <4> QED
        BY <1>1, <1>2, <1>7, <4>1, <4>2, NumbersOf
    <3>2. ASSUME NEW m \in Sequences(dev) \union {n + 1} PROVE m \in Sequences(dev)'
      <4>1. \E i \in 1 .. new : blocks'[i].device = dev /\ blocks'[i].seq = m
        <5>1. CASE m = n + 1
          BY <1>1, <1>2, <1>4, <1>7, <5>1
        <5>2. CASE m \in Sequences(dev)
          <6>1. PICK i \in 1 .. Len(blocks) : blocks[i].device = dev /\ blocks[i].seq = m
            BY <1>1, <5>2, NumbersOf
          <6> QED
            BY <1>1, <1>2, <6>1
        <5> QED
          BY <3>2, <5>1, <5>2
      <4> QED
        BY <1>1, <4>1 DEF Sequences
    <3> QED
      BY <3>1, <3>2
  <2>2. (1 .. n) \union {n + 1} = 1 .. n + 1
    OBVIOUS
  <2> QED
    BY <1>6, <2>1, <2>2
<1> QED
  BY <1>0, <1>2, <1>4, <1>5, <1>6, <1>7, <1>8

(* A step stores a block, records a status, or leaves the blocks alone.     *)
LEMMA BlockSteps ==
  ASSUME [Next]_vars
  PROVE  \/ UNCHANGED blocks
         \/ \E c \in Callers : \E invalid, lost \in BOOLEAN : Store(c, invalid, lost)
         \/ \E c \in Callers : \E ok \in BOOLEAN : Mark(c, ok)
<1>1. ASSUME NEW c \in Callers, Proceed(c)
      PROVE  \/ UNCHANGED blocks
             \/ \E invalid, lost \in BOOLEAN : Store(c, invalid, lost)
             \/ \E ok \in BOOLEAN : Mark(c, ok)
  BY <1>1 DEF Proceed, ReadLatest, Abandon, DeployRollback, Enter, Prepare, Verify, Undo, Commit,
              Leave
<1>2. ASSUME ~ \E c \in Callers : Proceed(c) PROVE UNCHANGED blocks
  BY <1>2 DEF Next, Create, Rollback, Deploy, Enter, Crash, Tamper, vars
<1> QED
  BY <1>1, <1>2

LEMMA NoGapsStep ==
  ASSUME TypeOK, CallsFit, ChainLinear, NoGaps, [Next]_vars
  PROVE  NoGaps'
<1>1. ASSUME Grown, Len(blocks') = Len(blocks) PROVE NoGaps'
  BY <1>1, SameNumbers DEF NoGaps
<1>2. CASE UNCHANGED blocks
  BY <1>2 DEF NoGaps, Sequences
<1>3. ASSUME NEW c \in Callers, NEW ok \in BOOLEAN, Mark(c, ok) PROVE NoGaps'
  BY <1>1, <1>3, MarkGrows
<1>4. ASSUME NEW c \in Callers, NEW invalid \in BOOLEAN, NEW lost \in BOOLEAN,
             Store(c, invalid, lost)
      PROVE NoGaps'
  <2>1. PICK dev, n :
          /\ dev = op[c].device /\ dev \in Devices /\ n \in Nat
          /\ \A d \in Devices \ {dev} : Sequences(d)' = Sequences(d)
          /\ Sequences(dev) = 1 .. n /\ Sequences(dev)' = 1 .. n + 1
          /\ blocks'[Len(blocks) + 1].seq = n + 1
    BY <1>4, StoreNumbers
  <2> SUFFICES ASSUME NEW d \in Devices PROVE \E m \in Nat : Sequences(d)' = 1 .. m
    BY DEF NoGaps
  <2>2. CASE d = dev
    BY <2>1, <2>2
  <2>3. CASE d # dev
    <3>1. PICK m \in Nat : Sequences(d) = 1 .. m
      BY DEF NoGaps
    <3> QED
      BY <2>1, <2>3, <3>1
  <2> QED
    BY <2>2, <2>3
<1> QED
  BY <1>2, <1>3, <1>4, BlockSteps

-----------------------------------------------------------------------------
(* The ledger a chain stands for                                            *)

(* A block is the entry of its number.                                      *)
EntriesFit ==
  \A i \in DOMAIN blocks :
    Entry(blocks[i].device, blocks[i].seq)
      = [config |-> blocks[i].config, status |-> blocks[i].status]

LEMMA Entries == TypeOK /\ ChainLinear => EntriesFit
<1> SUFFICES ASSUME TypeOK, ChainLinear, NEW i \in DOMAIN blocks
             PROVE  Entry(blocks[i].device, blocks[i].seq)
                      = [config |-> blocks[i].config, status |-> blocks[i].status]
  BY DEF EntriesFit
<1> DEFINE at == {k \in DOMAIN blocks : /\ blocks[k].device = blocks[i].device
                                        /\ blocks[k].seq = blocks[i].seq}
<1>1. at = {i} /\ i \in Int
  BY BlockType DEF TypeOK, ChainLinear, Unique
<1>2. (CHOOSE k \in at : \A j \in at : j <= k) = i
  <2> HIDE DEF at
  <2> QED
    BY <1>1
<1> QED
  BY <1>2 DEF Entry

LEMMA EntriesNext == TypeOK' /\ ChainLinear' => EntriesFit'
BY Entries, PTL

(* A device's history has as many entries as the device has numbers.        *)
HistoryFits ==
  \A d \in Devices : \A n \in Nat :
    Sequences(d) = 1 .. n => History[d] = [m \in 1 .. n |-> Entry(d, m)]

LEMMA Histories == HistoryFits
<1> SUFFICES ASSUME NEW d \in Devices, NEW n \in Nat, Sequences(d) = 1 .. n
             PROVE  History[d] = [m \in 1 .. n |-> Entry(d, m)]
  BY DEF HistoryFits
<1>1. Cardinality(1 .. n) = n
  BY FS_Interval
<1> QED
  BY <1>1 DEF History

LEMMA HistoriesNext == HistoryFits'
BY Histories, PTL

LEMMA HistoryInit == Init => Ledger!Init
<1> SUFFICES ASSUME Init PROVE History = [d \in Devices |-> <<>>]
  BY DEF Ledger!Init
<1>1. \A d \in Devices : Sequences(d) = 1 .. 0
  BY EmptySeq DEF Init, Sequences
<1>2. \A d \in Devices : History[d] = [m \in 1 .. 0 |-> Entry(d, m)]
  BY <1>1, Histories DEF HistoryFits
<1>3. \A d \in Devices : History[d] = <<>>
  BY <1>2
<1> QED
  BY <1>3 DEF History

(* Entries of the same blocks differ in a status at most.                   *)
LEMMA EntriesKept ==
  ASSUME TypeOK, TypeOK', ChainLinear, ChainLinear', Grown, NEW i \in DOMAIN blocks
  PROVE  /\ Entry(blocks[i].device, blocks[i].seq)
              = [config |-> blocks[i].config, status |-> blocks[i].status]
         /\ \A d, m : d = blocks[i].device /\ m = blocks[i].seq
              => Entry(d, m)' = [config |-> blocks[i].config, status |-> blocks'[i].status]
<1>1. EntriesFit /\ EntriesFit'
  BY Entries, EntriesNext
<1>2. i \in DOMAIN blocks' /\ i \in 1 .. Len(blocks)
  <2>1. /\ DOMAIN blocks = 1 .. Len(blocks) /\ DOMAIN blocks' = 1 .. Len(blocks')
        /\ Len(blocks) \in Nat /\ Len(blocks') \in Nat
    BY LenProperties DEF TypeOK, Grown
  <2> QED
    BY <2>1 DEF Grown
<1>3. /\ blocks'[i].device = blocks[i].device /\ blocks'[i].seq = blocks[i].seq
      /\ blocks'[i].config = blocks[i].config
  BY <1>2 DEF Grown
<1>4. ASSUME NEW d, NEW m, d = blocks[i].device, m = blocks[i].seq
      PROVE  Entry(d, m)' = [config |-> blocks[i].config, status |-> blocks'[i].status]
  <2>1. PICK j \in DOMAIN blocks' : j = i
    BY <1>2
  <2>2. PICK e, k : e = blocks'[j].device /\ k = blocks'[j].seq
    OBVIOUS
  <2>3. Entry(e, k)' = [config |-> blocks'[j].config, status |-> blocks'[j].status]
    BY <1>1, <2>1, <2>2 DEF EntriesFit
  <2>4. d = e /\ m = k
    BY <1>3, <1>4, <2>1, <2>2
  <2> QED
    BY <1>3, <2>1, <2>3, <2>4
<1> QED
  BY <1>1, <1>4 DEF EntriesFit

(* Recording an outcome settles the block's entry.                          *)
LEMMA MarkSettles ==
  ASSUME TypeOK, CallsFit, ChainLinear, NoGaps, MarksFit, TypeOK', ChainLinear',
         NEW c \in Callers, Mark(c, TRUE)
  PROVE  Ledger!Next
<1> DEFINE b == op[c].block
<1>1. Grown /\ Len(blocks') = Len(blocks)
  BY MarkGrows
<1>2. /\ b \in DOMAIN blocks /\ op[c].mark \in Ledger!Outcomes
      /\ blocks' = [blocks EXCEPT ![b].status = op[c].mark]
  BY DEF Mark, CallsFit, Fits, Deploying, MarksFit, TypeOK, Op, Statuses, Ledger!Outcomes
<1>3. /\ \A i \in DOMAIN blocks \ {b} : blocks'[i] = blocks[i]
      /\ blocks'[b].status = op[c].mark
  <2>1. blocks[b] \in Block
    BY <1>2, BlockType DEF TypeOK
  <2>2. [blocks[b] EXCEPT !.status = op[c].mark].status = op[c].mark
    BY <2>1 DEF Block
  <2> HIDE DEF b
  <2> QED
    BY <1>2, <2>2, LenProperties DEF TypeOK
<1>4. PICK d, n : d = blocks[b].device /\ n = blocks[b].seq /\ d \in Devices
  BY <1>2, BlockType DEF TypeOK
<1>5. PICK k \in Nat : Sequences(d) = 1 .. k
  BY <1>4 DEF NoGaps
<1>6. n \in 1 .. k
  BY <1>2, <1>4, <1>5, NumbersOf
<1>7. \A e \in Devices : Sequences(e)' = Sequences(e)
  BY <1>1, SameNumbers
<1>8. ASSUME NEW e \in Devices, NEW m \in Sequences(e), ~ (e = d /\ m = n)
      PROVE  Entry(e, m)' = Entry(e, m)
  <2>1. PICK i \in DOMAIN blocks : blocks[i].device = e /\ blocks[i].seq = m
    BY NumbersOf
  <2>2. i # b
    BY <1>4, <1>8, <2>1
  <2> HIDE DEF b
  <2> QED
    BY <1>1, <1>3, <2>1, <2>2, EntriesKept
<1>9. /\ History[d] = [m \in 1 .. k |-> Entry(d, m)]
      /\ History'[d] = [m \in 1 .. k |-> Entry(d, m)']
  BY <1>4, <1>5, <1>7, Histories, HistoriesNext DEF HistoryFits
<1>10. \A e \in Devices \ {d} : History'[e] = History[e]
  <2> SUFFICES ASSUME NEW e \in Devices \ {d} PROVE History'[e] = History[e]
    OBVIOUS
  <2>1. PICK j \in Nat : Sequences(e) = 1 .. j
    BY DEF NoGaps
  <2>2. /\ History[e] = [m \in 1 .. j |-> Entry(e, m)]
        /\ History'[e] = [m \in 1 .. j |-> Entry(e, m)']
    BY <1>7, <2>1, Histories, HistoriesNext DEF HistoryFits
  <2>3. \A m \in 1 .. j : Entry(e, m)' = Entry(e, m)
    BY <1>8, <2>1
  <2> QED
    BY <2>2, <2>3
<1>11. /\ History[d][n] = [config |-> blocks[b].config, status |-> blocks[b].status]
       /\ History'[d][n] = [config |-> blocks[b].config, status |-> op[c].mark]
  BY <1>1, <1>2, <1>3, <1>4, <1>6, <1>9, EntriesKept
<1>12. \A m \in (1 .. k) \ {n} : History'[d][m] = History[d][m]
  BY <1>4, <1>5, <1>8, <1>9
<1>13. History' = [History EXCEPT ![d][n].status = op[c].mark]
  <2> HIDE DEF b
  <2>1. History = [e \in Devices |-> History[e]] /\ History' = [e \in Devices |-> History'[e]]
    BY DEF History
  <2>2. /\ History[d] = [m \in 1 .. k |-> History[d][m]]
        /\ History'[d] = [m \in 1 .. k |-> History'[d][m]]
    BY <1>9
  <2>3. PICK h, next, outcome : h = History /\ next = History' /\ outcome = op[c].mark
    OBVIOUS
  <2>4. PICK config, status : config = blocks[b].config /\ status = blocks[b].status
    OBVIOUS
  <2>5. /\ h = [e \in Devices |-> h[e]] /\ next = [e \in Devices |-> next[e]]
        /\ \A e \in Devices \ {d} : next[e] = h[e]
        /\ h[d] = [m \in 1 .. k |-> h[d][m]] /\ next[d] = [m \in 1 .. k |-> next[d][m]]
        /\ \A m \in (1 .. k) \ {n} : next[d][m] = h[d][m]
    BY <1>10, <1>12, <2>1, <2>2, <2>3
  <2>6. /\ h[d][n] = [config |-> config, status |-> status]
        /\ next[d][n] = [config |-> config, status |-> outcome]
    BY <1>11, <2>3, <2>4
  <2>7. [h[d][n] EXCEPT !.status = outcome] = next[d][n]
    BY <2>6
  <2>8. [h[d] EXCEPT ![n] = next[d][n]] = next[d]
    BY <1>6, <2>5
  <2>9. [h EXCEPT ![d] = next[d]] = next
    BY <1>4, <2>5
  <2>10. next = [h EXCEPT ![d][n].status = outcome]
    BY <2>7, <2>8, <2>9
  <2> QED
    BY <2>3, <2>10
<1>14. n \in DOMAIN History[d]
  BY <1>6, <1>9
<1> QED
  BY <1>2, <1>4, <1>13, <1>14 DEF Ledger!Next, Ledger!Settle

LEMMA LongerByOne ==
  ASSUME NEW S, NEW n \in Nat, NEW s \in [1 .. n -> S], NEW t \in [1 .. n + 1 -> S],
         \A m \in 1 .. n : t[m] = s[m]
  PROVE  t = Append(s, t[n + 1])
<1>1. s \in Seq(S) /\ t \in Seq(S) /\ Len(s) = n /\ Len(t) = n + 1
  BY SeqDef
<1>2. t[n + 1] \in S
  OBVIOUS
<1> DEFINE a == Append(s, t[n + 1])
<1>3. a \in Seq(S) /\ Len(a) = n + 1 /\ \A m \in 1 .. n : a[m] = s[m]
  BY <1>1, <1>2, AppendProperties
<1>4. a[n + 1] = t[n + 1]
  BY <1>1, <1>2, AppendProperties
<1> HIDE DEF a
<1>5. \A m \in 1 .. n + 1 : a[m] = t[m]
  BY <1>3, <1>4
<1>6. a = t
  BY <1>1, <1>3, <1>5, SeqEqual
<1> QED
  BY <1>6 DEF a

(* Inserting a block extends its device's ledger.                           *)
LEMMA StoreExtends ==
  ASSUME TypeOK, CallsFit, ChainLinear, NoGaps, TypeOK', ChainLinear',
         NEW c \in Callers, NEW invalid \in BOOLEAN, NEW lost \in BOOLEAN,
         Store(c, invalid, lost)
  PROVE  Ledger!Next
<1>1. PICK dev, n :
        /\ dev = op[c].device /\ dev \in Devices /\ n \in Nat
        /\ \A d \in Devices \ {dev} : Sequences(d)' = Sequences(d)
        /\ Sequences(dev) = 1 .. n /\ Sequences(dev)' = 1 .. n + 1
        /\ blocks'[Len(blocks) + 1].seq = n + 1
  BY StoreNumbers
<1>2. PICK config : config = op[c].config /\ config \in Configs
  BY DEF Store, CallsFit, Fits
<1>3. PICK new : new = Len(blocks) + 1
  OBVIOUS
<1>4. PICK block : /\ block = NewBlock(op[c].device, op[c].config, op[c].latest, invalid)
                   /\ block \in Block
  BY NewBlockType DEF Store
<1>5. /\ Grown
      /\ \A i \in DOMAIN blocks : blocks'[i] = blocks[i]
      /\ blocks'[new] = block
      /\ new \in DOMAIN blocks'
  <2>1. blocks' = Append(blocks, block) /\ blocks \in Seq(Block) /\ Len(blocks) \in Nat
    BY <1>4, LenProperties DEF Store, TypeOK
  <2>2. Len(blocks') = Len(blocks) + 1 /\ DOMAIN blocks' = 1 .. Len(blocks')
        /\ DOMAIN blocks = 1 .. Len(blocks)
    BY <1>4, <2>1, AppendProperties, LenProperties
  <2> QED
    BY <1>3, <1>4, <2>1, <2>2, AppendProperties, StoreGrows
<1>6. block.device = dev /\ block.config = config /\ block.status = "pending" /\ block.seq = n + 1
  BY <1>1, <1>2, <1>3, <1>4, <1>5 DEF NewBlock
<1>7. ASSUME NEW d \in Devices, NEW m \in Sequences(d)
      PROVE  Entry(d, m)' = Entry(d, m)
  <2>1. PICK i \in DOMAIN blocks : blocks[i].device = d /\ blocks[i].seq = m
    BY NumbersOf
  <2> QED
    BY <1>5, <2>1, EntriesKept
<1>8. Entry(dev, n + 1)' = [config |-> config, status |-> "pending"]
  <2>1. PICK e, k : e = blocks'[new].device /\ k = blocks'[new].seq
    OBVIOUS
  <2>2. Entry(e, k)' = [config |-> blocks'[new].config, status |-> blocks'[new].status]
    BY <1>5, <2>1, EntriesNext DEF EntriesFit
  <2>3. e = dev /\ k = n + 1
    BY <1>5, <1>6, <2>1
  <2> QED
    BY <1>5, <1>6, <2>2, <2>3
<1>9. PICK h, next : h = History /\ next = History'
  OBVIOUS
<1>10. /\ h[dev] = [m \in 1 .. n |-> Entry(dev, m)]
       /\ next[dev] = [m \in 1 .. n + 1 |-> Entry(dev, m)']
  BY <1>1, <1>9, Histories, HistoriesNext DEF HistoryFits
<1>11. \A e \in Devices \ {dev} : next[e] = h[e]
  <2> SUFFICES ASSUME NEW e \in Devices \ {dev} PROVE next[e] = h[e]
    OBVIOUS
  <2>1. PICK j \in Nat : Sequences(e) = 1 .. j
    BY DEF NoGaps
  <2>2. /\ h[e] = [m \in 1 .. j |-> Entry(e, m)]
        /\ next[e] = [m \in 1 .. j |-> Entry(e, m)']
    BY <1>1, <1>9, <2>1, Histories, HistoriesNext DEF HistoryFits
  <2>3. \A m \in 1 .. j : Entry(e, m)' = Entry(e, m)
    BY <1>7, <2>1
  <2> QED
    BY <2>2, <2>3
<1>12. /\ \A m \in 1 .. n : next[dev][m] = h[dev][m]
       /\ next[dev][n + 1] = [config |-> config, status |-> "pending"]
  BY <1>1, <1>7, <1>8, <1>10
<1>13. next[dev] = Append(h[dev], [config |-> config, status |-> "pending"])
  <2> DEFINE S == {next[dev][m] : m \in 1 .. n + 1}
  <2>1. \A m \in 1 .. n + 1 : next[dev][m] \in S
    BY <1>1
  <2> HIDE DEF S
  <2>2. next[dev] \in [1 .. n + 1 -> S]
    BY <1>10, <2>1
  <2>3. \A m \in 1 .. n : h[dev][m] \in S
    BY <1>1, <1>12, <2>1
  <2>4. h[dev] \in [1 .. n -> S]
    BY <1>10, <2>3
  <2> QED
    BY <1>1, <1>12, <2>2, <2>4, LongerByOne
<1>14. History' = [History EXCEPT ![dev] = Append(@, [config |-> config, status |-> "pending"])]
  <2>1. h = [e \in Devices |-> h[e]] /\ next = [e \in Devices |-> next[e]]
    BY <1>9 DEF History
  <2>2. next = [h EXCEPT ![dev] = next[dev]]
    BY <1>1, <1>11, <2>1
  <2> QED
    BY <1>9, <1>13, <2>2
<1> QED
  BY <1>1, <1>2, <1>14 DEF Ledger!Next, Ledger!Extend

(* Every other step leaves the ledger alone.                                *)
LEMMA LedgerStep ==
  ASSUME TypeOK, CallsFit, ChainLinear, NoGaps, MarksFit, TypeOK', ChainLinear', [Next]_vars
  PROVE  [Ledger!Next]_History
<1>1. CASE UNCHANGED blocks
  BY <1>1 DEF History, Sequences, Entry
<1>2. ASSUME NEW c \in Callers, NEW ok \in BOOLEAN, Mark(c, ok)
      PROVE  UNCHANGED blocks \/ Ledger!Next
  <2>1. CASE ok = TRUE
    BY <1>2, <2>1, MarkSettles
  <2>2. CASE ok = FALSE
    BY <1>2, <2>2 DEF Mark
  <2> QED
    BY <2>1, <2>2
<1>3. ASSUME NEW c \in Callers, NEW invalid \in BOOLEAN, NEW lost \in BOOLEAN,
             Store(c, invalid, lost)
      PROVE Ledger!Next
  BY <1>3, StoreExtends
<1> QED
  BY <1>1, <1>2, <1>3, BlockSteps

-----------------------------------------------------------------------------
(* What a step does to the deployments                                      *)

Untouched(d) ==
  /\ running'[d] = running[d]
  /\ \A b \in DOMAIN blocks : blocks[b].device = d => blocks'[b].status = blocks[b].status

Others(c) == \A x \in Callers \ {c} : op'[x] = op[x]

(* A call that deploys nothing takes a step.                                *)
Waits(c) ==
  /\ op[c].pc \notin Deploying /\ op'[c].pc \notin Deploying /\ op'[c].mark = "pending"
  /\ Others(c)
  /\ UNCHANGED <<pending, running, disturbed>>
  /\ \A d \in Devices : Untouched(d)

(* It enters the deployment of the block.                                   *)
Enters(c, b) ==
  /\ op[c].pc = "idle" \/ (op[c].pc = "get" /\ op[c].block = b)
  /\ op'[c].pc \in {"prepare", "leave"}
  /\ op'[c].device = blocks[b].device /\ op'[c].block = b
  /\ op'[c].mark = op[c].mark /\ op'[c].target = op[c].target
  /\ Others(c)
  /\ b \in DOMAIN blocks /\ blocks[b].status # "applied"
  /\ pending' = [pending EXCEPT ![b] = c]
  /\ disturbed \subseteq disturbed'
  /\ Busy(c, blocks[b].device) => blocks[b].device \in disturbed'
  /\ UNCHANGED <<blocks, running>>

(* It goes on with its deployment.                                          *)
Advances(c) ==
  /\ op[c].pc \in Deploying \ {"leave"} /\ op'[c].pc \in Deploying
  /\ op'[c].device = op[c].device /\ op'[c].block = op[c].block
  /\ op'[c].target = op[c].target
  /\ op'[c].pc = "mark" => op'[c].mark # "pending"
  /\ Others(c)
  /\ UNCHANGED pending
  /\ disturbed \subseteq disturbed'
  /\ \A d \in Devices \ {op[c].device} : Untouched(d)

(* It ends its deployment.                                                  *)
Leaves(c) ==
  /\ op[c].pc = "leave" /\ op'[c] = Idle
  /\ Others(c)
  /\ pending' = [pending EXCEPT ![op[c].block] = None]
  /\ UNCHANGED <<blocks, running, disturbed>>

(* Nothing of the deployments changes.                                      *)
Stands == UNCHANGED <<blocks, op, pending, running, disturbed>>

LEMMA NothingTouched ==
  ASSUME UNCHANGED <<blocks, running>>
  PROVE  \A d \in Devices : Untouched(d)
BY DEF Untouched

(* A call before its deployment keeps to what its Rollback found.           *)
KeepsTarget(c) ==
  Grown /\ RollbackFits(op[c]) => \A call : call = op'[c] => RollbackFits(call)'

LEMMA CreateWaits ==
  ASSUME TypeOK, NEW c \in Callers, NEW d \in Devices, NEW config \in Configs,
         Create(c, d, config)
  PROVE  Waits(c) /\ KeepsTarget(c)
<1>1. op \in [Callers -> Op]
  BY DEF TypeOK
<1>2. op'[c].pc = "latest" /\ op'[c].mark = "pending" /\ op'[c].target = 0
  BY <1>1 DEF Create, Idle
<1>3. Waits(c)
  BY <1>1, <1>2, NothingTouched DEF Create, Waits, Others, Deploying
<1>4. KeepsTarget(c)
  BY <1>2 DEF KeepsTarget, RollbackFits
<1> QED
  BY <1>3, <1>4

LEMMA RollbackWaits ==
  ASSUME TypeOK, NEW c \in Callers, NEW t \in DOMAIN blocks, Rollback(c, t)
  PROVE  Waits(c) /\ KeepsTarget(c)
<1>1. op \in [Callers -> Op]
  BY DEF TypeOK
<1>2. /\ op'[c].pc = "latest" /\ op'[c].mark = "pending" /\ op'[c].target = t
      /\ op'[c].device = blocks[t].device /\ op'[c].config = blocks[t].config
  BY <1>1 DEF Rollback, Idle
<1>3. Waits(c)
  BY <1>1, <1>2, NothingTouched DEF Rollback, Waits, Others, Deploying
<1>4. UNCHANGED blocks
  BY DEF Rollback
<1>5. KeepsTarget(c)
  BY <1>2, <1>4 DEF KeepsTarget, RollbackFits, Deploying
<1> QED
  BY <1>3, <1>5

LEMMA ReadLatestWaits ==
  ASSUME TypeOK, MarksFit, NEW c \in Callers, NEW b \in Nat, ReadLatest(c, b)
  PROVE  Waits(c) /\ KeepsTarget(c)
<1>1. op \in [Callers -> Op] /\ op[c] \in Op
  BY DEF TypeOK
<1>2. op[c].mark = "pending"
  BY DEF ReadLatest, MarksFit, Deploying
<1>3. /\ op'[c].pc = "store" /\ op'[c].mark = "pending" /\ op'[c].latest = b
      /\ op'[c].target = op[c].target /\ op'[c].device = op[c].device
      /\ op'[c].config = op[c].config
  BY <1>1, <1>2 DEF ReadLatest, Op
<1>4. Waits(c)
  BY <1>1, <1>3, NothingTouched DEF ReadLatest, Waits, Others, Deploying
<1>5. op[c].pc = "latest" /\ UNCHANGED blocks
  BY DEF ReadLatest
<1>6. ASSUME RollbackFits(op[c]), op[c].target # 0
      PROVE  b # 0 /\ blocks[op[c].target].seq <= blocks[b].seq
  <2>1. op[c].target \in DOMAIN blocks /\ blocks[op[c].target].device = op[c].device
    BY <1>5, <1>6 DEF RollbackFits
  <2>2. b \in DOMAIN blocks /\ blocks[op[c].target].seq <= blocks[b].seq
    BY <2>1 DEF ReadLatest, IsLatest
  <2> QED
    BY <2>2, BlockType DEF TypeOK
<1>7. KeepsTarget(c)
  BY <1>3, <1>5, <1>6 DEF KeepsTarget, RollbackFits, Deploying
<1> QED
  BY <1>4, <1>7

LEMMA AbandonWaits ==
  ASSUME TypeOK, NEW c \in Callers, Abandon(c)
  PROVE  Waits(c) /\ KeepsTarget(c)
<1>1. op \in [Callers -> Op]
  BY DEF TypeOK
<1>2. op'[c].pc = "idle" /\ op'[c].mark = "pending" /\ op'[c].target = 0
  BY <1>1 DEF Abandon, End, Idle
<1>3. Waits(c)
  BY <1>1, <1>2, NothingTouched DEF Abandon, End, Waits, Others, Deploying
<1>4. KeepsTarget(c)
  BY <1>2 DEF KeepsTarget, RollbackFits
<1> QED
  BY <1>3, <1>4

LEMMA StoreWaits ==
  ASSUME TypeOK, CallsFit, NEW c \in Callers, NEW invalid \in BOOLEAN, NEW lost \in BOOLEAN,
         Store(c, invalid, lost)
  PROVE  Waits(c) /\ KeepsTarget(c)
<1>1. op \in [Callers -> Op]
  BY DEF TypeOK
<1>2. op'[c].pc \in {"idle", "get"} /\ op'[c].mark = "pending"
  BY <1>1 DEF Store, AfterStore, Idle
<1>3. \A b \in DOMAIN blocks : blocks'[b] = blocks[b]
  <2>1. PICK block \in Block : blocks' = Append(blocks, block)
    BY NewBlockType DEF Store
  <2> QED
    BY <2>1, AppendProperties, LenProperties DEF TypeOK
<1>4. \A d \in Devices : Untouched(d)
  BY <1>3 DEF Untouched, Store
<1>5. Waits(c)
  BY <1>1, <1>2, <1>4 DEF Store, Waits, Others, Deploying
<1>6. \/ op'[c].target = 0
      \/ /\ op'[c].pc = "get" /\ op'[c].target = op[c].target
         /\ op'[c].block = Len(blocks) + 1
  BY <1>1 DEF Store, AfterStore, Idle
<1>7. KeepsTarget(c)
  <2> SUFFICES ASSUME RollbackFits(op[c]), NEW call, call = op'[c], call.target # 0
               PROVE  RollbackFits(call)'
    BY <1>2 DEF KeepsTarget, RollbackFits, Deploying
  <2>1. PICK t, new : t = op[c].target /\ new = Len(blocks) + 1
    OBVIOUS
  <2>2. call.target = t /\ t # 0 /\ call.block = new /\ call.pc = "get"
    BY <1>6, <2>1
  <2>3. /\ t \in DOMAIN blocks /\ blocks[t].config = op[c].config
        /\ op[c].latest # 0 /\ blocks[t].seq <= blocks[op[c].latest].seq
    BY <2>1, <2>2 DEF Store, RollbackFits
  <2>4. blocks'[new].config = op[c].config /\ blocks'[new].seq = blocks[op[c].latest].seq + 1
    <3>1. blocks'[new] = NewBlock(op[c].device, op[c].config, op[c].latest, invalid)
      BY <2>1, StoreGrows
    <3> QED
      BY <2>3, <3>1 DEF NewBlock
  <2>5. /\ blocks'[t].config = blocks[t].config /\ blocks'[t].seq = blocks[t].seq
        /\ t \in DOMAIN blocks'
    <3>1. /\ Len(blocks) \in Nat /\ DOMAIN blocks = 1 .. Len(blocks)
          /\ DOMAIN blocks' = 1 .. Len(blocks) + 1
      <4>1. blocks' \in Seq(Block) /\ Len(blocks') = Len(blocks) + 1
        BY StoreGrows DEF Grown
      <4> QED
        BY <4>1, LenProperties DEF TypeOK
    <3> QED
      BY <1>3, <2>3, <3>1
  <2>6. blocks[t].seq \in Nat /\ blocks[op[c].latest].seq \in Nat
    BY <2>3, BlockType DEF TypeOK, CallsFit, Fits, Store
  <2> QED
    BY <2>2, <2>3, <2>4, <2>5, <2>6 DEF RollbackFits, Deploying
<1> QED
  BY <1>5, <1>7

LEMMA EnterEnters ==
  ASSUME TypeOK, NEW c \in Callers, NEW b \in DOMAIN blocks, NEW mode \in Modes,
         op[c].pc = "idle" \/ (op[c].pc = "get" /\ op[c].block = b), Enter(c, b, mode)
  PROVE  Enters(c, b)
<1>1. op \in [Callers -> Op] /\ op[c] \in Op
  BY DEF TypeOK
<1>2. /\ op'[c].pc \in {"prepare", "leave"} /\ op'[c].mark = op[c].mark
      /\ op'[c].target = op[c].target
      /\ op'[c].device = blocks[b].device /\ op'[c].block = b
  BY <1>1 DEF Enter, Op
<1>3. disturbed \subseteq disturbed' /\ (Busy(c, blocks[b].device) => blocks[b].device \in disturbed')
  BY DEF Enter
<1> QED
  BY <1>1, <1>2, <1>3 DEF Enter, Enters, Others, Deploying

(* A deployment that goes on keeps its undisturbed device in order.         *)
KeepsOrder(c) ==
  op[c].device \notin disturbed' /\ DeployFits(op[c])
    => \A call : call = op'[c] => DeployFits(call)'

LEMMA RecordFields ==
  ASSUME NEW call \in Op, NEW outcome
  PROVE  /\ Record(call, outcome).pc = "mark" /\ Record(call, outcome).mark = outcome
         /\ Record(call, outcome).device = call.device
         /\ Record(call, outcome).block = call.block
         /\ Record(call, outcome).target = call.target
         /\ Record(call, outcome).saved = 0
BY DEF Record, Op

LEMMA PrepareAdvances ==
  ASSUME TypeOK, NEW c \in Callers, NEW ok \in BOOLEAN, Prepare(c, ok)
  PROVE  Advances(c) /\ KeepsOrder(c)
<1>1. op \in [Callers -> Op] /\ op[c] \in Op
  BY DEF TypeOK
<1>2. /\ op[c].pc = "prepare" /\ UNCHANGED <<blocks, pending, running, disturbed>>
      /\ Others(c)
  BY <1>1 DEF Prepare, Others
<1>3. /\ op'[c].device = op[c].device /\ op'[c].block = op[c].block
      /\ op'[c].target = op[c].target
      /\ \/ op'[c].pc = "commit" /\ op'[c].saved = running[op[c].device]
         \/ op'[c].pc = "mark" /\ op'[c].mark = "failed"
  <2>1. CASE ok
    BY <1>1, <2>1 DEF Prepare, Op
  <2>2. CASE ~ok
    <3>1. op'[c] = Record(op[c], "failed")
      BY <1>1, <2>2 DEF Prepare
    <3> QED
      BY <1>1, <3>1, RecordFields
  <2> QED
    BY <2>1, <2>2
<1>4. Advances(c)
  BY <1>2, <1>3, NothingTouched DEF Advances, Deploying
<1>5. KeepsOrder(c)
  BY <1>2, <1>3 DEF KeepsOrder, DeployFits, Settled
<1> QED
  BY <1>4, <1>5

LEMMA CommitAdvances ==
  ASSUME TypeOK, CallsFit, NEW c \in Callers, NEW ok \in BOOLEAN, NEW landed \in BOOLEAN,
         Commit(c, ok, landed)
  PROVE  Advances(c) /\ KeepsOrder(c)
<1>1. /\ op \in [Callers -> Op] /\ op[c] \in Op /\ op[c].device \in Devices
      /\ running \in [Devices -> Nat]
  BY DEF TypeOK, CallsFit, Fits, Commit
<1>2. /\ op[c].pc = "commit" /\ UNCHANGED <<blocks, pending>> /\ disturbed \subseteq disturbed'
      /\ Others(c)
  BY <1>1 DEF Commit, Others
<1>3. \A d \in Devices \ {op[c].device} : Untouched(d)
  BY <1>1 DEF Commit, Untouched
<1>4. /\ op'[c].device = op[c].device /\ op'[c].block = op[c].block
      /\ op'[c].target = op[c].target
      /\ \/ /\ running'[op[c].device] = op[c].block
            /\ \/ op'[c].pc = "mark" /\ op'[c].mark = "applied"
               \/ op'[c].pc = "verify" /\ op'[c].saved = op[c].saved
         \/ /\ op'[c].pc = "mark" /\ op'[c].mark = "failed"
            /\ op[c].device \in disturbed' \/ UNCHANGED running
  <2>1. CASE ok /\ op[c].mode = "unchecked"
    <3>1. op'[c] = Record(op[c], "applied")
      BY <1>1, <2>1 DEF Commit
    <3>2. running'[op[c].device] = op[c].block
      BY <1>1, <2>1 DEF Commit
    <3> QED
      BY <1>1, <3>1, <3>2, RecordFields
  <2>2. CASE ok /\ op[c].mode # "unchecked"
    <3>1. op'[c] = [op[c] EXCEPT !.pc = "verify"]
      BY <1>1, <2>2 DEF Commit
    <3>2. running'[op[c].device] = op[c].block
      BY <1>1, <2>2 DEF Commit
    <3> QED
      BY <1>1, <3>1, <3>2 DEF Op
  <2>3. CASE ~ok
    <3>1. op'[c] = Record(op[c], "failed")
      BY <1>1, <2>3 DEF Commit
    <3>2. op[c].device \in disturbed' \/ UNCHANGED running
      BY <1>1, <2>3 DEF Commit
    <3> QED
      BY <1>1, <3>1, <3>2, RecordFields
  <2> QED
    BY <2>1, <2>2, <2>3
<1>5. Advances(c)
  BY <1>2, <1>3, <1>4 DEF Advances, Deploying
<1>6. KeepsOrder(c)
  BY <1>2, <1>4 DEF KeepsOrder, DeployFits, Settled
<1> QED
  BY <1>5, <1>6

LEMMA VerifyAdvances ==
  ASSUME TypeOK, NEW c \in Callers, NEW ok \in BOOLEAN, Verify(c, ok)
  PROVE  Advances(c) /\ KeepsOrder(c)
<1>1. op \in [Callers -> Op] /\ op[c] \in Op
  BY DEF TypeOK
<1>2. /\ op[c].pc = "verify" /\ UNCHANGED <<blocks, pending, running, disturbed>>
      /\ Others(c)
  BY <1>1 DEF Verify, Others
<1>3. /\ op'[c].device = op[c].device /\ op'[c].block = op[c].block
      /\ op'[c].target = op[c].target
      /\ \/ op'[c].pc = "undo" /\ op'[c].saved = op[c].saved
         \/ op'[c].pc = "mark" /\ op'[c].mark = "applied"
  <2>1. CASE op' = [op EXCEPT ![c] = [@ EXCEPT !.pc = "undo"]]
    BY <1>1, <2>1 DEF Op
  <2>2. CASE op' = [op EXCEPT ![c] = Record(@, "applied")]
    <3>1. op'[c] = Record(op[c], "applied")
      BY <1>1, <2>2
    <3> QED
      BY <1>1, <3>1, RecordFields
  <2> QED
    BY <2>1, <2>2 DEF Verify
<1>4. Advances(c)
  BY <1>2, <1>3, NothingTouched DEF Advances, Deploying
<1>5. KeepsOrder(c)
  BY <1>2, <1>3 DEF KeepsOrder, DeployFits, Settled
<1> QED
  BY <1>4, <1>5

LEMMA UndoAdvances ==
  ASSUME TypeOK, CallsFit, NEW c \in Callers, NEW ok \in BOOLEAN, Undo(c, ok)
  PROVE  Advances(c) /\ KeepsOrder(c)
<1>1. /\ op \in [Callers -> Op] /\ op[c] \in Op /\ op[c].device \in Devices
      /\ running \in [Devices -> Nat]
  BY DEF TypeOK, CallsFit, Fits, Undo
<1>2. /\ op[c].pc = "undo" /\ UNCHANGED <<blocks, pending>> /\ disturbed \subseteq disturbed'
      /\ Others(c)
  BY <1>1 DEF Undo, Others
<1>3. \A d \in Devices \ {op[c].device} : Untouched(d)
  BY <1>1 DEF Undo, Untouched
<1>4. /\ op'[c].device = op[c].device /\ op'[c].block = op[c].block
      /\ op'[c].target = op[c].target
      /\ op'[c].pc = "mark" /\ op'[c].mark = "rolled_back"
  <2>1. op'[c] = Record(op[c], "rolled_back")
    BY <1>1 DEF Undo
  <2> QED
    BY <1>1, <2>1, RecordFields
<1>5. op[c].device \in disturbed' \/ running'[op[c].device] = op[c].saved
  BY <1>1 DEF Undo
<1>6. Advances(c)
  BY <1>2, <1>3, <1>4 DEF Advances, Deploying
<1>7. KeepsOrder(c)
  BY <1>2, <1>4, <1>5 DEF KeepsOrder, DeployFits, Settled
<1> QED
  BY <1>6, <1>7

LEMMA MarkAdvances ==
  ASSUME TypeOK, CallsFit, OnlyValidBlocksRun, NEW c \in Callers, NEW ok \in BOOLEAN, Mark(c, ok)
  PROVE  Advances(c) /\ KeepsOrder(c)
<1>1. /\ op \in [Callers -> Op] /\ op[c] \in Op /\ op[c].device \in Devices
      /\ op[c].block \in DOMAIN blocks /\ blocks[op[c].block].device = op[c].device
  BY DEF TypeOK, CallsFit, Fits, Mark, Deploying
<1>2. /\ op[c].pc = "mark" /\ UNCHANGED <<running, pending>> /\ disturbed \subseteq disturbed'
      /\ Others(c)
  BY <1>1 DEF Mark, Others
<1>3. /\ \A b \in DOMAIN blocks \ {op[c].block} : blocks'[b].status = blocks[b].status
      /\ op[c].device \in disturbed' \/ blocks'[op[c].block].status = op[c].mark
  <2>1. CASE ok = TRUE
    <3>1. blocks[op[c].block] \in Block
      BY <1>1, BlockType DEF TypeOK
    <3>2. [blocks[op[c].block] EXCEPT !.status = op[c].mark].status = op[c].mark
      BY <3>1 DEF Block
    <3>3. blocks' = [blocks EXCEPT ![op[c].block].status = op[c].mark]
      BY <2>1 DEF Mark
    <3> QED
      BY <1>1, <3>2, <3>3
  <2>2. CASE ok = FALSE
    BY <2>2 DEF Mark
  <2> QED
    BY <2>1, <2>2
<1>4. \A d \in Devices \ {op[c].device} : Untouched(d)
  BY <1>1, <1>2, <1>3 DEF Untouched
<1>5. /\ op'[c].device = op[c].device /\ op'[c].block = op[c].block
      /\ op'[c].target = op[c].target
      /\ op'[c].pc = "leave" /\ op'[c].mark = op[c].mark
  BY <1>1 DEF Mark, Op
<1>6. Advances(c)
  BY <1>2, <1>4, <1>5 DEF Advances, Deploying
<1>7. KeepsOrder(c)
  <2> SUFFICES ASSUME op[c].device \notin disturbed', DeployFits(op[c]), NEW call, call = op'[c]
               PROVE  DeployFits(call)'
    BY DEF KeepsOrder
  <2>1. PICK d, b : d = op[c].device /\ b = op[c].block
    OBVIOUS
  <2>2. IF op[c].mark = "applied" THEN running[d] = b
                                  ELSE Settled(d) /\ blocks[b].status # "applied"
    BY <1>2, <2>1 DEF DeployFits
  <2>3. running[d] # 0 => running[d] \in DOMAIN blocks
    BY <1>1, <2>1 DEF OnlyValidBlocksRun
  <2>4. blocks'[b].status = op[c].mark
    BY <1>3, <2>1
  <2>5. Settled(d)'
    BY <1>2, <1>3, <2>1, <2>2, <2>3, <2>4 DEF Settled
  <2>6. op[c].mark = "applied" => running'[d] = b
    BY <1>2, <2>2
  <2> QED
    BY <1>5, <2>1, <2>5, <2>6 DEF DeployFits
<1> QED
  BY <1>6, <1>7

LEMMA LeaveLeaves ==
  ASSUME TypeOK, NEW c \in Callers, Leave(c)
  PROVE  Leaves(c)
BY DEF TypeOK, Leave, End, Leaves, Others

LEMMA StepKinds ==
  ASSUME TypeOK, CallsFit, OnlyValidBlocksRun, MarksFit, [Next]_vars
  PROVE  \/ Stands
         \/ Crash
         \/ \E c \in Callers : Waits(c) /\ KeepsTarget(c)
         \/ \E c \in Callers : \E b \in DOMAIN blocks : Enters(c, b)
         \/ \E c \in Callers : Advances(c) /\ KeepsOrder(c)
         \/ \E c \in Callers : Leaves(c)
<1> DEFINE Kinds(c) == \/ Waits(c) /\ KeepsTarget(c)
                       \/ \E b \in DOMAIN blocks : Enters(c, b)
                       \/ Advances(c) /\ KeepsOrder(c)
                       \/ Leaves(c)
<1>1. ASSUME NEW c \in Callers, NEW d \in Devices, NEW config \in Configs, Create(c, d, config)
      PROVE Kinds(c)
  BY <1>1, CreateWaits
<1>2. ASSUME NEW c \in Callers, NEW t \in DOMAIN blocks, Rollback(c, t) PROVE Kinds(c)
  BY <1>2, RollbackWaits
<1>3. ASSUME NEW c \in Callers, NEW b \in DOMAIN blocks, NEW mode \in Modes, Deploy(c, b, mode)
      PROVE Kinds(c)
  BY <1>3, EnterEnters DEF Deploy
<1>4. ASSUME NEW c \in Callers, Proceed(c) PROVE Kinds(c)
  <2>1. ASSUME NEW b \in 0 .. MaxBlocks, ReadLatest(c, b) PROVE Kinds(c)
    BY <1>4, <2>1, ReadLatestWaits, BoundsAssumption
  <2>2. ASSUME NEW invalid \in BOOLEAN, NEW lost \in BOOLEAN, Store(c, invalid, lost)
        PROVE Kinds(c)
    BY <1>4, <2>2, StoreWaits
  <2>3. ASSUME Abandon(c) PROVE Kinds(c)
    BY <1>4, <2>3, AbandonWaits
  <2>4. ASSUME DeployRollback(c) PROVE Kinds(c)
    <3>1. op[c].block \in DOMAIN blocks /\ "unchecked" \in Modes
      BY <1>4, <2>4 DEF CallsFit, Fits, DeployRollback, Modes
    <3> QED
      BY <1>4, <2>4, <3>1, EnterEnters DEF DeployRollback
  <2>5. ASSUME NEW ok \in BOOLEAN, Prepare(c, ok) \/ Verify(c, ok) \/ Undo(c, ok) \/ Mark(c, ok)
        PROVE Kinds(c)
    BY <1>4, <2>5, PrepareAdvances, VerifyAdvances, UndoAdvances, MarkAdvances
  <2>6. ASSUME NEW ok \in BOOLEAN, NEW landed \in BOOLEAN, Commit(c, ok, landed) PROVE Kinds(c)
    BY <1>4, <2>6, CommitAdvances
  <2>7. ASSUME Leave(c) PROVE Kinds(c)
    BY <1>4, <2>7, LeaveLeaves
  <2> HIDE DEF Kinds
  <2> QED
    BY <1>4, <2>1, <2>2, <2>3, <2>4, <2>5, <2>6, <2>7 DEF Proceed
<1>5. ASSUME NEW d \in Devices, Tamper(d) PROVE Stands
  BY <1>5 DEF Tamper, Stands
<1>6. ASSUME UNCHANGED vars PROVE Stands
  BY <1>6 DEF vars, Stands
<1>7. \/ Stands \/ Crash
      \/ \E c \in Callers : Kinds(c)
  <2> HIDE DEF Kinds
  <2>1. CASE Next
    BY <1>1, <1>2, <1>3, <1>4, <1>5, <2>1, Zenon DEF Next
  <2> QED
    BY <1>6, <2>1
<1> QED
  BY <1>7

LEMMA MarksFitStep ==
  ASSUME TypeOK, CallsFit, OnlyValidBlocksRun, MarksFit, [Next]_vars
  PROVE  MarksFit'
<1>1. CASE Stands
  BY <1>1 DEF Stands, MarksFit
<1>2. CASE Crash
  BY <1>2 DEF Crash, MarksFit, Idle
<1>3. ASSUME NEW c \in Callers, Waits(c) PROVE MarksFit'
  BY <1>3 DEF Waits, Others, MarksFit, Deploying
<1>4. ASSUME NEW c \in Callers, NEW b \in DOMAIN blocks, Enters(c, b) PROVE MarksFit'
  BY <1>4 DEF Enters, Others, MarksFit, Deploying
<1>5. ASSUME NEW c \in Callers, Advances(c) PROVE MarksFit'
  BY <1>5 DEF Advances, Others, MarksFit
<1>6. ASSUME NEW c \in Callers, Leaves(c) PROVE MarksFit'
  BY <1>6 DEF Leaves, Others, MarksFit, Idle
<1> QED
  BY <1>1, <1>2, <1>3, <1>4, <1>5, <1>6, StepKinds

(* A second deployment disturbs its device.                                 *)
LEMMA OneDeploysStep ==
  ASSUME TypeOK, CallsFit, OnlyValidBlocksRun, MarksFit, OneDeploys, [Next]_vars
  PROVE  OneDeploys'
<1>1. CASE Stands
  BY <1>1 DEF Stands, OneDeploys
<1>2. CASE Crash
  BY <1>2 DEF Crash, OneDeploys, Idle, Deploying
<1>3. ASSUME NEW c \in Callers, Waits(c) PROVE OneDeploys'
  BY <1>3 DEF Waits, Others, OneDeploys
<1>4. ASSUME NEW c \in Callers, NEW b \in DOMAIN blocks, Enters(c, b) PROVE OneDeploys'
  BY <1>4 DEF Enters, Others, OneDeploys, Busy
<1>5. ASSUME NEW c \in Callers, Advances(c) PROVE OneDeploys'
  BY <1>5 DEF Advances, Others, OneDeploys
<1>6. ASSUME NEW c \in Callers, Leaves(c) PROVE OneDeploys'
  BY <1>6 DEF Leaves, Others, OneDeploys, Idle, Deploying
<1> QED
  BY <1>1, <1>2, <1>3, <1>4, <1>5, <1>6, StepKinds

(* The bound on blocks, within which pendingDeploys has an entry for each.  *)
Bounded == Len(blocks) <= MaxBlocks

LEMMA BoundedStep ==
  ASSUME TypeOK, CallsFit, Bounded, [Next]_vars
  PROVE  Bounded'
<1>1. CASE UNCHANGED blocks
  BY <1>1 DEF Bounded
<1>2. ASSUME NEW c \in Callers, NEW invalid \in BOOLEAN, NEW lost \in BOOLEAN,
             Store(c, invalid, lost)
      PROVE Bounded'
  <2>1. Len(blocks) < MaxBlocks /\ Len(blocks) \in Nat
    BY <1>2, BlockType DEF Store, TypeOK
  <2> QED
    BY <1>2, <2>1, StoreGrows, BoundsAssumption DEF Bounded
<1>3. ASSUME NEW c \in Callers, NEW ok \in BOOLEAN, Mark(c, ok) PROVE Bounded'
  BY <1>3, MarkGrows DEF Bounded
<1> QED
  BY <1>1, <1>2, <1>3, BlockSteps

LEMMA PendingStep ==
  ASSUME TypeOK, CallsFit, OnlyValidBlocksRun, MarksFit, OneDeploys, Bounded,
         PendingMatchesDeploys, [Next]_vars
  PROVE  PendingMatchesDeploys'
<1>0. /\ pending \in [1 .. MaxBlocks -> Callers \union {None}]
      /\ None \notin Callers
      /\ DOMAIN blocks \subseteq 1 .. MaxBlocks
  BY LenProperties, BoundsAssumption, NoneAssumption DEF TypeOK, Bounded
<1>1. CASE Stands
  BY <1>1 DEF Stands, PendingMatchesDeploys
<1>2. CASE Crash
  BY <1>2 DEF Crash, PendingMatchesDeploys, Idle, Deploying
<1>3. ASSUME NEW c \in Callers, Waits(c) PROVE PendingMatchesDeploys'
  BY <1>0, <1>3 DEF Waits, Others, PendingMatchesDeploys
<1>4. ASSUME NEW c \in Callers, NEW b \in DOMAIN blocks, Enters(c, b) PROVE PendingMatchesDeploys'
  <2>1. op'[c].pc \in Deploying
    BY <1>4 DEF Enters, Deploying
  <2>2. ASSUME NEW e \in 1 .. MaxBlocks, pending'[e] # None
        PROVE  op'[pending'[e]].pc \in Deploying /\ op'[pending'[e]].block = e
    <3>1. op[c].pc \notin Deploying
      BY <1>4 DEF Enters, Deploying
    <3> QED
      BY <1>0, <1>4, <2>1, <2>2, <3>1 DEF Enters, Others, PendingMatchesDeploys
  <2>3. ASSUME NEW x \in Callers, op'[x].pc \in Deploying, op'[x].device \notin disturbed'
        PROVE  pending'[op'[x].block] = x
    <3>1. CASE x = c
      BY <1>0, <1>4, <3>1 DEF Enters
    <3>2. CASE x # c
      <4>1. op'[x] = op[x] /\ op[x].device \notin disturbed /\ pending[op[x].block] = x
        BY <1>4, <2>3, <3>2 DEF Enters, Others, PendingMatchesDeploys
      <4>2. op[x].block \in DOMAIN blocks /\ blocks[op[x].block].device = op[x].device
        BY <2>3, <4>1 DEF CallsFit, Fits
      <4>3. op[x].block # b
        BY <1>4, <2>3, <3>2, <4>1, <4>2 DEF Enters, Busy
      <4> QED
        BY <1>0, <1>4, <4>1, <4>2, <4>3 DEF Enters
    <3> QED
      BY <3>1, <3>2
  <2> QED
    BY <2>2, <2>3 DEF PendingMatchesDeploys
<1>5. ASSUME NEW c \in Callers, Advances(c) PROVE PendingMatchesDeploys'
  BY <1>0, <1>5 DEF Advances, Others, PendingMatchesDeploys
<1>6. ASSUME NEW c \in Callers, Leaves(c) PROVE PendingMatchesDeploys'
  <2>1. op[c].pc \in Deploying /\ op'[c].pc \notin Deploying
    BY <1>6 DEF Leaves, Deploying, Idle
  <2>2. ASSUME NEW e \in 1 .. MaxBlocks, pending'[e] # None
        PROVE  op'[pending'[e]].pc \in Deploying /\ op'[pending'[e]].block = e
    <3>1. pending'[e] = pending[e] /\ e # op[c].block
      BY <1>0, <1>6, <2>2 DEF Leaves
    <3>2. op[pending[e]].block = e /\ op[pending[e]].pc \in Deploying /\ pending[e] \in Callers
      BY <1>0, <2>2, <3>1 DEF PendingMatchesDeploys
    <3> QED
      BY <1>6, <3>1, <3>2 DEF Leaves, Others
  <2>3. ASSUME NEW x \in Callers, op'[x].pc \in Deploying, op'[x].device \notin disturbed'
        PROVE  pending'[op'[x].block] = x
    <3>1. x # c /\ op'[x] = op[x] /\ op[x].device \notin disturbed /\ pending[op[x].block] = x
      BY <1>6, <2>1, <2>3 DEF Leaves, Others, PendingMatchesDeploys
    <3>2. op[x].block # op[c].block
      BY <2>1, <2>3, <3>1 DEF OneDeploys, CallsFit, Fits
    <3>3. op[x].block \in DOMAIN blocks
      BY <2>3, <3>1 DEF CallsFit, Fits
    <3> QED
      BY <1>0, <1>6, <3>1, <3>2, <3>3 DEF Leaves
  <2> QED
    BY <2>2, <2>3 DEF PendingMatchesDeploys
<1> QED
  BY <1>1, <1>2, <1>3, <1>4, <1>5, <1>6, StepKinds

-----------------------------------------------------------------------------
(* What an undisturbed device runs                                          *)

LEMMA UntouchedSettled ==
  ASSUME OnlyValidBlocksRun, NEW d \in Devices, Untouched(d), Settled(d)
  PROVE  Settled(d)'
BY DEF OnlyValidBlocksRun, Untouched, Settled

LEMMA UntouchedFits ==
  ASSUME OnlyValidBlocksRun, NEW call, Fits(call), call.pc \in Deploying,
         Untouched(call.device), DeployFits(call)
  PROVE  DeployFits(call)'
<1>1. PICK d, b : d = call.device /\ b = call.block
  OBVIOUS
<1>2. d \in Devices /\ b \in DOMAIN blocks /\ blocks[b].device = d
  BY <1>1 DEF Fits, Deploying
<1>3. blocks'[b].status = blocks[b].status /\ running'[d] = running[d]
  BY <1>1, <1>2 DEF Untouched
<1>4. Settled(d) => Settled(d)'
  BY <1>1, <1>2, UntouchedSettled
<1>5. call.saved # 0 => blocks'[call.saved].status = blocks[call.saved].status
  BY <1>1 DEF Fits, Runnable, Untouched
<1> QED
  BY <1>1, <1>3, <1>4, <1>5 DEF DeployFits

(* Nobody else works on the device of a deployment nothing disturbed.       *)
LEMMA DeploysFitStep ==
  ASSUME TypeOK, CallsFit, OnlyValidBlocksRun, MarksFit, OneDeploys, StatusTellsRunning,
         DeploysFit, [Next]_vars
  PROVE  DeploysFit' /\ StatusTellsRunning'
<1> DEFINE InOrder(x) == \A call : call = op'[x] => DeployFits(call)'
           Works(x)   == op'[x].pc \in Deploying /\ op'[x].device \notin disturbed'
           Free(d)    == d \notin disturbed' /\ \A x \in Callers : op'[x].pc \in Deploying
                                                              => op'[x].device # d
<1>1. /\ \A d \in Devices : d \notin disturbed /\ Quiet(d) => Settled(d)
      /\ \A x \in Callers : op[x].pc \in Deploying => Fits(op[x]) /\ op[x].device \in Devices
  BY DEF StatusTellsRunning, Settled, CallsFit, Fits, Deploying
<1>2. ASSUME NEW x \in Callers, op'[x] = op[x], Works(x), op[x].device \notin disturbed,
             Untouched(op[x].device)
      PROVE  InOrder(x)
  <2>1. PICK call : call = op[x]
    OBVIOUS
  <2>2. Fits(call) /\ call.pc \in Deploying /\ DeployFits(call) /\ Untouched(call.device)
    BY <1>1, <1>2, <2>1 DEF DeploysFit
  <2>3. DeployFits(call)'
    BY <2>2, UntouchedFits
  <2> QED
    BY <1>2, <2>1, <2>3
<1>3. ASSUME NEW d \in Devices, d \notin disturbed, Quiet(d), Untouched(d) PROVE Settled(d)'
  BY <1>1, <1>3, UntouchedSettled
<1> DEFINE Good == /\ \A x \in Callers : Works(x) => InOrder(x)
                   /\ \A d \in Devices : Free(d) => Settled(d)'
<1>4. ASSUME Stands PROVE Good
  <2>1. \A d \in Devices : Untouched(d)
    BY <1>4, NothingTouched DEF Stands
  <2> HIDE DEF InOrder
  <2> QED
    BY <1>1, <1>2, <1>3, <1>4, <2>1 DEF Stands, Quiet
<1>5. ASSUME Crash PROVE Good
  <2>1. \A x \in Callers : ~ Works(x)
    BY <1>5 DEF Crash, Idle, Deploying
  <2>2. ASSUME NEW d \in Devices, d \notin disturbed' PROVE Settled(d)'
    <3>1. d \notin disturbed /\ Quiet(d)
      BY <1>5, <2>2 DEF Crash, Quiet
    <3>2. Untouched(d)
      BY <1>5, NothingTouched DEF Crash
    <3> QED
      BY <1>3, <3>1, <3>2
  <2> HIDE DEF Works, InOrder
  <2> QED
    BY <2>1, <2>2
<1>6. ASSUME NEW c \in Callers, Waits(c) PROVE Good
  <2> HIDE DEF InOrder
  <2> QED
    BY <1>1, <1>2, <1>3, <1>6 DEF Waits, Others, Quiet
<1>7. ASSUME NEW c \in Callers, NEW b \in DOMAIN blocks, Enters(c, b) PROVE Good
  <2>1. /\ op[c].pc \notin Deploying /\ op'[c].pc \in Deploying
        /\ op[c].mark = "pending" /\ blocks[b].device \in Devices
    BY <1>7, BlockType DEF Enters, Deploying, MarksFit, TypeOK
  <2>2. \A d \in Devices : Untouched(d)
    BY <1>7, NothingTouched DEF Enters
  <2>3. ASSUME Works(c) PROVE InOrder(c)
    <3>1. PICK d : d = blocks[b].device /\ d \notin disturbed /\ Quiet(d)
      BY <1>7, <2>1, <2>3 DEF Enters, Busy, Quiet
    <3>2. Settled(d)'
      BY <1>3, <2>1, <2>2, <3>1
    <3> QED
      BY <1>7, <2>1, <3>1, <3>2 DEF Enters, DeployFits
  <2>4. ASSUME NEW x \in Callers \ {c}, Works(x) PROVE InOrder(x)
    <3> HIDE DEF InOrder
    <3> QED
      BY <1>1, <1>2, <1>7, <2>2, <2>4 DEF Enters, Others
  <2>5. ASSUME NEW d \in Devices, Free(d) PROVE Settled(d)'
    BY <1>3, <1>7, <2>1, <2>2, <2>5 DEF Enters, Others, Quiet
  <2> HIDE DEF InOrder, Works, Free
  <2> QED
    BY <2>3, <2>4, <2>5
<1>8. ASSUME NEW c \in Callers, Advances(c), KeepsOrder(c) PROVE Good
  <2>1. ASSUME Works(c) PROVE InOrder(c)
    BY <1>8, <2>1 DEF Advances, KeepsOrder, DeploysFit
  <2>2. ASSUME NEW x \in Callers \ {c}, Works(x) PROVE InOrder(x)
    <3>1. op'[x] = op[x] /\ op[x].device \notin disturbed
      BY <1>8, <2>2 DEF Advances, Others
    <3>2. op[x].device # op[c].device
      BY <1>8, <2>2, <3>1 DEF Advances, OneDeploys
    <3>3. Untouched(op[x].device)
      BY <1>1, <1>8, <2>2, <3>1, <3>2 DEF Advances
    <3> QED
      BY <1>2, <2>2, <3>1, <3>3
  <2>3. ASSUME NEW d \in Devices, Free(d) PROVE Settled(d)'
    BY <1>3, <1>8, <2>3 DEF Advances, Others, Quiet
  <2> HIDE DEF InOrder, Works, Free
  <2> QED
    BY <2>1, <2>2, <2>3
<1>9. ASSUME NEW c \in Callers, Leaves(c) PROVE Good
  <2>1. op'[c].pc \notin Deploying /\ op[c].pc \in Deploying
    BY <1>9 DEF Leaves, Idle, Deploying
  <2>2. \A d \in Devices : Untouched(d)
    BY <1>9, NothingTouched DEF Leaves
  <2>3. ASSUME NEW x \in Callers, Works(x) PROVE InOrder(x)
    <3> HIDE DEF InOrder
    <3> QED
      BY <1>1, <1>2, <1>9, <2>1, <2>2, <2>3 DEF Leaves, Others
  <2>4. ASSUME NEW d \in Devices, Free(d) PROVE Settled(d)'
    <3>1. CASE d = op[c].device
      BY <1>9, <2>1, <2>2, <2>4, <3>1, UntouchedSettled DEF Leaves, DeploysFit, DeployFits
    <3>2. CASE d # op[c].device
      BY <1>3, <1>9, <2>2, <2>4, <3>2 DEF Leaves, Others, Quiet
    <3> QED
      BY <3>1, <3>2
  <2> HIDE DEF InOrder, Works, Free
  <2> QED
    BY <2>3, <2>4
<1>10. Good
  <2> HIDE DEF Good
  <2> QED
    BY <1>4, <1>5, <1>6, <1>7, <1>8, <1>9, StepKinds
<1>11. DeploysFit'
  <2> SUFFICES ASSUME NEW x \in Callers, Works(x) PROVE DeployFits(op[x])'
    BY DEF DeploysFit
  <2>1. InOrder(x)
    BY <1>10
  <2> QED
    BY <2>1 DEF DeployFits, Settled
<1>12. StatusTellsRunning'
  BY <1>10 DEF StatusTellsRunning, Quiet, Settled
<1> QED
  BY <1>11, <1>12

-----------------------------------------------------------------------------
(* What a Rollback found                                                    *)

LEMMA RollbackStays ==
  ASSUME TypeOK, Grown, NEW call, Fits(call), RollbackFits(call)
  PROVE  RollbackFits(call)'
<1>1. /\ DOMAIN blocks = 1 .. Len(blocks) /\ DOMAIN blocks' = 1 .. Len(blocks')
      /\ Len(blocks) \in Nat /\ Len(blocks') \in Nat
  BY LenProperties DEF TypeOK, Grown
<1>2. DOMAIN blocks \subseteq DOMAIN blocks'
  BY <1>1 DEF Grown
<1>3. \A b \in DOMAIN blocks : /\ blocks'[b].device = blocks[b].device
                              /\ blocks'[b].config = blocks[b].config
                              /\ blocks'[b].seq = blocks[b].seq
  BY <1>1 DEF Grown
<1> QED
  BY <1>2, <1>3 DEF RollbackFits, Fits

LEMMA RollbacksFitStep ==
  ASSUME TypeOK, CallsFit, OnlyValidBlocksRun, MarksFit, RollbacksFit, [Next]_vars
  PROVE  RollbacksFit'
<1> DEFINE Kept(x) == \A call : call = op'[x] => RollbackFits(call)'
<1>1. Grown
  BY Grows
<1>2. ASSUME NEW x \in Callers PROVE \A call : call = op[x] => RollbackFits(call)'
  BY <1>1, RollbackStays DEF CallsFit, RollbacksFit
<1>3. ASSUME NEW x \in Callers, op'[x] = op[x] PROVE Kept(x)
  BY <1>2, <1>3
<1>4. ASSUME NEW x \in Callers, op'[x] = Idle PROVE Kept(x)
  BY <1>4 DEF RollbackFits, Idle
<1>5. ASSUME NEW c \in Callers, Waits(c), KeepsTarget(c) PROVE Kept(c)
  BY <1>1, <1>5 DEF KeepsTarget, RollbacksFit
<1>6. ASSUME NEW c \in Callers, NEW b \in DOMAIN blocks, Enters(c, b) PROVE Kept(c)
  <2>1. RollbackFits(op[c])
    BY DEF RollbacksFit
  <2> QED
    BY <1>6, <2>1 DEF Enters, RollbackFits, Deploying
<1>7. ASSUME NEW c \in Callers, Advances(c) PROVE Kept(c)
  <2>1. PICK call, next : call = op[c] /\ next = op'[c]
    OBVIOUS
  <2>2. RollbackFits(call)'
    BY <1>2, <2>1
  <2>3. /\ next.target = call.target /\ next.block = call.block
        /\ next.pc \in Deploying /\ call.pc \in Deploying
    BY <1>7, <2>1 DEF Advances
  <2>4. RollbackFits(next)'
    BY <2>2, <2>3 DEF RollbackFits, Deploying
  <2> QED
    BY <2>1, <2>4
<1>8. ASSUME NEW c \in Callers, Leaves(c) PROVE Kept(c)
  BY <1>4, <1>8 DEF Leaves
<1> HIDE DEF Kept
<1>9. \A x \in Callers : Kept(x)
  <2>1. CASE Stands \/ Crash
    BY <1>3, <1>4, <2>1 DEF Stands, Crash
  <2>2. ASSUME NEW c \in Callers, Others(c), Kept(c) PROVE \A x \in Callers : Kept(x)
    BY <1>3, <2>2 DEF Others
  <2> QED
    BY <1>5, <1>6, <1>7, <1>8, <2>1, <2>2, StepKinds DEF Waits, Enters, Advances, Leaves
<1> QED
  BY <1>9 DEF Kept, RollbacksFit, RollbackFits

-----------------------------------------------------------------------------
(* The theorems                                                             *)

DeployInvariant ==
  /\ Invariant
  /\ NoGaps
  /\ Bounded
  /\ MarksFit
  /\ OneDeploys
  /\ PendingMatchesDeploys
  /\ DeploysFit
  /\ StatusTellsRunning
  /\ RollbacksFit

LEMMA DeployInvariantInit == Init => DeployInvariant
<1> SUFFICES ASSUME Init PROVE DeployInvariant
  OBVIOUS
<1>1. blocks = <<>> /\ Len(blocks) = 0 /\ DOMAIN blocks = {}
  BY EmptySeq DEF Init
<1>2. \A d \in Devices : Sequences(d) = 1 .. 0
  BY <1>1 DEF Sequences
<1>3. NoGaps
  BY <1>2 DEF NoGaps
<1>4. Bounded
  BY <1>1, BoundsAssumption DEF Bounded
<1>5. \A c \in Callers : op[c] = Idle
  BY DEF Init
<1>6. MarksFit /\ OneDeploys /\ DeploysFit /\ RollbacksFit
  BY <1>5 DEF MarksFit, OneDeploys, DeploysFit, RollbacksFit, RollbackFits, Idle, Deploying
<1>7. PendingMatchesDeploys
  BY <1>5 DEF Init, PendingMatchesDeploys, Idle, Deploying
<1>8. StatusTellsRunning
  BY DEF Init, StatusTellsRunning
<1> QED
  BY <1>3, <1>4, <1>6, <1>7, <1>8, InvariantInit DEF DeployInvariant

LEMMA DeployInvariantStep == DeployInvariant /\ [Next]_vars => DeployInvariant'
<1> SUFFICES ASSUME DeployInvariant, [Next]_vars PROVE DeployInvariant'
  OBVIOUS
<1> QED
  BY InvariantStep, NoGapsStep, BoundedStep, MarksFitStep, OneDeploysStep, PendingStep,
     DeploysFitStep, RollbacksFitStep DEF DeployInvariant, Invariant

LEMMA DeployInvariantHolds == Spec => []DeployInvariant
BY DeployInvariantInit, DeployInvariantStep, PTL DEF Spec

(* pendingDeploys never outlives a deployment, and finds every deployment   *)
(* of an undisturbed device, for any callers, errors and crashes.           *)
THEOREM ManagerPendingMatchesDeploys == Spec => []PendingMatchesDeploys
<1>1. DeployInvariant => PendingMatchesDeploys
  BY DEF DeployInvariant
<1> QED
  BY <1>1, DeployInvariantHolds, PTL

(* Between the deployments of an undisturbed device it runs a block the     *)
(* repository calls applied.                                                *)
THEOREM ManagerStatusTellsRunning == Spec => []StatusTellsRunning
<1>1. DeployInvariant => StatusTellsRunning
  BY DEF DeployInvariant
<1> QED
  BY <1>1, DeployInvariantHolds, PTL

(* A Rollback that succeeds on an undisturbed device leaves it running a    *)
(* later block with the configuration of its target.                        *)
THEOREM ManagerRollbackRestores == Spec => []RollbackRestores
<1>1. DeployInvariant => RollbackRestores
  BY DEF DeployInvariant, DeploysFit, DeployFits, RollbacksFit, RollbackFits, RollbackRestores,
         Deploying
<1> QED
  BY <1>1, DeployInvariantHolds, PTL

(* The manager's blocks implement ConfigLedger: an insert extends the       *)
(* ledger of its device, a status update settles one of its entries, and    *)
(* nothing else changes it.                                                 *)
THEOREM ManagerKeepsLedger == Spec => LedgerSpec
<1>1. DeployInvariant /\ DeployInvariant' /\ [Next]_vars => [Ledger!Next]_History
  BY LedgerStep DEF DeployInvariant, Invariant
<1> QED
  BY <1>1, HistoryInit, DeployInvariantHolds, PTL DEF Spec, LedgerSpec, Ledger!Spec
==============================================================================
