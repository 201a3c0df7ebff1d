# ZT-NMS in TLA+

A verification development of the zero-trust network management system of this
repository: TLA+ modules translated from its Go code, TLC configurations that
check them on small instances, and TLAPS proofs about them for every instance.
References are to files under `src/` unless a name ends in `.tla` or `.cfg`.

## 1. The system

One process (`cmd/api/main.go`) builds the services below over one PostgreSQL
pool and serves them over HTTP. Handlers run concurrently, one goroutine per
request, and call the services directly; the services call each other through
small Go interfaces. State that must survive is in the tables of
`deployments/database/schema.sql`; each service adds maps of its own under a
mutex, which a restart empties.

| Component | State | Operations | Calls | Hard behaviour |
|---|---|---|---|---|
| Audit service `internal/audit` | table `audit_events`; in memory the last event, the sequence, `chainValid` | Log (and its typed wrappers), VerifyChain, VerifyEvent, Export, Query, stats | repository, notifier | chain position taken before the insert; refused and lost inserts; restart; a numbering trigger behind the service's back |
| Configuration manager `internal/config` | table `config_blocks`; `pendingDeploys` | CreateConfigBlock, Deploy (validate, prepare, commit, verify), Rollback, reads, diff | repository, validator, deployment service (interfaces without an implementation in the tree) | read-then-insert; four-phase deployment with errors at every phase; no lock per device |
| Policy engine `internal/policy` | table `policies`; a map of the active ones; a decision cache of 60 s | Evaluate, CreatePolicy, UpdatePolicy, LoadPolicies, reads, EmergencyAccess | repository, cache | cache and map invalidation against evaluations under way; map order |
| Capability issuer `internal/capability` | repository (nil in `cmd/api`); revocation map; signing key made at each start | Request, Verify, Use, Revoke, LoadRevocations, Delegate | policy engine | revocation in two places; delegation chains; use counts |
| Device proxy `internal/proxy/proxy.go` | connection map | ExecuteOperation, Connect, Disconnect | issuer, adapters, recorder, rate limiter | the use is recorded after the execution; connections replaced |
| Protocol adapters `internal/proxy/*_adapter.go` | connection maps and pools | Connect, Execute, Get/SetConfig, idle cleanup | devices | pool look-up and fill in two steps |
| Attestation verifier `internal/attestation` | nonces, quarantine (memory); reports, baselines (in memory in `cmd/api`) | RequestAttestation, VerifyAttestation, Quarantine, Unquarantine, cleanup | identity/inventory adapter, audit, notifier | one-shot nonces; first report as baseline; two writes per verdict |
| Identity service `internal/identity` | table `identities` | Create*, Authenticate*, Suspend, Revoke, Activate | repository, audit | read status, then write it |
| Inventory service `internal/inventory` | tables of devices and locations; a status map | RegisterDevice, UpdateDevice, DeleteDevice, heartbeats, status | identity service, repository, audit | identity and device row written one after the other; read-modify-write |
| Analytics engine `internal/analytics` | cached statistics, metrics | GetDashboardStats, Record*, two loops | data source | a refresher and requests fill one cache |
| API gateway `internal/api`, `cmd/api*` | none | HTTP to service calls | all services | none of its own |
| Device agent `cmd/zt-nms-agent` | its key | collect, report on a timer | gateway | retries |
| Models, crypto, CLI, web console, deployment files | none | - | - | - |

What makes each correct:

* **Audit**: the log is one hash chain; what Log returned is in it, in order;
  a verification says "valid" of an unbroken history only and accepts an intact
  log; alerts follow the log.
* **Configuration**: one chain per device, append-only; only validated blocks
  run; the recorded status is what happened; Rollback restores; deployments end
  and are visible while they last.
* **Policy**: a decision is one of the loaded policies, the loaded policies are
  the stored active ones, a denial wins, and no decision outlives the update
  that contradicts it.
* **Capability and proxy**: nothing is executed that a valid, unrevoked token
  with its approvals does not allow; a delegated token allows no more and no
  longer than its parent.
* **Attestation**: a nonce verifies one report; quarantine and trust status say
  the same; a baseline is fixed once.
* **Identity and inventory**: revocation is final; one identity per device; no
  update is lost.
* **Analytics**: the cache does not go back in time; the loops end.

`PROJECT.json` lists under "hazards", at its line, everything in this code
that a test would hardly reach.

## 2. Modules

### AuditLog

`Log` is the sequence Request (a goroutine makes its builder and waits for
`Service.mu`), Acquire (lock, `sequence++`, `Build`), then the repository's
answer - Insert, Refuse or Reject - and Fail (`sequence--`, unlock) or Succeed
(`lastEvent`, and the unlock unless an alert is due) and Alert. VerifyChain is
VerifyRead, VerifyReport; it takes no lock and examines its copy. Crash ends a
process with its calls; Restart is `NewService`, including its silence about a
failed read. VerifyEvent and Export change nothing and are operators.

* *Hash.* SHA-256 over the previous hash and the fields is a collision-free
  function of both, so a hash is the list of the contents it covers. The event's
  id and its sequence number are not hashed, and not in the list.
* *Repository.* `backend` chooses: `memory`, the in-memory repository of the
  tests; `postgres`, the table with the INSERT as written (it names a column
  `source_ip::text`, a syntax error); `postgres_fixed`, the same with the column
  named as the SELECTs intend, so that what lies behind that error is examined
  as well. In the table the trigger `set_audit_sequence` replaces the number the
  service chose, and TIMESTAMPTZ drops the nanoseconds the hash covers.
* *Faults.* A refused insert, before or after the trigger drew a number; a lost
  reply; a failed read at start; a row altered or deleted; a crash anywhere.
  `faults` and `damage` remember which happened, so each property says which it
  survives: ChainIntact needs a repository that told the truth, SequenceOrder
  needs nothing, ValidMeansHistory is about damage.
* *Left out.* Signatures (`cmd/api` gives no key; a wrong one is reported and
  leaves `chainValid`), and the eight seeded events of
  `deployments/database/02-seed.sql`: the table starts empty.

### AuditEvents

What the services log and what is read out of the log again, without state: the
events the six typed calls build, the condition under which one is given to the
notifier, the filters of both repositories' Query, the size of a page and the
statistics. AuditLog knows of an event only whether it alerts (`Shape`);
`MCAuditLog` builds an event of each kind with AuditEvents and states
(`ASSUME ShapesAgree`) that the instance's classes are theirs. Its other
assumptions, which TLC evaluates with the run, say over a sample of events and
queries what a reader of the code would not guess:

* through its typed call a denied operation never alerts, because the call gives
  it severity warning and `checkSecurityAlert` wants critical; the fifth failure
  of a login alerts, but nobody in the tree passes `consecutive_failures`;
* the two repositories answer a query alike except for a capability or a source,
  which the in-memory one ignores; the operation a query names is ignored by both.

The hash concatenates fields without separators; that it determines them is
assumed. `AuditRetentionPolicy` and the action, session and details of an event
are read by nothing that decides, and not modelled.

### ConfigLedger and ConfigManager

ConfigLedger is what the manager promises: per device a list of configurations
that grows at its end only, and whose entries' outcomes are recorded.
ConfigManager implements it (`History` is the refinement mapping: the blocks of
a device in the order of their numbers); `LedgerSpec` is checked as a property.

An operation is one caller's `op` record, which is the goroutine's locals, moved
by one action between two calls into an interface: Create, ReadLatest, Store
for CreateConfigBlock; Deploy (the action is Enter: read the block, check the
status, register, validate), Prepare, Commit, Verify, Undo, Mark, Leave for the
four phases and the deferred delete; Rollback goes through both (`target` tells
it apart). Abandon is any error return that changes nothing. Crash ends all.

* A block is identified by its position in the order of insertion; its hash is
  that position, because it covers the block's random id. `NewBlock` gives
  number and link from the latest block as *read*, and the table's
  `UNIQUE (device_id, sequence)` is what refuses the second of two.
* *Assumed of what is not in the tree.* The repository is the table of
  `schema.sql`. The validators answer with errors, none, or fail. The deployment
  service's Prepare remembers what the device runs and its Rollback puts that
  back; its Commit may report an error after the device took the configuration.
* `disturbed` holds the devices on which deployments overlapped, were cut off
  by a crash, or had an error swallowed. Nothing in the code says what such a
  device runs, and StatusTellsRunning and RollbackRestores are about all others.

### PolicyEngine

Evaluate is Lookup, Decide (read lock), Set (cache, still under the lock),
Return; CreatePolicy and UpdatePolicy are Write (the row), Install (the map,
under the write lock) and Clear (the cache, no lock). A read lock is held
exactly at `pc = "set"`; a writer waits at `pc = "lock"` and, as Go's RWMutex
does, keeps new readers out. Restart is a new process with LoadPolicies, which
may fail and leave no policies. Expire and Lapse are the passing of time.

* *Decision.* Matching rules are a parameter (`Matching`: the effects of the
  rules of a policy that match a request, in order; PolicyRules says which do);
  the loops over rules and policies are folds, and `Decisions` ranges over all
  orders of the Go map.
* `Key` maps a request to its cache key, which omits the context: in the
  instance two requests with different answers share one key, and `Justified`
  is therefore about keys.
* *History variables.* `current` marks an evaluation that no update overlaps so
  far; `torn` the policies whose updates overlapped or lost their reply, and all
  of them after a failed load.
* *Left out.* Delete (no caller), lists, `Version`.

### PolicyRules

The matching of `models/policy.go` as operators over records: who and what a
rule is about, the values its conditions look up, the comparisons, the rules of
a policy that match, in order, and the key under which the engine caches a
request. A value is its kind and what it is, which is what `compareEqual` sees
of it as JSON. `MCPolicyEngine` gives the two policies of its instance concrete
rules (with groups, an identity, a resource attribute, hours, a ticket, a
negated condition and a matcher that matches nobody) and the two requests
concrete fields, and states that `Matching` and `Key` agree with them; it states
also, over a sample of values of every kind, that equality is identity, that
contrary operators are contrary, and that order is of numbers alone.

What the code leaves open, so the module does: patterns, attributes and tags of
matchers and the defaults of a policy are read by nothing; a subject matcher
without criteria matches nobody, a resource matcher without criteria everything;
`contains`, `starts_with`, `ends_with`, `matches` and `between` never hold, and
negated always do; an external condition has no value; priorities order nothing.

### MerkleTree

The trees of `pkg/crypto/crypto.go` (NewMerkleTree, GetProof, VerifyMerkleProof)
and the root a configuration block takes of its sections, as operators. What is
hashed is a sequence of bytes and so is a hash, `HashSize` of them; a hash is
taken to differ for all that is hashed (the idealisation of SHA-256), and
HashMultiple hashes its arguments one behind the other, as the code does, so
where one ends is not in the hash. `MCConfigManager` checks the operators on
trees of one to nine leaves, `MerkleTreeProofs` proves for any number:

* A root binds the leaves of a tree of known size (MerkleRootsTellLeaves).
* A root binds of a proof all siblings but the first, and the leaf and the first
  sibling together; which bytes of these are the leaf's only among leaves that
  are as long (MerkleProofsBind). VerifyMerkleProof checks no length: with bytes
  of the sibling moved to the end of the leaf a proof verifies as before
  (`LeafEndsAnywhere`).
* The proof GetProof makes of a leaf verifies if the leaf has a sibling at every
  level, and not otherwise unless some item is the bytes of two hashes, for
  leaves and pairs are hashed alike (MerkleProofsOfPairs, `ItemOfHashes`).

So the proof GetProof makes
for the last of three leaves is refused by VerifyMerkleProof, because GetProof
halves the index once per level and VerifyMerkleProof once per sibling
(`crypto.go:520-537` and `547-554`), although `crypto_test.go:366`, which has
four leaves, says that the proof of every leaf "should be valid". Nothing in the
program verifies such a proof yet.

### CapabilityIssuer

Request is RequestToken (policy engine, token, signature) and Create; Delegate
is Delegate (checks, filter, token) and the same Create; Revoke is Revoke
(`GetByID`), MarkRow (the table) and Note (the list in memory, and the return);
LoadRevocations is the action of that name (the query) and Loaded (the list).
Refuse is the table's error. Verify changes nothing and is the operator `Valid`,
Use verifies again and counts. Each step can be interleaved with those of other
callers, with Tick (expiry), and with Restart: NewIssuer makes a new key, also
when the configuration has one, and starts with an empty list.

* *Data.* A token's id is its place in the table. A list of grants is a function
  from positions; a selector is its type, its id and the set of ids that have
  its prefix. The signature is the issuer's key in the token. The policy engine
  answers any member of `Answers`, per action: what it says is the subject of
  PolicyEngine. Approvals are a number, because the issuer only counts them.
* *Assumed.* The repository is the table `capabilities` (the tree has only the
  interface; `cmd/api` passes nil, so that there every Request panics).
  `GetRevoked` answers the rows marked within the window. Nothing in `cmd/` calls
  LoadRevocations or Delegate; the model calls both at any time.
* *What the code leaves out, so the model does:* MaxTTL, MaxUses and context
  requirements are never applied; a delegated grant's approval fields come from
  the request that asks for it; revoking a parent does not reach its children;
  nothing is ever removed from the list of revocations
  (`docs/TESTING_REPORT.md:766` says otherwise).
* *History variables.* `acked`: Revoke returned without an error; `missed`: the
  row was marked and the reply lost; `denied` of a grant: what the policy engine
  refused of it.

### DeviceProxy

Extends CapabilityIssuer by workers that run ExecuteOperation: Accept (age of
the message, Verify, Allows), Execute or Abort (the adapter, and the errors
before it is called), Record (the call of Use, whose answer is dropped). Compose
is an operator signing an operation, which may arrive any number of times:
`proxy.go:112` announces a check of the nonce and checks the age. Execute with
`failed` is an adapter that reports an error after the device did what it was
told. RestartAll ends the calls of both. The proxy touches the issuer by Use
only, so DeviceProxy implements CapabilityIssuer's specification.

*Left out*: the rate limiter (no implementation in the tree) and the command
filters are reasons for an operation to fail. Connect, Disconnect and the
recording of sessions are in DeviceConnections.

### Nonces and Attestation

Nonces is what the verifier promises of its nonces: each is for one device, lets
at most one report of that device pass, and is never live again after that or
after it was given up. Attestation implements it (`Live` is the mapping: in the
store, unused, not expired); `NonceSpec` is checked as a property and proved.

RequestAttestation is Request (the quarantine) and Issue; VerifyAttestation is
Spend (the whole check and use of the nonce, under one lock; Reject is its answer
to an expired one), Identify (`GetByID`), ReadExpected (any error is taken for
the absence of a baseline), Learn (the report becomes the baseline), WriteTrust
and Contain (the two writes of a verdict). Override, UpdateExpectedMeasurements
and UpdatePolicy are operators' calls, Expire and Cleanup are time and the
ticker, Restart empties what is in memory - with it the quarantine, while the
trust status stays in the table.

* *Data.* A report is its kind and its measurements; a hash of firmware, system
  or agent is expected or absent. A TPM report always fails, because
  `SignatureValid` is never set for one; PCRs never fail a report, they are left
  out. A first report with a forged signature fails and still becomes the
  baseline: Learn looks at no signature.
* *History variables.* `standing` is what an operator last set for a device, or
  the first report taken since; `confused` are the devices whose baseline two
  calls touched at a time, or an error kept from being read or saved; `settled`
  has per device the last verdict, if no error kept it from being written and
  no other verdict or operator came between its two writes.
* `Rows` and `Identity` are the inventory's: in `cmd/api` rows have ids of their
  own. VerdictsStand assumes nothing of them: a settled verdict is what the
  quarantine says of the device, and what the row with the device's id says where
  there is one, and a row whose id is no identity's is never written. That the
  row of the device itself follows (TrustFollowsVerdict, what the reports say) does
  not hold in `cmd/api`: the run `gateway_trust`.
* *Left out.* Saved reports and results (read by nothing that decides; the
  gateway's `GetAttestationExtended` answers "verified" for any saved report),
  the policy's other checks (they only add warnings), the audit and the alert.
  The agent is outside: it makes a nonce of its own and posts it to a path that
  the gateway serves for GET only (`cmd/zt-nms-agent/main.go:213`).

### DeviceRegistry

The identity service and the inventory over it: one step per SQL statement,
because no call puts a transaction around its statements. Look/CreateOperator
are CreateOperator, Look/CreateDevice/CreateRow are RegisterDevice (identity
first, then the row), Read/Write are Suspend, Revoke and Activate,
Authenticate/VerifyPassword/Return the two logins, ReadRow/WriteRow are
UpdateDevice and RecordHeartbeat (read the row, write all columns back),
DeleteDevice/Disown/Write/DeleteRow are DeleteDevice, UpdateStatus is one
statement. Restart ends calls between their statements. The operators
CreateIdentity, ChangeStanding, LogIn, RegisterDevice, ChangeDevice and
ReportDevice are the gateway's handlers: which of the calls they make.

* *What the code leaves out, so the model does.* Suspend checks no status, so a
  revoked identity can be suspended and then activated, although a test
  (`identity/service_test.go:744`) and an error text (`service.go:337`) say a
  revoked one cannot be activated: RevokedKeptOut is about identities nothing
  lifted in that way. DeleteDevice of the gateway passes nobody as the actor, so
  the identity is never revoked. A heartbeat's status and a configuration's hash
  are not among the columns UpdateDevice writes. A row that is refused leaves
  the identity without a device. An error of a look-up is taken for absence, and
  no constraint of the tables is on usernames or hostnames. Certificates are
  bytes no code reads; locations and interfaces are written once.
* *History variables.* `barred`: revoked and not let in since; `asked`: what a
  row's updates ask it to be; `raced`: rows that two wrote at a time;
  `renamed`, `doubled`: what NamesDistinct cannot be said of.

### DeviceConnections

The proxy's connections, over the SSH adapter or the NETCONF adapter's pool
(`protocol` chooses). SSH: Connect (the adapter's map), StartSession (the
recorder's session) and Track (the proxy's entry with it), Disconnect and Close,
Run/Begin/Finish/Find/Record (a command on the connection found, and the session
its output goes to), CleanupIdle. A command does not begin on a connection that
is closed or broken; one whose connection is closed or breaks while it runs comes
back with the error in its result, and is recorded like any other. NETCONF: LookPool and Dial
(the look-up and the fill are two steps), Send and Read under the connection's
lock, Leave, CloseAll. Break ends a connection and tells no map.

* *Data.* A command is a number; a connection's `stream` is the replies not yet
  read; `split` is a device whose hello arrives in two pieces, of which the
  adapter reads one ("simplified", `netconf_adapter.go:216`).
* `displaced` are connections and sessions that another was put over, or that
  the full pool did not take: nothing ever closes them.
* *Outside.* No program in `cmd/` registers an adapter or calls Connect; the
  model calls them as their signatures allow. RESTCONF keeps no state.

## 3. Runs

| Run | Instance | Shows |
|---|---|---|
| `audit` | two callers with different events, one verifier, three repositories; 3 events, 1 refused or lost insert, 1 crash, 1 damaged row | the eight invariants and LogReturns |
| `config_history` | one caller, two configurations, 3 blocks, 1 error, 1 crash, 1 damaged chain | status, device and rollback agree |
| `config_concurrent` | two callers, 2 blocks, 1 error | linear chain, refinement of ConfigLedger, registrations, termination |
| `config_commit_error` | one block, one error | *violated* FailedNeverRuns: no rollback after a failed commit |
| `policy` | two callers, two policies, two contents, two requests of one key; 2 updates, 1 error, 1 restart | cache, answers, map and decision |
| `policy_update_race` | one policy, two updates, no faults | *violated* UpdatesConverge |
| `capability` | two callers, one worker; a router and a switch; 2 tokens, 1 message, 2 performances, 1 error, 1 restart | revocation, delegation and what devices do |
| `capability_denied` | the same, with a policy engine that may deny | *violated* GrantsApproved: a denied action is in the token |
| `attestation` | two callers, a known device and a stranger, two measurements, 2 nonces, 1 error, change or restart, both repositories | nonces pass one report and are reclaimed; verdicts agree with the baseline and end up in the quarantine and in the row with the device's id |
| `gateway_trust` | one caller, rows with ids of their own | *violated* TrustFollowsVerdict: the device's row keeps its old trust status |
| `registry` | two callers, two names, roles and statuses; 2 identities, 3 changes, 1 error or restart | revoked identities stay out, no update is lost unless it raced, names are distinct |
| `connections` | two callers, two devices; a pool of 1, 3 connections, 3 commands, 1 break or close; both protocols | open is held, and replies and recordings are of one's own command |

*Bounds.* Every hazard here is between two calls, or a call and a fault, so two
callers suffice, and the faults happen once at every point of every call. Three
audit events are one before, one during and one after a fault; three blocks are
a target, what came after it and the rollback; two policies with two contents
give every order and a row that changes; two tokens are a parent and a child, or
two of a kind; the selectors are one of everything, one with a prefix and one
for each name, and the share asks for more than the parent has, with overlapping
grants. In `capability` the policy engine demands a step-up for everything, so
that messages with and without approvals differ. Larger instances (three updates; three
callers) were run and agree. The proofs carry the safety properties they cover
to all sizes: where an instance is narrow, as `capability` is with its one worker
and with tokens that expire before an operation is too old, they cover more.
Symmetry is used in the runs that check no liveness: of callers in `capability`
and `capability_denied`, of callers, names and roles in `registry`, of callers
and devices in `connections`.

In `attestation` two nonces are one for each of two reports at a time, or two
first reports of a device; in `registry` two identities are a device and its
successor of the same name, or two of a kind, and three changes are a change,
one that races it and one after; in `connections` three connections are one,
one put over it and one after a break, and a pool of one is full after the
first. A larger instance (three identities and two changes in `registry`) was
run and agrees.

*Deadlock* is checked in every run but `registry` and `connections`, whose calls
all return and which stop when their bounds are used up.

*Fairness.* CapabilityIssuer, DeviceProxy, DeviceRegistry and DeviceConnections
state none and no liveness: their calls hold locks for single statements, or
around an exchange with a device that may never answer. For the others: nobody
has to call the services, and nothing has to fail. A call that has begun goes
on: goroutines are scheduled, and the interfaces answer (the code gives them a
context and no timeouts, so an interface that never answers would block the
call; that is the assumption). For Log the lock is handed to every waiter (Go's
mutex turns to hand-off after 1 ms of waiting), hence strong fairness of
Acquire; the policy engine's RWMutex prefers a waiting writer, which the guard
of Decide states, and the instance has finitely many updates, so weak fairness
suffices there. In Attestation every call's next step is weakly fair, and so
are the passing of time and the ticker of `cleanupExpiredNonces`.

*Mutants.* For every property of a passing run a definition of the model is
replaced by one with a plausible bug (the operators marked "Bug:"), and TLC must
find the property violated.

### Disagreements found

1. `internal/config/manager.go:311` - a commit error is not followed by a
   rollback, against `docs/DIAGRAMS.md:129`.
2. `internal/policy/engine.go:226` - concurrent updates leave the map behind the
   table, against the fix BUG-005 of `docs/TESTING_REPORT.md:765,821`.
3. `internal/capability/issuer.go:130` - an action that the policy engine denies
   stays in the token, against `docs/DIAGRAMS.md:230` and
   `docs/TESTING_REPORT.md:205`.
4. `internal/attestation/verifier.go:332` - the trust status is written to the
   row with the identity's id, which in `cmd/api` no row has, against
   `docs/TESTING_REPORT.md:301,307`.

Seen while modelling, without a run of their own: the INSERT of
`internal/audit/repository.go:41` does not parse, so that over PostgreSQL
nothing is ever logged, against `docs/TESTING_REPORT.md:93` (the repository
`postgres` of the run `audit`); Rollback (`internal/config/manager.go:359`) does
not verify the chain, against the fix BUG-008 of `docs/TESTING_REPORT.md:768`;
the Merkle proofs and the suspension of a revoked identity, above. And behind the INSERT
(`postgres_fixed`) IntactLogVerifies does not hold - nanoseconds are lost, the
numbers have gaps after refused inserts, and Export reads pages backwards - which
is why MemoryLogVerifies is stated of the in-memory repository; and two services
over one table fork the chain.

## 4. Proofs

The proofs make no bound on callers, devices, policies, events or faults.

* **AuditLogProofs.** TypeOK is inductive. TableSequenceOrder needs
  `BelowCounter` (the table's numbers are below its counter) and nothing about
  services. The other theorems assume one service (`Replicas = {R}`): the
  invariant is `Locked` (one caller at most is past Lock), `Numbered` (memory is
  as far as the rows, or one ahead between `sequence++` and the answer) and
  `Chained` (lastEvent is the last row, except between insert and assignment, and
  the event about to be inserted links to it). `Chained` holds when the
  repository was honest, `Numbered` also over the in-memory repository.
  MemoryLogVerifies follows from `Linked`, by the definitions of the checks.
  AlertsFollowLog and AckedInOrder need to know which event a row is:
  `Identified` (the body a builder gives an event is in no other row and in no
  other call), `AnsweredStored` and, for the order, `AnsweredLast` (what Log is
  about to return is the last row, because its lock is still held). Alerts need
  one service only over the in-memory repository, which a second process does
  not share; over the table the theorem has any number.
  ValidMeansHistory assumes nothing of services or damage: `Judged` says that a
  verdict is the one the loop reached, and then the hash of the last event covers
  the contents before it one by one, through the links.
* **ConfigManagerProofs.** The invariant adds to TypeOK, ChainLinear and
  OnlyValidBlocksRun the conjunct `CallsFit`: what each call holds - the latest
  block it read, the block it deploys, what Prepare saved - fits what is stored,
  and still does after other callers' steps, because blocks are never changed
  but in their status. Unique comes from the table's constraint, Linked from the
  block that was read. The deployments have a second invariant over the first,
  `DeployInvariant`: `MarksFit`, `OneDeploys` (on an undisturbed device one call
  at most is between Enter and Leave), `DeployFits` (how far that call has
  brought the device: what it ran before, recorded as applied, up to the commit,
  its own block after it) and `RollbackFits` (what is stored for a Rollback has
  the configuration of its target and a later number). StatusTellsRunning,
  PendingMatchesDeploys and RollbackRestores follow. Every step is of a few kinds
  (`StepKinds`: nothing of a deployment changes, the process dies, or a call
  waits, enters, advances or leaves), so that each part is shown kind by kind and
  not action by action. LedgerSpec, the refinement: the numbers of a device's
  blocks are 1 to n (`NoGaps`), so its history has n entries; Store maps to
  Extend, a status written to Settle, and every other step to a stutter.
* **PolicyEngineProofs.** CacheCurrent needs `InFlight` (a decision about to be
  cached is one of the loaded policies, because the read lock is held until it
  is) and AnswersCurrent needs `Marked` (an evaluation is marked as soon as an
  update is under way). LoadedIsStored needs `OneWriter` (of a policy that is not
  torn, one update at most waits for the lock, and it brings what is stored).
  KeyRulesAnswerTheirOwn says when the coarse cache key is harmless: if no rule
  looks at a role, a group, the subject's type, an attribute or the context, two
  requests of one key match the same rules (`KeyDecides`), so an answer justified
  by the key is one of the request's own. Its hypotheses are the ones that
  `MCPolicyEngine` states of its instance, except that its rules do look further.
  DenyOverrides is about two nested folds, over the policies in an order of the
  map and over the rules of each. A fold is opened (`Unrolls`, `FoldExists`): there
  is a function that gives its value after every element; what it says after n
  elements is then shown for every n. That every order of the map is a finite
  sequence needs `FinitelyMany`, which is inductive, however many ids there are.
* **CapabilityProofs.** First the issuer alone: `IssuerInv` is typing, `Past` (no
  token is of a key or a time to come), DelegatedWithinParent and `DraftsWithin`
  (the same of tokens about to be stored). That a filtered grant is within its
  parent needs `CapabilityAssumption`'s remark on prefixes: a grant for every id
  passes the filter only if a parent's selector takes every id, because the
  filter asks for the empty id. RevocationHolds follows from `Past` (after a
  restart no stored token has the new key) and `NotesStep` (the list only grows
  under one key, and a Revoke adds to it before it returns). RefusalIsFinal is
  an action property of the same invariant. Then the proxy: its typing, the
  implementation of IssuerSpec (ProxyImplementsIssuer), from which the issuer's
  theorems carry over, and `GrantInv` for PerformedWithinGrant, which adds that
  what is about to be performed is within its grant. UsesArePerformed needs
  `UsesRecorded`: a token's uses and the operations under it that are done and not
  yet recorded are together no more than those performed.
* **AttestationProofs.** TypeOK is inductive by itself, in four parts. The
  implementation of Nonces (VerifierImplementsNonces) needs `NoncesTold`: the store
  has the nonce that was made, and nothing passed with one that is not used.
  VerdictsStand needs `ContainsAlone`: whoever is marked as alone between the two
  writes of a verdict is, the first write stands, and the device is not settled.
  AcceptedAgree needs `LearnsAlone`: outside `confused` the stored baseline is
  what stands, and whoever makes a report the baseline is alone and first.
* **DeviceRegistryProofs** (assumes the callers are finitely many, for the bound
  on identities). `BaseInv` is typing and what calls have in hand (`Good`): an
  identity about to get a row has none and no other call is about to give it one
  (`RowsApart`), and as long as a call is `fresh` what it read of a row is what is
  in it. RevokedKeptOut follows with `BarredRevoked`: the only calls that change a
  barred identity suspend it or activate it from another status read before, and
  both lift it. UpdatesStay holds because a `fresh` write-back adds its change to
  what the row is asked to be, and leaves the status alone. NamesDistinct needs
  `UsersLooked` and `HostsLooked`: who goes on to create under a name found none
  and is alone with it, or the name is in `doubled`.
* **DeviceConnectionsProofs** (finitely many devices, and None is no number).
  `BaseInv` is typing, the pool's limit and `HeldOwn` (what a map has for a device
  is of that device). OpenIsHeld needs `SessionsInv` too: a session that is not in
  the proxy's map yet is open and that of the one Connect which started it.
  ToldItsOwn needs for NETCONF `AnswersInv`: one caller at most waits on a
  connection, and what its device sent and nobody read is that caller's reply, or
  nothing if nobody waits; and for SSH `RecordsInv`: of a device whose last Connect
  or Disconnect was alone, none is under way and the session is open and of the
  stored connection, and a command that was not disturbed has that session's
  connection.
* **MerkleTreeProofs** (no state). MerkleProofsOfPairs: `LevelsHalve` and
  `HeightIs` give the shape of a tree; `RightDepth` is how many hashes a node is
  above the leaf on its right, which tells a node that went up alone from one
  that was paired: where no leaf is itself the hash of two hashes, the climb of a
  proof ends at the root exactly if it went up at every level (`ClimbTells`).
  MerkleProofsBind and MerkleRootsTellLeaves go down from the root level by level:
  all that was hashed on the way is two parts of which one is a hash, so of known
  length, except for the leaf and first sibling of a proof (`Joined`). They are about the trees and not about a run's
  property; the assumptions of `MCConfigManager` are their small instances.

*Induction.* The library's induction theorems take an operator as a parameter,
which the installed provers cannot instantiate. What is shown for every number
here (folds, the levels of a tree) uses a first-order form instead: a set of
numbers that is not empty has a smallest member (`Smallest`, from
NatLessThanWellFounded), so a set with 0 and every successor of its members holds
all of them (`EveryNumber`); and a recursive function is shown to exist by the
same argument before anything is said of it.

*Only model-checked*: the liveness properties LogReturns, CallsEnd, CallsReturn
and NoncesReclaimed, which need ENABLED and are out of the prover's reach; the
four runs that expect a violation are counterexamples of TLC. Every safety and
action property of a passing run and every refinement is proved, some of the
audit log's for one service, as said above.

Running: `tlc -config MCAuditLog.cfg MCAuditLog`, and so on for each run of
`PROJECT.json`; `tlapm AuditLogProofs.tla` for the proofs.

## 5. Plan

Modelled so far is all that keeps state and decides by it, and the safety
properties of the runs are proved. What is left:

1. Proofs about pure operators: what PolicyRules and AuditEvents say of any
   input and not only of the samples their instances use.
2. The conditions under which the disagreements found do not arise, as theorems
   (as KeyRulesAnswerTheirOwn is one for the cache key).

Not modelled, and why: the analytics engine (a cache of counts that are
displayed; nothing decides by them, and no service calls its recording
functions); the device agent (a timer loop that posts a report, under a nonce
and to a path the gateway does not serve); the handlers that list or answer with
constants; encryption, keys and encodings (assumed); RESTCONF (a request per
call); command line, web console and deployment files (input and output).
