---------------------------- MODULE DeviceRegistry ----------------------------
(***************************************************************************)
(* The identity service (internal/identity) and the inventory over it      *)
(* (internal/inventory), as the gateway runs them: both keep everything in *)
(* PostgreSQL, and a call is a sequence of statements with no transaction  *)
(* around them.                                                            *)
(*                                                                         *)
(* A statement is a step.  Of an identity its type, its name and its       *)
(* status are modelled; of a device's row its identity, two of the columns *)
(* UpdateDevice writes (the hostname and the role) and one of those it     *)
(* does not write (status, which stands for trust_status as well).         *)
(***************************************************************************)
EXTENDS Integers, Sequences, FiniteSets

CONSTANTS
  Callers,         (* goroutines serving requests                           *)
  Names,           (* usernames and hostnames                               *)
  Roles,           (* of devices                                            *)
  Statuses,        (* of devices                                            *)
  Unknown,         (* the status of a new device                            *)
  None,
  MaxIdentities,   (* bound on identities created                           *)
  MaxUpdates,      (* bound on changes of devices                           *)
  MaxEvents        (* bound on errors and restarts                          *)

ASSUME RegistryAssumption ==
  /\ Unknown \in Statuses
  /\ None \notin Names /\ None \notin Roles
  /\ IsFiniteSet(Callers)
ASSUME RegistryBounds ==
  MaxIdentities \in Nat /\ MaxUpdates \in Nat /\ MaxEvents \in Nat

Types == {"operator", "device", "service"}
Standings == {"active", "suspended", "revoked"}

Facts == [hostname : Names, role : Roles]
Changes == [hostname : Names \union {None}, role : Roles \union {None}]
Row == [identity : Nat, facts : Facts, status : Statuses]

VARIABLES
  identities,   (* the table identities, by number                          *)
  rows,         (* the table devices: rows by number                        *)
  made,         (* rows ever made                                           *)
  call,         (* per caller: its call in progress                         *)
  barred,       (* history: identities revoked, and not let in again by a   *)
                (* suspension or an activation that had begun before        *)
  asked,        (* history, per row: what the updates so far ask it to be   *)
  raced,        (* history: rows written back after another wrote them      *)
  renamed,      (* history: rows whose hostname was changed                 *)
  doubled,      (* history: names looked up by two creations of a type at a *)
                (* time, or with an error                                   *)
  updates, events   (* so far                                               *)

identityVars == <<identities, barred>>
rowVars == <<rows, made, asked, raced, renamed>>
counters == <<updates, events>>
vars == <<identityVars, rowVars, call, doubled, counters>>

Unchanged == [hostname |-> None, role |-> None]

(* CreateOperator: "operator" with the username looked up.  RegisterDevice: *)
(* "device" with the hostname looked up, "row" with the identity created.   *)
(* Suspend, Revoke, Activate: "set" with the identity read.  DeleteDevice:  *)
(* "disown" with the row read, if somebody deletes it; "set", and "delete". *)
(* UpdateDevice, RecordHeartbeat: "write" with the row read.  Password      *)
(* logins: "password" with the identity read; "granted" ends any login.     *)
Call == [pc     : {"idle", "operator", "device", "row", "set", "disown", "delete",
                   "write", "password", "granted"},
         id     : Nat,                         (* of the identity             *)
         row    : Nat,                         (* of the device, or 0         *)
         name   : Names \union {None},
         to     : Standings \union {"none"},
         from   : Standings \union {"none"},   (* the status read             *)
         read   : Changes,                     (* the row read                *)
         change : Changes,
         fresh  : BOOLEAN,   (* history: no other wrote the row meanwhile     *)
         barred : BOOLEAN]   (* history: the identity was, as the call began  *)

Idle == [pc |-> "idle", id |-> 0, row |-> 0, name |-> None, to |-> "none", from |-> "none",
         read |-> Unchanged, change |-> Unchanged, fresh |-> FALSE, barred |-> FALSE]

-------------------------------------------------------------------------------
Init ==
  /\ identities = <<>> /\ rows = <<>> /\ made = 0
  /\ call = [c \in Callers |-> Idle]
  /\ barred = {} /\ asked = <<>> /\ raced = {} /\ renamed = {} /\ doubled = {}
  /\ updates = 0 /\ events = 0

Happens(event) ==
  /\ event => events < MaxEvents
  /\ events' = IF event THEN events + 1 ELSE events

(* The bound on identities, with those about to be created.                 *)
Room == Len(identities) + Cardinality({c \in Callers : call[c].pc \in {"operator", "device"}})
          < MaxIdentities

Goes(c, pc) == call' = [call EXCEPT ![c].pc = pc]
Ends(c) == call' = [call EXCEPT ![c] = Idle]

(* The statements on the table identities.                                  *)
Insert(type, name) ==
  identities' = Append(identities, [type |-> type, name |-> name, status |-> "active"])

(* Suspending lifts a revocation, and so does an activation that has read   *)
(* the identity before it.                                                  *)
SetStatus(id, from, to) ==
  /\ identities' = [identities EXCEPT ![id].status = to]
  /\ barred' = IF to = "revoked" THEN barred \union {id}
               ELSE IF to = "suspended" \/ from # "revoked" THEN barred \ {id} ELSE barred

-------------------------------------------------------------------------------
(* The identity service                                                    *)

UserExists(name) ==
  \E i \in DOMAIN identities : identities[i].type = "operator" /\ identities[i].name = name

HostExists(name) == \E r \in DOMAIN rows : rows[r].facts.hostname = name

Looking(type, name) ==
  {c \in Callers : /\ call[c].name = name
                   /\ call[c].pc \in {type} \union (IF type = "device" THEN {"row"} ELSE {})}

(* CreateOperator and RegisterDevice look a name up; an error is taken for  *)
(* its absence.                                                             *)
Look(c, type, name, exists, failed) ==
  /\ call[c].pc = "idle" /\ Room
  /\ Happens(failed)
  /\ ~exists \/ failed
  /\ call' = [call EXCEPT ![c] = [Idle EXCEPT !.pc = type, !.name = name]]
  /\ doubled' = IF failed \/ Looking(type, name) # {}
                THEN doubled \union {<<type, name>>} ELSE doubled
  /\ UNCHANGED <<identityVars, rowVars, updates>>

(* Bug: the hostname is not looked up.                                      *)
LookNothing(c, name, failed) == Look(c, "device", name, FALSE, failed)

LookUser(c, name, failed) == Look(c, "operator", name, UserExists(name), failed)
LookHost(c, name, failed) == Look(c, "device", name, HostExists(name), failed)

CreateOperator(c, failed) ==
  /\ call[c].pc = "operator"
  /\ Happens(failed)
  /\ IF failed THEN UNCHANGED identities ELSE Insert("operator", call[c].name)
  /\ Ends(c)
  /\ UNCHANGED <<barred, rowVars, doubled, updates>>

(* CreateIdentity of the gateway for a device or a service: nothing is      *)
(* looked up.                                                               *)
CreateDirectly(c, type, name) ==
  /\ call[c].pc = "idle" /\ Room
  /\ Insert(type, name)
  /\ UNCHANGED <<barred, rowVars, call, doubled, counters>>

(* Bug: Activate takes whoever is there.                                    *)
ReadUnchecked(c, id, to) ==
  /\ call[c].pc = "idle" /\ updates < MaxUpdates
  /\ call' = [call EXCEPT ![c] = [Idle EXCEPT !.pc = "set", !.id = id, !.to = to,
                                              !.from = identities[id].status]]
  /\ updates' = updates + 1
  /\ UNCHANGED <<identityVars, rowVars, doubled, events>>

(* Suspend, Revoke and Activate read the identity.                          *)
Read(c, id, to) ==
  /\ call[c].pc = "idle" /\ updates < MaxUpdates
  /\ to = "active" => identities[id].status # "revoked"
  /\ call' = [call EXCEPT ![c] = [Idle EXCEPT !.pc = "set", !.id = id, !.to = to,
                                              !.from = identities[id].status]]
  /\ updates' = updates + 1
  /\ UNCHANGED <<identityVars, rowVars, doubled, events>>

(* ... and write the new status whatever it is now.  For a device that is   *)
(* being deleted an error is only logged.                                   *)
Write(c, failed) ==
  /\ call[c].pc = "set"
  /\ Happens(failed)
  /\ IF failed THEN UNCHANGED identityVars ELSE SetStatus(call[c].id, call[c].from, call[c].to)
  /\ IF call[c].row = 0 THEN Ends(c) ELSE Goes(c, "delete")
  /\ UNCHANGED <<rowVars, doubled, updates>>

(* Authenticate and AuthenticateByPassword: one that is not active is       *)
(* refused; a password is compared in a statement of its own.               *)
Authenticate(c, id, password) ==
  /\ call[c].pc = "idle" /\ identities[id].status = "active"
  /\ password => identities[id].type = "operator"
  /\ call' = [call EXCEPT ![c] = [Idle EXCEPT !.pc = IF password THEN "password" ELSE "granted",
                                              !.id = id, !.barred = id \in barred]]
  /\ UNCHANGED <<identityVars, rowVars, doubled, counters>>

VerifyPassword(c, right) ==
  /\ call[c].pc = "password"
  /\ IF right THEN Goes(c, "granted") ELSE Ends(c)
  /\ UNCHANGED <<identityVars, rowVars, doubled, counters>>

Return(c) ==
  /\ call[c].pc = "granted"
  /\ Ends(c)
  /\ UNCHANGED <<identityVars, rowVars, doubled, counters>>

-------------------------------------------------------------------------------
(* The inventory                                                           *)

(* Bug: the row gets the identity created before.                           *)
CreateDeviceEarly(c, failed) ==
  /\ call[c].pc = "device"
  /\ Happens(failed)
  /\ IF failed THEN UNCHANGED identities /\ Ends(c)
     ELSE /\ Insert("device", call[c].name)
          /\ call' = [call EXCEPT ![c] = [@ EXCEPT !.pc = "row", !.id = Len(identities)]]
  /\ UNCHANGED <<barred, rowVars, doubled, updates>>

(* RegisterDevice creates the identity ...                                  *)
CreateDevice(c, failed) ==
  /\ call[c].pc = "device"
  /\ Happens(failed)
  /\ IF failed THEN UNCHANGED identities /\ Ends(c)
     ELSE /\ Insert("device", call[c].name)
          /\ call' = [call EXCEPT ![c] = [@ EXCEPT !.pc = "row", !.id = Len(identities')]]
  /\ UNCHANGED <<barred, rowVars, doubled, updates>>

(* ... and the row.  If the row is refused the identity stays.              *)
CreateRow(c, role, failed) ==
  LET facts == [hostname |-> call[c].name, role |-> role]
      id    == made + 1
  IN  /\ call[c].pc = "row"
      /\ Happens(failed)
      /\ IF failed THEN UNCHANGED <<rows, made, asked>>
         ELSE /\ made' = id
              /\ rows' = [r \in DOMAIN rows \union {id} |-> IF r # id THEN rows[r] ELSE
                           [identity |-> call[c].id, facts |-> facts, status |-> Unknown]]
              /\ asked' = Append(asked, [facts |-> facts, status |-> Unknown])
      /\ Ends(c)
      /\ UNCHANGED <<identityVars, raced, renamed, doubled, updates>>

Apply(facts, change) ==
  [hostname |-> IF change.hostname = None THEN facts.hostname ELSE change.hostname,
   role     |-> IF change.role = None THEN facts.role ELSE change.role]

(* UpdateDevice and RecordHeartbeat read the row.  The heartbeat changes no *)
(* column that UpdateDevice's statement writes.                             *)
ReadRow(c, r, change) ==
  /\ call[c].pc = "idle" /\ updates < MaxUpdates
  /\ call' = [call EXCEPT ![c] = [Idle EXCEPT !.pc = "write", !.row = r, !.read = rows[r].facts,
                                              !.change = change, !.fresh = TRUE]]
  /\ updates' = updates + 1
  /\ UNCHANGED <<identityVars, rowVars, doubled, events>>

Heartbeat(c, r) == ReadRow(c, r, Unchanged)

(* Bug: the role is missing from the statement.                             *)
WriteRowNoRole(c, failed) ==
  LET r == call[c].row
  IN  /\ call[c].pc = "write"
      /\ Happens(failed)
      /\ IF failed \/ r \notin DOMAIN rows
         THEN UNCHANGED rowVars /\ Ends(c)
         ELSE /\ rows' = [rows EXCEPT ![r].facts.hostname =
                                         Apply(call[c].read, call[c].change).hostname]
              /\ asked' = [asked EXCEPT ![r].facts = Apply(@, call[c].change)]
              /\ raced' = IF call[c].fresh THEN raced ELSE raced \union {r}
              /\ renamed' = IF call[c].change.hostname = None THEN renamed ELSE renamed \union {r}
              /\ Ends(c)
              /\ UNCHANGED made
      /\ UNCHANGED <<identityVars, doubled, updates>>

(* ... and write all its columns but the status back; of a row deleted      *)
(* meanwhile nothing is written, and that is no error.                      *)
WriteRow(c, failed) ==
  LET r == call[c].row
  IN  /\ call[c].pc = "write"
      /\ Happens(failed)
      /\ IF failed \/ r \notin DOMAIN rows
         THEN UNCHANGED rowVars /\ Ends(c)
         ELSE /\ rows' = [rows EXCEPT ![r].facts = Apply(call[c].read, call[c].change)]
              /\ asked' = [asked EXCEPT ![r].facts = Apply(@, call[c].change)]
              /\ raced' = IF call[c].fresh THEN raced ELSE raced \union {r}
              /\ renamed' = IF call[c].change.hostname = None THEN renamed ELSE renamed \union {r}
              /\ call' = [o \in Callers |-> IF o = c THEN Idle
                            ELSE IF call[o].pc = "write" /\ call[o].row = r
                                 THEN [call[o] EXCEPT !.fresh = FALSE] ELSE call[o]]
              /\ UNCHANGED made
      /\ UNCHANGED <<identityVars, doubled, updates>>

(* UpdateStatus, UpdateTrustStatus: one column.                             *)
UpdateStatus(r, status) ==
  /\ updates < MaxUpdates
  /\ rows' = [rows EXCEPT ![r].status = status]
  /\ asked' = [asked EXCEPT ![r].status = status]
  /\ updates' = updates + 1
  /\ UNCHANGED <<identityVars, made, raced, renamed, call, doubled, events>>

(* DeleteDevice reads the row, has the identity revoked if it knows for     *)
(* whom, and deletes the row.                                               *)
DeleteDevice(c, r, named) ==
  /\ call[c].pc = "idle" /\ updates < MaxUpdates
  /\ call' = [call EXCEPT ![c] = [Idle EXCEPT !.pc = IF named THEN "disown" ELSE "delete",
                                              !.row = r, !.id = rows[r].identity]]
  /\ updates' = updates + 1
  /\ UNCHANGED <<identityVars, rowVars, doubled, events>>

Disown(c, failed) ==
  /\ call[c].pc = "disown"
  /\ Happens(failed)
  /\ IF failed THEN Goes(c, "delete")
     ELSE call' = [call EXCEPT ![c] = [@ EXCEPT !.pc = "set", !.to = "revoked",
                                                !.from = identities[call[c].id].status]]
  /\ UNCHANGED <<identityVars, rowVars, doubled, updates>>

DeleteRow(c, failed) ==
  /\ call[c].pc = "delete"
  /\ Happens(failed)
  /\ rows' = IF failed THEN rows
             ELSE [r \in DOMAIN rows \ {call[c].row} |-> rows[r]]
  /\ Ends(c)
  /\ UNCHANGED <<identityVars, made, asked, raced, renamed, doubled, updates>>

(* The gateway stops in the middle of its calls.                            *)
Restart ==
  /\ Happens(TRUE)
  /\ call' = [c \in Callers |-> Idle]
  /\ UNCHANGED <<identityVars, rowVars, doubled, updates>>

-------------------------------------------------------------------------------
(* The gateway's handlers: none knows who deletes a device, or makes any    *)
(* other change; other callers of the inventory may.                        *)
CreateIdentity(c, name) ==
  \/ \E failed \in BOOLEAN : LookUser(c, name, failed)
  \/ \E type \in {"device", "service"} : CreateDirectly(c, type, name)

ChangeStanding(c, id) == \E to \in Standings : Read(c, id, to)

LogIn(c, id) == \E password \in BOOLEAN : Authenticate(c, id, password)

RegisterDevice(c, name) == \E failed \in BOOLEAN : LookHost(c, name, failed)

ChangeDevice(c, r) ==
  \/ \E change \in Changes \ {Unchanged} : ReadRow(c, r, change)
  \/ \E named \in BOOLEAN : DeleteDevice(c, r, named)

ReportDevice(c, r) ==
  \/ Heartbeat(c, r)
  \/ \E status \in Statuses : UpdateStatus(r, status)

Ask(c) ==
  \/ \E name \in Names : CreateIdentity(c, name) \/ RegisterDevice(c, name)
  \/ \E id \in DOMAIN identities : ChangeStanding(c, id) \/ LogIn(c, id)
  \/ \E r \in DOMAIN rows : ChangeDevice(c, r) \/ ReportDevice(c, r)

Step(c) ==
  \/ \E failed \in BOOLEAN :
       \/ CreateOperator(c, failed)
       \/ Write(c, failed)
       \/ CreateDevice(c, failed)
       \/ \E role \in Roles : CreateRow(c, role, failed)
       \/ WriteRow(c, failed)
       \/ Disown(c, failed)
       \/ DeleteRow(c, failed)
  \/ \E right \in BOOLEAN : VerifyPassword(c, right)
  \/ Return(c)

Next ==
  \/ \E c \in Callers : Ask(c) \/ Step(c)
  \/ Restart

Spec == Init /\ [][Next]_vars

-------------------------------------------------------------------------------
(* Properties                                                              *)

(* The types; a row's identity exists and is a device's, and no two rows    *)
(* share one.                                                               *)
TypeOK ==
  /\ identities \in Seq([type : Types, name : Names, status : Standings])
  /\ Len(identities) <= MaxIdentities
  /\ made \in Nat /\ DOMAIN rows \subseteq 1..made
  /\ rows \in [DOMAIN rows -> Row]
  /\ asked \in Seq([facts : Facts, status : Statuses]) /\ Len(asked) = made
  /\ call \in [Callers -> Call]
  /\ barred \subseteq DOMAIN identities
  /\ raced \subseteq 1..made /\ renamed \subseteq 1..made
  /\ doubled \subseteq {"operator", "device"} \X Names
  /\ updates \in 0..MaxUpdates /\ events \in 0..MaxEvents
  /\ \A r \in DOMAIN rows :
       /\ rows[r].identity \in DOMAIN identities
       /\ identities[rows[r].identity].type = "device"
       /\ \A s \in DOMAIN rows \ {r} : rows[s].identity # rows[r].identity

(* Who was revoked stays out: the identity stays revoked, and no login that *)
(* begins from then on succeeds, unless it is suspended since, or activated *)
(* by a call that had read it before the revocation.                        *)
RevokedKeptOut ==
  /\ \A i \in barred : identities[i].status = "revoked"
  /\ \A c \in Callers : ~(call[c].pc = "granted" /\ call[c].barred)

(* What was changed of a device stays changed: no writing back of a row     *)
(* undoes a status set meanwhile, and none undoes another's change of the   *)
(* other columns but where two overlap.                                     *)
UpdatesStay ==
  \A r \in DOMAIN rows :
    /\ rows[r].status = asked[r].status
    /\ r \notin raced => rows[r].facts = asked[r].facts

(* Two operators have one username, or two rows one hostname, only after    *)
(* both were looked up at a time, or with an error, or a row was renamed.   *)
NamesDistinct ==
  /\ \A i, j \in DOMAIN identities :
       i # j /\ identities[i].type = "operator" /\ identities[j].type = "operator"
             /\ identities[i].name = identities[j].name
         => <<"operator", identities[i].name>> \in doubled
  /\ \A r, s \in DOMAIN rows :
       r # s /\ rows[r].facts.hostname = rows[s].facts.hostname
         => \/ {r, s} \intersect renamed # {}
            \/ <<"device", rows[r].facts.hostname>> \in doubled
===============================================================================
