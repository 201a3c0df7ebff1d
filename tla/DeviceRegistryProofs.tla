------------------------ MODULE DeviceRegistryProofs ------------------------
(***************************************************************************)
(* Proofs about identities and devices.                                    *)
(***************************************************************************)
EXTENDS DeviceRegistry, FiniteSetTheorems, SequenceTheorems, TLAPS

Account == [type : Types, name : Names, status : Standings]
Wanted == [facts : Facts, status : Statuses]

-----------------------------------------------------------------------------
(* Calls                                                                    *)

(* What an entry of call has to be, over the identities, the rows, the      *)
(* number of rows made and the rows renamed: what it has in hand exists;    *)
(* nobody is let in who was barred; a new identity has no row yet; and what *)
(* was read of a row is there still, but for what others wrote.             *)
Good(entry, ids, table, n, changed) ==
  /\ entry \in Call
  /\ entry.pc \in {"operator", "device", "row"} => entry.name \in Names
  /\ entry.pc \in {"row", "set", "disown", "password", "granted"} => entry.id \in DOMAIN ids
  /\ entry.pc = "set" => entry.to \in Standings
  /\ entry.pc = "set" /\ entry.to = "active" => entry.from # "revoked"
  /\ entry.pc \in {"password", "granted"} => ~entry.barred
  /\ entry.pc = "row" => /\ ids[entry.id].type = "device"
                         /\ \A r \in DOMAIN table : table[r].identity # entry.id
  /\ entry.pc = "write" => entry.row \in 1..n /\ entry.read \in Facts
  /\ entry.pc = "write" /\ entry.row \in DOMAIN table =>
       /\ entry.fresh => entry.read = table[entry.row].facts
       /\ \/ entry.read.hostname = table[entry.row].facts.hostname
          \/ entry.row \in changed

CallsGood ==
  /\ call \in [Callers -> Call]
  /\ \A c \in Callers : Good(call[c], identities, rows, made, renamed)

LEMMA NoneFresh == None \notin Names /\ None \notin Roles
BY RegistryAssumption

LEMMA UnchangedType == Unchanged \in Changes
BY DEF Unchanged, Changes

LEMMA IdleType == Idle \in Call /\ Idle.pc = "idle"
BY UnchangedType DEF Idle, Call

LEMMA IdleGood == \A ids, table, n, changed : Good(Idle, ids, table, n, changed)
BY IdleType DEF Good

(* An entry stays good when identities are added or set ...                 *)
LEMMA GoodOverIdentities ==
  ASSUME NEW entry, NEW ids, NEW table, NEW n, NEW changed, NEW ids2,
         Good(entry, ids, table, n, changed),
         DOMAIN ids \subseteq DOMAIN ids2,
         \A i \in DOMAIN ids : ids2[i].type = ids[i].type
  PROVE  Good(entry, ids2, table, n, changed)
BY DEF Good

(* ... and when rows are added, removed, set but for their facts, or        *)
(* written under it.                                                        *)
LEMMA GoodOverRows ==
  ASSUME NEW entry, NEW ids, NEW table, NEW n \in Nat, NEW changed,
         NEW table2, NEW n2 \in Nat, NEW changed2,
         Good(entry, ids, table, n, changed),
         n <= n2, changed \subseteq changed2,
         entry.pc = "row" => \A r \in DOMAIN table2 : table2[r].identity # entry.id,
         \A r \in DOMAIN table2 : entry.pc = "write" /\ entry.row = r =>
           /\ r \in DOMAIN table
           /\ \/ table2[r].facts = table[r].facts
              \/ /\ ~entry.fresh
                 /\ table2[r].facts.hostname = table[r].facts.hostname \/ r \in changed2
  PROVE  Good(entry, ids, table2, n2, changed2)
<1>1. entry \in Call /\ entry.row \in Nat
  BY DEF Good, Call
<1> QED
  BY <1>1 DEF Good

LEMMA GoodEntry ==
  ASSUME CallsGood, NEW c \in Callers
  PROVE  /\ call[c] \in Call /\ Good(call[c], identities, rows, made, renamed)
         /\ call[c].row \in Nat /\ call[c].id \in Nat /\ call[c].change \in Changes
         /\ call[c].name \in Names \union {None}
BY DEF CallsGood, Call

(* A call goes to its next point.                                           *)
LEMMA CallSet ==
  ASSUME CallsGood, NEW c \in Callers, NEW entry,
         call' = [call EXCEPT ![c] = entry],
         Good(entry, identities', rows', made', renamed'),
         \A o \in Callers \ {c} : Good(call[o], identities', rows', made', renamed')
  PROVE  CallsGood' /\ call'[c] = entry /\ \A o \in Callers \ {c} : call'[o] = call[o]
<1>1. entry \in Call
  BY DEF Good
<1> QED
  BY <1>1 DEF CallsGood

(* The same when the tables stay as they are.                               *)
LEMMA CallGoes ==
  ASSUME CallsGood, UNCHANGED <<identities, rows, made, renamed>>, NEW c \in Callers,
         NEW entry, Good(entry, identities, rows, made, renamed),
         call' = [call EXCEPT ![c] = entry]
  PROVE  CallsGood' /\ call'[c] = entry /\ \A o \in Callers \ {c} : call'[o] = call[o]
BY CallSet DEF CallsGood

-----------------------------------------------------------------------------
(* The bound on identities                                                  *)

Creating == {c \in Callers : call[c].pc \in {"operator", "device"}}
RoomKept == Len(identities) + Cardinality(Creating) <= MaxIdentities

LEMMA CreatingFinite ==
  /\ IsFiniteSet(Creating) /\ Cardinality(Creating) \in Nat
  /\ IsFiniteSet(Creating') /\ Cardinality(Creating') \in Nat
BY RegistryAssumption, FS_Subset, FS_CardinalityType DEF Creating

LEMMA FewerCreating ==
  ASSUME Len(identities) \in Nat, MaxIdentities \in Nat, RoomKept, Creating' \subseteq Creating,
         UNCHANGED identities
  PROVE  RoomKept'
<1>1. Cardinality(Creating') <= Cardinality(Creating)
  BY CreatingFinite, FS_Subset
<1> QED
  BY <1>1, CreatingFinite DEF RoomKept

-----------------------------------------------------------------------------
(* Typing                                                                   *)

IdentitiesTyped == identities \in Seq(Account) /\ barred \subseteq DOMAIN identities

RowsTyped ==
  /\ made \in Nat /\ DOMAIN rows \subseteq 1..made
  /\ rows \in [DOMAIN rows -> Row]
  /\ asked \in Seq(Wanted) /\ Len(asked) = made
  /\ raced \subseteq 1..made /\ renamed \subseteq 1..made

RestTyped ==
  /\ doubled \subseteq {"operator", "device"} \X Names
  /\ updates \in 0..MaxUpdates /\ events \in 0..MaxEvents

Owned ==
  \A r \in DOMAIN rows :
    /\ rows[r].identity \in DOMAIN identities
    /\ identities[rows[r].identity].type = "device"
    /\ \A s \in DOMAIN rows \ {r} : rows[s].identity # rows[r].identity

(* No two callers are about to make a row of one identity.                  *)
RowsApart ==
  \A c, o \in Callers :
    c # o /\ call[c].pc = "row" /\ call[o].pc = "row" => call[c].id # call[o].id

BaseInv ==
  /\ IdentitiesTyped /\ RowsTyped /\ RestTyped
  /\ Owned /\ CallsGood /\ RowsApart /\ RoomKept

LEMMA LenIdentities ==
  ASSUME IdentitiesTyped
  PROVE  Len(identities) \in Nat /\ DOMAIN identities = 1..Len(identities)
BY DEF IdentitiesTyped

LEMMA BaseTypes == BaseInv => TypeOK
<1> SUFFICES ASSUME BaseInv PROVE TypeOK
  OBVIOUS
<1>1. Len(identities) <= MaxIdentities
  BY LenIdentities, RegistryBounds, CreatingFinite DEF BaseInv, RoomKept
<1> QED
  BY <1>1 DEF BaseInv, TypeOK, IdentitiesTyped, RowsTyped, RestTyped, Owned, CallsGood, Good,
              Account, Wanted

LEMMA HappensType ==
  ASSUME RestTyped, NEW event, Happens(event), UNCHANGED <<doubled, updates>>
  PROVE  RestTyped'
BY RegistryBounds DEF RestTyped, Happens

(* The identities, and a name they are taken by.                            *)
LEMMA InsertEffect ==
  ASSUME IdentitiesTyped, NEW type \in Types, NEW name \in Names, Insert(type, name),
         UNCHANGED barred
  PROVE  /\ IdentitiesTyped'
         /\ Len(identities') = Len(identities) + 1
         /\ DOMAIN identities' = DOMAIN identities \union {Len(identities')}
         /\ Len(identities') \notin DOMAIN identities
         /\ \A i \in DOMAIN identities : identities'[i] = identities[i]
         /\ identities'[Len(identities')] = [type |-> type, name |-> name, status |-> "active"]
<1> DEFINE new == [type |-> type, name |-> name, status |-> "active"]
<1>1. new \in Account
  BY DEF Account, Standings
<1>2. identities' = Append(identities, new)
  BY DEF Insert
<1> HIDE DEF new
<1>3. /\ identities' \in Seq(Account)
      /\ Len(identities') = Len(identities) + 1
      /\ \A i \in 1..Len(identities) : identities'[i] = identities[i]
      /\ identities'[Len(identities) + 1] = new
      /\ Len(identities) \in Nat
      /\ DOMAIN identities = 1..Len(identities) /\ DOMAIN identities' = 1..Len(identities')
  BY <1>1, <1>2 DEF IdentitiesTyped
<1>4. DOMAIN identities' = DOMAIN identities \union {Len(identities')}
  BY <1>3
<1> QED
  BY <1>3, <1>4 DEF IdentitiesTyped, new

LEMMA SetEffect ==
  ASSUME IdentitiesTyped, NEW id \in DOMAIN identities, NEW from, NEW to \in Standings,
         SetStatus(id, from, to)
  PROVE  /\ IdentitiesTyped'
         /\ DOMAIN identities' = DOMAIN identities /\ Len(identities') = Len(identities)
         /\ \A i \in DOMAIN identities :
              /\ identities'[i].type = identities[i].type
              /\ identities'[i].name = identities[i].name
              /\ i # id => identities'[i].status = identities[i].status
         /\ identities'[id].status = to
<1>1. identities' = [identities EXCEPT ![id] = [@ EXCEPT !.status = to]]
  BY DEF SetStatus
<1>2. identities \in Seq(Account) /\ id \in 1..Len(identities) /\ identities[id] \in Account
  BY DEF IdentitiesTyped
<1>3. [identities[id] EXCEPT !.status = to] \in Account
  BY <1>2 DEF Account
<1>4. identities' \in Seq(Account) /\ Len(identities') = Len(identities)
  BY <1>1, <1>2, <1>3, ExceptSeq
<1>5. DOMAIN identities' = DOMAIN identities
  BY <1>1
<1>6. barred' \subseteq DOMAIN identities
  BY DEF SetStatus, IdentitiesTyped
<1> QED
  BY <1>1, <1>2, <1>4, <1>5, <1>6 DEF IdentitiesTyped, Account

(* A call that goes on over tables that stay as they are, and is not about  *)
(* to create.                                                               *)
LEMMA BaseByCall ==
  ASSUME BaseInv, NEW c \in Callers, NEW entry,
         Good(entry, identities, rows, made, renamed),
         entry.pc \notin {"operator", "device", "row"},
         call' = [call EXCEPT ![c] = entry],
         UNCHANGED <<identityVars, rowVars>>, RestTyped'
  PROVE  BaseInv'
<1>1. UNCHANGED <<identities, barred, rows, made, asked, raced, renamed>>
  BY DEF identityVars, rowVars
<1>2. CallsGood' /\ call'[c] = entry /\ \A o \in Callers \ {c} : call'[o] = call[o]
  BY <1>1, CallGoes DEF BaseInv
<1>3. RowsApart'
  BY <1>2 DEF BaseInv, RowsApart
<1>4. Creating' \subseteq Creating
  BY <1>2 DEF Creating
<1>5. RoomKept'
  BY <1>1, <1>4, FewerCreating, LenIdentities, RegistryBounds DEF BaseInv
<1>6. IdentitiesTyped' /\ RowsTyped' /\ Owned'
  BY <1>1 DEF BaseInv, IdentitiesTyped, RowsTyped, Owned
<1> QED
  BY <1>2, <1>3, <1>5, <1>6 DEF BaseInv

(* A caller with a name goes on to create; nothing is created yet.          *)
LEMMA BaseByLook ==
  ASSUME BaseInv, NEW c \in Callers, NEW entry, call[c].pc = "idle",
         Good(entry, identities, rows, made, renamed),
         entry.pc # "row", Room,
         call' = [call EXCEPT ![c] = entry],
         UNCHANGED <<identityVars, rowVars>>, RestTyped'
  PROVE  BaseInv'
<1>1. UNCHANGED <<identities, barred, rows, made, asked, raced, renamed>>
  BY DEF identityVars, rowVars
<1>2. CallsGood' /\ call'[c] = entry /\ \A o \in Callers \ {c} : call'[o] = call[o]
  BY <1>1, CallGoes DEF BaseInv
<1>3. RowsApart'
  BY <1>2 DEF BaseInv, RowsApart
<1>4. Creating' \subseteq Creating \union {c}
  BY <1>2 DEF Creating
<1>5. Cardinality(Creating') <= Cardinality(Creating) + 1
  <2>1. /\ IsFiniteSet(Creating \union {c})
        /\ Cardinality(Creating \union {c}) <= Cardinality(Creating) + 1
    BY CreatingFinite, FS_AddElement
  <2>2. /\ Cardinality(Creating') <= Cardinality(Creating \union {c})
        /\ Cardinality(Creating \union {c}) \in Nat
    BY <1>4, <2>1, FS_Subset, FS_CardinalityType
  <2> QED
    BY <2>1, <2>2, CreatingFinite
<1>6. RoomKept'
  <2>1. Len(identities) + Cardinality(Creating) < MaxIdentities
    BY DEF Room, Creating
  <2> QED
    BY <1>1, <1>5, <2>1, CreatingFinite, LenIdentities, RegistryBounds DEF BaseInv, RoomKept
<1>7. IdentitiesTyped' /\ RowsTyped' /\ Owned'
  BY <1>1 DEF BaseInv, IdentitiesTyped, RowsTyped, Owned
<1> QED
  BY <1>2, <1>3, <1>6, <1>7 DEF BaseInv

(* An identity is created, by a call that had room for it: that then makes  *)
(* a row of it or does not.                                                 *)
LEMMA BaseByInsert ==
  ASSUME BaseInv, NEW c \in Callers, NEW entry, NEW type \in Types, NEW name \in Names,
         Insert(type, name), UNCHANGED <<barred, rowVars>>, RestTyped',
         Good(entry, identities', rows, made, renamed),
         entry.pc = "row" => entry.id = Len(identities'),
         call' = [call EXCEPT ![c] = entry],
         \/ entry.pc \notin {"operator", "device"} /\ call[c].pc \in {"operator", "device"}
         \/ call[c] = entry /\ entry.pc = "idle" /\ Room
  PROVE  BaseInv'
<1>0. UNCHANGED <<rows, made, asked, raced, renamed>>
  BY DEF rowVars
<1>1. /\ IdentitiesTyped'
      /\ Len(identities') = Len(identities) + 1
      /\ DOMAIN identities' = DOMAIN identities \union {Len(identities')}
      /\ Len(identities') \notin DOMAIN identities
      /\ \A i \in DOMAIN identities : identities'[i] = identities[i]
  BY InsertEffect DEF BaseInv
<1>2. ASSUME NEW o \in Callers \ {c} PROVE Good(call[o], identities', rows, made, renamed)
  <2>1. Good(call[o], identities, rows, made, renamed)
    BY DEF BaseInv, CallsGood
  <2> QED
    BY <1>1, <2>1, GoodOverIdentities
<1>3. CallsGood' /\ call'[c] = entry /\ \A o \in Callers \ {c} : call'[o] = call[o]
  BY <1>0, <1>2, CallSet DEF BaseInv
<1>4. RowsApart'
  <2>1. \A o \in Callers : call[o].pc = "row" => call[o].id \in DOMAIN identities
    BY DEF BaseInv, CallsGood, Good
  <2> QED
    BY <1>1, <1>3, <2>1 DEF BaseInv, RowsApart
<1>5. RoomKept'
  <2>1. CASE entry.pc \notin {"operator", "device"} /\ call[c].pc \in {"operator", "device"}
    <3>1. c \in Creating /\ Creating' = Creating \ {c}
      BY <1>3, <2>1 DEF Creating
    <3>2. Cardinality(Creating') = Cardinality(Creating) - 1
      BY <3>1, CreatingFinite, FS_RemoveElement
    <3> QED
      BY <1>1, <3>2, CreatingFinite, LenIdentities, RegistryBounds DEF BaseInv, RoomKept
  <2>2. CASE call[c] = entry /\ entry.pc = "idle" /\ Room
    <3>1. Creating' = Creating
      BY <1>3, <2>2 DEF Creating
    <3>2. Len(identities) + Cardinality(Creating) < MaxIdentities
      BY <2>2 DEF Room, Creating
    <3> QED
      BY <1>1, <3>1, <3>2, CreatingFinite, LenIdentities, RegistryBounds DEF BaseInv, RoomKept
  <2> QED
    BY <2>1, <2>2
<1>6. RowsTyped'
  BY <1>0 DEF BaseInv, RowsTyped
<1>7. Owned'
  BY <1>0, <1>1 DEF BaseInv, Owned
<1> QED
  BY <1>1, <1>3, <1>4, <1>5, <1>6, <1>7 DEF BaseInv

(* A status is set.                                                         *)
LEMMA BaseBySet ==
  ASSUME BaseInv, NEW c \in Callers, NEW entry,
         Good(entry, identities, rows, made, renamed),
         entry.pc \notin {"operator", "device", "row"},
         call' = [call EXCEPT ![c] = entry],
         NEW id \in DOMAIN identities, NEW from, NEW to \in Standings,
         SetStatus(id, from, to), UNCHANGED rowVars, RestTyped'
  PROVE  BaseInv'
<1>0. UNCHANGED <<rows, made, asked, raced, renamed>>
  BY DEF rowVars
<1>1. /\ IdentitiesTyped'
      /\ DOMAIN identities' = DOMAIN identities /\ Len(identities') = Len(identities)
      /\ \A i \in DOMAIN identities : identities'[i].type = identities[i].type
  BY SetEffect DEF BaseInv
<1>2. ASSUME NEW e, Good(e, identities, rows, made, renamed)
      PROVE  Good(e, identities', rows, made, renamed)
  BY <1>1, <1>2, GoodOverIdentities
<1>3. CallsGood' /\ call'[c] = entry /\ \A o \in Callers \ {c} : call'[o] = call[o]
  BY <1>0, <1>2, CallSet DEF BaseInv, CallsGood
<1>4. RowsApart'
  BY <1>3 DEF BaseInv, RowsApart
<1>5. RoomKept'
  <2>1. Creating' \subseteq Creating
    BY <1>3 DEF Creating
  <2>2. Cardinality(Creating') <= Cardinality(Creating)
    BY <2>1, CreatingFinite, FS_Subset
  <2> QED
    BY <1>1, <2>2, CreatingFinite, LenIdentities, RegistryBounds DEF BaseInv, RoomKept
<1>6. RowsTyped' /\ Owned'
  BY <1>0, <1>1 DEF BaseInv, RowsTyped, Owned
<1> QED
  BY <1>1, <1>3, <1>4, <1>5, <1>6 DEF BaseInv

(* A row is made of the identity just created for it.                       *)
LEMMA CreateRowEffect ==
  ASSUME RowsTyped, NEW c \in Callers, NEW role \in Roles,
         call[c].pc = "row", call[c].name \in Names, call[c].id \in Nat,
         CreateRow(c, role, FALSE)
  PROVE  /\ made' = made + 1
         /\ DOMAIN rows' = DOMAIN rows \union {made'} /\ made' \notin DOMAIN rows
         /\ \A r \in DOMAIN rows : rows'[r] = rows[r]
         /\ rows'[made'].identity = call[c].id
         /\ rows'[made'].facts = [hostname |-> call[c].name, role |-> role]
         /\ rows'[made'].status = Unknown
         /\ asked' = Append(asked, [facts |-> rows'[made'].facts, status |-> Unknown])
         /\ \A r \in DOMAIN rows : asked'[r] = asked[r]
         /\ asked'[made'] = [facts |-> rows'[made'].facts, status |-> Unknown]
         /\ RowsTyped'
<1> DEFINE facts == [hostname |-> call[c].name, role |-> role]
           new == [identity |-> call[c].id, facts |-> facts, status |-> Unknown]
           wanted == [facts |-> facts, status |-> Unknown]
<1>0. facts \in Facts /\ new \in Row /\ wanted \in Wanted
  BY RegistryAssumption DEF Facts, Row, Wanted
<1>1. /\ made' = made + 1
      /\ rows' = [r \in DOMAIN rows \union {made + 1} |->
                    IF r # made + 1 THEN rows[r] ELSE new]
      /\ asked' = Append(asked, wanted)
      /\ UNCHANGED <<raced, renamed>>
  BY DEF CreateRow
<1>2. /\ made \in Nat /\ DOMAIN rows \subseteq 1..made
      /\ rows \in [DOMAIN rows -> Row]
      /\ asked \in Seq(Wanted) /\ Len(asked) = made
      /\ raced \subseteq 1..made /\ renamed \subseteq 1..made
  BY DEF RowsTyped
<1>3. new.identity = call[c].id /\ new.facts = facts /\ new.status = Unknown
  OBVIOUS
<1> HIDE DEF new, wanted
<1>4. /\ asked' \in Seq(Wanted) /\ Len(asked') = made'
      /\ \A r \in 1..made : asked'[r] = asked[r]
      /\ asked'[made'] = wanted
  BY <1>0, <1>1, <1>2
<1>5. made + 1 \notin DOMAIN rows
  BY <1>2
<1>6. /\ DOMAIN rows' = DOMAIN rows \union {made'} /\ made' \notin DOMAIN rows
      /\ \A r \in DOMAIN rows : rows'[r] = rows[r]
      /\ rows'[made'] = new
  BY <1>1, <1>5
<1>7. rows' \in [DOMAIN rows' -> Row]
  <2>1. \A r \in DOMAIN rows' : rows'[r] \in Row
    BY <1>0, <1>2, <1>6
  <2> QED
    BY <1>1, <2>1
<1>8. RowsTyped'
  BY <1>1, <1>2, <1>4, <1>6, <1>7 DEF RowsTyped
<1> QED
  BY <1>1, <1>2, <1>3, <1>4, <1>6, <1>8 DEF wanted

LEMMA BaseByCreateRow ==
  ASSUME BaseInv, NEW c \in Callers, NEW role \in Roles,
         CreateRow(c, role, FALSE), RestTyped'
  PROVE  BaseInv'
<1>0. /\ call[c].pc = "row" /\ call' = [call EXCEPT ![c] = Idle]
      /\ UNCHANGED <<identities, barred, raced, renamed>>
  BY DEF CreateRow, Ends, identityVars
<1>1. /\ call[c].name \in Names /\ call[c].id \in DOMAIN identities /\ call[c].id \in Nat
      /\ identities[call[c].id].type = "device"
      /\ \A r \in DOMAIN rows : rows[r].identity # call[c].id
  BY <1>0, GoodEntry DEF BaseInv, CallsGood, Good
<1>2. /\ made' = made + 1 /\ made \in Nat
      /\ DOMAIN rows' = DOMAIN rows \union {made'} /\ made' \notin DOMAIN rows
      /\ \A r \in DOMAIN rows : rows'[r] = rows[r]
      /\ rows'[made'].identity = call[c].id
      /\ RowsTyped'
  <2>1. RowsTyped /\ made \in Nat
    BY DEF BaseInv, RowsTyped
  <2> QED
    BY <1>0, <1>1, <2>1, CreateRowEffect
<1>3. ASSUME NEW o \in Callers \ {c} PROVE Good(call[o], identities', rows', made', renamed')
  <2>1. Good(call[o], identities, rows, made, renamed)
    BY DEF BaseInv, CallsGood
  <2>2. call[o].pc = "row" => \A r \in DOMAIN rows' : rows'[r].identity # call[o].id
    BY <1>0, <1>2, <2>1 DEF BaseInv, RowsApart, Good
  <2>3. call[o].pc = "write" => call[o].row \in 1..made
    BY <2>1 DEF Good
  <2>4. Good(call[o], identities, rows', made', renamed)
    BY <1>2, <2>1, <2>2, <2>3, GoodOverRows
  <2> QED
    BY <1>0, <2>4
<1>4. CallsGood' /\ call'[c] = Idle /\ \A o \in Callers \ {c} : call'[o] = call[o]
  BY <1>0, <1>3, IdleGood, CallSet DEF BaseInv
<1>5. RowsApart'
  BY <1>4, IdleType DEF BaseInv, RowsApart
<1>6. RoomKept'
  <2>1. Creating' \subseteq Creating
    BY <1>4, IdleType DEF Creating
  <2> QED
    BY <1>0, <2>1, FewerCreating, LenIdentities, RegistryBounds DEF BaseInv
<1>7. Owned'
  BY <1>0, <1>1, <1>2 DEF BaseInv, Owned
<1>8. IdentitiesTyped'
  BY <1>0 DEF BaseInv, IdentitiesTyped
<1> QED
  BY <1>2, <1>4, <1>5, <1>6, <1>7, <1>8 DEF BaseInv

LEMMA ApplyType ==
  ASSUME NEW facts \in Facts, NEW change \in Changes
  PROVE  Apply(facts, change) \in Facts
BY DEF Apply, Facts, Changes

(* A row is written back, with the facts f.                                 *)
LEMMA WriteRowEffect ==
  ASSUME RowsTyped, CallsGood, NEW c \in Callers, WriteRow(c, FALSE),
         call[c].row \in DOMAIN rows
  PROVE  LET r == call[c].row
             f == Apply(call[c].read, call[c].change)
         IN  /\ call[c].read \in Facts /\ f \in Facts
             /\ DOMAIN rows' = DOMAIN rows
             /\ \A s \in DOMAIN rows \ {r} : rows'[s] = rows[s]
             /\ rows'[r].facts = f /\ rows'[r].identity = rows[r].identity
             /\ rows'[r].status = rows[r].status
             /\ \A s \in DOMAIN rows \ {r} : asked'[s] = asked[s]
             /\ asked'[r].facts = Apply(asked[r].facts, call[c].change)
             /\ asked'[r].status = asked[r].status
             /\ raced' = IF call[c].fresh THEN raced ELSE raced \union {r}
             /\ renamed' = IF call[c].change.hostname = None THEN renamed
                           ELSE renamed \union {r}
             /\ made' = made
             /\ RowsTyped'
<1> DEFINE r == call[c].row
           f == Apply(call[c].read, call[c].change)
           g == Apply(asked[r].facts, call[c].change)
<1>1. /\ call[c].pc = "write"
      /\ rows' = [rows EXCEPT ![r] = [@ EXCEPT !.facts = f]]
      /\ asked' = [asked EXCEPT ![r] = [@ EXCEPT !.facts = g]]
      /\ raced' = IF call[c].fresh THEN raced ELSE raced \union {r}
      /\ renamed' = IF call[c].change.hostname = None THEN renamed ELSE renamed \union {r}
      /\ made' = made
  BY DEF WriteRow
<1>2. /\ made \in Nat /\ DOMAIN rows \subseteq 1..made
      /\ rows \in [DOMAIN rows -> Row]
      /\ asked \in Seq(Wanted) /\ Len(asked) = made
      /\ raced \subseteq 1..made /\ renamed \subseteq 1..made
  BY DEF RowsTyped
<1>3. call[c].read \in Facts /\ call[c].change \in Changes
  BY <1>1, GoodEntry DEF Good
<1>4. rows[r] \in Row /\ asked[r] \in Wanted /\ r \in 1..Len(asked)
  BY <1>2
<1>5. f \in Facts /\ g \in Facts
  BY <1>3, <1>4, ApplyType DEF Wanted
<1> HIDE DEF f, g, r
<1>6. /\ [rows[r] EXCEPT !.facts = f] \in Row
      /\ [rows[r] EXCEPT !.facts = f].facts = f
      /\ [rows[r] EXCEPT !.facts = f].identity = rows[r].identity
      /\ [rows[r] EXCEPT !.facts = f].status = rows[r].status
  BY <1>4, <1>5 DEF Row
<1>7. /\ [asked[r] EXCEPT !.facts = g] \in Wanted
      /\ [asked[r] EXCEPT !.facts = g].facts = g
      /\ [asked[r] EXCEPT !.facts = g].status = asked[r].status
  BY <1>4, <1>5 DEF Wanted
<1>8. /\ DOMAIN rows' = DOMAIN rows
      /\ \A s \in DOMAIN rows \ {r} : rows'[s] = rows[s]
      /\ rows'[r] = [rows[r] EXCEPT !.facts = f]
      /\ rows' \in [DOMAIN rows' -> Row]
  <2>1. r \in DOMAIN rows
    BY DEF r
  <2> QED
    BY <1>1, <1>2, <1>6, <2>1
<1>9. /\ \A s \in DOMAIN rows \ {r} : asked'[s] = asked[s]
      /\ asked'[r] = [asked[r] EXCEPT !.facts = g]
      /\ asked' \in Seq(Wanted) /\ Len(asked') = made
  <2>1. /\ asked' \in Seq(Wanted) /\ Len(asked') = Len(asked)
        /\ \A s \in 1..Len(asked) : asked'[s] = IF s = r THEN [asked[r] EXCEPT !.facts = g]
                                                  ELSE asked[s]
    BY <1>1, <1>2, <1>4, <1>7, ExceptSeq
  <2> QED
    BY <1>2, <1>4, <2>1
<1>10. RowsTyped'
  BY <1>1, <1>2, <1>4, <1>8, <1>9 DEF RowsTyped
<1> QED
  BY <1>1, <1>3, <1>5, <1>6, <1>7, <1>8, <1>9, <1>10 DEF r, f, g

(* The others that have read the row did not read what is written.          *)
LEMMA WriteRowCalls ==
  ASSUME CallsGood, NEW c \in Callers, WriteRow(c, FALSE), call[c].row \in DOMAIN rows
  PROVE  /\ call' \in [Callers -> Call] /\ call'[c] = Idle
         /\ \A o \in Callers \ {c} :
              /\ \/ call'[o] = call[o]
                 \/ /\ call[o].pc = "write" /\ call[o].row = call[c].row
                    /\ call'[o] = [call[o] EXCEPT !.fresh = FALSE]
              /\ call'[o].pc = call[o].pc /\ call'[o].id = call[o].id
              /\ call'[o].name = call[o].name /\ call'[o].row = call[o].row
              /\ call'[o].barred = call[o].barred /\ call'[o].read = call[o].read
              /\ call[o].pc = "write" /\ call[o].row = call[c].row => ~call'[o].fresh
              /\ call[o].pc = "write" /\ call[o].row # call[c].row => call'[o] = call[o]
<1>1. \A o \in Callers :
        call'[o] = IF o = c THEN Idle
                   ELSE IF call[o].pc = "write" /\ call[o].row = call[c].row
                        THEN [call[o] EXCEPT !.fresh = FALSE] ELSE call[o]
  BY DEF WriteRow
<1>2. DOMAIN call' = Callers /\ call' = [o \in Callers |-> call'[o]]
  BY DEF WriteRow
<1>3. ASSUME NEW o \in Callers
      PROVE  LET e == [call[o] EXCEPT !.fresh = FALSE]
             IN  /\ e \in Call /\ e.pc = call[o].pc /\ e.id = call[o].id
                 /\ e.name = call[o].name /\ e.row = call[o].row
                 /\ e.barred = call[o].barred /\ e.read = call[o].read /\ ~e.fresh
  <2>1. call[o] \in Call
    BY GoodEntry
  <2> QED
    BY <2>1 DEF Call
<1>4. \A o \in Callers : call'[o] \in Call
  BY <1>1, <1>3, IdleType, GoodEntry
<1>5. call' \in [Callers -> Call]
  BY ONLY <1>2, <1>4
<1> QED
  BY <1>1, <1>3, <1>5

(* A hostname that is written back is the one there, or one the row was     *)
(* renamed to or from.                                                      *)
LEMMA HostnameKept ==
  ASSUME RowsTyped, CallsGood, NEW c \in Callers, WriteRow(c, FALSE),
         call[c].row \in DOMAIN rows
  PROVE  LET r == call[c].row
         IN  rows'[r].facts.hostname = rows[r].facts.hostname \/ r \in renamed'
<1> DEFINE r == call[c].row
           f == Apply(call[c].read, call[c].change)
<1>1. call[c].pc = "write"
  BY DEF WriteRow
<1>2. call[c].read.hostname = rows[r].facts.hostname \/ r \in renamed
  BY <1>1, GoodEntry DEF Good
<1>3. /\ rows'[r].facts = f
      /\ renamed' = IF call[c].change.hostname = None THEN renamed ELSE renamed \union {r}
  BY WriteRowEffect
<1>4. call[c].change.hostname = None => f.hostname = call[c].read.hostname
  BY DEF Apply
<1> QED
  BY <1>2, <1>3, <1>4

LEMMA BaseByWriteRow ==
  ASSUME BaseInv, NEW c \in Callers, WriteRow(c, FALSE), call[c].row \in DOMAIN rows, RestTyped'
  PROVE  BaseInv'
<1> DEFINE r == call[c].row
<1>0. /\ RowsTyped /\ CallsGood /\ made \in Nat
      /\ UNCHANGED <<identities, barred>>
  BY DEF BaseInv, RowsTyped, WriteRow, identityVars
<1>1. /\ DOMAIN rows' = DOMAIN rows
      /\ \A s \in DOMAIN rows \ {r} : rows'[s] = rows[s]
      /\ rows'[r].identity = rows[r].identity
      /\ made' = made /\ renamed \subseteq renamed'
      /\ RowsTyped'
  BY <1>0, WriteRowEffect
<1>2. /\ call' \in [Callers -> Call] /\ call'[c] = Idle
      /\ \A o \in Callers \ {c} :
           /\ \/ call'[o] = call[o]
              \/ /\ call[o].pc = "write" /\ call[o].row = r
                 /\ call'[o] = [call[o] EXCEPT !.fresh = FALSE]
           /\ call'[o].pc = call[o].pc /\ call'[o].id = call[o].id
           /\ call'[o].row = call[o].row /\ call'[o].read = call[o].read
           /\ call[o].pc = "write" /\ call[o].row = r => ~call'[o].fresh
           /\ call[o].pc = "write" /\ call[o].row # r => call'[o] = call[o]
  BY <1>0, WriteRowCalls
<1>3. ASSUME NEW o \in Callers PROVE Good(call'[o], identities, rows', made, renamed')
  <2>1. Good(call[o], identities, rows, made, renamed) /\ call'[o] \in Call
    BY <1>0, <1>2 DEF CallsGood
  <2>2. CASE o = c
    BY <1>2, <2>2, IdleGood
  <2>3. CASE o # c /\ call[o].pc = "write" /\ call[o].row = r
    <3>1. rows'[r].facts.hostname = rows[r].facts.hostname \/ r \in renamed'
      BY <1>0, HostnameKept
    <3>2. call[o].read.hostname = rows[r].facts.hostname \/ r \in renamed
      BY <2>1, <2>3 DEF Good
    <3>3. call[o].row \in 1..made /\ call[o].read \in Facts
      BY <2>1, <2>3 DEF Good
    <3>4. /\ call'[o].pc = "write" /\ call'[o].row = r /\ call'[o].read = call[o].read
          /\ ~call'[o].fresh
      BY <1>2, <2>3
    <3>5. /\ call'[o].read.hostname = rows'[r].facts.hostname \/ r \in renamed'
      BY <1>1, <3>1, <3>2, <3>4
    <3> QED
      BY <2>1, <2>3, <3>3, <3>4, <3>5 DEF Good
  <2>4. CASE o # c /\ ~(call[o].pc = "write" /\ call[o].row = r)
    <3>1. call'[o] = call[o]
      BY <1>2, <2>4
    <3>2. call[o].pc = "row" => \A s \in DOMAIN rows' : rows'[s].identity # call[o].id
      BY <1>1, <2>1 DEF Good
    <3>3. Good(call[o], identities, rows', made, renamed')
      BY <1>0, <1>1, <2>1, <2>4, <3>2, GoodOverRows
    <3> QED
      BY <3>1, <3>3
  <2> QED
    BY <2>2, <2>3, <2>4
<1>4. CallsGood'
  BY <1>0, <1>1, <1>2, <1>3 DEF CallsGood
<1>5. RowsApart'
  BY <1>2, IdleType DEF BaseInv, RowsApart
<1>6. RoomKept'
  <2>1. Creating' \subseteq Creating
    BY <1>2, IdleType DEF Creating
  <2> QED
    BY <1>0, <2>1, FewerCreating, LenIdentities, RegistryBounds DEF BaseInv
<1>7. Owned'
  BY <1>0, <1>1 DEF BaseInv, Owned
<1>8. IdentitiesTyped'
  BY <1>0 DEF BaseInv, IdentitiesTyped
<1> QED
  BY <1>1, <1>4, <1>5, <1>6, <1>7, <1>8 DEF BaseInv

(* A status of a device is set.                                             *)
LEMMA UpdateStatusEffect ==
  ASSUME RowsTyped, NEW r \in DOMAIN rows, NEW status \in Statuses, UpdateStatus(r, status)
  PROVE  /\ DOMAIN rows' = DOMAIN rows
         /\ \A s \in DOMAIN rows : /\ rows'[s].identity = rows[s].identity
                                   /\ rows'[s].facts = rows[s].facts
                                   /\ asked'[s].facts = asked[s].facts
         /\ \A s \in DOMAIN rows \ {r} : /\ rows'[s].status = rows[s].status
                                         /\ asked'[s].status = asked[s].status
         /\ rows'[r].status = status /\ asked'[r].status = status
         /\ RowsTyped'
<1>1. /\ rows' = [rows EXCEPT ![r] = [@ EXCEPT !.status = status]]
      /\ asked' = [asked EXCEPT ![r] = [@ EXCEPT !.status = status]]
      /\ UNCHANGED <<made, raced, renamed>>
  BY DEF UpdateStatus
<1>2. /\ made \in Nat /\ DOMAIN rows \subseteq 1..made
      /\ rows \in [DOMAIN rows -> Row]
      /\ asked \in Seq(Wanted) /\ Len(asked) = made
      /\ raced \subseteq 1..made /\ renamed \subseteq 1..made
  BY DEF RowsTyped
<1>3. rows[r] \in Row /\ asked[r] \in Wanted /\ r \in 1..Len(asked)
  BY <1>2
<1>4. /\ [rows[r] EXCEPT !.status = status] \in Row
      /\ [rows[r] EXCEPT !.status = status].facts = rows[r].facts
      /\ [rows[r] EXCEPT !.status = status].identity = rows[r].identity
      /\ [rows[r] EXCEPT !.status = status].status = status
      /\ [asked[r] EXCEPT !.status = status] \in Wanted
      /\ [asked[r] EXCEPT !.status = status].facts = asked[r].facts
      /\ [asked[r] EXCEPT !.status = status].status = status
  BY <1>3 DEF Row, Wanted
<1>5. /\ DOMAIN rows' = DOMAIN rows
      /\ \A s \in DOMAIN rows \ {r} : rows'[s] = rows[s]
      /\ rows'[r] = [rows[r] EXCEPT !.status = status]
      /\ rows' \in [DOMAIN rows' -> Row]
  BY <1>1, <1>2, <1>4
<1>6. /\ \A s \in DOMAIN rows \ {r} : asked'[s] = asked[s]
      /\ asked'[r] = [asked[r] EXCEPT !.status = status]
      /\ asked' \in Seq(Wanted) /\ Len(asked') = made
  <2>1. /\ asked' \in Seq(Wanted) /\ Len(asked') = Len(asked)
        /\ \A s \in 1..Len(asked) : asked'[s] = IF s = r THEN [asked[r] EXCEPT !.status = status]
                                                  ELSE asked[s]
    BY <1>1, <1>2, <1>3, <1>4, ExceptSeq
  <2> QED
    BY <1>2, <1>3, <2>1
<1>7. RowsTyped'
  BY <1>1, <1>2, <1>3, <1>5, <1>6 DEF RowsTyped
<1> QED
  BY <1>4, <1>5, <1>6, <1>7

LEMMA BaseByStatus ==
  ASSUME BaseInv, NEW r \in DOMAIN rows, NEW status \in Statuses, UpdateStatus(r, status)
  PROVE  BaseInv'
<1>0. /\ UNCHANGED <<identities, barred, made, renamed, call>>
      /\ UNCHANGED <<doubled, events>> /\ updates < MaxUpdates /\ updates' = updates + 1
      /\ RowsTyped /\ made \in Nat
  BY DEF UpdateStatus, identityVars, BaseInv, RowsTyped
<1>1. /\ DOMAIN rows' = DOMAIN rows
      /\ \A s \in DOMAIN rows : /\ rows'[s].identity = rows[s].identity
                                /\ rows'[s].facts = rows[s].facts
      /\ RowsTyped'
  BY <1>0, UpdateStatusEffect
<1>2. CallsGood'
  <2>1. ASSUME NEW o \in Callers PROVE Good(call[o], identities, rows', made, renamed)
    <3>1. Good(call[o], identities, rows, made, renamed)
      BY DEF BaseInv, CallsGood
    <3>2. call[o].pc = "row" => \A s \in DOMAIN rows' : rows'[s].identity # call[o].id
      BY <1>1, <3>1 DEF Good
    <3> QED
      BY <1>0, <1>1, <3>1, <3>2, GoodOverRows
  <2> QED
    BY <1>0, <2>1 DEF BaseInv, CallsGood
<1>3. RestTyped'
  BY <1>0, RegistryBounds DEF BaseInv, RestTyped
<1>4. RowsApart' /\ RoomKept' /\ IdentitiesTyped'
  BY <1>0 DEF BaseInv, RowsApart, RoomKept, Creating, IdentitiesTyped
<1>5. Owned'
  BY <1>0, <1>1 DEF BaseInv, Owned
<1> QED
  BY <1>1, <1>2, <1>3, <1>4, <1>5 DEF BaseInv

(* A row is deleted.                                                        *)
LEMMA DeleteRowEffect ==
  ASSUME RowsTyped, NEW c \in Callers, DeleteRow(c, FALSE)
  PROVE  /\ DOMAIN rows' \subseteq DOMAIN rows
         /\ \A s \in DOMAIN rows' : rows'[s] = rows[s]
         /\ UNCHANGED <<made, asked, raced, renamed>>
         /\ RowsTyped'
<1>1. /\ rows' = [r \in DOMAIN rows \ {call[c].row} |-> rows[r]]
      /\ UNCHANGED <<made, asked, raced, renamed>>
  BY DEF DeleteRow
<1>2. rows \in [DOMAIN rows -> Row] /\ DOMAIN rows \subseteq 1..made
  BY DEF RowsTyped
<1>3. rows' \in [DOMAIN rows' -> Row] /\ DOMAIN rows' \subseteq 1..made
  BY <1>1, <1>2
<1> QED
  BY <1>1, <1>3 DEF RowsTyped

LEMMA BaseByDeleteRow ==
  ASSUME BaseInv, NEW c \in Callers, DeleteRow(c, FALSE), RestTyped'
  PROVE  BaseInv'
<1>0. /\ UNCHANGED <<identities, barred>> /\ call' = [call EXCEPT ![c] = Idle]
      /\ RowsTyped /\ made \in Nat
  BY DEF DeleteRow, Ends, identityVars, BaseInv, RowsTyped
<1>1. /\ DOMAIN rows' \subseteq DOMAIN rows
      /\ \A s \in DOMAIN rows' : rows'[s] = rows[s]
      /\ UNCHANGED <<made, renamed>>
      /\ RowsTyped'
  BY <1>0, DeleteRowEffect
<1>2. ASSUME NEW o \in Callers PROVE Good(call[o], identities', rows', made', renamed')
  <2>1. Good(call[o], identities, rows, made, renamed)
    BY DEF BaseInv, CallsGood
  <2>2. call[o].pc = "row" => \A s \in DOMAIN rows' : rows'[s].identity # call[o].id
    BY <1>1, <2>1 DEF Good
  <2>3. Good(call[o], identities, rows', made, renamed)
    BY <1>0, <1>1, <2>1, <2>2, GoodOverRows
  <2> QED
    BY <1>0, <1>1, <2>3
<1>3. CallsGood' /\ call'[c] = Idle /\ \A o \in Callers \ {c} : call'[o] = call[o]
  BY <1>0, <1>2, IdleGood, CallSet DEF BaseInv
<1>4. RowsApart'
  BY <1>3, IdleType DEF BaseInv, RowsApart
<1>5. RoomKept'
  <2>1. Creating' \subseteq Creating
    BY <1>3, IdleType DEF Creating
  <2> QED
    BY <1>0, <2>1, FewerCreating, LenIdentities, RegistryBounds DEF BaseInv
<1>6. Owned' /\ IdentitiesTyped'
  BY <1>0, <1>1 DEF BaseInv, Owned, IdentitiesTyped
<1> QED
  BY <1>1, <1>3, <1>4, <1>5, <1>6 DEF BaseInv

-----------------------------------------------------------------------------
(* Steps                                                                    *)

(* The caller c goes to entry, and is not about to create; the tables stay  *)
(* as they are.                                                             *)
Passes(c, entry) ==
  /\ Good(entry, identities, rows, made, renamed)
  /\ entry.pc \notin {"operator", "device", "row"}
  /\ call' = [call EXCEPT ![c] = entry]
  /\ UNCHANGED <<identityVars, rowVars, doubled>>

LEMMA IdlePasses ==
  ASSUME NEW c \in Callers, Ends(c), UNCHANGED <<identityVars, rowVars, doubled>>
  PROVE  Passes(c, Idle)
BY IdleGood, IdleType DEF Passes, Ends

(* Going on at another point with what the call has.                        *)
LEMMA GoesPasses ==
  ASSUME CallsGood, NEW c \in Callers, NEW pc \in {"delete", "granted"}, Goes(c, pc),
         pc = "granted" => call[c].pc = "password",
         UNCHANGED <<identityVars, rowVars, doubled>>
  PROVE  \E entry : Passes(c, entry)
<1> DEFINE entry == [call[c] EXCEPT !.pc = pc]
<1>1. call[c] \in Call /\ Good(call[c], identities, rows, made, renamed)
  BY GoodEntry
<1>2. /\ entry \in Call /\ entry.pc = pc /\ entry.id = call[c].id
      /\ entry.barred = call[c].barred
  BY <1>1 DEF Call
<1>3. call' = [call EXCEPT ![c] = entry]
  BY DEF Goes
<1> HIDE DEF entry
<1>4. Good(entry, identities, rows, made, renamed)
  BY <1>1, <1>2 DEF Good
<1> QED
  BY <1>2, <1>3, <1>4 DEF Passes

(* A step that asks or goes on without a change of the tables.              *)
LEMMA AskPasses ==
  ASSUME CallsGood, RowsTyped, IdentitiesTyped, Owned, RevokedKeptOut, NEW c \in Callers,
         \/ \E id \in DOMAIN identities : ChangeStanding(c, id) \/ LogIn(c, id)
         \/ \E r \in DOMAIN rows : ChangeDevice(c, r) \/ Heartbeat(c, r)
  PROVE  \E entry : Passes(c, entry)
<1>0. \A id \in DOMAIN identities : identities[id].status \in Standings /\ id \in Nat
  <2>1. identities \in Seq(Account) /\ DOMAIN identities = 1..Len(identities)
    BY LenIdentities DEF IdentitiesTyped
  <2>2. \A id \in DOMAIN identities : identities[id] \in Account
    BY <2>1
  <2> QED
    BY <2>1, <2>2 DEF Account
<1>1. ASSUME NEW id \in DOMAIN identities, NEW to \in Standings, Read(c, id, to)
      PROVE  \E entry : Passes(c, entry)
  <2> DEFINE entry == [Idle EXCEPT !.pc = "set", !.id = id, !.to = to,
                                   !.from = identities[id].status]
  <2>1. /\ entry \in Call /\ entry.pc = "set" /\ entry.id = id
        /\ entry.to = to /\ entry.from = identities[id].status
    BY <1>0, IdleType DEF Call, Idle
  <2>2. call' = [call EXCEPT ![c] = entry] /\ UNCHANGED <<identityVars, rowVars, doubled>>
    BY <1>1 DEF Read
  <2>3. to = "active" => identities[id].status # "revoked"
    BY <1>1 DEF Read
  <2> HIDE DEF entry
  <2>4. Good(entry, identities, rows, made, renamed)
    BY <2>1, <2>3 DEF Good
  <2> QED
    BY <2>1, <2>2, <2>4 DEF Passes
<1>2. ASSUME NEW id \in DOMAIN identities, NEW password \in BOOLEAN,
             Authenticate(c, id, password)
      PROVE  \E entry : Passes(c, entry)
  <2> DEFINE pc == IF password THEN "password" ELSE "granted"
             entry == [Idle EXCEPT !.pc = pc, !.id = id, !.barred = FALSE]
  <2>1. (id \in barred) = FALSE
    BY <1>2 DEF Authenticate, RevokedKeptOut
  <2>2. call' = [call EXCEPT ![c] = [Idle EXCEPT !.pc = pc, !.id = id, !.barred = id \in barred]]
    BY <1>2 DEF Authenticate
  <2>3. call' = [call EXCEPT ![c] = entry]
    BY <2>1, <2>2
  <2>4. /\ entry \in Call /\ entry.pc \in {"password", "granted"} /\ entry.id = id
        /\ ~entry.barred
    BY <1>0, IdleType DEF Call, Idle
  <2>5. UNCHANGED <<identityVars, rowVars, doubled>>
    BY <1>2 DEF Authenticate
  <2> HIDE DEF entry
  <2>6. Good(entry, identities, rows, made, renamed)
    BY <2>4 DEF Good
  <2> QED
    BY <2>3, <2>4, <2>5, <2>6 DEF Passes
<1>3. ASSUME NEW r \in DOMAIN rows, NEW change \in Changes, ReadRow(c, r, change)
      PROVE  \E entry : Passes(c, entry)
  <2> DEFINE entry == [Idle EXCEPT !.pc = "write", !.row = r, !.read = rows[r].facts,
                                   !.change = change, !.fresh = TRUE]
  <2>1. rows[r] \in Row /\ rows[r].facts \in Facts /\ r \in 1..made /\ r \in Nat
    BY DEF RowsTyped, Row
  <2>2. Facts \subseteq Changes
    BY DEF Facts, Changes
  <2>3. /\ entry \in Call /\ entry.pc = "write" /\ entry.row = r
        /\ entry.read = rows[r].facts
    BY <2>1, <2>2, IdleType DEF Call, Idle
  <2>4. call' = [call EXCEPT ![c] = entry] /\ UNCHANGED <<identityVars, rowVars, doubled>>
    BY <1>3 DEF ReadRow
  <2> HIDE DEF entry
  <2>5. Good(entry, identities, rows, made, renamed)
    BY <2>1, <2>3 DEF Good
  <2> QED
    BY <2>3, <2>4, <2>5 DEF Passes
<1>4. ASSUME NEW r \in DOMAIN rows, NEW named \in BOOLEAN, DeleteDevice(c, r, named)
      PROVE  \E entry : Passes(c, entry)
  <2> DEFINE pc == IF named THEN "disown" ELSE "delete"
             entry == [Idle EXCEPT !.pc = pc, !.row = r, !.id = rows[r].identity]
  <2>1. rows[r].identity \in DOMAIN identities /\ r \in Nat
    BY DEF RowsTyped, Owned
  <2>2. /\ entry \in Call /\ entry.pc \in {"disown", "delete"}
        /\ entry.id = rows[r].identity
    BY <1>0, <2>1, IdleType DEF Call, Idle
  <2>3. call' = [call EXCEPT ![c] = entry] /\ UNCHANGED <<identityVars, rowVars, doubled>>
    BY <1>4 DEF DeleteDevice
  <2> HIDE DEF entry
  <2>4. Good(entry, identities, rows, made, renamed)
    BY <2>1, <2>2 DEF Good
  <2> QED
    BY <2>2, <2>3, <2>4 DEF Passes
<1> QED
  BY <1>1, <1>2, <1>3, <1>4, UnchangedType
    DEF ChangeStanding, LogIn, ChangeDevice, Heartbeat

LEMMA StepPasses ==
  ASSUME CallsGood, IdentitiesTyped, NEW c \in Callers,
         \/ CreateOperator(c, TRUE) \/ Write(c, TRUE) \/ CreateDevice(c, TRUE)
         \/ \E role \in Roles : CreateRow(c, role, TRUE)
         \/ \E failed \in BOOLEAN :
              WriteRow(c, failed) /\ (failed \/ call[c].row \notin DOMAIN rows)
         \/ \E failed \in BOOLEAN : Disown(c, failed)
         \/ DeleteRow(c, TRUE)
         \/ \E right \in BOOLEAN : VerifyPassword(c, right)
         \/ Return(c)
  PROVE  \E entry : Passes(c, entry)
<1>1. CASE CreateOperator(c, TRUE)
  BY <1>1, IdlePasses DEF CreateOperator, identityVars
<1>2. CASE Write(c, TRUE)
  BY <1>2, IdlePasses, GoesPasses DEF Write
<1>3. CASE CreateDevice(c, TRUE)
  BY <1>3, IdlePasses DEF CreateDevice, identityVars
<1>4. ASSUME NEW role \in Roles, CreateRow(c, role, TRUE) PROVE \E entry : Passes(c, entry)
  BY <1>4, IdlePasses DEF CreateRow, rowVars
<1>5. ASSUME NEW failed \in BOOLEAN, WriteRow(c, failed),
             failed \/ call[c].row \notin DOMAIN rows
      PROVE  \E entry : Passes(c, entry)
  BY <1>5, IdlePasses DEF WriteRow
<1>6. CASE Disown(c, TRUE)
  BY <1>6, GoesPasses DEF Disown
<1>7. CASE Disown(c, FALSE)
  <2> DEFINE entry == [call[c] EXCEPT !.pc = "set", !.to = "revoked",
                                      !.from = identities[call[c].id].status]
  <2>1. /\ call[c].pc = "disown" /\ call' = [call EXCEPT ![c] = entry]
        /\ UNCHANGED <<identityVars, rowVars, doubled>>
    BY <1>7 DEF Disown
  <2>2. call[c] \in Call /\ call[c].id \in DOMAIN identities
    BY <2>1, GoodEntry DEF Good
  <2>3. identities[call[c].id].status \in Standings
    <3>1. identities \in Seq(Account) /\ call[c].id \in 1..Len(identities)
      BY <2>2, LenIdentities DEF IdentitiesTyped
    <3>2. identities[call[c].id] \in Account
      BY <3>1
    <3> QED
      BY <3>2 DEF Account
  <2>4. /\ entry \in Call /\ entry.pc = "set" /\ entry.to = "revoked"
        /\ entry.id = call[c].id
    BY <2>2, <2>3 DEF Call, Standings
  <2> HIDE DEF entry
  <2>5. Good(entry, identities, rows, made, renamed)
    BY <2>2, <2>4 DEF Good, Standings
  <2> QED
    BY <2>1, <2>4, <2>5 DEF Passes
<1>8. CASE DeleteRow(c, TRUE)
  <2>1. Ends(c) /\ UNCHANGED <<identityVars, rowVars, doubled>>
    BY <1>8 DEF DeleteRow, rowVars
  <2> QED
    BY <2>1, IdlePasses
<1>9. ASSUME NEW right \in BOOLEAN, VerifyPassword(c, right) PROVE \E entry : Passes(c, entry)
  BY <1>9, IdlePasses, GoesPasses DEF VerifyPassword
<1>10. CASE Return(c)
  BY <1>10, IdlePasses DEF Return
<1> QED
  BY <1>1, <1>2, <1>3, <1>4, <1>5, <1>6, <1>7, <1>8, <1>9, <1>10

(* The steps that change a table, or have a name looked up.                 *)
Changing(c) ==
  \/ \E name \in Names, failed \in BOOLEAN : LookUser(c, name, failed) \/ LookHost(c, name, failed)
  \/ CreateOperator(c, FALSE)
  \/ \E type \in {"device", "service"}, name \in Names : CreateDirectly(c, type, name)
  \/ CreateDevice(c, FALSE)
  \/ Write(c, FALSE)
  \/ \E role \in Roles : CreateRow(c, role, FALSE)
  \/ WriteRow(c, FALSE) /\ call[c].row \in DOMAIN rows
  \/ \E r \in DOMAIN rows, status \in Statuses : UpdateStatus(r, status)
  \/ DeleteRow(c, FALSE)

(* Every step only goes on with a call, or is one of those, or a restart.   *)
LEMMA Steps ==
  ASSUME CallsGood, RowsTyped, IdentitiesTyped, Owned, RevokedKeptOut, [Next]_vars
  PROVE  \/ \E c \in Callers : \E entry : Passes(c, entry)
         \/ \E c \in Callers : Changing(c)
         \/ Restart \/ UNCHANGED vars
<1>1. ASSUME NEW c \in Callers, Ask(c)
      PROVE  (\E entry : Passes(c, entry)) \/ Changing(c)
  BY <1>1, AskPasses
    DEF Ask, CreateIdentity, RegisterDevice, ReportDevice, Changing
<1>2. ASSUME NEW c \in Callers, Step(c)
      PROVE  (\E entry : Passes(c, entry)) \/ Changing(c)
  <2>1. CASE \/ \E right \in BOOLEAN : VerifyPassword(c, right)
             \/ Return(c)
    BY <2>1, StepPasses
  <2>2. ASSUME NEW failed \in BOOLEAN,
               \/ CreateOperator(c, failed) \/ Write(c, failed) \/ CreateDevice(c, failed)
               \/ \E role \in Roles : CreateRow(c, role, failed)
               \/ WriteRow(c, failed) \/ Disown(c, failed) \/ DeleteRow(c, failed)
        PROVE  (\E entry : Passes(c, entry)) \/ Changing(c)
    <3>1. CASE failed = TRUE
      BY <2>2, <3>1, StepPasses
    <3>2. CASE failed = FALSE
      BY <2>2, <3>2, StepPasses DEF Changing
    <3> QED
      BY <3>1, <3>2
  <2> QED
    BY <1>2, <2>1, <2>2 DEF Step
<1> QED
  BY <1>1, <1>2 DEF Next

(* Every step keeps to the bounds.                                          *)
LEMMA RestStep ==
  ASSUME CallsGood, RestTyped, [Next]_vars
  PROVE  RestTyped'
<1>1. ASSUME NEW event \in BOOLEAN, Happens(event), UNCHANGED <<doubled, updates>>
      PROVE  RestTyped'
  BY <1>1, HappensType
<1>2. ASSUME UNCHANGED <<doubled, events>>, updates < MaxUpdates, updates' = updates + 1
      PROVE  RestTyped'
  BY <1>2, RegistryBounds DEF RestTyped
<1>3. ASSUME NEW c \in Callers, NEW type \in {"operator", "device"}, NEW name \in Names,
             NEW exists, NEW failed \in BOOLEAN, Look(c, type, name, exists, failed)
      PROVE  RestTyped'
  BY <1>3, RegistryBounds DEF Look, Happens, RestTyped
<1>4. CASE UNCHANGED <<doubled, updates, events>>
  BY <1>4 DEF RestTyped
<1>5. ASSUME NEW c \in Callers, Ask(c) PROVE RestTyped'
  BY <1>2, <1>3, <1>4, <1>5 DEF Ask, CreateIdentity, RegisterDevice, ChangeStanding, LogIn,
       ChangeDevice, ReportDevice, Heartbeat, LookUser, LookHost, CreateDirectly, Read,
       Authenticate, ReadRow, DeleteDevice, UpdateStatus, counters
<1>6. ASSUME NEW c \in Callers, Step(c) PROVE RestTyped'
  BY <1>1, <1>4, <1>6 DEF Step, CreateOperator, Write, CreateDevice, CreateRow, WriteRow,
       Disown, DeleteRow, VerifyPassword, Return, counters
<1>7. CASE Restart
  BY <1>1, <1>7 DEF Restart
<1> QED
  BY <1>4, <1>5, <1>6, <1>7 DEF Next, vars, counters

-----------------------------------------------------------------------------
(* Types and revocations                                                    *)

BarredRevoked == \A i \in barred : identities[i].status = "revoked"

LEMMA KeptOut == BaseInv /\ BarredRevoked => RevokedKeptOut
BY DEF BaseInv, BarredRevoked, RevokedKeptOut, CallsGood, Good

(* What an identity is created with, and where the call goes then.          *)
LEMMA CreateEffect ==
  ASSUME BaseInv, NEW c \in Callers,
         \/ CreateOperator(c, FALSE)
         \/ \E type \in {"device", "service"}, name \in Names : CreateDirectly(c, type, name)
         \/ CreateDevice(c, FALSE)
  PROVE  \E type, name, entry :
           /\ type \in Types /\ name \in Names
           /\ Insert(type, name) /\ UNCHANGED <<barred, rowVars, doubled>>
           /\ call' = [call EXCEPT ![c] = entry]
           /\ Good(entry, identities', rows, made, renamed)
           /\ entry.pc = "row" => entry.id = Len(identities')
           /\ \/ entry.pc \notin {"operator", "device"} /\ call[c].pc \in {"operator", "device"}
              \/ call[c] = entry /\ entry.pc = "idle" /\ Room
           /\ type = "operator" => call[c].pc = "operator" /\ name = call[c].name
           /\ entry.pc = "row" => call[c].pc = "device" /\ entry.name = call[c].name
<1>0. /\ CallsGood /\ IdentitiesTyped /\ RowsTyped /\ Owned
      /\ {"operator", "device", "service"} \subseteq Types
  BY DEF BaseInv, Types
<1>1. call[c] \in Call /\ (call[c].pc \in {"operator", "device"} => call[c].name \in Names)
  BY <1>0, GoodEntry DEF Good
<1>2. CASE CreateOperator(c, FALSE)
  <2>1. /\ Insert("operator", call[c].name) /\ UNCHANGED <<barred, rowVars, doubled>>
        /\ call' = [call EXCEPT ![c] = Idle] /\ call[c].pc = "operator"
    BY <1>2 DEF CreateOperator, Ends
  <2> QED
    BY <1>0, <1>1, <2>1, IdleGood, IdleType
<1>3. ASSUME NEW type \in {"device", "service"}, NEW name \in Names, CreateDirectly(c, type, name)
      PROVE  /\ Insert(type, name) /\ UNCHANGED <<barred, rowVars, doubled>>
             /\ call' = [call EXCEPT ![c] = call[c]]
             /\ Good(call[c], identities', rows, made, renamed)
             /\ call[c].pc = "idle" /\ Room
  <2>1. /\ Insert(type, name) /\ UNCHANGED <<barred, rowVars, doubled, call>>
        /\ call[c].pc = "idle" /\ Room
    BY <1>3 DEF CreateDirectly
  <2>2. call' = [call EXCEPT ![c] = call[c]]
    BY <1>0, <2>1 DEF CallsGood
  <2>3. Good(call[c], identities', rows, made, renamed)
    BY <1>1, <2>1 DEF Good
  <2> QED
    BY <2>1, <2>2, <2>3
<1>4. CASE CreateDevice(c, FALSE)
  <2> DEFINE entry == [call[c] EXCEPT !.pc = "row", !.id = Len(identities')]
  <2>1. /\ Insert("device", call[c].name) /\ UNCHANGED <<barred, rowVars, doubled>>
        /\ call' = [call EXCEPT ![c] = entry] /\ call[c].pc = "device"
    BY <1>4 DEF CreateDevice
  <2>2. /\ Len(identities') \in DOMAIN identities' /\ Len(identities') \in Nat
        /\ Len(identities') \notin DOMAIN identities
        /\ identities'[Len(identities')].type = "device"
    <3>1. UNCHANGED barred /\ call[c].name \in Names /\ "device" \in Types
      BY <1>0, <1>1, <2>1
    <3>2. /\ IdentitiesTyped'
          /\ Len(identities') = Len(identities) + 1
          /\ DOMAIN identities' = DOMAIN identities \union {Len(identities')}
          /\ Len(identities') \notin DOMAIN identities
          /\ identities'[Len(identities')] =
                [type |-> "device", name |-> call[c].name, status |-> "active"]
      BY <1>0, <2>1, <3>1, InsertEffect
    <3> QED
      BY <1>0, <3>2, LenIdentities
  <2>3. /\ entry \in Call /\ entry.pc = "row" /\ entry.id = Len(identities')
        /\ entry.name = call[c].name
    BY <1>1, <2>2 DEF Call
  <2> HIDE DEF entry
  <2>4. \A r \in DOMAIN rows : rows[r].identity # entry.id
    BY <1>0, <2>2, <2>3 DEF Owned
  <2>5. Good(entry, identities', rows, made, renamed)
    BY <1>1, <2>1, <2>2, <2>3, <2>4 DEF Good
  <2> QED
    BY <1>0, <1>1, <2>1, <2>3, <2>5
<1> QED
  BY <1>0, <1>2, <1>3, <1>4

(* What a status is set to, and where the call goes then.                   *)
LEMMA WriteEffect ==
  ASSUME BaseInv, NEW c \in Callers, Write(c, FALSE)
  PROVE  \E id, to, from, entry :
           /\ id \in DOMAIN identities /\ to \in Standings
           /\ SetStatus(id, from, to) /\ UNCHANGED <<rowVars, doubled>>
           /\ to = "active" => from # "revoked"
           /\ call' = [call EXCEPT ![c] = entry]
           /\ Good(entry, identities, rows, made, renamed)
           /\ entry.pc \notin {"operator", "device", "row", "write"}
<1>1. /\ call[c].pc = "set" /\ SetStatus(call[c].id, call[c].from, call[c].to)
      /\ UNCHANGED <<rowVars, doubled>>
      /\ IF call[c].row = 0 THEN Ends(c) ELSE Goes(c, "delete")
  BY DEF Write
<1>2. /\ call[c] \in Call /\ call[c].id \in DOMAIN identities /\ call[c].to \in Standings
      /\ call[c].to = "active" => call[c].from # "revoked"
  BY <1>1, GoodEntry DEF BaseInv, Good
<1> DEFINE entry == IF call[c].row = 0 THEN Idle ELSE [call[c] EXCEPT !.pc = "delete"]
<1>3. call' = [call EXCEPT ![c] = entry]
  BY <1>1 DEF Ends, Goes
<1>4. /\ Good(entry, identities, rows, made, renamed)
      /\ entry.pc \notin {"operator", "device", "row", "write"}
  <2>1. CASE call[c].row = 0
    BY <2>1, IdleGood, IdleType
  <2>2. CASE call[c].row # 0
    <3>1. entry \in Call /\ entry.pc = "delete"
      BY <1>2, <2>2 DEF Call
    <3> HIDE DEF entry
    <3> QED
      BY <3>1 DEF Good
  <2> QED
    BY <2>1, <2>2
<1> QED
  BY <1>1, <1>2, <1>3, <1>4

(* A name is looked up.                                                     *)
LEMMA LookEffect ==
  ASSUME NEW c \in Callers, NEW type \in {"operator", "device"}, NEW name \in Names,
         NEW exists, NEW failed \in BOOLEAN, Look(c, type, name, exists, failed)
  PROVE  \E entry :
           /\ entry.pc = type /\ entry.name = name
           /\ Good(entry, identities, rows, made, renamed)
           /\ call[c].pc = "idle" /\ Room /\ call' = [call EXCEPT ![c] = entry]
           /\ UNCHANGED <<identityVars, rowVars>>
<1> DEFINE entry == [Idle EXCEPT !.pc = type, !.name = name]
<1>1. entry \in Call /\ entry.pc = type /\ entry.name = name
  BY IdleType DEF Call, Idle
<1>2. /\ call[c].pc = "idle" /\ Room /\ call' = [call EXCEPT ![c] = entry]
      /\ UNCHANGED <<identityVars, rowVars>>
  BY DEF Look
<1> HIDE DEF entry
<1>3. Good(entry, identities, rows, made, renamed)
  BY <1>1 DEF Good
<1> QED
  BY <1>1, <1>2, <1>3

LEMMA BaseInit == Init => BaseInv /\ BarredRevoked
<1> SUFFICES ASSUME Init PROVE BaseInv /\ BarredRevoked
  OBVIOUS
<1>1. /\ identities = <<>> /\ rows = <<>> /\ made = 0 /\ barred = {} /\ asked = <<>>
      /\ raced = {} /\ renamed = {} /\ doubled = {} /\ updates = 0 /\ events = 0
      /\ call = [c \in Callers |-> Idle]
  BY DEF Init
<1>2. DOMAIN rows = {} /\ rows \in [DOMAIN rows -> Row]
  BY <1>1
<1>3. IdentitiesTyped /\ RowsTyped /\ RestTyped /\ Owned
  BY <1>1, <1>2, RegistryBounds DEF IdentitiesTyped, RowsTyped, RestTyped, Owned
<1>4. CallsGood /\ RowsApart
  BY <1>1, IdleGood, IdleType DEF CallsGood, RowsApart
<1>5. RoomKept
  <2>1. Creating = {}
    BY <1>1, IdleType DEF Creating
  <2> QED
    BY <1>1, <2>1, FS_EmptySet, RegistryBounds DEF RoomKept
<1> QED
  BY <1>1, <1>3, <1>4, <1>5 DEF BaseInv, BarredRevoked

LEMMA BaseStep ==
  ASSUME BaseInv, BarredRevoked, [Next]_vars
  PROVE  BaseInv'
<1>0. /\ CallsGood /\ RowsTyped /\ IdentitiesTyped /\ Owned /\ RevokedKeptOut
      /\ RestTyped'
  BY KeptOut, RestStep DEF BaseInv
<1>1. ASSUME NEW c \in Callers, NEW entry, Passes(c, entry) PROVE BaseInv'
  BY <1>0, <1>1, BaseByCall DEF Passes
<1>2. ASSUME NEW c \in Callers, Changing(c) PROVE BaseInv'
  <2>1. ASSUME NEW type \in {"operator", "device"}, NEW name \in Names, NEW exists,
               NEW failed \in BOOLEAN, Look(c, type, name, exists, failed)
        PROVE  BaseInv'
    <3>1. PICK entry :
            /\ entry.pc = type
            /\ Good(entry, identities, rows, made, renamed)
            /\ call[c].pc = "idle" /\ Room /\ call' = [call EXCEPT ![c] = entry]
            /\ UNCHANGED <<identityVars, rowVars>>
      BY <2>1, LookEffect
    <3> QED
      BY <1>0, <3>1, BaseByLook
  <2>2. CASE \/ CreateOperator(c, FALSE)
             \/ \E type \in {"device", "service"}, name \in Names : CreateDirectly(c, type, name)
             \/ CreateDevice(c, FALSE)
    <3>1. PICK type, name, entry :
            /\ type \in Types /\ name \in Names
            /\ Insert(type, name) /\ UNCHANGED <<barred, rowVars, doubled>>
            /\ call' = [call EXCEPT ![c] = entry]
            /\ Good(entry, identities', rows, made, renamed)
            /\ entry.pc = "row" => entry.id = Len(identities')
            /\ \/ entry.pc \notin {"operator", "device"} /\ call[c].pc \in {"operator", "device"}
               \/ call[c] = entry /\ entry.pc = "idle" /\ Room
            /\ type = "operator" => call[c].pc = "operator" /\ name = call[c].name
            /\ entry.pc = "row" => call[c].pc = "device" /\ entry.name = call[c].name
      BY <2>2, CreateEffect
    <3> QED
      BY <1>0, <3>1, BaseByInsert
  <2>3. CASE Write(c, FALSE)
    <3>1. PICK id, to, from, entry :
            /\ id \in DOMAIN identities /\ to \in Standings
            /\ SetStatus(id, from, to) /\ UNCHANGED <<rowVars, doubled>>
            /\ to = "active" => from # "revoked"
            /\ call' = [call EXCEPT ![c] = entry]
            /\ Good(entry, identities, rows, made, renamed)
            /\ entry.pc \notin {"operator", "device", "row", "write"}
      BY <2>3, WriteEffect
    <3> QED
      BY <1>0, <3>1, BaseBySet
  <2>4. ASSUME NEW role \in Roles, CreateRow(c, role, FALSE) PROVE BaseInv'
    BY <1>0, <2>4, BaseByCreateRow
  <2>5. CASE WriteRow(c, FALSE) /\ call[c].row \in DOMAIN rows
    BY <1>0, <2>5, BaseByWriteRow
  <2>6. ASSUME NEW r \in DOMAIN rows, NEW status \in Statuses, UpdateStatus(r, status)
        PROVE  BaseInv'
    BY <2>6, BaseByStatus
  <2>7. CASE DeleteRow(c, FALSE)
    BY <1>0, <2>7, BaseByDeleteRow
  <2> QED
    BY <1>2, <2>1, <2>2, <2>3, <2>4, <2>5, <2>6, <2>7 DEF Changing, LookUser, LookHost
<1>3. CASE Restart
  <2>1. /\ call' = [c \in Callers |-> Idle]
        /\ UNCHANGED <<identities, barred, rows, made, asked, raced, renamed>>
    BY <1>3 DEF Restart, identityVars, rowVars
  <2>2. CallsGood' /\ RowsApart'
    BY <2>1, IdleGood, IdleType DEF CallsGood, RowsApart
  <2>3. Creating' = {}
    BY <2>1, IdleType DEF Creating
  <2>4. RoomKept'
    BY <2>1, <2>3, <1>0, FewerCreating, LenIdentities, RegistryBounds DEF BaseInv
  <2>5. IdentitiesTyped' /\ RowsTyped' /\ Owned'
    BY <2>1 DEF BaseInv, IdentitiesTyped, RowsTyped, Owned
  <2> QED
    BY <1>0, <2>2, <2>4, <2>5 DEF BaseInv
<1>4. CASE UNCHANGED vars
  <2>1. UNCHANGED <<identities, barred, rows, made, asked, raced, renamed, call>>
    BY <1>4 DEF vars, identityVars, rowVars
  <2> QED
    BY <1>0, <2>1 DEF BaseInv, IdentitiesTyped, RowsTyped, Owned, CallsGood, RowsApart,
         RoomKept, Creating
<1> QED
  BY <1>0, <1>1, <1>2, <1>3, <1>4, Steps

LEMMA BarredStep ==
  ASSUME BaseInv, BarredRevoked, [Next]_vars
  PROVE  BarredRevoked'
<1>0. /\ CallsGood /\ RowsTyped /\ IdentitiesTyped /\ Owned /\ RevokedKeptOut
      /\ barred \subseteq DOMAIN identities
  BY KeptOut DEF BaseInv, IdentitiesTyped
<1>1. CASE UNCHANGED identityVars
  BY <1>1 DEF identityVars, BarredRevoked
<1>2. ASSUME NEW c \in Callers, Changing(c) PROVE BarredRevoked'
  <2>1. CASE \/ CreateOperator(c, FALSE)
             \/ \E type \in {"device", "service"}, name \in Names : CreateDirectly(c, type, name)
             \/ CreateDevice(c, FALSE)
    <3>1. PICK type \in Types, name \in Names : Insert(type, name) /\ UNCHANGED barred
      BY <2>1, CreateEffect
    <3>2. \A i \in DOMAIN identities : identities'[i] = identities[i]
      BY <1>0, <3>1, InsertEffect
    <3> QED
      BY <1>0, <3>1, <3>2 DEF BarredRevoked
  <2>2. CASE Write(c, FALSE)
    <3>1. PICK id, to, from :
            /\ id \in DOMAIN identities /\ to \in Standings
            /\ SetStatus(id, from, to) /\ (to = "active" => from # "revoked")
      BY <2>2, WriteEffect
    <3>2. /\ \A i \in DOMAIN identities \ {id} : identities'[i].status = identities[i].status
          /\ identities'[id].status = to
      BY <1>0, <3>1, SetEffect
    <3>3. to \in {"active", "suspended", "revoked"}
      BY <3>1 DEF Standings
    <3>4. to # "revoked" => barred' = barred \ {id}
      BY <3>1, <3>3 DEF SetStatus
    <3>5. to = "revoked" => barred' = barred \union {id}
      BY <3>1 DEF SetStatus
    <3> QED
      BY <1>0, <3>2, <3>4, <3>5 DEF BarredRevoked
  <2>3. CASE UNCHANGED identityVars
    BY <1>1, <2>3
  <2> QED
    BY <1>2, <2>1, <2>2, <2>3
      DEF Changing, LookUser, LookHost, Look, CreateRow, WriteRow, UpdateStatus, DeleteRow
<1>3. CASE Restart
  BY <1>1, <1>3 DEF Restart
<1> QED
  BY <1>0, <1>1, <1>2, <1>3, Steps DEF Passes, vars

LEMMA SpecBase == Spec => [](BaseInv /\ BarredRevoked)
<1>1. Init => BaseInv /\ BarredRevoked
  BY BaseInit
<1>2. (BaseInv /\ BarredRevoked) /\ [Next]_vars => (BaseInv /\ BarredRevoked)'
  BY BaseStep, BarredStep
<1> QED
  BY <1>1, <1>2, PTL DEF Spec

(* The types; every device's row has an identity of its own, and the bound  *)
(* on identities holds.                                                     *)
THEOREM RegistryTyped == Spec => []TypeOK
<1>1. BaseInv => TypeOK
  BY BaseTypes
<1> QED
  BY <1>1, SpecBase, PTL

(* Who was revoked stays out: every call that writes an identity's status   *)
(* or lets somebody in acts on a status it read itself.                     *)
THEOREM RevokedStayOut == Spec => []RevokedKeptOut
<1>1. BaseInv /\ BarredRevoked => RevokedKeptOut
  BY KeptOut
<1> QED
  BY <1>1, SpecBase, PTL

-----------------------------------------------------------------------------
(* Changes of devices                                                       *)

LEMMA StayStep ==
  ASSUME BaseInv, BarredRevoked, UpdatesStay, [Next]_vars
  PROVE  UpdatesStay'
<1>0. /\ CallsGood /\ RowsTyped /\ IdentitiesTyped /\ Owned /\ RevokedKeptOut
  BY KeptOut DEF BaseInv
<1>1. CASE UNCHANGED rowVars
  BY <1>1 DEF rowVars, UpdatesStay
<1>2. ASSUME NEW c \in Callers, Changing(c) PROVE UpdatesStay'
  <2>1. ASSUME NEW role \in Roles, CreateRow(c, role, FALSE) PROVE UpdatesStay'
    <3>1. call[c].pc = "row" /\ UNCHANGED raced
      BY <2>1 DEF CreateRow
    <3>2. call[c].name \in Names /\ call[c].id \in Nat
      BY <1>0, <3>1, GoodEntry DEF Good
    <3>3. /\ DOMAIN rows' = DOMAIN rows \union {made'}
          /\ \A r \in DOMAIN rows : rows'[r] = rows[r] /\ asked'[r] = asked[r]
          /\ rows'[made'].status = Unknown
          /\ asked'[made'] = [facts |-> rows'[made'].facts, status |-> Unknown]
      BY <1>0, <2>1, <3>1, <3>2, CreateRowEffect
    <3> QED
      BY <3>1, <3>3 DEF UpdatesStay
  <2>2. CASE WriteRow(c, FALSE) /\ call[c].row \in DOMAIN rows
    <3> DEFINE r == call[c].row
               f == Apply(call[c].read, call[c].change)
    <3>1. /\ DOMAIN rows' = DOMAIN rows
          /\ \A s \in DOMAIN rows \ {r} : rows'[s] = rows[s] /\ asked'[s] = asked[s]
          /\ rows'[r].facts = f /\ rows'[r].status = rows[r].status
          /\ asked'[r].facts = Apply(asked[r].facts, call[c].change)
          /\ asked'[r].status = asked[r].status
          /\ raced' = IF call[c].fresh THEN raced ELSE raced \union {r}
      BY <1>0, <2>2, WriteRowEffect
    <3>2. call[c].pc = "write"
      BY <2>2 DEF WriteRow
    <3>3. call[c].fresh => call[c].read = rows[r].facts
      BY <1>0, <2>2, <3>2, GoodEntry DEF Good
    <3>4. r \notin raced' => rows'[r].facts = asked'[r].facts
      BY <2>2, <3>1, <3>3 DEF UpdatesStay
    <3> HIDE DEF r
    <3> QED
      BY <3>1, <3>4 DEF UpdatesStay
  <2>3. ASSUME NEW r \in DOMAIN rows, NEW status \in Statuses, UpdateStatus(r, status)
        PROVE  UpdatesStay'
    <3>1. /\ DOMAIN rows' = DOMAIN rows
          /\ \A s \in DOMAIN rows : /\ rows'[s].facts = rows[s].facts
                                    /\ asked'[s].facts = asked[s].facts
          /\ \A s \in DOMAIN rows \ {r} : /\ rows'[s].status = rows[s].status
                                          /\ asked'[s].status = asked[s].status
          /\ rows'[r].status = status /\ asked'[r].status = status
      BY <1>0, <2>3, UpdateStatusEffect
    <3>2. UNCHANGED raced
      BY <2>3 DEF UpdateStatus
    <3> QED
      BY <3>1, <3>2 DEF UpdatesStay
  <2>4. CASE DeleteRow(c, FALSE)
    BY <1>0, <2>4, DeleteRowEffect DEF UpdatesStay
  <2>5. CASE UNCHANGED rowVars
    BY <1>1, <2>5
  <2>6. CASE \/ CreateOperator(c, FALSE)
             \/ \E type \in {"device", "service"}, name \in Names : CreateDirectly(c, type, name)
             \/ CreateDevice(c, FALSE) \/ Write(c, FALSE)
             \/ \E name \in Names, failed \in BOOLEAN : LookUser(c, name, failed) \/ LookHost(c, name, failed)
    BY <1>1, <2>6
      DEF CreateOperator, CreateDirectly, CreateDevice, Write, LookUser, LookHost, Look
  <2> QED
    BY <1>2, <2>1, <2>2, <2>3, <2>4, <2>6 DEF Changing
<1>3. CASE Restart
  BY <1>1, <1>3 DEF Restart
<1> QED
  BY <1>0, <1>1, <1>2, <1>3, Steps DEF Passes, vars

(* What was changed of a device stays changed, but where two that read it   *)
(* overlap: each writes back what it read with its change, and the status   *)
(* is in no row that is written back.                                       *)
THEOREM ChangesStay == Spec => []UpdatesStay
<1>1. Init => UpdatesStay
  BY DEF Init, UpdatesStay
<1>2. (BaseInv /\ BarredRevoked) /\ UpdatesStay /\ [Next]_vars => UpdatesStay'
  BY StayStep
<1> QED
  BY <1>1, <1>2, SpecBase, PTL DEF Spec

-----------------------------------------------------------------------------
(* Names                                                                    *)

UsersDistinct ==
  \A i, j \in DOMAIN identities :
    i # j /\ identities[i].type = "operator" /\ identities[j].type = "operator"
          /\ identities[i].name = identities[j].name
      => <<"operator", identities[i].name>> \in doubled

HostsDistinct ==
  \A r, s \in DOMAIN rows :
    r # s /\ rows[r].facts.hostname = rows[s].facts.hostname
      => \/ {r, s} \intersect renamed # {}
         \/ <<"device", rows[r].facts.hostname>> \in doubled

(* Who goes on to create an operator of a name found none, and is alone     *)
(* with it ...                                                              *)
UsersLooked ==
  \A c \in Callers : call[c].pc = "operator" =>
    \/ <<"operator", call[c].name>> \in doubled
    \/ /\ \A i \in DOMAIN identities :
            identities[i].type = "operator" => identities[i].name # call[c].name
       /\ \A o \in Callers \ {c} : call[o].pc = "operator" => call[o].name # call[c].name

(* ... and who goes on to register a device of a hostname found none, but   *)
(* for a row renamed to it since.                                           *)
HostsLooked ==
  \A c \in Callers : call[c].pc \in {"device", "row"} =>
    \/ <<"device", call[c].name>> \in doubled
    \/ /\ \A r \in DOMAIN rows : rows[r].facts.hostname = call[c].name => r \in renamed
       /\ \A o \in Callers \ {c} :
            call[o].pc \in {"device", "row"} => call[o].name # call[c].name

LEMMA NamesParts == NamesDistinct <=> UsersDistinct /\ HostsDistinct
BY DEF NamesDistinct, UsersDistinct, HostsDistinct

(* Calls that go on, or end, leave it at that.                              *)
LEMMA UsersKept ==
  ASSUME UsersLooked, UsersDistinct, doubled \subseteq doubled',
         DOMAIN identities' = DOMAIN identities,
         \A i \in DOMAIN identities : /\ identities'[i].type = identities[i].type
                                     /\ identities'[i].name = identities[i].name,
         \A c \in Callers : call'[c].pc = "operator" =>
           call[c].pc = "operator" /\ call'[c].name = call[c].name
  PROVE  UsersLooked' /\ UsersDistinct'
<1>1. UsersLooked'
  BY DEF UsersLooked
<1>2. UsersDistinct'
  BY DEF UsersDistinct
<1> QED
  BY <1>1, <1>2

LEMMA HostsKept ==
  ASSUME HostsLooked, HostsDistinct, doubled \subseteq doubled', renamed \subseteq renamed',
         DOMAIN rows' \subseteq DOMAIN rows,
         \A r \in DOMAIN rows' : \/ rows'[r].facts.hostname = rows[r].facts.hostname
                               \/ r \in renamed',
         \A c \in Callers : call'[c].pc \in {"device", "row"} =>
           call[c].pc \in {"device", "row"} /\ call'[c].name = call[c].name
  PROVE  HostsLooked' /\ HostsDistinct'
<1>1. HostsLooked'
  BY DEF HostsLooked
<1>2. HostsDistinct'
  BY DEF HostsDistinct
<1> QED
  BY <1>1, <1>2

(* One call goes to a point that is not before a creation.                  *)
LEMMA CallMoves ==
  ASSUME CallsGood, NEW c \in Callers, NEW entry, call' = [call EXCEPT ![c] = entry]
  PROVE  call'[c] = entry /\ \A o \in Callers \ {c} : call'[o] = call[o]
BY DEF CallsGood

LEMMA UsersByLook ==
  ASSUME CallsGood, UsersLooked, UsersDistinct, NEW c \in Callers, NEW name \in Names,
         NEW failed \in BOOLEAN, LookUser(c, name, failed)
  PROVE  UsersLooked' /\ UsersDistinct'
<1>1. PICK entry : /\ entry.pc = "operator" /\ entry.name = name
                   /\ call' = [call EXCEPT ![c] = entry]
                   /\ UNCHANGED <<identityVars, rowVars>>
  BY LookEffect DEF LookUser
<1>2. call'[c] = entry /\ \A o \in Callers \ {c} : call'[o] = call[o]
  BY <1>1, CallMoves
<1>3. /\ identities' = identities
      /\ ~UserExists(name) \/ failed
      /\ call[c].pc = "idle"
      /\ doubled' = IF failed \/ Looking("operator", name) # {}
                    THEN doubled \union {<<"operator", name>>} ELSE doubled
  BY DEF LookUser, Look, identityVars
<1>4. doubled \subseteq doubled'
  BY <1>3
<1>5. \/ <<"operator", name>> \in doubled'
      \/ /\ \A i \in DOMAIN identities :
             identities[i].type = "operator" => identities[i].name # name
         /\ \A o \in Callers : call[o].pc = "operator" => call[o].name # name
  BY <1>3 DEF UserExists, Looking
<1>6. ASSUME NEW o \in Callers, call'[o].pc = "operator"
      PROVE  \/ <<"operator", call'[o].name>> \in doubled'
             \/ /\ \A i \in DOMAIN identities :
                    identities[i].type = "operator" => identities[i].name # call'[o].name
                /\ \A p \in Callers \ {o} :
                    call'[p].pc = "operator" => call'[p].name # call'[o].name
  <2>1. CASE o = c
    BY <1>1, <1>2, <1>5, <2>1
  <2>2. CASE o # c
    BY <1>1, <1>2, <1>4, <1>5, <1>6, <2>2 DEF UsersLooked
  <2> QED
    BY <2>1, <2>2
<1>7. UsersLooked'
  BY <1>3, <1>6 DEF UsersLooked
<1>8. UsersDistinct'
  BY <1>3, <1>4 DEF UsersDistinct
<1> QED
  BY <1>7, <1>8

LEMMA HostsByLook ==
  ASSUME CallsGood, HostsLooked, HostsDistinct, NEW c \in Callers, NEW name \in Names,
         NEW failed \in BOOLEAN, LookHost(c, name, failed)
  PROVE  HostsLooked' /\ HostsDistinct'
<1>1. PICK entry : /\ entry.pc = "device" /\ entry.name = name
                   /\ call' = [call EXCEPT ![c] = entry]
                   /\ UNCHANGED <<identityVars, rowVars>>
  BY LookEffect DEF LookHost
<1>2. call'[c] = entry /\ \A o \in Callers \ {c} : call'[o] = call[o]
  BY <1>1, CallMoves
<1>3. /\ rows' = rows /\ renamed' = renamed
      /\ ~HostExists(name) \/ failed
      /\ call[c].pc = "idle"
      /\ doubled' = IF failed \/ Looking("device", name) # {}
                    THEN doubled \union {<<"device", name>>} ELSE doubled
  BY DEF LookHost, Look, rowVars
<1>4. doubled \subseteq doubled'
  BY <1>3
<1>5. \/ <<"device", name>> \in doubled'
      \/ /\ \A r \in DOMAIN rows : rows[r].facts.hostname # name
         /\ \A o \in Callers : call[o].pc \in {"device", "row"} => call[o].name # name
  BY <1>3 DEF HostExists, Looking
<1>6. ASSUME NEW o \in Callers, call'[o].pc \in {"device", "row"}
      PROVE  \/ <<"device", call'[o].name>> \in doubled'
             \/ /\ \A r \in DOMAIN rows : rows[r].facts.hostname = call'[o].name => r \in renamed
                /\ \A p \in Callers \ {o} :
                    call'[p].pc \in {"device", "row"} => call'[p].name # call'[o].name
  <2>1. CASE o = c
    BY <1>1, <1>2, <1>5, <2>1
  <2>2. CASE o # c
    BY <1>1, <1>2, <1>4, <1>5, <1>6, <2>2 DEF HostsLooked
  <2> QED
    BY <2>1, <2>2
<1>7. HostsLooked'
  BY <1>3, <1>6 DEF HostsLooked
<1>8. HostsDistinct'
  BY <1>3, <1>4 DEF HostsDistinct
<1> QED
  BY <1>7, <1>8

(* The names in use are those of what was there and of what is created.     *)
LEMMA UsersByInsert ==
  ASSUME CallsGood, IdentitiesTyped, UsersLooked, UsersDistinct, NEW c \in Callers,
         NEW entry, NEW type \in Types, NEW name \in Names,
         Insert(type, name), UNCHANGED <<barred, doubled>>,
         call' = [call EXCEPT ![c] = entry], entry.pc # "operator",
         type = "operator" => call[c].pc = "operator" /\ name = call[c].name
  PROVE  UsersLooked' /\ UsersDistinct'
<1> DEFINE new == Len(identities')
<1>1. /\ DOMAIN identities' = DOMAIN identities \union {new}
      /\ \A i \in DOMAIN identities : identities'[i] = identities[i]
      /\ identities'[new].type = type /\ identities'[new].name = name
  <2>1. UNCHANGED barred
    OBVIOUS
  <2>2. /\ DOMAIN identities' = DOMAIN identities \union {new}
        /\ \A i \in DOMAIN identities : identities'[i] = identities[i]
        /\ identities'[new] = [type |-> type, name |-> name, status |-> "active"]
    BY <2>1, InsertEffect
  <2> QED
    BY <2>2
<1>2. call'[c] = entry /\ \A o \in Callers \ {c} : call'[o] = call[o]
  BY CallMoves
<1> HIDE DEF new
<1>3. UsersLooked'
  BY <1>1, <1>2 DEF UsersLooked
<1>4. UsersDistinct'
  BY <1>1 DEF UsersDistinct, UsersLooked
<1> QED
  BY <1>3, <1>4

LEMMA HostsByCreateRow ==
  ASSUME CallsGood, RowsTyped, HostsLooked, HostsDistinct, NEW c \in Callers,
         NEW role \in Roles, CreateRow(c, role, FALSE)
  PROVE  HostsLooked' /\ HostsDistinct'
<1>1. call[c].pc = "row" /\ UNCHANGED <<doubled, renamed>> /\ call' = [call EXCEPT ![c] = Idle]
  BY DEF CreateRow, Ends
<1>2. call[c].name \in Names /\ call[c].id \in Nat
  BY <1>1, GoodEntry DEF Good
<1>3. /\ DOMAIN rows' = DOMAIN rows \union {made'}
      /\ \A r \in DOMAIN rows : rows'[r] = rows[r]
      /\ rows'[made'].facts.hostname = call[c].name
  <2>1. /\ DOMAIN rows' = DOMAIN rows \union {made'}
        /\ \A r \in DOMAIN rows : rows'[r] = rows[r]
        /\ rows'[made'].facts = [hostname |-> call[c].name, role |-> role]
    BY <1>1, <1>2, CreateRowEffect
  <2> QED
    BY <2>1
<1>4. call'[c] = Idle /\ \A o \in Callers \ {c} : call'[o] = call[o]
  BY <1>1, CallMoves
<1>5. HostsLooked'
  BY <1>1, <1>3, <1>4, IdleType DEF HostsLooked
<1>6. HostsDistinct'
  BY <1>1, <1>3 DEF HostsDistinct, HostsLooked
<1> QED
  BY <1>5, <1>6

UsersInv == UsersLooked /\ UsersDistinct
HostsInv == HostsLooked /\ HostsDistinct

(* A step whose calls go on, or end, over the identities as they are.       *)
LEMMA UsersByCalls ==
  ASSUME UsersInv, UNCHANGED identities, doubled \subseteq doubled',
         \A c \in Callers : call'[c].pc = "operator" =>
           call[c].pc = "operator" /\ call'[c].name = call[c].name
  PROVE  UsersInv'
BY UsersKept DEF UsersInv

LEMMA UsersStep ==
  ASSUME BaseInv, BarredRevoked, UsersInv, [Next]_vars
  PROVE  UsersInv'
<1>0. /\ CallsGood /\ RowsTyped /\ IdentitiesTyped /\ Owned /\ RevokedKeptOut
      /\ Idle.pc = "idle"
  BY KeptOut, IdleType DEF BaseInv
<1>1. ASSUME NEW c \in Callers, NEW entry, entry.pc # "operator",
             call' = [call EXCEPT ![c] = entry], UNCHANGED identities, doubled \subseteq doubled'
      PROVE  UsersInv'
  BY <1>0, <1>1, CallMoves, UsersByCalls
<1>2. ASSUME NEW c \in Callers, NEW entry, Passes(c, entry) PROVE UsersInv'
  BY <1>1, <1>2 DEF Passes, identityVars
<1>3. ASSUME NEW c \in Callers, Changing(c) PROVE UsersInv'
  <2>1. ASSUME NEW name \in Names, NEW failed \in BOOLEAN, LookUser(c, name, failed)
        PROVE  UsersInv'
    BY <1>0, <2>1, UsersByLook DEF UsersInv
  <2>2. ASSUME NEW name \in Names, NEW failed \in BOOLEAN, LookHost(c, name, failed)
        PROVE  UsersInv'
    <3>1. PICK entry : /\ entry.pc = "device" /\ call' = [call EXCEPT ![c] = entry]
                       /\ UNCHANGED <<identityVars, rowVars>>
      BY <2>2, LookEffect DEF LookHost
    <3>2. doubled \subseteq doubled'
      BY <2>2 DEF LookHost, Look
    <3> QED
      BY <1>1, <3>1, <3>2 DEF identityVars
  <2>3. CASE \/ CreateOperator(c, FALSE)
             \/ \E type \in {"device", "service"}, name \in Names : CreateDirectly(c, type, name)
             \/ CreateDevice(c, FALSE)
    <3>1. PICK type, name, entry :
            /\ type \in Types /\ name \in Names
            /\ Insert(type, name) /\ UNCHANGED <<barred, rowVars, doubled>>
            /\ call' = [call EXCEPT ![c] = entry]
            /\ Good(entry, identities', rows, made, renamed)
            /\ entry.pc = "row" => entry.id = Len(identities')
            /\ \/ entry.pc \notin {"operator", "device"} /\ call[c].pc \in {"operator", "device"}
               \/ call[c] = entry /\ entry.pc = "idle" /\ Room
            /\ type = "operator" => call[c].pc = "operator" /\ name = call[c].name
            /\ entry.pc = "row" => call[c].pc = "device" /\ entry.name = call[c].name
      BY <2>3, CreateEffect
    <3>2. entry.pc # "operator" /\ UNCHANGED <<barred, doubled>>
      BY <3>1
    <3> QED
      BY <1>0, <3>1, <3>2, UsersByInsert DEF UsersInv
  <2>4. CASE Write(c, FALSE)
    <3>1. PICK id, to, from, entry :
            /\ id \in DOMAIN identities /\ to \in Standings
            /\ SetStatus(id, from, to) /\ UNCHANGED <<rowVars, doubled>>
            /\ to = "active" => from # "revoked"
            /\ call' = [call EXCEPT ![c] = entry]
            /\ Good(entry, identities, rows, made, renamed)
            /\ entry.pc \notin {"operator", "device", "row", "write"}
      BY <2>4, WriteEffect
    <3>2. /\ DOMAIN identities' = DOMAIN identities
          /\ \A i \in DOMAIN identities : /\ identities'[i].type = identities[i].type
                                         /\ identities'[i].name = identities[i].name
      BY <1>0, <3>1, SetEffect
    <3>3. call'[c] = entry /\ \A o \in Callers \ {c} : call'[o] = call[o]
      BY <1>0, <3>1, CallMoves
    <3>4. \A o \in Callers : call'[o].pc = "operator" =>
            call[o].pc = "operator" /\ call'[o].name = call[o].name
      BY <3>1, <3>3
    <3>5. doubled \subseteq doubled'
      BY <3>1
    <3> QED
      BY <3>2, <3>4, <3>5, UsersKept DEF UsersInv
  <2>5. CASE WriteRow(c, FALSE) /\ call[c].row \in DOMAIN rows
    <3>1. \A o \in Callers : call'[o].pc = "operator" =>
            call[o].pc = "operator" /\ call'[o].name = call[o].name
      BY <1>0, <2>5, WriteRowCalls
    <3> QED
      BY <2>5, <3>1, UsersByCalls DEF WriteRow, identityVars
  <2>6. ASSUME NEW role \in Roles, CreateRow(c, role, FALSE) PROVE UsersInv'
    BY <1>0, <1>1, <2>6 DEF CreateRow, Ends, identityVars
  <2>7. CASE DeleteRow(c, FALSE)
    BY <1>0, <1>1, <2>7 DEF DeleteRow, Ends, identityVars
  <2>8. ASSUME NEW r \in DOMAIN rows, NEW status \in Statuses, UpdateStatus(r, status)
        PROVE  UsersInv'
    BY <2>8, UsersByCalls DEF UpdateStatus, identityVars
  <2> QED
    BY <1>3, <2>1, <2>2, <2>3, <2>4, <2>5, <2>6, <2>7, <2>8 DEF Changing
<1>4. CASE Restart
  <2>1. \A o \in Callers : call'[o].pc # "operator"
    BY <1>0, <1>4 DEF Restart
  <2> QED
    BY <1>4, <2>1, UsersByCalls DEF Restart, identityVars
<1>5. CASE UNCHANGED vars
  BY <1>5, UsersByCalls DEF vars, identityVars
<1> QED
  BY <1>0, <1>2, <1>3, <1>4, <1>5, Steps

(* The same of hosts, over the rows as they are.                            *)
LEMMA HostsByCalls ==
  ASSUME HostsInv, UNCHANGED <<rows, renamed>>, doubled \subseteq doubled',
         \A c \in Callers : call'[c].pc \in {"device", "row"} =>
           call[c].pc \in {"device", "row"} /\ call'[c].name = call[c].name
  PROVE  HostsInv'
BY HostsKept DEF HostsInv

LEMMA HostsStep ==
  ASSUME BaseInv, BarredRevoked, HostsInv, [Next]_vars
  PROVE  HostsInv'
<1>0. /\ CallsGood /\ RowsTyped /\ IdentitiesTyped /\ Owned /\ RevokedKeptOut
      /\ Idle.pc = "idle"
  BY KeptOut, IdleType DEF BaseInv
<1>1. ASSUME NEW c \in Callers, NEW entry, call' = [call EXCEPT ![c] = entry],
             entry.pc \in {"device", "row"} =>
               call[c].pc \in {"device", "row"} /\ entry.name = call[c].name,
             UNCHANGED rowVars, doubled \subseteq doubled'
      PROVE  HostsInv'
  BY <1>0, <1>1, CallMoves, HostsByCalls DEF rowVars
<1>2. ASSUME NEW c \in Callers, NEW entry, Passes(c, entry) PROVE HostsInv'
  BY <1>1, <1>2 DEF Passes
<1>3. ASSUME NEW c \in Callers, Changing(c) PROVE HostsInv'
  <2>1. ASSUME NEW name \in Names, NEW failed \in BOOLEAN, LookHost(c, name, failed)
        PROVE  HostsInv'
    BY <1>0, <2>1, HostsByLook DEF HostsInv
  <2>2. ASSUME NEW name \in Names, NEW failed \in BOOLEAN, LookUser(c, name, failed)
        PROVE  HostsInv'
    <3>1. PICK entry : /\ entry.pc = "operator" /\ call' = [call EXCEPT ![c] = entry]
                       /\ UNCHANGED <<identityVars, rowVars>>
      BY <2>2, LookEffect DEF LookUser
    <3>2. doubled \subseteq doubled'
      BY <2>2 DEF LookUser, Look
    <3> QED
      BY <1>1, <3>1, <3>2
  <2>3. CASE \/ CreateOperator(c, FALSE)
             \/ \E type \in {"device", "service"}, name \in Names : CreateDirectly(c, type, name)
             \/ CreateDevice(c, FALSE)
    <3>1. PICK type, name, entry :
            /\ type \in Types /\ name \in Names
            /\ Insert(type, name) /\ UNCHANGED <<barred, rowVars, doubled>>
            /\ call' = [call EXCEPT ![c] = entry]
            /\ Good(entry, identities', rows, made, renamed)
            /\ entry.pc = "row" => entry.id = Len(identities')
            /\ \/ entry.pc \notin {"operator", "device"} /\ call[c].pc \in {"operator", "device"}
               \/ call[c] = entry /\ entry.pc = "idle" /\ Room
            /\ type = "operator" => call[c].pc = "operator" /\ name = call[c].name
            /\ entry.pc = "row" => call[c].pc = "device" /\ entry.name = call[c].name
      BY <2>3, CreateEffect
    <3>2. /\ UNCHANGED rowVars /\ doubled \subseteq doubled'
          /\ entry.pc # "device"
      BY <3>1
    <3> QED
      BY <1>1, <3>1, <3>2
  <2>4. CASE Write(c, FALSE)
    <3>1. PICK entry : /\ UNCHANGED <<rowVars, doubled>>
                       /\ call' = [call EXCEPT ![c] = entry]
                       /\ entry.pc \notin {"operator", "device", "row", "write"}
      BY <2>4, WriteEffect
    <3> QED
      BY <1>1, <3>1
  <2>5. CASE WriteRow(c, FALSE) /\ call[c].row \in DOMAIN rows
    <3>1. \A o \in Callers : call'[o].pc \in {"device", "row"} =>
            call[o].pc \in {"device", "row"} /\ call'[o].name = call[o].name
      BY <1>0, <2>5, WriteRowCalls
    <3>2. /\ DOMAIN rows' = DOMAIN rows
          /\ \A s \in DOMAIN rows \ {call[c].row} : rows'[s] = rows[s]
          /\ renamed \subseteq renamed'
      BY <1>0, <2>5, WriteRowEffect
    <3>3. \/ rows'[call[c].row].facts.hostname = rows[call[c].row].facts.hostname
          \/ call[c].row \in renamed'
      BY <1>0, <2>5, HostnameKept
    <3>4. \A s \in DOMAIN rows' : \/ rows'[s].facts.hostname = rows[s].facts.hostname
                               \/ s \in renamed'
      BY <3>2, <3>3
    <3>5. doubled \subseteq doubled'
      BY <2>5 DEF WriteRow
    <3> QED
      BY <3>1, <3>2, <3>4, <3>5, HostsKept DEF HostsInv
  <2>6. ASSUME NEW role \in Roles, CreateRow(c, role, FALSE) PROVE HostsInv'
    BY <1>0, <2>6, HostsByCreateRow DEF HostsInv
  <2>7. CASE DeleteRow(c, FALSE)
    <3>1. /\ DOMAIN rows' \subseteq DOMAIN rows
          /\ \A s \in DOMAIN rows' : rows'[s] = rows[s]
          /\ renamed' = renamed
      BY <1>0, <2>7, DeleteRowEffect
    <3>2. call' = [call EXCEPT ![c] = Idle] /\ doubled' = doubled
      BY <2>7 DEF DeleteRow, Ends
    <3>3. call'[c] = Idle /\ \A o \in Callers \ {c} : call'[o] = call[o]
      BY <1>0, <3>2, CallMoves
    <3>4. /\ \A s \in DOMAIN rows' : rows'[s].facts.hostname = rows[s].facts.hostname
          /\ \A o \in Callers : call'[o].pc \in {"device", "row"} =>
               call[o].pc \in {"device", "row"} /\ call'[o].name = call[o].name
      BY <1>0, <3>1, <3>3
    <3> QED
      BY <3>1, <3>2, <3>4, HostsKept DEF HostsInv
  <2>8. ASSUME NEW r \in DOMAIN rows, NEW status \in Statuses, UpdateStatus(r, status)
        PROVE  HostsInv'
    <3>1. /\ DOMAIN rows' = DOMAIN rows
          /\ \A s \in DOMAIN rows : rows'[s].facts = rows[s].facts
      BY <1>0, <2>8, UpdateStatusEffect
    <3>2. UNCHANGED <<renamed, call, doubled>>
      BY <2>8 DEF UpdateStatus
    <3> QED
      BY <3>1, <3>2, HostsKept DEF HostsInv
  <2> QED
    BY <1>3, <2>1, <2>2, <2>3, <2>4, <2>5, <2>6, <2>7, <2>8 DEF Changing
<1>4. CASE Restart
  <2>1. \A o \in Callers : call'[o].pc \notin {"device", "row"}
    BY <1>0, <1>4 DEF Restart
  <2> QED
    BY <1>4, <2>1, HostsByCalls DEF Restart, rowVars
<1>5. CASE UNCHANGED vars
  BY <1>5, HostsByCalls DEF vars, rowVars
<1> QED
  BY <1>0, <1>2, <1>3, <1>4, <1>5, Steps

(* Two operators share a username, or two rows a hostname, only after both  *)
(* creations looked it up at a time, or one with an error, or a device was  *)
(* renamed.                                                                 *)
THEOREM NamesStayDistinct == Spec => []NamesDistinct
<1>1. Init => UsersInv /\ HostsInv
  <2>1. ASSUME Init PROVE UsersInv /\ HostsInv
    <3>1. /\ identities = <<>> /\ DOMAIN rows = {}
          /\ \A c \in Callers : call[c] = Idle
      BY <2>1 DEF Init
    <3> QED
      BY <3>1, IdleType DEF UsersInv, HostsInv, UsersLooked, UsersDistinct, HostsLooked,
           HostsDistinct
  <2> QED
    BY <2>1
<1>2. (BaseInv /\ BarredRevoked) /\ (UsersInv /\ HostsInv) /\ [Next]_vars
        => (UsersInv /\ HostsInv)'
  BY UsersStep, HostsStep
<1>3. UsersInv /\ HostsInv => NamesDistinct
  BY NamesParts DEF UsersInv, HostsInv
<1> QED
  BY <1>1, <1>2, <1>3, SpecBase, PTL DEF Spec

=============================================================================
