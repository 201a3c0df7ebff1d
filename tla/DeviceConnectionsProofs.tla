----------------------- MODULE DeviceConnectionsProofs -----------------------
(***************************************************************************)
(* Proofs about the connections to devices: the types (BaseInv), what is   *)
(* open is held (with SessionsInv: a session not in the proxy's map yet is  *)
(* of the one Connect that started it), and a caller is told its own reply  *)
(* - over NETCONF because what a device sent and nobody read is what the    *)
(* one caller that waits asked for (AnswersInv), over SSH because a device  *)
(* whose last Connect or Disconnect was alone has the session of its stored *)
(* connection (RecordsInv).                                                 *)
(***************************************************************************)
EXTENDS DeviceConnections, FiniteSetTheorems, SequenceTheorems, TLAPS

-----------------------------------------------------------------------------
(* Calls                                                                    *)

SshPoints == {"track", "enter", "close", "run", "wait", "find", "record"}
NetconfPoints == {"dial", "hold", "await", "told"}

(* What an entry of call has to be, with n connections and m sessions, over *)
(* the protocol p.                                                          *)
Good(entry, n, m, p) ==
  /\ entry \in Call
  /\ entry.pc # "idle" => entry.device \in Devices
  /\ entry.pc \in {"track", "enter", "run", "wait", "find", "record", "hold", "await", "told"}
       => entry.conn \in 1..n
  /\ entry.pc = "record" => entry.session \in 1..m
  /\ entry.pc = "enter" => entry.session \in 0..m
  /\ p = "ssh" => entry.pc \notin NetconfPoints
  /\ p = "netconf" => entry.pc \notin SshPoints

CallsGood ==
  /\ call \in [Callers -> Call]
  /\ \A c \in Callers : Good(call[c], Len(conns), Len(sessions), protocol)

LEMMA NoneFresh == None \notin Devices /\ None \notin Nat
BY ConnectionsAssumption

LEMMA IdleType == Idle \in Call /\ Idle.pc = "idle" /\ ~Idle.alone
BY DEF Idle, Call

LEMMA IdleGood == \A n, m, p : Good(Idle, n, m, p)
BY IdleType DEF Good, NetconfPoints, SshPoints

LEMMA GoodKept ==
  ASSUME NEW entry, NEW n \in Nat, NEW m \in Nat, NEW p, NEW n2 \in Nat, NEW m2 \in Nat,
         Good(entry, n, m, p), n <= n2, m <= m2
  PROVE  Good(entry, n2, m2, p)
<1>1. entry.conn \in Nat /\ entry.session \in Nat
  BY DEF Good, Call
<1> QED
  BY <1>1 DEF Good

LEMMA GoodEntry ==
  ASSUME CallsGood, NEW c \in Callers
  PROVE  /\ call[c] \in Call /\ Good(call[c], Len(conns), Len(sessions), protocol)
         /\ call[c].pc # "idle" => call[c].device \in Devices
         /\ call[c].conn \in Nat /\ call[c].alone \in BOOLEAN
BY DEF CallsGood, Good, Call

LEMMA CallMoves ==
  ASSUME CallsGood, NEW c \in Callers, NEW entry, call' = [call EXCEPT ![c] = entry]
  PROVE  call'[c] = entry /\ \A o \in Callers \ {c} : call'[o] = call[o]
BY DEF CallsGood

(* A Connect or Disconnect of d leaves the calls but for their being alone. *)
Left(c, d, entry) ==
  /\ call' \in [Callers -> Call] /\ call'[c] = entry
  /\ \A o \in Callers \ {c} :
       /\ call'[o].pc = call[o].pc /\ call'[o].device = call[o].device
       /\ call'[o].conn = call[o].conn /\ call'[o].session = call[o].session
       /\ call'[o].request = call[o].request /\ call'[o].reply = call[o].reply
       /\ call'[o].alone => call[o].alone /\ call[o].device # d
       /\ call[o].device # d => call'[o] = call[o]

LEMMA Disturbed ==
  ASSUME CallsGood, NEW d, NEW c \in Callers, NEW entry \in Call,
         call' = [Disturb(d) EXCEPT ![c] = entry]
  PROVE  Left(c, d, entry)
<1>1. ASSUME NEW o \in Callers
      PROVE  LET e == [call[o] EXCEPT !.alone = FALSE]
             IN  /\ e \in Call /\ e.pc = call[o].pc /\ e.device = call[o].device
                 /\ e.conn = call[o].conn /\ e.session = call[o].session
                 /\ e.request = call[o].request /\ e.reply = call[o].reply /\ ~e.alone
  <2>1. call[o] \in Call
    BY GoodEntry
  <2> QED
    BY <2>1 DEF Call
<1>2. /\ Disturb(d) \in [Callers -> Call]
      /\ \A o \in Callers : Disturb(d)[o] = IF call[o].device = d
                                            THEN [call[o] EXCEPT !.alone = FALSE] ELSE call[o]
  BY <1>1, GoodEntry DEF Disturb
<1>3. /\ call' \in [Callers -> Call] /\ call'[c] = entry
      /\ \A o \in Callers \ {c} : call'[o] = Disturb(d)[o]
  BY <1>2
<1>4. \A o \in Callers \ {c} :
        /\ call[o].device = d => call'[o] = [call[o] EXCEPT !.alone = FALSE]
        /\ call[o].device # d => call'[o] = call[o]
  BY <1>2, <1>3
<1>5. ASSUME NEW o \in Callers \ {c}
      PROVE  /\ call'[o].pc = call[o].pc /\ call'[o].device = call[o].device
             /\ call'[o].conn = call[o].conn /\ call'[o].session = call[o].session
             /\ call'[o].request = call[o].request /\ call'[o].reply = call[o].reply
             /\ call'[o].alone => call[o].alone /\ call[o].device # d
             /\ call[o].device # d => call'[o] = call[o]
  <2>1. CASE call[o].device = d
    <3>1. call'[o] = [call[o] EXCEPT !.alone = FALSE]
      BY <1>4, <2>1
    <3> QED
      BY <1>1, <2>1, <3>1
  <2>2. CASE call[o].device # d
    BY <1>4, <2>2
  <2> QED
    BY <2>1, <2>2
<1> QED
  BY <1>3, <1>5 DEF Left

-----------------------------------------------------------------------------
(* Typing                                                                   *)

ConnsTyped ==
  /\ conns \in Seq(Connection) /\ Len(conns) <= MaxConnections
  /\ stored \in [Devices -> 0..Len(conns)]

SessionsTyped ==
  /\ sessions \in Seq(Session)
  /\ tracked \in [Devices -> {None} \union 0..Len(sessions)]

HistoryTyped ==
  /\ displaced \in [conns : SUBSET DOMAIN conns, sessions : SUBSET DOMAIN sessions]
  /\ settled \subseteq Devices

RestTyped ==
  /\ protocol \in Protocols
  /\ commands \in 0..MaxCommands /\ failures \in 0..MaxFailures

InPool == {d \in Devices : stored[d] # 0}
PoolBounded == protocol = "netconf" => Cardinality(InPool) <= MaxSessions

(* What is in the adapter's map is of the device it is found under.         *)
HeldOwn == \A d \in Devices : stored[d] # 0 => conns[stored[d]].device = d

BaseInv ==
  /\ ConnsTyped /\ SessionsTyped /\ HistoryTyped /\ RestTyped
  /\ PoolBounded /\ HeldOwn /\ CallsGood

LEMMA Lengths ==
  ASSUME ConnsTyped, SessionsTyped
  PROVE  /\ Len(conns) \in Nat /\ DOMAIN conns = 1..Len(conns)
         /\ Len(sessions) \in Nat /\ DOMAIN sessions = 1..Len(sessions)
         /\ \A n \in DOMAIN conns : conns[n] \in Connection
         /\ \A s \in DOMAIN sessions : sessions[s] \in Session
BY DEF ConnsTyped, SessionsTyped

LEMMA BaseTypes == BaseInv => TypeOK
<1> SUFFICES ASSUME BaseInv PROVE TypeOK
  OBVIOUS
<1>1. /\ ConnsTyped /\ SessionsTyped /\ HistoryTyped /\ RestTyped
      /\ PoolBounded /\ CallsGood
  BY DEF BaseInv
<1>2. /\ conns \in Seq(Connection) /\ Len(conns) <= MaxConnections
      /\ stored \in [Devices -> 0..Len(conns)] /\ sessions \in Seq(Session)
      /\ \A d \in Devices : tracked[d] = None \/ tracked[d] \in 0..Len(sessions)
  BY <1>1 DEF ConnsTyped, SessionsTyped
<1>3. /\ call \in [Callers -> Call]
      /\ \A c \in Callers :
           /\ call[c].pc # "idle" => call[c].device # None
           /\ call[c].pc \in {"track", "enter", "run", "wait", "find", "record", "hold",
                              "await", "told"}
                => call[c].conn \in DOMAIN conns
  BY <1>1, Lengths, NoneFresh DEF CallsGood, Good
<1>4. /\ displaced.conns \subseteq DOMAIN conns /\ displaced.sessions \subseteq DOMAIN sessions
      /\ settled \subseteq Devices
  BY <1>1 DEF HistoryTyped
<1>5. /\ protocol \in Protocols
      /\ commands \in 0..MaxCommands /\ failures \in 0..MaxFailures
      /\ protocol = "netconf" => Cardinality({d \in Devices : stored[d] # 0}) <= MaxSessions
  BY <1>1 DEF RestTyped, PoolBounded, InPool
<1> QED
  BY <1>2, <1>3, <1>4, <1>5 DEF TypeOK

(* A connection made, and one changed.                                      *)
LEMMA ConnAdded ==
  ASSUME ConnsTyped, NEW conn \in Connection, conns' = Append(conns, conn),
         Len(conns) < MaxConnections
  PROVE  LET n == Len(conns) + 1
         IN  /\ conns' \in Seq(Connection) /\ Len(conns') = n
             /\ Len(conns') <= MaxConnections /\ Len(conns) \in Nat
             /\ DOMAIN conns' = DOMAIN conns \union {n} /\ n \notin DOMAIN conns
             /\ \A k \in DOMAIN conns : conns'[k] = conns[k]
             /\ conns'[n] = conn
<1>1. conns \in Seq(Connection) /\ Len(conns) \in Nat /\ DOMAIN conns = 1..Len(conns)
  BY DEF ConnsTyped
<1>2. /\ conns' \in Seq(Connection) /\ Len(conns') = Len(conns) + 1
      /\ \A k \in 1..Len(conns) : conns'[k] = conns[k]
      /\ conns'[Len(conns) + 1] = conn
      /\ DOMAIN conns' = 1..Len(conns')
  BY <1>1
<1>3. 1..Len(conns') = 1..Len(conns) \union {Len(conns) + 1}
  BY <1>1, <1>2
<1> QED
  BY <1>1, <1>2, <1>3, ConnectionsBounds

LEMMA ConnSet ==
  ASSUME ConnsTyped, NEW n \in DOMAIN conns, NEW conn \in Connection,
         conns' = [conns EXCEPT ![n] = conn]
  PROVE  /\ conns' \in Seq(Connection) /\ Len(conns') = Len(conns)
         /\ DOMAIN conns' = DOMAIN conns
         /\ \A k \in DOMAIN conns \ {n} : conns'[k] = conns[k]
         /\ conns'[n] = conn
<1>1. conns \in Seq(Connection) /\ DOMAIN conns = 1..Len(conns)
  BY DEF ConnsTyped
<1>2. conns' \in Seq(Connection) /\ Len(conns') = Len(conns)
  BY <1>1, ExceptSeq
<1> QED
  BY <1>1, <1>2

LEMMA NewType ==
  ASSUME NEW d \in Devices, NEW split \in BOOLEAN
  PROVE  LET conn == NewConnection(d, split)
         IN  /\ conn \in Connection
             /\ conn.device = d /\ conn.open /\ ~conn.dead /\ conn.split = split
             /\ ~split => conn.stream = <<>>
<1>1. <<0>> \in Seq(Nat) /\ <<>> \in Seq(Nat)
  OBVIOUS
<1>2. (IF split THEN <<0>> ELSE <<>>) \in Seq(Nat)
  BY <1>1
<1> QED
  BY <1>2 DEF NewConnection, Connection

(* A step that leaves the tables, and ends a call or goes on with one.      *)
Passes(c, entry) ==
  /\ Good(entry, Len(conns), Len(sessions), protocol)
  /\ call' = [call EXCEPT ![c] = entry]
  /\ UNCHANGED <<protocol, tables, failures>>

LEMMA BaseKept ==
  ASSUME BaseInv, UNCHANGED <<conns, stored, tracked, sessions, displaced, settled>>,
         CallsGood', RestTyped', UNCHANGED protocol
  PROVE  BaseInv'
BY DEF BaseInv, ConnsTyped, SessionsTyped, HistoryTyped, PoolBounded, InPool, HeldOwn

LEMMA BaseByPasses ==
  ASSUME BaseInv, NEW c \in Callers, NEW entry, Passes(c, entry), RestTyped'
  PROVE  BaseInv'
<1>1. /\ UNCHANGED <<protocol, conns, stored, tracked, sessions, displaced, settled>>
      /\ Good(entry, Len(conns), Len(sessions), protocol) /\ entry \in Call
      /\ call' = [call EXCEPT ![c] = entry]
  BY DEF Passes, tables, Good
<1>2. CallsGood'
  BY <1>1, CallMoves DEF BaseInv, CallsGood
<1> QED
  BY <1>1, <1>2, BaseKept

(* The calls of the others, with no fewer connections and sessions.         *)
LEMMA CallsStay ==
  ASSUME BaseInv, UNCHANGED protocol, NEW c \in Callers, NEW entry,
         Len(conns') \in Nat, Len(sessions') \in Nat,
         Len(conns) <= Len(conns'), Len(sessions) <= Len(sessions'),
         Good(entry, Len(conns'), Len(sessions'), protocol),
         \/ call' = [call EXCEPT ![c] = entry]
         \/ \E d : call' = [Disturb(d) EXCEPT ![c] = entry]
  PROVE  CallsGood'
<1>0. /\ CallsGood /\ entry \in Call
      /\ Len(conns) \in Nat /\ Len(sessions) \in Nat
  BY Lengths DEF BaseInv, Good
<1>1. /\ call' \in [Callers -> Call] /\ call'[c] = entry
      /\ \A o \in Callers \ {c} :
           /\ call'[o].pc = call[o].pc /\ call'[o].device = call[o].device
           /\ call'[o].conn = call[o].conn /\ call'[o].session = call[o].session
  <2>1. CASE call' = [call EXCEPT ![c] = entry]
    <3>1. call' \in [Callers -> Call]
      BY <1>0, <2>1 DEF CallsGood
    <3> QED
      BY <1>0, <2>1, <3>1, CallMoves
  <2>2. ASSUME NEW d, call' = [Disturb(d) EXCEPT ![c] = entry]
        PROVE  /\ call' \in [Callers -> Call] /\ call'[c] = entry
               /\ \A o \in Callers \ {c} :
                    /\ call'[o].pc = call[o].pc /\ call'[o].device = call[o].device
                    /\ call'[o].conn = call[o].conn /\ call'[o].session = call[o].session
    BY <1>0, <2>2, Disturbed DEF Left
  <2> QED
    BY <2>1, <2>2
<1>2. ASSUME NEW o \in Callers PROVE Good(call'[o], Len(conns'), Len(sessions'), protocol')
  <2>1. CASE o = c
    BY <1>1, <2>1
  <2>2. CASE o # c
    <3>1. Good(call[o], Len(conns'), Len(sessions'), protocol)
      BY <1>0, GoodEntry, GoodKept
    <3>2. call'[o] \in Call
      BY <1>1
    <3> QED
      BY <1>1, <2>2, <3>1, <3>2 DEF Good
  <2> QED
    BY <2>1, <2>2
<1> QED
  BY <1>1, <1>2 DEF CallsGood

(* A new connection is put into the map, or not.                            *)
LEMMA StoredNew ==
  ASSUME ConnsTyped, HeldOwn, NEW d \in Devices, NEW conn \in Connection, conn.device = d,
         conns' = Append(conns, conn), Len(conns) < MaxConnections,
         stored' = [stored EXCEPT ![d] = Len(conns) + 1] \/ stored' = stored
  PROVE  /\ ConnsTyped'
         /\ \A e \in Devices : stored'[e] # 0 => conns'[stored'[e]].device = e
<1>1. /\ conns' \in Seq(Connection) /\ Len(conns') = Len(conns) + 1
      /\ Len(conns') <= MaxConnections /\ Len(conns) \in Nat
      /\ DOMAIN conns' = DOMAIN conns \union {Len(conns) + 1}
      /\ \A k \in DOMAIN conns : conns'[k] = conns[k]
      /\ conns'[Len(conns) + 1] = conn
      /\ DOMAIN conns = 1..Len(conns)
      /\ stored \in [Devices -> 0..Len(conns)]
  BY ConnAdded DEF ConnsTyped
<1>2. stored' \in [Devices -> 0..Len(conns')]
  BY <1>1
<1>3. \A e \in Devices : stored'[e] # 0 => conns'[stored'[e]].device = e
  BY <1>1 DEF HeldOwn
<1> QED
  BY <1>1, <1>2, <1>3 DEF ConnsTyped

(* A connection is closed, broken, or read from; the device stays.          *)
LEMMA StoredSet ==
  ASSUME ConnsTyped, HeldOwn, NEW n \in DOMAIN conns, NEW conn \in Connection,
         conn.device = conns[n].device, conns' = [conns EXCEPT ![n] = conn],
         stored' = stored \/ \E d \in Devices : stored' = [stored EXCEPT ![d] = 0]
  PROVE  /\ ConnsTyped'
         /\ \A e \in Devices : stored'[e] # 0 => conns'[stored'[e]].device = e
<1>1. /\ conns' \in Seq(Connection) /\ Len(conns') = Len(conns)
      /\ DOMAIN conns' = DOMAIN conns
      /\ \A k \in DOMAIN conns \ {n} : conns'[k] = conns[k]
      /\ conns'[n] = conn
      /\ Len(conns) \in Nat /\ Len(conns) <= MaxConnections /\ DOMAIN conns = 1..Len(conns)
      /\ stored \in [Devices -> 0..Len(conns)]
  BY ConnSet DEF ConnsTyped
<1>2. /\ stored' \in [Devices -> 0..Len(conns)]
      /\ \A e \in Devices : stored'[e] # 0 => stored'[e] = stored[e]
  BY <1>1
<1>3. \A e \in Devices : stored'[e] # 0 => conns'[stored'[e]].device = e
  BY <1>1, <1>2 DEF HeldOwn
<1> QED
  BY <1>1, <1>2, <1>3 DEF ConnsTyped

LEMMA DisplacedConns ==
  ASSUME HistoryTyped, NEW X, displaced' = [displaced EXCEPT !.conns = @ \union X]
  PROVE  /\ displaced'.conns = displaced.conns \union X
         /\ displaced'.sessions = displaced.sessions
         /\ displaced.conns \subseteq DOMAIN conns /\ displaced.sessions \subseteq DOMAIN sessions
         /\ \A D : displaced.conns \union X \subseteq D =>
              displaced' \in [conns : SUBSET D, sessions : SUBSET DOMAIN sessions]
BY DEF HistoryTyped

LEMMA DisplacedSessions ==
  ASSUME HistoryTyped, NEW X, displaced' = [displaced EXCEPT !.sessions = @ \union X]
  PROVE  /\ displaced'.sessions = displaced.sessions \union X
         /\ displaced'.conns = displaced.conns
         /\ displaced.conns \subseteq DOMAIN conns /\ displaced.sessions \subseteq DOMAIN sessions
         /\ \A S : displaced.sessions \union X \subseteq S =>
              displaced' \in [conns : SUBSET DOMAIN conns, sessions : SUBSET S]
BY DEF HistoryTyped

-----------------------------------------------------------------------------
(* The proxy's actions                                                      *)

(* Where a Connect goes, and a Disconnect.                                  *)
Linked(d, n, alone) ==
  [Idle EXCEPT !.pc = "track", !.device = d, !.conn = n, !.alone = alone]
Unlinked(d, alone) == [Idle EXCEPT !.pc = "close", !.device = d, !.alone = alone]

LEMMA LinkedType ==
  ASSUME NEW d \in Devices, NEW n \in Nat, NEW alone \in BOOLEAN
  PROVE  LET entry == Linked(d, n, alone)
         IN  /\ entry \in Call /\ entry.pc = "track" /\ entry.device = d /\ entry.conn = n
             /\ entry.alone = alone
BY DEF Linked, Idle, Call

LEMMA UnlinkedType ==
  ASSUME NEW d \in Devices, NEW alone \in BOOLEAN
  PROVE  LET entry == Unlinked(d, alone)
         IN  /\ entry \in Call /\ entry.pc = "close" /\ entry.device = d
             /\ entry.alone = alone
BY DEF Unlinked, Idle, Call

LEMMA BaseByConnect ==
  ASSUME BaseInv, NEW c \in Callers, NEW d \in Devices, Connect(c, d)
  PROVE  BaseInv'
<1> DEFINE n == Len(conns) + 1
           conn == NewConnection(d, FALSE)
           entry == Linked(d, n, Linking(d) = {})
<1>0. /\ ConnsTyped /\ SessionsTyped /\ HistoryTyped /\ RestTyped /\ HeldOwn
      /\ conn \in Connection /\ conn.device = d
  BY NewType DEF BaseInv
<1>1. /\ protocol = "ssh" /\ Len(conns) < MaxConnections
      /\ conns' = Append(conns, conn) /\ stored' = [stored EXCEPT ![d] = n]
      /\ displaced' = [displaced EXCEPT !.conns = @ \union Over(d)]
      /\ settled' = settled \ {d}
      /\ UNCHANGED <<protocol, tracked, sessions, commands, failures>>
      /\ call' = [Disturb(d) EXCEPT ![c] = entry]
  <2>1. Len(conns') = n
    BY <1>0, ConnAdded DEF Connect
  <2> QED
    BY <2>1 DEF Connect, Linked
<1> HIDE DEF conn, entry
<1>2. /\ ConnsTyped'
      /\ \A e \in Devices : stored'[e] # 0 => conns'[stored'[e]].device = e
  BY <1>0, <1>1, StoredNew
<1>3. /\ Len(conns') = n /\ Len(conns) \in Nat /\ DOMAIN conns \subseteq DOMAIN conns'
      /\ DOMAIN conns = 1..Len(conns) /\ Len(sessions) \in Nat
  BY <1>0, <1>1, ConnAdded, Lengths
<1>4. HistoryTyped'
  <2>1. Over(d) \subseteq DOMAIN conns
    BY <1>0, <1>3 DEF Over, ConnsTyped
  <2>2. displaced' \in [conns : SUBSET DOMAIN conns', sessions : SUBSET DOMAIN sessions]
    BY <1>0, <1>1, <1>3, <2>1, DisplacedConns
  <2> QED
    BY <1>0, <1>1, <2>2 DEF HistoryTyped
<1>5. SessionsTyped' /\ HeldOwn'
  BY <1>0, <1>1, <1>2 DEF SessionsTyped, HeldOwn
<1>6. CallsGood'
  <2>1. /\ UNCHANGED <<protocol, sessions>> /\ Len(conns') \in Nat
        /\ Len(conns) <= Len(conns') /\ Len(sessions) <= Len(sessions')
    BY <1>1, <1>3
  <2>2. Good(entry, Len(conns'), Len(sessions'), protocol)
    <3>1. n \in Nat /\ n \in 1..n
      BY <1>3
    <3>2. entry \in Call /\ entry.pc = "track" /\ entry.device = d /\ entry.conn = n
      BY <3>1, LinkedType DEF entry
    <3> QED
      BY <1>1, <1>3, <3>1, <3>2 DEF Good, NetconfPoints
  <2> QED
    BY <1>1, <1>3, <2>1, <2>2, CallsStay
<1>7. RestTyped' /\ PoolBounded'
  BY <1>0, <1>1 DEF RestTyped, PoolBounded
<1> QED
  BY <1>2, <1>4, <1>5, <1>6, <1>7 DEF BaseInv

LEMMA SshCalls ==
  ASSUME BaseInv, NEW c \in Callers, call[c].pc \in SshPoints
  PROVE  /\ protocol = "ssh" /\ call[c] \in Call /\ call[c].device \in Devices
         /\ call[c].pc # "close" => call[c].conn \in DOMAIN conns
<1>1. protocol \in {"ssh", "netconf"} /\ CallsGood /\ DOMAIN conns = 1..Len(conns)
  BY ConnectionsAssumption, Lengths DEF BaseInv, RestTyped
<1> QED
  BY <1>1, GoodEntry DEF Good, SshPoints

(* A session started, with a recorder or without; one entered; one ended.   *)
Started(c, s) == [call[c] EXCEPT !.pc = "enter", !.session = s]

LEMMA StartedType ==
  ASSUME NEW c, call[c] \in Call, NEW s \in Nat
  PROVE  LET entry == Started(c, s)
         IN  /\ entry \in Call /\ entry.pc = "enter" /\ entry.device = call[c].device
             /\ entry.conn = call[c].conn /\ entry.alone = call[c].alone
             /\ entry.session = s
BY DEF Started, Call

(* What starting a session does, with m the next session and s the one the  *)
(* call comes with.                                                         *)
Starts(c, recorded, m, s) ==
  /\ protocol = "ssh" /\ call[c] \in Call /\ call[c].pc = "track"
  /\ call[c].device \in Devices /\ call[c].conn \in DOMAIN conns
  /\ call' = [call EXCEPT ![c] = Started(c, s)]
  /\ SessionsTyped' /\ DOMAIN sessions \subseteq DOMAIN sessions'
  /\ Len(sessions') \in Nat /\ Len(sessions) <= Len(sessions')
  /\ s \in 0..Len(sessions') /\ m \notin DOMAIN sessions /\ m # 0 /\ m # None
  /\ \A t \in DOMAIN sessions : sessions'[t] = sessions[t]
  /\ recorded => /\ DOMAIN sessions' = DOMAIN sessions \union {m}
                 /\ sessions'[m].device = call[c].device
                 /\ sessions'[m].conn = call[c].conn /\ ~sessions'[m].ended
  /\ ~recorded => sessions' = sessions

LEMMA StartEffect ==
  ASSUME BaseInv, NEW c \in Callers, NEW recorded \in BOOLEAN, StartSession(c, recorded),
         NEW s, s = IF recorded THEN Len(sessions) + 1 ELSE 0
  PROVE  Starts(c, recorded, Len(sessions) + 1, s)
<1> DEFINE d == call[c].device
           m == Len(sessions) + 1
           session == [device |-> d, conn |-> call[c].conn, ended |-> FALSE]
<1>0. /\ ConnsTyped /\ SessionsTyped /\ CallsGood
      /\ Len(sessions) \in Nat /\ DOMAIN sessions = 1..Len(sessions)
      /\ DOMAIN conns = 1..Len(conns)
      /\ sessions \in Seq(Session) /\ tracked \in [Devices -> {None} \union 0..Len(sessions)]
  BY Lengths DEF BaseInv, SessionsTyped
<1>1. /\ call[c].pc = "track" /\ tracked' = tracked
      /\ sessions' = IF ~recorded THEN sessions ELSE Append(sessions, session)
      /\ call' = [call EXCEPT ![c] = Started(c, IF recorded THEN Len(sessions') ELSE 0)]
  BY DEF StartSession, Started
<1>2. /\ protocol = "ssh" /\ call[c] \in Call /\ d \in Devices
      /\ call[c].conn \in DOMAIN conns /\ call[c].conn \in Nat
  BY <1>0, <1>1, SshCalls DEF SshPoints
<1>3. session \in Session
  BY <1>2 DEF Session
<1>4. session.device = d /\ session.conn = call[c].conn /\ ~session.ended
  OBVIOUS
<1>5. m \notin DOMAIN sessions /\ m # 0 /\ m # None
  BY <1>0, NoneFresh
<1> HIDE DEF session, d
<1>7. CASE recorded
  <2>1. /\ sessions' \in Seq(Session) /\ Len(sessions') = m
        /\ \A t \in 1..Len(sessions) : sessions'[t] = sessions[t]
        /\ sessions'[m] = session /\ DOMAIN sessions' = 1..Len(sessions')
    BY <1>0, <1>1, <1>3, <1>7
  <2>2. m \in 0..m /\ 1..m = 1..Len(sessions) \union {m} /\ Len(sessions) <= m /\ m \in Nat
    BY <1>0
  <2>3. tracked' \in [Devices -> {None} \union 0..m]
    BY <1>0, <1>1
  <2>4. SessionsTyped'
    BY <2>1, <2>3 DEF SessionsTyped
  <2> HIDE DEF m
  <2> QED
    BY <1>0, <1>1, <1>2, <1>4, <1>5, <1>7, <2>1, <2>2, <2>4 DEF d, Starts
<1>8. CASE ~recorded
  <2>1. sessions' = sessions /\ SessionsTyped' /\ 0 \in 0..Len(sessions)
    BY <1>0, <1>1, <1>8 DEF SessionsTyped
  <2>2. s = 0 /\ call' = [call EXCEPT ![c] = Started(c, s)]
    BY <1>1, <1>8
  <2> QED
    BY <1>0, <1>1, <1>2, <1>5, <1>8, <2>1, <2>2 DEF d, Starts
<1> QED
  BY <1>7, <1>8

(* The entry it leaves; the others stay.                                    *)
LEMMA StartMoves ==
  ASSUME BaseInv, NEW c \in Callers, NEW recorded, NEW m, NEW s, Starts(c, recorded, m, s)
  PROVE  /\ Good(Started(c, s), Len(conns), Len(sessions'), protocol)
         /\ call'[c].pc = "enter" /\ call'[c].session = s
         /\ call'[c].device = call[c].device /\ call'[c].conn = call[c].conn
         /\ call'[c].alone = call[c].alone
         /\ \A o \in Callers \ {c} : call'[o] = call[o]
<1>1. PICK entry : entry = Started(c, s)
  OBVIOUS
<1>2. /\ call[c] \in Call /\ call[c].device \in Devices /\ call[c].conn \in DOMAIN conns
      /\ call' = [call EXCEPT ![c] = entry] /\ s \in Nat /\ s \in 0..Len(sessions')
      /\ protocol = "ssh"
  BY <1>1 DEF Starts
<1>3. /\ entry \in Call /\ entry.pc = "enter" /\ entry.device = call[c].device
      /\ entry.conn = call[c].conn /\ entry.alone = call[c].alone /\ entry.session = s
  BY <1>1, <1>2, StartedType
<1>4. call'[c] = entry /\ \A o \in Callers \ {c} : call'[o] = call[o]
  BY <1>2, CallMoves DEF BaseInv
<1>5. Good(entry, Len(conns), Len(sessions'), protocol)
  BY <1>2, <1>3, Lengths DEF Good, NetconfPoints, BaseInv
<1> QED
  BY <1>1, <1>3, <1>4, <1>5

LEMMA BaseByStart ==
  ASSUME BaseInv, NEW c \in Callers, NEW recorded \in BOOLEAN, StartSession(c, recorded)
  PROVE  BaseInv'
<1>0. /\ ConnsTyped /\ HistoryTyped /\ RestTyped /\ HeldOwn /\ CallsGood
      /\ Len(conns) \in Nat /\ DOMAIN conns = 1..Len(conns)
  BY Lengths DEF BaseInv
<1>1. PICK s : s = IF recorded THEN Len(sessions) + 1 ELSE 0
  OBVIOUS
<1>2. PICK m : Starts(c, recorded, m, s)
  BY <1>1, StartEffect
<1>3. UNCHANGED <<protocol, conns, stored, displaced, settled, commands, failures>>
  BY DEF StartSession
<1>4. SessionsTyped' /\ HistoryTyped'
  BY <1>0, <1>2, <1>3 DEF HistoryTyped, Starts
<1>5. CallsGood'
  <2>1. PICK entry : entry = Started(c, s)
    OBVIOUS
  <2>2. Good(entry, Len(conns'), Len(sessions'), protocol)
    BY <1>2, <1>3, <2>1, StartMoves
  <2>3. /\ call' = [call EXCEPT ![c] = entry]
        /\ Len(sessions') \in Nat /\ Len(sessions) <= Len(sessions')
    BY <1>2, <2>1 DEF Starts
  <2>4. UNCHANGED protocol /\ Len(conns') \in Nat /\ Len(conns) <= Len(conns')
    BY <1>0, <1>3
  <2> QED
    BY <2>2, <2>3, <2>4, CallsStay
<1>6. ConnsTyped' /\ RestTyped' /\ PoolBounded' /\ HeldOwn'
  BY <1>0, <1>3 DEF ConnsTyped, RestTyped, PoolBounded, InPool, BaseInv, HeldOwn
<1> QED
  BY <1>4, <1>5, <1>6 DEF BaseInv

LEMMA TrackEffect ==
  ASSUME BaseInv, NEW c \in Callers, Track(c)
  PROVE  LET d == call[c].device
             old == IF tracked[d] \in {None, 0} THEN {} ELSE {tracked[d]}
         IN  /\ protocol = "ssh" /\ call[c].pc = "enter" /\ d \in Devices
             /\ call[c].session = 0 \/ call[c].session \in DOMAIN sessions
             /\ SessionsTyped' /\ sessions' = sessions
             /\ tracked'[d] = call[c].session
             /\ \A e \in Devices \ {d} : tracked'[e] = tracked[e]
             /\ old \subseteq DOMAIN sessions
<1> DEFINE d == call[c].device
           old == IF tracked[d] \in {None, 0} THEN {} ELSE {tracked[d]}
<1>0. /\ CallsGood /\ Len(sessions) \in Nat /\ DOMAIN sessions = 1..Len(sessions)
      /\ sessions \in Seq(Session) /\ tracked \in [Devices -> {None} \union 0..Len(sessions)]
  BY Lengths DEF BaseInv, SessionsTyped
<1>1. /\ call[c].pc = "enter" /\ sessions' = sessions
      /\ tracked' = [tracked EXCEPT ![d] = call[c].session]
  BY DEF Track
<1>2. d \in Devices /\ protocol = "ssh"
  BY <1>1, SshCalls DEF SshPoints
<1>3. call[c].session \in 0..Len(sessions)
  BY <1>0, <1>1, GoodEntry DEF Good
<1> HIDE DEF d
<1>4. old \subseteq DOMAIN sessions
  BY <1>0, <1>2
<1>5. /\ tracked' \in [Devices -> {None} \union 0..Len(sessions)]
      /\ tracked'[d] = call[c].session
      /\ \A e \in Devices \ {d} : tracked'[e] = tracked[e]
  BY <1>0, <1>1, <1>2, <1>3
<1>6. call[c].session = 0 \/ call[c].session \in DOMAIN sessions
  BY <1>0, <1>3
<1> QED
  BY <1>0, <1>1, <1>2, <1>4, <1>5, <1>6 DEF SessionsTyped, d

LEMMA BaseByTrack ==
  ASSUME BaseInv, NEW c \in Callers, Track(c)
  PROVE  BaseInv'
<1> DEFINE d == call[c].device
           old == IF tracked[d] \in {None, 0} THEN {} ELSE {tracked[d]}
<1>0. /\ ConnsTyped /\ SessionsTyped /\ HistoryTyped /\ RestTyped /\ HeldOwn /\ CallsGood
      /\ Len(conns) \in Nat /\ Len(sessions) \in Nat
  BY Lengths DEF BaseInv
<1>1. /\ call' = [Disturb(d) EXCEPT ![c] = Idle]
      /\ displaced' = [displaced EXCEPT !.sessions = @ \union old]
      /\ settled' = IF call[c].alone THEN settled \union {d} ELSE settled
      /\ UNCHANGED <<protocol, conns, stored, sessions, commands, failures>>
  BY DEF Track
<1>2. d \in Devices /\ SessionsTyped' /\ old \subseteq DOMAIN sessions
  BY TrackEffect
<1>3. HistoryTyped'
  <2>1. displaced' \in [conns : SUBSET DOMAIN conns, sessions : SUBSET DOMAIN sessions]
    <3>1. displaced.sessions \union old \subseteq DOMAIN sessions
      BY <1>0, <1>2 DEF HistoryTyped
    <3> HIDE DEF old
    <3> QED
      BY <1>0, <1>1, <3>1, DisplacedSessions
  <2> QED
    BY <1>0, <1>1, <1>2, <2>1 DEF HistoryTyped
<1>4. HeldOwn'
  BY <1>0, <1>1 DEF HeldOwn
<1>5. CallsGood'
  <2>1. /\ Len(conns') \in Nat /\ Len(sessions') \in Nat
        /\ Len(conns) <= Len(conns') /\ Len(sessions) <= Len(sessions')
        /\ Good(Idle, Len(conns'), Len(sessions'), protocol)
    BY <1>0, <1>1, IdleGood
  <2> QED
    BY <1>1, <2>1, CallsStay
<1>6. ConnsTyped' /\ RestTyped' /\ PoolBounded'
  BY <1>0, <1>1 DEF ConnsTyped, RestTyped, PoolBounded, InPool, BaseInv
<1> QED
  BY <1>2, <1>3, <1>4, <1>5, <1>6 DEF BaseInv

LEMMA DisconnectEffect ==
  ASSUME BaseInv, NEW c \in Callers, NEW d \in Devices, Disconnect(c, d)
  PROVE  /\ protocol = "ssh" /\ call[c].pc = "idle"
         /\ SessionsTyped' /\ DOMAIN sessions' = DOMAIN sessions
         /\ Len(sessions') = Len(sessions)
         /\ \A s \in DOMAIN sessions : sessions'[s].device = sessions[s].device
         /\ \A s \in DOMAIN sessions : sessions'[s].conn = sessions[s].conn
         /\ \A s \in DOMAIN sessions : s # tracked[d] => sessions'[s] = sessions[s]
         /\ tracked[d] \notin {None, 0} => sessions'[tracked[d]].ended
         /\ tracked'[d] = None /\ \A e \in Devices \ {d} : tracked'[e] = tracked[e]
<1>0. /\ SessionsTyped
      /\ Len(sessions) \in Nat /\ DOMAIN sessions = 1..Len(sessions)
      /\ \A s \in DOMAIN sessions : sessions[s] \in Session
      /\ sessions \in Seq(Session) /\ tracked \in [Devices -> {None} \union 0..Len(sessions)]
  BY Lengths DEF BaseInv, SessionsTyped
<1>1. /\ protocol = "ssh" /\ call[c].pc = "idle"
      /\ sessions' = IF tracked[d] \in {None, 0} THEN sessions
                     ELSE [sessions EXCEPT ![tracked[d]] = [@ EXCEPT !.ended = TRUE]]
      /\ tracked' = [tracked EXCEPT ![d] = None]
  BY DEF Disconnect
<1>2. /\ tracked' \in [Devices -> {None} \union 0..Len(sessions)]
      /\ tracked'[d] = None /\ \A e \in Devices \ {d} : tracked'[e] = tracked[e]
  BY <1>0, <1>1
<1>3. CASE tracked[d] \in {None, 0}
  BY <1>0, <1>1, <1>2, <1>3 DEF SessionsTyped
<1>4. CASE tracked[d] \notin {None, 0}
  <2> DEFINE s == tracked[d]
             session == [sessions[s] EXCEPT !.ended = TRUE]
  <2>1. s \in DOMAIN sessions /\ sessions[s] \in Session
    BY <1>0, <1>4
  <2>2. /\ session \in Session /\ session.device = sessions[s].device
        /\ session.conn = sessions[s].conn /\ session.ended
    BY <2>1 DEF Session
  <2>3. sessions' = [sessions EXCEPT ![s] = session]
    BY <1>1, <1>4
  <2> HIDE DEF session
  <2>4. /\ sessions' \in Seq(Session) /\ Len(sessions') = Len(sessions)
        /\ DOMAIN sessions' = DOMAIN sessions /\ sessions'[s] = session
        /\ \A t \in DOMAIN sessions \ {s} : sessions'[t] = sessions[t]
    <3>1. sessions' \in Seq(Session) /\ Len(sessions') = Len(sessions)
      BY <1>0, <2>1, <2>2, <2>3, ExceptSeq
    <3> QED
      BY <1>0, <2>1, <2>3, <3>1
  <2> QED
    BY <1>1, <1>2, <1>4, <2>2, <2>4 DEF SessionsTyped
<1> QED
  BY <1>3, <1>4

LEMMA BaseByDisconnect ==
  ASSUME BaseInv, NEW c \in Callers, NEW d \in Devices, Disconnect(c, d)
  PROVE  BaseInv'
<1> DEFINE entry == Unlinked(d, Linking(d) = {})
<1>0. /\ ConnsTyped /\ SessionsTyped /\ HistoryTyped /\ RestTyped /\ HeldOwn /\ CallsGood
      /\ Len(conns) \in Nat /\ Len(sessions) \in Nat
  BY Lengths DEF BaseInv
<1>1. /\ settled' = settled \ {d} /\ commands < MaxCommands /\ commands' = commands + 1
      /\ UNCHANGED <<protocol, conns, stored, displaced, failures>>
      /\ call' = [Disturb(d) EXCEPT ![c] = entry]
  BY DEF Disconnect, Unlinked
<1>2. /\ protocol = "ssh" /\ SessionsTyped' /\ DOMAIN sessions' = DOMAIN sessions
      /\ Len(sessions') = Len(sessions)
      /\ \A s \in DOMAIN sessions : sessions'[s].device = sessions[s].device
      /\ tracked'[d] = None /\ \A e \in Devices \ {d} : tracked'[e] = tracked[e]
  BY DisconnectEffect
<1>3. HistoryTyped'
  BY <1>0, <1>1, <1>2 DEF HistoryTyped
<1>4. HeldOwn'
  BY <1>0, <1>1 DEF HeldOwn
<1>5. CallsGood'
  <2>1. entry \in Call /\ entry.pc = "close" /\ entry.device = d
    BY UnlinkedType
  <2> HIDE DEF entry
  <2>2. /\ UNCHANGED protocol /\ Len(conns') \in Nat /\ Len(sessions') \in Nat
        /\ Len(conns) <= Len(conns') /\ Len(sessions) <= Len(sessions')
        /\ Good(entry, Len(conns'), Len(sessions'), protocol)
    BY <1>0, <1>1, <1>2, <2>1 DEF Good, NetconfPoints
  <2> QED
    BY <1>1, <2>2, CallsStay
<1>6. ConnsTyped' /\ RestTyped' /\ PoolBounded'
  BY <1>0, <1>1, <1>2, ConnectionsBounds DEF ConnsTyped, RestTyped, PoolBounded
<1> QED
  BY <1>2, <1>3, <1>4, <1>5, <1>6 DEF BaseInv

(* What the adapter has for a device is closed and forgotten.               *)
Shut(d) ==
  /\ conns' = IF stored[d] = 0 THEN conns ELSE [conns EXCEPT ![stored[d]].open = FALSE]
  /\ stored' = [stored EXCEPT ![d] = 0]

LEMMA ConnUpdates ==
  ASSUME NEW conn \in Connection
  PROVE  /\ \A b \in BOOLEAN :
              /\ [conn EXCEPT !.open = b] \in Connection
              /\ [conn EXCEPT !.open = b].device = conn.device
              /\ [conn EXCEPT !.open = b].open = b
              /\ [conn EXCEPT !.open = b].dead = conn.dead
              /\ [conn EXCEPT !.open = b].split = conn.split
              /\ [conn EXCEPT !.open = b].stream = conn.stream
         /\ [conn EXCEPT !.dead = TRUE] \in Connection
         /\ [conn EXCEPT !.dead = TRUE].device = conn.device
         /\ [conn EXCEPT !.dead = TRUE].open = conn.open
         /\ [conn EXCEPT !.dead = TRUE].dead
         /\ \A q \in Seq(Nat) :
              /\ [conn EXCEPT !.stream = q] \in Connection
              /\ [conn EXCEPT !.stream = q].device = conn.device
              /\ [conn EXCEPT !.stream = q].open = conn.open
              /\ [conn EXCEPT !.stream = q].dead = conn.dead
              /\ [conn EXCEPT !.stream = q].split = conn.split
              /\ [conn EXCEPT !.stream = q].stream = q
BY DEF Connection

LEMMA ShutEffect ==
  ASSUME BaseInv, NEW d \in Devices, Shut(d)
  PROVE  /\ ConnsTyped'
         /\ \A e \in Devices : stored'[e] # 0 => conns'[stored'[e]].device = e
         /\ Len(conns') = Len(conns) /\ DOMAIN conns' = DOMAIN conns
         /\ \A n \in DOMAIN conns : conns'[n].device = conns[n].device
         /\ \A n \in DOMAIN conns : n # stored[d] => conns'[n] = conns[n]
         /\ stored[d] # 0 => ~conns'[stored[d]].open
         /\ stored'[d] = 0 /\ \A e \in Devices \ {d} : stored'[e] = stored[e]
<1>0. /\ ConnsTyped /\ HeldOwn /\ stored \in [Devices -> 0..Len(conns)]
      /\ DOMAIN conns = 1..Len(conns) /\ Len(conns) \in Nat
      /\ \A n \in DOMAIN conns : conns[n] \in Connection
  BY Lengths DEF BaseInv, ConnsTyped
<1>1. stored'[d] = 0 /\ \A e \in Devices \ {d} : stored'[e] = stored[e]
  BY <1>0 DEF Shut
<1>2. CASE stored[d] = 0
  <2>1. conns' = conns
    BY <1>2 DEF Shut
  <2>2. stored' = stored
    BY <1>0, <1>2 DEF Shut
  <2> QED
    BY <1>0, <1>1, <1>2, <2>1, <2>2 DEF ConnsTyped, HeldOwn
<1>3. CASE stored[d] # 0
  <2> DEFINE n == stored[d]
             conn == [conns[n] EXCEPT !.open = FALSE]
  <2>1. n \in DOMAIN conns
    BY <1>0, <1>3
  <2>2. conn \in Connection /\ conn.device = conns[n].device /\ ~conn.open
    BY <1>0, <2>1, ConnUpdates
  <2>3. conns' = [conns EXCEPT ![n] = conn] /\ stored' = [stored EXCEPT ![d] = 0]
    BY <1>3 DEF Shut
  <2> HIDE DEF conn
  <2>4. /\ ConnsTyped'
        /\ \A e \in Devices : stored'[e] # 0 => conns'[stored'[e]].device = e
    BY <1>0, <2>1, <2>2, <2>3, StoredSet
  <2>5. /\ Len(conns') = Len(conns) /\ DOMAIN conns' = DOMAIN conns
        /\ \A k \in DOMAIN conns \ {n} : conns'[k] = conns[k]
        /\ conns'[n] = conn
    BY <1>0, <2>1, <2>2, <2>3, ConnSet
  <2> QED
    BY <1>1, <2>2, <2>4, <2>5
<1> QED
  BY <1>2, <1>3

LEMMA BaseByShut ==
  ASSUME BaseInv, NEW d \in Devices, Shut(d), protocol = "ssh",
         UNCHANGED <<protocol, tracked, sessions, displaced>>,
         settled' \subseteq settled \union {d}, RestTyped', CallsGood'
  PROVE  BaseInv'
<1>1. /\ ConnsTyped'
      /\ \A e \in Devices : stored'[e] # 0 => conns'[stored'[e]].device = e
      /\ DOMAIN conns' = DOMAIN conns
  BY ShutEffect
<1> QED
  BY <1>1 DEF BaseInv, SessionsTyped, HistoryTyped, PoolBounded, HeldOwn

LEMMA BaseByClose ==
  ASSUME BaseInv, NEW c \in Callers, Close(c)
  PROVE  BaseInv'
<1> DEFINE d == call[c].device
<1>0. /\ CallsGood /\ RestTyped /\ Len(conns) \in Nat /\ Len(sessions) \in Nat
  BY Lengths DEF BaseInv
<1>1. /\ call[c].pc = "close" /\ Shut(d)
      /\ call' = [Disturb(d) EXCEPT ![c] = Idle]
      /\ settled' = IF call[c].alone THEN settled \union {d} ELSE settled
      /\ UNCHANGED <<protocol, tracked, sessions, displaced, commands, failures>>
  BY DEF Close, Shut
<1>2. d \in Devices /\ protocol = "ssh"
  <2>1. protocol \in {"ssh", "netconf"}
    BY <1>0, ConnectionsAssumption DEF RestTyped
  <2> QED
    BY <1>0, <1>1, <2>1, GoodEntry DEF Good, SshPoints
<1>3. Len(conns') = Len(conns)
  BY <1>1, <1>2, ShutEffect
<1>4. CallsGood'
  <2>1. /\ UNCHANGED protocol /\ Len(conns') \in Nat /\ Len(sessions') \in Nat
        /\ Len(conns) <= Len(conns') /\ Len(sessions) <= Len(sessions')
        /\ Good(Idle, Len(conns'), Len(sessions'), protocol)
    BY <1>0, <1>1, <1>3, IdleGood
  <2> QED
    BY <1>1, <2>1, CallsStay
<1>5. RestTyped'
  BY <1>0, <1>1 DEF RestTyped
<1> QED
  BY <1>1, <1>2, <1>4, <1>5, BaseByShut

LEMMA BaseByCleanup ==
  ASSUME BaseInv, NEW d \in Devices, CleanupIdle(d)
  PROVE  BaseInv'
<1>1. /\ protocol = "ssh" /\ Shut(d) /\ failures < MaxFailures /\ failures' = failures + 1
      /\ UNCHANGED <<protocol, tracked, sessions, displaced, settled, call, commands>>
  BY DEF CleanupIdle, Shut
<1>2. RestTyped'
  BY <1>1, ConnectionsBounds DEF BaseInv, RestTyped
<1>3. Len(conns') = Len(conns)
  BY <1>1, ShutEffect
<1>4. CallsGood'
  BY <1>1, <1>3 DEF BaseInv, CallsGood
<1> QED
  BY <1>1, <1>2, <1>4, BaseByShut

-----------------------------------------------------------------------------
(* The NETCONF adapter's actions                                            *)

LEMMA NetconfCalls ==
  ASSUME BaseInv, NEW c \in Callers, call[c].pc \in NetconfPoints
  PROVE  /\ protocol = "netconf" /\ call[c] \in Call /\ call[c].device \in Devices
         /\ call[c].pc # "dial" => call[c].conn \in DOMAIN conns
<1>1. protocol \in {"ssh", "netconf"} /\ CallsGood /\ DOMAIN conns = 1..Len(conns)
  BY ConnectionsAssumption, Lengths DEF BaseInv, RestTyped
<1> QED
  BY <1>1, GoodEntry DEF Good, NetconfPoints

LEMMA HoldType ==
  ASSUME NEW e \in Call, NEW n \in Nat
  PROVE  LET entry == [e EXCEPT !.pc = "hold", !.conn = n]
         IN  /\ entry \in Call /\ entry.pc = "hold" /\ entry.device = e.device
             /\ entry.conn = n
BY DEF Call

LEMMA OneMore ==
  ASSUME NEW S, NEW x, IsFiniteSet(S), Cardinality(S) \in Nat
  PROVE  IsFiniteSet(S \union {x}) /\ Cardinality(S \union {x}) <= Cardinality(S) + 1
BY FS_AddElement

(* The pool takes one more while it has room.                               *)
LEMMA PoolTakes ==
  ASSUME ConnsTyped, NEW d \in Devices, NEW n, Cardinality(InPool) < MaxSessions,
         stored' = [stored EXCEPT ![d] = n]
  PROVE  Cardinality(InPool') <= MaxSessions
<1>1. InPool' \subseteq InPool \union {d}
  BY DEF InPool, ConnsTyped
<1>2. IsFiniteSet(InPool) /\ Cardinality(InPool) \in Nat
  BY ConnectionsAssumption, FS_Subset, FS_CardinalityType DEF InPool
<1>3. /\ IsFiniteSet(InPool \union {d})
      /\ Cardinality(InPool \union {d}) <= Cardinality(InPool) + 1
  BY <1>2, OneMore
<1>4. /\ Cardinality(InPool') <= Cardinality(InPool \union {d})
      /\ Cardinality(InPool') \in Nat /\ Cardinality(InPool \union {d}) \in Nat
  BY <1>1, <1>3, FS_Subset, FS_CardinalityType
<1> QED
  BY <1>2, <1>3, <1>4, ConnectionsAssumption

LEMMA BaseByDial ==
  ASSUME BaseInv, NEW c \in Callers, NEW split \in BOOLEAN, Dial(c, split)
  PROVE  BaseInv'
<1> DEFINE d == call[c].device
           n == Len(conns) + 1
           conn == NewConnection(d, split)
           room == Cardinality(InPool) < MaxSessions
           over == IF room THEN Over(d) ELSE {n}
           entry == [call[c] EXCEPT !.pc = "hold", !.conn = n]
<1>0. /\ ConnsTyped /\ SessionsTyped /\ HistoryTyped /\ RestTyped /\ HeldOwn /\ PoolBounded
      /\ Len(conns) \in Nat /\ DOMAIN conns = 1..Len(conns) /\ Len(sessions) \in Nat
  BY Lengths DEF BaseInv
<1>1. /\ call[c].pc = "dial" /\ n <= MaxConnections
      /\ conns' = Append(conns, conn)
      /\ stored' = IF room THEN [stored EXCEPT ![d] = n] ELSE stored
      /\ displaced' = [displaced EXCEPT !.conns = @ \union over]
      /\ call' = [call EXCEPT ![c] = entry]
      /\ UNCHANGED <<protocol, tracked, sessions, settled, commands, failures>>
  BY DEF Dial, InPool
<1>2. protocol = "netconf" /\ call[c] \in Call /\ d \in Devices
  BY <1>1, NetconfCalls DEF NetconfPoints
<1>3. conn \in Connection /\ conn.device = d /\ Len(conns) < MaxConnections
  BY <1>0, <1>1, <1>2, NewType, ConnectionsBounds
<1> HIDE DEF conn
<1>4. /\ ConnsTyped'
      /\ \A e \in Devices : stored'[e] # 0 => conns'[stored'[e]].device = e
  BY <1>0, <1>1, <1>2, <1>3, StoredNew
<1>5. Len(conns') = n /\ DOMAIN conns' = DOMAIN conns \union {n}
  BY <1>0, <1>1, <1>3, ConnAdded
<1>6. HistoryTyped'
  <2>1. Over(d) \subseteq DOMAIN conns
    BY <1>0, <1>2 DEF Over, ConnsTyped
  <2>2. displaced.conns \union over \subseteq DOMAIN conns'
    BY <1>0, <1>5, <2>1 DEF HistoryTyped
  <2> HIDE DEF over
  <2>3. displaced' \in [conns : SUBSET DOMAIN conns', sessions : SUBSET DOMAIN sessions]
    BY <1>0, <1>1, <2>2, DisplacedConns
  <2> QED
    BY <1>0, <1>1, <2>3 DEF HistoryTyped
<1>7. PoolBounded'
  <2>1. CASE room
    BY <1>0, <1>1, <1>2, <2>1, PoolTakes DEF PoolBounded
  <2>2. CASE ~room
    BY <1>0, <1>1, <2>2 DEF PoolBounded, InPool
  <2> QED
    BY <2>1, <2>2
<1>8. CallsGood'
  <2>1. /\ entry \in Call /\ entry.pc = "hold" /\ entry.device = d /\ entry.conn = n
    <3>1. n \in Nat
      BY <1>0
    <3> QED
      BY <1>2, <3>1, HoldType
  <2> HIDE DEF entry
  <2>2. /\ UNCHANGED protocol /\ Len(conns') \in Nat /\ Len(sessions') \in Nat
        /\ Len(conns) <= Len(conns') /\ Len(sessions) <= Len(sessions')
        /\ n \in 1..n
    BY <1>0, <1>1, <1>5
  <2>3. Good(entry, Len(conns'), Len(sessions'), protocol)
    BY <1>1, <1>2, <1>5, <2>1, <2>2 DEF Good, SshPoints
  <2> QED
    BY <1>1, <2>2, <2>3, CallsStay
<1>9. SessionsTyped' /\ HeldOwn' /\ RestTyped'
  BY <1>0, <1>1, <1>4 DEF SessionsTyped, HeldOwn, RestTyped
<1> QED
  BY <1>4, <1>6, <1>7, <1>8, <1>9 DEF BaseInv

(* A connection is changed, and stays where it is.                          *)
LEMMA BaseByConn ==
  ASSUME BaseInv, NEW n \in DOMAIN conns, NEW conn \in Connection,
         conn.device = conns[n].device, conns' = [conns EXCEPT ![n] = conn],
         UNCHANGED <<protocol, stored, tracked, sessions, displaced, settled>>,
         RestTyped', call' = call \/ CallsGood'
  PROVE  BaseInv'
<1>0. ConnsTyped /\ HeldOwn
  BY DEF BaseInv
<1>1. /\ ConnsTyped'
      /\ \A e \in Devices : stored'[e] # 0 => conns'[stored'[e]].device = e
      /\ DOMAIN conns' = DOMAIN conns /\ Len(conns') = Len(conns)
  BY <1>0, StoredSet, ConnSet
<1>2. CallsGood'
  BY <1>1 DEF BaseInv, CallsGood
<1>3. PoolBounded'
  BY DEF BaseInv, PoolBounded, InPool
<1> QED
  BY <1>1, <1>2, <1>3 DEF BaseInv, SessionsTyped, HistoryTyped, HeldOwn

LEMMA SendEffect ==
  ASSUME BaseInv, NEW c \in Callers, Send(c)
  PROVE  LET n == call[c].conn
         IN  /\ BaseInv'
             /\ n \in DOMAIN conns /\ DOMAIN conns' = DOMAIN conns
             /\ \A k \in DOMAIN conns \ {n} : conns'[k] = conns[k]
             /\ conns'[n].device = conns[n].device
             /\ conns'[n].open = conns[n].open /\ conns'[n].dead = conns[n].dead
             /\ conns'[n].split = conns[n].split
             /\ conns'[n].stream = Append(conns[n].stream, commands')
             /\ call'[c].pc = "await" /\ call'[c].conn = n /\ call'[c].request = commands'
             /\ \A o \in Callers \ {c} : call'[o] = call[o]
<1> DEFINE n == call[c].conn
           q == Append(conns[n].stream, commands')
           conn == [conns[n] EXCEPT !.stream = q]
           entry == [call[c] EXCEPT !.pc = "await", !.request = commands']
<1>0. /\ CallsGood /\ RestTyped /\ DOMAIN conns = 1..Len(conns)
      /\ \A k \in DOMAIN conns : conns[k] \in Connection
  BY Lengths DEF BaseInv
<1>1. /\ call[c].pc = "hold" /\ commands < MaxCommands /\ commands' = commands + 1
      /\ conns' = [conns EXCEPT ![n] = conn]
      /\ call' = [call EXCEPT ![c] = entry]
      /\ UNCHANGED <<protocol, stored, tracked, sessions, displaced, settled, failures>>
  BY DEF Send
<1>2. RestTyped' /\ commands' \in Nat
  BY <1>0, <1>1, ConnectionsBounds DEF RestTyped
<1>3. /\ call[c] \in Call /\ call[c].device \in Devices /\ n \in DOMAIN conns
      /\ protocol = "netconf"
  BY <1>1, NetconfCalls DEF NetconfPoints
<1>4. q \in Seq(Nat)
  <2>1. conns[n].stream \in Seq(Nat)
    BY <1>0, <1>3 DEF Connection
  <2> QED
    BY <1>2, <2>1
<1> HIDE DEF q
<1>5. /\ conn \in Connection /\ conn.device = conns[n].device
      /\ conn.open = conns[n].open /\ conn.dead = conns[n].dead
      /\ conn.split = conns[n].split /\ conn.stream = q
  <2>1. conns[n] \in Connection
    BY <1>0, <1>3
  <2> QED
    BY <1>4, <2>1 DEF Connection
<1>6. /\ entry \in Call /\ entry.pc = "await" /\ entry.device \in Devices /\ entry.conn = n
      /\ entry.request = commands'
  BY <1>2, <1>3 DEF Call
<1>7. Good(entry, Len(conns), Len(sessions), protocol)
  BY <1>0, <1>3, <1>6 DEF Good, SshPoints
<1> HIDE DEF conn, entry
<1>8. call'[c] = entry /\ \A o \in Callers \ {c} : call'[o] = call[o]
  BY <1>0, <1>1, CallMoves
<1>9. /\ DOMAIN conns' = DOMAIN conns /\ Len(conns') = Len(conns)
      /\ \A k \in DOMAIN conns \ {n} : conns'[k] = conns[k]
      /\ conns'[n] = conn
  BY <1>1, <1>3, <1>5, ConnSet DEF BaseInv
<1>10. CallsGood'
  <2>1. call' \in [Callers -> Call]
    BY <1>0, <1>1, <1>6 DEF CallsGood
  <2> QED
    BY <1>0, <1>1, <1>7, <1>8, <1>9, <2>1 DEF CallsGood
<1>11. BaseInv'
  BY <1>1, <1>2, <1>3, <1>5, <1>10, BaseByConn
<1> QED
  BY <1>3, <1>5, <1>6, <1>8, <1>9, <1>11 DEF q

(* What is read is taken from the stream; a reply is the first of it.       *)
LEMMA ReadEffect ==
  ASSUME BaseInv, NEW c \in Callers, NEW k, Read(c, k)
  PROVE  LET n   == call[c].conn
             got == conns[n].stream
         IN  /\ BaseInv'
             /\ call[c].pc = "await" /\ n \in DOMAIN conns
             /\ k \in 0..Len(got) /\ (conns[n].open /\ ~conns[n].dead => k # 0)
             /\ DOMAIN conns' = DOMAIN conns
             /\ \A o \in DOMAIN conns \ {n} : conns'[o] = conns[o]
             /\ conns'[n].device = conns[n].device
             /\ conns'[n].open = conns[n].open /\ conns'[n].dead = conns[n].dead
             /\ conns'[n].split = conns[n].split
             /\ conns'[n].stream = SubSeq(got, k + 1, Len(got))
             /\ call'[c].pc = "told" /\ call'[c].conn = n
             /\ call'[c].request = call[c].request
             /\ k # 0 => call'[c].reply = got[1]
             /\ \A o \in Callers \ {c} : call'[o] = call[o]
<1> DEFINE n == call[c].conn
           got == conns[n].stream
           q == SubSeq(got, k + 1, Len(got))
           conn == [conns[n] EXCEPT !.stream = q]
           reply == IF k = 0 THEN 0 ELSE got[1]
           entry == [call[c] EXCEPT !.pc = "told", !.reply = reply]
<1>0. /\ CallsGood /\ RestTyped /\ DOMAIN conns = 1..Len(conns)
      /\ \A o \in DOMAIN conns : conns[o] \in Connection
  BY Lengths DEF BaseInv
<1>1. /\ call[c].pc = "await" /\ k \in 0..Len(got)
      /\ conns[n].open /\ ~conns[n].dead => k # 0
      /\ conns' = [conns EXCEPT ![n] = conn]
      /\ call' = [call EXCEPT ![c] = entry]
      /\ UNCHANGED <<protocol, stored, tracked, sessions, displaced, settled, commands, failures>>
  BY DEF Read
<1>2. RestTyped'
  BY <1>0, <1>1 DEF RestTyped
<1>3. /\ call[c] \in Call /\ call[c].device \in Devices /\ n \in DOMAIN conns
      /\ protocol = "netconf"
  BY <1>1, NetconfCalls DEF NetconfPoints
<1>4. got \in Seq(Nat) /\ q \in Seq(Nat) /\ reply \in Nat
  <2>1. got \in Seq(Nat)
    BY <1>0, <1>3 DEF Connection
  <2>2. k \in Nat /\ k <= Len(got) /\ Len(got) \in Nat
    BY <1>1, <2>1
  <2> HIDE DEF got
  <2>3. q \in Seq(Nat)
    BY <2>1, <2>2, SubSeqProperties
  <2> QED
    BY <2>1, <2>2, <2>3
<1> HIDE DEF q, reply
<1>5. /\ conn \in Connection /\ conn.device = conns[n].device
      /\ conn.open = conns[n].open /\ conn.dead = conns[n].dead
      /\ conn.split = conns[n].split /\ conn.stream = q
  <2>1. conns[n] \in Connection
    BY <1>0, <1>3
  <2> QED
    BY <1>4, <2>1 DEF Connection
<1>6. /\ entry \in Call /\ entry.pc = "told" /\ entry.device \in Devices /\ entry.conn = n
      /\ entry.request = call[c].request /\ entry.reply = reply
  BY <1>3, <1>4 DEF Call
<1>7. Good(entry, Len(conns), Len(sessions), protocol)
  BY <1>0, <1>3, <1>6 DEF Good, SshPoints
<1> HIDE DEF conn, entry
<1>8. call'[c] = entry /\ \A o \in Callers \ {c} : call'[o] = call[o]
  BY <1>0, <1>1, CallMoves
<1>9. /\ DOMAIN conns' = DOMAIN conns /\ Len(conns') = Len(conns)
      /\ \A o \in DOMAIN conns \ {n} : conns'[o] = conns[o]
      /\ conns'[n] = conn
  BY <1>1, <1>3, <1>5, ConnSet DEF BaseInv
<1>10. CallsGood'
  <2>1. call' \in [Callers -> Call]
    BY <1>0, <1>1, <1>6 DEF CallsGood
  <2> QED
    BY <1>0, <1>1, <1>7, <1>8, <1>9, <2>1 DEF CallsGood
<1>11. BaseInv'
  BY <1>1, <1>2, <1>3, <1>5, <1>10, BaseByConn
<1> QED
  BY <1>1, <1>3, <1>5, <1>6, <1>8, <1>9, <1>11 DEF q, reply

(* A broken connection is only that.                                        *)
LEMMA BreakEffect ==
  ASSUME BaseInv, NEW n \in DOMAIN conns, Break(n)
  PROVE  /\ BaseInv'
         /\ DOMAIN conns' = DOMAIN conns
         /\ \A k \in DOMAIN conns \ {n} : conns'[k] = conns[k]
         /\ conns'[n].dead /\ conns'[n].open = conns[n].open
         /\ conns'[n].device = conns[n].device
         /\ UNCHANGED <<protocol, stored, tracked, sessions, displaced, settled, call>>
<1> DEFINE conn == [conns[n] EXCEPT !.dead = TRUE]
<1>1. /\ conns' = [conns EXCEPT ![n] = conn]
      /\ failures < MaxFailures /\ failures' = failures + 1
      /\ UNCHANGED <<protocol, stored, tracked, sessions, displaced, settled, call, commands>>
  BY DEF Break
<1>2. conn \in Connection /\ conn.device = conns[n].device /\ conn.dead
      /\ conn.open = conns[n].open
  <2>1. conns[n] \in Connection
    BY Lengths DEF BaseInv
  <2> QED
    BY <2>1 DEF Connection
<1> HIDE DEF conn
<1>3. RestTyped'
  BY <1>1, ConnectionsBounds DEF BaseInv, RestTyped
<1>4. BaseInv'
  BY <1>1, <1>2, <1>3, BaseByConn
<1>5. /\ DOMAIN conns' = DOMAIN conns
      /\ \A k \in DOMAIN conns \ {n} : conns'[k] = conns[k]
      /\ conns'[n] = conn
  BY <1>1, <1>2, ConnSet DEF BaseInv
<1> QED
  BY <1>1, <1>2, <1>4, <1>5

LEMMA CloseAllEffect ==
  ASSUME BaseInv, CloseAll
  PROVE  /\ BaseInv'
         /\ DOMAIN conns' = DOMAIN conns
         /\ \A n \in DOMAIN conns : conns'[n].device = conns[n].device
         /\ \A n \in DOMAIN conns : conns'[n].split = conns[n].split
         /\ \A n \in DOMAIN conns : conns'[n].dead = conns[n].dead
         /\ \A n \in DOMAIN conns : conns'[n].stream = conns[n].stream
         /\ \A n \in DOMAIN conns :
              conns'[n].open <=> conns[n].open /\ \A d \in Devices : stored[d] # n
         /\ \A d \in Devices : stored'[d] = 0
         /\ UNCHANGED <<protocol, tracked, sessions, displaced, settled, call>>
<1> DEFINE kept(n) == conns[n].open /\ \A d \in Devices : stored[d] # n
           conn(n) == [conns[n] EXCEPT !.open = kept(n)]
<1>0. /\ ConnsTyped /\ SessionsTyped /\ HistoryTyped /\ RestTyped /\ HeldOwn /\ CallsGood
      /\ Len(conns) \in Nat /\ DOMAIN conns = 1..Len(conns)
      /\ Len(conns) <= MaxConnections
      /\ \A n \in DOMAIN conns : conns[n] \in Connection
  BY Lengths DEF BaseInv, ConnsTyped
<1>1. /\ conns' = [n \in DOMAIN conns |-> conn(n)]
      /\ stored' = [d \in Devices |-> 0]
      /\ failures < MaxFailures /\ failures' = failures + 1
      /\ UNCHANGED <<protocol, tracked, sessions, displaced, settled, call, commands>>
  BY DEF CloseAll
<1>2. \A n \in DOMAIN conns : kept(n) \in BOOLEAN
  BY <1>0 DEF Connection
<1> HIDE DEF kept
<1>3. ASSUME NEW n \in DOMAIN conns
      PROVE  /\ conn(n) \in Connection /\ conn(n).device = conns[n].device
             /\ conn(n).split = conns[n].split /\ conn(n).dead = conns[n].dead
             /\ conn(n).stream = conns[n].stream /\ conn(n).open = kept(n)
  <2>1. conns[n] \in Connection /\ kept(n) \in BOOLEAN
    BY <1>0, <1>2
  <2> QED
    BY <2>1 DEF Connection
<1> HIDE DEF conn
<1>4. /\ DOMAIN conns' = DOMAIN conns
      /\ \A n \in DOMAIN conns : conns'[n] = conn(n)
  BY <1>1
<1>5. conns' \in Seq(Connection) /\ Len(conns') = Len(conns)
  <2>1. conns' \in [1..Len(conns) -> Connection]
    BY <1>0, <1>1, <1>3
  <2> QED
    BY <1>0, <2>1
<1>6. stored' \in [Devices -> 0..Len(conns')] /\ \A d \in Devices : stored'[d] = 0
  BY <1>0, <1>1, <1>5
<1>7. ConnsTyped' /\ SessionsTyped' /\ HistoryTyped' /\ HeldOwn' /\ CallsGood'
  BY <1>0, <1>1, <1>4, <1>5, <1>6
     DEF ConnsTyped, SessionsTyped, HistoryTyped, HeldOwn, CallsGood
<1>8. RestTyped'
  BY <1>0, <1>1, ConnectionsBounds DEF RestTyped
<1>9. PoolBounded'
  <2>1. InPool' = {}
    BY <1>6 DEF InPool
  <2> QED
    BY <2>1, FS_EmptySet, ConnectionsAssumption DEF PoolBounded
<1> QED
  BY <1>1, <1>3, <1>4, <1>6, <1>7, <1>8, <1>9 DEF BaseInv, kept

-----------------------------------------------------------------------------
(* The steps that leave the tables                                          *)

(* Where they go.                                                           *)
Running(d) == [Idle EXCEPT !.pc = "run", !.device = d, !.conn = stored[d],
                           !.alone = d \in settled]
Looked(d) == IF stored[d] = 0 THEN [Idle EXCEPT !.pc = "dial", !.device = d]
             ELSE [Idle EXCEPT !.pc = "hold", !.device = d, !.conn = stored[d]]
Again(c) == [call[c] EXCEPT !.pc = "hold", !.request = 0, !.reply = 0]
Goes(c, pc) == [call[c] EXCEPT !.pc = pc]
Found(c) == [call[c] EXCEPT !.pc = "record", !.session = tracked[call[c].device]]

LEMMA RunningType ==
  ASSUME BaseInv, NEW d \in Devices, stored[d] # 0
  PROVE  LET entry == Running(d)
         IN  /\ entry \in Call /\ entry.pc = "run" /\ entry.device = d
             /\ entry.conn = stored[d] /\ entry.conn \in DOMAIN conns
             /\ entry.alone <=> d \in settled
<1>1. stored[d] \in Nat /\ stored[d] \in DOMAIN conns
  BY Lengths DEF BaseInv, ConnsTyped
<1>2. (d \in settled) \in BOOLEAN
  OBVIOUS
<1> QED
  BY <1>1, <1>2 DEF Running, Idle, Call

LEMMA LookedType ==
  ASSUME BaseInv, NEW d \in Devices
  PROVE  LET entry == Looked(d)
         IN  /\ entry \in Call /\ entry.pc \in {"dial", "hold"} /\ entry.device = d
             /\ entry.pc = "hold" => entry.conn \in DOMAIN conns
<1>1. stored[d] \in Nat /\ (stored[d] # 0 => stored[d] \in DOMAIN conns)
  BY Lengths DEF BaseInv, ConnsTyped
<1> QED
  BY <1>1 DEF Looked, Idle, Call

LEMMA AgainType ==
  ASSUME NEW c, call[c] \in Call
  PROVE  LET entry == Again(c)
         IN  /\ entry \in Call /\ entry.pc = "hold" /\ entry.device = call[c].device
             /\ entry.conn = call[c].conn
BY DEF Again, Call

LEMMA GoesType ==
  ASSUME NEW c, call[c] \in Call, NEW pc \in {"wait", "find"}
  PROVE  LET entry == Goes(c, pc)
         IN  /\ entry \in Call /\ entry.pc = pc /\ entry.device = call[c].device
             /\ entry.conn = call[c].conn /\ entry.alone = call[c].alone
BY DEF Goes, Call

(* A command begins, and its result comes.                                  *)
LEMMA GoesOn ==
  ASSUME NEW c, NEW failed, Begin(c, failed) \/ Finish(c, failed)
  PROVE  \E pc \in {"wait", "find"} :
           /\ call[c].pc \in {"run", "wait"}
           /\ call' = [call EXCEPT ![c] = Idle] \/ call' = [call EXCEPT ![c] = Goes(c, pc)]
<1>1. CASE Begin(c, failed)
  <2>1. /\ call[c].pc = "run"
        /\ call' = [call EXCEPT ![c] = Idle] \/ call' = [call EXCEPT ![c] = Goes(c, "wait")]
    BY <1>1 DEF Begin, Goes
  <2> QED
    BY <2>1
<1>2. CASE Finish(c, failed)
  <2>1. /\ call[c].pc = "wait"
        /\ call' = [call EXCEPT ![c] = Idle] \/ call' = [call EXCEPT ![c] = Goes(c, "find")]
    BY <1>2 DEF Finish, Goes
  <2> QED
    BY <2>1
<1> QED
  BY <1>1, <1>2

LEMMA FoundType ==
  ASSUME NEW c, call[c] \in Call, tracked[call[c].device] \in Nat
  PROVE  LET entry == Found(c)
         IN  /\ entry \in Call /\ entry.pc = "record" /\ entry.device = call[c].device
             /\ entry.conn = call[c].conn /\ entry.alone = call[c].alone
             /\ entry.session = tracked[call[c].device]
BY DEF Found, Call

(* Which they are.                                                          *)
Passing(c) ==
  \/ \E d \in Devices : Run(c, d)
  \/ \E failed \in BOOLEAN : Begin(c, failed) \/ Finish(c, failed)
  \/ Find(c)
  \/ Record(c)
  \/ \E d \in Devices : LookPool(c, d)
  \/ NoDial(c)
  \/ \E again \in BOOLEAN : Leave(c, again)

LEMMA LeavingPasses ==
  ASSUME BaseInv, NEW c \in Callers, call' = [call EXCEPT ![c] = Idle],
         UNCHANGED <<protocol, tables, failures>>
  PROVE  Passes(c, Idle)
BY IdleGood DEF Passes

LEMMA PassingSteps ==
  ASSUME BaseInv, NEW c \in Callers, Passing(c)
  PROVE  RestTyped' /\ \E entry : Passes(c, entry)
<1>0. /\ CallsGood /\ RestTyped /\ DOMAIN conns = 1..Len(conns)
      /\ DOMAIN sessions = 1..Len(sessions) /\ protocol \in {"ssh", "netconf"}
  BY Lengths, ConnectionsAssumption DEF BaseInv, RestTyped
<1>1. ASSUME NEW d \in Devices, Run(c, d)
      PROVE  RestTyped' /\ \E entry : Passes(c, entry)
  <2>1. /\ protocol = "ssh" /\ commands < MaxCommands /\ stored[d] # 0
        /\ call' = [call EXCEPT ![c] = Running(d)]
        /\ commands' = commands + 1 /\ UNCHANGED <<protocol, tables, failures>>
    BY <1>1 DEF Run, Running
  <2>2. /\ Running(d) \in Call /\ Running(d).pc = "run" /\ Running(d).device = d
        /\ Running(d).conn \in DOMAIN conns
    BY <2>1, RunningType
  <2>3. Good(Running(d), Len(conns), Len(sessions), protocol)
    BY <1>0, <2>1, <2>2 DEF Good, NetconfPoints
  <2>4. RestTyped'
    BY <1>0, <2>1, ConnectionsBounds DEF RestTyped
  <2> QED
    BY <2>1, <2>3, <2>4 DEF Passes
<1>2. CASE (\E failed \in BOOLEAN : Begin(c, failed) \/ Finish(c, failed)) \/ Find(c) \/ Record(c)
           \/ (\E d \in Devices : LookPool(c, d)) \/ NoDial(c)
           \/ \E again \in BOOLEAN : Leave(c, again)
  <2>1. /\ UNCHANGED <<protocol, tables, failures>> /\ commands' = commands
    BY <1>2 DEF Begin, Finish, Find, Record, LookPool, NoDial, Leave
  <2>2. RestTyped'
    BY <1>0, <2>1 DEF RestTyped, tables
  <2>3. ASSUME call' = [call EXCEPT ![c] = Idle] PROVE \E entry : Passes(c, entry)
    BY <2>1, <2>3, LeavingPasses
  <2>4. ASSUME NEW failed \in BOOLEAN, Begin(c, failed) \/ Finish(c, failed)
        PROVE  \E entry : Passes(c, entry)
    <3>1. PICK pc \in {"wait", "find"} :
            /\ call[c].pc \in {"run", "wait"}
            /\ call' = [call EXCEPT ![c] = Idle] \/ call' = [call EXCEPT ![c] = Goes(c, pc)]
      BY <2>4, GoesOn
    <3>2. CASE call' = [call EXCEPT ![c] = Idle]
      BY <2>3, <3>2
    <3>3. CASE call' = [call EXCEPT ![c] = Goes(c, pc)]
      <4>1. /\ protocol = "ssh" /\ call[c] \in Call /\ call[c].device \in Devices
            /\ call[c].conn \in DOMAIN conns
        BY <3>1, SshCalls DEF SshPoints
      <4>2. /\ Goes(c, pc) \in Call /\ Goes(c, pc).pc = pc
            /\ Goes(c, pc).device = call[c].device /\ Goes(c, pc).conn = call[c].conn
        BY <4>1, GoesType
      <4>3. Good(Goes(c, pc), Len(conns), Len(sessions), protocol)
        BY <1>0, <4>1, <4>2 DEF Good, NetconfPoints
      <4> QED
        BY <2>1, <3>3, <4>3 DEF Passes
    <3> QED
      BY <3>1, <3>2, <3>3
  <2>5. ASSUME Find(c) PROVE \E entry : Passes(c, entry)
    <3> DEFINE d == call[c].device
    <3>1. CASE tracked[d] \in {None, 0}
      BY <2>1, <2>5, <3>1, LeavingPasses DEF Find
    <3>2. CASE tracked[d] \notin {None, 0}
      <4>1. call[c].pc = "find" /\ call' = [call EXCEPT ![c] = Found(c)]
        BY <2>5, <3>2 DEF Find, Found
      <4>2. /\ protocol = "ssh" /\ call[c] \in Call /\ d \in Devices
            /\ call[c].conn \in DOMAIN conns
        BY <4>1, SshCalls DEF SshPoints
      <4>3. tracked[d] \in DOMAIN sessions /\ tracked[d] \in Nat
        BY <3>2, <4>2, Lengths DEF BaseInv, SessionsTyped
      <4>4. /\ Found(c) \in Call /\ Found(c).pc = "record"
            /\ Found(c).device = d /\ Found(c).conn = call[c].conn
            /\ Found(c).session = tracked[d]
        BY <4>2, <4>3, FoundType
      <4>5. Good(Found(c), Len(conns), Len(sessions), protocol)
        BY <1>0, <4>2, <4>3, <4>4 DEF Good, NetconfPoints
      <4> QED
        BY <2>1, <4>1, <4>5 DEF Passes
    <3> QED
      BY <3>1, <3>2
  <2>6. ASSUME NEW d \in Devices, LookPool(c, d) PROVE \E entry : Passes(c, entry)
    <3>1. protocol = "netconf" /\ call' = [call EXCEPT ![c] = Looked(d)]
      BY <2>6 DEF LookPool, Looked
    <3>2. /\ Looked(d) \in Call /\ Looked(d).pc \in {"dial", "hold"} /\ Looked(d).device = d
          /\ Looked(d).pc = "hold" => Looked(d).conn \in DOMAIN conns
      BY LookedType
    <3>3. Good(Looked(d), Len(conns), Len(sessions), protocol)
      BY <1>0, <3>1, <3>2 DEF Good, SshPoints
    <3> QED
      BY <2>1, <3>1, <3>3 DEF Passes
  <2>7. ASSUME NEW again \in BOOLEAN, Leave(c, again) PROVE \E entry : Passes(c, entry)
    <3>1. CASE ~again
      BY <2>1, <2>7, <3>1, LeavingPasses DEF Leave
    <3>2. CASE again
      <4>1. call[c].pc = "told" /\ call' = [call EXCEPT ![c] = Again(c)]
        BY <2>7, <3>2 DEF Leave, Again
      <4>2. /\ protocol = "netconf" /\ call[c] \in Call /\ call[c].device \in Devices
            /\ call[c].conn \in DOMAIN conns
        BY <4>1, NetconfCalls DEF NetconfPoints
      <4>3. /\ Again(c) \in Call /\ Again(c).pc = "hold"
            /\ Again(c).device = call[c].device /\ Again(c).conn = call[c].conn
        BY <4>2, AgainType
      <4>4. Good(Again(c), Len(conns), Len(sessions), protocol)
        BY <1>0, <4>2, <4>3 DEF Good, SshPoints
      <4> QED
        BY <2>1, <4>1, <4>4 DEF Passes
    <3> QED
      BY <3>1, <3>2
  <2>8. Record(c) \/ NoDial(c) => call' = [call EXCEPT ![c] = Idle]
    BY DEF Record, NoDial
  <2> QED
    BY <1>2, <2>2, <2>3, <2>4, <2>5, <2>6, <2>7, <2>8
<1> QED
  BY <1>1, <1>2 DEF Passing

LEMMA BaseByPassing ==
  ASSUME BaseInv, NEW c \in Callers, Passing(c)
  PROVE  BaseInv'
BY PassingSteps, BaseByPasses

(* A step, by what it changes.                                              *)
LEMMA Steps ==
  ASSUME [Next]_vars
  PROVE  \/ \E c \in Callers : Passing(c)
         \/ \E c \in Callers : \E d \in Devices : Connect(c, d)
         \/ \E c \in Callers : \E recorded \in BOOLEAN : StartSession(c, recorded)
         \/ \E c \in Callers : Track(c)
         \/ \E c \in Callers : \E d \in Devices : Disconnect(c, d)
         \/ \E c \in Callers : Close(c)
         \/ \E d \in Devices : CleanupIdle(d)
         \/ \E c \in Callers : \E split \in BOOLEAN : Dial(c, split)
         \/ \E c \in Callers : Send(c)
         \/ \E c \in Callers : \E k : Read(c, k)
         \/ CloseAll
         \/ \E n \in DOMAIN conns : Break(n)
         \/ UNCHANGED vars
<1>1. CASE Next
  <2>1. ASSUME NEW c \in Callers, SshCall(c)
        PROVE  \/ Passing(c)
               \/ \E d \in Devices : Connect(c, d)
               \/ \E recorded \in BOOLEAN : StartSession(c, recorded)
               \/ Track(c)
               \/ \E d \in Devices : Disconnect(c, d)
               \/ Close(c)
    BY <2>1, Zenon DEF SshCall, Passing
  <2>2. ASSUME NEW c \in Callers, NetconfCall(c)
        PROVE  \/ Passing(c)
               \/ \E split \in BOOLEAN : Dial(c, split)
               \/ Send(c)
               \/ \E k : Read(c, k)
    BY <2>2, Zenon DEF NetconfCall, Passing
  <2> QED
    BY <1>1, <2>1, <2>2, Zenon DEF Next
<1> QED
  BY <1>1

LEMMA BaseInit == Init => BaseInv
<1> SUFFICES ASSUME Init PROVE BaseInv
  OBVIOUS
<1>1. /\ conns = <<>> /\ sessions = <<>> /\ protocol \in Protocols
      /\ stored = [d \in Devices |-> 0] /\ tracked = [d \in Devices |-> None]
      /\ call = [c \in Callers |-> Idle]
      /\ displaced = [conns |-> {}, sessions |-> {}] /\ settled = {}
      /\ commands = 0 /\ failures = 0
  BY DEF Init
<1>2. /\ conns \in Seq(Connection) /\ Len(conns) = 0
      /\ sessions \in Seq(Session) /\ Len(sessions) = 0
  BY <1>1
<1>3. ConnsTyped /\ SessionsTyped
  BY <1>1, <1>2, ConnectionsBounds DEF ConnsTyped, SessionsTyped
<1>4. HistoryTyped /\ HeldOwn
  BY <1>1 DEF HistoryTyped, HeldOwn
<1>5. RestTyped
  BY <1>1, ConnectionsBounds DEF RestTyped
<1>6. PoolBounded
  <2>1. InPool = {}
    BY <1>1 DEF InPool
  <2> QED
    BY <2>1, FS_EmptySet, ConnectionsAssumption DEF PoolBounded
<1>7. CallsGood
  BY <1>1, IdleType, IdleGood DEF CallsGood
<1> QED
  BY <1>3, <1>4, <1>5, <1>6, <1>7 DEF BaseInv

LEMMA BaseStep == BaseInv /\ [Next]_vars => BaseInv'
<1> SUFFICES ASSUME BaseInv, [Next]_vars PROVE BaseInv'
  OBVIOUS
<1>1. ASSUME UNCHANGED vars PROVE BaseInv'
  BY <1>1 DEF vars, tables, BaseInv, ConnsTyped, SessionsTyped, HistoryTyped, RestTyped,
     PoolBounded, InPool, HeldOwn, CallsGood
<1> QED
  BY <1>1, Steps, BaseByPassing, BaseByConnect, BaseByStart, BaseByTrack, BaseByDisconnect, BaseByClose,
     BaseByCleanup, BaseByDial, SendEffect, ReadEffect, CloseAllEffect, BreakEffect

LEMMA SpecBase == Spec => []BaseInv
BY BaseInit, BaseStep, PTL DEF Spec

(* The tables and the calls keep to their types, and the pool to its limit. *)
THEOREM ConnectionsTyped == Spec => []TypeOK
BY SpecBase, BaseTypes, PTL

-----------------------------------------------------------------------------
(* Sessions                                                                 *)

LEMMA PassingGoes ==
  ASSUME BaseInv, NEW c \in Callers, Passing(c)
  PROVE  /\ call[c].pc \notin {"track", "enter", "close", "await"}
         /\ call'[c].pc \in {"idle", "run", "wait", "find", "record", "dial", "hold"}
         /\ \A o \in Callers \ {c} : call'[o] = call[o]
<1>0. CallsGood /\ call[c] \in Call
  BY GoodEntry DEF BaseInv
<1>1. \A o \in Callers \ {c} : call'[o] = call[o]
  BY <1>0, PassingSteps, CallMoves DEF Passes
<1>2. call[c].pc \notin {"track", "enter", "close", "await"}
  BY DEF Passing, Run, Begin, Finish, Find, Record, LookPool, NoDial, Leave
<1>3. call'[c].pc \in {"idle", "run", "wait", "find", "record", "dial", "hold"}
  <2>1. call' \in [Callers -> Call] /\ Idle.pc = "idle"
    BY BaseByPassing, IdleType DEF BaseInv, CallsGood
  <2>2. ASSUME NEW entry, call' = [call EXCEPT ![c] = entry] PROVE call'[c] = entry
    BY <1>0, <2>2, CallMoves
  <2>3. ASSUME NEW d \in Devices, Run(c, d) PROVE call'[c].pc = "run"
    BY <2>2, <2>3, RunningType DEF Run, Running
  <2>4. ASSUME NEW failed \in BOOLEAN, Begin(c, failed) \/ Finish(c, failed)
        PROVE  call'[c].pc \in {"idle", "wait", "find"}
    <3>1. PICK pc \in {"wait", "find"} :
            /\ call[c].pc \in {"run", "wait"}
            /\ call' = [call EXCEPT ![c] = Idle] \/ call' = [call EXCEPT ![c] = Goes(c, pc)]
      BY <2>4, GoesOn
    <3> QED
      BY <1>0, <2>1, <2>2, <3>1, GoesType
  <2>5. ASSUME Find(c) PROVE call'[c].pc \in {"idle", "record"}
    <3>1. \/ call' = [call EXCEPT ![c] = Idle]
          \/ call' = [call EXCEPT ![c] = Found(c)] /\ tracked[call[c].device] \notin {None, 0}
             /\ call[c].pc = "find"
      BY <2>5 DEF Find, Found
    <3>2. call[c].pc = "find" => call[c].device \in Devices
      BY SshCalls DEF SshPoints
    <3>3. \A d \in Devices : tracked[d] # None => tracked[d] \in Nat
      BY Lengths DEF BaseInv, SessionsTyped
    <3> QED
      BY <1>0, <2>1, <2>2, <3>1, <3>2, <3>3, FoundType
  <2>6. ASSUME NEW d \in Devices, LookPool(c, d) PROVE call'[c].pc \in {"dial", "hold"}
    <3>1. call' = [call EXCEPT ![c] = Looked(d)]
      BY <2>6 DEF LookPool, Looked
    <3> QED
      BY <2>2, <3>1, LookedType
  <2>7. ASSUME NEW again \in BOOLEAN, Leave(c, again) PROVE call'[c].pc \in {"idle", "hold"}
    <3>1. call' = [call EXCEPT ![c] = Idle] \/ call' = [call EXCEPT ![c] = Again(c)]
      BY <2>7 DEF Leave, Again
    <3> QED
      BY <1>0, <2>1, <2>2, <3>1, AgainType
  <2>8. ASSUME Record(c) \/ NoDial(c) PROVE call'[c].pc = "idle"
    BY <2>1, <2>2, <2>8 DEF Record, NoDial
  <2> QED
    BY <2>3, <2>4, <2>5, <2>6, <2>7, <2>8 DEF Passing
<1> QED
  BY <1>1, <1>2, <1>3

TrackedOwn ==
  \A d \in Devices : tracked[d] \notin {None, 0} => sessions[tracked[d]].device = d

(* A session that is not in the proxy's map yet is open, of the connection  *)
(* of the Connect that started it, and no other's.                          *)
EnterFits(c) ==
  call[c].pc = "enter" /\ call[c].session # 0 =>
    LET s == call[c].session
    IN  /\ s \in DOMAIN sessions /\ ~sessions[s].ended
        /\ sessions[s].device = call[c].device /\ sessions[s].conn = call[c].conn
        /\ tracked[call[c].device] # s
        /\ \A o \in Callers \ {c} : call[o].pc = "enter" => call[o].session # s

SessionsInv == TrackedOwn /\ \A c \in Callers : EnterFits(c)

(* No Connect comes with a session, or enters one.                          *)
EntersSame ==
  \A c \in Callers :
    /\ call'[c].pc = "enter" <=> call[c].pc = "enter"
    /\ call[c].pc = "enter" => /\ call'[c].device = call[c].device
                               /\ call'[c].conn = call[c].conn
                               /\ call'[c].session = call[c].session

LEMMA EntersByLink ==
  ASSUME BaseInv, NEW c \in Callers, NEW d, NEW entry \in Call,
         call' = [Disturb(d) EXCEPT ![c] = entry],
         entry.pc # "enter", call[c].pc # "enter"
  PROVE  EntersSame
<1>1. Left(c, d, entry)
  BY Disturbed DEF BaseInv
<1> QED
  BY <1>1 DEF Left, EntersSame

(* The steps that neither start, enter nor end a session.                   *)
Aside ==
  \/ \E c \in Callers : Passing(c)
  \/ \E c \in Callers : \E d \in Devices : Connect(c, d)
  \/ \E c \in Callers : Close(c)
  \/ \E d \in Devices : CleanupIdle(d)
  \/ \E c \in Callers : \E split \in BOOLEAN : Dial(c, split)
  \/ \E c \in Callers : Send(c)
  \/ \E c \in Callers : \E k : Read(c, k)
  \/ CloseAll
  \/ \E n \in DOMAIN conns : Break(n)
  \/ UNCHANGED vars

LEMMA SessionSteps ==
  ASSUME [Next]_vars
  PROVE  \/ Aside
         \/ \E c \in Callers : \E recorded \in BOOLEAN : StartSession(c, recorded)
         \/ \E c \in Callers : Track(c)
         \/ \E c \in Callers : \E d \in Devices : Disconnect(c, d)
BY Steps, Zenon DEF Aside

LEMMA EntersStay ==
  ASSUME BaseInv, Aside \/ \E c \in Callers : \E d \in Devices : Disconnect(c, d)
  PROVE  EntersSame
<1>0. CallsGood /\ Idle \in Call /\ Idle.pc = "idle"
  BY IdleType DEF BaseInv
<1>1. ASSUME NEW c \in Callers, Passing(c) PROVE EntersSame
  BY <1>1, PassingGoes DEF EntersSame
<1>2. ASSUME NEW c \in Callers, NEW d \in Devices, Connect(c, d) PROVE EntersSame
  <2>1. NewConnection(d, FALSE) \in Connection
    BY NewType
  <2>2. /\ conns' = Append(conns, NewConnection(d, FALSE)) /\ Len(conns) < MaxConnections
        /\ call' = [Disturb(d) EXCEPT ![c] = Linked(d, Len(conns'), Linking(d) = {})]
        /\ call[c].pc = "idle"
    BY <1>2 DEF Connect, Linked
  <2>3. Len(conns') \in Nat
    BY <2>1, <2>2, ConnAdded DEF BaseInv
  <2>4. PICK entry : entry = Linked(d, Len(conns'), Linking(d) = {})
    OBVIOUS
  <2>5. entry \in Call /\ entry.pc = "track"
    BY <2>3, <2>4, LinkedType
  <2> QED
    BY <2>2, <2>4, <2>5, EntersByLink
<1>3. ASSUME NEW c \in Callers, NEW d \in Devices, Disconnect(c, d) PROVE EntersSame
  <2>1. PICK entry : entry = Unlinked(d, Linking(d) = {})
    OBVIOUS
  <2>2. call' = [Disturb(d) EXCEPT ![c] = entry] /\ call[c].pc = "idle"
    BY <1>3, <2>1 DEF Disconnect, Unlinked
  <2>3. entry \in Call /\ entry.pc = "close"
    BY <2>1, UnlinkedType
  <2> QED
    BY <2>2, <2>3, EntersByLink
<1>4. ASSUME NEW c \in Callers, Close(c) PROVE EntersSame
  <2>1. PICK d : d = call[c].device
    OBVIOUS
  <2>2. call' = [Disturb(d) EXCEPT ![c] = Idle] /\ call[c].pc = "close"
    BY <1>4, <2>1 DEF Close
  <2> QED
    BY <1>0, <2>2, EntersByLink
<1>5. ASSUME NEW c \in Callers, NEW entry, call' = [call EXCEPT ![c] = entry],
             call[c].pc # "enter", entry.pc # "enter"
      PROVE  EntersSame
  BY <1>0, <1>5, CallMoves DEF EntersSame
<1>6. ASSUME NEW c \in Callers, NEW split \in BOOLEAN, Dial(c, split) PROVE EntersSame
  <2>1. PICK n : n = Len(conns) + 1
    OBVIOUS
  <2>2. /\ call' = [call EXCEPT ![c] = [call[c] EXCEPT !.pc = "hold", !.conn = n]]
        /\ call[c].pc = "dial"
    BY <1>6, <2>1 DEF Dial
  <2>3. [call[c] EXCEPT !.pc = "hold", !.conn = n].pc # "enter"
    BY <1>0, GoodEntry DEF Call
  <2> QED
    BY <1>5, <2>2, <2>3
<1>7. ASSUME NEW c \in Callers, Send(c) PROVE EntersSame
  <2>1. PICK n : n = commands'
    OBVIOUS
  <2>2. /\ call' = [call EXCEPT ![c] = [call[c] EXCEPT !.pc = "await", !.request = n]]
        /\ call[c].pc = "hold"
    BY <1>7, <2>1 DEF Send
  <2>3. [call[c] EXCEPT !.pc = "await", !.request = n].pc # "enter"
    BY <1>0, GoodEntry DEF Call
  <2> QED
    BY <1>5, <2>2, <2>3
<1>8. ASSUME NEW c \in Callers, NEW k, Read(c, k) PROVE EntersSame
  <2>1. PICK n : n = IF k = 0 THEN 0 ELSE conns[call[c].conn].stream[1]
    OBVIOUS
  <2>2. /\ call' = [call EXCEPT ![c] = [call[c] EXCEPT !.pc = "told", !.reply = n]]
        /\ call[c].pc = "await"
    BY <1>8, <2>1 DEF Read
  <2>3. [call[c] EXCEPT !.pc = "told", !.reply = n].pc # "enter"
    BY <1>0, GoodEntry DEF Call
  <2> QED
    BY <1>5, <2>2, <2>3
<1>9. ASSUME UNCHANGED call PROVE EntersSame
  BY <1>9 DEF EntersSame
<1>10. ASSUME NEW d, CleanupIdle(d) \/ CloseAll \/ Break(d) \/ UNCHANGED vars PROVE EntersSame
  BY <1>9, <1>10 DEF CleanupIdle, CloseAll, Break, vars
<1> QED
  BY <1>1, <1>2, <1>3, <1>4, <1>6, <1>7, <1>8, <1>10, Zenon DEF Aside

SessionsSame == UNCHANGED <<tracked, sessions>> /\ displaced'.sessions = displaced.sessions

LEMMA SessionsAside ==
  ASSUME BaseInv, Aside
  PROVE  SessionsSame
<1>1. ASSUME NEW c \in Callers, Passing(c) PROVE SessionsSame
  BY <1>1, PassingSteps DEF Passes, tables, SessionsSame
<1>2. ASSUME NEW c \in Callers, NEW d \in Devices, Connect(c, d) PROVE SessionsSame
  <2>1. PICK X : /\ UNCHANGED <<tracked, sessions>>
                 /\ displaced' = [displaced EXCEPT !.conns = @ \union X]
    BY <1>2 DEF Connect
  <2> QED
    BY <2>1, DisplacedConns DEF BaseInv, SessionsSame
<1>3. ASSUME NEW c \in Callers, NEW split \in BOOLEAN, Dial(c, split) PROVE SessionsSame
  <2>1. PICK X : /\ UNCHANGED <<tracked, sessions>>
                 /\ displaced' = [displaced EXCEPT !.conns = @ \union X]
    BY <1>3 DEF Dial
  <2> QED
    BY <2>1, DisplacedConns DEF BaseInv, SessionsSame
<1>4. ASSUME NEW c \in Callers, NEW k, Close(c) \/ Send(c) \/ Read(c, k) PROVE SessionsSame
  BY <1>4 DEF Close, Send, Read, SessionsSame
<1>5. ASSUME NEW d, CleanupIdle(d) \/ CloseAll \/ Break(d) \/ UNCHANGED vars PROVE SessionsSame
  BY <1>5 DEF CleanupIdle, CloseAll, Break, vars, tables, SessionsSame
<1> QED
  BY <1>1, <1>2, <1>3, <1>4, <1>5, Zenon DEF Aside

LEMMA ConnDevice ==
  ASSUME BaseInv
  PROVE  /\ \A n \in DOMAIN conns : conns[n].device \in Devices
         /\ \A n \in DOMAIN conns : n # 0
         /\ \A s \in DOMAIN sessions : sessions[s].device \in Devices
         /\ \A s \in DOMAIN sessions : s \notin {None, 0}
<1>1. \A n \in DOMAIN conns : conns[n].device \in Devices /\ n # 0
  BY Lengths DEF BaseInv, Connection
<1>2. \A s \in DOMAIN sessions : sessions[s].device \in Devices /\ s # 0 /\ s # None
  BY Lengths, NoneFresh DEF BaseInv, Session
<1> QED
  BY <1>1, <1>2

LEMMA SessionsByStart ==
  ASSUME BaseInv, SessionsInv, NEW c \in Callers, NEW recorded \in BOOLEAN,
         StartSession(c, recorded)
  PROVE  SessionsInv'
<1>0. PICK d, m, s : /\ d = call[c].device /\ m = Len(sessions) + 1
                     /\ s = IF recorded THEN m ELSE 0
  OBVIOUS
<1>a. Starts(c, recorded, m, s)
  BY <1>0, StartEffect
<1>1. /\ d \in Devices /\ DOMAIN sessions \subseteq DOMAIN sessions'
      /\ m \notin DOMAIN sessions /\ m # 0 /\ m # None
      /\ \A t \in DOMAIN sessions : sessions'[t] = sessions[t]
      /\ recorded => /\ DOMAIN sessions' = DOMAIN sessions \union {m}
                     /\ sessions'[m].device = d /\ sessions'[m].conn = call[c].conn
                     /\ ~sessions'[m].ended
  BY <1>0, <1>a DEF Starts
<1>2. tracked' = tracked
  BY DEF StartSession
<1>3. \A e \in Devices : tracked[e] \in {None, 0} \/ tracked[e] \in DOMAIN sessions
  BY Lengths DEF BaseInv, SessionsTyped
<1>4. /\ call'[c].pc = "enter" /\ call'[c].device = d /\ call'[c].conn = call[c].conn
      /\ call'[c].session = s /\ \A o \in Callers \ {c} : call'[o] = call[o]
  BY <1>0, <1>a, StartMoves
<1>5. TrackedOwn'
  BY <1>1, <1>2, <1>3 DEF SessionsInv, TrackedOwn
<1>6. \A o \in Callers : call[o].pc = "enter" => call[o].session # m
  <2>1. \A o \in Callers : call[o].pc = "enter" /\ call[o].session # 0 =>
          call[o].session \in DOMAIN sessions
    BY DEF SessionsInv, EnterFits
  <2> QED
    BY <1>1, <2>1
<1>7. EnterFits(c)'
  <2>1. CASE recorded
    <3>1. m \in DOMAIN sessions' /\ tracked[d] # m
      BY <1>1, <1>3, <2>1
    <3> QED
      BY <1>0, <1>1, <1>2, <1>4, <1>6, <2>1, <3>1 DEF EnterFits
  <2>2. CASE ~recorded
    BY <1>0, <1>4, <2>2 DEF EnterFits
  <2> QED
    BY <2>1, <2>2
<1>8. ASSUME NEW o \in Callers \ {c} PROVE EnterFits(o)'
  <2> SUFFICES ASSUME call[o].pc = "enter", call[o].session # 0, NEW t, t = call[o].session
               PROVE  /\ t \in DOMAIN sessions' /\ ~sessions'[t].ended
                      /\ sessions'[t].device = call[o].device
                      /\ sessions'[t].conn = call[o].conn
                      /\ tracked[call[o].device] # t
                      /\ \A p \in Callers \ {o} : call'[p].pc = "enter" => call'[p].session # t
    BY <1>2, <1>4 DEF EnterFits
  <2>1. /\ t \in DOMAIN sessions /\ ~sessions[t].ended
        /\ sessions[t].device = call[o].device /\ sessions[t].conn = call[o].conn
        /\ tracked[call[o].device] # t
        /\ \A p \in Callers \ {o} : call[p].pc = "enter" => call[p].session # t
    BY DEF SessionsInv, EnterFits
  <2>2. t # s
    BY <1>0, <1>6
  <2> QED
    BY <1>1, <1>4, <2>1, <2>2
<1> QED
  BY <1>5, <1>7, <1>8 DEF SessionsInv

(* Who enters after c has entered.                                          *)
LEMMA TrackLeft ==
  ASSUME BaseInv, NEW c \in Callers, Track(c)
  PROVE  /\ call'[c].pc = "idle"
         /\ \A o \in Callers \ {c} :
              /\ call'[o].pc = call[o].pc /\ call'[o].device = call[o].device
              /\ call'[o].conn = call[o].conn /\ call'[o].session = call[o].session
<1>1. PICK d : d = call[c].device
  OBVIOUS
<1>2. call' = [Disturb(d) EXCEPT ![c] = Idle]
  BY <1>1 DEF Track
<1>3. Left(c, d, Idle)
  BY <1>2, IdleType, Disturbed DEF BaseInv
<1> QED
  BY <1>3, IdleType DEF Left

LEMMA SessionsByTrack ==
  ASSUME BaseInv, SessionsInv, NEW c \in Callers, Track(c)
  PROVE  SessionsInv'
<1>0. PICK d, s : d = call[c].device /\ s = call[c].session
  OBVIOUS
<1>1. /\ call[c].pc = "enter" /\ d \in Devices
      /\ s = 0 \/ s \in DOMAIN sessions
      /\ sessions' = sessions /\ tracked'[d] = s
      /\ \A e \in Devices \ {d} : tracked'[e] = tracked[e]
  BY <1>0, TrackEffect
<1>2. /\ call'[c].pc = "idle"
      /\ \A o \in Callers \ {c} :
           /\ call'[o].pc = call[o].pc /\ call'[o].device = call[o].device
           /\ call'[o].conn = call[o].conn /\ call'[o].session = call[o].session
  BY TrackLeft
<1>3. s # 0 => sessions[s].device = d
  BY <1>0, <1>1 DEF SessionsInv, EnterFits
<1>4. TrackedOwn'
  BY <1>1, <1>3 DEF SessionsInv, TrackedOwn
<1>5. ASSUME NEW o \in Callers PROVE EnterFits(o)'
  <2> SUFFICES ASSUME o # c, call[o].pc = "enter", call[o].session # 0,
                      NEW t, t = call[o].session, NEW e, e = call[o].device
               PROVE  /\ t \in DOMAIN sessions /\ ~sessions[t].ended
                      /\ sessions[t].device = e /\ sessions[t].conn = call[o].conn
                      /\ tracked'[e] # t
                      /\ \A p \in Callers \ {o} : call'[p].pc = "enter" => call'[p].session # t
    BY <1>1, <1>2 DEF EnterFits
  <2>1. /\ t \in DOMAIN sessions /\ ~sessions[t].ended
        /\ sessions[t].device = e /\ sessions[t].conn = call[o].conn
        /\ tracked[e] # t
        /\ \A p \in Callers \ {o} : call[p].pc = "enter" => call[p].session # t
    BY DEF SessionsInv, EnterFits
  <2>2. s # t /\ e \in Devices
    BY <1>0, <1>1, <2>1, ConnDevice
  <2>3. tracked'[e] # t
    BY <1>1, <2>1, <2>2
  <2> QED
    BY <1>2, <2>1, <2>3
<1> QED
  BY <1>4, <1>5 DEF SessionsInv

LEMMA SessionsByDisconnect ==
  ASSUME BaseInv, SessionsInv, NEW c \in Callers, NEW d \in Devices, Disconnect(c, d), EntersSame
  PROVE  SessionsInv'
<1>1. /\ DOMAIN sessions' = DOMAIN sessions
      /\ \A s \in DOMAIN sessions : sessions'[s].device = sessions[s].device
      /\ \A s \in DOMAIN sessions : s # tracked[d] => sessions'[s] = sessions[s]
      /\ tracked'[d] = None /\ \A e \in Devices \ {d} : tracked'[e] = tracked[e]
  BY DisconnectEffect
<1>2. /\ \A s \in DOMAIN sessions : sessions[s].device \in Devices /\ s \notin {None, 0}
      /\ \A e \in Devices : tracked[e] \in {None, 0} \/ tracked[e] \in DOMAIN sessions
  BY ConnDevice, Lengths DEF BaseInv, SessionsTyped
<1>3. TrackedOwn'
  BY <1>1, <1>2 DEF SessionsInv, TrackedOwn
<1>4. ASSUME NEW o \in Callers PROVE EnterFits(o)'
  <2> SUFFICES ASSUME call[o].pc = "enter", call[o].session # 0,
                      NEW t, t = call[o].session, NEW e, e = call[o].device
               PROVE  /\ t \in DOMAIN sessions' /\ ~sessions'[t].ended
                      /\ sessions'[t].device = e /\ sessions'[t].conn = call[o].conn
                      /\ tracked'[e] # t
                      /\ \A p \in Callers \ {o} : call[p].pc = "enter" => call[p].session # t
    BY DEF EnterFits, EntersSame
  <2>1. /\ t \in DOMAIN sessions /\ ~sessions[t].ended
        /\ sessions[t].device = e /\ sessions[t].conn = call[o].conn
        /\ tracked[e] # t
        /\ \A p \in Callers \ {o} : call[p].pc = "enter" => call[p].session # t
    BY DEF SessionsInv, EnterFits
  <2>2. t # tracked[d]
    BY <1>2, <2>1 DEF SessionsInv, TrackedOwn
  <2> QED
    BY <1>1, <1>2, <2>1, <2>2
<1> QED
  BY <1>3, <1>4 DEF SessionsInv

LEMMA SessionsStep == BaseInv /\ SessionsInv /\ [Next]_vars => SessionsInv'
<1> SUFFICES ASSUME BaseInv, SessionsInv, [Next]_vars PROVE SessionsInv'
  OBVIOUS
<1>1. ASSUME Aside PROVE SessionsInv'
  <2>1. EntersSame /\ SessionsSame
    BY <1>1, EntersStay, SessionsAside
  <2>2. ASSUME NEW c \in Callers PROVE EnterFits(c)'
    BY <2>1 DEF EntersSame, SessionsSame, SessionsInv, EnterFits
  <2> QED
    BY <2>1, <2>2 DEF SessionsSame, SessionsInv, TrackedOwn
<1>2. ASSUME NEW c \in Callers, NEW d \in Devices, Disconnect(c, d) PROVE SessionsInv'
  <2>1. EntersSame
    BY <1>2, EntersStay
  <2> QED
    BY <1>2, <2>1, SessionsByDisconnect
<1> QED
  BY <1>1, <1>2, SessionSteps, SessionsByStart, SessionsByTrack

LEMMA SessionsInit == Init => SessionsInv
BY IdleType DEF Init, SessionsInv, TrackedOwn, EnterFits

-----------------------------------------------------------------------------
(* What is open is held                                                     *)

ConnsHeld ==
  \A n \in DOMAIN conns \ displaced.conns : conns[n].open <=> stored[conns[n].device] = n

SessionsHeld ==
  \A s \in DOMAIN sessions \ displaced.sessions :
    ~sessions[s].ended <=> tracked[sessions[s].device] = s \/ Entering(s)

LEMMA HeldParts == OpenIsHeld <=> ConnsHeld /\ SessionsHeld
BY DEF OpenIsHeld, ConnsHeld, SessionsHeld

(* Another connection in the map: the one before is displaced.              *)
LEMMA HeldByNew ==
  ASSUME BaseInv, ConnsHeld, NEW d \in Devices, NEW split \in BOOLEAN,
         conns' = Append(conns, NewConnection(d, split)), Len(conns) < MaxConnections,
         \/ /\ stored' = [stored EXCEPT ![d] = Len(conns) + 1]
            /\ displaced'.conns = displaced.conns \union Over(d)
         \/ /\ stored' = stored
            /\ displaced'.conns = displaced.conns \union {Len(conns) + 1}
  PROVE  ConnsHeld'
<1> DEFINE n == Len(conns) + 1
           conn == NewConnection(d, split)
<1>1. conn \in Connection /\ conn.device = d /\ conn.open
  BY NewType
<1>2. /\ DOMAIN conns' = DOMAIN conns \union {n} /\ n \notin DOMAIN conns
      /\ \A k \in DOMAIN conns : conns'[k] = conns[k]
      /\ conns'[n] = conn
  BY <1>1, ConnAdded DEF BaseInv
<1>3. /\ \A k \in DOMAIN conns : conns[k].device \in Devices /\ k # 0
      /\ \A e \in Devices : stored[e] = 0 \/ stored[e] \in DOMAIN conns
      /\ stored \in [Devices -> 0..Len(conns)]
  BY ConnDevice, Lengths DEF BaseInv, ConnsTyped
<1> HIDE DEF conn, n
<1>4. CASE /\ stored' = [stored EXCEPT ![d] = n]
           /\ displaced'.conns = displaced.conns \union Over(d)
  <2>1. stored'[d] = n /\ \A e \in Devices \ {d} : stored'[e] = stored[e]
    BY <1>3, <1>4
  <2>2. ASSUME NEW k \in DOMAIN conns, k \notin displaced'.conns
        PROVE  conns'[k].open <=> stored'[conns'[k].device] = k
    <3>1. /\ k \notin displaced.conns /\ k # stored[d]
          /\ conns'[k] = conns[k] /\ conns[k].device \in Devices /\ k # n
      BY <1>2, <1>3, <1>4, <2>2 DEF Over
    <3>2. conns[k].open <=> stored[conns[k].device] = k
      BY <3>1 DEF ConnsHeld
    <3> QED
      BY <2>1, <3>1, <3>2
  <2>3. conns'[n].open <=> stored'[conns'[n].device] = n
    BY <1>1, <1>2, <2>1
  <2> QED
    BY <1>2, <2>2, <2>3 DEF ConnsHeld
<1>5. CASE stored' = stored /\ displaced'.conns = displaced.conns \union {n}
  BY <1>2, <1>5 DEF ConnsHeld
<1> QED
  BY <1>4, <1>5 DEF n

LEMMA HeldByShut ==
  ASSUME BaseInv, ConnsHeld, NEW d \in Devices, Shut(d), displaced' = displaced
  PROVE  ConnsHeld'
<1>1. /\ DOMAIN conns' = DOMAIN conns
      /\ \A n \in DOMAIN conns : conns'[n].device = conns[n].device
      /\ \A n \in DOMAIN conns : n # stored[d] => conns'[n] = conns[n]
      /\ stored[d] # 0 => ~conns'[stored[d]].open
      /\ stored'[d] = 0 /\ \A e \in Devices \ {d} : stored'[e] = stored[e]
  BY ShutEffect
<1>2. ASSUME NEW n \in DOMAIN conns, n \notin displaced.conns
      PROVE  conns'[n].open <=> stored'[conns'[n].device] = n
  <2>1. /\ conns[n].device \in Devices /\ n # 0
        /\ conns[n].open <=> stored[conns[n].device] = n
        /\ stored[d] # 0 => conns[stored[d]].device = d
    BY <1>2, ConnDevice DEF ConnsHeld, BaseInv, HeldOwn
  <2>2. CASE n = stored[d]
    BY <1>1, <2>1, <2>2
  <2>3. CASE n # stored[d]
    BY <1>1, <2>1, <2>3
  <2> QED
    BY <2>2, <2>3
<1> QED
  BY <1>1, <1>2 DEF ConnsHeld

LEMMA HeldByCloseAll ==
  ASSUME BaseInv, ConnsHeld, CloseAll
  PROVE  ConnsHeld'
<1>1. /\ DOMAIN conns' = DOMAIN conns
      /\ \A n \in DOMAIN conns : conns'[n].device = conns[n].device
      /\ \A n \in DOMAIN conns :
           conns'[n].open <=> conns[n].open /\ \A d \in Devices : stored[d] # n
      /\ \A d \in Devices : stored'[d] = 0
      /\ displaced' = displaced
  BY CloseAllEffect
<1>2. \A n \in DOMAIN conns : conns[n].device \in Devices /\ n # 0
  BY ConnDevice
<1> QED
  BY <1>1, <1>2 DEF ConnsHeld

(* A connection changed, but for its being open.                            *)
LEMMA HeldByConn ==
  ASSUME ConnsHeld, NEW n \in DOMAIN conns, DOMAIN conns' = DOMAIN conns,
         \A k \in DOMAIN conns \ {n} : conns'[k] = conns[k],
         conns'[n].device = conns[n].device, conns'[n].open = conns[n].open,
         UNCHANGED <<stored, displaced>>
  PROVE  ConnsHeld'
BY DEF ConnsHeld

LEMMA EnteringSame ==
  ASSUME EntersSame, NEW s
  PROVE  Entering(s)' <=> Entering(s)
BY DEF EntersSame, Entering

LEMMA HeldByStart ==
  ASSUME BaseInv, SessionsInv, SessionsHeld, NEW c \in Callers, NEW recorded \in BOOLEAN,
         StartSession(c, recorded)
  PROVE  SessionsHeld'
<1>0. PICK m, s : m = Len(sessions) + 1 /\ s = IF recorded THEN m ELSE 0
  OBVIOUS
<1>a. Starts(c, recorded, m, s)
  BY <1>0, StartEffect
<1>1. /\ call[c].pc = "track" /\ DOMAIN sessions \subseteq DOMAIN sessions'
      /\ m \notin DOMAIN sessions
      /\ \A t \in DOMAIN sessions : sessions'[t] = sessions[t]
      /\ recorded => DOMAIN sessions' = DOMAIN sessions \union {m} /\ ~sessions'[m].ended
      /\ ~recorded => sessions' = sessions
  BY <1>a DEF Starts
<1>2. UNCHANGED <<tracked, displaced>>
  BY DEF StartSession
<1>3. /\ call'[c].pc = "enter" /\ call'[c].session = s
      /\ \A o \in Callers \ {c} : call'[o] = call[o]
  BY <1>a, StartMoves
<1>4. ASSUME NEW t \in DOMAIN sessions PROVE Entering(t)' <=> Entering(t)
  <2>1. t # s
    BY <1>0, <1>1, ConnDevice
  <2> QED
    BY <1>1, <1>3, <2>1 DEF Entering
<1>5. ASSUME NEW t \in DOMAIN sessions, t \notin displaced'.sessions
      PROVE  ~sessions'[t].ended <=> tracked'[sessions'[t].device] = t \/ Entering(t)'
  BY <1>1, <1>2, <1>4, <1>5 DEF SessionsHeld
<1>6. recorded => ~sessions'[m].ended /\ Entering(m)'
  BY <1>0, <1>1, <1>3 DEF Entering
<1> QED
  BY <1>1, <1>5, <1>6 DEF SessionsHeld

LEMMA HeldByTrack ==
  ASSUME BaseInv, SessionsInv, SessionsHeld, NEW c \in Callers, Track(c)
  PROVE  SessionsHeld'
<1>0. PICK d, s, old : /\ d = call[c].device /\ s = call[c].session
                       /\ old = IF tracked[d] \in {None, 0} THEN {} ELSE {tracked[d]}
  OBVIOUS
<1>1. /\ call[c].pc = "enter" /\ d \in Devices
      /\ s = 0 \/ s \in DOMAIN sessions
      /\ sessions' = sessions /\ tracked'[d] = s
      /\ \A e \in Devices \ {d} : tracked'[e] = tracked[e]
  BY <1>0, TrackEffect
<1>2. displaced'.sessions = displaced.sessions \union old
  BY <1>0, DisplacedSessions DEF Track, BaseInv
<1>3. /\ \A t \in DOMAIN sessions : sessions[t].device \in Devices
      /\ \A t \in DOMAIN sessions : t \notin {None, 0}
  BY ConnDevice
<1>4. s # 0 => ~sessions[s].ended /\ sessions[s].device = d
  BY <1>0, <1>1 DEF SessionsInv, EnterFits
<1>5. ASSUME NEW t \in DOMAIN sessions, t # s PROVE Entering(t)' <=> Entering(t)
  BY <1>0, <1>5, TrackLeft DEF Entering
<1>6. ASSUME NEW t \in DOMAIN sessions, t \notin displaced'.sessions
      PROVE  ~sessions'[t].ended <=> tracked'[sessions'[t].device] = t \/ Entering(t)'
  <2>1. CASE t = s
    BY <1>1, <1>3, <1>4, <2>1
  <2>2. CASE t # s
    <3>1. t \notin displaced.sessions /\ t # tracked[d]
      BY <1>0, <1>2, <1>3, <1>6
    <3>2. ~sessions[t].ended <=> tracked[sessions[t].device] = t \/ Entering(t)
      BY <3>1 DEF SessionsHeld
    <3> QED
      BY <1>1, <1>3, <1>5, <2>2, <3>1, <3>2
  <2> QED
    BY <2>1, <2>2
<1> QED
  BY <1>1, <1>6 DEF SessionsHeld

LEMMA HeldByDisconnect ==
  ASSUME BaseInv, SessionsInv, SessionsHeld, NEW c \in Callers, NEW d \in Devices,
         Disconnect(c, d)
  PROVE  SessionsHeld'
<1>1. /\ DOMAIN sessions' = DOMAIN sessions
      /\ \A s \in DOMAIN sessions : sessions'[s].device = sessions[s].device
      /\ \A s \in DOMAIN sessions : s # tracked[d] => sessions'[s] = sessions[s]
      /\ tracked[d] \notin {None, 0} => sessions'[tracked[d]].ended
      /\ tracked'[d] = None /\ \A e \in Devices \ {d} : tracked'[e] = tracked[e]
  BY DisconnectEffect
<1>2. displaced' = displaced /\ EntersSame
  BY EntersStay DEF Disconnect
<1>3. ASSUME NEW s \in DOMAIN sessions, s \notin displaced.sessions
      PROVE  ~sessions'[s].ended <=> tracked'[sessions'[s].device] = s \/ Entering(s)'
  <2>1. /\ sessions[s].device \in Devices /\ s \notin {None, 0}
        /\ ~sessions[s].ended <=> tracked[sessions[s].device] = s \/ Entering(s)
        /\ tracked[d] \notin {None, 0} => sessions[tracked[d]].device = d
        /\ Entering(s)' <=> Entering(s)
    BY <1>2, <1>3, ConnDevice, EnteringSame DEF SessionsHeld, SessionsInv, TrackedOwn
  <2>2. CASE s = tracked[d]
    <3>1. ~Entering(s)
      BY <2>1, <2>2 DEF Entering, SessionsInv, EnterFits
    <3> QED
      BY <1>1, <2>1, <2>2, <3>1
  <2>3. CASE s # tracked[d]
    BY <1>1, <2>1, <2>3
  <2> QED
    BY <2>2, <2>3
<1> QED
  BY <1>1, <1>2, <1>3 DEF SessionsHeld

HeldInv == BaseInv /\ SessionsInv /\ OpenIsHeld

LEMMA HeldStep == HeldInv /\ [Next]_vars => HeldInv'
<1> SUFFICES ASSUME BaseInv, SessionsInv, ConnsHeld, SessionsHeld, [Next]_vars
             PROVE  ConnsHeld' /\ SessionsHeld'
  BY BaseStep, SessionsStep, HeldParts DEF HeldInv, OpenIsHeld, ConnsHeld, SessionsHeld, Entering
<1>1. ASSUME UNCHANGED <<conns, stored, displaced>> PROVE ConnsHeld'
  BY <1>1 DEF ConnsHeld
<1>2. ASSUME Aside PROVE SessionsHeld'
  <2>1. EntersSame /\ SessionsSame
    BY <1>2, EntersStay, SessionsAside
  <2> QED
    BY <2>1, EnteringSame DEF SessionsHeld, SessionsSame
<1>3. ASSUME NEW c \in Callers, Passing(c) PROVE ConnsHeld'
  <2>1. UNCHANGED tables
    BY <1>3, PassingSteps DEF Passes
  <2> QED
    BY <2>1, <1>1 DEF tables
<1>4. ASSUME NEW c \in Callers, NEW d \in Devices, Connect(c, d) PROVE ConnsHeld'
  <2>1. NewConnection(d, FALSE) \in Connection
    BY NewType
  <2>2. /\ conns' = Append(conns, NewConnection(d, FALSE)) /\ Len(conns) < MaxConnections
        /\ stored' = [stored EXCEPT ![d] = Len(conns')]
        /\ displaced' = [displaced EXCEPT !.conns = @ \union Over(d)]
    BY <1>4 DEF Connect
  <2>3. Len(conns') = Len(conns) + 1
    BY <2>1, <2>2, ConnAdded DEF BaseInv
  <2>4. displaced'.conns = displaced.conns \union Over(d)
    BY <2>2, DisplacedConns DEF BaseInv
  <2> QED
    BY <2>2, <2>3, <2>4, HeldByNew
<1>5. ASSUME NEW c \in Callers, Track(c) PROVE ConnsHeld'
  <2>1. PICK old : /\ UNCHANGED <<conns, stored>>
                   /\ displaced' = [displaced EXCEPT !.sessions = @ \union old]
    BY <1>5 DEF Track
  <2>2. displaced'.conns = displaced.conns
    BY <2>1, DisplacedSessions DEF BaseInv
  <2> QED
    BY <2>1, <2>2 DEF ConnsHeld
<1>6. ASSUME NEW c \in Callers, NEW d \in Devices, Disconnect(c, d) PROVE ConnsHeld'
  BY <1>1, <1>6 DEF Disconnect
<1>16. ASSUME NEW c \in Callers, NEW recorded \in BOOLEAN, StartSession(c, recorded)
       PROVE  ConnsHeld'
  BY <1>1, <1>16 DEF StartSession
<1>7. ASSUME NEW c \in Callers, Close(c) PROVE ConnsHeld'
  <2>1. Shut(call[c].device) /\ UNCHANGED displaced /\ call[c].pc = "close"
    BY <1>7 DEF Close, Shut
  <2>2. call[c].device \in Devices
    BY <2>1, SshCalls DEF SshPoints
  <2> QED
    BY <2>1, <2>2, HeldByShut
<1>8. ASSUME NEW d \in Devices, CleanupIdle(d) PROVE ConnsHeld'
  <2>1. Shut(d) /\ UNCHANGED displaced
    BY <1>8 DEF CleanupIdle, Shut
  <2> QED
    BY <2>1, HeldByShut
<1>9. ASSUME NEW c \in Callers, NEW split \in BOOLEAN, Dial(c, split) PROVE ConnsHeld'
  <2> DEFINE d == call[c].device
             n == Len(conns) + 1
             room == Cardinality(InPool) < MaxSessions
             over == IF room THEN Over(d) ELSE {n}
  <2>1. /\ call[c].pc = "dial" /\ n <= MaxConnections
        /\ conns' = Append(conns, NewConnection(d, split))
        /\ stored' = IF room THEN [stored EXCEPT ![d] = n] ELSE stored
        /\ displaced' = [displaced EXCEPT !.conns = @ \union over]
    BY <1>9 DEF Dial, InPool
  <2>2. d \in Devices /\ Len(conns) < MaxConnections
    BY <2>1, NetconfCalls, Lengths, ConnectionsBounds DEF NetconfPoints, BaseInv
  <2>3. displaced'.conns = displaced.conns \union over
    <3> HIDE DEF over
    <3> QED
      BY <2>1, DisplacedConns DEF BaseInv
  <2> HIDE DEF room
  <2>4. CASE room
    BY <2>1, <2>2, <2>3, <2>4, HeldByNew
  <2>5. CASE ~room
    BY <2>1, <2>2, <2>3, <2>5, HeldByNew
  <2> QED
    BY <2>4, <2>5
<1>10. ASSUME NEW c \in Callers, Send(c) PROVE ConnsHeld'
  <2>1. UNCHANGED <<stored, displaced>>
    BY <1>10 DEF Send
  <2> QED
    BY <1>10, <2>1, SendEffect, HeldByConn
<1>11. ASSUME NEW c \in Callers, NEW k, Read(c, k) PROVE ConnsHeld'
  <2>1. UNCHANGED <<stored, displaced>>
    BY <1>11 DEF Read
  <2> QED
    BY <1>11, <2>1, ReadEffect, HeldByConn
<1>12. ASSUME NEW n \in DOMAIN conns, Break(n) PROVE ConnsHeld'
  <2>1. UNCHANGED <<stored, displaced>>
    BY <1>12 DEF Break
  <2> QED
    BY <1>12, <2>1, BreakEffect, HeldByConn
<1>13. ASSUME CloseAll PROVE ConnsHeld'
  BY <1>13, HeldByCloseAll
<1>14. ASSUME UNCHANGED vars PROVE ConnsHeld'
  BY <1>1, <1>14 DEF vars, tables
<1>15. ConnsHeld'
  BY <1>3, <1>4, <1>5, <1>6, <1>7, <1>8, <1>9, <1>10, <1>11, <1>12, <1>13, <1>14, <1>16,
     Steps
<1>17. SessionsHeld'
  BY <1>2, SessionSteps, HeldByStart, HeldByTrack, HeldByDisconnect
<1> QED
  BY <1>15, <1>17

(* The adapters hold the connections that are open and no others, and the   *)
(* proxy the sessions that have not ended, but for those that another was   *)
(* put over and those a full pool did not take.                             *)
THEOREM OpenStaysHeld == Spec => []OpenIsHeld
<1>1. Init => HeldInv
  <2> SUFFICES ASSUME Init PROVE HeldInv
    OBVIOUS
  <2>1. conns = <<>> /\ sessions = <<>>
    BY DEF Init
  <2> QED
    BY <2>1, BaseInit, SessionsInit DEF HeldInv, OpenIsHeld
<1>2. HeldInv => OpenIsHeld
  BY DEF HeldInv
<1> QED
  BY <1>1, <1>2, HeldStep, PTL DEF Spec

-----------------------------------------------------------------------------
(* A request is told its own reply                                          *)

Clear(n) == conns[n].open /\ ~conns[n].dead /\ ~conns[n].split
Awaits(c, n) == call[c].pc = "await" /\ call[c].conn = n

OneAwaits ==
  \A c, o \in Callers : \A n \in DOMAIN conns : Awaits(c, n) /\ Awaits(o, n) => c = o

(* What a device has sent and nobody read is what is waited for.            *)
StreamAnswers ==
  \A n \in DOMAIN conns : Clear(n) =>
    /\ \A c \in Callers : Awaits(c, n) => conns[n].stream = <<call[c].request>>
    /\ (\A c \in Callers : ~Awaits(c, n)) => conns[n].stream = <<>>

ToldReply ==
  \A c \in Callers :
    call[c].pc = "told" /\ Clear(call[c].conn) => call[c].reply = call[c].request

AnswersInv == protocol = "netconf" => OneAwaits /\ StreamAnswers /\ ToldReply

(* The callers of M do not wait, before or after; the others stay; and no   *)
(* stream of a connection that is clear changes.                            *)
LEMMA AnswersKept ==
  ASSUME BaseInv, OneAwaits, StreamAnswers, ToldReply, NEW M \in SUBSET Callers,
         \A c \in M : call[c].pc # "await" /\ call'[c].pc \notin {"await", "told"},
         \A c \in Callers \ M : call'[c] = call[c],
         DOMAIN conns \subseteq DOMAIN conns',
         \A n \in DOMAIN conns : Clear(n)' => Clear(n) /\ conns'[n].stream = conns[n].stream,
         \A n \in DOMAIN conns' \ DOMAIN conns : Clear(n)' => conns'[n].stream = <<>>
  PROVE  OneAwaits' /\ StreamAnswers' /\ ToldReply'
<1>1. \A c \in Callers : \A n : Awaits(c, n)' <=> Awaits(c, n)
  BY DEF Awaits
<1>2. \A c \in Callers : call[c].pc \in {"await", "told"} => call[c].conn \in DOMAIN conns
  BY NetconfCalls DEF NetconfPoints
<1>3. OneAwaits'
  BY <1>1, <1>2 DEF OneAwaits, Awaits
<1>4. ASSUME NEW n \in DOMAIN conns', Clear(n)'
      PROVE  /\ \A c \in Callers : Awaits(c, n)' => conns'[n].stream = <<call'[c].request>>
             /\ (\A c \in Callers : ~Awaits(c, n)') => conns'[n].stream = <<>>
  <2>1. CASE n \in DOMAIN conns
    <3>1. /\ conns'[n].stream = conns[n].stream
          /\ \A c \in Callers : Awaits(c, n) => conns[n].stream = <<call[c].request>>
          /\ (\A c \in Callers : ~Awaits(c, n)) => conns[n].stream = <<>>
      BY <1>4, <2>1 DEF StreamAnswers
    <3>2. \A c \in Callers : Awaits(c, n) => call'[c] = call[c]
      BY DEF Awaits
    <3> QED
      BY <1>1, <3>1, <3>2
  <2>2. CASE n \notin DOMAIN conns
    BY <1>1, <1>2, <1>4, <2>2 DEF Awaits
  <2> QED
    BY <2>1, <2>2
<1>5. StreamAnswers'
  BY <1>4 DEF StreamAnswers
<1>6. ToldReply'
  BY <1>2 DEF ToldReply
<1> QED
  BY <1>3, <1>5, <1>6

LEMMA AnswersByPassing ==
  ASSUME BaseInv, OneAwaits, StreamAnswers, ToldReply, NEW c \in Callers, Passing(c)
  PROVE  OneAwaits' /\ StreamAnswers' /\ ToldReply'
<1>0. CallsGood /\ call[c] \in Call
  BY GoodEntry DEF BaseInv
<1>1. UNCHANGED conns /\ \A o \in Callers \ {c} : call'[o] = call[o]
  BY <1>0, PassingSteps, CallMoves DEF Passes, tables
<1>2. call[c].pc # "await" /\ call'[c].pc \notin {"await", "told"}
  BY PassingGoes
<1> DEFINE M == {c}
<1>3. /\ M \in SUBSET Callers
      /\ \A o \in M : call[o].pc # "await" /\ call'[o].pc \notin {"await", "told"}
      /\ \A o \in Callers \ M : call'[o] = call[o]
  BY <1>1, <1>2
<1>4. /\ DOMAIN conns \subseteq DOMAIN conns'
      /\ \A n \in DOMAIN conns : Clear(n)' => Clear(n) /\ conns'[n].stream = conns[n].stream
      /\ \A n \in DOMAIN conns' \ DOMAIN conns : Clear(n)' => conns'[n].stream = <<>>
  BY <1>1 DEF Clear
<1> QED
  BY <1>3, <1>4, AnswersKept

LEMMA AnswersByDial ==
  ASSUME BaseInv, OneAwaits, StreamAnswers, ToldReply,
         NEW c \in Callers, NEW split \in BOOLEAN, Dial(c, split)
  PROVE  OneAwaits' /\ StreamAnswers' /\ ToldReply'
<1> DEFINE d == call[c].device
           n == Len(conns) + 1
           conn == NewConnection(d, split)
           entry == [call[c] EXCEPT !.pc = "hold", !.conn = n]
           M == {c}
<1>1. /\ call[c].pc = "dial" /\ n <= MaxConnections
      /\ conns' = Append(conns, conn) /\ call' = [call EXCEPT ![c] = entry]
  BY DEF Dial
<1>2. call[c] \in Call /\ d \in Devices /\ n \in Nat
  BY <1>1, NetconfCalls, Lengths DEF NetconfPoints, BaseInv
<1>3. entry.pc = "hold"
  BY <1>2, HoldType
<1>4. call'[c].pc = "hold" /\ \A o \in Callers \ {c} : call'[o] = call[o]
  <2> HIDE DEF entry
  <2> QED
    BY <1>1, <1>3, CallMoves DEF BaseInv
<1>5. conn \in Connection /\ conn.split = split /\ (~split => conn.stream = <<>>)
  BY <1>2, NewType
<1> HIDE DEF conn
<1>6. /\ DOMAIN conns' = DOMAIN conns \union {n}
      /\ \A k \in DOMAIN conns : conns'[k] = conns[k]
      /\ conns'[n] = conn
  BY <1>1, <1>2, <1>5, ConnAdded, ConnectionsBounds, Lengths DEF BaseInv
<1>7. /\ M \in SUBSET Callers
      /\ \A o \in M : call[o].pc # "await" /\ call'[o].pc \notin {"await", "told"}
      /\ \A o \in Callers \ M : call'[o] = call[o]
  BY <1>1, <1>4
<1>8. /\ DOMAIN conns \subseteq DOMAIN conns'
      /\ \A k \in DOMAIN conns : Clear(k)' => Clear(k) /\ conns'[k].stream = conns[k].stream
      /\ \A k \in DOMAIN conns' \ DOMAIN conns : Clear(k)' => conns'[k].stream = <<>>
  BY <1>5, <1>6 DEF Clear
<1> QED
  BY <1>7, <1>8, AnswersKept

(* A connection closed or broken is not clear.                              *)
LEMMA AnswersByEnds ==
  ASSUME BaseInv, OneAwaits, StreamAnswers, ToldReply,
         CloseAll \/ \E n \in DOMAIN conns : Break(n)
  PROVE  OneAwaits' /\ StreamAnswers' /\ ToldReply'
<1>1. /\ DOMAIN conns' = DOMAIN conns /\ call' = call
      /\ \A n \in DOMAIN conns : Clear(n)' => Clear(n) /\ conns'[n].stream = conns[n].stream
  BY CloseAllEffect, BreakEffect DEF Clear
<1> DEFINE M == {}
<1>2. M \in SUBSET Callers /\ \A o \in Callers \ M : call'[o] = call[o]
  BY <1>1
<1>3. /\ DOMAIN conns \subseteq DOMAIN conns'
      /\ \A k \in DOMAIN conns' \ DOMAIN conns : Clear(k)' => conns'[k].stream = <<>>
      /\ \A c \in M : call[c].pc # "await" /\ call'[c].pc \notin {"await", "told"}
  BY <1>1
<1> QED
  BY <1>1, <1>2, <1>3, AnswersKept

(* A request goes out over a connection nobody waits on ...                 *)
LEMMA AnswersBySend ==
  ASSUME BaseInv, OneAwaits, StreamAnswers, ToldReply, NEW c \in Callers, Send(c)
  PROVE  OneAwaits' /\ StreamAnswers' /\ ToldReply'
<1>0. PICK n : n = call[c].conn
  OBVIOUS
<1>1. /\ n \in DOMAIN conns /\ DOMAIN conns' = DOMAIN conns
      /\ \A k \in DOMAIN conns \ {n} : conns'[k] = conns[k]
      /\ conns'[n].open = conns[n].open /\ conns'[n].dead = conns[n].dead
      /\ conns'[n].split = conns[n].split
      /\ conns'[n].stream = Append(conns[n].stream, commands')
      /\ call'[c].pc = "await" /\ call'[c].conn = n /\ call'[c].request = commands'
      /\ \A o \in Callers \ {c} : call'[o] = call[o]
  BY <1>0, SendEffect
<1>2. /\ \A o \in Callers : ~Awaits(o, n)
      /\ call[c].pc = "hold"
  BY <1>0 DEF Send, Awaits
<1>3. /\ \A o \in Callers \ {c} : \A k : Awaits(o, k)' <=> Awaits(o, k)
      /\ \A k : Awaits(c, k)' <=> k = n
      /\ \A k : ~Awaits(c, k)
      /\ \A k \in DOMAIN conns : Clear(k)' <=> Clear(k)
  BY <1>1, <1>2 DEF Awaits, Clear
<1>4. OneAwaits'
  BY <1>1, <1>2, <1>3 DEF OneAwaits
<1>5. StreamAnswers'
  <2>1. Clear(n) => conns'[n].stream = <<commands'>>
    <3>1. Clear(n) => conns[n].stream = <<>>
      BY <1>1, <1>2 DEF StreamAnswers
    <3>2. Append(<<>>, commands') = <<commands'>>
      OBVIOUS
    <3> QED
      BY <1>1, <3>1, <3>2
  <2>2. ASSUME NEW k \in DOMAIN conns, k # n, Clear(k)
        PROVE  /\ \A o \in Callers : Awaits(o, k)' => conns'[k].stream = <<call'[o].request>>
               /\ (\A o \in Callers : ~Awaits(o, k)') => conns'[k].stream = <<>>
    <3>1. /\ \A o \in Callers : Awaits(o, k) => conns[k].stream = <<call[o].request>>
          /\ (\A o \in Callers : ~Awaits(o, k)) => conns[k].stream = <<>>
      BY <2>2 DEF StreamAnswers
    <3> QED
      BY <1>1, <1>3, <2>2, <3>1
  <2>3. Clear(n) => /\ \A o \in Callers : Awaits(o, n)' => conns'[n].stream = <<call'[o].request>>
                    /\ Awaits(c, n)'
    BY <1>1, <1>2, <1>3, <2>1
  <2> QED
    BY <1>1, <1>3, <2>2, <2>3 DEF StreamAnswers
<1>6. ToldReply'
  <2>1. \A o \in Callers : call[o].pc = "told" => call[o].conn \in DOMAIN conns
    BY NetconfCalls DEF NetconfPoints
  <2> QED
    BY <1>1, <1>3, <2>1 DEF ToldReply
<1> QED
  BY <1>4, <1>5, <1>6

(* ... and what is read there is all there is: its reply.                   *)
LEMMA AnswersByRead ==
  ASSUME BaseInv, OneAwaits, StreamAnswers, ToldReply, NEW c \in Callers, NEW k, Read(c, k)
  PROVE  OneAwaits' /\ StreamAnswers' /\ ToldReply'
<1>0. PICK n, got : n = call[c].conn /\ got = conns[n].stream
  OBVIOUS
<1>1. /\ call[c].pc = "await" /\ call[c].conn = n /\ got = conns[n].stream /\ n \in DOMAIN conns
      /\ k \in 0..Len(got) /\ (conns[n].open /\ ~conns[n].dead => k # 0)
      /\ DOMAIN conns' = DOMAIN conns
      /\ \A o \in DOMAIN conns \ {n} : conns'[o] = conns[o]
      /\ conns'[n].open = conns[n].open /\ conns'[n].dead = conns[n].dead
      /\ conns'[n].split = conns[n].split
      /\ conns'[n].stream = SubSeq(got, k + 1, Len(got))
      /\ call'[c].pc = "told" /\ call'[c].conn = n
      /\ call'[c].request = call[c].request
      /\ k # 0 => call'[c].reply = got[1]
      /\ \A o \in Callers \ {c} : call'[o] = call[o]
  BY <1>0, ReadEffect
<1>2. \A o \in Callers : Awaits(o, n) <=> o = c
  BY <1>1 DEF OneAwaits, Awaits
<1>3. /\ \A o \in Callers \ {c} : \A m : Awaits(o, m)' <=> Awaits(o, m)
      /\ \A m : ~Awaits(c, m)'
      /\ \A m : Awaits(c, m) <=> m = n
      /\ \A m \in DOMAIN conns : Clear(m)' <=> Clear(m)
  BY <1>1 DEF Awaits, Clear
<1>4. OneAwaits'
  BY <1>1, <1>3 DEF OneAwaits
<1>5. Clear(n) => conns'[n].stream = <<>> /\ call'[c].reply = call'[c].request
  <2> SUFFICES ASSUME Clear(n)
               PROVE  conns'[n].stream = <<>> /\ call'[c].reply = call'[c].request
    OBVIOUS
  <2> DEFINE r == call[c].request
  <2>1. got = <<r>>
    BY <1>1, <1>3 DEF StreamAnswers
  <2>2. k # 0
    BY <1>1 DEF Clear
  <2> HIDE DEF r
  <2>3. Len(got) = 1 /\ got[1] = r
    BY <2>1
  <2>4. k = 1
    BY <1>1, <2>2, <2>3
  <2>5. SubSeq(<<r>>, 2, 1) = <<>>
    OBVIOUS
  <2> QED
    BY <1>1, <2>1, <2>2, <2>3, <2>4, <2>5 DEF r
<1>6. StreamAnswers'
  <2>2. ASSUME NEW m \in DOMAIN conns, m # n, Clear(m)
        PROVE  /\ \A o \in Callers : Awaits(o, m)' => conns'[m].stream = <<call'[o].request>>
               /\ (\A o \in Callers : ~Awaits(o, m)') => conns'[m].stream = <<>>
    <3>1. /\ \A o \in Callers : Awaits(o, m) => conns[m].stream = <<call[o].request>>
          /\ (\A o \in Callers : ~Awaits(o, m)) => conns[m].stream = <<>>
      BY <2>2 DEF StreamAnswers
    <3> QED
      BY <1>1, <1>3, <2>2, <3>1
  <2>3. \A o \in Callers : ~Awaits(o, n)'
    BY <1>2, <1>3
  <2> QED
    BY <1>1, <1>3, <1>5, <2>2, <2>3 DEF StreamAnswers
<1>7. ToldReply'
  <2>1. \A o \in Callers : call[o].pc = "told" => call[o].conn \in DOMAIN conns
    BY NetconfCalls DEF NetconfPoints
  <2> QED
    BY <1>1, <1>3, <1>5, <2>1 DEF ToldReply
<1> QED
  BY <1>4, <1>6, <1>7

LEMMA SshMoves ==
  ASSUME BaseInv,
         \/ \E c \in Callers : \E d \in Devices : Connect(c, d) \/ Disconnect(c, d)
         \/ \E c \in Callers : \E recorded \in BOOLEAN : StartSession(c, recorded)
         \/ \E c \in Callers : Track(c) \/ Close(c)
         \/ \E d \in Devices : CleanupIdle(d)
  PROVE  protocol = "ssh"
BY SshCalls DEF Connect, Disconnect, StartSession, Track, Close, CleanupIdle, SshPoints

LEMMA ProtocolStays ==
  ASSUME BaseInv, [Next]_vars
  PROVE  UNCHANGED protocol
<1>1. ASSUME NEW c \in Callers, Passing(c) PROVE UNCHANGED protocol
  BY <1>1, PassingSteps DEF Passes
<1>2. ASSUME NEW c \in Callers, NEW d \in Devices, Connect(c, d) \/ Disconnect(c, d)
      PROVE  UNCHANGED protocol
  BY <1>2 DEF Connect, Disconnect
<1>3. ASSUME NEW c \in Callers, NEW b \in BOOLEAN, StartSession(c, b) \/ Dial(c, b)
      PROVE  UNCHANGED protocol
  BY <1>3 DEF StartSession, Dial
<1>4. ASSUME NEW c \in Callers, NEW k, Track(c) \/ Close(c) \/ Send(c) \/ Read(c, k)
      PROVE  UNCHANGED protocol
  BY <1>4 DEF Track, Close, Send, Read
<1>5. ASSUME NEW d, CleanupIdle(d) \/ CloseAll \/ Break(d) PROVE UNCHANGED protocol
  BY <1>5 DEF CleanupIdle, CloseAll, Break
<1>6. ASSUME UNCHANGED vars PROVE UNCHANGED protocol
  BY <1>6 DEF vars
<1> QED
  BY <1>1, <1>2, <1>3, <1>4, <1>5, <1>6, Steps

LEMMA AnswersStep == BaseInv /\ AnswersInv /\ [Next]_vars => AnswersInv'
<1> SUFFICES ASSUME BaseInv, OneAwaits, StreamAnswers, ToldReply, protocol = "netconf",
                    [Next]_vars
             PROVE  OneAwaits' /\ StreamAnswers' /\ ToldReply'
  BY ProtocolStays DEF AnswersInv
<1>1. ASSUME UNCHANGED vars PROVE OneAwaits' /\ StreamAnswers' /\ ToldReply'
  BY <1>1 DEF vars, tables, OneAwaits, StreamAnswers, ToldReply, Awaits, Clear
<1>2. /\ \A c \in Callers : \A d \in Devices : ~Connect(c, d) /\ ~Disconnect(c, d)
      /\ \A c \in Callers : \A recorded \in BOOLEAN : ~StartSession(c, recorded)
      /\ \A c \in Callers : ~Track(c) /\ ~Close(c)
      /\ \A d \in Devices : ~CleanupIdle(d)
  <2>1. protocol # "ssh"
    OBVIOUS
  <2> QED
    BY <2>1, SshMoves
<1> QED
  BY <1>1, <1>2, Steps, AnswersByPassing, AnswersByDial, AnswersBySend, AnswersByRead,
     AnswersByEnds

-----------------------------------------------------------------------------
(* A command is recorded in the session of its connection                   *)

LinkPoints == {"track", "enter", "close"}
Links(c, d) == call[c].device = d /\ call[c].pc \in LinkPoints

(* The session the proxy has for d, if any, is open and of the connection n. *)
Paired(d, n) ==
  \/ tracked[d] \in {None, 0}
  \/ sessions[tracked[d]].conn = n /\ ~sessions[tracked[d]].ended

(* A Connect or Disconnect that is alone: no other is under way, and what   *)
(* is stored is what it stored.                                             *)
LinkFits(c) ==
  call[c].pc \in LinkPoints /\ call[c].alone =>
    /\ \A o \in Callers \ {c} : ~Links(o, call[c].device)
    /\ call[c].pc # "close" => stored[call[c].device] \in {0, call[c].conn}

SettledFits(d) ==
  d \in settled =>
    /\ \A c \in Callers : ~Links(c, d)
    /\ stored[d] = 0 \/ Paired(d, stored[d])

RunFits(c) ==
  call[c].pc \in {"run", "wait", "find"} /\ call[c].alone =>
    call[c].device \in settled /\ Paired(call[c].device, call[c].conn)

RecordFits(c) ==
  call[c].pc = "record" /\ call[c].alone =>
    LET s == call[c].session
    IN  /\ s \in DOMAIN sessions /\ sessions[s].device = call[c].device
        /\ sessions[s].conn = call[c].conn /\ ~sessions[s].ended

CallsFit == \A c \in Callers : LinkFits(c) /\ RunFits(c) /\ RecordFits(c)
AllSettledFit == \A d \in Devices : SettledFits(d)

RecordsInv == protocol = "ssh" => CallsFit /\ AllSettledFit

LEMMA BaseCalls == BaseInv => CallsGood
BY DEF BaseInv

(* A step of a Connect or Disconnect of d leaves what fits for the others.  *)
LEMMA OthersFit ==
  ASSUME BaseInv, SessionsInv, CallsFit, AllSettledFit, NEW c \in Callers, NEW d \in Devices,
         NEW entry \in Call, call' = [Disturb(d) EXCEPT ![c] = entry],
         entry.pc = "idle" \/ (entry.pc \in {"track", "close"} /\ entry.device = d),
         call[c].pc = "idle" \/ Links(c, d),
         \A e \in Devices \ {d} : stored'[e] = stored[e] /\ tracked'[e] = tracked[e],
         DOMAIN sessions \subseteq DOMAIN sessions',
         \A s \in DOMAIN sessions : sessions[s].device # d => sessions'[s] = sessions[s],
         settled' \ {d} = settled \ {d},
         LinkFits(c)', SettledFits(d)'
  PROVE  CallsFit' /\ AllSettledFit'
<1>1. Left(c, d, entry)
  BY BaseCalls, Disturbed
<1>2. \A o \in Callers : \A e \in Devices \ {d} : Links(o, e)' => Links(o, e)
  BY <1>1 DEF Left, Links, LinkPoints
<1>3. ASSUME NEW e \in Devices \ {d}, NEW n, Paired(e, n) PROVE Paired(e, n)'
  <2>1. CASE tracked[e] \in {None, 0}
    BY <1>3, <2>1 DEF Paired
  <2>2. CASE tracked[e] \notin {None, 0}
    <3>1. tracked[e] \in DOMAIN sessions /\ sessions[tracked[e]].device = e
      BY <2>2, Lengths DEF BaseInv, SessionsTyped, SessionsInv, TrackedOwn
    <3>2. sessions'[tracked'[e]] = sessions[tracked[e]] /\ tracked'[e] = tracked[e]
      BY <3>1
    <3> QED
      BY <1>3, <2>2, <3>2 DEF Paired
  <2> QED
    BY <2>1, <2>2
<1>4. ASSUME NEW o \in Callers \ {c} PROVE LinkFits(o)' /\ RunFits(o)' /\ RecordFits(o)'
  <2>1. CASE ~call'[o].alone
    BY <2>1 DEF LinkFits, RunFits, RecordFits
  <2>2. CASE call'[o].alone
    <3>1. PICK e : e = call[o].device
      OBVIOUS
    <3>2. e # d /\ call'[o] = call[o] /\ call[o].alone
      BY <1>1, <2>2, <3>1 DEF Left
    <3>3. LinkFits(o)'
      <4> SUFFICES ASSUME call'[o].pc \in LinkPoints
                   PROVE  /\ \A p \in Callers \ {o} : ~Links(p, e)'
                          /\ call[o].pc # "close" => stored'[e] \in {0, call[o].conn}
        BY <3>1, <3>2 DEF LinkFits, Links
      <4>1. e \in Devices \ {d}
        BY <3>1, <3>2, SshCalls DEF SshPoints, LinkPoints
      <4>2. /\ \A p \in Callers \ {o} : ~Links(p, e)
            /\ call[o].pc # "close" => stored[e] \in {0, call[o].conn}
        BY <3>1, <3>2 DEF CallsFit, LinkFits
      <4> QED
        BY <1>2, <4>1, <4>2
    <3>4. RunFits(o)'
      <4> SUFFICES ASSUME call'[o].pc \in {"run", "wait", "find"}
                   PROVE  e \in settled' /\ Paired(e, call[o].conn)'
        BY <3>1, <3>2 DEF RunFits, Paired
      <4>1. e \in Devices \ {d}
        BY <3>1, <3>2, SshCalls DEF SshPoints
      <4>2. PICK n : n = call[o].conn
        OBVIOUS
      <4>3. e \in settled /\ Paired(e, n)
        BY <3>1, <3>2, <4>2 DEF CallsFit, RunFits
      <4>4. Paired(e, n)' /\ call'[o].conn = n
        BY <1>3, <3>2, <4>1, <4>2, <4>3
      <4> QED
        BY <4>1, <4>3, <4>4 DEF Paired
    <3>5. RecordFits(o)'
      BY <3>1, <3>2 DEF CallsFit, RecordFits
    <3> QED
      BY <3>3, <3>4, <3>5
  <2> QED
    BY <2>1, <2>2
<1>5. RunFits(c)' /\ RecordFits(c)'
  BY <1>1 DEF Left, RunFits, RecordFits
<1>6. ASSUME NEW e \in Devices \ {d} PROVE SettledFits(e)'
  <2> SUFFICES ASSUME e \in settled
               PROVE  /\ \A o \in Callers : ~Links(o, e)'
                      /\ stored'[e] = 0 \/ Paired(e, stored[e])'
    BY DEF SettledFits
  <2>1. /\ \A o \in Callers : ~Links(o, e)
        /\ stored[e] = 0 \/ Paired(e, stored[e])
    BY DEF AllSettledFit, SettledFits
  <2>2. PICK n : n = stored[e]
    OBVIOUS
  <2>3. n = 0 \/ Paired(e, n)'
    BY <1>3, <2>1, <2>2
  <2> QED
    BY <1>2, <2>1, <2>2, <2>3 DEF Paired
<1>7. AllSettledFit'
  BY <1>6 DEF AllSettledFit
<1>8. CallsFit'
  BY <1>4, <1>5 DEF CallsFit
<1> QED
  BY <1>7, <1>8

LEMMA FitsByConnect ==
  ASSUME BaseInv, SessionsInv, CallsFit, AllSettledFit, NEW c \in Callers, NEW d \in Devices, Connect(c, d)
  PROVE  CallsFit' /\ AllSettledFit'
<1> DEFINE n == Len(conns) + 1
           entry == Linked(d, n, Linking(d) = {})
<1>1. /\ conns' = Append(conns, NewConnection(d, FALSE)) /\ Len(conns) < MaxConnections
      /\ stored' = [stored EXCEPT ![d] = Len(conns')]
      /\ call' = [Disturb(d) EXCEPT ![c] = Linked(d, Len(conns'), Linking(d) = {})]
      /\ settled' = settled \ {d} /\ call[c].pc = "idle"
      /\ UNCHANGED <<tracked, sessions>>
  BY DEF Connect, Linked
<1>2. Len(conns') = n /\ n \in Nat
  <2>1. NewConnection(d, FALSE) \in Connection
    BY NewType
  <2> QED
    BY <1>1, <2>1, ConnAdded, Lengths DEF BaseInv
<1>3. /\ entry \in Call /\ entry.pc = "track" /\ entry.device = d /\ entry.conn = n
      /\ entry.alone = (Linking(d) = {})
  BY <1>2, LinkedType
<1>4. call' = [Disturb(d) EXCEPT ![c] = entry]
  BY <1>1, <1>2
<1> HIDE DEF entry, n
<1>5. Left(c, d, entry)
  BY <1>3, <1>4, BaseCalls, Disturbed
<1>6. stored'[d] = n /\ \A e \in Devices \ {d} : stored'[e] = stored[e]
  BY <1>1, <1>2 DEF BaseInv, ConnsTyped
<1>7. LinkFits(c)'
  BY <1>3, <1>5, <1>6 DEF Left, LinkFits, Links, LinkPoints, Linking
<1>8. SettledFits(d)'
  BY <1>1 DEF SettledFits
<1>9. \A e \in Devices \ {d} : stored'[e] = stored[e] /\ tracked'[e] = tracked[e]
  BY <1>1, <1>6
<1> QED
  BY <1>1, <1>3, <1>4, <1>7, <1>8, <1>9, OthersFit

LEMMA FitsByDisconnect ==
  ASSUME BaseInv, SessionsInv, CallsFit, AllSettledFit, NEW c \in Callers, NEW d \in Devices,
         Disconnect(c, d)
  PROVE  CallsFit' /\ AllSettledFit'
<1> DEFINE entry == Unlinked(d, Linking(d) = {})
<1>1. /\ call' = [Disturb(d) EXCEPT ![c] = entry]
      /\ settled' = settled \ {d} /\ call[c].pc = "idle" /\ UNCHANGED stored
  BY DEF Disconnect, Unlinked
<1>2. /\ DOMAIN sessions' = DOMAIN sessions
      /\ \A s \in DOMAIN sessions : s # tracked[d] => sessions'[s] = sessions[s]
      /\ \A e \in Devices \ {d} : tracked'[e] = tracked[e]
  BY DisconnectEffect
<1>3. /\ entry \in Call /\ entry.pc = "close" /\ entry.device = d
      /\ entry.alone = (Linking(d) = {})
  BY UnlinkedType
<1> HIDE DEF entry
<1>4. Left(c, d, entry)
  BY <1>1, <1>3, BaseCalls, Disturbed
<1>5. LinkFits(c)'
  BY <1>3, <1>4 DEF Left, LinkFits, Links, LinkPoints, Linking
<1>6. SettledFits(d)'
  BY <1>1 DEF SettledFits
<1>7. \A s \in DOMAIN sessions : sessions[s].device # d => sessions'[s] = sessions[s]
  BY <1>2, ConnDevice DEF SessionsInv, TrackedOwn
<1>8. \A e \in Devices \ {d} : stored'[e] = stored[e] /\ tracked'[e] = tracked[e]
  BY <1>1, <1>2
<1> QED
  BY <1>1, <1>2, <1>3, <1>5, <1>6, <1>7, <1>8, OthersFit

(* A Connect or Disconnect that ends, alone, settles the device.            *)
LEMMA LastLink ==
  ASSUME BaseInv, SessionsInv, CallsFit, AllSettledFit, NEW c \in Callers, NEW d \in Devices,
         call' = [Disturb(d) EXCEPT ![c] = Idle], Links(c, d),
         settled' = IF call[c].alone THEN settled \union {d} ELSE settled
  PROVE  /\ LinkFits(c)'
         /\ d \in settled' => call[c].alone /\ \A o \in Callers : ~Links(o, d)'
         /\ settled' \ {d} = settled \ {d}
<1>1. Left(c, d, Idle)
  BY IdleType, BaseCalls, Disturbed
<1>2. call'[c].pc = "idle"
  BY <1>1, IdleType DEF Left
<1>3. ASSUME d \in settled' PROVE call[c].alone /\ \A o \in Callers : ~Links(o, d)'
  <2>1. call[c].alone
    BY <1>3 DEF AllSettledFit, SettledFits
  <2>2. \A o \in Callers \ {c} : ~Links(o, d)
    BY <2>1 DEF CallsFit, LinkFits, Links
  <2> QED
    BY <1>1, <1>2, <2>1, <2>2 DEF Links, LinkPoints, Left
<1>4. LinkFits(c)'
  BY <1>2 DEF LinkFits, LinkPoints
<1> QED
  BY <1>3, <1>4

LEMMA FitsByStart ==
  ASSUME BaseInv, SessionsInv, CallsFit, AllSettledFit, NEW c \in Callers,
         NEW recorded \in BOOLEAN, StartSession(c, recorded)
  PROVE  CallsFit' /\ AllSettledFit'
<1>0. PICK m, s : m = Len(sessions) + 1 /\ s = IF recorded THEN m ELSE 0
  OBVIOUS
<1>a. Starts(c, recorded, m, s)
  BY <1>0, StartEffect
<1>1. /\ call[c].pc = "track" /\ DOMAIN sessions \subseteq DOMAIN sessions'
      /\ \A t \in DOMAIN sessions : sessions'[t] = sessions[t]
  BY <1>a DEF Starts
<1>2. UNCHANGED <<stored, tracked, settled>>
  BY DEF StartSession
<1>3. /\ call'[c].pc = "enter" /\ call'[c].device = call[c].device
      /\ call'[c].conn = call[c].conn /\ call'[c].alone = call[c].alone
      /\ \A o \in Callers \ {c} : call'[o] = call[o]
  BY <1>a, StartMoves
<1>4. \A o \in Callers : \A e : Links(o, e)' <=> Links(o, e)
  BY <1>1, <1>3 DEF Links, LinkPoints
<1>5. ASSUME NEW e \in Devices, NEW n, Paired(e, n) PROVE Paired(e, n)'
  <2>1. tracked[e] \in {None, 0} \/ tracked[e] \in DOMAIN sessions
    BY Lengths DEF BaseInv, SessionsTyped
  <2> QED
    BY <1>1, <1>2, <1>5, <2>1 DEF Paired
<1>6. ASSUME NEW o \in Callers PROVE LinkFits(o)'
  <2> SUFFICES ASSUME call'[o].pc \in LinkPoints, call'[o].alone, NEW e, e = call'[o].device
               PROVE  /\ \A p \in Callers \ {o} : ~Links(p, e)'
                      /\ call'[o].pc # "close" => stored'[e] \in {0, call'[o].conn}
    BY DEF LinkFits, Links
  <2>1. /\ call[o].pc \in LinkPoints /\ call[o].alone /\ e = call[o].device
        /\ call[o].pc = "close" <=> call'[o].pc = "close"
        /\ call'[o].conn = call[o].conn
    BY <1>1, <1>3 DEF LinkPoints
  <2>2. /\ \A p \in Callers \ {o} : ~Links(p, e)
        /\ call[o].pc # "close" => stored[e] \in {0, call[o].conn}
    BY <2>1 DEF CallsFit, LinkFits
  <2> QED
    BY <1>2, <1>4, <2>1, <2>2
<1>7. ASSUME NEW o \in Callers PROVE RunFits(o)'
  <2> SUFFICES ASSUME call'[o].pc \in {"run", "wait", "find"}, call'[o].alone,
                      NEW e, e = call'[o].device, NEW n, n = call'[o].conn
               PROVE  e \in settled' /\ Paired(e, n)'
    BY DEF RunFits, Paired
  <2>1. o # c /\ call'[o] = call[o]
    BY <1>3
  <2>2. e \in settled /\ Paired(e, n)
    BY <2>1 DEF CallsFit, RunFits
  <2>3. e \in Devices
    BY <2>1, SshCalls DEF SshPoints
  <2> QED
    BY <1>2, <1>5, <2>2, <2>3
<1>8. ASSUME NEW o \in Callers PROVE RecordFits(o)'
  <2>1. CASE o = c
    BY <1>3, <2>1 DEF RecordFits
  <2>2. CASE o # c
    BY <1>1, <1>3, <2>2 DEF CallsFit, RecordFits
  <2> QED
    BY <2>1, <2>2
<1>9. ASSUME NEW e \in Devices PROVE SettledFits(e)'
  <2> SUFFICES ASSUME e \in settled, NEW n, n = stored[e]
               PROVE  (\A o \in Callers : ~Links(o, e)') /\ (n = 0 \/ Paired(e, n)')
    BY <1>2 DEF SettledFits, Paired
  <2>1. (\A o \in Callers : ~Links(o, e)) /\ (n = 0 \/ Paired(e, n))
    BY DEF AllSettledFit, SettledFits
  <2> QED
    BY <1>4, <1>5, <2>1
<1> QED
  BY <1>6, <1>7, <1>8, <1>9 DEF CallsFit, AllSettledFit

LEMMA FitsByTrack ==
  ASSUME BaseInv, SessionsInv, CallsFit, AllSettledFit, NEW c \in Callers, Track(c)
  PROVE  CallsFit' /\ AllSettledFit'
<1>0. PICK d, s : d = call[c].device /\ s = call[c].session
  OBVIOUS
<1>1. /\ call[c].pc = "enter" /\ call' = [Disturb(d) EXCEPT ![c] = Idle] /\ UNCHANGED stored
      /\ settled' = IF call[c].alone THEN settled \union {d} ELSE settled
  BY <1>0 DEF Track
<1>2. /\ d \in Devices /\ sessions' = sessions /\ tracked'[d] = s
      /\ \A e \in Devices \ {d} : tracked'[e] = tracked[e]
  BY <1>0, TrackEffect
<1>3. Links(c, d)
  BY <1>0, <1>1 DEF Links, LinkPoints
<1>4. /\ LinkFits(c)'
      /\ d \in settled' => call[c].alone /\ \A o \in Callers : ~Links(o, d)'
      /\ settled' \ {d} = settled \ {d}
  BY <1>1, <1>2, <1>3, LastLink
<1>5. SettledFits(d)'
  <2>1. call[c].alone => stored[d] \in {0, call[c].conn}
    BY <1>0, <1>1 DEF CallsFit, LinkFits, LinkPoints
  <2>2. s = 0 \/ (sessions[s].conn = call[c].conn /\ ~sessions[s].ended)
    BY <1>0, <1>1 DEF SessionsInv, EnterFits
  <2> QED
    BY <1>1, <1>2, <1>4, <2>1, <2>2 DEF SettledFits, Paired
<1>6. \A e \in Devices \ {d} : stored'[e] = stored[e] /\ tracked'[e] = tracked[e]
  BY <1>1, <1>2
<1> QED
  BY <1>1, <1>2, <1>3, <1>4, <1>5, <1>6, IdleType, OthersFit

LEMMA FitsByClose ==
  ASSUME BaseInv, SessionsInv, CallsFit, AllSettledFit, NEW c \in Callers, Close(c)
  PROVE  CallsFit' /\ AllSettledFit'
<1>0. PICK d : d = call[c].device
  OBVIOUS
<1>1. /\ call[c].pc = "close" /\ call' = [Disturb(d) EXCEPT ![c] = Idle]
      /\ stored' = [stored EXCEPT ![d] = 0]
      /\ settled' = IF call[c].alone THEN settled \union {d} ELSE settled
      /\ UNCHANGED <<tracked, sessions>>
  BY <1>0 DEF Close
<1>2. Links(c, d) /\ d \in Devices
  BY <1>0, <1>1, SshCalls DEF Links, LinkPoints, SshPoints
<1>3. stored'[d] = 0 /\ \A e \in Devices \ {d} : stored'[e] = stored[e]
  BY <1>1, <1>2 DEF BaseInv, ConnsTyped
<1>4. /\ LinkFits(c)'
      /\ d \in settled' => call[c].alone /\ \A o \in Callers : ~Links(o, d)'
      /\ settled' \ {d} = settled \ {d}
  BY <1>1, <1>2, LastLink
<1>5. SettledFits(d)'
  BY <1>3, <1>4 DEF SettledFits
<1>6. \A e \in Devices \ {d} : stored'[e] = stored[e] /\ tracked'[e] = tracked[e]
  BY <1>1, <1>3
<1> QED
  BY <1>1, <1>2, <1>4, <1>5, <1>6, IdleType, OthersFit

(* Only stored changes, to nothing, or only conns.                          *)
LEMMA FitsByForgotten ==
  ASSUME CallsFit, AllSettledFit, UNCHANGED <<tracked, sessions, settled, call>>,
         \A d \in Devices : stored'[d] \in {0, stored[d]}, BaseInv
  PROVE  CallsFit' /\ AllSettledFit'
<1>1. ASSUME NEW c \in Callers PROVE LinkFits(c)' /\ RunFits(c)' /\ RecordFits(c)'
  <2>1. LinkFits(c) /\ RunFits(c) /\ RecordFits(c)
    BY DEF CallsFit
  <2>2. call[c].pc \in LinkPoints => call[c].device \in Devices
    BY SshCalls DEF SshPoints, LinkPoints
  <2> QED
    BY <2>1, <2>2 DEF LinkFits, RunFits, RecordFits, Links, Paired
<1>2. ASSUME NEW d \in Devices PROVE SettledFits(d)'
  <2>1. SettledFits(d)
    BY DEF AllSettledFit
  <2> QED
    BY <2>1 DEF SettledFits, Links, Paired
<1> QED
  BY <1>1, <1>2 DEF CallsFit, AllSettledFit

(* A step of a command.                                                     *)
LEMMA OthersRun ==
  ASSUME BaseInv, SessionsInv, CallsFit, AllSettledFit, NEW c \in Callers, UNCHANGED tables,
         \A o \in Callers \ {c} : call'[o] = call[o],
         call'[c].pc \notin LinkPoints, RunFits(c)', RecordFits(c)'
  PROVE  CallsFit' /\ AllSettledFit'
<1>1. UNCHANGED <<stored, tracked, sessions, settled>>
  BY DEF tables
<1>2. \A o \in Callers : \A e : Links(o, e)' => Links(o, e)
  BY DEF Links
<1>3. ASSUME NEW o \in Callers \ {c} PROVE LinkFits(o)' /\ RunFits(o)' /\ RecordFits(o)'
  <2>1. LinkFits(o) /\ RunFits(o) /\ RecordFits(o) /\ call'[o] = call[o]
    BY DEF CallsFit
  <2>2. LinkFits(o)'
    <3> SUFFICES ASSUME call[o].pc \in LinkPoints, call[o].alone
                 PROVE  /\ \A p \in Callers \ {o} : ~Links(p, call[o].device)'
                        /\ call[o].pc # "close" => stored[call[o].device] \in {0, call[o].conn}
      BY <1>1, <2>1 DEF LinkFits
    <3>1. PICK e : e = call[o].device
      OBVIOUS
    <3>2. \A p \in Callers \ {o} : ~Links(p, e)
      BY <2>1, <3>1 DEF LinkFits
    <3>3. \A p \in Callers \ {o} : ~Links(p, e)'
      BY <1>2, <3>2
    <3> QED
      BY <2>1, <3>1, <3>3 DEF LinkFits, Links
  <2> QED
    BY <1>1, <2>1, <2>2 DEF RunFits, RecordFits, Paired
<1>4. LinkFits(c)'
  BY DEF LinkFits
<1>5. ASSUME NEW d \in Devices PROVE SettledFits(d)'
  <2>1. SettledFits(d)
    BY DEF AllSettledFit
  <2> QED
    BY <1>1, <1>2, <2>1 DEF SettledFits, Paired
<1> QED
  BY <1>3, <1>4, <1>5 DEF CallsFit, AllSettledFit

LEMMA FitsByPassing ==
  ASSUME BaseInv, SessionsInv, CallsFit, AllSettledFit, protocol = "ssh", NEW c \in Callers, Passing(c)
  PROVE  CallsFit' /\ AllSettledFit'
<1>1. UNCHANGED tables /\ CallsGood
  BY PassingSteps, BaseCalls DEF Passes
<1>2. /\ UNCHANGED <<stored, tracked, sessions, settled>>
      /\ DOMAIN sessions' = DOMAIN sessions
  BY <1>1 DEF tables
<1>3. \A entry : call' = [call EXCEPT ![c] = entry] =>
        call'[c] = entry /\ \A o \in Callers \ {c} : call'[o] = call[o]
  BY <1>1, CallMoves
<1>4. ASSUME call' = [call EXCEPT ![c] = Idle] PROVE CallsFit' /\ AllSettledFit'
  <2>1. call'[c].pc = "idle" /\ \A o \in Callers \ {c} : call'[o] = call[o]
    BY <1>3, <1>4, IdleType
  <2>2. RunFits(c)' /\ RecordFits(c)'
    BY <2>1 DEF RunFits, RecordFits
  <2> QED
    BY <1>1, <2>1, <2>2, OthersRun DEF LinkPoints
<1>5. ASSUME NEW d \in Devices, Run(c, d) PROVE CallsFit' /\ AllSettledFit'
  <2>1. stored[d] # 0 /\ call' = [call EXCEPT ![c] = Running(d)]
    BY <1>5 DEF Run, Running
  <2>2. /\ Running(d).pc = "run" /\ Running(d).device = d
        /\ Running(d).conn = stored[d] /\ (Running(d).alone <=> d \in settled)
    BY <2>1, RunningType
  <2>3. call'[c] = Running(d) /\ \A o \in Callers \ {c} : call'[o] = call[o]
    BY <1>3, <2>1
  <2>4. d \in settled => Paired(d, stored[d])
    BY <2>1 DEF AllSettledFit, SettledFits
  <2>5. RunFits(c)'
    BY <1>2, <2>2, <2>3, <2>4 DEF RunFits, Paired
  <2>6. RecordFits(c)' /\ call'[c].pc \notin LinkPoints
    BY <2>2, <2>3 DEF RecordFits, LinkPoints
  <2> QED
    BY <1>1, <2>3, <2>5, <2>6, OthersRun
<1>6. ASSUME NEW failed \in BOOLEAN, Begin(c, failed) \/ Finish(c, failed)
      PROVE  CallsFit' /\ AllSettledFit'
  <2>1. PICK pc \in {"wait", "find"} :
          /\ call[c].pc \in {"run", "wait"}
          /\ call' = [call EXCEPT ![c] = Idle] \/ call' = [call EXCEPT ![c] = Goes(c, pc)]
    BY <1>6, GoesOn
  <2>2. CASE call' = [call EXCEPT ![c] = Goes(c, pc)]
    <3>1. call[c] \in Call
      BY <1>1, GoodEntry
    <3>2. /\ Goes(c, pc).pc = pc /\ Goes(c, pc).device = call[c].device
          /\ Goes(c, pc).conn = call[c].conn /\ Goes(c, pc).alone = call[c].alone
      BY <3>1, GoesType
    <3>3. call'[c] = Goes(c, pc) /\ \A o \in Callers \ {c} : call'[o] = call[o]
      BY <1>3, <2>2
    <3>4. RunFits(c)
      BY DEF CallsFit
    <3>5. RunFits(c)'
      BY <1>2, <2>1, <3>2, <3>3, <3>4 DEF RunFits, Paired
    <3>6. RecordFits(c)' /\ call'[c].pc \notin LinkPoints
      BY <3>2, <3>3 DEF RecordFits, LinkPoints
    <3> QED
      BY <1>1, <3>3, <3>5, <3>6, OthersRun
  <2> QED
    BY <1>4, <2>1, <2>2
<1>7. ASSUME Find(c) PROVE CallsFit' /\ AllSettledFit'
  <2>0. PICK d, s : d = call[c].device /\ s = tracked[d]
    OBVIOUS
  <2>1. /\ call[c].pc = "find"
        /\ \/ call' = [call EXCEPT ![c] = Idle]
           \/ call' = [call EXCEPT ![c] = Found(c)] /\ s \notin {None, 0}
    BY <1>7, <2>0 DEF Find, Found
  <2>2. CASE call' = [call EXCEPT ![c] = Found(c)] /\ s \notin {None, 0}
    <3>1. call[c] \in Call /\ d \in Devices
      BY <2>0, <2>1, SshCalls DEF SshPoints
    <3>2. s \in DOMAIN sessions /\ s \in Nat /\ sessions[s].device = d
      BY <2>0, <2>2, <3>1, Lengths DEF BaseInv, SessionsTyped, SessionsInv, TrackedOwn
    <3>3. /\ Found(c).pc = "record" /\ Found(c).device = d
          /\ Found(c).conn = call[c].conn /\ Found(c).alone = call[c].alone
          /\ Found(c).session = s
      BY <2>0, <3>1, <3>2, FoundType
    <3>4. call'[c] = Found(c) /\ \A o \in Callers \ {c} : call'[o] = call[o]
      BY <1>3, <2>2
    <3>5. call[c].alone => sessions[s].conn = call[c].conn /\ ~sessions[s].ended
      BY <2>0, <2>1, <2>2 DEF CallsFit, RunFits, Paired
    <3>6. RecordFits(c)'
      BY <1>2, <3>2, <3>3, <3>4, <3>5 DEF RecordFits
    <3>7. RunFits(c)' /\ call'[c].pc \notin LinkPoints
      BY <3>3, <3>4 DEF RunFits, LinkPoints
    <3> QED
      BY <1>1, <3>4, <3>6, <3>7, OthersRun
  <2> QED
    BY <1>4, <2>1, <2>2
<1>8. Record(c) => call' = [call EXCEPT ![c] = Idle]
  BY DEF Record
<1>9. /\ ~NoDial(c)
      /\ \A d \in Devices : ~LookPool(c, d)
      /\ \A again \in BOOLEAN : ~Leave(c, again)
  BY NetconfCalls DEF NoDial, LookPool, Leave, NetconfPoints
<1> QED
  BY <1>4, <1>5, <1>6, <1>7, <1>8, <1>9 DEF Passing

LEMMA RecordsStep == BaseInv /\ SessionsInv /\ RecordsInv /\ [Next]_vars => RecordsInv'
<1> SUFFICES ASSUME BaseInv, SessionsInv, CallsFit, AllSettledFit, protocol = "ssh", [Next]_vars
             PROVE  CallsFit' /\ AllSettledFit'
  BY ProtocolStays DEF RecordsInv
<1>1. ASSUME NEW d \in Devices, CleanupIdle(d) PROVE CallsFit' /\ AllSettledFit'
  <2>1. UNCHANGED <<tracked, sessions, settled, call>> /\ Shut(d)
    BY <1>1 DEF CleanupIdle, Shut
  <2>2. \A e \in Devices : stored'[e] \in {0, stored[e]}
    BY <2>1, ShutEffect
  <2> QED
    BY <2>1, <2>2, FitsByForgotten
<1>2. ASSUME UNCHANGED <<stored, tracked, sessions, settled, call>>
      PROVE  CallsFit' /\ AllSettledFit'
  BY <1>2, FitsByForgotten
<1>3. ASSUME NEW n, Break(n) PROVE CallsFit' /\ AllSettledFit'
  BY <1>2, <1>3 DEF Break
<1>4. ASSUME UNCHANGED vars PROVE CallsFit' /\ AllSettledFit'
  BY <1>2, <1>4 DEF vars, tables
<1>5. /\ \A c \in Callers : \A split \in BOOLEAN : ~Dial(c, split)
      /\ \A c \in Callers : ~Send(c) /\ \A k : ~Read(c, k)
      /\ ~CloseAll
  BY NetconfCalls DEF Dial, Send, Read, CloseAll, NetconfPoints
<1> QED
  BY <1>1, <1>3, <1>4, <1>5, Steps, FitsByPassing, FitsByConnect, FitsByStart,
     FitsByTrack, FitsByDisconnect, FitsByClose

ToldInv == BaseInv /\ SessionsInv /\ AnswersInv /\ RecordsInv

LEMMA ToldFromInv == ToldInv => ToldItsOwn
<1> SUFFICES ASSUME BaseInv, AnswersInv, RecordsInv, NEW c \in Callers
             PROVE  /\ call[c].pc = "told" /\ Clear(call[c].conn)
                         => call[c].reply = call[c].request
                    /\ call[c].pc = "record" /\ call[c].alone
                         => /\ sessions[call[c].session].conn = call[c].conn
                            /\ ~sessions[call[c].session].ended
  BY DEF ToldInv, ToldItsOwn, Clear
<1>1. call[c].pc = "told" => protocol = "netconf"
  BY NetconfCalls DEF NetconfPoints
<1>2. call[c].pc = "record" => protocol = "ssh"
  BY SshCalls DEF SshPoints
<1> QED
  BY <1>1, <1>2 DEF AnswersInv, ToldReply, RecordsInv, CallsFit, RecordFits

(* A caller is told of its own request or command: over NETCONF the reply   *)
(* read is that to the request sent, over SSH the command is recorded in    *)
(* the open session of the connection it ran on.                            *)
THEOREM RepliesAreOwn == Spec => []ToldItsOwn
<1>1. Init => ToldInv
  <2> SUFFICES ASSUME Init PROVE AnswersInv /\ RecordsInv
    BY BaseInit, SessionsInit DEF ToldInv
  <2>1. /\ conns = <<>> /\ settled = {} /\ call = [c \in Callers |-> Idle]
    BY DEF Init
  <2>2. \A c \in Callers : call[c].pc = "idle"
    BY <2>1, IdleType
  <2>3. OneAwaits /\ StreamAnswers /\ ToldReply
    BY <2>1, <2>2 DEF OneAwaits, StreamAnswers, ToldReply, Awaits
  <2>4. CallsFit /\ AllSettledFit
    BY <2>1, <2>2 DEF CallsFit, AllSettledFit, LinkFits, RunFits, RecordFits, SettledFits,
       LinkPoints
  <2> QED
    BY <2>3, <2>4 DEF AnswersInv, RecordsInv
<1>2. ToldInv /\ [Next]_vars => ToldInv'
  BY BaseStep, SessionsStep, AnswersStep, RecordsStep DEF ToldInv
<1> QED
  BY <1>1, <1>2, ToldFromInv, PTL DEF Spec

=============================================================================
