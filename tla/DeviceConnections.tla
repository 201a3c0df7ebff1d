-------------------------- MODULE DeviceConnections --------------------------
(***************************************************************************)
(* The connections to devices of internal/proxy: the SSH adapter with the  *)
(* connections and recording sessions the proxy keeps over it, and the     *)
(* NETCONF adapter with its pool.                                          *)
(*                                                                         *)
(* Both keep a map of connections under a lock of its own; a process here  *)
(* uses one of them.  A connection is a number, in the order of dialling;  *)
(* what a device sends over a NETCONF connection is a stream of messages.  *)
(***************************************************************************)
EXTENDS Integers, Sequences, FiniteSets

CONSTANTS
  Callers,         (* goroutines                                            *)
  Devices,
  Protocols,       (* to choose from: "ssh", "netconf"                      *)
  MaxSessions,     (* the limit of the NETCONF pool                         *)
  None,
  MaxConnections, MaxCommands,   (* bounds                                  *)
  MaxFailures      (* bound on connections that break, are idle or closed   *)

ASSUME ConnectionsAssumption ==
  /\ Protocols \subseteq {"ssh", "netconf"}
  /\ MaxSessions \in Nat /\ IsFiniteSet(Devices)
  /\ None \notin Devices /\ None \notin Nat
ASSUME ConnectionsBounds == MaxConnections \in Nat /\ MaxCommands \in Nat /\ MaxFailures \in Nat

(* open: not closed by the adapter.  dead: broken underneath.  split: the   *)
(* device's hello came in more than one read.  stream: what the device sent *)
(* and nobody read, 0 for the rest of a hello, else the request it answers. *)
Connection == [device : Devices, open : BOOLEAN, dead : BOOLEAN, split : BOOLEAN,
               stream : Seq(Nat)]

(* A recording session, with the connection of the Connect that started it. *)
Session == [device : Devices, conn : Nat, ended : BOOLEAN]

VARIABLES
  protocol,   (* the adapter in use                                         *)
  conns,      (* all connections ever made                                  *)
  stored,     (* per device: the connection in the adapter's map, or 0      *)
  tracked,    (* Proxy.connections: per device its session, 0 if there is   *)
              (* none, or None                                              *)
  sessions,   (* all recording sessions ever started                        *)
  call,       (* per caller: its call in progress                           *)
  displaced,  (* history: connections and sessions that another was put     *)
              (* over, and connections the full pool did not take           *)
  settled,    (* history: devices whose last Connect or Disconnect was      *)
              (* alone on the device                                        *)
  commands, failures   (* so far                                            *)

tables == <<conns, stored, tracked, sessions, displaced, settled>>
vars == <<protocol, tables, call, commands, failures>>

(* SSH. Connect: "track" with the connection stored, "enter" with the       *)
(* session started. Disconnect: "close" with the session ended. A command:  *)
(* "run" with the connection found, "wait" with the command begun, "find"   *)
(* with its result, "record" with the session found.                        *)
(* NETCONF. Connect: "dial" with nothing in the pool, "hold" with a         *)
(* connection in hand. A request: "await" its reply, "told".                *)
Call == [pc      : {"idle", "track", "enter", "close", "run", "wait", "find",
                    "record", "dial", "hold", "await", "told"},
         device  : Devices \union {None},
         conn    : Nat,
         session : Nat,
         request : Nat,
         reply   : Nat,       (* the request whose reply was read, 0: none   *)
         alone   : BOOLEAN]   (* history: no Connect or Disconnect of the    *)
                              (* device meanwhile                            *)

Idle == [pc |-> "idle", device |-> None, conn |-> 0, session |-> 0, request |-> 0,
         reply |-> 0, alone |-> FALSE]

-------------------------------------------------------------------------------
Init ==
  /\ protocol \in Protocols
  /\ conns = <<>> /\ sessions = <<>>
  /\ stored = [d \in Devices |-> 0]
  /\ tracked = [d \in Devices |-> None]
  /\ call = [c \in Callers |-> Idle]
  /\ displaced = [conns |-> {}, sessions |-> {}]
  /\ settled = {}
  /\ commands = 0 /\ failures = 0

Linking(d) ==
  {c \in Callers : call[c].device = d /\ call[c].pc \in {"track", "enter", "close"}}

(* A Connect or Disconnect of d disturbs the calls on d.                    *)
Disturb(d) == [c \in Callers |-> IF call[c].device = d THEN [call[c] EXCEPT !.alone = FALSE]
                                                       ELSE call[c]]

NewConnection(d, split) ==
  [device |-> d, open |-> TRUE, dead |-> FALSE, split |-> split,
   stream |-> IF split THEN <<0>> ELSE <<>>]

(* A connection put over another that is in the map.                        *)
Over(d) == IF stored[d] = 0 THEN {} ELSE {stored[d]}

-------------------------------------------------------------------------------
(* The proxy over SSH                                                      *)

(* Connect: the adapter dials and puts the connection into its map.  If it  *)
(* cannot nothing changes.                                                  *)
Connect(c, d) ==
  /\ protocol = "ssh" /\ call[c].pc = "idle" /\ Len(conns) < MaxConnections
  /\ conns' = Append(conns, NewConnection(d, FALSE))
  /\ stored' = [stored EXCEPT ![d] = Len(conns')]
  /\ displaced' = [displaced EXCEPT !.conns = @ \union Over(d)]
  /\ call' = [Disturb(d) EXCEPT ![c] = [Idle EXCEPT !.pc = "track", !.device = d,
                                          !.conn = Len(conns'), !.alone = Linking(d) = {}]]
  /\ settled' = settled \ {d}
  /\ UNCHANGED <<protocol, tracked, sessions, commands, failures>>

(* ... and the proxy starts a session, with a recorder and an operator if   *)
(* that does not fail ...                                                   *)
StartSession(c, recorded) ==
  /\ call[c].pc = "track"
  /\ sessions' = IF ~recorded THEN sessions
                 ELSE Append(sessions, [device |-> call[c].device, conn |-> call[c].conn,
                                        ended |-> FALSE])
  /\ call' = [call EXCEPT ![c] = [@ EXCEPT !.pc = "enter",
                                   !.session = IF recorded THEN Len(sessions') ELSE 0]]
  /\ UNCHANGED <<protocol, conns, stored, tracked, displaced, settled, commands, failures>>

(* ... and puts its own entry over what it has.                             *)
Track(c) ==
  LET d   == call[c].device
      old == IF tracked[d] \in {None, 0} THEN {} ELSE {tracked[d]}
  IN  /\ call[c].pc = "enter"
      /\ tracked' = [tracked EXCEPT ![d] = call[c].session]
      /\ displaced' = [displaced EXCEPT !.sessions = @ \union old]
      /\ call' = [Disturb(d) EXCEPT ![c] = Idle]
      /\ settled' = IF call[c].alone THEN settled \union {d} ELSE settled
      /\ UNCHANGED <<protocol, conns, stored, sessions, commands, failures>>

(* Disconnect: the proxy ends the session and forgets the connection ...    *)
Disconnect(c, d) ==
  /\ protocol = "ssh" /\ call[c].pc = "idle" /\ commands < MaxCommands
  /\ sessions' = IF tracked[d] \in {None, 0} THEN sessions
                 ELSE [sessions EXCEPT ![tracked[d]].ended = TRUE]
  /\ tracked' = [tracked EXCEPT ![d] = None]
  /\ call' = [Disturb(d) EXCEPT ![c] = [Idle EXCEPT !.pc = "close", !.device = d,
                                                    !.alone = Linking(d) = {}]]
  /\ commands' = commands + 1
  /\ settled' = settled \ {d}
  /\ UNCHANGED <<protocol, conns, stored, displaced, failures>>

(* Bug: the connection is only forgotten.                                   *)
Forget(c) ==
  LET d == call[c].device
  IN  /\ call[c].pc = "close"
      /\ stored' = [stored EXCEPT ![d] = 0]
      /\ call' = [Disturb(d) EXCEPT ![c] = Idle]
      /\ settled' = IF call[c].alone THEN settled \union {d} ELSE settled
      /\ UNCHANGED <<protocol, conns, tracked, sessions, displaced, commands, failures>>

(* ... and the adapter closes what it has for the device.                   *)
Close(c) ==
  LET d == call[c].device
  IN  /\ call[c].pc = "close"
      /\ conns' = IF stored[d] = 0 THEN conns ELSE [conns EXCEPT ![stored[d]].open = FALSE]
      /\ stored' = [stored EXCEPT ![d] = 0]
      /\ call' = [Disturb(d) EXCEPT ![c] = Idle]
      /\ settled' = IF call[c].alone THEN settled \union {d} ELSE settled
      /\ UNCHANGED <<protocol, tracked, sessions, displaced, commands, failures>>

(* executeCommand: Execute finds the adapter's connection ...               *)
Run(c, d) ==
  /\ protocol = "ssh" /\ call[c].pc = "idle" /\ commands < MaxCommands
  /\ stored[d] # 0
  /\ call' = [call EXCEPT ![c] = [Idle EXCEPT !.pc = "run", !.device = d, !.conn = stored[d],
                                              !.alone = d \in settled]]
  /\ commands' = commands + 1
  /\ UNCHANGED <<protocol, tables, failures>>

(* ... and begins the command on it, which fails on a connection that is    *)
(* closed or broken ...                                                     *)
Begin(c, failed) ==
  /\ call[c].pc = "run"
  /\ failed \/ (conns[call[c].conn].open /\ ~conns[call[c].conn].dead)
  /\ call' = [call EXCEPT ![c] = IF failed THEN Idle ELSE [@ EXCEPT !.pc = "wait"]]
  /\ UNCHANGED <<protocol, tables, commands, failures>>

(* ... and comes back with a result, or with an error when the time is up.  *)
(* That the device failed, or the connection was closed or broke meanwhile, *)
(* is told in the result.                                                   *)
Finish(c, failed) ==
  /\ call[c].pc = "wait"
  /\ call' = [call EXCEPT ![c] = IF failed THEN Idle ELSE [@ EXCEPT !.pc = "find"]]
  /\ UNCHANGED <<protocol, tables, commands, failures>>

(* The result is recorded in the session the proxy has for the device then. *)
Find(c) ==
  LET d == call[c].device
  IN  /\ call[c].pc = "find"
      /\ call' = [call EXCEPT ![c] = IF tracked[d] \in {None, 0} THEN Idle
                                     ELSE [@ EXCEPT !.pc = "record", !.session = tracked[d]]]
      /\ UNCHANGED <<protocol, tables, commands, failures>>

Record(c) ==
  /\ call[c].pc = "record"
  /\ call' = [call EXCEPT ![c] = Idle]
  /\ UNCHANGED <<protocol, tables, commands, failures>>

(* CleanupIdleConnections closes and removes a connection of the adapter;   *)
(* the proxy keeps its entry.                                               *)
CleanupIdle(d) ==
  /\ protocol = "ssh" /\ stored[d] # 0 /\ failures < MaxFailures
  /\ conns' = [conns EXCEPT ![stored[d]].open = FALSE]
  /\ stored' = [stored EXCEPT ![d] = 0]
  /\ failures' = failures + 1
  /\ UNCHANGED <<protocol, tracked, sessions, displaced, settled, call, commands>>

-------------------------------------------------------------------------------
(* NETCONF                                                                 *)

(* Connect looks into the pool ...                                          *)
LookPool(c, d) ==
  /\ protocol = "netconf" /\ call[c].pc = "idle"
  /\ call' = [call EXCEPT ![c] = IF stored[d] = 0
                THEN [Idle EXCEPT !.pc = "dial", !.device = d]
                ELSE [Idle EXCEPT !.pc = "hold", !.device = d, !.conn = stored[d]]]
  /\ UNCHANGED <<protocol, tables, commands, failures>>

(* Bug: off by one.                                                         *)
DialOneMore(c, split) ==
  LET d    == call[c].device
      room == Cardinality({o \in Devices : stored[o] # 0}) <= MaxSessions
      n    == Len(conns) + 1
  IN  /\ call[c].pc = "dial" /\ n <= MaxConnections
      /\ conns' = Append(conns, NewConnection(d, split))
      /\ stored' = IF room THEN [stored EXCEPT ![d] = n] ELSE stored
      /\ displaced' = [displaced EXCEPT !.conns = @ \union (IF room THEN Over(d) ELSE {n})]
      /\ call' = [call EXCEPT ![c] = [@ EXCEPT !.pc = "hold", !.conn = n]]
      /\ UNCHANGED <<protocol, tracked, sessions, settled, commands, failures>>

(* ... and without a connection there makes one, reads the device's hello   *)
(* once, and puts it into the pool if that is not full.                     *)
Dial(c, split) ==
  LET d    == call[c].device
      room == Cardinality({o \in Devices : stored[o] # 0}) < MaxSessions
      n    == Len(conns) + 1
  IN  /\ call[c].pc = "dial" /\ n <= MaxConnections
      /\ conns' = Append(conns, NewConnection(d, split))
      /\ stored' = IF room THEN [stored EXCEPT ![d] = n] ELSE stored
      /\ displaced' = [displaced EXCEPT !.conns = @ \union (IF room THEN Over(d) ELSE {n})]
      /\ call' = [call EXCEPT ![c] = [@ EXCEPT !.pc = "hold", !.conn = n]]
      /\ UNCHANGED <<protocol, tracked, sessions, settled, commands, failures>>

NoDial(c) ==
  /\ call[c].pc = "dial"
  /\ call' = [call EXCEPT ![c] = Idle]
  /\ UNCHANGED <<protocol, tables, commands, failures>>

(* Bug: the connection is not locked.                                       *)
SendUnlocked(c) ==
  LET n == call[c].conn
  IN  /\ call[c].pc = "hold" /\ commands < MaxCommands
      /\ conns[n].open /\ ~conns[n].dead
      /\ commands' = commands + 1
      /\ conns' = [conns EXCEPT ![n].stream = Append(@, commands')]
      /\ call' = [call EXCEPT ![c] = [@ EXCEPT !.pc = "await", !.request = commands']]
      /\ UNCHANGED <<protocol, stored, tracked, sessions, displaced, settled, failures>>

(* Execute locks the connection and sends; the device answers in turn.      *)
(* What is sent over a connection that is closed or broken fails.           *)
Send(c) ==
  LET n == call[c].conn
  IN  /\ call[c].pc = "hold" /\ commands < MaxCommands
      /\ ~ \E o \in Callers : call[o].pc = "await" /\ call[o].conn = n
      /\ conns[n].open /\ ~conns[n].dead
      /\ commands' = commands + 1
      /\ conns' = [conns EXCEPT ![n].stream = Append(@, commands')]
      /\ call' = [call EXCEPT ![c] = [@ EXCEPT !.pc = "await", !.request = commands']]
      /\ UNCHANGED <<protocol, stored, tracked, sessions, displaced, settled, failures>>

(* It reads until what it has ends with the end marker: one message of      *)
(* those there, or several; the first is the reply.  The rest of a hello,   *)
(* and nothing at all over a connection that ended, is returned as it is.   *)
Read(c, k) ==
  LET n    == call[c].conn
      got  == conns[n].stream
      over == ~conns[n].open \/ conns[n].dead
  IN  /\ call[c].pc = "await" /\ k \in 0..Len(got) /\ (k = 0 => over)
      /\ conns' = [conns EXCEPT ![n].stream = SubSeq(@, k + 1, Len(@))]
      /\ call' = [call EXCEPT ![c] = [@ EXCEPT !.pc = "told", !.reply = IF k = 0 THEN 0 ELSE got[1]]]
      /\ UNCHANGED <<protocol, stored, tracked, sessions, displaced, settled, commands, failures>>

(* The caller goes on with its connection, or leaves it: Close of what it   *)
(* holds closes nothing.                                                    *)
Leave(c, again) ==
  /\ call[c].pc \in {"hold", "told"}
  /\ again => call[c].pc = "told"
  /\ call' = [call EXCEPT ![c] = IF again THEN [@ EXCEPT !.pc = "hold", !.request = 0, !.reply = 0]
                                          ELSE Idle]
  /\ UNCHANGED <<protocol, tables, commands, failures>>

(* The adapter's Close, also under a request.                               *)
CloseAll ==
  /\ protocol = "netconf" /\ failures < MaxFailures
  /\ conns' = [n \in DOMAIN conns |-> [conns[n] EXCEPT !.open = @ /\ \A d \in Devices : stored[d] # n]]
  /\ stored' = [d \in Devices |-> 0]
  /\ failures' = failures + 1
  /\ UNCHANGED <<protocol, tracked, sessions, displaced, settled, call, commands>>

(* The device ends the connection, or the network does; neither map knows.  *)
Break(n) ==
  /\ ~conns[n].dead /\ failures < MaxFailures
  /\ conns' = [conns EXCEPT ![n].dead = TRUE]
  /\ failures' = failures + 1
  /\ UNCHANGED <<protocol, stored, tracked, sessions, displaced, settled, call, commands>>

-------------------------------------------------------------------------------
SshCall(c) ==
  \/ \E d \in Devices : Connect(c, d) \/ Disconnect(c, d) \/ Run(c, d)
  \/ \E recorded \in BOOLEAN : StartSession(c, recorded)
  \/ Track(c)
  \/ Close(c)
  \/ \E failed \in BOOLEAN : Begin(c, failed) \/ Finish(c, failed)
  \/ Find(c)
  \/ Record(c)

NetconfCall(c) ==
  \/ \E d \in Devices : LookPool(c, d)
  \/ \E split \in BOOLEAN : Dial(c, split)
  \/ NoDial(c)
  \/ Send(c)
  \/ \E k \in 0..MaxCommands + 1 : Read(c, k)
  \/ \E again \in BOOLEAN : Leave(c, again)

Next ==
  \/ \E c \in Callers : SshCall(c) \/ NetconfCall(c)
  \/ \E d \in Devices : CleanupIdle(d)
  \/ CloseAll
  \/ \E n \in DOMAIN conns : Break(n)

Spec == Init /\ [][Next]_vars

-------------------------------------------------------------------------------
(* Properties                                                              *)

(* The types; the pool keeps to its limit.                                  *)
TypeOK ==
  /\ protocol \in Protocols
  /\ conns \in Seq(Connection) /\ Len(conns) <= MaxConnections
  /\ stored \in [Devices -> 0..Len(conns)]
  /\ sessions \in Seq(Session)
  /\ \A d \in Devices : tracked[d] = None \/ tracked[d] \in 0..Len(sessions)
  /\ call \in [Callers -> Call]
  /\ \A c \in Callers :
       /\ call[c].pc # "idle" => call[c].device # None
       /\ call[c].pc \in {"track", "enter", "run", "wait", "find", "record", "hold",
                         "await", "told"}
            => call[c].conn \in DOMAIN conns
  /\ displaced.conns \subseteq DOMAIN conns /\ displaced.sessions \subseteq DOMAIN sessions
  /\ settled \subseteq Devices
  /\ commands \in 0..MaxCommands /\ failures \in 0..MaxFailures
  /\ protocol = "netconf" => Cardinality({d \in Devices : stored[d] # 0}) <= MaxSessions

(* A session a Connect has started and not put into the proxy's map yet.    *)
Entering(s) == \E c \in Callers : call[c].pc = "enter" /\ call[c].session = s

(* The adapters hold every connection that is open, and none that they have *)
(* closed, and the proxy, or the Connect that started it, every session     *)
(* that has not ended: but for those another was put over and those a full  *)
(* pool did not take.                                                       *)
OpenIsHeld ==
  /\ \A n \in DOMAIN conns \ displaced.conns :
       conns[n].open <=> stored[conns[n].device] = n
  /\ \A s \in DOMAIN sessions \ displaced.sessions :
       ~sessions[s].ended <=> tracked[sessions[s].device] = s \/ Entering(s)

(* What a caller is told is of its own command.  NETCONF: the reply read is *)
(* that to the request sent, unless the hello came in pieces or the         *)
(* connection ended.  SSH: a command is recorded in the open session of the *)
(* connection it ran on, unless a Connect or Disconnect of the device       *)
(* overlapped with it or the last two of those with one another.            *)
ToldItsOwn ==
  \A c \in Callers :
    LET conn == conns[call[c].conn]
    IN  /\ call[c].pc = "told" /\ ~conn.split /\ conn.open /\ ~conn.dead
             => call[c].reply = call[c].request
        /\ call[c].pc = "record" /\ call[c].alone
             => /\ sessions[call[c].session].conn = call[c].conn
                /\ ~sessions[call[c].session].ended
===============================================================================
