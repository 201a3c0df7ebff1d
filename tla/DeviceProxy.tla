------------------------------ MODULE DeviceProxy ------------------------------
(***************************************************************************)
(* The device proxy's operations (internal/proxy/proxy.go) over the issuer:*)
(* a signed operation is checked against its capability token, executed on *)
(* its device, and then recorded as a use of the token.                    *)
(*                                                                         *)
(* The devices are resources of CapabilityIssuer with the type `device`.   *)
(***************************************************************************)
EXTENDS CapabilityIssuer

CONSTANTS
  Workers,       (* goroutines that execute operations                      *)
  DeviceType,    (* the type of devices among Types                         *)
  Kinds,         (* the actions of the three types of operations            *)
  MaxAge,        (* the age from which an operation is refused              *)
  Approvals,     (* numbers of approvals that tokens are presented with     *)
  MaxMessages, MaxPerformed   (* bounds                                     *)

ASSUME ProxyAssumption ==
  /\ DeviceType \in Types
  /\ Kinds \subseteq Actions
  /\ MaxAge \in Nat /\ Approvals \subseteq Nat
  /\ MaxMessages \in Nat /\ MaxPerformed \in Nat

VARIABLES
  messages,    (* the operations that operators have signed                 *)
  exec,        (* per worker: its call of ExecuteOperation                  *)
  performed    (* history: what devices have done, as numbers of messages   *)

proxyVars == <<messages, exec, performed>>
vars == <<issuerVars, proxyVars>>

Message == [token : Nat, approvals : Approvals, device : Names, action : Kinds, at : Nat]

(* ExecuteOperation: "execute" on the device and "record" the use.          *)
Exec == [pc : {"idle", "execute", "record"}, message : Nat]

Ready == [pc |-> "idle", message |-> 0]

-------------------------------------------------------------------------------
Init ==
  /\ IssuerInit
  /\ messages = <<>>
  /\ exec = [w \in Workers |-> Ready]
  /\ performed = <<>>

(* An operator signs an operation; it can be sent more than once.           *)
Compose(id, n, device, action) ==
  /\ Len(messages) < MaxMessages
  /\ messages' = Append(messages, [token |-> id, approvals |-> n, device |-> device,
                                   action |-> action, at |-> now])
  /\ UNCHANGED <<issuerVars, exec, performed>>

(* Bug: the grants of the token are looked up by their actions only.        *)
AcceptAnywhere(w, m) ==
  LET msg == messages[m]
  IN  /\ exec[w].pc = "idle"
      /\ now - msg.at <= MaxAge
      /\ Valid(msg.token)
      /\ \E name \in Names : Allows(tokens[msg.token], msg.action, DeviceType, name)
      /\ exec' = [exec EXCEPT ![w] = [pc |-> "execute", message |-> m]]
      /\ UNCHANGED <<issuerVars, messages, performed>>

(* ExecuteOperation checks the operation's age and its token.  One that     *)
(* fails a check, the rate limit, or has no adapter changes nothing.        *)
Accept(w, m) ==
  LET msg == messages[m]
  IN  /\ exec[w].pc = "idle"
      /\ now - msg.at <= MaxAge
      /\ Valid(msg.token)
      /\ Allows(tokens[msg.token], msg.action, DeviceType, msg.device)
      /\ exec' = [exec EXCEPT ![w] = [pc |-> "execute", message |-> m]]
      /\ UNCHANGED <<issuerVars, messages, performed>>

(* The device does it.  The adapter may report an error all the same: the   *)
(* caller has a failure and nothing is recorded.                            *)
Execute(w, failed) ==
  /\ exec[w].pc = "execute"
  /\ Len(performed) < MaxPerformed
  /\ performed' = Append(performed, exec[w].message)
  /\ exec' = [exec EXCEPT ![w] = IF failed THEN Ready ELSE [@ EXCEPT !.pc = "record"]]
  /\ UNCHANGED <<issuerVars, messages>>

(* Bug: the use is recorded although the adapter failed.                    *)
AbortRecords(w) ==
  /\ exec[w].pc = "execute"
  /\ exec' = [exec EXCEPT ![w] = [@ EXCEPT !.pc = "record"]]
  /\ UNCHANGED <<issuerVars, messages, performed>>

(* A command is blocked, needs a confirmation, is denied by the grant or    *)
(* missing, or the adapter fails before the device does anything.           *)
Abort(w) ==
  /\ exec[w].pc = "execute"
  /\ exec' = [exec EXCEPT ![w] = Ready]
  /\ UNCHANGED <<issuerVars, messages, performed>>

(* The use is recorded if Use lets it; the operation succeeds anyway, also  *)
(* if the count could not be written.                                       *)
Record(w, counted) ==
  LET msg == messages[exec[w].message]
  IN  /\ exec[w].pc = "record"
      /\ exec' = [exec EXCEPT ![w] = Ready]
      /\ IF counted THEN Use(msg.token, msg.approvals, msg.action, DeviceType, msg.device)
                    ELSE UNCHANGED issuerVars
      /\ UNCHANGED <<messages, performed>>

(* All of the process starts again, its calls end.                          *)
RestartAll ==
  /\ Restart
  /\ exec' = [w \in Workers |-> Ready]
  /\ UNCHANGED <<messages, performed>>

Operate(w) ==
  \/ \E m \in DOMAIN messages : Accept(w, m)
  \/ \E failed \in BOOLEAN : Execute(w, failed)
  \/ Abort(w)
  \/ \E counted \in BOOLEAN : Record(w, counted)

Next ==
  \/ \E c \in Callers : IssuerCall(c) /\ UNCHANGED proxyVars
  \/ Tick /\ UNCHANGED proxyVars
  \/ \E id \in DOMAIN tokens, n \in Approvals, device \in Names, action \in Kinds :
       Compose(id, n, device, action)
  \/ \E w \in Workers : Operate(w)
  \/ RestartAll

Spec == Init /\ [][Next]_vars

-------------------------------------------------------------------------------
(* Properties                                                              *)

TypeOK ==
  /\ IssuerTypeOK
  /\ messages \in Seq(Message) /\ Len(messages) <= MaxMessages
  /\ \A m \in DOMAIN messages : messages[m].token \in DOMAIN tokens
  /\ exec \in [Workers -> Exec]
  /\ \A w \in Workers : exec[w].pc # "idle" => exec[w].message \in DOMAIN messages
  /\ performed \in Seq(Nat)
  /\ \A i \in DOMAIN performed : performed[i] \in DOMAIN messages

(* A device does only what a token says that was asked of the policy engine *)
(* - the operation's own or the one it is delegated from - and only         *)
(* operations signed before that token's end.                               *)
Root(id) == IF tokens[id].parent = 0 THEN id ELSE tokens[id].parent

WithinGrant(m) ==
  LET msg  == messages[m]
      root == tokens[Root(msg.token)]
  IN  /\ Allows(root, msg.action, DeviceType, msg.device)
      /\ root.parent = 0
      /\ msg.at <= root.notAfter

PerformedWithinGrant == \A i \in DOMAIN performed : WithinGrant(performed[i])

(* No more uses of a token are recorded than devices did by it: a use is    *)
(* recorded once, and only of what was done.                                *)
Done(id) == {i \in DOMAIN performed : messages[performed[i]].token = id}

UsesArePerformed == \A id \in DOMAIN tokens : uses[id] <= Cardinality(Done(id))

-------------------------------------------------------------------------------
(* The inductive invariant behind the proofs                               *)

(* What is about to be performed is within its grant, and nothing is signed *)
(* in the future.                                                           *)
AcceptedWithinGrant == \A w \in Workers : exec[w].pc = "execute" => WithinGrant(exec[w].message)

SignedInThePast == \A m \in DOMAIN messages : messages[m].at <= now

(* The operations that are done and about to be recorded as uses of a token *)
(* are those left over by its count.                                        *)
Recording(id) == {w \in Workers : exec[w].pc = "record" /\ messages[exec[w].message].token = id}

UsesRecorded ==
  \A id \in Ids : /\ IsFiniteSet(Recording(id))
                  /\ uses[id] + Cardinality(Recording(id)) <= Cardinality(Done(id))
===============================================================================
