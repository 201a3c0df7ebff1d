--------------------------- MODULE CapabilityProofs ---------------------------
(***************************************************************************)
(* Proofs about the capability issuer and the device proxy over it.        *)
(***************************************************************************)
EXTENDS DeviceProxy, FiniteSetTheorems, TLAPS

-----------------------------------------------------------------------------
(* Tokens                                                                   *)

LEMMA NoneFresh == None \notin Grant /\ None \notin Delegation /\ None \notin Token
                   /\ None \notin Nat
BY CapabilityAssumption

(* What Delegate's filter leaves is a list of grants.                       *)
LEMMA DelegatedGrantsType ==
  ASSUME NEW p \in Token, NEW grants \in GrantList
  PROVE  DelegatedGrants(p, grants) \in GrantList
<1> DEFINE kept(i) == {a \in grants[i].actions \intersect p.delegation.actions :
                         Allows(p, a, grants[i].selector.type, grants[i].selector.id)}
           left(i) == IF grants[i] = None THEN None
                      ELSE IF kept(i) = {} THEN None
                      ELSE [grants[i] EXCEPT !.actions = kept(i)]
<1>1. ASSUME NEW i \in Positions PROVE left(i) \in Grant \union {None}
  <2>1. CASE grants[i] = None
    BY <2>1
  <2>2. CASE grants[i] # None
    <3>1. grants[i] \in Grant
      BY <2>2 DEF GrantList
    <3>2. kept(i) \subseteq Actions
      BY <3>1 DEF Grant
    <3> HIDE DEF kept
    <3>3. [grants[i] EXCEPT !.actions = kept(i)] \in Grant
      BY <3>1, <3>2 DEF Grant
    <3> QED
      BY <3>3
  <2> QED
    BY <2>1, <2>2
<1>2. DelegatedGrants(p, grants) = [i \in Positions |-> left(i)]
  BY DEF DelegatedGrants
<1> HIDE DEF left
<1> QED
  BY <1>1, <1>2 DEF GrantList

(* And it is narrower than the parent: a selector without an id is only     *)
(* allowed by one that takes every resource of its type.                    *)
LEMMA DelegatedGrantsNarrow ==
  ASSUME NEW p \in Token, NEW grants \in GrantList,
         NEW d \in Token, d.grants = DelegatedGrants(p, grants),
         NEW a \in Actions, NEW type \in Types, NEW name \in Names,
         Allows(d, a, type, name)
  PROVE  Allows(p, a, type, name)
<1> DEFINE kept(i) == {x \in grants[i].actions \intersect p.delegation.actions :
                         Allows(p, x, grants[i].selector.type, grants[i].selector.id)}
<1>1. PICK i \in Positions : /\ d.grants[i] # None
                             /\ Matches(d.grants[i].selector, type, name)
                             /\ a \in d.grants[i].actions
  BY DEF Allows, Granted
<1>2. grants[i] # None /\ kept(i) # {} /\ d.grants[i] = [grants[i] EXCEPT !.actions = kept(i)]
  BY <1>1 DEF DelegatedGrants
<1>3. grants[i] \in Grant
  BY <1>2 DEF GrantList
<1>4. d.grants[i].selector = grants[i].selector /\ d.grants[i].actions = kept(i)
  <2> HIDE DEF kept
  <2> QED
    BY <1>2, <1>3 DEF Grant
<1> DEFINE s == grants[i].selector
<1>5. Allows(p, a, s.type, s.id) /\ Matches(s, type, name)
  BY <1>1, <1>4
<1>6. CASE s.id = name
  BY <1>5, <1>6 DEF Matches
<1>7. CASE s.id = Blank
  <2>1. PICK j \in Positions : /\ p.grants[j] # None
                               /\ Matches(p.grants[j].selector, s.type, s.id)
                               /\ a \in p.grants[j].actions
    BY <1>5 DEF Allows, Granted
  <2>2. p.grants[j] \in Grant
    BY <2>1 DEF Token, GrantList
  <2>3. p.grants[j].selector \in Selectors
    BY <2>2 DEF Grant
  <2>4. p.grants[j].selector.ids = Names \union {Blank}
    BY <1>7, <2>1, <2>3, CapabilityAssumption DEF Matches
  <2>5. Matches(p.grants[j].selector, type, name)
    BY <1>5, <1>7, <2>1, <2>4 DEF Matches
  <2> QED
    BY <2>1, <2>5 DEF Allows, Granted
<1> QED
  BY <1>5, <1>6, <1>7 DEF Matches

(* Request approves lists of grants.                                        *)
LEMMA ApprovedGrantsType ==
  ASSUME NEW grants \in GrantList, NEW said \in [Granted(grants) -> [Actions -> Answers]]
  PROVE  ApprovedGrants(grants, said) \in GrantList
<1> DEFINE heard(i, answer) == {a \in grants[i].actions : said[i][a] = answer}
           taken(i) == IF grants[i] = None THEN None
                       ELSE [grants[i] EXCEPT
                               !.approval = @ \/ heard(i, "step_up") # {},
                               !.quorum = IF heard(i, "step_up") # {} THEN 1 ELSE @,
                               !.denied = heard(i, "deny")]
<1>1. ASSUME NEW i \in Positions, grants[i] # None PROVE taken(i) \in Grant
  <2>1. grants[i] \in Grant
    BY <1>1 DEF GrantList
  <2>2. heard(i, "deny") \subseteq Actions
    BY <2>1 DEF Grant
  <2> HIDE DEF heard
  <2> QED
    BY <1>1, <2>1, <2>2 DEF Grant
<1>2. ApprovedGrants(grants, said) = [i \in Positions |-> taken(i)]
  BY DEF ApprovedGrants
<1>3. \A i \in Positions : taken(i) \in Grant \union {None}
  <2>1. \A i \in Positions : grants[i] = None => taken(i) = None
    OBVIOUS
  <2> HIDE DEF taken
  <2> QED
    BY <1>1, <2>1
<1> HIDE DEF taken
<1> QED
  BY <1>2, <1>3 DEF GrantList

-----------------------------------------------------------------------------
(* Typing                                                                   *)

(* What a caller's locals must be, besides their types.                     *)
OpFits(o) ==
  /\ o.pc = "create" => o.draft # None
  /\ o.pc \in {"revoke", "note"} => o.token \in DOMAIN tokens
  /\ o.found \subseteq DOMAIN tokens

TypedMarked == IssuerTypeOK /\ Marked

LEMMA IdleType == Idle \in Op /\ Idle.pc = "idle" /\ OpFits(Idle)
BY DEF Idle, Op, OpFits

LEMMA IssuerTypeInit == IssuerInit => TypedMarked
<1> SUFFICES ASSUME IssuerInit PROVE TypedMarked
  OBVIOUS
<1>1. tokens = <<>> /\ DOMAIN tokens = {} /\ Len(tokens) = 0
  BY DEF IssuerInit
<1>2. op \in [Callers -> Op] /\ \A c \in Callers : OpFits(op[c])
  BY IdleType DEF IssuerInit
<1> QED
  BY <1>1, <1>2, CapabilityBounds DEF IssuerInit, TypedMarked, IssuerTypeOK, Marked, OpFits

(* A step of a call changes its own locals only, and keeps the tokens.      *)
LEMMA OpStep ==
  ASSUME IssuerTypeOK, NEW c \in Callers, NEW o \in Op,
         op' = [op EXCEPT ![c] = o], OpFits(o), UNCHANGED tokens
  PROVE  op' \in [Callers -> Op] /\ \A x \in Callers : OpFits(op[x])'
<1>1. op' \in [Callers -> Op] /\ op'[c] = o /\ \A x \in Callers \ {c} : op'[x] = op[x]
  BY DEF IssuerTypeOK
<1>2. \A x \in Callers : OpFits(op'[x])
  BY <1>1 DEF IssuerTypeOK, OpFits
<1> QED
  BY <1>1, <1>2 DEF OpFits

LEMMA TokensKeep ==
  ASSUME IssuerTypeOK
  PROVE  /\ tokens \in Seq(Token) /\ Len(tokens) \in Nat /\ DOMAIN tokens = 1..Len(tokens)
         /\ DOMAIN tokens \subseteq Ids /\ DOMAIN tokens \subseteq Nat
BY CapabilityBounds DEF IssuerTypeOK, Ids

LEMMA IssuerTypeStep == TypedMarked /\ [IssuerNext]_issuerVars => TypedMarked'
<1> SUFFICES ASSUME TypedMarked, [IssuerNext]_issuerVars PROVE TypedMarked'
  OBVIOUS
<1> USE DEF TypedMarked
<1>0. /\ now \in Nat /\ key \in Nat
      /\ tokens \in Seq(Token) /\ Len(tokens) <= MaxTokens
      /\ revokedAt \in [Ids -> Nat \union {None}]
      /\ uses \in [Ids -> Nat]
      /\ revoked \subseteq DOMAIN tokens
      /\ op \in [Callers -> Op]
      /\ acked \subseteq DOMAIN tokens /\ missed \subseteq DOMAIN tokens
      /\ errors \in Nat /\ restarts \in Nat
      /\ \A c \in Callers : OpFits(op[c])
  BY DEF IssuerTypeOK, OpFits
<1>00. DOMAIN tokens = 1..Len(tokens) /\ DOMAIN tokens \subseteq Ids /\ DOMAIN tokens \subseteq Nat
  BY TokensKeep
<1>1. ASSUME NEW c \in Callers, NEW r \in Requests, RequestToken(c, r) PROVE TypedMarked'
  <2>1. PICK said \in [Granted(r.grants) -> [Actions -> Answers]] :
          op' = [op EXCEPT ![c] =
                   [Idle EXCEPT !.pc = "create",
                                !.draft = [key        |-> key,
                                           grants     |-> ApprovedGrants(r.grants, said),
                                           notBefore  |-> now,
                                           notAfter   |-> now + r.duration,
                                           delegation |-> r.delegation,
                                           parent     |-> 0,
                                           depth      |-> 0]]]
    BY <1>1 DEF RequestToken
  <2>2. r.grants \in GrantList /\ r.duration \in Nat /\ r.delegation \in Delegation \union {None}
    BY CapabilityAssumption DEF Request
  <2>3. ApprovedGrants(r.grants, said) \in GrantList
    BY <2>2, ApprovedGrantsType
  <2> DEFINE t == [key |-> key, grants |-> ApprovedGrants(r.grants, said), notBefore |-> now,
                   notAfter |-> now + r.duration, delegation |-> r.delegation,
                   parent |-> 0, depth |-> 0]
             o == [Idle EXCEPT !.pc = "create", !.draft = t]
  <2>4. t \in Token
    BY <1>0, <2>2, <2>3 DEF Token
  <2>5. op' = [op EXCEPT ![c] = o]
    BY <2>1
  <2> HIDE DEF t
  <2>6. o \in Op /\ OpFits(o)
    BY <2>4, NoneFresh DEF Op, Idle, OpFits
  <2> HIDE DEF o
  <2>7. op' \in [Callers -> Op] /\ \A x \in Callers : OpFits(op[x])'
    BY <1>1, <2>5, <2>6, OpStep DEF RequestToken
  <2> QED
    BY <1>0, <1>1, <2>7 DEF RequestToken, IssuerTypeOK, OpFits, Marked
<1>2. ASSUME NEW c \in Callers, NEW id \in DOMAIN tokens, NEW grants \in Shares,
             Delegate(c, id, grants)
      PROVE  TypedMarked'
  <2>1. tokens[id] \in Token
    BY <1>0
  <2>2. DelegatedGrants(tokens[id], grants) \in GrantList
    BY <2>1, DelegatedGrantsType, CapabilityAssumption
  <2> DEFINE t == [key |-> key, grants |-> DelegatedGrants(tokens[id], grants), notBefore |-> now,
                   notAfter |-> tokens[id].notAfter, delegation |-> None,
                   parent |-> id, depth |-> tokens[id].depth + 1]
             o == [Idle EXCEPT !.pc = "create", !.draft = t]
  <2>3. tokens[id].notAfter \in Nat /\ tokens[id].depth + 1 \in Nat /\ id \in Nat
    BY <1>00, <2>1 DEF Token
  <2>4. t \in Token
    BY <1>0, <2>2, <2>3 DEF Token
  <2>5. op' = [op EXCEPT ![c] = o]
    BY <1>2 DEF Delegate
  <2> HIDE DEF t
  <2>6. o \in Op /\ OpFits(o)
    BY <2>4, NoneFresh DEF Op, Idle, OpFits
  <2> HIDE DEF o
  <2>7. op' \in [Callers -> Op] /\ \A x \in Callers : OpFits(op[x])'
    BY <1>2, <2>5, <2>6, OpStep DEF Delegate
  <2> QED
    BY <1>0, <1>2, <2>7 DEF Delegate, IssuerTypeOK, OpFits, Marked
<1>3. ASSUME NEW c \in Callers, Create(c) PROVE TypedMarked'
  <2>1. op[c].draft \in Token
    BY <1>0, <1>3 DEF Create, OpFits, Op
  <2>2. /\ tokens' \in Seq(Token) /\ Len(tokens') = Len(tokens) + 1
        /\ DOMAIN tokens \subseteq DOMAIN tokens'
    BY <1>0, <1>3, <2>1 DEF Create
  <2>3. Len(tokens') <= MaxTokens
    BY <1>0, <1>3, <2>2, CapabilityBounds DEF Create
  <2>4. op' = [op EXCEPT ![c] = Idle]
    BY <1>3 DEF Create
  <2>5. op' \in [Callers -> Op]
    BY <1>0, <2>4, IdleType
  <2>6. \A x \in Callers : OpFits(op[x])'
    <3>1. \A x \in Callers : op'[x] = op[x] \/ op'[x] = Idle
      BY <1>0, <2>4
    <3> QED
      BY <1>0, <2>2, <3>1, IdleType DEF OpFits, Idle
  <2> QED
    BY <1>0, <1>3, <2>2, <2>3, <2>5, <2>6 DEF Create, IssuerTypeOK, OpFits, Marked
<1>4. ASSUME NEW c \in Callers, Refuse(c) PROVE TypedMarked'
  <2>1. op' \in [Callers -> Op] /\ \A x \in Callers : OpFits(op[x])'
    BY <1>4, OpStep, IdleType DEF Refuse
  <2> QED
    BY <1>0, <1>4, <2>1 DEF Refuse, Fault, IssuerTypeOK, OpFits, Marked
<1>5. ASSUME NEW c \in Callers, NEW id \in DOMAIN tokens, Revoke(c, id) PROVE TypedMarked'
  <2> DEFINE o == [Idle EXCEPT !.pc = "revoke", !.token = id]
  <2>1. o \in Op /\ OpFits(o)
    BY <1>00 DEF Op, Idle, OpFits
  <2>2. op' = [op EXCEPT ![c] = o]
    BY <1>5 DEF Revoke
  <2> HIDE DEF o
  <2>3. op' \in [Callers -> Op] /\ \A x \in Callers : OpFits(op[x])'
    BY <1>5, <2>1, <2>2, OpStep DEF Revoke
  <2> QED
    BY <1>0, <1>5, <2>3 DEF Revoke, IssuerTypeOK, OpFits, Marked
<1>6. ASSUME NEW c \in Callers, NEW lost \in BOOLEAN, MarkRow(c, lost) PROVE TypedMarked'
  <2>1. op[c] \in Op /\ OpFits(op[c]) /\ op[c].token \in DOMAIN tokens
    BY <1>0, <1>6 DEF MarkRow, OpFits
  <2> DEFINE o == [op[c] EXCEPT !.pc = "note"]
  <2>2. o \in Op /\ OpFits(o)
    BY <1>6, <2>1 DEF MarkRow, Op, OpFits
  <2>3. op' = [op EXCEPT ![c] = Idle] \/ op' = [op EXCEPT ![c] = o]
    BY <1>6 DEF MarkRow
  <2> HIDE DEF o
  <2>4. op' \in [Callers -> Op] /\ \A x \in Callers : OpFits(op[x])'
    BY <1>6, <2>2, <2>3, OpStep, IdleType DEF MarkRow
  <2>5. missed' \subseteq DOMAIN tokens /\ errors' \in Nat
    BY <1>0, <1>6, <2>1 DEF MarkRow, Fault
  <2>6. revokedAt' = [revokedAt EXCEPT ![op[c].token] = now]
    BY <1>6 DEF MarkRow
  <2>7. /\ revokedAt' \in [Ids -> Nat \union {None}]
        /\ \A t \in Ids : revokedAt'[t] # None => t \in DOMAIN tokens
    BY <1>0, <2>1, <2>6 DEF Marked
  <2> QED
    BY <1>0, <1>6, <2>4, <2>5, <2>7 DEF MarkRow, IssuerTypeOK, OpFits, Marked
<1>7. ASSUME NEW c \in Callers, Note(c) PROVE TypedMarked'
  <2>1. op[c].token \in DOMAIN tokens
    BY <1>0, <1>7 DEF Note, OpFits
  <2>2. op' \in [Callers -> Op] /\ \A x \in Callers : OpFits(op[x])'
    BY <1>7, OpStep, IdleType DEF Note
  <2> QED
    BY <1>0, <1>7, <2>1, <2>2 DEF Note, IssuerTypeOK, OpFits, Marked
<1>8. ASSUME NEW c \in Callers, LoadRevocations(c) PROVE TypedMarked'
  <2> DEFINE f == {t \in Ids : revokedAt[t] # None /\ revokedAt[t] >= now - Window}
             o == [Idle EXCEPT !.pc = "load", !.found = f]
  <2>1. f \subseteq DOMAIN tokens
    BY DEF Marked
  <2> HIDE DEF f
  <2>2. o \in Op /\ OpFits(o)
    BY <1>00, <2>1 DEF Op, Idle, OpFits
  <2>3. op' = [op EXCEPT ![c] = o]
    BY <1>8 DEF LoadRevocations, f
  <2> HIDE DEF o
  <2>4. op' \in [Callers -> Op] /\ \A x \in Callers : OpFits(op[x])'
    BY <1>8, <2>2, <2>3, OpStep DEF LoadRevocations
  <2> QED
    BY <1>0, <1>8, <2>4 DEF LoadRevocations, IssuerTypeOK, OpFits, Marked
<1>9. ASSUME NEW c \in Callers, Loaded(c) PROVE TypedMarked'
  <2>1. op[c].found \subseteq DOMAIN tokens
    BY <1>0 DEF OpFits
  <2>2. op' \in [Callers -> Op] /\ \A x \in Callers : OpFits(op[x])'
    BY <1>9, OpStep, IdleType DEF Loaded
  <2> QED
    BY <1>0, <1>9, <2>1, <2>2 DEF Loaded, IssuerTypeOK, OpFits, Marked
<1>10. ASSUME NEW id \in DOMAIN tokens, NEW n \in Nat, NEW a \in Actions, NEW type \in Types,
              NEW name \in Names, Use(id, n, a, type, name)
       PROVE  TypedMarked'
  <2>1. uses' \in [Ids -> Nat]
    BY <1>0, <1>00, <1>10 DEF Use
  <2> QED
    BY <1>0, <1>10, <2>1 DEF Use, IssuerTypeOK, OpFits, Marked
<1>11. CASE Tick
  BY <1>0, <1>11 DEF Tick, IssuerTypeOK, OpFits, Marked
<1>12. CASE Restart
  <2>1. op' \in [Callers -> Op] /\ \A x \in Callers : OpFits(op[x])'
    BY <1>12, IdleType DEF Restart, OpFits, Idle
  <2> QED
    BY <1>0, <1>12, <2>1 DEF Restart, IssuerTypeOK, OpFits, Marked
<1>13. CASE UNCHANGED issuerVars
  BY <1>0, <1>13 DEF issuerVars, IssuerTypeOK, OpFits, Marked
<1> QED
  BY <1>1, <1>2, <1>3, <1>4, <1>5, <1>6, <1>7, <1>8, <1>9, <1>10, <1>11, <1>12, <1>13
     DEF IssuerNext, IssuerCall

(* The issuer's state keeps its types, and what is marked is stored.        *)
THEOREM IssuerTyped == IssuerSpec => []IssuerTypeOK
<1>1. TypedMarked => IssuerTypeOK
  BY DEF TypedMarked
<1> QED
  BY <1>1, IssuerTypeInit, IssuerTypeStep, PTL DEF IssuerSpec

-----------------------------------------------------------------------------
(* What a step may do to tokens and drafts                                  *)

(* Tokens are only added, time and key only grow, and a call holds a draft  *)
(* it held before, or a new one of this time and key, which is of no parent *)
(* or within a token that may be delegated.                                 *)
NewDraft(d) ==
  /\ d \in Token
  /\ d.key = key /\ d.notBefore = now
  /\ d.parent # 0 =>
       /\ d.parent \in DOMAIN tokens
       /\ tokens[d.parent].delegation # None
       /\ \A a \in Actions, type \in Types, name \in Names :
            Allows(d, a, type, name) => Allows(tokens[d.parent], a, type, name)
       /\ d.notAfter = tokens[d.parent].notAfter
       /\ d.key = tokens[d.parent].key
       /\ d.delegation = None

DraftStep ==
  \A c \in Callers :
    op'[c].pc = "create" =>
      \/ op[c].pc = "create" /\ op'[c].draft = op[c].draft
      \/ NewDraft(op'[c].draft)

LEMMA DraftsStep ==
  ASSUME TypedMarked, [IssuerNext]_issuerVars
  PROVE  DraftStep /\ now <= now' /\ key <= key'
<1> USE DEF TypedMarked
<1>0. /\ op \in [Callers -> Op] /\ now \in Nat /\ key \in Nat /\ tokens \in Seq(Token)
      /\ DOMAIN tokens \subseteq Nat /\ Idle.pc = "idle"
  BY TokensKeep, IdleType DEF IssuerTypeOK
<1>1. ASSUME NEW c \in Callers, NEW r \in Requests, RequestToken(c, r)
      PROVE  DraftStep /\ now <= now' /\ key <= key'
  <2>1. PICK said \in [Granted(r.grants) -> [Actions -> Answers]] :
          op' = [op EXCEPT ![c] =
                   [Idle EXCEPT !.pc = "create",
                                !.draft = [key        |-> key,
                                           grants     |-> ApprovedGrants(r.grants, said),
                                           notBefore  |-> now,
                                           notAfter   |-> now + r.duration,
                                           delegation |-> r.delegation,
                                           parent     |-> 0,
                                           depth      |-> 0]]]
    BY <1>1 DEF RequestToken
  <2> DEFINE t == [key |-> key, grants |-> ApprovedGrants(r.grants, said), notBefore |-> now,
                   notAfter |-> now + r.duration, delegation |-> r.delegation,
                   parent |-> 0, depth |-> 0]
  <2>2. r.grants \in GrantList /\ r.duration \in Nat /\ r.delegation \in Delegation \union {None}
    BY CapabilityAssumption DEF Request
  <2>3. t \in Token
    BY <1>0, <2>2, ApprovedGrantsType DEF Token
  <2>4. NewDraft(t)
    BY <2>3 DEF NewDraft
  <2>5. op' = [op EXCEPT ![c] = [Idle EXCEPT !.pc = "create", !.draft = t]]
    BY <2>1
  <2> HIDE DEF t
  <2>6. op'[c].draft = t /\ \A x \in Callers \ {c} : op'[x] = op[x]
    BY <1>0, <2>5 DEF Idle
  <2> QED
    BY <1>0, <1>1, <2>4, <2>6 DEF RequestToken, DraftStep
<1>2. ASSUME NEW c \in Callers, NEW id \in DOMAIN tokens, NEW grants \in Shares,
             Delegate(c, id, grants)
      PROVE  DraftStep /\ now <= now' /\ key <= key'
  <2> DEFINE t == [key |-> key, grants |-> DelegatedGrants(tokens[id], grants), notBefore |-> now,
                   notAfter |-> tokens[id].notAfter, delegation |-> None,
                   parent |-> id, depth |-> tokens[id].depth + 1]
  <2>1. tokens[id] \in Token /\ grants \in GrantList /\ id \in Nat
    BY <1>0, CapabilityAssumption
  <2>2. tokens[id].notAfter \in Nat /\ tokens[id].depth + 1 \in Nat
    BY <2>1 DEF Token
  <2>3. DelegatedGrants(tokens[id], grants) \in GrantList
    BY <2>1, DelegatedGrantsType
  <2>4. t \in Token
    BY <1>0, <2>1, <2>2, <2>3 DEF Token
  <2>5. \A a \in Actions, type \in Types, name \in Names :
          Allows(t, a, type, name) => Allows(tokens[id], a, type, name)
    <3>1. t.grants = DelegatedGrants(tokens[id], grants)
      OBVIOUS
    <3> HIDE DEF t
    <3> QED
      BY <2>1, <2>4, <3>1, DelegatedGrantsNarrow
  <2>6. tokens[id].delegation # None /\ tokens[id].key = key
    BY <1>2 DEF Delegate, Valid
  <2>7. /\ t.key = key /\ t.notBefore = now /\ t.parent = id
        /\ t.notAfter = tokens[id].notAfter /\ t.delegation = None
    OBVIOUS
  <2>8. op' = [op EXCEPT ![c] = [Idle EXCEPT !.pc = "create", !.draft = t]]
    BY <1>2 DEF Delegate
  <2> HIDE DEF t
  <2>9. NewDraft(t)
    BY <2>4, <2>5, <2>6, <2>7 DEF NewDraft
  <2>10. op'[c].draft = t /\ \A x \in Callers \ {c} : op'[x] = op[x]
    BY <1>0, <2>8 DEF Idle
  <2> QED
    BY <1>0, <1>2, <2>9, <2>10 DEF Delegate, DraftStep
<1>3. ASSUME NEW c \in Callers, Create(c) PROVE DraftStep /\ now <= now' /\ key <= key'
  BY <1>0, <1>3 DEF Create, DraftStep
<1>4. ASSUME NEW c \in Callers, Refuse(c) PROVE DraftStep /\ now <= now' /\ key <= key'
  BY <1>0, <1>4 DEF Refuse, DraftStep
<1>5. ASSUME NEW c \in Callers, NEW id \in DOMAIN tokens, Revoke(c, id)
      PROVE  DraftStep /\ now <= now' /\ key <= key'
  BY <1>0, <1>5 DEF Revoke, DraftStep, Idle
<1>6. ASSUME NEW c \in Callers, NEW lost \in BOOLEAN, MarkRow(c, lost)
      PROVE  DraftStep /\ now <= now' /\ key <= key'
  <2> DEFINE o == [op[c] EXCEPT !.pc = "note"]
  <2>1. op[c] \in Op /\ UNCHANGED <<now, key>>
    BY <1>0, <1>6 DEF MarkRow
  <2>2. op' = [op EXCEPT ![c] = Idle] \/ op' = [op EXCEPT ![c] = o]
    BY <1>6 DEF MarkRow
  <2>3. o.pc = "note"
    BY <2>1 DEF Op
  <2> HIDE DEF o
  <2>4. op'[c].pc # "create" /\ \A x \in Callers \ {c} : op'[x] = op[x]
    BY <1>0, <2>2, <2>3
  <2> QED
    BY <1>0, <2>1, <2>4 DEF DraftStep
<1>7. ASSUME NEW c \in Callers, Note(c) PROVE DraftStep /\ now <= now' /\ key <= key'
  BY <1>0, <1>7 DEF Note, DraftStep
<1>8. ASSUME NEW c \in Callers, LoadRevocations(c) PROVE DraftStep /\ now <= now' /\ key <= key'
  BY <1>0, <1>8 DEF LoadRevocations, DraftStep, Idle
<1>9. ASSUME NEW c \in Callers, Loaded(c) PROVE DraftStep /\ now <= now' /\ key <= key'
  BY <1>0, <1>9 DEF Loaded, DraftStep
<1>10. ASSUME NEW id \in DOMAIN tokens, NEW n \in Nat, NEW a \in Actions, NEW type \in Types,
              NEW name \in Names, Use(id, n, a, type, name)
       PROVE  DraftStep /\ now <= now' /\ key <= key'
  BY <1>0, <1>10 DEF Use, DraftStep
<1>11. CASE Tick
  BY <1>0, <1>11 DEF Tick, DraftStep
<1>12. CASE Restart
  BY <1>0, <1>12 DEF Restart, DraftStep
<1>13. CASE UNCHANGED issuerVars
  BY <1>0, <1>13 DEF issuerVars, DraftStep
<1> QED
  BY <1>1, <1>2, <1>3, <1>4, <1>5, <1>6, <1>7, <1>8, <1>9, <1>10, <1>11, <1>12, <1>13
     DEF IssuerNext, IssuerCall

(* The tokens stay as they are, or a caller's draft is added to them.       *)
LEMMA TokensStep ==
  ASSUME TypedMarked, [IssuerNext]_issuerVars
  PROVE  \/ UNCHANGED tokens
         \/ \E c \in Callers : /\ op[c].pc = "create" /\ op[c].draft \in Token
                               /\ tokens' = Append(tokens, op[c].draft)
<1>1. ASSUME NEW c \in Callers, Create(c)
      PROVE  /\ op[c].pc = "create" /\ op[c].draft \in Token
             /\ tokens' = Append(tokens, op[c].draft)
  BY <1>1 DEF Create, TypedMarked, IssuerTypeOK, Op
<1>2. (\E c \in Callers : Create(c)) \/ UNCHANGED tokens
  BY DEF IssuerNext, IssuerCall, issuerVars, RequestToken, Delegate, Refuse, Revoke, MarkRow,
         Note, LoadRevocations, Loaded, Use, Tick, Restart
<1> QED
  BY <1>1, <1>2

LEMMA TokensKept ==
  ASSUME TypedMarked, [IssuerNext]_issuerVars
  PROVE  /\ DOMAIN tokens \subseteq DOMAIN tokens'
         /\ \A id \in DOMAIN tokens : tokens'[id] = tokens[id]
         /\ \A id \in DOMAIN tokens' \ DOMAIN tokens :
              \E c \in Callers : /\ op[c].pc = "create" /\ op[c].draft \in Token
                                 /\ tokens'[id] = op[c].draft
                                 /\ \A t \in DOMAIN tokens : t < id
<1>0. tokens \in Seq(Token)
  BY DEF TypedMarked, IssuerTypeOK
<1>1. CASE UNCHANGED tokens
  BY <1>1
<1>2. ASSUME NEW c \in Callers, op[c].pc = "create", op[c].draft \in Token,
             tokens' = Append(tokens, op[c].draft)
      PROVE  /\ DOMAIN tokens \subseteq DOMAIN tokens'
             /\ \A id \in DOMAIN tokens : tokens'[id] = tokens[id]
             /\ \A id \in DOMAIN tokens' \ DOMAIN tokens :
                  /\ tokens'[id] = op[c].draft
                  /\ \A t \in DOMAIN tokens : t < id
  BY <1>0, <1>2
<1> QED
  BY <1>1, <1>2, TokensStep

-----------------------------------------------------------------------------
(* Delegation                                                               *)

IssuerInv == TypedMarked /\ Past /\ DelegatedWithinParent /\ DraftsWithin

LEMMA IssuerInvInit == IssuerInit => IssuerInv
<1> SUFFICES ASSUME IssuerInit PROVE IssuerInv
  OBVIOUS
<1>1. DOMAIN tokens = {} /\ \A c \in Callers : op[c].pc = "idle"
  BY IdleType DEF IssuerInit
<1> QED
  BY <1>1, IssuerTypeInit DEF IssuerInv, Past, DelegatedWithinParent, DraftsWithin

LEMMA IssuerInvStep == IssuerInv /\ [IssuerNext]_issuerVars => IssuerInv'
<1> SUFFICES ASSUME IssuerInv, [IssuerNext]_issuerVars PROVE IssuerInv'
  OBVIOUS
<1>0. TypedMarked /\ TypedMarked' /\ now \in Nat /\ key \in Nat /\ now' \in Nat /\ key' \in Nat
  BY IssuerTypeStep DEF IssuerInv, TypedMarked, IssuerTypeOK
<1>1. DraftStep /\ now <= now' /\ key <= key'
  BY <1>0, DraftsStep
<1>2. /\ DOMAIN tokens \subseteq DOMAIN tokens'
      /\ \A id \in DOMAIN tokens : tokens'[id] = tokens[id]
      /\ \A id \in DOMAIN tokens' \ DOMAIN tokens :
           \E c \in Callers : /\ op[c].pc = "create" /\ op[c].draft \in Token
                              /\ tokens'[id] = op[c].draft
                              /\ \A t \in DOMAIN tokens : t < id
  BY <1>0, TokensKept
<1>3. \A id \in DOMAIN tokens : tokens[id] \in Token
  BY <1>0 DEF TypedMarked, IssuerTypeOK
<1>4. Past'
  <2>1. ASSUME NEW id \in DOMAIN tokens' PROVE tokens'[id].key <= key' /\ tokens'[id].notBefore <= now'
    <3>1. CASE id \in DOMAIN tokens
      <4>1. tokens[id].key <= key /\ tokens[id].notBefore <= now /\ tokens[id].key \in Nat /\ tokens[id].notBefore \in Nat
        BY <1>3, <3>1 DEF IssuerInv, Past, Token
      <4> QED
        BY <1>0, <1>1, <1>2, <3>1, <4>1
    <3>2. CASE id \notin DOMAIN tokens
      <4>1. PICK c \in Callers : /\ op[c].pc = "create" /\ op[c].draft \in Token
                                 /\ tokens'[id] = op[c].draft
        BY <1>2, <2>1, <3>2
      <4>2. op[c].draft.key <= key /\ op[c].draft.notBefore <= now
        BY <4>1 DEF IssuerInv, Past
      <4>3. op[c].draft.key \in Nat /\ op[c].draft.notBefore \in Nat
        BY <4>1 DEF Token
      <4> QED
        BY <1>0, <1>1, <4>1, <4>2, <4>3
    <3> QED
      BY <3>1, <3>2
  <2>2. ASSUME NEW c \in Callers, op'[c].pc = "create"
        PROVE  op'[c].draft.key <= key' /\ op'[c].draft.notBefore <= now'
    <3>1. CASE op[c].pc = "create" /\ op'[c].draft = op[c].draft
      <4>1. op[c].draft.key <= key /\ op[c].draft.notBefore <= now
        BY <3>1 DEF IssuerInv, Past
      <4>2. op[c].draft \in Token
        BY <1>0, <3>1 DEF TypedMarked, IssuerTypeOK, Op
      <4>3. op[c].draft.key \in Nat /\ op[c].draft.notBefore \in Nat
        BY <4>2 DEF Token
      <4> QED
        BY <1>0, <1>1, <3>1, <4>1, <4>3
    <3>2. CASE NewDraft(op'[c].draft)
      BY <1>0, <1>1, <3>2 DEF NewDraft
    <3> QED
      BY <1>1, <2>2, <3>1, <3>2 DEF DraftStep
  <2> QED
    BY <2>1, <2>2 DEF Past
<1>5. ASSUME NEW d, NEW p \in DOMAIN tokens, Within(d, tokens[p]) PROVE Within(d, tokens'[p])
  BY <1>2, <1>5
<1>6. DelegatedWithinParent'
  <2> SUFFICES ASSUME NEW id \in DOMAIN tokens', tokens'[id].parent # 0
               PROVE  /\ tokens'[id].parent < id
                      /\ Within(tokens'[id], tokens'[tokens'[id].parent])
    BY DEF DelegatedWithinParent, Within, Allows, Granted, Matches
  <2>1. CASE id \in DOMAIN tokens
    <3>1. tokens[id].parent < id /\ Within(tokens[id], tokens[tokens[id].parent])
      BY <1>2, <2>1 DEF IssuerInv, DelegatedWithinParent
    <3>2. tokens[id].parent \in DOMAIN tokens
      <4>1. tokens[id].parent \in Nat /\ tokens[id].parent # 0
        BY <1>2, <1>3, <2>1 DEF Token
      <4>2. DOMAIN tokens = 1..Len(tokens)
        BY <1>0, TokensKeep DEF TypedMarked
      <4> QED
        BY <2>1, <3>1, <4>1, <4>2
    <3> QED
      BY <1>2, <1>5, <2>1, <3>1, <3>2
  <2>2. CASE id \notin DOMAIN tokens
    <3>1. PICK c \in Callers : /\ op[c].pc = "create" /\ op[c].draft \in Token
                               /\ tokens'[id] = op[c].draft
                               /\ \A t \in DOMAIN tokens : t < id
      BY <1>2, <2>2
    <3>2. op[c].draft.parent \in DOMAIN tokens /\ Within(op[c].draft, tokens[op[c].draft.parent])
      BY <3>1 DEF IssuerInv, DraftsWithin
    <3> QED
      BY <1>5, <3>1, <3>2
  <2> QED
    BY <2>1, <2>2
<1>7. DraftsWithin'
  <2> SUFFICES ASSUME NEW c \in Callers, op'[c].pc = "create", op'[c].draft.parent # 0
               PROVE  /\ op'[c].draft.parent \in DOMAIN tokens'
                      /\ Within(op'[c].draft, tokens'[op'[c].draft.parent])
    BY DEF DraftsWithin, Within, Allows, Granted, Matches
  <2>1. PICK d : d = op'[c].draft
    OBVIOUS
  <2>2. d.parent \in DOMAIN tokens /\ Within(d, tokens[d.parent])
    <3>1. CASE op[c].pc = "create" /\ d = op[c].draft
      BY <2>1, <3>1 DEF IssuerInv, DraftsWithin
    <3>2. CASE NewDraft(d)
      <4>1. d.parent \in DOMAIN tokens /\ tokens[d.parent].delegation # None
        BY <2>1, <3>2 DEF NewDraft
      <4>2. tokens[d.parent].parent = 0
        BY <4>1 DEF IssuerInv, DelegatedWithinParent, Within
      <4>3. d.notAfter <= tokens[d.parent].notAfter
        BY <1>3, <2>1, <3>2, <4>1 DEF NewDraft, Token
      <4> QED
        BY <2>1, <3>2, <4>1, <4>2, <4>3 DEF NewDraft, Within
    <3> QED
      BY <1>1, <2>1, <3>1, <3>2 DEF DraftStep
  <2> QED
    BY <1>2, <1>5, <2>1, <2>2
<1> QED
  BY <1>0, <1>4, <1>6, <1>7 DEF IssuerInv

(* A delegated token never allows what its parent does not, nor longer.     *)
THEOREM IssuerDelegatedWithinParent == IssuerSpec => []DelegatedWithinParent
<1>1. IssuerInv => DelegatedWithinParent
  BY DEF IssuerInv
<1> QED
  BY <1>1, IssuerInvInit, IssuerInvStep, PTL DEF IssuerSpec

-----------------------------------------------------------------------------
(* Revocation                                                               *)

Refusing == \A id \in DOMAIN tokens : ~Valid(id) => ~Valid(id)'

(* The list in memory shrinks with the key only.                            *)
LEMMA ListStep ==
  ASSUME [IssuerNext]_issuerVars
  PROVE  key' = key + 1 \/ (key' = key /\ revoked \subseteq revoked')
BY DEF IssuerNext, IssuerCall, issuerVars, RequestToken, Delegate, Create, Refuse, Revoke, MarkRow,
       Note, LoadRevocations, Loaded, Use, Tick, Restart

LEMMA RefusalStep == IssuerInv /\ [IssuerNext]_issuerVars => Refusing
<1> SUFFICES ASSUME IssuerInv, [IssuerNext]_issuerVars,
                    NEW id \in DOMAIN tokens, ~Valid(id)
             PROVE  ~Valid(id)'
  BY DEF Refusing
<1>1. /\ now \in Nat /\ key \in Nat /\ now' \in Nat /\ key' \in Nat /\ now <= now'
      /\ tokens'[id] = tokens[id] /\ tokens[id] \in Token
  BY DraftsStep, IssuerTypeStep, TokensKept DEF IssuerInv, TypedMarked, IssuerTypeOK
<1>2. /\ tokens[id].key \in Nat /\ tokens[id].notBefore \in Nat /\ tokens[id].notAfter \in Nat
      /\ tokens[id].key <= key /\ tokens[id].notBefore <= now
  BY <1>1 DEF Token, IssuerInv, Past
<1>3. CASE key' = key + 1
  BY <1>1, <1>2, <1>3 DEF Valid
<1>4. CASE key' = key /\ revoked \subseteq revoked'
  BY <1>1, <1>2, <1>4 DEF Valid
<1> QED
  BY <1>3, <1>4, ListStep

(* What Verify refuses once, it refuses for ever.                           *)
THEOREM IssuerRefusalIsFinal == IssuerSpec => RefusalIsFinal
<1>1. IssuerInv /\ [IssuerNext]_issuerVars =>
        [\A id \in DOMAIN tokens : ~Valid(id) => ~Valid(id)']_issuerVars
  BY RefusalStep DEF Refusing
<1> QED
  BY <1>1, IssuerInvInit, IssuerInvStep, PTL DEF IssuerSpec, RefusalIsFinal

Noting(c, id) == op[c].pc = "note" /\ op[c].token = id

(* What a step does to the records of revocations: a call about to note one *)
(* does so, goes on, or the key ends.                                       *)
NotesStep ==
  /\ missed \subseteq missed'
  /\ \A id \in acked' : id \in acked \/ id \in revoked'
  /\ \A id \in Ids : revokedAt'[id] # None =>
       \/ revokedAt[id] # None
       \/ id \in missed'
       \/ \E c \in Callers : Noting(c, id)'
  /\ \A id \in Ids, c \in Callers : Noting(c, id) =>
       Noting(c, id)' \/ id \in revoked' \/ key' = key + 1

LEMMA RevocationsStep ==
  ASSUME TypedMarked, [IssuerNext]_issuerVars
  PROVE  NotesStep
<1>0. /\ op \in [Callers -> Op] /\ revokedAt \in [Ids -> Nat \union {None}]
      /\ now \in Nat /\ DOMAIN tokens \subseteq Ids
      /\ \A c \in Callers : op[c].pc = "revoke" => op[c].token \in DOMAIN tokens
  BY TokensKeep DEF TypedMarked, IssuerTypeOK
<1>1. ASSUME NEW c \in Callers, MarkRow(c, FALSE) PROVE NotesStep
  <2>1. op[c] \in Op /\ op[c].pc = "revoke" /\ op[c].token \in Ids
    BY <1>0, <1>1 DEF MarkRow
  <2>2. op' = [op EXCEPT ![c] = [op[c] EXCEPT !.pc = "note"]]
    BY <1>1 DEF MarkRow
  <2>3. [op[c] EXCEPT !.pc = "note"].token = op[c].token /\ [op[c] EXCEPT !.pc = "note"].pc = "note"
    BY <2>1 DEF Op
  <2>4. op'[c].token = op[c].token /\ op'[c].pc = "note" /\ \A x \in Callers \ {c} : op'[x] = op[x]
    BY <1>0, <2>2, <2>3
  <2>5. \A id \in Ids : id # op[c].token => revokedAt'[id] = revokedAt[id]
    BY <1>0, <1>1 DEF MarkRow
  <2>6. UNCHANGED <<missed, acked, revoked>>
    BY <1>1 DEF MarkRow
  <2> QED
    BY <2>1, <2>4, <2>5, <2>6 DEF NotesStep, Noting
<1>2. ASSUME NEW c \in Callers, MarkRow(c, TRUE) PROVE NotesStep
  <2>1. op[c].pc = "revoke" /\ op' = [op EXCEPT ![c] = Idle]
    BY <1>2 DEF MarkRow
  <2>2. \A x \in Callers : op[x].pc = "note" => op'[x] = op[x]
    BY <1>0, <2>1
  <2>3. \A id \in Ids : id # op[c].token => revokedAt'[id] = revokedAt[id]
    BY <1>0, <1>2 DEF MarkRow
  <2>4. missed' = missed \union {op[c].token} /\ UNCHANGED <<acked, revoked>>
    BY <1>2 DEF MarkRow
  <2> QED
    BY <2>2, <2>3, <2>4 DEF NotesStep, Noting
<1>3. ASSUME NEW c \in Callers, Note(c) PROVE NotesStep
  <2>1. \A x \in Callers \ {c} : op'[x] = op[x]
    BY <1>0, <1>3 DEF Note
  <2> QED
    BY <1>3, <2>1 DEF Note, NotesStep, Noting
<1>4. CASE Restart
  BY <1>4 DEF Restart, NotesStep
<1>5. ASSUME UNCHANGED <<missed, acked, revokedAt>>,
             \A x \in Callers : op[x].pc = "note" => op'[x] = op[x]
      PROVE  NotesStep
  BY <1>5 DEF NotesStep, Noting
<1>6. ASSUME NEW c \in Callers, op[c].pc # "note",
             UNCHANGED <<missed, acked, revokedAt>>,
             \E o : op' = [op EXCEPT ![c] = o]
      PROVE  NotesStep
  BY <1>0, <1>5, <1>6
<1>7. ASSUME NEW c \in Callers, IssuerCall(c) PROVE NotesStep
  <2>1. ASSUME NEW r \in Requests, RequestToken(c, r) PROVE NotesStep
    BY <1>6, <2>1 DEF RequestToken
  <2>2. ASSUME NEW id \in DOMAIN tokens, NEW grants \in Shares, Delegate(c, id, grants) PROVE NotesStep
    BY <1>6, <2>2 DEF Delegate
  <2>3. CASE Create(c)
    BY <1>6, <2>3 DEF Create
  <2>4. CASE Refuse(c)
    BY <1>6, <2>4 DEF Refuse
  <2>5. ASSUME NEW id \in DOMAIN tokens, Revoke(c, id) PROVE NotesStep
    BY <1>6, <2>5 DEF Revoke
  <2>6. CASE LoadRevocations(c)
    BY <1>6, <2>6 DEF LoadRevocations
  <2>7. CASE Loaded(c)
    BY <1>6, <2>7 DEF Loaded
  <2> QED
    BY <1>1, <1>2, <1>3, <1>7, <2>1, <2>2, <2>3, <2>4, <2>5, <2>6, <2>7 DEF IssuerCall
<1>8. ASSUME NEW id \in DOMAIN tokens, NEW n \in Nat, NEW a \in Actions, NEW type \in Types,
              NEW name \in Names, Use(id, n, a, type, name)
      PROVE  NotesStep
  BY <1>5, <1>8 DEF Use
<1>9. CASE Tick
  BY <1>5, <1>9 DEF Tick
<1>10. CASE UNCHANGED issuerVars
  BY <1>5, <1>10 DEF issuerVars
<1> QED
  BY <1>4, <1>7, <1>8, <1>9, <1>10 DEF IssuerNext

RevocationInv == IssuerInv /\ RevocationHolds

LEMMA RevocationStep == RevocationInv /\ [IssuerNext]_issuerVars => RevocationInv'
<1> SUFFICES ASSUME RevocationInv, [IssuerNext]_issuerVars PROVE RevocationInv'
  OBVIOUS
<1> USE DEF RevocationInv
<1>0. /\ TypedMarked /\ IssuerInv' /\ DOMAIN tokens \subseteq Ids
      /\ acked \subseteq DOMAIN tokens /\ key \in Nat
  BY IssuerInvStep, TokensKeep DEF IssuerInv, TypedMarked, IssuerTypeOK
<1>1. NotesStep
  BY <1>0, RevocationsStep
<1>2. ASSUME NEW id \in DOMAIN tokens', Valid(id)'
      PROVE  /\ id \notin acked'
             /\ \/ revokedAt'[id] = None
                \/ id \in missed'
                \/ \E c \in Callers : Noting(c, id)'
  <2>1. id \notin revoked'
    BY <1>2 DEF Valid
  <2>2. CASE id \in DOMAIN tokens
    <3>1. tokens'[id] = tokens[id] /\ tokens[id].key \in Nat /\ tokens[id].key <= key
      <4>1. tokens'[id] = tokens[id]
        BY <1>0, <2>2, TokensKept
      <4>2. tokens[id] \in Token
        BY <1>0, <2>2 DEF TypedMarked, IssuerTypeOK
      <4>3. tokens[id].key <= key
        BY <2>2 DEF IssuerInv, Past
      <4> QED
        BY <4>1, <4>2, <4>3 DEF Token
    <3>2. key' # key + 1
      BY <1>0, <1>2, <3>1 DEF Valid
    <3>3. Valid(id)
      BY <1>2, <2>2, RefusalStep DEF Refusing
    <3>4. /\ id \notin acked
          /\ \/ revokedAt[id] = None
             \/ id \in missed
             \/ \E c \in Callers : Noting(c, id)
      BY <2>2, <3>3 DEF RevocationHolds, Noting
    <3> QED
      BY <1>0, <1>1, <2>1, <2>2, <3>2, <3>4 DEF NotesStep
  <2>3. CASE id \notin DOMAIN tokens
    <3>1. id \notin acked /\ id \in Ids
      <4>1. tokens' \in Seq(Token) /\ Len(tokens') <= MaxTokens
        BY <1>0 DEF IssuerInv, TypedMarked, IssuerTypeOK
      <4> QED
        BY <1>0, <1>2, <2>3, <4>1, CapabilityBounds DEF Ids
    <3>2. revokedAt[id] = None
      BY <1>0, <2>3, <3>1 DEF TypedMarked, Marked
    <3> QED
      BY <1>1, <2>1, <3>1, <3>2 DEF NotesStep
  <2> QED
    BY <2>2, <2>3
<1> QED
  BY <1>0, <1>2 DEF RevocationHolds, Noting, Valid

(* A revocation that Revoke has acknowledged holds for ever, a marked row   *)
(* is refused but for lost replies.                                         *)
THEOREM IssuerRevocationHolds == IssuerSpec => []RevocationHolds
<1>1. IssuerInit => RevocationInv
  BY IssuerInvInit DEF IssuerInit, RevocationInv, RevocationHolds
<1>2. RevocationInv => RevocationHolds
  BY DEF RevocationInv
<1> QED
  BY <1>1, <1>2, RevocationStep, PTL DEF IssuerSpec

-----------------------------------------------------------------------------
(* The proxy over the issuer                                                *)

ProxyTypeOK ==
  /\ messages \in Seq(Message) /\ Len(messages) <= MaxMessages
  /\ \A m \in DOMAIN messages : messages[m].token \in DOMAIN tokens
  /\ exec \in [Workers -> Exec]
  /\ \A w \in Workers : exec[w].pc # "idle" => exec[w].message \in DOMAIN messages
  /\ performed \in Seq(Nat)
  /\ \A i \in DOMAIN performed : performed[i] \in DOMAIN messages

LEMMA ReadyType == Ready \in Exec /\ Ready.pc = "idle"
BY DEF Ready, Exec

(* Every step of the proxy is one of the issuer or leaves the issuer alone. *)
LEMMA ProxyStepIsIssuers ==
  ASSUME ProxyTypeOK, [Next]_vars
  PROVE  [IssuerNext]_issuerVars
<1>1. ASSUME NEW w \in Workers, Record(w, TRUE) PROVE IssuerNext
  <2> DEFINE msg == messages[exec[w].message]
  <2>1. exec[w].message \in DOMAIN messages
    BY <1>1 DEF Record, ProxyTypeOK
  <2>2. msg \in Message /\ msg.token \in DOMAIN tokens
    BY <2>1 DEF ProxyTypeOK
  <2>3. Use(msg.token, msg.approvals, msg.action, DeviceType, msg.device)
    BY <1>1 DEF Record
  <2>4. /\ msg.approvals \in Nat /\ msg.action \in Actions /\ msg.device \in Names
        /\ DeviceType \in Types
    BY <2>2, ProxyAssumption DEF Message
  <2> HIDE DEF msg
  <2> QED
    BY <2>2, <2>3, <2>4 DEF IssuerNext
<1>2. ASSUME NEW w \in Workers, Operate(w) PROVE IssuerNext \/ UNCHANGED issuerVars
  BY <1>1, <1>2 DEF Operate, Accept, Execute, Abort, Record
<1>3. CASE RestartAll
  BY <1>3 DEF RestartAll, IssuerNext
<1>4. ASSUME NEW c \in Callers, IssuerCall(c) PROVE IssuerNext
  BY <1>4 DEF IssuerNext
<1>5. CASE Tick
  BY <1>5 DEF IssuerNext
<1>6. ASSUME NEW id \in DOMAIN tokens, NEW n \in Approvals, NEW device \in Names,
             NEW action \in Kinds, Compose(id, n, device, action)
      PROVE  UNCHANGED issuerVars
  BY <1>6 DEF Compose
<1>7. CASE UNCHANGED vars
  BY <1>7 DEF vars
<1> QED
  BY <1>2, <1>3, <1>4, <1>5, <1>6, <1>7 DEF Next

LEMMA ProxyTypeStep ==
  ASSUME TypedMarked, ProxyTypeOK, [Next]_vars
  PROVE  ProxyTypeOK'
<1>1. /\ DOMAIN tokens \subseteq DOMAIN tokens' /\ DOMAIN tokens \subseteq Nat /\ now \in Nat
  BY ProxyStepIsIssuers, TokensKept, TokensKeep DEF TypedMarked, IssuerTypeOK
<1>2. /\ messages \in Seq(Message) /\ Len(messages) <= MaxMessages
      /\ \A m \in DOMAIN messages : messages[m].token \in DOMAIN tokens
      /\ exec \in [Workers -> Exec]
      /\ \A w \in Workers : exec[w].pc # "idle" => exec[w].message \in DOMAIN messages
      /\ performed \in Seq(Nat)
      /\ \A i \in DOMAIN performed : performed[i] \in DOMAIN messages
  BY DEF ProxyTypeOK
<1>3. CASE UNCHANGED proxyVars
  BY <1>1, <1>2, <1>3 DEF proxyVars, ProxyTypeOK
<1>4. ASSUME NEW id \in DOMAIN tokens, NEW n \in Approvals, NEW device \in Names,
             NEW action \in Kinds, Compose(id, n, device, action)
      PROVE  ProxyTypeOK'
  <2>1. PICK msg : msg = [token |-> id, approvals |-> n, device |-> device,
                          action |-> action, at |-> now]
    OBVIOUS
  <2>2. msg \in Message /\ msg.token = id
    BY <1>1, <2>1 DEF Message
  <2>3. messages' = Append(messages, msg) /\ Len(messages) < MaxMessages
    BY <1>4, <2>1 DEF Compose
  <2>4. /\ messages' \in Seq(Message) /\ Len(messages') <= MaxMessages
        /\ DOMAIN messages \subseteq DOMAIN messages'
        /\ \A m \in DOMAIN messages' : messages'[m].token \in DOMAIN tokens'
    BY <1>1, <1>2, <2>2, <2>3, ProxyAssumption
  <2> QED
    BY <1>1, <1>2, <1>4, <2>4 DEF Compose, ProxyTypeOK
<1>5. ASSUME NEW w \in Workers, NEW m \in DOMAIN messages, Accept(w, m) PROVE ProxyTypeOK'
  <2>1. [pc |-> "execute", message |-> m] \in Exec
    BY <1>2 DEF Exec
  <2> QED
    BY <1>1, <1>2, <1>5, <2>1 DEF Accept, ProxyTypeOK
<1>6. ASSUME NEW w \in Workers, NEW failed \in BOOLEAN, Execute(w, failed) PROVE ProxyTypeOK'
  <2>1. /\ exec[w] \in Exec /\ exec[w].message \in DOMAIN messages
        /\ [exec[w] EXCEPT !.pc = "record"] \in Exec
        /\ [exec[w] EXCEPT !.pc = "record"].message = exec[w].message
    BY <1>2, <1>6 DEF Execute, Exec
  <2>2. exec' = [exec EXCEPT ![w] = Ready] \/ exec' = [exec EXCEPT ![w] = [exec[w] EXCEPT !.pc = "record"]]
    BY <1>6 DEF Execute
  <2>3. /\ exec' \in [Workers -> Exec]
        /\ \A x \in Workers : exec'[x].pc # "idle" => exec'[x].message \in DOMAIN messages
    BY <1>2, <2>1, <2>2, ReadyType
  <2>4. performed' = Append(performed, exec[w].message) /\ exec[w].message \in Nat
    BY <1>6, <2>1 DEF Execute, Exec
  <2>5. /\ performed' \in Seq(Nat)
        /\ \A i \in DOMAIN performed' : performed'[i] \in DOMAIN messages
    BY <1>2, <2>1, <2>4
  <2> QED
    BY <1>1, <1>2, <1>6, <2>3, <2>5 DEF Execute, ProxyTypeOK
<1>7. ASSUME NEW w \in Workers, exec' = [exec EXCEPT ![w] = Ready], UNCHANGED <<messages, performed>>
      PROVE  ProxyTypeOK'
  BY <1>1, <1>2, <1>7, ReadyType DEF ProxyTypeOK
<1>8. ASSUME NEW w \in Workers, Operate(w) PROVE ProxyTypeOK'
  BY <1>5, <1>6, <1>7, <1>8 DEF Operate, Abort, Record
<1>9. CASE RestartAll
  BY <1>1, <1>2, <1>9, ReadyType DEF RestartAll, ProxyTypeOK
<1> QED
  BY <1>3, <1>4, <1>8, <1>9 DEF Next, vars, proxyVars

ProxyInv == TypedMarked /\ ProxyTypeOK

LEMMA ProxyTypeInit == Init => ProxyInv
BY IssuerTypeInit, ReadyType, ProxyAssumption DEF Init, ProxyInv, ProxyTypeOK

LEMMA ProxyInvStep == ProxyInv /\ [Next]_vars => ProxyInv' /\ [IssuerNext]_issuerVars
BY ProxyStepIsIssuers, IssuerTypeStep, ProxyTypeStep DEF ProxyInv

(* The state of the issuer and the proxy keeps its types.                   *)
THEOREM ProxyTyped == Spec => []TypeOK
<1>1. ProxyInv => TypeOK
  BY DEF ProxyInv, TypedMarked, ProxyTypeOK, TypeOK
<1> QED
  BY <1>1, ProxyTypeInit, ProxyInvStep, PTL DEF Spec

(* What the proxy does with the issuer is what the issuer's specification   *)
(* says: its properties hold under the proxy.                               *)
THEOREM ProxyImplementsIssuer == Spec => IssuerSpec
<1>1. Init => IssuerInit
  BY DEF Init
<1> QED
  BY <1>1, ProxyTypeInit, ProxyInvStep, PTL DEF Spec, IssuerSpec

(* Under the proxy, too, an acknowledged revocation holds for ever, ...      *)
THEOREM ProxyRevocationHolds == Spec => []RevocationHolds
BY ProxyImplementsIssuer, IssuerRevocationHolds, PTL

(* ... a refusal is final, ...                                              *)
THEOREM ProxyRefusalIsFinal == Spec => RefusalIsFinal
BY ProxyImplementsIssuer, IssuerRefusalIsFinal, PTL

(* ... and a delegated token is within its parent.                          *)
THEOREM ProxyDelegatedWithinParent == Spec => []DelegatedWithinParent
BY ProxyImplementsIssuer, IssuerDelegatedWithinParent, PTL

-----------------------------------------------------------------------------
(* What devices do                                                          *)

GrantInv == /\ ProxyInv /\ IssuerInv
            /\ SignedInThePast /\ AcceptedWithinGrant /\ PerformedWithinGrant

LEMMA GrantInit == Init => GrantInv
<1> SUFFICES ASSUME Init PROVE GrantInv
  OBVIOUS
<1>1. ProxyInv /\ IssuerInv
  BY ProxyTypeInit, IssuerInvInit DEF Init
<1>2. SignedInThePast /\ AcceptedWithinGrant /\ PerformedWithinGrant
  BY ReadyType DEF Init, SignedInThePast, AcceptedWithinGrant, PerformedWithinGrant
<1> QED
  BY <1>1, <1>2 DEF GrantInv

(* An accepted operation is within the grants that the engine was asked of. *)
LEMMA AcceptedIsWithin ==
  ASSUME GrantInv, NEW w \in Workers, NEW m \in DOMAIN messages, Accept(w, m)
  PROVE  WithinGrant(m)
<1> DEFINE msg == messages[m]
           root == tokens[Root(msg.token)]
<1>1. /\ msg \in Message /\ msg.token \in DOMAIN tokens /\ msg.at <= now /\ now \in Nat
      /\ tokens \in Seq(Token) /\ DOMAIN tokens = 1..Len(tokens)
  BY TokensKeep DEF GrantInv, ProxyInv, ProxyTypeOK, SignedInThePast, TypedMarked, IssuerTypeOK
<1>2. tokens[msg.token] \in Token
  BY <1>1
<1>3. Allows(tokens[msg.token], msg.action, DeviceType, msg.device)
      /\ now <= tokens[msg.token].notAfter
  BY DEF Accept, Valid
<1>4. msg.at \in Nat /\ msg.action \in Actions /\ msg.device \in Names /\ DeviceType \in Types
  BY <1>1, ProxyAssumption DEF Message
<1>5. CASE tokens[msg.token].parent = 0
  <2>1. msg.at <= tokens[msg.token].notAfter
    BY <1>1, <1>2, <1>3, <1>4 DEF Token
  <2> QED
    BY <1>3, <1>5, <2>1 DEF WithinGrant, Root
<1>6. CASE tokens[msg.token].parent # 0
  <2>1. /\ tokens[msg.token].parent < msg.token
        /\ Within(tokens[msg.token], tokens[tokens[msg.token].parent])
    BY <1>1, <1>6 DEF GrantInv, IssuerInv, DelegatedWithinParent
  <2>2. tokens[msg.token].parent \in DOMAIN tokens
    <3>1. tokens[msg.token].parent \in Nat /\ tokens[msg.token].parent # 0
      BY <1>2, <1>6 DEF Token
    <3> QED
      BY <1>1, <2>1, <3>1
  <2> DEFINE p == tokens[tokens[msg.token].parent]
  <2>3. p \in Token
    BY <1>1, <2>2
  <2>4. Allows(p, msg.action, DeviceType, msg.device) /\ p.parent = 0
        /\ tokens[msg.token].notAfter <= p.notAfter
    BY <1>3, <1>4, <2>1 DEF Within
  <2>5. p.notAfter \in Nat /\ tokens[msg.token].notAfter \in Nat
    BY <1>2, <2>3 DEF Token
  <2>6. msg.at <= p.notAfter
    BY <1>1, <1>3, <1>4, <2>4, <2>5
  <2> QED
    BY <1>6, <2>4, <2>6 DEF WithinGrant, Root
<1> QED
  BY <1>5, <1>6

LEMMA GrantStep == GrantInv /\ [Next]_vars => GrantInv'
<1> SUFFICES ASSUME GrantInv, [Next]_vars PROVE GrantInv'
  OBVIOUS
<1>0. ProxyInv /\ ProxyInv' /\ IssuerInv /\ IssuerInv' /\ [IssuerNext]_issuerVars /\ TypedMarked
  BY ProxyInvStep, IssuerInvStep DEF GrantInv, ProxyInv
<1>1. /\ DOMAIN tokens \subseteq DOMAIN tokens'
      /\ \A id \in DOMAIN tokens : tokens'[id] = tokens[id]
      /\ now <= now' /\ now \in Nat /\ now' \in Nat
  BY <1>0, TokensKept, DraftsStep DEF ProxyInv, TypedMarked, IssuerTypeOK
<1>2. /\ messages \in Seq(Message) /\ exec \in [Workers -> Exec] /\ performed \in Seq(Nat)
      /\ \A m \in DOMAIN messages : messages[m].token \in DOMAIN tokens
      /\ \A w \in Workers : exec[w].pc # "idle" => exec[w].message \in DOMAIN messages
      /\ \A i \in DOMAIN performed : performed[i] \in DOMAIN messages
  BY <1>0 DEF ProxyInv, ProxyTypeOK
<1>3. /\ DOMAIN messages \subseteq DOMAIN messages'
      /\ \A m \in DOMAIN messages : messages'[m] = messages[m]
      /\ \A m \in DOMAIN messages' \ DOMAIN messages : messages'[m].at = now
  <2>1. ASSUME NEW id \in DOMAIN tokens, NEW n \in Approvals, NEW device \in Names,
               NEW action \in Kinds, Compose(id, n, device, action)
        PROVE  <1>3!:
    <3>1. PICK msg : /\ msg = [token |-> id, approvals |-> n, device |-> device,
                               action |-> action, at |-> now]
                     /\ messages' = Append(messages, msg)
      BY <2>1 DEF Compose
    <3>2. msg \in Message /\ msg.at = now
      <4>1. id \in Nat
        BY <1>0, TokensKeep DEF TypedMarked
      <4> QED
        BY <1>1, <3>1, <4>1 DEF Message
    <3> QED
      BY <1>2, <3>1, <3>2
  <2>2. CASE UNCHANGED messages
    BY <2>2
  <2> QED
    BY <2>1, <2>2 DEF Next, Operate, Accept, Execute, Abort, Record, RestartAll, vars, proxyVars
<1>4. SignedInThePast'
  <2>1. ASSUME NEW m \in DOMAIN messages PROVE messages'[m].at <= now'
    <3>0. messages[m] \in Message
      BY <1>2
    <3>1. messages[m].at <= now /\ messages[m].at \in Nat
      BY <3>0 DEF GrantInv, SignedInThePast, Message
    <3> QED
      BY <1>1, <1>3, <3>1
  <2> QED
    BY <1>1, <1>3, <2>1 DEF SignedInThePast
<1> DEFINE After(m) ==
             LET msg  == messages'[m]
                 own  == tokens'[msg.token]
                 root == IF own.parent = 0 THEN own ELSE tokens'[own.parent]
             IN  /\ Allows(root, msg.action, DeviceType, msg.device)
                 /\ root.parent = 0
                 /\ msg.at <= root.notAfter
<1>5. ASSUME NEW m \in DOMAIN messages, WithinGrant(m) PROVE After(m)
  <2>1. messages'[m] = messages[m] /\ messages[m].token \in DOMAIN tokens
    BY <1>2, <1>3
  <2>2. Root(messages[m].token) \in DOMAIN tokens
    <3>1. tokens[messages[m].token] \in Token /\ DOMAIN tokens = 1..Len(tokens)
      BY <1>0, <2>1, TokensKeep DEF TypedMarked, IssuerTypeOK
    <3>2. CASE tokens[messages[m].token].parent # 0
      <4>1. tokens[messages[m].token].parent < messages[m].token
        BY <1>0, <2>1, <3>2 DEF IssuerInv, DelegatedWithinParent
      <4>2. tokens[messages[m].token].parent \in Nat
        BY <3>1 DEF Token
      <4> QED
        BY <2>1, <3>1, <3>2, <4>1, <4>2 DEF Root
    <3> QED
      BY <2>1, <3>2 DEF Root
  <2>3. tokens'[messages[m].token] = tokens[messages[m].token]
    BY <1>1, <2>1
  <2>4. tokens'[Root(messages[m].token)] = tokens[Root(messages[m].token)]
    BY <1>1, <2>2
  <2> QED
    BY <1>5, <2>1, <2>3, <2>4 DEF WithinGrant, Root
<1>6. AcceptedWithinGrant'
  <2>1. ASSUME NEW w \in Workers, exec'[w].pc = "execute"
        PROVE  \/ exec[w] = exec'[w]
               \/ \E m \in DOMAIN messages : Accept(w, m) /\ exec'[w].message = m
    <3>1. CASE UNCHANGED exec
      BY <3>1
    <3>2. ASSUME NEW x \in Workers, NEW m \in DOMAIN messages, Accept(x, m)
          PROVE  exec[w] = exec'[w] \/ (x = w /\ exec'[w].message = m)
      BY <1>2, <3>2 DEF Accept
    <3>3. ASSUME NEW x \in Workers, NEW o, o.pc # "execute", exec' = [exec EXCEPT ![x] = o]
          PROVE  exec[w] = exec'[w]
      BY <1>2, <2>1, <3>3
    <3>4. ASSUME NEW x \in Workers, NEW failed \in BOOLEAN, Execute(x, failed)
          PROVE  exec[w] = exec'[w]
      <4>1. [exec[x] EXCEPT !.pc = "record"].pc = "record"
        BY <1>2 DEF Exec
      <4> QED
        BY <3>3, <3>4, <4>1, ReadyType DEF Execute
    <3>5. ASSUME NEW x \in Workers, Abort(x) \/ \E counted \in BOOLEAN : Record(x, counted)
          PROVE  exec[w] = exec'[w]
      BY <3>3, <3>5, ReadyType DEF Abort, Record
    <3>6. CASE RestartAll
      BY <2>1, <3>6, ReadyType DEF RestartAll
    <3> QED
      BY <3>1, <3>2, <3>4, <3>5, <3>6 DEF Next, Operate, Compose, vars, proxyVars
  <2>2. ASSUME NEW w \in Workers, exec'[w].pc = "execute" PROVE After(exec'[w].message)
    <3>1. PICK m : m = exec'[w].message
      OBVIOUS
    <3>2. m \in DOMAIN messages /\ WithinGrant(m)
      BY <1>2, <2>1, <2>2, <3>1, AcceptedIsWithin DEF GrantInv, AcceptedWithinGrant
    <3> HIDE DEF After
    <3> QED
      BY <1>5, <3>1, <3>2
  <2> QED
    BY <2>2 DEF AcceptedWithinGrant, WithinGrant, Root
<1>7. PerformedWithinGrant'
  <2>1. \A i \in DOMAIN performed' :
          \/ i \in DOMAIN performed /\ performed'[i] = performed[i]
          \/ \E w \in Workers : exec[w].pc = "execute" /\ performed'[i] = exec[w].message
    <3>1. ASSUME NEW w \in Workers, NEW failed \in BOOLEAN, Execute(w, failed)
          PROVE  <2>1!:
      <4>1. /\ exec[w].pc = "execute" /\ performed' = Append(performed, exec[w].message)
            /\ exec[w].message \in Nat
        BY <1>2, <3>1 DEF Execute, Exec
      <4> QED
        BY <1>2, <4>1
    <3>2. CASE UNCHANGED performed
      BY <3>2
    <3> QED
      BY <3>1, <3>2 DEF Next, Operate, Accept, Abort, Record, RestartAll, Compose, vars, proxyVars
  <2>2. ASSUME NEW i \in DOMAIN performed' PROVE After(performed'[i])
    <3>1. PICK m : m = performed'[i]
      OBVIOUS
    <3>2. m \in DOMAIN messages /\ WithinGrant(m)
      BY <1>2, <2>1, <3>1 DEF GrantInv, AcceptedWithinGrant, PerformedWithinGrant
    <3> HIDE DEF After
    <3> QED
      BY <1>5, <3>1, <3>2
  <2> QED
    BY <2>2 DEF PerformedWithinGrant, WithinGrant, Root
<1> QED
  BY <1>0, <1>4, <1>6, <1>7 DEF GrantInv

(* Devices do only what tokens say that were asked of the policy engine.    *)
THEOREM ProxyPerformedWithinGrant == Spec => []PerformedWithinGrant
<1>1. GrantInv => PerformedWithinGrant
  BY DEF GrantInv
<1> QED
  BY <1>1, GrantInit, GrantStep, PTL DEF Spec

-----------------------------------------------------------------------------
(* What is recorded                                                         *)

(* An operation is done and is to be recorded, or is recorded and counted:  *)
(* R, D and u of a token before the step, and after it.                     *)
LEMMA CountStep ==
  ASSUME NEW R, IsFiniteSet(R), NEW D, IsFiniteSet(D), NEW u \in Nat,
         u + Cardinality(R) <= Cardinality(D),
         NEW R2, NEW D2, NEW u2 \in Nat, NEW w, NEW i, i \notin D,
         \/ R2 \subseteq R \union {w} /\ D2 = D \union {i} /\ u2 = u
         \/ w \in R /\ R2 = R \ {w} /\ D2 = D /\ u2 <= u + 1
  PROVE  IsFiniteSet(R2) /\ u2 + Cardinality(R2) <= Cardinality(D2)
<1>1. Cardinality(R) \in Nat /\ Cardinality(D) \in Nat
  BY FS_CardinalityType
<1>2. CASE R2 \subseteq R \union {w} /\ D2 = D \union {i} /\ u2 = u
  <2>1. Cardinality(D2) = Cardinality(D) + 1
    BY <1>2, FS_AddElement
  <2>2. IsFiniteSet(R \union {w}) /\ Cardinality(R \union {w}) <= Cardinality(R) + 1
    <3>1. /\ IsFiniteSet(R \union {w})
          /\ \/ Cardinality(R \union {w}) = Cardinality(R)
             \/ Cardinality(R \union {w}) = Cardinality(R) + 1
      BY FS_AddElement
    <3> QED
      BY <1>1, <3>1
  <2>3. /\ IsFiniteSet(R2) /\ Cardinality(R2) <= Cardinality(R \union {w})
        /\ Cardinality(R2) \in Nat /\ Cardinality(R \union {w}) \in Nat
    BY <1>2, <2>2, FS_Subset, FS_CardinalityType
  <2> QED
    BY <1>1, <1>2, <2>1, <2>2, <2>3
<1>3. CASE w \in R /\ R2 = R \ {w} /\ D2 = D /\ u2 <= u + 1
  <2>1. IsFiniteSet(R2) /\ Cardinality(R2) = Cardinality(R) - 1
    BY <1>3, FS_RemoveElement
  <2> QED
    BY <1>1, <1>3, <2>1
<1> QED
  BY <1>2, <1>3

(* What is done by a token is finite, and the next operation is new to it.  *)
LEMMA DoneFinite ==
  ASSUME ProxyTypeOK, NEW id
  PROVE  /\ IsFiniteSet(Done(id)) /\ Len(performed) + 1 \notin Done(id)
         /\ DOMAIN performed = 1..Len(performed) /\ Len(performed) \in Nat
<1>1. performed \in Seq(Nat)
  BY DEF ProxyTypeOK
<1>2. Len(performed) \in Nat /\ DOMAIN performed = 1..Len(performed)
  BY <1>1
<1>3. IsFiniteSet(1..Len(performed))
  BY <1>2, FS_Interval
<1> QED
  BY <1>2, <1>3, FS_Subset DEF Done

(* What is signed stays as it is.                                           *)
LEMMA MessagesKept ==
  ASSUME TypedMarked, ProxyTypeOK, [Next]_vars
  PROVE  \A m \in DOMAIN messages : messages'[m] = messages[m]
<1>1. messages \in Seq(Message) /\ now \in Nat /\ DOMAIN tokens \subseteq Nat
  BY TokensKeep DEF ProxyTypeOK, TypedMarked, IssuerTypeOK
<1>2. ASSUME NEW id \in DOMAIN tokens, NEW n \in Approvals, NEW device \in Names,
             NEW action \in Kinds, Compose(id, n, device, action)
      PROVE  \A m \in DOMAIN messages : messages'[m] = messages[m]
  <2>1. PICK msg : /\ msg = [token |-> id, approvals |-> n, device |-> device,
                             action |-> action, at |-> now]
                   /\ messages' = Append(messages, msg)
    BY <1>2 DEF Compose
  <2>2. msg \in Message
    BY <1>1, <2>1 DEF Message
  <2> QED
    BY <1>1, <2>1, <2>2
<1>3. CASE UNCHANGED messages
  BY <1>3
<1> QED
  BY <1>2, <1>3 DEF Next, Operate, Accept, Execute, Abort, Record, RestartAll, vars, proxyVars

(* Every step keeps the count, the recordings under way and what is done    *)
(* in balance.                                                              *)
LEMMA UsesRecordedStep ==
  ASSUME TypedMarked, TypedMarked', ProxyTypeOK, UsesRecorded, [Next]_vars
  PROVE  UsesRecorded'
<1> SUFFICES ASSUME NEW id \in Ids
             PROVE  /\ IsFiniteSet(Recording(id)')
                    /\ uses'[id] + Cardinality(Recording(id)') <= Cardinality(Done(id)')
  BY DEF UsesRecorded
<1> DEFINE R  == Recording(id)
           D  == Done(id)
           R2 == {w \in Workers : exec'[w].pc = "record" /\ messages'[exec'[w].message].token = id}
           D2 == {i \in DOMAIN performed' : messages'[performed'[i]].token = id}
           new == Len(performed) + 1
<1>1. /\ exec \in [Workers -> Exec] /\ performed \in Seq(Nat)
      /\ \A w \in Workers : exec[w].pc # "idle" => exec[w].message \in DOMAIN messages
      /\ \A i \in DOMAIN performed : performed[i] \in DOMAIN messages
      /\ uses \in [Ids -> Nat] /\ uses' \in [Ids -> Nat]
  BY DEF ProxyTypeOK, TypedMarked, IssuerTypeOK
<1>2. \A m \in DOMAIN messages : messages'[m] = messages[m]
  BY MessagesKept
<1>3. IsFiniteSet(D) /\ new \notin D /\ DOMAIN performed = 1..Len(performed) /\ Len(performed) \in Nat
  BY DoneFinite
<1>4. IsFiniteSet(R) /\ uses[id] + Cardinality(R) <= Cardinality(D)
  BY DEF UsesRecorded
<1>5. ASSUME NEW w \in Workers,
             \/ R2 \subseteq R \union {w} /\ D2 = D \union {new} /\ uses'[id] = uses[id]
             \/ w \in R /\ R2 = R \ {w} /\ D2 = D /\ uses'[id] <= uses[id] + 1
      PROVE  IsFiniteSet(R2) /\ uses'[id] + Cardinality(R2) <= Cardinality(D2)
  <2>1. uses[id] \in Nat /\ uses'[id] \in Nat
    BY <1>1
  <2> HIDE DEF R, D, R2, D2, new
  <2> QED
    BY ONLY <1>3, <1>4, <1>5, <2>1, CountStep
<1>6. ASSUME R2 \subseteq R, D2 = D, uses'[id] = uses[id]
      PROVE  IsFiniteSet(R2) /\ uses'[id] + Cardinality(R2) <= Cardinality(D2)
  <2>1. uses[id] \in Nat /\ uses'[id] \in Nat
    BY <1>1
  <2> HIDE DEF R, D, R2, D2, new
  <2>2. IsFiniteSet(R2) /\ Cardinality(R2) <= Cardinality(R)
    BY <1>4, <1>6, FS_Subset
  <2>3. Cardinality(R2) \in Nat /\ Cardinality(R) \in Nat /\ Cardinality(D) \in Nat
    BY <1>3, <1>4, <2>2, FS_CardinalityType
  <2> QED
    BY <1>4, <1>6, <2>1, <2>2, <2>3
<1>7. ASSUME NEW w \in Workers, exec'[w].pc = "record", exec[w].pc = "record", exec'[w] = exec[w]
      PROVE  w \in R2 <=> w \in R
  BY <1>1, <1>2, <1>7 DEF Recording
<1>8. ASSUME UNCHANGED performed
      PROVE  D2 = D
  BY <1>1, <1>2, <1>8 DEF Done
<1>9. ASSUME \A w \in Workers : exec'[w].pc = "record" => exec'[w] = exec[w]
      PROVE  R2 \subseteq R
  BY <1>7, <1>9
<1>10. ASSUME NEW w \in Workers, NEW failed \in BOOLEAN, Execute(w, failed)
       PROVE  /\ R2 \subseteq IF messages[exec[w].message].token = id THEN R \union {w} ELSE R
              /\ D2 = IF messages[exec[w].message].token = id THEN D \union {new} ELSE D
              /\ uses' = uses
  <2>1. /\ exec[w].pc = "execute" /\ exec[w].message \in DOMAIN messages /\ exec[w].message \in Nat
        /\ performed' = Append(performed, exec[w].message)
        /\ messages' = messages /\ uses' = uses
    BY <1>1, <1>10 DEF Execute, Exec, issuerVars
  <2>2. /\ DOMAIN performed' = 1..new
        /\ \A i \in DOMAIN performed : performed'[i] = performed[i]
        /\ performed'[new] = exec[w].message
    BY <1>1, <2>1
  <2>3. D2 = IF messages[exec[w].message].token = id THEN D \union {new} ELSE D
    <3>1. \A i : i \in DOMAIN performed' <=> i \in DOMAIN performed \/ i = new
      BY <1>3, <2>2
    <3> HIDE DEF new
    <3> QED
      BY <2>1, <2>2, <3>1 DEF Done
  <2>4. /\ \A x \in Workers \ {w} : exec'[x] = exec[x]
        /\ exec'[w].message = exec[w].message \/ exec'[w].pc = "idle"
    <3>1. \/ exec' = [exec EXCEPT ![w] = Ready]
          \/ exec' = [exec EXCEPT ![w] = [exec[w] EXCEPT !.pc = "record"]]
      BY <1>10 DEF Execute
    <3> QED
      BY <1>1, <3>1 DEF Ready, Exec
  <2>5. \A x \in R2 : x \in R \/ (x = w /\ messages[exec[w].message].token = id)
    BY <2>1, <2>4 DEF Recording
  <2> QED
    BY <2>1, <2>3, <2>5
<1>11. ASSUME NEW w \in Workers, NEW counted \in BOOLEAN, Record(w, counted)
       PROVE  /\ w \in Workers /\ messages' = messages /\ performed' = performed
              /\ IF messages[exec[w].message].token = id
                    THEN w \in R /\ R2 = R \ {w} /\ uses'[id] <= uses[id] + 1
                    ELSE R2 = R /\ uses'[id] = uses[id]
  <2>1. /\ exec[w].pc = "record" /\ messages' = messages /\ performed' = performed
        /\ exec' = [exec EXCEPT ![w] = Ready]
    BY <1>11 DEF Record
  <2>2. \A x \in Workers : exec'[x] = IF x = w THEN Ready ELSE exec[x]
    BY <1>1, <2>1
  <2>3. \A x : x \in R2 <=> x \in R /\ x # w
    BY <2>1, <2>2, ReadyType DEF Recording
  <2>4. w \in R <=> messages[exec[w].message].token = id
    BY <2>1 DEF Recording
  <2>5. \/ uses' = uses
        \/ uses' = [uses EXCEPT ![messages[exec[w].message].token] = @ + 1]
    BY <1>11 DEF Record, Use, issuerVars
  <2>6. /\ messages[exec[w].message].token = id => uses'[id] <= uses[id] + 1
        /\ messages[exec[w].message].token # id => uses'[id] = uses[id]
    BY <1>1, <2>5
  <2> QED
    BY <2>1, <2>3, <2>4, <2>6
<1>12. ASSUME \A w \in Workers : exec'[w].pc = "record" => exec'[w] = exec[w],
              UNCHANGED <<performed, uses>>
       PROVE  IsFiniteSet(R2) /\ uses'[id] + Cardinality(R2) <= Cardinality(D2)
  BY <1>6, <1>8, <1>9, <1>12
<1>13. ASSUME NEW w \in Workers, Operate(w)
       PROVE  IsFiniteSet(R2) /\ uses'[id] + Cardinality(R2) <= Cardinality(D2)
  <2>1. ASSUME NEW m \in DOMAIN messages, Accept(w, m)
        PROVE  IsFiniteSet(R2) /\ uses'[id] + Cardinality(R2) <= Cardinality(D2)
    BY <1>1, <1>12, <2>1 DEF Accept, issuerVars
  <2>2. ASSUME NEW failed \in BOOLEAN, Execute(w, failed)
        PROVE  IsFiniteSet(R2) /\ uses'[id] + Cardinality(R2) <= Cardinality(D2)
    <3> HIDE DEF R, D, R2, D2, new
    <3> QED
      BY <1>5, <1>6, <1>10, <2>2
  <2>3. CASE Abort(w)
    BY <1>1, <1>12, <2>3, ReadyType DEF Abort, issuerVars
  <2>4. ASSUME NEW counted \in BOOLEAN, Record(w, counted)
        PROVE  IsFiniteSet(R2) /\ uses'[id] + Cardinality(R2) <= Cardinality(D2)
    <3>1. D2 = D
      BY <1>8, <1>11, <2>4
    <3> HIDE DEF R, D, R2, D2, new
    <3> QED
      BY <1>5, <1>6, <1>11, <2>4, <3>1
  <2> QED
    BY <1>13, <2>1, <2>2, <2>3, <2>4 DEF Operate
<1>14. ASSUME RestartAll
       PROVE  IsFiniteSet(R2) /\ uses'[id] + Cardinality(R2) <= Cardinality(D2)
  BY <1>12, <1>14, ReadyType DEF RestartAll, Restart
<1>15. ASSUME UNCHANGED <<exec, performed, uses>>
       PROVE  IsFiniteSet(R2) /\ uses'[id] + Cardinality(R2) <= Cardinality(D2)
  BY <1>12, <1>15
<1>16. ASSUME NEW c \in Callers, IssuerCall(c) PROVE UNCHANGED uses
  BY <1>16 DEF IssuerCall, RequestToken, Delegate, Create, Refuse, Revoke, MarkRow, Note,
     LoadRevocations, Loaded
<1>17. IsFiniteSet(R2) /\ uses'[id] + Cardinality(R2) <= Cardinality(D2)
  <2> HIDE DEF R, D, R2, D2, new
  <2> QED
    BY <1>13, <1>14, <1>15, <1>16 DEF Next, Tick, Compose, vars, proxyVars, issuerVars
<1> QED
  BY <1>17 DEF Recording, Done

(* Of a token no more uses are recorded than devices did operations by it,  *)
(* for any number of workers and through failures and restarts.             *)
THEOREM ProxyUsesArePerformed == Spec => []UsesArePerformed
<1>1. Init => UsesRecorded
  <2> SUFFICES ASSUME Init, NEW id \in Ids
               PROVE  /\ IsFiniteSet(Recording(id))
                      /\ uses[id] + Cardinality(Recording(id)) <= Cardinality(Done(id))
    BY DEF UsesRecorded
  <2>1. Recording(id) = {} /\ Done(id) = {} /\ uses[id] = 0
    BY ReadyType DEF Init, IssuerInit, Recording, Done
  <2> QED
    BY <2>1, FS_EmptySet
<1>2. ProxyInv /\ UsesRecorded /\ [Next]_vars => UsesRecorded'
  BY ProxyInvStep, UsesRecordedStep DEF ProxyInv
<1>3. ProxyInv /\ UsesRecorded => UsesArePerformed
  <2> SUFFICES ASSUME ProxyInv, UsesRecorded, NEW id \in DOMAIN tokens
               PROVE  uses[id] <= Cardinality(Done(id))
    BY DEF UsesArePerformed
  <2>1. id \in Ids /\ uses[id] \in Nat
    BY TokensKeep DEF ProxyInv, TypedMarked, IssuerTypeOK
  <2>2. Cardinality(Recording(id)) \in Nat /\ Cardinality(Done(id)) \in Nat
    BY <2>1, DoneFinite, FS_CardinalityType DEF UsesRecorded, ProxyInv
  <2>3. uses[id] + Cardinality(Recording(id)) <= Cardinality(Done(id))
    BY <2>1 DEF UsesRecorded
  <2> QED
    BY <2>1, <2>2, <2>3
<1> QED
  BY <1>1, <1>2, <1>3, ProxyTypeInit, ProxyInvStep, PTL DEF Spec
===============================================================================
