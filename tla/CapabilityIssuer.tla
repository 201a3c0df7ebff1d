--------------------------- MODULE CapabilityIssuer ---------------------------
(***************************************************************************)
(* Capability tokens (pkg/models/capability.go) and their issuer           *)
(* (internal/capability/issuer.go): request, delegation, revocation and    *)
(* use, over a repository that has one row per token and a list of         *)
(* revocations in memory.                                                  *)
(*                                                                         *)
(* A list of grants is a function from positions, in their order, to its   *)
(* grants or None: dropping a grant leaves None at its position.           *)
(***************************************************************************)
EXTENDS Integers, Sequences, FiniteSets

CONSTANTS
  Callers,      (* goroutines calling the issuer                            *)
  Types, Names, (* types and ids of resources                               *)
  Blank,        (* the empty id of a selector                               *)
  Actions,
  Selectors,
  Positions,    (* of grants in a list                                      *)
  Requests,     (* what callers ask tokens for                              *)
  Shares,       (* the lists of grants they ask to delegate                 *)
  Answers,      (* what the policy engine may say of a grant's action       *)
  Window,       (* how far back LoadRevocations looks                       *)
  None,         (* no grant, no delegation, no draft, not revoked           *)
  MaxTokens, MaxTime, MaxErrors, MaxRestarts   (* bounds                    *)

(* ids: the ids with the selector's prefix, all if it has no pattern.  A    *)
(* prefix of the empty id is empty.                                         *)
Selector == [type : Types, id : Names \union {Blank}, ids : SUBSET (Names \union {Blank})]

Grant == [selector : Selectors,
          actions  : SUBSET Actions,
          approval : BOOLEAN,           (* RequiresApproval                 *)
          quorum   : Nat,               (* ApprovalQuorum                   *)
          denied   : SUBSET Actions]    (* history: what the policy engine  *)
                                        (* denied of it                     *)

GrantList == [Positions -> Grant \union {None}]

Granted(grants) == {i \in Positions : grants[i] # None}

Delegation == [depth : Nat, actions : SUBSET Actions]

Request == [grants     : GrantList,
            duration   : Nat,
            delegation : Delegation \union {None}]

Token == [key        : Nat,             (* with which it is signed          *)
          grants     : GrantList,
          notBefore  : Nat,
          notAfter   : Nat,
          delegation : Delegation \union {None},
          parent     : Nat,             (* 0: not delegated                 *)
          depth      : Nat]

ASSUME CapabilityAssumption ==
  /\ Blank \notin Names
  /\ Selectors \subseteq Selector
  /\ \A s \in Selectors : Blank \in s.ids => s.ids = Names \union {Blank}
  /\ Positions \subseteq Nat
  /\ Requests \subseteq Request
  /\ Shares \subseteq GrantList
  /\ Answers \subseteq {"allow", "deny", "step_up"}
  /\ None \notin Grant \union Delegation \union Token \union Nat
ASSUME CapabilityBounds ==
  /\ Window \in Nat /\ MaxTokens \in Nat /\ MaxTime \in Nat
  /\ MaxErrors \in Nat /\ MaxRestarts \in Nat

Ids == 1..MaxTokens

VARIABLES
  now,        (* the time                                                   *)
  key,        (* the issuer's key                                           *)
  tokens,     (* the repository's rows in the order of their creation; the  *)
              (* id of a token is its place                                 *)
  revokedAt,  (* per token: when its row was marked as revoked              *)
  uses,       (* per token: use_count of its row                            *)
  revoked,    (* Issuer.revoked: the tokens revoked as far as Verify knows  *)
  op,         (* per caller: its call in progress                           *)
  acked,      (* history: the tokens of which Revoke returned no error      *)
  missed,     (* history: the tokens whose row was marked with the reply    *)
              (* lost                                                       *)
  errors,     (* errors so far                                              *)
  restarts    (* restarts so far                                            *)

issuerVars == <<now, key, tokens, revokedAt, uses, revoked, op, acked, missed, errors, restarts>>

Op == [pc    : {"idle", "create", "revoke", "note", "load"},
       draft : Token \union {None},     (* Request and Delegate: the token  *)
       token : Nat,                     (* Revoke: its token                *)
       found : SUBSET Nat]              (* LoadRevocations: what it read    *)

Idle == [pc |-> "idle", draft |-> None, token |-> 0, found |-> {}]

-------------------------------------------------------------------------------
(* Tokens                                                                  *)

Matches(s, type, name) == s.type = type /\ s.id \in {Blank, name} /\ name \in s.ids

Allows(t, a, type, name) ==
  \E i \in Granted(t.grants) : Matches(t.grants[i].selector, type, name) /\ a \in t.grants[i].actions

(* GetGrantForResource: the first grant for the resource, whatever actions  *)
(* it is about.                                                             *)
GrantsFor(t, type, name) == {i \in Granted(t.grants) : Matches(t.grants[i].selector, type, name)}

FirstGrant(t, type, name) ==
  t.grants[CHOOSE i \in GrantsFor(t, type, name) : \A j \in GrantsFor(t, type, name) : i <= j]

(* RequiresApprovalFor and HasSufficientApprovals, of a token presented     *)
(* with n approvals.                                                        *)
Approved(t, n, type, name) ==
  \/ GrantsFor(t, type, name) = {}
  \/ ~FirstGrant(t, type, name).approval
  \/ n >= FirstGrant(t, type, name).quorum

(* Verify: signature, validity and the list in memory.  Nothing issued has  *)
(* a limit of uses, and Verify compares none.                               *)
Valid(id) ==
  /\ tokens[id].key = key
  /\ tokens[id].notBefore <= now
  /\ now <= tokens[id].notAfter
  /\ id \notin revoked

-------------------------------------------------------------------------------
IssuerInit ==
  /\ now = 0
  /\ key = 0
  /\ tokens = <<>>
  /\ revokedAt = [t \in Ids |-> None]
  /\ uses = [t \in Ids |-> 0]
  /\ revoked = {}
  /\ op = [c \in Callers |-> Idle]
  /\ acked = {}
  /\ missed = {}
  /\ errors = 0
  /\ restarts = 0

Fault == errors < MaxErrors /\ errors' = errors + 1

(* The grants of a request as Request approves them: it asks the policy     *)
(* engine about every action; a step-up makes the grant require approval,   *)
(* a denial is logged.  A list of none is refused.                          *)
ApprovedGrants(grants, said) ==
  LET heard(i, answer) == {a \in grants[i].actions : said[i][a] = answer}
  IN  [i \in Positions |->
        IF grants[i] = None THEN None
        ELSE [grants[i] EXCEPT !.approval = @ \/ heard(i, "step_up") # {},
                               !.quorum = IF heard(i, "step_up") # {} THEN 1 ELSE @,
                               !.denied = heard(i, "deny")]]

RequestToken(c, r) ==
  /\ op[c].pc = "idle"
  /\ Len(tokens) < MaxTokens
  /\ Granted(r.grants) # {}
  /\ \E said \in [Granted(r.grants) -> [Actions -> Answers]] :
       op' = [op EXCEPT ![c] =
               [Idle EXCEPT !.pc = "create",
                            !.draft = [key        |-> key,
                                       grants     |-> ApprovedGrants(r.grants, said),
                                       notBefore  |-> now,
                                       notAfter   |-> now + r.duration,
                                       delegation |-> r.delegation,
                                       parent     |-> 0,
                                       depth      |-> 0]]]
  /\ UNCHANGED <<now, key, tokens, revokedAt, uses, revoked, acked, missed, errors, restarts>>

(* Bug: it is not asked whether the parent allows the action on the         *)
(* resource of the grant.                                                   *)
DelegatedAnywhere(p, grants) ==
  LET kept(i) == grants[i].actions \intersect p.delegation.actions
  IN  [i \in Positions |->
        IF grants[i] = None THEN None
        ELSE IF kept(i) = {} THEN None
        ELSE [grants[i] EXCEPT !.actions = kept(i)]]

(* Delegate's filter: the actions the parent may delegate and allows, and   *)
(* the grants that keep any.  What else a grant says comes from the request.*)
DelegatedGrants(p, grants) ==
  LET kept(i) == {a \in grants[i].actions \intersect p.delegation.actions :
                    Allows(p, a, grants[i].selector.type, grants[i].selector.id)}
  IN  [i \in Positions |->
        IF grants[i] = None THEN None
        ELSE IF kept(i) = {} THEN None
        ELSE [grants[i] EXCEPT !.actions = kept(i)]]

Delegate(c, id, grants) ==
  /\ op[c].pc = "idle"
  /\ Len(tokens) < MaxTokens
  /\ tokens[id].delegation # None
  /\ tokens[id].depth < tokens[id].delegation.depth
  /\ Valid(id)
  /\ Granted(DelegatedGrants(tokens[id], grants)) # {}
  /\ op' = [op EXCEPT ![c] =
             [Idle EXCEPT !.pc = "create",
                          !.draft = [key        |-> key,
                                     grants     |-> DelegatedGrants(tokens[id], grants),
                                     notBefore  |-> now,
                                     notAfter   |-> tokens[id].notAfter,
                                     delegation |-> None,
                                     parent     |-> id,
                                     depth      |-> tokens[id].depth + 1]]]
  /\ UNCHANGED <<now, key, tokens, revokedAt, uses, revoked, acked, missed, errors, restarts>>

(* Create stores the token; if the table refuses it the caller has none.    *)
(* A caller whose reply is lost gets an error, and the row is there.        *)
Create(c) ==
  /\ op[c].pc = "create"
  /\ Len(tokens) < MaxTokens
  /\ tokens' = Append(tokens, op[c].draft)
  /\ op' = [op EXCEPT ![c] = Idle]
  /\ UNCHANGED <<now, key, revokedAt, uses, revoked, acked, missed, errors, restarts>>

(* The table refuses what Create or Revoke would write.                     *)
Refuse(c) ==
  /\ op[c].pc \in {"create", "revoke"}
  /\ Fault
  /\ op' = [op EXCEPT ![c] = Idle]
  /\ UNCHANGED <<now, key, tokens, revokedAt, uses, revoked, acked, missed, restarts>>

(* Revoke reads the token, marks its row and then adds it to the list.      *)
Revoke(c, id) ==
  /\ op[c].pc = "idle"
  /\ op' = [op EXCEPT ![c] = [Idle EXCEPT !.pc = "revoke", !.token = id]]
  /\ UNCHANGED <<now, key, tokens, revokedAt, uses, revoked, acked, missed, errors, restarts>>

MarkRow(c, lost) ==
  /\ op[c].pc = "revoke"
  /\ revokedAt' = [revokedAt EXCEPT ![op[c].token] = now]
  /\ IF lost THEN /\ Fault
                  /\ missed' = missed \union {op[c].token}
                  /\ op' = [op EXCEPT ![c] = Idle]
             ELSE /\ op' = [op EXCEPT ![c] = [@ EXCEPT !.pc = "note"]]
                  /\ UNCHANGED <<missed, errors>>
  /\ UNCHANGED <<now, key, tokens, uses, revoked, acked, restarts>>

Note(c) ==
  /\ op[c].pc = "note"
  /\ revoked' = revoked \union {op[c].token}
  /\ acked' = acked \union {op[c].token}
  /\ op' = [op EXCEPT ![c] = Idle]
  /\ UNCHANGED <<now, key, tokens, revokedAt, uses, missed, errors, restarts>>

(* Bug: rows that were never marked are loaded as well.                     *)
LoadUnmarked(c) ==
  /\ op[c].pc = "idle"
  /\ op' = [op EXCEPT ![c] =
             [Idle EXCEPT !.pc = "load",
                          !.found = {t \in Ids : revokedAt[t] = None \/ revokedAt[t] >= now - Window}]]
  /\ UNCHANGED <<now, key, tokens, revokedAt, uses, revoked, acked, missed, errors, restarts>>

(* LoadRevocations reads the recent revocations and adds them to the list.  *)
LoadRevocations(c) ==
  /\ op[c].pc = "idle"
  /\ op' = [op EXCEPT ![c] =
             [Idle EXCEPT !.pc = "load",
                          !.found = {t \in Ids : revokedAt[t] # None /\ revokedAt[t] >= now - Window}]]
  /\ UNCHANGED <<now, key, tokens, revokedAt, uses, revoked, acked, missed, errors, restarts>>

(* Bug: what was loaded replaces the list.                                  *)
LoadReplaces(c) ==
  /\ op[c].pc = "load"
  /\ revoked' = op[c].found
  /\ op' = [op EXCEPT ![c] = Idle]
  /\ UNCHANGED <<now, key, tokens, revokedAt, uses, acked, missed, errors, restarts>>

Loaded(c) ==
  /\ op[c].pc = "load"
  /\ revoked' = revoked \union op[c].found
  /\ op' = [op EXCEPT ![c] = Idle]
  /\ UNCHANGED <<now, key, tokens, revokedAt, uses, acked, missed, errors, restarts>>

(* Use, of a token presented with n approvals for an action: it verifies    *)
(* again and counts.                                                        *)
Use(id, n, a, type, name) ==
  /\ Valid(id)
  /\ Allows(tokens[id], a, type, name)
  /\ Approved(tokens[id], n, type, name)
  /\ uses' = [uses EXCEPT ![id] = @ + 1]
  /\ UNCHANGED <<now, key, tokens, revokedAt, revoked, op, acked, missed, errors, restarts>>

Tick ==
  /\ now < MaxTime
  /\ now' = now + 1
  /\ UNCHANGED <<key, tokens, revokedAt, uses, revoked, op, acked, missed, errors, restarts>>

(* Bug: the issuer keeps its key.                                           *)
RestartSameKey ==
  /\ restarts < MaxRestarts
  /\ restarts' = restarts + 1
  /\ revoked' = {}
  /\ op' = [c \in Callers |-> Idle]
  /\ UNCHANGED <<now, key, tokens, revokedAt, uses, acked, missed, errors>>

(* The process ends and starts again with NewIssuer: it makes a new key,    *)
(* also if the configuration has one, and an empty list; nothing in cmd/    *)
(* loads the revocations.                                                   *)
Restart ==
  /\ restarts < MaxRestarts
  /\ restarts' = restarts + 1
  /\ key' = key + 1
  /\ revoked' = {}
  /\ op' = [c \in Callers |-> Idle]
  /\ UNCHANGED <<now, tokens, revokedAt, uses, acked, missed, errors>>

IssuerCall(c) ==
  \/ \E r \in Requests : RequestToken(c, r)
  \/ \E id \in DOMAIN tokens, grants \in Shares : Delegate(c, id, grants)
  \/ Create(c)
  \/ Refuse(c)
  \/ \E id \in DOMAIN tokens : Revoke(c, id)
  \/ \E lost \in BOOLEAN : MarkRow(c, lost)
  \/ Note(c)
  \/ LoadRevocations(c)
  \/ Loaded(c)

IssuerNext ==
  \/ \E c \in Callers : IssuerCall(c)
  \/ \E id \in DOMAIN tokens, n \in Nat, a \in Actions, type \in Types, name \in Names :
       Use(id, n, a, type, name)
  \/ Tick
  \/ Restart

IssuerSpec == IssuerInit /\ [][IssuerNext]_issuerVars

-------------------------------------------------------------------------------
(* Properties                                                              *)

IssuerTypeOK ==
  /\ now \in Nat /\ key \in Nat
  /\ tokens \in Seq(Token) /\ Len(tokens) <= MaxTokens
  /\ revokedAt \in [Ids -> Nat \union {None}]
  /\ uses \in [Ids -> Nat]
  /\ revoked \subseteq DOMAIN tokens
  /\ op \in [Callers -> Op]
  /\ \A c \in Callers : /\ op[c].pc = "create" => op[c].draft # None
                        /\ op[c].pc \in {"revoke", "note"} => op[c].token \in DOMAIN tokens
                        /\ op[c].found \subseteq DOMAIN tokens
  /\ acked \subseteq DOMAIN tokens /\ missed \subseteq DOMAIN tokens
  /\ errors \in Nat /\ restarts \in Nat

(* Once Revoke has returned, Verify refuses the token, whatever restarts    *)
(* and however far back LoadRevocations looks.  And a row marked as revoked *)
(* is refused, but while its Revoke has yet to add it to the list, or if    *)
(* the reply of the table was lost.                                         *)
RevocationHolds ==
  \A id \in DOMAIN tokens :
    Valid(id) =>
      /\ id \notin acked
      /\ \/ revokedAt[id] = None
         \/ id \in missed
         \/ \E c \in Callers : op[c].pc = "note" /\ op[c].token = id

(* What Verify refuses once it refuses for ever: expiry, revocation and the *)
(* key's end are final.                                                     *)
RefusalIsFinal ==
  [][\A id \in DOMAIN tokens : ~Valid(id) => ~Valid(id)']_issuerVars

(* A delegated token allows no action on any resource that its parent does  *)
(* not allow, is delegated no further, and ends with its parent.            *)
Within(child, p) ==
  /\ \A a \in Actions, type \in Types, name \in Names :
       Allows(child, a, type, name) => Allows(p, a, type, name)
  /\ child.notAfter <= p.notAfter
  /\ child.key = p.key
  /\ p.parent = 0
  /\ child.delegation = None

DelegatedWithinParent ==
  \A id \in DOMAIN tokens :
    tokens[id].parent # 0 =>
      /\ tokens[id].parent < id
      /\ Within(tokens[id], tokens[tokens[id].parent])

(* A token holds no action that the policy engine denied to its request.    *)
GrantsApproved ==
  \A id \in DOMAIN tokens : \A i \in Granted(tokens[id].grants) :
    tokens[id].grants[i].actions \intersect tokens[id].grants[i].denied = {}

-------------------------------------------------------------------------------
(* The inductive invariant behind the proofs                               *)

(* Only tokens that are stored are marked as revoked.                       *)
Marked == \A t \in Ids : revokedAt[t] # None => t \in DOMAIN tokens

(* No token is of a key or of a time to come.                               *)
Past ==
  /\ \A id \in DOMAIN tokens : tokens[id].key <= key /\ tokens[id].notBefore <= now
  /\ \A c \in Callers : op[c].pc = "create" => /\ op[c].draft.key <= key
                                             /\ op[c].draft.notBefore <= now

(* A token about to be stored is within its parent already.                 *)
DraftsWithin ==
  \A c \in Callers :
    op[c].pc = "create" /\ op[c].draft.parent # 0 =>
      /\ op[c].draft.parent \in DOMAIN tokens
      /\ Within(op[c].draft, tokens[op[c].draft.parent])
===============================================================================
