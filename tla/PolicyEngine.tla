----------------------------- MODULE PolicyEngine -----------------------------
(***************************************************************************)
(* The policy engine of internal/policy/engine.go: the active policies of  *)
(* the table, kept in a map under a read-write lock, and a cache of        *)
(* decisions that every change of a policy clears.                         *)
(*                                                                         *)
(* What a rule's matcher says of a request is a parameter: Matching gives  *)
(* the effects of the rules of a policy that match, in their order.        *)
(***************************************************************************)
EXTENDS Integers, Sequences, FiniteSets, SequencesExt

CONSTANTS
  Callers,      (* goroutines calling the engine                            *)
  Policies,     (* ids of policies                                          *)
  Contents,     (* what a version of a policy says                          *)
  Perishable,   (* the contents with an EffectiveUntil                      *)
  Requests,
  Matching,     (* per content and request: effects of the matching rules   *)
  Key,          (* per request: its cache key, which leaves out the context *)
                (* and the subject's roles and groups                       *)
  None,         (* no policy, no content, no request, no decision           *)
  MaxUpdates,   (* bound on policies created and updated                    *)
  MaxErrors,    (* bound on lost replies and failed loads                   *)
  MaxRestarts   (* bound on restarts                                        *)

Effects == {"allow", "deny", "step_up"}

Row == [content : Contents, active : BOOLEAN]

ASSUME PolicyAssumption ==
  /\ None \notin Policies \union Contents \union Requests \union Effects
  /\ None \notin Row
  /\ Perishable \subseteq Contents
  /\ DOMAIN Key = Requests
  /\ Matching \in [Contents -> [Requests -> Seq(Effects)]]
ASSUME PolicyBounds == MaxUpdates \in Nat /\ MaxErrors \in Nat /\ MaxRestarts \in Nat

Keys == {Key[r] : r \in Requests}

VARIABLES
  stored,    (* per id: the row of the table policies, if there is one      *)
  loaded,    (* Engine.policies: per id, the content in the map, if any     *)
  cache,     (* per key: the decision cached, if any                        *)
  op,        (* per caller: its call in progress                            *)
  over,      (* the contents whose EffectiveUntil has passed                *)
  torn,      (* history: ids whose updates overlapped or lost their reply,  *)
             (* or all, if the policies could not be loaded                 *)
  updates,   (* updates so far                                              *)
  errors,    (* errors so far                                               *)
  restarts   (* restarts so far                                             *)

vars == <<stored, loaded, cache, op, over, torn, updates, errors, restarts>>

(* Evaluate: "wait" for the read lock, "set" the cache and release it, and  *)
(* "answer"; CreatePolicy and UpdatePolicy: "lock" for writing, "clear".    *)
Op == [pc      : {"idle", "wait", "set", "answer", "lock", "clear"},
       req     : Requests \union {None},
       answer  : Effects \union {None},
       current : BOOLEAN,               (* history: no update was under way  *)
                                        (* since the call began              *)
       id      : Policies \union {None},
       row     : Row \union {None}]

Idle == [pc |-> "idle", req |-> None, answer |-> None, current |-> FALSE,
         id |-> None, row |-> None]

-------------------------------------------------------------------------------
(* The decision                                                            *)

(* Policy.Evaluate: what its matching rules say, one after the other; the   *)
(* loop returns at the first that denies.                                   *)
NextRule(said, effect) == IF said = "deny" THEN said ELSE effect

PolicyDecision(content, r) == FoldLeft(NextRule, None, Matching[content][r])

(* Bug: the loop goes on after a policy that denies.                        *)
MergeLast(decision, said) ==
  CASE said \in {"deny", "allow"} -> said
    [] said = "step_up" /\ decision \notin {None, "deny"} -> said
    [] OTHER -> decision

(* Engine.Evaluate's loop over the policies: it breaks at one that denies,  *)
(* and starts from deny (None here), which a step-up does not replace.      *)
Merge(decision, said) ==
  CASE decision = "deny" -> decision
    [] decision # "deny" /\ said \in {"deny", "allow"} -> said
    [] decision \notin {"deny", None} /\ said = "step_up" -> said
    [] OTHER -> decision

Evaluate(order, r) ==
  LET decision == FoldLeft(Merge, None, [i \in DOMAIN order |-> PolicyDecision(order[i], r)])
  IN  IF decision = None THEN "deny" ELSE decision

(* The decisions an evaluation can reach if `gone` is over: a map has no    *)
(* order of its own.                                                        *)
Decisions(r, gone) ==
  LET live == {p \in Policies : loaded[p] \notin gone \union {None}}
  IN  {Evaluate([i \in DOMAIN order |-> loaded[order[i]]], r) : order \in SetToSeqs(live)}

-------------------------------------------------------------------------------
Init ==
  /\ stored = [p \in Policies |-> None]
  /\ loaded = [p \in Policies |-> None]
  /\ cache = [k \in Keys |-> None]
  /\ op = [c \in Callers |-> Idle]
  /\ over = {}
  /\ torn = {}
  /\ updates = 0
  /\ errors = 0
  /\ restarts = 0

Updating == \E c \in Callers : op[c].pc \in {"lock", "clear"}

(* Bug: an entry that is not there is answered.                             *)
LookupBlind(c, r) ==
  LET call == [Idle EXCEPT !.req = r, !.current = ~Updating]
  IN  /\ op[c].pc = "idle"
      /\ op' = [op EXCEPT ![c] = [call EXCEPT !.pc = "answer", !.answer = cache[Key[r]]]]
      /\ UNCHANGED <<stored, loaded, cache, over, torn, updates, errors, restarts>>

(* Evaluate looks the request's key up in the cache.                        *)
Lookup(c, r) ==
  LET call == [Idle EXCEPT !.req = r, !.current = ~Updating]
  IN  /\ op[c].pc = "idle"
      /\ op' = [op EXCEPT ![c] = IF cache[Key[r]] = None
                                   THEN [call EXCEPT !.pc = "wait"]
                                   ELSE [call EXCEPT !.pc = "answer", !.answer = cache[Key[r]]]]
      /\ UNCHANGED <<stored, loaded, cache, over, torn, updates, errors, restarts>>

(* It takes the read lock, once no writer waits for the lock, and goes      *)
(* through the policies of the map in some order.                           *)
Decide(c, decision) ==
  /\ op[c].pc = "wait"
  /\ ~ \E x \in Callers : op[x].pc = "lock"
  /\ decision \in Decisions(op[c].req, over)
  /\ op' = [op EXCEPT ![c] = [@ EXCEPT !.pc = "set", !.answer = decision]]
  /\ UNCHANGED <<stored, loaded, cache, over, torn, updates, errors, restarts>>

(* It caches the decision, lets go of the lock and returns.                 *)
Set(c) ==
  /\ op[c].pc = "set"
  /\ cache' = [cache EXCEPT ![Key[op[c].req]] = op[c].answer]
  /\ op' = [op EXCEPT ![c] = [@ EXCEPT !.pc = "answer"]]
  /\ UNCHANGED <<stored, loaded, over, torn, updates, errors, restarts>>

Return(c) ==
  /\ op[c].pc = "answer"
  /\ op' = [op EXCEPT ![c] = Idle]
  /\ UNCHANGED <<stored, loaded, cache, over, torn, updates, errors, restarts>>

-------------------------------------------------------------------------------
(* INSERT, which the primary key refuses of an id that is there, and UPDATE,*)
(* which finds none where there is none: both are errors without effect.    *)
Create(p, row) == stored[p] = None /\ stored' = [stored EXCEPT ![p] = row]
Update(p, row) == stored[p] # None /\ stored' = [stored EXCEPT ![p] = row]

(* The rows LoadPolicies finds: the status is all the query asks for.       *)
GetActive ==
  [p \in Policies |-> IF stored[p] # None /\ stored[p].active THEN stored[p].content ELSE None]

(* CreatePolicy of an id the table has no row for, and UpdatePolicy of one  *)
(* it has, write the row.  A policy that does not validate and a row that   *)
(* is refused change nothing.  The reply of the table may be lost.          *)
Write(c, p, row, lost) ==
  LET next == IF stored[p] = None /\ ~row.active THEN "clear" ELSE "lock"
      late == \E x \in Callers : op[x].pc = "lock" /\ op[x].id = p
  IN  /\ op[c].pc = "idle"
      /\ updates < MaxUpdates
      /\ updates' = updates + 1
      /\ Create(p, row) \/ Update(p, row)
      /\ op' = [x \in Callers |->
                  IF x = c THEN IF lost THEN Idle
                                ELSE [Idle EXCEPT !.pc = next, !.id = p, !.row = row]
                           ELSE [op[x] EXCEPT !.current = FALSE]]
      /\ torn' = IF late \/ lost THEN torn \union {p} ELSE torn
      /\ IF lost THEN errors < MaxErrors /\ errors' = errors + 1 ELSE UNCHANGED errors
      /\ UNCHANGED <<loaded, cache, over, restarts>>

(* Bug: the map is written without the write lock.                          *)
InstallUnlocked(c) ==
  /\ op[c].pc = "lock"
  /\ loaded' = [loaded EXCEPT ![op[c].id] = IF op[c].row.active THEN op[c].row.content ELSE None]
  /\ op' = [op EXCEPT ![c] = [@ EXCEPT !.pc = "clear"]]
  /\ UNCHANGED <<stored, cache, over, torn, updates, errors, restarts>>

(* Bug: a policy that is no longer active stays in the map.                 *)
InstallActive(c) ==
  /\ op[c].pc = "lock"
  /\ ~ \E x \in Callers : op[x].pc = "set"
  /\ loaded' = IF op[c].row.active THEN [loaded EXCEPT ![op[c].id] = op[c].row.content]
                                   ELSE loaded
  /\ op' = [op EXCEPT ![c] = [@ EXCEPT !.pc = "clear"]]
  /\ UNCHANGED <<stored, cache, over, torn, updates, errors, restarts>>

(* Bug: the lock is taken for reading, and then for writing as well.        *)
InstallUpgrades(c) ==
  /\ op[c].pc = "lock"
  /\ ~ \E x \in Callers : op[x].pc \in {"set", "lock"}
  /\ loaded' = [loaded EXCEPT ![op[c].id] = IF op[c].row.active THEN op[c].row.content ELSE None]
  /\ op' = [op EXCEPT ![c] = [@ EXCEPT !.pc = "clear"]]
  /\ UNCHANGED <<stored, cache, over, torn, updates, errors, restarts>>

(* With the write lock, once no reader has it, the map follows: an active   *)
(* policy is put in, another taken out.                                     *)
Install(c) ==
  /\ op[c].pc = "lock"
  /\ ~ \E x \in Callers : op[x].pc = "set"
  /\ loaded' = [loaded EXCEPT ![op[c].id] = IF op[c].row.active THEN op[c].row.content ELSE None]
  /\ op' = [op EXCEPT ![c] = [@ EXCEPT !.pc = "clear"]]
  /\ UNCHANGED <<stored, cache, over, torn, updates, errors, restarts>>

(* Bug: only a policy that comes into force clears the cache.               *)
ClearActive(c) ==
  /\ op[c].pc = "clear"
  /\ cache' = IF op[c].row.active THEN [k \in Keys |-> None] ELSE cache
  /\ op' = [op EXCEPT ![c] = Idle]
  /\ UNCHANGED <<stored, loaded, over, torn, updates, errors, restarts>>

(* The cache is cleared, without the lock, and the call returns.            *)
Clear(c) ==
  /\ op[c].pc = "clear"
  /\ cache' = [k \in Keys |-> None]
  /\ op' = [op EXCEPT ![c] = Idle]
  /\ UNCHANGED <<stored, loaded, over, torn, updates, errors, restarts>>

-------------------------------------------------------------------------------
(* An entry's time to live, a minute, is over.                              *)
Expire(k) ==
  /\ cache[k] # None
  /\ cache' = [cache EXCEPT ![k] = None]
  /\ UNCHANGED <<stored, loaded, op, over, torn, updates, errors, restarts>>

(* A policy's EffectiveUntil passes.                                        *)
Lapse(content) ==
  /\ content \in Perishable \ over
  /\ over' = over \union {content}
  /\ UNCHANGED <<stored, loaded, cache, op, torn, updates, errors, restarts>>

(* The process ends, and starts again with LoadPolicies; if that fails it   *)
(* goes on with no policies.                                                *)
Restart(ok) ==
  /\ restarts < MaxRestarts
  /\ restarts' = restarts + 1
  /\ cache' = [k \in Keys |-> None]
  /\ op' = [c \in Callers |-> Idle]
  /\ IF ok THEN /\ loaded' = GetActive
                /\ torn' = {}
                /\ UNCHANGED errors
           ELSE /\ loaded' = [p \in Policies |-> None]
                /\ torn' = Policies
                /\ errors < MaxErrors
                /\ errors' = errors + 1
  /\ UNCHANGED <<stored, over, updates>>

-------------------------------------------------------------------------------
Proceed(c) ==
  \/ \E decision \in Effects : Decide(c, decision)
  \/ Set(c)
  \/ Return(c)
  \/ Install(c)
  \/ Clear(c)

Next ==
  \/ \E c \in Callers, r \in Requests : Lookup(c, r)
  \/ \E c \in Callers, p \in Policies, row \in Row, lost \in BOOLEAN : Write(c, p, row, lost)
  \/ \E c \in Callers : Proceed(c)
  \/ \E k \in Keys : Expire(k)
  \/ \E content \in Perishable : Lapse(content)
  \/ \E ok \in BOOLEAN : Restart(ok)

(* A goroutine that can go on does; the lock keeps new readers out while a  *)
(* writer waits.                                                            *)
Fairness == \A c \in Callers : WF_vars(Proceed(c))

Spec == Init /\ [][Next]_vars /\ Fairness

-------------------------------------------------------------------------------
(* Properties                                                              *)

TypeOK ==
  /\ stored \in [Policies -> Row \union {None}]
  /\ loaded \in [Policies -> Contents \union {None}]
  /\ cache \in [Keys -> Effects \union {None}]
  /\ op \in [Callers -> Op]
  /\ \A c \in Callers : /\ op[c].pc \in {"wait", "set", "answer"} => op[c].req # None
                        /\ op[c].pc \in {"set", "answer"} => op[c].answer # None
                        /\ op[c].pc \in {"lock", "clear"} => op[c].id # None /\ op[c].row # None
  /\ over \subseteq Perishable
  /\ torn \subseteq Policies
  /\ updates \in Nat /\ errors \in Nat /\ restarts \in Nat

(* The decisions the loaded policies give, now or before some of them were  *)
(* over, to a request with the key.                                         *)
Justified(k) == UNION {Decisions(r, gone) : r \in {q \in Requests : Key[q] = k}, gone \in SUBSET over}

(* Nothing is cached that the policies in the map do not say, except while  *)
(* an update that has written the map has yet to clear the cache: no        *)
(* evaluation begun before it puts an old decision back afterwards.         *)
CacheCurrent ==
  \/ \E c \in Callers : op[c].pc = "clear"
  \/ \A k \in Keys : cache[k] # None => cache[k] \in Justified(k)

(* An evaluation that no update overlaps answers by the policies in force:  *)
(* once UpdatePolicy has returned, no evaluation that begins answers by the *)
(* old ones.                                                                *)
AnswersCurrent ==
  \A c \in Callers :
    op[c].pc = "answer" /\ op[c].current => op[c].answer \in Justified(Key[op[c].req])

(* What an undisturbed evaluation owes its own request.                     *)
AnswersItsOwn ==
  \A c \in Callers :
    op[c].pc = "answer" /\ op[c].current =>
      \E gone \in SUBSET over : op[c].answer \in Decisions(op[c].req, gone)

(* The map holds the active policies of the table, when their updates do    *)
(* not overlap and none lost its reply.                                     *)
Follows(p) == loaded[p] = GetActive[p]

LoadedIsStored ==
  \A p \in Policies \ torn :
    (~ \E c \in Callers : op[c].pc = "lock" /\ op[c].id = p) => Follows(p)

(* What the policies of the map that are not over say of a request taken    *)
(* together, whatever the order of the map and of their rules.              *)
Combined(r, answer, gone) ==
  LET live    == {loaded[p] : p \in Policies} \ (gone \union {None})
      denies  == \E content \in live : "deny" \in ToSet(Matching[content][r])
      allows  == \E content \in live : "allow" \in ToSet(Matching[content][r])
      demands == \E content \in live : "step_up" \in ToSet(Matching[content][r])
  IN  /\ denies \/ ~allows => answer = "deny"
      /\ answer = "step_up" => demands /\ allows

(* Whatever the order of the map and of the rules: one policy that denies   *)
(* is enough to deny, nothing is allowed that no policy allows, and a       *)
(* step-up is demanded only of what is allowed.                             *)
DenyOverrides ==
  \A c \in Callers :
    op[c].pc = "set" => \E gone \in SUBSET over : Combined(op[c].req, op[c].answer, gone)

(* Every call returns, or dies with the process.                            *)
CallsReturn == \A c \in Callers : op[c].pc # "idle" ~> op[c].pc = "idle"

(* Updates made at the same time leave the map as the table.                *)
UpdatesConverge ==
  (\A c \in Callers : op[c].pc = "idle") => \A p \in Policies : Follows(p)

-------------------------------------------------------------------------------
(* The inductive invariant behind the proofs                               *)

(* A decision about to be cached is one of the policies in the map: while   *)
(* it waits for the cache the read lock keeps the map as it is.             *)
InFlight == \A c \in Callers : op[c].pc = "set" => op[c].answer \in Justified(Key[op[c].req])

(* A call is marked as overlapped as soon as an update is under way.        *)
Marked == \A c \in Callers : op[c].current => ~Updating

(* At most one update of an id that is not torn waits for the lock, and it  *)
(* brings what the table has.                                               *)
OneWriter ==
  \A p \in Policies \ torn : \A c \in Callers :
    op[c].pc = "lock" /\ op[c].id = p =>
      /\ op[c].row = stored[p]
      /\ \A x \in Callers : op[x].pc = "lock" /\ op[x].id = p => x = c

(* The table and the map hold finitely many policies, however many ids      *)
(* there are, so that every order of them is a sequence.                    *)
FinitelyMany ==
  /\ IsFiniteSet({p \in Policies : stored[p] # None})
  /\ IsFiniteSet({p \in Policies : loaded[p] # None})
===============================================================================
