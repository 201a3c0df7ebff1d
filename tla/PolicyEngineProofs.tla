-------------------------- MODULE PolicyEngineProofs --------------------------
(***************************************************************************)
(* Proofs about the policy engine.                                         *)
(***************************************************************************)
EXTENDS PolicyEngine, PolicyRules, FiniteSetTheorems, TLAPS

-----------------------------------------------------------------------------
(* Typing                                                                   *)

LEMMA IdleType == Idle \in Op
BY DEF Idle, Op

LEMMA NoneFresh == None \notin Policies /\ None \notin Contents /\ None \notin Requests
                   /\ None \notin Effects /\ None \notin Row
BY PolicyAssumption

LEMMA TypeInit == Init => TypeOK
BY IdleType, PolicyBounds DEF Init, TypeOK, Idle

LEMMA TypeStep == TypeOK /\ [Next]_vars => TypeOK'
<1> SUFFICES ASSUME TypeOK, [Next]_vars PROVE TypeOK'
  OBVIOUS
<1>0. /\ stored \in [Policies -> Row \union {None}]
      /\ loaded \in [Policies -> Contents \union {None}]
      /\ cache \in [Keys -> Effects \union {None}]
      /\ op \in [Callers -> Op]
      /\ over \subseteq Perishable /\ torn \subseteq Policies
      /\ updates \in Nat /\ errors \in Nat /\ restarts \in Nat
  BY DEF TypeOK
<1>1. ASSUME NEW c \in Callers, NEW r \in Requests, Lookup(c, r) PROVE TypeOK'
  <2> DEFINE call == [Idle EXCEPT !.req = r, !.current = ~Updating]
  <2>1. Key[r] \in Keys
    BY DEF Keys
  <2>2. cache[Key[r]] # None => cache[Key[r]] \in Effects
    BY <1>0, <2>1
  <2>3. [call EXCEPT !.pc = "wait"] \in Op
    BY NoneFresh DEF Idle, Op
  <2>4. cache[Key[r]] # None => [call EXCEPT !.pc = "answer", !.answer = cache[Key[r]]] \in Op
    BY <2>2 DEF Idle, Op
  <2>5. op' \in [Callers -> Op]
    BY <1>0, <1>1, <2>3, <2>4 DEF Lookup
  <2>6. UNCHANGED <<stored, loaded, cache, over, torn, updates, errors, restarts>>
    BY <1>1 DEF Lookup
  <2>7. /\ op'[c].pc \in {"wait", "answer"} /\ op'[c].req # None
        /\ op'[c].pc = "answer" => op'[c].answer # None
    BY <1>0, <1>1, <2>2, NoneFresh DEF Lookup, Idle
  <2>8. \A x \in Callers \ {c} : op'[x] = op[x]
    BY <1>0, <1>1 DEF Lookup
  <2> QED
    BY <2>5, <2>6, <2>7, <2>8 DEF TypeOK
<1>2. ASSUME NEW c \in Callers, NEW p \in Policies, NEW row \in Row, NEW lost \in BOOLEAN,
             Write(c, p, row, lost)
      PROVE  TypeOK'
  <2> DEFINE next == IF stored[p] = None /\ ~row.active THEN "clear" ELSE "lock"
             call == [Idle EXCEPT !.pc = next, !.id = p, !.row = row]
  <2>1. call \in Op /\ call.pc \in {"clear", "lock"} /\ call.id = p /\ call.row = row
    BY DEF Idle, Op
  <2>2. row # None
    BY NoneFresh
  <2>3. op'[c] = Idle \/ op'[c] = call
    BY <1>2 DEF Write
  <2>4. \A x \in Callers \ {c} : /\ op'[x] \in Op
                                 /\ op'[x].pc = op[x].pc /\ op'[x].req = op[x].req
                                 /\ op'[x].answer = op[x].answer /\ op'[x].id = op[x].id
                                 /\ op'[x].row = op[x].row
    BY <1>0, <1>2 DEF Write, Op
  <2>5. op' \in [Callers -> Op]
    BY <1>2, <2>1, <2>3, <2>4, IdleType DEF Write
  <2>6. /\ stored' \in [Policies -> Row \union {None}]
        /\ torn' \subseteq Policies /\ updates' \in Nat /\ errors' \in Nat
        /\ UNCHANGED <<loaded, cache, over, restarts>>
    BY <1>0, <1>2 DEF Write, Create, Update
  <2>7. /\ op'[c].pc \in {"wait", "set", "answer"} => op'[c].req # None
        /\ op'[c].pc \in {"set", "answer"} => op'[c].answer # None
        /\ op'[c].pc \in {"lock", "clear"} => op'[c].id # None /\ op'[c].row # None
    <3>1. p # None
      BY NoneFresh
    <3> HIDE DEF call
    <3> QED
      BY <2>1, <2>2, <2>3, <3>1 DEF Idle
  <2> QED
    BY <1>0, <2>4, <2>5, <2>6, <2>7 DEF TypeOK
<1>3. ASSUME NEW c \in Callers, NEW decision \in Effects, Decide(c, decision) PROVE TypeOK'
  <2>1. op' \in [Callers -> Op]
    BY <1>0, <1>3 DEF Decide, Op
  <2>2. op'[c].req = op[c].req /\ op'[c].pc = "set" /\ op'[c].answer = decision
    BY <1>0, <1>3 DEF Decide, Op
  <2>3. \A x \in Callers \ {c} : op'[x] = op[x]
    BY <1>0, <1>3 DEF Decide
  <2> QED
    BY <1>3, <2>1, <2>2, <2>3, NoneFresh DEF Decide, TypeOK
<1>4. ASSUME NEW c \in Callers, Set(c) PROVE TypeOK'
  <2>1. op' \in [Callers -> Op]
    BY <1>0, <1>4 DEF Set, Op
  <2>2. op'[c].req = op[c].req /\ op'[c].pc = "answer" /\ op'[c].answer = op[c].answer
    BY <1>0, <1>4 DEF Set, Op
  <2>3. \A x \in Callers \ {c} : op'[x] = op[x]
    BY <1>0, <1>4 DEF Set
  <2>4. cache' \in [Keys -> Effects \union {None}]
    BY <1>0, <1>4 DEF Set, Op
  <2> QED
    BY <1>4, <2>1, <2>2, <2>3, <2>4 DEF Set, TypeOK
<1>5. ASSUME NEW c \in Callers, Return(c) PROVE TypeOK'
  BY <1>5, IdleType DEF Return, TypeOK, Idle
<1>6. ASSUME NEW c \in Callers, Install(c) PROVE TypeOK'
  <2>1. op[c].row \in Row
    <3>1. op[c].row # None
      BY <1>6 DEF Install, TypeOK
    <3>2. op[c].row \in Row \union {None}
      BY <1>0 DEF Op
    <3> QED
      BY <3>1, <3>2
  <2>2. loaded' \in [Policies -> Contents \union {None}]
    BY <1>0, <1>6, <2>1 DEF Install, Row
  <2>3. op' \in [Callers -> Op]
    BY <1>0, <1>6 DEF Install, Op
  <2>4. op'[c].id = op[c].id /\ op'[c].pc = "clear" /\ op'[c].row = op[c].row
    BY <1>0, <1>6 DEF Install, Op
  <2>5. \A x \in Callers \ {c} : op'[x] = op[x]
    BY <1>0, <1>6 DEF Install
  <2> QED
    BY <1>6, <2>2, <2>3, <2>4, <2>5 DEF Install, TypeOK
<1>7. ASSUME NEW c \in Callers, Clear(c) PROVE TypeOK'
  BY <1>7, IdleType DEF Clear, TypeOK, Idle
<1>8. ASSUME NEW k \in Keys, Expire(k) PROVE TypeOK'
  BY <1>8 DEF Expire, TypeOK
<1>9. ASSUME NEW content \in Perishable, Lapse(content) PROVE TypeOK'
  BY <1>9 DEF Lapse, TypeOK
<1>10. ASSUME NEW ok \in BOOLEAN, Restart(ok) PROVE TypeOK'
  <2>1. loaded' \in [Policies -> Contents \union {None}]
    BY <1>0, <1>10 DEF Restart, Row, GetActive
  <2>2. op' \in [Callers -> Op] /\ \A c \in Callers : op'[c] = Idle
    BY <1>10, IdleType DEF Restart
  <2>3. cache' \in [Keys -> Effects \union {None}] /\ torn' \subseteq Policies
        /\ errors' \in Nat /\ restarts' \in Nat /\ UNCHANGED <<stored, over, updates>>
    BY <1>0, <1>10 DEF Restart
  <2> QED
    BY <1>0, <2>1, <2>2, <2>3 DEF TypeOK, Idle
<1>11. CASE UNCHANGED vars
  BY <1>11 DEF vars, TypeOK
<1> QED
  BY <1>1, <1>2, <1>3, <1>4, <1>5, <1>6, <1>7, <1>8, <1>9, <1>10, <1>11 DEF Next, Proceed

(* The engine's state keeps its types, whatever the callers, policies,      *)
(* contents, requests and bounds.                                           *)
THEOREM EngineTyped == Spec => []TypeOK
BY TypeInit, TypeStep, PTL DEF Spec

-----------------------------------------------------------------------------
(* The cache                                                                *)

LEMMA JustifiedSame ==
  ASSUME UNCHANGED <<loaded, over>>
  PROVE  \A k : Justified(k)' = Justified(k)
BY DEF Justified, Decisions

LEMMA JustifiedGrows ==
  ASSUME UNCHANGED loaded, over \subseteq over'
  PROVE  \A k : Justified(k) \subseteq Justified(k)'
<1> SUFFICES ASSUME NEW k, NEW d, d \in Justified(k) PROVE d \in Justified(k)'
  OBVIOUS
<1>1. PICK r \in {q \in Requests : Key[q] = k}, gone \in SUBSET over : d \in Decisions(r, gone)
  BY DEF Justified
<1>2. Decisions(r, gone)' = Decisions(r, gone)
  BY DEF Decisions
<1>3. gone \in SUBSET over'
  OBVIOUS
<1> QED
  BY <1>1, <1>2, <1>3 DEF Justified

CacheInv == CacheCurrent /\ InFlight /\ Marked /\ AnswersCurrent

LEMMA CacheInit == Init => CacheInv
BY DEF Init, CacheInv, CacheCurrent, InFlight, Marked, AnswersCurrent, Idle

(* A step that changes neither the map nor the periods, nor the cache, and  *)
(* moves one call other than to or from an update.                          *)
LEMMA CallStep ==
  ASSUME TypeOK, CacheInv, NEW c \in Callers, UNCHANGED <<loaded, over, cache>>,
         \A x \in Callers \ {c} : op'[x] = op[x],
         op[c].pc \notin {"lock", "clear"}, op'[c].pc \notin {"lock", "clear"},
         op'[c].current => ~Updating,
         op'[c].pc = "set" => op'[c].answer \in Justified(Key[op'[c].req]),
         op'[c].pc = "answer" /\ op'[c].current => op'[c].answer \in Justified(Key[op'[c].req])
  PROVE  CacheInv'
<1>1. \A k : Justified(k)' = Justified(k)
  BY JustifiedSame
<1>2. Updating' <=> Updating
  BY DEF Updating
<1>3. CacheCurrent'
  BY <1>1 DEF CacheInv, CacheCurrent
<1>4. Marked'
  BY <1>2 DEF CacheInv, Marked
<1>5. ASSUME NEW x \in Callers, op'[x].pc = "set" PROVE op'[x].answer \in Justified(Key[op'[x].req])
  BY <1>5 DEF CacheInv, InFlight
<1>6. ASSUME NEW x \in Callers, op'[x].pc = "answer" /\ op'[x].current
      PROVE  op'[x].answer \in Justified(Key[op'[x].req])
  BY <1>6 DEF CacheInv, AnswersCurrent
<1>7. InFlight'
  <2> SUFFICES ASSUME NEW x \in Callers, op'[x].pc = "set", NEW k, k = Key[op'[x].req]
               PROVE  op'[x].answer \in Justified(k)'
    BY DEF InFlight
  <2> QED
    BY <1>1, <1>5
<1>8. AnswersCurrent'
  <2> SUFFICES ASSUME NEW x \in Callers, op'[x].pc = "answer" /\ op'[x].current,
                      NEW k, k = Key[op'[x].req]
               PROVE  op'[x].answer \in Justified(k)'
    BY DEF AnswersCurrent
  <2> QED
    BY <1>1, <1>6
<1> QED
  BY <1>3, <1>4, <1>7, <1>8 DEF CacheInv

LEMMA LookupCache ==
  ASSUME TypeOK, CacheInv, NEW c \in Callers, NEW r \in Requests, Lookup(c, r)
  PROVE  CacheInv'
<1> DEFINE call == [Idle EXCEPT !.req = r, !.current = ~Updating]
<1>1. /\ UNCHANGED <<loaded, over, cache>> /\ op[c].pc = "idle"
      /\ \A x \in Callers \ {c} : op'[x] = op[x]
  BY DEF Lookup, TypeOK
<1>2. op'[c] = IF cache[Key[r]] = None
                 THEN [call EXCEPT !.pc = "wait"]
                 ELSE [call EXCEPT !.pc = "answer", !.answer = cache[Key[r]]]
  BY DEF Lookup, TypeOK
<1>3. /\ op'[c].pc \in {"wait", "answer"} /\ op'[c].req = r /\ op'[c].current = ~Updating
      /\ op'[c].pc = "answer" => cache[Key[r]] # None /\ op'[c].answer = cache[Key[r]]
  BY <1>2 DEF Idle
<1>4. op'[c].pc = "answer" /\ op'[c].current => op'[c].answer \in Justified(Key[r])
  <2> SUFFICES ASSUME op'[c].pc = "answer", ~Updating PROVE cache[Key[r]] \in Justified(Key[r])
    BY <1>3
  <2>1. Key[r] \in Keys
    BY DEF Keys
  <2> QED
    BY <1>3, <2>1 DEF CacheInv, CacheCurrent, Updating
<1> QED
  BY <1>1, <1>3, <1>4, CallStep

LEMMA DecideCache ==
  ASSUME TypeOK, CacheInv, NEW c \in Callers, NEW decision \in Effects, Decide(c, decision)
  PROVE  CacheInv'
<1>1. /\ UNCHANGED <<loaded, over, cache>> /\ op[c].pc = "wait"
      /\ \A x \in Callers \ {c} : op'[x] = op[x]
      /\ decision \in Decisions(op[c].req, over)
  BY DEF Decide, TypeOK
<1>2. op'[c].pc = "set" /\ op'[c].answer = decision /\ op'[c].req = op[c].req
      /\ op'[c].current = op[c].current
  BY DEF Decide, TypeOK, Op
<1>3. op[c].req \in Requests
  BY <1>1 DEF TypeOK, Op
<1>4. decision \in Justified(Key[op[c].req])
  BY <1>1, <1>3 DEF Justified
<1>5. op'[c].current => ~Updating
  BY <1>2 DEF CacheInv, Marked
<1> QED
  BY <1>1, <1>2, <1>4, <1>5, CallStep

LEMMA ReturnCache ==
  ASSUME TypeOK, CacheInv, NEW c \in Callers, Return(c)
  PROVE  CacheInv'
<1>1. /\ UNCHANGED <<loaded, over, cache>> /\ op[c].pc = "answer" /\ op'[c] = Idle
      /\ \A x \in Callers \ {c} : op'[x] = op[x]
  BY DEF Return, TypeOK
<1>2. Idle.pc = "idle" /\ ~Idle.current
  BY DEF Idle
<1> QED
  BY <1>1, <1>2, CallStep

(* A step that changes no call but makes the cache, the map and the periods *)
(* no less in agreement.                                                    *)
LEMMA QuietStep ==
  ASSUME TypeOK, CacheInv, UNCHANGED <<loaded, op>>, over \subseteq over',
         \A k \in Keys : cache'[k] \in {cache[k], None}
  PROVE  CacheInv'
<1>1. \A k : Justified(k) \subseteq Justified(k)'
  BY JustifiedGrows
<1>2. CacheCurrent'
  BY <1>1 DEF CacheInv, CacheCurrent
<1>3. InFlight'
  BY <1>1 DEF CacheInv, InFlight
<1>4. AnswersCurrent'
  BY <1>1 DEF CacheInv, AnswersCurrent
<1>5. Marked'
  BY DEF CacheInv, Marked, Updating
<1> QED
  BY <1>2, <1>3, <1>4, <1>5 DEF CacheInv

LEMMA SetCache ==
  ASSUME TypeOK, CacheInv, NEW c \in Callers, Set(c)
  PROVE  CacheInv'
<1> DEFINE key == Key[op[c].req]
<1>1. /\ UNCHANGED <<loaded, over>> /\ op[c].pc = "set"
      /\ \A x \in Callers \ {c} : op'[x] = op[x]
      /\ \A k \in Keys : cache'[k] = IF k = key THEN op[c].answer ELSE cache[k]
  BY DEF Set, TypeOK
<1>2. op'[c].pc = "answer" /\ op'[c].answer = op[c].answer /\ op'[c].req = op[c].req
      /\ op'[c].current = op[c].current
  BY DEF Set, TypeOK, Op
<1>3. op[c].answer \in Justified(key)
  BY <1>1 DEF CacheInv, InFlight
<1>4. \A k : Justified(k)' = Justified(k)
  BY <1>1, JustifiedSame
<1>5. CacheCurrent'
  <2>1. CASE \E x \in Callers : op[x].pc = "clear"
    BY <1>1, <2>1 DEF CacheCurrent
  <2>2. CASE \A k \in Keys : cache[k] # None => cache[k] \in Justified(k)
    BY <1>1, <1>3, <1>4, <2>2 DEF CacheCurrent
  <2> QED
    BY <2>1, <2>2 DEF CacheInv, CacheCurrent
<1>6. InFlight'
  <2> SUFFICES ASSUME NEW x \in Callers, op'[x].pc = "set", NEW k, k = Key[op'[x].req]
               PROVE  op'[x].answer \in Justified(k)'
    BY DEF InFlight
  <2>1. op'[x] = op[x]
    BY <1>1, <1>2
  <2> QED
    BY <1>4, <2>1 DEF CacheInv, InFlight
<1>7. AnswersCurrent'
  <2> SUFFICES ASSUME NEW x \in Callers, op'[x].pc = "answer" /\ op'[x].current,
                      NEW k, k = Key[op'[x].req]
               PROVE  op'[x].answer \in Justified(k)'
    BY DEF AnswersCurrent
  <2>1. CASE x = c
    BY <1>2, <1>3, <1>4, <2>1
  <2>2. CASE x # c
    BY <1>1, <1>4, <2>2 DEF CacheInv, AnswersCurrent
  <2> QED
    BY <2>1, <2>2
<1>8. Marked'
  BY <1>1, <1>2 DEF CacheInv, Marked, Updating
<1> QED
  BY <1>5, <1>6, <1>7, <1>8 DEF CacheInv

LEMMA WriteCache ==
  ASSUME TypeOK, CacheInv, NEW c \in Callers, NEW p \in Policies, NEW row \in Row,
         NEW lost \in BOOLEAN, Write(c, p, row, lost)
  PROVE  CacheInv'
<1>1. UNCHANGED <<loaded, over, cache>> /\ op[c].pc = "idle"
  BY DEF Write
<1>2. \A x \in Callers \ {c} : /\ op'[x].pc = op[x].pc /\ op'[x].req = op[x].req
                               /\ op'[x].answer = op[x].answer /\ ~op'[x].current
  BY DEF Write, TypeOK, Op
<1>3. op'[c].pc \in {"idle", "lock", "clear"} /\ ~op'[c].current
  BY DEF Write, Idle
<1>4. \A k : Justified(k)' = Justified(k)
  BY <1>1, JustifiedSame
<1>5. CacheCurrent'
  <2>1. CASE \E x \in Callers : op[x].pc = "clear"
    BY <1>1, <1>2, <2>1 DEF CacheCurrent
  <2>2. CASE \A k \in Keys : cache[k] # None => cache[k] \in Justified(k)
    BY <1>1, <1>4, <2>2 DEF CacheCurrent
  <2> QED
    BY <2>1, <2>2 DEF CacheInv, CacheCurrent
<1>6. InFlight'
  <2> SUFFICES ASSUME NEW x \in Callers, op'[x].pc = "set", NEW k, k = Key[op'[x].req]
               PROVE  op'[x].answer \in Justified(k)'
    BY DEF InFlight
  <2>1. x # c
    BY <1>3
  <2> QED
    BY <1>2, <1>4, <2>1 DEF CacheInv, InFlight
<1>7. AnswersCurrent' /\ Marked'
  BY <1>2, <1>3 DEF AnswersCurrent, Marked
<1> QED
  BY <1>5, <1>6, <1>7 DEF CacheInv

LEMMA InstallCache ==
  ASSUME TypeOK, CacheInv, NEW c \in Callers, Install(c)
  PROVE  CacheInv'
<1>1. op[c].pc = "lock" /\ ~ \E x \in Callers : op[x].pc = "set"
  BY DEF Install
<1>2. op'[c].pc = "clear" /\ op'[c].current = op[c].current
      /\ \A x \in Callers \ {c} : op'[x] = op[x]
  BY DEF Install, TypeOK, Op
<1>3. \A x \in Callers : ~op[x].current
  BY <1>1 DEF CacheInv, Marked, Updating
<1>4. CacheCurrent'
  BY <1>2 DEF CacheCurrent
<1>5. InFlight'
  BY <1>1, <1>2 DEF InFlight
<1>6. AnswersCurrent' /\ Marked'
  BY <1>2, <1>3 DEF AnswersCurrent, Marked
<1> QED
  BY <1>4, <1>5, <1>6 DEF CacheInv

LEMMA ClearCache ==
  ASSUME TypeOK, CacheInv, NEW c \in Callers, Clear(c)
  PROVE  CacheInv'
<1>1. /\ UNCHANGED <<loaded, over>> /\ op[c].pc = "clear" /\ op'[c] = Idle
      /\ \A x \in Callers \ {c} : op'[x] = op[x]
      /\ \A k \in Keys : cache'[k] = None
  BY DEF Clear, TypeOK
<1>2. \A k : Justified(k)' = Justified(k)
  BY <1>1, JustifiedSame
<1>3. CacheCurrent'
  <2>1. \A k \in Keys : cache'[k] # None => cache'[k] \in Justified(k)'
    BY ONLY <1>1
  <2> QED
    BY ONLY <2>1 DEF CacheCurrent
<1>4. \A x \in Callers : op'[x].pc # "idle" => op'[x] = op[x]
  BY <1>1 DEF Idle
<1>5. InFlight'
  <2> SUFFICES ASSUME NEW x \in Callers, op'[x].pc = "set", NEW k, k = Key[op'[x].req]
               PROVE  op'[x].answer \in Justified(k)'
    BY DEF InFlight
  <2> QED
    BY <1>2, <1>4 DEF CacheInv, InFlight
<1>6. \A x \in Callers : ~op'[x].current
  BY <1>1 DEF CacheInv, Marked, Updating, Idle
<1>7. AnswersCurrent' /\ Marked'
  BY <1>6 DEF AnswersCurrent, Marked
<1> QED
  BY <1>3, <1>5, <1>7 DEF CacheInv

LEMMA CacheStep == TypeOK /\ CacheInv /\ [Next]_vars => CacheInv'
<1> SUFFICES ASSUME TypeOK, CacheInv, [Next]_vars PROVE CacheInv'
  OBVIOUS
<1>1. ASSUME NEW c \in Callers, Proceed(c) PROVE CacheInv'
  BY <1>1, DecideCache, SetCache, ReturnCache, InstallCache, ClearCache DEF Proceed
<1>2. ASSUME NEW k \in Keys, Expire(k) PROVE CacheInv'
  <2>1. \A j \in Keys : cache'[j] \in {cache[j], None}
    BY <1>2 DEF Expire, TypeOK
  <2> QED
    BY <1>2, <2>1, QuietStep DEF Expire
<1>3. ASSUME NEW content \in Perishable, Lapse(content) PROVE CacheInv'
  BY <1>3, QuietStep DEF Lapse
<1>4. ASSUME NEW ok \in BOOLEAN, Restart(ok) PROVE CacheInv'
  BY <1>4 DEF Restart, CacheInv, CacheCurrent, InFlight, Marked, AnswersCurrent, Idle
<1>5. CASE UNCHANGED vars
  BY <1>5, QuietStep DEF vars
<1> QED
  BY <1>1, <1>2, <1>3, <1>4, <1>5, LookupCache, WriteCache DEF Next

LEMMA CacheHolds == Spec => []CacheInv
BY CacheInit, CacheStep, EngineTyped, PTL DEF Spec

(* Between a change of the map and the clearing of the cache apart, only    *)
(* decisions of the policies in the map are cached, for any number of       *)
(* evaluations and updates at once.                                         *)
THEOREM EngineCacheCurrent == Spec => []CacheCurrent
<1>1. CacheInv => CacheCurrent
  BY DEF CacheInv
<1> QED
  BY <1>1, CacheHolds, PTL

(* An evaluation that no update overlaps answers by the policies in force.  *)
THEOREM EngineAnswersCurrent == Spec => []AnswersCurrent
<1>1. CacheInv => AnswersCurrent
  BY DEF CacheInv
<1> QED
  BY <1>1, CacheHolds, PTL

-----------------------------------------------------------------------------
(* When the cache's key is enough                                           *)

(* Two requests of one key match the same rules, if the rules look at       *)
(* nothing but what the key holds.                                          *)
LEMMA KeyDecides ==
  ASSUME NEW rules, \A i \in DOMAIN rules : LooksAtKeyOnly(rules[i]),
         NEW q, NEW r, CacheKey(q) = CacheKey(r)
  PROVE  MatchingRules(rules, q) = MatchingRules(rules, r)
<1>1. /\ q.subject.id = r.subject.id
      /\ q.resource.type = r.resource.type /\ q.resource.id = r.resource.id
      /\ q.action = r.action
  BY DEF CacheKey
<1>2. ASSUME NEW i \in DOMAIN rules PROVE MatchesRule(rules[i], q) <=> MatchesRule(rules[i], r)
  <2> DEFINE rule == rules[i]
  <2>1. LooksAtKeyOnly(rule)
    OBVIOUS
  <2> HIDE DEF rule
  <2>2. MatchesSubject(rule.subjects, q.subject) <=> MatchesSubject(rule.subjects, r.subject)
    BY <1>1, <2>1 DEF LooksAtKeyOnly, MatchesSubject, Meet
  <2>3. MatchesResource(rule.resources, q.resource) <=> MatchesResource(rule.resources, r.resource)
    BY <1>1 DEF MatchesResource
  <2>4. ASSUME NEW condition \in rule.conditions
        PROVE  EvaluateCondition(condition, q) <=> EvaluateCondition(condition, r)
    <3>1. CASE condition.type = "subject" /\ condition.field = "id"
      BY <1>1, <3>1 DEF EvaluateCondition, OwnValue
    <3>2. CASE condition.type = "resource" /\ condition.field \in {"id", "type"}
      BY <1>1, <3>2 DEF EvaluateCondition, OwnValue
    <3> QED
      BY <2>1, <3>1, <3>2 DEF LooksAtKeyOnly
  <2> QED
    BY <1>1, <2>2, <2>3, <2>4 DEF MatchesRule, rule
<1> QED
  BY <1>2 DEF MatchingRules

(* Requests that match alike are decided alike, whatever the map's order.   *)
LEMMA SameDecisions ==
  ASSUME TypeOK, NEW q, NEW r, NEW gone,
         \A content \in Contents : Matching[content][q] = Matching[content][r]
  PROVE  Decisions(q, gone) = Decisions(r, gone)
<1> DEFINE live == {p \in Policies : loaded[p] \notin gone \union {None}}
           said(order, t) == [i \in DOMAIN order |-> PolicyDecision(order[i], t)]
           contents(order) == [i \in DOMAIN order |-> loaded[order[i]]]
<1>1. \A content \in Contents : PolicyDecision(content, q) = PolicyDecision(content, r)
  BY DEF PolicyDecision
<1>2. ASSUME NEW order \in SetToSeqs(live)
      PROVE  Evaluate(contents(order), q) = Evaluate(contents(order), r)
  <2>1. \A i \in DOMAIN order : loaded[order[i]] \in Contents
    <3>1. order \in [1..Cardinality(live) -> live]
      BY DEF SetToSeqs
    <3>2. \A p \in live : loaded[p] \in Contents
      BY DEF TypeOK
    <3> QED
      BY <3>1, <3>2
  <2>2. said(contents(order), q) = said(contents(order), r)
    BY <1>1, <2>1
  <2> QED
    BY <2>2 DEF Evaluate
<1> QED
  BY <1>2 DEF Decisions

(* An evaluation that no update overlaps answers its own request, although  *)
(* the cache tells requests apart by their keys only, if no rule looks at a *)
(* role, a group, the subject's type, an attribute or the context.          *)
THEOREM KeyRulesAnswerTheirOwn ==
  ASSUME NEW RulesOf, NEW RequestOf,
         \A content \in Contents, r \in Requests :
           Matching[content][r] =
             EffectsOf(RulesOf[content], MatchingRules(RulesOf[content], RequestOf[r])),
         \A q, r \in Requests : Key[q] = Key[r] => CacheKey(RequestOf[q]) = CacheKey(RequestOf[r]),
         \A content \in Contents :
           \A i \in DOMAIN RulesOf[content] : LooksAtKeyOnly(RulesOf[content][i])
  PROVE  Spec => []AnswersItsOwn
<1>1. ASSUME NEW q \in Requests, NEW r \in Requests, Key[q] = Key[r], NEW content \in Contents
      PROVE  Matching[content][q] = Matching[content][r]
  <2>1. MatchingRules(RulesOf[content], RequestOf[q]) = MatchingRules(RulesOf[content], RequestOf[r])
    BY <1>1, KeyDecides
  <2> QED
    BY <2>1
<1>2. TypeOK /\ AnswersCurrent => AnswersItsOwn
  <2> SUFFICES ASSUME TypeOK, AnswersCurrent, NEW c \in Callers,
                      op[c].pc = "answer", op[c].current
               PROVE  \E gone \in SUBSET over : op[c].answer \in Decisions(op[c].req, gone)
    BY DEF AnswersItsOwn
  <2>1. op[c].req \in Requests
    BY DEF TypeOK, Op
  <2>2. PICK q \in Requests, gone \in SUBSET over :
          Key[q] = Key[op[c].req] /\ op[c].answer \in Decisions(q, gone)
    BY DEF AnswersCurrent, Justified
  <2>3. Decisions(q, gone) = Decisions(op[c].req, gone)
    BY <1>1, <2>1, <2>2, SameDecisions
  <2> QED
    BY <2>2, <2>3
<1> QED
  BY <1>2, EngineTyped, EngineAnswersCurrent, PTL

-----------------------------------------------------------------------------
(* The map and the table                                                    *)

MapInv == OneWriter /\ LoadedIsStored

LEMMA MapInit == Init => MapInv
BY DEF Init, MapInv, OneWriter, LoadedIsStored, Follows, GetActive, Idle

(* A step that leaves the map and the table alone, and every call that      *)
(* waits to write the map.                                                  *)
LEMMA MapSame ==
  ASSUME MapInv, UNCHANGED <<stored, loaded, torn>>,
         \A x \in Callers : /\ op'[x].pc = "lock" <=> op[x].pc = "lock"
                            /\ op[x].pc = "lock" => op'[x].id = op[x].id /\ op'[x].row = op[x].row
  PROVE  MapInv'
<1>1. OneWriter'
  BY DEF MapInv, OneWriter
<1>2. LoadedIsStored'
  BY DEF MapInv, LoadedIsStored, Follows, GetActive
<1> QED
  BY <1>1, <1>2 DEF MapInv

LEMMA MapWrite ==
  ASSUME TypeOK, MapInv, NEW c \in Callers, NEW p \in Policies, NEW row \in Row,
         NEW lost \in BOOLEAN, Write(c, p, row, lost)
  PROVE  MapInv'
<1>1. /\ op[c].pc = "idle" /\ loaded' = loaded
      /\ \A q \in Policies : stored'[q] = IF q = p THEN row ELSE stored[q]
      /\ torn \subseteq torn'
      /\ p \notin torn' => ~lost /\ \A x \in Callers : ~(op[x].pc = "lock" /\ op[x].id = p)
  BY DEF Write, Create, Update, TypeOK
<1>2. \A x \in Callers \ {c} : op'[x].pc = op[x].pc /\ op'[x].id = op[x].id /\ op'[x].row = op[x].row
  BY DEF Write, TypeOK, Op
<1>3. /\ op'[c].pc = "lock" => op'[c].id = p /\ op'[c].row = row
      /\ ~lost => \/ op'[c].pc = "lock" /\ op'[c].id = p
                  \/ stored[p] = None /\ ~row.active
  BY DEF Write, Idle
<1>4. OneWriter'
  <2> SUFFICES ASSUME NEW q \in Policies \ torn', NEW x \in Callers,
                      op'[x].pc = "lock", op'[x].id = q
               PROVE  /\ op'[x].row = stored'[q]
                      /\ \A y \in Callers : op'[y].pc = "lock" /\ op'[y].id = q => y = x
    BY DEF OneWriter
  <2>1. CASE q = p
    BY <1>1, <1>2, <1>3, <2>1
  <2>2. CASE q # p
    BY <1>1, <1>2, <1>3, <2>2 DEF MapInv, OneWriter
  <2> QED
    BY <2>1, <2>2
<1>5. LoadedIsStored'
  <2> SUFFICES ASSUME NEW q \in Policies \ torn',
                      \A x \in Callers : ~(op'[x].pc = "lock" /\ op'[x].id = q)
               PROVE  Follows(q)'
    BY DEF LoadedIsStored
  <2>1. CASE q = p
    <3>1. stored[p] = None /\ ~row.active /\ p \notin torn
      BY <1>1, <1>3, <2>1
    <3>2. Follows(p)
      BY <1>1, <2>1, <3>1 DEF MapInv, LoadedIsStored
    <3> QED
      BY <1>1, <2>1, <3>1, <3>2 DEF Follows, GetActive
  <2>2. CASE q # p
    <3>1. \A x \in Callers : ~(op[x].pc = "lock" /\ op[x].id = q)
      BY <1>1, <1>2, <2>2
    <3>2. Follows(q)
      BY <1>1, <3>1 DEF MapInv, LoadedIsStored
    <3> QED
      BY <1>1, <2>2, <3>2 DEF Follows, GetActive
  <2> QED
    BY <2>1, <2>2
<1> QED
  BY <1>4, <1>5 DEF MapInv

LEMMA MapInstall ==
  ASSUME TypeOK, MapInv, NEW c \in Callers, Install(c)
  PROVE  MapInv'
<1> DEFINE p == op[c].id
<1>1. /\ op[c].pc = "lock" /\ UNCHANGED <<stored, torn>>
      /\ op'[c].pc = "clear" /\ \A x \in Callers \ {c} : op'[x] = op[x]
  BY DEF Install, TypeOK, Op
<1>2. p \in Policies
  BY <1>1 DEF TypeOK, Op
<1>3. \A q \in Policies : loaded'[q] = IF q = p THEN IF op[c].row.active THEN op[c].row.content ELSE None
                                               ELSE loaded[q]
  BY DEF Install, TypeOK
<1>4. OneWriter'
  BY <1>1 DEF MapInv, OneWriter
<1>5. LoadedIsStored'
  <2> SUFFICES ASSUME NEW q \in Policies \ torn,
                      \A x \in Callers : ~(op'[x].pc = "lock" /\ op'[x].id = q)
               PROVE  Follows(q)'
    BY <1>1 DEF LoadedIsStored
  <2>1. CASE q = p
    <3>1. op[c].row = stored[p] /\ op[c].row # None
      BY <1>1, <2>1 DEF MapInv, OneWriter, TypeOK
    <3> QED
      BY <1>1, <1>3, <2>1, <3>1 DEF Follows, GetActive
  <2>2. CASE q # p
    <3>1. Follows(q)
      BY <1>1, <2>2 DEF MapInv, LoadedIsStored
    <3> QED
      BY <1>1, <1>3, <2>2, <3>1 DEF Follows, GetActive
  <2> QED
    BY <2>1, <2>2
<1> QED
  BY <1>4, <1>5 DEF MapInv

LEMMA MapStep == TypeOK /\ MapInv /\ [Next]_vars => MapInv'
<1> SUFFICES ASSUME TypeOK, MapInv, [Next]_vars PROVE MapInv'
  OBVIOUS
<1>1. ASSUME NEW c \in Callers, NEW r \in Requests, Lookup(c, r) PROVE MapInv'
  <2>1. op[c].pc = "idle" /\ op'[c].pc \in {"wait", "answer"}
        /\ \A x \in Callers \ {c} : op'[x] = op[x]
    BY <1>1 DEF Lookup, TypeOK, Idle
  <2> QED
    BY <1>1, <2>1, MapSame DEF Lookup
<1>2. ASSUME NEW c \in Callers, Proceed(c) PROVE MapInv'
  <2>1. ASSUME NEW decision \in Effects, Decide(c, decision) PROVE MapInv'
    <3>1. op[c].pc = "wait" /\ op'[c].pc = "set" /\ \A x \in Callers \ {c} : op'[x] = op[x]
      BY <2>1 DEF Decide, TypeOK, Op
    <3> QED
      BY <2>1, <3>1, MapSame DEF Decide
  <2>2. ASSUME Set(c) PROVE MapInv'
    <3>1. op[c].pc = "set" /\ op'[c].pc = "answer" /\ \A x \in Callers \ {c} : op'[x] = op[x]
      BY <2>2 DEF Set, TypeOK, Op
    <3> QED
      BY <2>2, <3>1, MapSame DEF Set
  <2>3. ASSUME Return(c) \/ Clear(c) PROVE MapInv'
    <3>1. op[c].pc \in {"answer", "clear"} /\ op'[c].pc = "idle"
          /\ \A x \in Callers \ {c} : op'[x] = op[x]
      BY <2>3 DEF Return, Clear, TypeOK, Idle
    <3> QED
      BY <2>3, <3>1, MapSame DEF Return, Clear
  <2>4. ASSUME Install(c) PROVE MapInv'
    BY <1>2, <2>4, MapInstall
  <2> QED
    BY <1>2, <2>1, <2>2, <2>3, <2>4 DEF Proceed
<1>3. ASSUME NEW k \in Keys, Expire(k) PROVE MapInv'
  BY <1>3, MapSame DEF Expire
<1>4. ASSUME NEW content \in Perishable, Lapse(content) PROVE MapInv'
  BY <1>4, MapSame DEF Lapse
<1>5. ASSUME NEW ok \in BOOLEAN, Restart(ok) PROVE MapInv'
  <2>1. \A c \in Callers : op'[c].pc = "idle"
    BY <1>5 DEF Restart, Idle
  <2>2. \A p \in Policies \ torn' : Follows(p)'
    BY <1>5 DEF Restart, Follows, GetActive
  <2> QED
    BY <2>1, <2>2 DEF MapInv, OneWriter, LoadedIsStored
<1>6. CASE UNCHANGED vars
  BY <1>6, MapSame DEF vars
<1> QED
  BY <1>1, <1>2, <1>3, <1>4, <1>5, <1>6, MapWrite DEF Next

(* The map holds the active policies of the table, for every policy whose   *)
(* updates came one after the other and were answered.                      *)
THEOREM EngineLoadedIsStored == Spec => []LoadedIsStored
<1>1. MapInv => LoadedIsStored
  BY DEF MapInv
<1> QED
  BY <1>1, MapInit, MapStep, EngineTyped, PTL DEF Spec
-----------------------------------------------------------------------------
(* What the folds of a decision return                                      *)

(* A set of numbers that is not empty has a smallest member, and so a set   *)
(* with 0 and every successor of its members holds every number.            *)
LEMMA Smallest ==
  ASSUME NEW T \in SUBSET Nat, T # {}
  PROVE  \E n \in T : \A m \in T : n <= m
<1> DEFINE R == {p \in Nat \X Nat : p[1] < p[2]}
<1>1. IsWellFoundedOn(R, Nat)
  BY NatLessThanWellFounded DEF OpToRel
<1> HIDE DEF R
<1>2. PICK n \in T : \A m \in T : ~ (<<m, n>> \in R)
  BY <1>1, WFMin
<1>3. \A m \in T : ~ (m < n)
  BY <1>2 DEF R
<1> QED
  BY <1>3

LEMMA EveryNumber ==
  ASSUME NEW S, 0 \in S, \A n \in Nat : n \in S => n + 1 \in S
  PROVE  Nat \subseteq S
<1> SUFFICES ASSUME Nat \ S # {} PROVE FALSE
  OBVIOUS
<1>1. PICK n \in Nat \ S : \A m \in Nat \ S : n <= m
  BY Smallest
<1>2. n - 1 \in Nat /\ n - 1 \in S
  BY <1>1
<1> QED
  BY <1>1, <1>2

(* The largest place of a set of places.                                    *)
LEMMA MaxOf ==
  ASSUME NEW n \in Nat, NEW s \in SUBSET (1..n), s # {}
  PROVE  Max(s) \in s /\ \A y \in s : Max(s) >= y
<1> DEFINE T == {n - x : x \in s}
<1>1. T \in SUBSET Nat /\ T # {}
  <2>1. \A x \in s : n - x \in Nat
    OBVIOUS
  <2> QED
    BY <2>1
<1>2. PICK m \in T : \A t \in T : m <= t
  <2> HIDE DEF T
  <2> QED
    BY <1>1, Smallest
<1>3. PICK x \in s : m = n - x
  BY <1>2
<1>4. \A y \in s : x >= y
  <2> SUFFICES ASSUME NEW y \in s PROVE x >= y
    OBVIOUS
  <2>1. n - y \in T
    OBVIOUS
  <2>2. n - x <= n - y
    BY <1>2, <1>3, <2>1
  <2> QED
    BY <2>2
<1> HIDE DEF T
<1> QED
  BY <1>3, <1>4 DEF Max

LEMMA MaxUpTo ==
  ASSUME NEW k \in Nat, k # 0
  PROVE  Max(1..k) = k /\ (1..k) \ {k} = 1..(k - 1)
<1>1. 1..k \in SUBSET (1..k) /\ 1..k # {} /\ k \in 1..k
  OBVIOUS
<1>2. Max(1..k) \in 1..k /\ \A y \in 1..k : Max(1..k) >= y
  BY <1>1, MaxOf
<1>3. Max(1..k) = k
  BY <1>1, <1>2
<1> QED
  BY <1>3

LEMMA MaxTop ==
  ASSUME NEW m \in Nat, NEW s \in SUBSET (1..(m + 1))
  PROVE  /\ m + 1 \in s => Max(s) = m + 1
         /\ s \ {m + 1} \in SUBSET (1..m)
         /\ s # {} => Max(s) \in s
<1>1. m + 1 \in Nat
  OBVIOUS
<1>2. s # {} => Max(s) \in s /\ \A y \in s : Max(s) >= y
  BY <1>1, MaxOf
<1>3. \A x \in 1..(m + 1) : x >= m + 1 => x = m + 1
  OBVIOUS
<1>4. \A x \in 1..(m + 1) : x # m + 1 => x \in 1..m
  OBVIOUS
<1>5. m + 1 \in s => Max(s) = m + 1
  BY <1>2, <1>3
<1>6. s \ {m + 1} \in SUBSET (1..m)
  BY <1>4
<1> QED
  BY <1>2, <1>5, <1>6

(* A fold takes the places of a sequence away one after the other, the      *)
(* largest first: there is a function that does, for any sequence.          *)
Unrolls(g, base, F, n, seq) ==
  \A s \in SUBSET (1..n) : g[s] = IF s = {} THEN base ELSE F[g[s \ {Max(s)}]][seq[Max(s)]]

LEMMA FoldExists ==
  ASSUME NEW A, NEW B, NEW base \in A, NEW F \in [A -> [B -> A]],
         NEW n \in Nat, NEW seq \in [1..n -> B]
  PROVE  \E g \in [SUBSET (1..n) -> A] : Unrolls(g, base, F, n, seq)
<1> DEFINE N == {m \in Nat : \A q \in [1..m -> B] :
                                \E g \in [SUBSET (1..m) -> A] : Unrolls(g, base, F, m, q)}
<1>1. 0 \in N
  <2> SUFFICES ASSUME NEW q \in [1..0 -> B]
               PROVE  \E g \in [SUBSET (1..0) -> A] : Unrolls(g, base, F, 0, q)
    OBVIOUS
  <2>1. SUBSET (1..0) = {{}}
    OBVIOUS
  <2> DEFINE h == [s \in SUBSET (1..0) |-> base]
  <2>2. h \in [SUBSET (1..0) -> A] /\ Unrolls(h, base, F, 0, q)
    BY <2>1 DEF Unrolls
  <2> QED
    BY <2>2
<1>2. ASSUME NEW m \in Nat, m \in N PROVE m + 1 \in N
  <2> SUFFICES ASSUME NEW q \in [1..(m + 1) -> B]
               PROVE  \E g \in [SUBSET (1..(m + 1)) -> A] : Unrolls(g, base, F, m + 1, q)
    <3>1. m + 1 \in Nat
      OBVIOUS
    <3> QED
      BY <3>1
  <2> DEFINE q0 == [i \in 1..m |-> q[i]]
  <2>1. q0 \in [1..m -> B]
    OBVIOUS
  <2>2. PICK g0 \in [SUBSET (1..m) -> A] : Unrolls(g0, base, F, m, q0)
    BY <1>2, <2>1
  <2> DEFINE g == [s \in SUBSET (1..(m + 1)) |->
                     IF m + 1 \in s THEN F[g0[s \ {m + 1}]][q[m + 1]] ELSE g0[s]]
  <2>3. \A s \in SUBSET (1..(m + 1)) : s \ {m + 1} \in SUBSET (1..m)
    OBVIOUS
  <2>4. g \in [SUBSET (1..(m + 1)) -> A]
    <3> SUFFICES ASSUME NEW s \in SUBSET (1..(m + 1))
                 PROVE  (IF m + 1 \in s THEN F[g0[s \ {m + 1}]][q[m + 1]] ELSE g0[s]) \in A
      OBVIOUS
    <3>1. g0[s \ {m + 1}] \in A
      BY <2>3
    <3>2. CASE m + 1 \in s
      BY <3>1, <3>2
    <3>3. CASE m + 1 \notin s
      <4>1. s \ {m + 1} = s
        BY <3>3
      <4> QED
        BY <3>1, <3>3, <4>1
    <3> QED
      BY <3>2, <3>3
  <2>5. Unrolls(g, base, F, m + 1, q)
    <3> SUFFICES ASSUME NEW s \in SUBSET (1..(m + 1))
                 PROVE  g[s] = IF s = {} THEN base ELSE F[g[s \ {Max(s)}]][q[Max(s)]]
      BY DEF Unrolls
    <3>0. /\ g[s] = IF m + 1 \in s THEN F[g0[s \ {m + 1}]][q[m + 1]] ELSE g0[s]
          /\ g[s \ {Max(s)}] = IF m + 1 \in s \ {Max(s)}
                                 THEN F[g0[(s \ {Max(s)}) \ {m + 1}]][q[m + 1]]
                                 ELSE g0[s \ {Max(s)}]
      OBVIOUS
    <3>1. /\ m + 1 \in s => Max(s) = m + 1
          /\ s \ {m + 1} \in SUBSET (1..m)
          /\ s # {} => Max(s) \in s
      BY MaxTop
    <3>2. CASE m + 1 \in s
      <4> HIDE DEF g
      <4> QED
        BY <3>0, <3>1, <3>2
    <3>3. CASE m + 1 \notin s
      <4>1. s \in SUBSET (1..m) /\ m + 1 \notin s \ {Max(s)}
        BY <3>1, <3>3
      <4>2. g0[s] = IF s = {} THEN base ELSE F[g0[s \ {Max(s)}]][q0[Max(s)]]
        BY <2>2, <4>1 DEF Unrolls
      <4>3. s # {} => q0[Max(s)] = q[Max(s)]
        BY <3>1, <4>1
      <4> HIDE DEF g, q0
      <4> QED
        BY <3>0, <3>3, <4>2, <4>3
    <3> QED
      BY <3>2, <3>3
  <2> HIDE DEF g
  <2> QED
    BY <2>4, <2>5
<1>3. n \in N
  <2> HIDE DEF N
  <2> QED
    BY <1>1, <1>2, EveryNumber
<1> QED
  BY <1>3

(* The loop over the rules, and the one over the policies, one at a time.   *)
Said == Effects \union {None}

LEMMA RulesRun ==
  ASSUME NEW n \in Nat, NEW seq \in [1..n -> Effects]
  PROVE  \E run \in [0..n -> Said] :
           /\ run[0] = None
           /\ \A k \in 1..n : run[k] = NextRule(run[k - 1], seq[k])
           /\ FoldLeft(NextRule, None, seq) = run[n]
<1> DEFINE Step(g) == [s \in SUBSET DOMAIN seq |->
                         IF s = {} THEN None ELSE NextRule(g[s \ {Max(s)}], seq[Max(s)])]
           loop    == CHOOSE g : g = Step(g)
           F       == [d \in Said |-> [e \in Effects |-> NextRule(d, e)]]
<1>1. FoldLeft(NextRule, None, seq) = loop[DOMAIN seq]
  BY DEF FoldLeft, MapThenFoldSet
<1>2. F \in [Said -> [Effects -> Said]] /\ None \in Said
  BY DEF NextRule, Said
<1>3. DOMAIN seq = 1..n
  OBVIOUS
<1>4. PICK h \in [SUBSET (1..n) -> Said] :
        Unrolls(h, None, F, n, seq)
  <2> HIDE DEF F, Step, loop
  <2> QED
    BY <1>2, FoldExists
<1>5. \A s \in SUBSET (1..n) : h[s] = Step(h)[s]
  <2> SUFFICES ASSUME NEW s \in SUBSET (1..n), s # {}
               PROVE  F[h[s \ {Max(s)}]][seq[Max(s)]] = NextRule(h[s \ {Max(s)}], seq[Max(s)])
    BY <1>3, <1>4 DEF Unrolls
  <2>1. seq[Max(s)] \in Effects
    BY MaxOf
  <2>2. h[s \ {Max(s)}] \in Said
    OBVIOUS
  <2> QED
    BY <2>1, <2>2
<1>6. h = Step(h)
  BY <1>3, <1>5
<1>7. loop = Step(loop)
  <2> HIDE DEF Step
  <2> QED
    BY <1>6
<1> HIDE DEF loop
<1>8. loop[{}] = None
  BY <1>7
<1>9. \A k \in 1..n : loop[1..k] = NextRule(loop[1..(k - 1)], seq[k])
  <2> SUFFICES ASSUME NEW k \in 1..n
               PROVE  loop[1..k] = NextRule(loop[1..(k - 1)], seq[k])
    OBVIOUS
  <2>1. 1..k \in SUBSET (1..n) /\ 1..k # {}
    OBVIOUS
  <2>2. loop[1..k] = NextRule(loop[(1..k) \ {Max(1..k)}], seq[Max(1..k)])
    BY <1>3, <1>7, <2>1
  <2>3. Max(1..k) = k /\ (1..k) \ {k} = 1..(k - 1)
    BY MaxUpTo
  <2> QED
    BY <2>2, <2>3
<1> DEFINE run == [k \in 0..n |-> loop[1..k]]
           N   == {k \in Nat : k <= n => loop[1..k] \in Said}
<1>10. loop[1..0] = None
  <2>1. 1..0 = {}
    OBVIOUS
  <2> QED
    BY <1>8, <2>1
<1>11. \A k \in Nat : k \in N
  <2>1. 0 \in N
    BY <1>2, <1>10
  <2>2. ASSUME NEW k \in Nat, k \in N PROVE k + 1 \in N
    <3> SUFFICES ASSUME k + 1 <= n PROVE loop[1..(k + 1)] \in Said
      OBVIOUS
    <3>1. loop[1..k] \in Said
      BY <2>2
    <3>2. k + 1 \in 1..n /\ (k + 1) - 1 = k
      OBVIOUS
    <3>3. loop[1..(k + 1)] = NextRule(loop[1..k], seq[k + 1])
      BY <1>9, <3>2
    <3> QED
      BY <3>1, <3>2, <3>3 DEF NextRule, Said
  <2> HIDE DEF N
  <2> QED
    BY <2>1, <2>2, EveryNumber
<1>12. \A k \in 0..n : loop[1..k] \in Said
  BY <1>11
<1>13. run \in [0..n -> Said] /\ \A k \in 0..n : run[k] = loop[1..k]
  BY <1>12
<1> HIDE DEF run, N
<1>14. \A k \in 1..n : run[k] = NextRule(run[k - 1], seq[k])
  BY <1>9, <1>13
<1>15. run[0] = None /\ run[n] = FoldLeft(NextRule, None, seq)
  BY <1>1, <1>3, <1>10, <1>13
<1> QED
  BY <1>13, <1>14, <1>15
LEMMA MergeRun ==
  ASSUME NEW n \in Nat, NEW seq \in [1..n -> Said]
  PROVE  \E run \in [0..n -> Said] :
           /\ run[0] = None
           /\ \A k \in 1..n : run[k] = Merge(run[k - 1], seq[k])
           /\ FoldLeft(Merge, None, seq) = run[n]
<1> DEFINE Step(g) == [s \in SUBSET DOMAIN seq |->
                         IF s = {} THEN None ELSE Merge(g[s \ {Max(s)}], seq[Max(s)])]
           loop    == CHOOSE g : g = Step(g)
           F       == [d \in Said |-> [e \in Said |-> Merge(d, e)]]
<1>1. FoldLeft(Merge, None, seq) = loop[DOMAIN seq]
  BY DEF FoldLeft, MapThenFoldSet
<1>2. F \in [Said -> [Said -> Said]] /\ None \in Said
  BY DEF Merge, Said
<1>3. DOMAIN seq = 1..n
  OBVIOUS
<1>4. PICK h \in [SUBSET (1..n) -> Said] :
        Unrolls(h, None, F, n, seq)
  <2> HIDE DEF F, Step, loop
  <2> QED
    BY <1>2, FoldExists
<1>5. \A s \in SUBSET (1..n) : h[s] = Step(h)[s]
  <2> SUFFICES ASSUME NEW s \in SUBSET (1..n), s # {}
               PROVE  F[h[s \ {Max(s)}]][seq[Max(s)]] = Merge(h[s \ {Max(s)}], seq[Max(s)])
    BY <1>3, <1>4 DEF Unrolls
  <2>1. seq[Max(s)] \in Said
    BY MaxOf
  <2>2. h[s \ {Max(s)}] \in Said
    OBVIOUS
  <2> QED
    BY <2>1, <2>2
<1>6. h = Step(h)
  BY <1>3, <1>5
<1>7. loop = Step(loop)
  <2> HIDE DEF Step
  <2> QED
    BY <1>6
<1> HIDE DEF loop
<1>8. loop[{}] = None
  BY <1>7
<1>9. \A k \in 1..n : loop[1..k] = Merge(loop[1..(k - 1)], seq[k])
  <2> SUFFICES ASSUME NEW k \in 1..n
               PROVE  loop[1..k] = Merge(loop[1..(k - 1)], seq[k])
    OBVIOUS
  <2>1. 1..k \in SUBSET (1..n) /\ 1..k # {}
    OBVIOUS
  <2>2. loop[1..k] = Merge(loop[(1..k) \ {Max(1..k)}], seq[Max(1..k)])
    BY <1>3, <1>7, <2>1
  <2>3. Max(1..k) = k /\ (1..k) \ {k} = 1..(k - 1)
    BY MaxUpTo
  <2> QED
    BY <2>2, <2>3
<1> DEFINE run == [k \in 0..n |-> loop[1..k]]
           N   == {k \in Nat : k <= n => loop[1..k] \in Said}
<1>10. loop[1..0] = None
  <2>1. 1..0 = {}
    OBVIOUS
  <2> QED
    BY <1>8, <2>1
<1>11. \A k \in Nat : k \in N
  <2>1. 0 \in N
    BY <1>2, <1>10
  <2>2. ASSUME NEW k \in Nat, k \in N PROVE k + 1 \in N
    <3> SUFFICES ASSUME k + 1 <= n PROVE loop[1..(k + 1)] \in Said
      OBVIOUS
    <3>1. loop[1..k] \in Said
      BY <2>2
    <3>2. k + 1 \in 1..n /\ (k + 1) - 1 = k
      OBVIOUS
    <3>3. loop[1..(k + 1)] = Merge(loop[1..k], seq[k + 1])
      BY <1>9, <3>2
    <3> QED
      BY <3>1, <3>2, <3>3 DEF Merge, Said
  <2> HIDE DEF N
  <2> QED
    BY <2>1, <2>2, EveryNumber
<1>12. \A k \in 0..n : loop[1..k] \in Said
  BY <1>11
<1>13. run \in [0..n -> Said] /\ \A k \in 0..n : run[k] = loop[1..k]
  BY <1>12
<1> HIDE DEF run, N
<1>14. \A k \in 1..n : run[k] = Merge(run[k - 1], seq[k])
  BY <1>9, <1>13
<1>15. run[0] = None /\ run[n] = FoldLeft(Merge, None, seq)
  BY <1>1, <1>3, <1>10, <1>13
<1> QED
  BY <1>13, <1>14, <1>15
(* A policy that denies somewhere denies, and says nothing its rules do not. *)
LEMMA RulesSay ==
  ASSUME NEW content \in Contents, NEW r \in Requests
  PROVE  /\ PolicyDecision(content, r) \in Said
         /\ PolicyDecision(content, r) \in Effects =>
              PolicyDecision(content, r) \in ToSet(Matching[content][r])
         /\ "deny" \in ToSet(Matching[content][r]) => PolicyDecision(content, r) = "deny"
<1> DEFINE seq == Matching[content][r]
           n   == Len(seq)
<1>1. seq \in Seq(Effects)
  BY PolicyAssumption
<1>2. n \in Nat /\ seq \in [1..n -> Effects]
  BY <1>1
<1>3. ToSet(seq) = {seq[i] : i \in 1..n}
  BY <1>2 DEF ToSet
<1> HIDE DEF n, seq
<1>4. PICK run \in [0..n -> Said] :
        /\ run[0] = None
        /\ \A k \in 1..n : run[k] = NextRule(run[k - 1], seq[k])
        /\ FoldLeft(NextRule, None, seq) = run[n]
  BY <1>2, RulesRun
<1> DEFINE Told(k)   == run[k] # None => \E i \in 1..k : run[k] = seq[i]
           Denied(k) == \A i \in 1..k : seq[i] = "deny" => run[k] = "deny"
           N         == {k \in Nat : k <= n => Told(k) /\ Denied(k)}
<1>5. 0 \in N
  BY <1>4
<1>6. ASSUME NEW k \in Nat, k \in N PROVE k + 1 \in N
  <2> SUFFICES ASSUME k + 1 <= n PROVE Told(k + 1) /\ Denied(k + 1)
    OBVIOUS
  <2>1. k + 1 \in 1..n /\ (k + 1) - 1 = k
    BY <1>2
  <2>2. Told(k) /\ Denied(k)
    BY <1>2, <1>6
  <2>3. run[k + 1] = IF run[k] = "deny" THEN run[k] ELSE seq[k + 1]
    BY <1>4, <2>1 DEF NextRule
  <2>4. \A i \in 1..(k + 1) : i \in 1..k \/ i = k + 1
    OBVIOUS
  <2>5. run[k] = "deny" => run[k] # None
    BY NoneFresh DEF Effects
  <2>6. \A i \in 1..k : i \in 1..(k + 1)
    OBVIOUS
  <2>7. k + 1 \in 1..(k + 1)
    OBVIOUS
  <2>8. Told(k + 1)
    BY <2>2, <2>3, <2>5, <2>6, <2>7
  <2>9. Denied(k + 1)
    BY <2>2, <2>3, <2>4
  <2> QED
    BY <2>8, <2>9
<1>7. n \in N
  <2> HIDE DEF N
  <2> QED
    BY <1>2, <1>5, <1>6, EveryNumber
<1>8. Told(n) /\ Denied(n)
  BY <1>2, <1>7
<1>9. PolicyDecision(content, r) = run[n]
  BY <1>4 DEF PolicyDecision, seq
<1>10. run[n] \in Said /\ (run[n] \in Effects => run[n] # None)
  BY <1>2, NoneFresh
<1>11. run[n] \in Effects => run[n] \in ToSet(seq)
  BY <1>3, <1>8, <1>10
<1>12. "deny" \in ToSet(seq) => run[n] = "deny"
  BY <1>3, <1>8
<1> QED
  BY <1>9, <1>10, <1>11, <1>12 DEF seq

(* What the policies say together: deny if one of them does, nothing else   *)
(* unless one allows, a step-up only if one demands it.                     *)
LEMMA PoliciesSay ==
  ASSUME NEW n \in Nat, NEW seq \in [1..n -> Said]
  PROVE  /\ FoldLeft(Merge, None, seq) \in Said
         /\ \A i \in 1..n : seq[i] = "deny" => FoldLeft(Merge, None, seq) = "deny"
         /\ FoldLeft(Merge, None, seq) \in {"allow", "step_up"} =>
              \E i \in 1..n : seq[i] = "allow"
         /\ FoldLeft(Merge, None, seq) = "step_up" => \E i \in 1..n : seq[i] = "step_up"
<1>1. PICK run \in [0..n -> Said] :
        /\ run[0] = None
        /\ \A k \in 1..n : run[k] = Merge(run[k - 1], seq[k])
        /\ FoldLeft(Merge, None, seq) = run[n]
  BY MergeRun
<1> DEFINE Denied(k)   == \A i \in 1..k : seq[i] = "deny" => run[k] = "deny"
           Allowed(k)  == run[k] \in {"allow", "step_up"} => \E i \in 1..k : seq[i] = "allow"
           Demanded(k) == run[k] = "step_up" => \E i \in 1..k : seq[i] = "step_up"
           N           == {k \in Nat : k <= n => Denied(k) /\ Allowed(k) /\ Demanded(k)}
<1>2. None \notin Effects
  BY NoneFresh
<1>3. 0 \in N
  BY <1>1, <1>2 DEF Effects
<1>4. ASSUME NEW k \in Nat, k \in N PROVE k + 1 \in N
  <2> SUFFICES ASSUME k + 1 <= n PROVE Denied(k + 1) /\ Allowed(k + 1) /\ Demanded(k + 1)
    OBVIOUS
  <2>1. k + 1 \in 1..n /\ k \in 0..n /\ (k + 1) - 1 = k
    OBVIOUS
  <2>2. Denied(k) /\ Allowed(k) /\ Demanded(k)
    BY <1>4
  <2>3. run[k + 1] = Merge(run[k], seq[k + 1])
    BY <1>1, <2>1
  <2>4. run[k] \in Said /\ seq[k + 1] \in Said
    BY <2>1
  <2>5. /\ run[k] = "deny" \/ seq[k + 1] = "deny" => run[k + 1] = "deny"
        /\ run[k + 1] \in {"allow", "step_up"} =>
             run[k] \in {"allow", "step_up"} \/ seq[k + 1] = "allow"
        /\ run[k + 1] = "step_up" => run[k] = "step_up" \/ seq[k + 1] = "step_up"
    BY <1>2, <2>3, <2>4 DEF Merge, Said, Effects
  <2>6. \A i \in 1..(k + 1) : i \in 1..k \/ i = k + 1
    OBVIOUS
  <2>7. k + 1 \in 1..(k + 1) /\ \A i \in 1..k : i \in 1..(k + 1)
    OBVIOUS
  <2>8. Denied(k + 1)
    BY <2>2, <2>5, <2>6
  <2>9. Allowed(k + 1)
    BY <2>2, <2>5, <2>7
  <2>10. Demanded(k + 1)
    BY <2>2, <2>5, <2>7
  <2> QED
    BY <2>8, <2>9, <2>10
<1>5. n \in N
  <2> HIDE DEF N
  <2> QED
    BY <1>3, <1>4, EveryNumber
<1>6. Denied(n) /\ Allowed(n) /\ Demanded(n)
  BY <1>5
<1>7. run[n] \in Said
  OBVIOUS
<1> QED
  BY <1>1, <1>6, <1>7

(* The decision of the policies in some order.                              *)
LEMMA OrderSays ==
  ASSUME NEW r \in Requests, NEW n \in Nat, NEW order \in [1..n -> Contents]
  PROVE  /\ \A i \in 1..n : "deny" \in ToSet(Matching[order[i]][r]) => Evaluate(order, r) = "deny"
         /\ Evaluate(order, r) # "deny" => \E i \in 1..n : "allow" \in ToSet(Matching[order[i]][r])
         /\ Evaluate(order, r) = "step_up" =>
              \E i \in 1..n : "step_up" \in ToSet(Matching[order[i]][r])
<1> DEFINE seq == [i \in 1..n |-> PolicyDecision(order[i], r)]
           d   == FoldLeft(Merge, None, seq)
<1>1. seq \in [1..n -> Said]
  BY RulesSay
<1>2. \A i \in 1..n : seq[i] = PolicyDecision(order[i], r)
  OBVIOUS
<1>3. Evaluate(order, r) = IF d = None THEN "deny" ELSE d
  <2>1. DOMAIN order = 1..n
    OBVIOUS
  <2> QED
    BY <2>1 DEF Evaluate
<1> HIDE DEF seq
<1>4. /\ d \in Said
      /\ \A i \in 1..n : seq[i] = "deny" => d = "deny"
      /\ d \in {"allow", "step_up"} => \E i \in 1..n : seq[i] = "allow"
      /\ d = "step_up" => \E i \in 1..n : seq[i] = "step_up"
  BY <1>1, PoliciesSay
<1> HIDE DEF d
<1>5. None \notin Effects
  BY NoneFresh
<1>6. \A i \in 1..n : "deny" \in ToSet(Matching[order[i]][r]) => seq[i] = "deny"
  BY <1>2, RulesSay
<1>7. \A i \in 1..n : seq[i] \in Effects => seq[i] \in ToSet(Matching[order[i]][r])
  BY <1>2, RulesSay
<1>8. Evaluate(order, r) # "deny" => d \in {"allow", "step_up"}
  BY <1>3, <1>4 DEF Said, Effects
<1>9. Evaluate(order, r) = "step_up" => d = "step_up"
  BY <1>3
<1>10. \A i \in 1..n : "deny" \in ToSet(Matching[order[i]][r]) => Evaluate(order, r) = "deny"
  BY <1>3, <1>4, <1>5, <1>6 DEF Effects
<1>11. Evaluate(order, r) # "deny" => \E i \in 1..n : "allow" \in ToSet(Matching[order[i]][r])
  BY <1>4, <1>7, <1>8 DEF Effects
<1>12. Evaluate(order, r) = "step_up" => \E i \in 1..n : "step_up" \in ToSet(Matching[order[i]][r])
  BY <1>4, <1>7, <1>9 DEF Effects
<1> QED
  BY <1>10, <1>11, <1>12

-----------------------------------------------------------------------------
(* Deny overrides                                                           *)

(* Every decision that can be reached is one of all the policies together:  *)
(* an order of a finite map leaves none of them out.                        *)
LEMMA DecisionsCombine ==
  ASSUME TypeOK, FinitelyMany, NEW r \in Requests, NEW gone, NEW d \in Decisions(r, gone)
  PROVE  Combined(r, d, gone)
<1> DEFINE live   == {p \in Policies : loaded[p] \notin gone \union {None}}
           says   == {loaded[p] : p \in Policies} \ (gone \union {None})
           n      == Cardinality(live)
<1>1. IsFiniteSet(live)
  <2>1. live \in SUBSET {p \in Policies : loaded[p] # None}
    OBVIOUS
  <2> HIDE DEF live
  <2> QED
    BY <2>1, FS_Subset DEF FinitelyMany
<1>2. PICK order \in SetToSeqs(live) : d = Evaluate([i \in DOMAIN order |-> loaded[order[i]]], r)
  BY DEF Decisions
<1>3. n \in Nat
  <2> HIDE DEF live
  <2> QED
    BY <1>1, FS_CardinalityType
<1>4. order \in [1..n -> live] /\ \A i, j \in 1..n : i # j => order[i] # order[j]
  BY <1>2 DEF SetToSeqs
<1>5. \A p \in live : \E i \in 1..n : order[i] = p
  <2>1. order \in Injection(1..n, live)
    BY <1>4 DEF Injection, IsInjective
  <2>2. Cardinality(1..n) = n
    <3> HIDE DEF n
    <3> QED
      BY <1>3, FS_Interval
  <2>3. order \in Surjection(1..n, live)
    <3> HIDE DEF live
    <3> QED
      BY <1>1, <2>1, <2>2, FS_Injection
  <2> QED
    BY <2>3 DEF Surjection
<1> DEFINE contents == [i \in 1..n |-> loaded[order[i]]]
<1>6. \A p \in live : loaded[p] \in Contents /\ loaded[p] \in says
  BY DEF TypeOK
<1>7. \A content \in says : \E p \in live : content = loaded[p]
  OBVIOUS
<1> HIDE DEF live, says, n
<1>8. contents \in [1..n -> Contents] /\ \A i \in 1..n : contents[i] = loaded[order[i]]
  BY <1>4, <1>6
<1>9. d = Evaluate(contents, r)
  BY <1>2, <1>4
<1> HIDE DEF contents
<1>10. /\ \A i \in 1..n : "deny" \in ToSet(Matching[contents[i]][r]) => d = "deny"
       /\ d # "deny" => \E i \in 1..n : "allow" \in ToSet(Matching[contents[i]][r])
       /\ d = "step_up" => \E i \in 1..n : "step_up" \in ToSet(Matching[contents[i]][r])
  BY <1>3, <1>8, <1>9, OrderSays
<1>11. \A i \in 1..n : contents[i] \in says
  BY <1>4, <1>6, <1>8
<1>12. \A content \in says : \E i \in 1..n : contents[i] = content
  BY <1>5, <1>7, <1>8
<1>13. (\E content \in says : "deny" \in ToSet(Matching[content][r])) => d = "deny"
  BY <1>10, <1>12
<1>14. d # "deny" => \E content \in says : "allow" \in ToSet(Matching[content][r])
  BY <1>10, <1>11
<1>15. d = "step_up" => \E content \in says : "step_up" \in ToSet(Matching[content][r])
  BY <1>10, <1>11
<1> QED
  BY <1>13, <1>14, <1>15 DEF Combined, says

LEMMA FiniteInit == Init => FinitelyMany
<1> SUFFICES ASSUME Init PROVE FinitelyMany
  OBVIOUS
<1>1. /\ {p \in Policies : stored[p] # None} = {}
      /\ {p \in Policies : loaded[p] # None} = {}
  BY DEF Init
<1> QED
  BY <1>1, FS_EmptySet DEF FinitelyMany

LEMMA FiniteStep == TypeOK /\ FinitelyMany /\ [Next]_vars => FinitelyMany'
<1> SUFFICES ASSUME TypeOK, FinitelyMany, [Next]_vars PROVE FinitelyMany'
  OBVIOUS
<1> DEFINE rows == {p \in Policies : stored[p] # None}
           map  == {p \in Policies : loaded[p] # None}
<1>1. IsFiniteSet(rows) /\ IsFiniteSet(map)
  BY DEF FinitelyMany
<1>2. /\ \E p : \A q \in Policies : q # p => stored'[q] = stored[q]
      /\ \/ \E p : \A q \in Policies : q # p => loaded'[q] = loaded[q]
         \/ loaded' = GetActive
         \/ loaded' = [p \in Policies |-> None]
  <2>1. ASSUME NEW c \in Callers, NEW p \in Policies, NEW row \in Row, NEW lost \in BOOLEAN,
               Write(c, p, row, lost)
        PROVE  loaded' = loaded /\ \A q \in Policies : q # p => stored'[q] = stored[q]
    BY <2>1 DEF Write, Create, Update, TypeOK
  <2>2. ASSUME NEW c \in Callers, Proceed(c)
        PROVE  stored' = stored /\ \A q \in Policies : q # op[c].id => loaded'[q] = loaded[q]
    BY <2>2 DEF Proceed, Decide, Set, Return, Install, Clear, TypeOK
  <2>3. ASSUME NEW ok \in BOOLEAN, Restart(ok)
        PROVE  stored' = stored /\ (loaded' = GetActive \/ loaded' = [p \in Policies |-> None])
    BY <2>3 DEF Restart
  <2>4. ASSUME \/ \E c \in Callers, r \in Requests : Lookup(c, r)
               \/ \E k \in Keys : Expire(k)
               \/ \E content \in Perishable : Lapse(content)
               \/ UNCHANGED vars
        PROVE  stored' = stored /\ loaded' = loaded
    BY <2>4 DEF Lookup, Expire, Lapse, vars
  <2> QED
    BY <2>1, <2>2, <2>3, <2>4 DEF Next
<1>3. IsFiniteSet(rows')
  <2>1. PICK p : \A q \in Policies : q # p => stored'[q] = stored[q]
    BY <1>2
  <2>2. IsFiniteSet(rows \union {p})
    <3> HIDE DEF rows
    <3> QED
      BY <1>1, FS_AddElement
  <2>3. rows' \subseteq rows \union {p}
    BY <2>1
  <2> HIDE DEF rows
  <2> QED
    BY <2>2, <2>3, FS_Subset
<1>4. IsFiniteSet(map')
  <2>1. CASE \E p : \A q \in Policies : q # p => loaded'[q] = loaded[q]
    <3>1. PICK p : \A q \in Policies : q # p => loaded'[q] = loaded[q]
      BY <2>1
    <3>2. IsFiniteSet(map \union {p})
      <4> HIDE DEF map
      <4> QED
        BY <1>1, FS_AddElement
    <3>3. map' \subseteq map \union {p}
      BY <3>1
    <3> HIDE DEF map
    <3> QED
      BY <3>2, <3>3, FS_Subset
  <2>2. CASE loaded' = GetActive
    <3>1. map' \subseteq rows
      BY <2>2 DEF GetActive
    <3> HIDE DEF map, rows
    <3> QED
      BY <1>1, <3>1, FS_Subset
  <2>3. CASE loaded' = [p \in Policies |-> None]
    <3>1. map' \subseteq map
      BY <2>3
    <3> HIDE DEF map
    <3> QED
      BY <1>1, <3>1, FS_Subset
  <2> QED
    BY <1>2, <2>1, <2>2, <2>3
<1> QED
  BY <1>3, <1>4 DEF FinitelyMany

(* While a decision waits for the cache the read lock keeps the map as it   *)
(* was when the decision was taken; what was over stays over.               *)
LEMMA DenyStep == TypeOK /\ FinitelyMany /\ DenyOverrides /\ [Next]_vars => DenyOverrides'
<1> SUFFICES ASSUME TypeOK, FinitelyMany, DenyOverrides, [Next]_vars,
                    NEW x \in Callers, op'[x].pc = "set"
             PROVE  \E gone \in SUBSET over' : Combined(op[x].req, op[x].answer, gone)'
  BY DEF DenyOverrides
<1>1. ASSUME UNCHANGED loaded, over \subseteq over',
             op[x].pc = "set", op'[x].req = op[x].req, op'[x].answer = op[x].answer
      PROVE  \E gone \in SUBSET over' : Combined(op[x].req, op[x].answer, gone)'
  <2>1. PICK gone \in SUBSET over : Combined(op[x].req, op[x].answer, gone)
    BY <1>1 DEF DenyOverrides
  <2>2. PICK r, d : r = op[x].req /\ d = op[x].answer
    OBVIOUS
  <2>3. Combined(r, d, gone)'
    BY <1>1, <2>1, <2>2 DEF Combined
  <2>4. Combined(op[x].req, op[x].answer, gone)'
    BY <1>1, <2>2, <2>3 DEF Combined
  <2> QED
    BY <1>1, <2>4
<1>2. ASSUME NEW c \in Callers, \A y \in Callers \ {c} : op'[y] = op[y], op'[c].pc # "set",
             UNCHANGED <<loaded, over>>
      PROVE  \E gone \in SUBSET over' : Combined(op[x].req, op[x].answer, gone)'
  <2>1. op'[x] = op[x]
    BY <1>2
  <2> QED
    BY <1>1, <1>2, <2>1
<1>3. ASSUME NEW c \in Callers, NEW r \in Requests, Lookup(c, r)
      PROVE  \E gone \in SUBSET over' : Combined(op[x].req, op[x].answer, gone)'
  <2>1. op'[c].pc # "set" /\ \A y \in Callers \ {c} : op'[y] = op[y]
    BY <1>3 DEF Lookup, Idle, TypeOK
  <2> QED
    BY <1>2, <1>3, <2>1 DEF Lookup
<1>4. ASSUME NEW c \in Callers, NEW p \in Policies, NEW row \in Row, NEW lost \in BOOLEAN,
             Write(c, p, row, lost)
      PROVE  \E gone \in SUBSET over' : Combined(op[x].req, op[x].answer, gone)'
  <2>1. op'[c].pc # "set"
    BY <1>4 DEF Write, Idle
  <2>2. x # c /\ op'[x] = [op[x] EXCEPT !.current = FALSE]
    BY <1>4, <2>1 DEF Write
  <2>3. op'[x].pc = op[x].pc /\ op'[x].req = op[x].req /\ op'[x].answer = op[x].answer
    BY <2>2 DEF TypeOK, Op
  <2> QED
    BY <1>1, <1>4, <2>3 DEF Write
<1>5. ASSUME NEW c \in Callers, NEW decision \in Effects, Decide(c, decision)
      PROVE  \E gone \in SUBSET over' : Combined(op[x].req, op[x].answer, gone)'
  <2>1. CASE x = c
    <3>1. op'[c].answer = decision /\ op'[c].req = op[c].req
      BY <1>5 DEF Decide, TypeOK, Op
    <3>2. op[c].req \in Requests
      BY <1>5 DEF Decide, TypeOK, Op
    <3>3. PICK r, d : r \in Requests /\ r = op[c].req /\ d = decision
      BY <3>2
    <3>4. Combined(r, d, over)
      BY <1>5, <3>3, DecisionsCombine DEF Decide
    <3>5. UNCHANGED <<loaded, over>>
      BY <1>5 DEF Decide
    <3>6. PICK gone : gone = over
      OBVIOUS
    <3>7. Combined(r, d, gone)'
      BY <3>4, <3>5, <3>6 DEF Combined
    <3>8. Combined(op[x].req, op[x].answer, gone)'
      BY <2>1, <3>1, <3>3, <3>7 DEF Combined
    <3> QED
      BY <3>5, <3>6, <3>8
  <2>2. CASE x # c
    <3>1. op'[x] = op[x]
      BY <1>5, <2>2 DEF Decide, TypeOK
    <3> QED
      BY <1>1, <1>5, <3>1 DEF Decide
  <2> QED
    BY <2>1, <2>2
<1>6. ASSUME NEW c \in Callers, Set(c) \/ Return(c) \/ Clear(c)
      PROVE  \E gone \in SUBSET over' : Combined(op[x].req, op[x].answer, gone)'
  <2>1. op'[c].pc # "set" /\ \A y \in Callers \ {c} : op'[y] = op[y]
    BY <1>6 DEF Set, Return, Clear, Idle, TypeOK, Op
  <2>2. UNCHANGED <<loaded, over>>
    BY <1>6 DEF Set, Return, Clear
  <2> QED
    BY <1>2, <2>1, <2>2
<1>7. ASSUME NEW c \in Callers, Install(c) PROVE FALSE
  <2>1. op'[c].pc = "clear" /\ op'[x].pc = "set" /\ op[x].pc # "set"
    BY <1>7 DEF Install, TypeOK, Op
  <2>2. \A y \in Callers \ {c} : op'[y] = op[y]
    BY <1>7 DEF Install, TypeOK
  <2> QED
    BY <2>1, <2>2
<1>8. ASSUME \/ \E k \in Keys : Expire(k)
             \/ \E content \in Perishable : Lapse(content)
             \/ UNCHANGED vars
      PROVE  \E gone \in SUBSET over' : Combined(op[x].req, op[x].answer, gone)'
  <2>1. UNCHANGED <<loaded, op>> /\ over \subseteq over'
    BY <1>8 DEF Expire, Lapse, vars
  <2> QED
    BY <1>1, <2>1
<1>9. ASSUME NEW ok \in BOOLEAN, Restart(ok) PROVE FALSE
  BY <1>9 DEF Restart, Idle
<1> QED
  BY <1>3, <1>4, <1>5, <1>6, <1>7, <1>8, <1>9 DEF Next, Proceed

(* Whatever the order of the map and of the rules, and for any number of    *)
(* policies, rules and requests: one policy that denies is enough to deny,  *)
(* nothing is allowed that no policy allows, and a step-up is demanded only *)
(* of what is allowed.                                                      *)
THEOREM EngineDenyOverrides == Spec => []DenyOverrides
<1>1. Init => DenyOverrides
  BY DEF Init, DenyOverrides, Idle
<1> QED
  BY <1>1, FiniteInit, FiniteStep, DenyStep, EngineTyped, PTL DEF Spec
===============================================================================
