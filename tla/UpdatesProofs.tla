---------------------------- MODULE UpdatesProofs ----------------------------
(* Proofs about the update policies, the package updates and the package   *)
(* inventories they rest on: what a request that ran alone leaves of the   *)
(* standard policy, what every apply row rests on, how often a plan and an *)
(* inventory are used, and when an agent forgets an inventory.  All are    *)
(* judged in steps between awaits, so each invariant says what a request   *)
(* at a step has found out and why it is still true when it is used.       *)
EXTENDS PackageUpdates, UpdatePolicies, Heartbeats, FiniteSetTheorems, TLAPS

(***************************************************************************)
(* The standard policy                                                     *)
(***************************************************************************)

HandlerShape ==
  [kind : {"none", "create", "list", "delete", "restart"}, at : HandlerSteps,
   target : Resources \cup {NoResource}, ids : SUBSET Resources, policy : SUBSET Resources, alone : BOOLEAN]

(* What a request at a step has found out. *)
HandlerSound(h) ==
  LET q == handler[h] IN
  /\ q.at = "idle" => q = Unused
  /\ q.at \in {"saveTarget", "register"} => q.kind = "create" /\ q.target \in Resources
  /\ q.at \in {"targets", "policy", "insert", "merge", "save", "memory"} =>
       q.kind \in {"create", "list", "restart"}
  /\ q.at \in {"deleteRows", "deleteMemory"} => q.kind = "delete"
  /\ q.at = "policy" => q.ids # {}
  /\ q.at \in {"insert", "merge", "save", "memory"} => q.policy # {}

(* A request that has been alone so far is the only one, and what it read  *)
(* of the targets and the policy still holds.                              *)
AloneSound(h) ==
  LET q == handler[h] IN q.alone =>
  /\ Busy = {h}
  /\ q.at = "policy" => q.ids = registered
  /\ q.at \in {"insert", "merge", "save", "memory"} => registered \subseteq q.policy
  /\ q.at = "merge" => policyRow # {}
  /\ q.kind = "restart" =>
       /\ q.at \in {"targets", "policy"} => allowed = policyRow
       /\ q.at = "memory" => registered \subseteq policyRow

PolicyInv ==
  /\ PoliciesTypeOK
  /\ \A h \in Handlers : HandlerSound(h) /\ AloneSound(h)
  /\ Busy # {} => settled = "no"
  /\ settled # "no" => registered \subseteq allowed
  /\ settled = "restart" => registered \subseteq policyRow

(* A step of h to the state q. *)
HandlerMoves(h, q) ==
  /\ handler \in [Handlers -> HandlerShape] /\ q \in HandlerShape
  /\ handler' = [handler EXCEPT ![h] = q]

LEMMA HandlerMovesOn ==
  ASSUME PolicyInv, NEW h \in Handlers, NEW q, HandlerMoves(h, q), handler[h] # Unused,
         targetRows' \subseteq Resources, registered' \subseteq Resources,
         policyRow' \subseteq Resources, allowed' \subseteq Resources,
         q # Unused, q.alone = handler[h].alone,
         HandlerSound(h)', AloneSound(h)', settled' = settled
  PROVE  PolicyInv'
<1>1. \A x \in Handlers : handler'[x] = IF x = h THEN q ELSE handler[x]
  BY DEF HandlerMoves
<1>2. handler' \in [Handlers -> HandlerShape]
  BY DEF HandlerMoves
<1>3. Busy' = Busy /\ h \in Busy
  BY <1>1 DEF Busy
<1>4. \A x \in Handlers \ {h} : HandlerSound(x)'
  BY <1>1 DEF PolicyInv, HandlerSound
<1>5. \A x \in Handlers \ {h} : ~ handler[x].alone /\ AloneSound(x)'
  BY <1>1, <1>3 DEF PolicyInv, AloneSound
<1>6. settled = "no"
  BY <1>3 DEF PolicyInv
<1>7. PoliciesTypeOK'
  <2>1. \A x \in Handlers : HandlerSound(x)'
    BY <1>4
  <2>2. \A x \in Handlers : handler'[x].at \in {"insert", "merge", "save", "memory"} => handler'[x].policy # {}
    BY <2>1 DEF HandlerSound
  <2> QED BY <1>2, <1>6, <2>2 DEF PoliciesTypeOK, HandlerShape
<1> QED BY <1>4, <1>5, <1>6, <1>7 DEF PolicyInv

(* The end of a request. *)
LEMMA HandlerEnds ==
  ASSUME PolicyInv, NEW h \in Handlers, handler[h] # Unused,
         handler' = [handler EXCEPT ![h] = Unused],
         targetRows' \subseteq Resources, registered' \subseteq Resources,
         policyRow' \subseteq Resources, allowed' \subseteq Resources,
         settled' \in {"no", handler[h].kind}, settled' # "no" => handler[h].alone,
         settled' # "no" => handler[h].kind \in {"create", "list", "restart"} /\ registered' \subseteq allowed',
         settled' = "restart" => registered' \subseteq policyRow'
  PROVE  PolicyInv'
<1>0. handler \in [Handlers -> HandlerShape] /\ Unused \in HandlerShape
  BY DEF PolicyInv, PoliciesTypeOK, HandlerShape, Unused, HandlerSteps
<1>1. \A x \in Handlers : handler'[x] = IF x = h THEN Unused ELSE handler[x]
  BY <1>0
<1>2. Busy' = Busy \ {h} /\ h \in Busy
  BY <1>1 DEF Busy
<1>3. \A x \in Handlers : HandlerSound(x)'
  <2>1. HandlerSound(h)'
    BY <1>1 DEF HandlerSound, Unused
  <2> QED BY <1>1, <2>1 DEF PolicyInv, HandlerSound
<1>4. \A x \in Handlers : ~ handler'[x].alone
  <2>1. \A x \in Handlers \ {h} : ~ handler[x].alone
    BY <1>2 DEF PolicyInv, AloneSound
  <2> QED BY <1>1, <2>1 DEF Unused
<1>5. \A x \in Handlers : AloneSound(x)'
  BY <1>4 DEF AloneSound
<1>6. Busy' # {} => settled' = "no"
  BY <1>2 DEF PolicyInv, AloneSound
<1>7. PoliciesTypeOK'
  <2>1. handler' \in [Handlers -> HandlerShape]
    BY <1>0, <1>1
  <2>2. \A x \in Handlers : handler'[x].at \in {"insert", "merge", "save", "memory"} => handler'[x].policy # {}
    BY <1>3 DEF HandlerSound
  <2> QED BY <2>1, <2>2 DEF PoliciesTypeOK, HandlerShape
<1> QED BY <1>3, <1>5, <1>6, <1>7 DEF PolicyInv

(* A request that starts leaves nobody alone who was in flight. *)
LEMMA HandlerStarts ==
  ASSUME PolicyInv, NEW h \in Handlers, NEW q \in HandlerShape, Starts(h, q),
         q.kind \in {"create", "list", "delete"},
         q.at = "saveTarget" => q.kind = "create" /\ q.target \in Resources,
         q.at = "targets" => q.kind \in {"create", "list"},
         q.at = "deleteRows" => q.kind = "delete",
         q.at \in {"saveTarget", "targets", "deleteRows"},
         UNCHANGED <<targetRows, registered, policyRow, allowed>>
  PROVE  PolicyInv'
<1> DEFINE n == [q EXCEPT !.alone = Busy = {}]
<1>0. handler \in [Handlers -> HandlerShape] /\ (Busy = {}) \in BOOLEAN
  BY DEF PolicyInv, PoliciesTypeOK, HandlerShape
<1>1. /\ n \in HandlerShape /\ n.kind = q.kind /\ n.at = q.at /\ n.target = q.target /\ n.alone = (Busy = {})
  BY <1>0 DEF HandlerShape
<1> HIDE DEF n
<1>2. \A x \in Handlers \ {h} :
        LET o == [handler[x] EXCEPT !.alone = FALSE] IN
        /\ o \in HandlerShape /\ o.alone = FALSE /\ (o # Unused => handler[x] # Unused)
        /\ o.kind = handler[x].kind /\ o.at = handler[x].at /\ o.target = handler[x].target
        /\ o.ids = handler[x].ids /\ o.policy = handler[x].policy
        /\ (o.at = "idle" => o = Unused)
  <2> SUFFICES ASSUME NEW x \in Handlers \ {h}
               PROVE  LET o == [handler[x] EXCEPT !.alone = FALSE] IN
                      /\ o \in HandlerShape /\ o.alone = FALSE /\ (o # Unused => handler[x] # Unused)
                      /\ o.kind = handler[x].kind /\ o.at = handler[x].at /\ o.target = handler[x].target
                      /\ o.ids = handler[x].ids /\ o.policy = handler[x].policy
                      /\ (o.at = "idle" => o = Unused)
    OBVIOUS
  <2> DEFINE o == [handler[x] EXCEPT !.alone = FALSE]
  <2>1. handler[x] \in HandlerShape
    BY <1>0
  <2>2. /\ o \in HandlerShape /\ o.alone = FALSE
        /\ o.kind = handler[x].kind /\ o.at = handler[x].at /\ o.target = handler[x].target
        /\ o.ids = handler[x].ids /\ o.policy = handler[x].policy
    BY <2>1 DEF HandlerShape
  <2>3. handler[x] = Unused => o = Unused
    <3>1. Unused \in HandlerShape /\ Unused.alone = FALSE
      BY DEF Unused, HandlerShape, HandlerSteps
    <3>2. \A r \in HandlerShape : r.alone = FALSE => [r EXCEPT !.alone = FALSE] = r
      BY DEF HandlerShape
    <3> QED BY <3>1, <3>2
  <2>4. handler[x].at = "idle" => handler[x] = Unused
    BY DEF PolicyInv, HandlerSound
  <2> QED BY <2>2, <2>3, <2>4
<1>3. \A x \in Handlers : handler'[x] = IF x = h THEN n ELSE [handler[x] EXCEPT !.alone = FALSE]
  BY DEF Starts, n
<1>4. handler' \in [Handlers -> HandlerShape]
  <2>1. handler' = [x \in Handlers |-> handler'[x]]
    BY DEF Starts
  <2> QED BY <1>1, <1>2, <1>3, <2>1
<1>5. Busy' \subseteq Busy \cup {h} /\ h \in Busy'
  <2>1. n # Unused
    BY <1>1 DEF Unused
  <2> QED BY <1>2, <1>3, <2>1 DEF Busy
<1>6. \A x \in Handlers : HandlerSound(x)'
  <2>1. HandlerSound(h)'
    BY <1>1, <1>3 DEF HandlerSound
  <2>2. ASSUME NEW x \in Handlers \ {h} PROVE HandlerSound(x)'
    <3>1. HandlerSound(x)
      BY DEF PolicyInv
    <3>2. /\ handler'[x].kind = handler[x].kind /\ handler'[x].at = handler[x].at
          /\ handler'[x].target = handler[x].target /\ handler'[x].ids = handler[x].ids
          /\ handler'[x].policy = handler[x].policy /\ (handler'[x].at = "idle" => handler'[x] = Unused)
      BY <1>2, <1>3
    <3> QED BY <3>1, <3>2 DEF HandlerSound
  <2> QED BY <2>1, <2>2
<1>7. \A x \in Handlers : AloneSound(x)'
  <2>1. AloneSound(h)'
    BY <1>1, <1>3, <1>5 DEF AloneSound
  <2>2. \A x \in Handlers \ {h} : ~ handler'[x].alone
    BY <1>2, <1>3
  <2> QED BY <2>1, <2>2 DEF AloneSound
<1>8. PoliciesTypeOK'
  <2>1. \A x \in Handlers : handler'[x].at \in {"insert", "merge", "save", "memory"} => handler'[x].policy # {}
    BY <1>6 DEF HandlerSound
  <2> QED BY <1>4, <2>1 DEF PoliciesTypeOK, HandlerShape, PolicyInv, Starts
<1> QED BY <1>6, <1>7, <1>8 DEF PolicyInv, Starts

LEMMA RequestsStart ==
  ASSUME PolicyInv, NEW h \in Handlers,
         \/ \E t \in Resources : CreateTarget(h, t) \/ DeleteResource(h, t)
         \/ ListUpdatePolicies(h)
  PROVE  PolicyInv'
<1>0. \A t \in Resources \cup {NoResource} :
        /\ [Unused EXCEPT !.kind = "create", !.at = "saveTarget", !.target = t] \in HandlerShape
        /\ [Unused EXCEPT !.kind = "delete", !.at = "deleteRows", !.target = t] \in HandlerShape
        /\ [Unused EXCEPT !.kind = "list", !.at = "targets"] \in HandlerShape
  BY DEF Unused, HandlerShape, HandlerSteps
<1>1. ASSUME NEW t \in Resources, CreateTarget(h, t) PROVE PolicyInv'
  BY <1>0, <1>1, HandlerStarts DEF CreateTarget, Unused
<1>2. ASSUME NEW t \in Resources, DeleteResource(h, t) PROVE PolicyInv'
  BY <1>0, <1>2, HandlerStarts DEF DeleteResource, Unused
<1>3. CASE ListUpdatePolicies(h)
  BY <1>0, <1>3, HandlerStarts DEF ListUpdatePolicies, Unused
<1> QED BY <1>1, <1>2, <1>3

(* The next step of a request that keeps what it has read. *)
LEMMA NextHandlerStep ==
  ASSUME PolicyInv, NEW h \in Handlers, NEW step \in HandlerSteps \ {"idle"}, handler[h].at # "idle", Moves(h, step)
  PROVE  \E q : /\ HandlerMoves(h, q) /\ q # Unused /\ handler[h] # Unused
                /\ q.at = step /\ q.alone = handler[h].alone /\ q.kind = handler[h].kind
                /\ q.target = handler[h].target /\ q.ids = handler[h].ids /\ q.policy = handler[h].policy
                /\ handler'[h] = q
<1> DEFINE q == [handler[h] EXCEPT !.at = step]
<1>0. handler \in [Handlers -> HandlerShape]
  BY DEF PolicyInv, PoliciesTypeOK, HandlerShape
<1>1. handler[h] \in HandlerShape
  BY <1>0
<1>2. /\ q \in HandlerShape /\ q.at = step /\ q.alone = handler[h].alone /\ q.kind = handler[h].kind
      /\ q.target = handler[h].target /\ q.ids = handler[h].ids /\ q.policy = handler[h].policy
  BY <1>1 DEF HandlerShape
<1>3. handler' = [handler EXCEPT ![h] = q]
  BY <1>0 DEF Moves
<1> HIDE DEF q
<1>4. q # Unused /\ handler[h] # Unused
  BY <1>2 DEF Unused
<1> WITNESS q
<1> QED BY <1>0, <1>2, <1>3, <1>4 DEF HandlerMoves

LEMMA SaveTargetSound ==
  ASSUME PolicyInv, NEW h \in Handlers, SaveTarget(h) PROVE PolicyInv'
<1>1. PICK q : /\ HandlerMoves(h, q) /\ q # Unused /\ handler[h] # Unused
               /\ q.at = "register" /\ q.alone = handler[h].alone /\ q.kind = handler[h].kind
               /\ q.target = handler[h].target /\ handler'[h] = q
  BY NextHandlerStep DEF SaveTarget, HandlerSteps
<1>2. q.kind = "create" /\ q.target \in Resources
  BY <1>1 DEF SaveTarget, PolicyInv, HandlerSound
<1>3. targetRows' \subseteq Resources
  BY <1>1, <1>2 DEF SaveTarget, PolicyInv, PoliciesTypeOK
<1>4. HandlerSound(h)'
  BY <1>1, <1>2 DEF HandlerSound
<1>5. Busy' = Busy
  BY <1>1 DEF HandlerMoves, Busy
<1>6. AloneSound(h)'
  BY <1>1, <1>2, <1>5 DEF AloneSound, PolicyInv
<1> QED BY <1>1, <1>3, <1>4, <1>6, HandlerMovesOn DEF SaveTarget, PolicyInv, PoliciesTypeOK

LEMMA RegisterTargetSound ==
  ASSUME PolicyInv, NEW h \in Handlers, RegisterTarget(h) PROVE PolicyInv'
<1>1. PICK q : /\ HandlerMoves(h, q) /\ q # Unused /\ handler[h] # Unused
               /\ q.at = "targets" /\ q.alone = handler[h].alone /\ q.kind = handler[h].kind
               /\ q.target = handler[h].target /\ handler'[h] = q
  BY NextHandlerStep DEF RegisterTarget, HandlerSteps
<1>2. q.kind = "create" /\ q.target \in Resources
  BY <1>1 DEF RegisterTarget, PolicyInv, HandlerSound
<1>3. registered' \subseteq Resources
  BY <1>1, <1>2 DEF RegisterTarget, PolicyInv, PoliciesTypeOK
<1>4. HandlerSound(h)'
  BY <1>1, <1>2 DEF HandlerSound
<1>5. Busy' = Busy
  BY <1>1 DEF HandlerMoves, Busy
<1>6. AloneSound(h)'
  BY <1>1, <1>2, <1>5 DEF AloneSound, PolicyInv
<1> QED BY <1>1, <1>3, <1>4, <1>6, HandlerMovesOn DEF RegisterTarget, PolicyInv, PoliciesTypeOK

(* A request that ends as it should. *)
LEMMA CompletesSound ==
  ASSUME PolicyInv, NEW h \in Handlers, Completes(h), handler[h].at \notin {"idle", "deleteRows", "deleteMemory", "saveTarget", "register"},
         UNCHANGED <<targetRows, registered, policyRow>>, allowed' \subseteq Resources,
         handler[h].alone => registered \subseteq allowed',
         handler[h].alone /\ handler[h].kind = "restart" => registered \subseteq policyRow
  PROVE  PolicyInv'
<1>1. handler[h] # Unused
  BY DEF Unused
<1>2. handler[h].kind \in {"create", "list", "restart"}
  <2>1. handler[h].at \in HandlerSteps
    BY DEF PolicyInv, PoliciesTypeOK
  <2> QED BY <2>1 DEF PolicyInv, HandlerSound, HandlerSteps
<1> QED BY <1>1, <1>2, HandlerEnds DEF Completes, PolicyInv, PoliciesTypeOK

LEMMA RegisteredTargetIdsSound ==
  ASSUME PolicyInv, NEW h \in Handlers, RegisteredTargetIds(h) PROVE PolicyInv'
<1>1. CASE registered = {}
  BY <1>1, CompletesSound DEF RegisteredTargetIds, PolicyInv, PoliciesTypeOK
<1>2. CASE registered # {}
  <2> DEFINE q == [handler[h] EXCEPT !.at = "policy", !.ids = registered]
  <2>0. handler \in [Handlers -> HandlerShape]
    BY DEF PolicyInv, PoliciesTypeOK, HandlerShape
  <2>1. handler[h] \in HandlerShape /\ registered \in SUBSET Resources /\ "policy" \in HandlerSteps
    BY <2>0 DEF PolicyInv, PoliciesTypeOK, HandlerSteps
  <2>2. /\ q \in HandlerShape /\ q.at = "policy" /\ q.alone = handler[h].alone /\ q.kind = handler[h].kind
        /\ q.ids = registered
    BY <2>1 DEF HandlerShape
  <2>3. handler' = [handler EXCEPT ![h] = q]
    BY <1>2, <2>0 DEF RegisteredTargetIds
  <2> HIDE DEF q
  <2>4. q # Unused /\ handler[h] # Unused
    BY <2>2 DEF Unused, RegisteredTargetIds
  <2>5. HandlerMoves(h, q) /\ handler'[h] = q
    BY <2>0, <2>2, <2>3 DEF HandlerMoves
  <2>6. Busy' = Busy
    BY <2>4, <2>5 DEF HandlerMoves, Busy
  <2>7. HandlerSound(h)'
    BY <1>2, <2>2, <2>5 DEF HandlerSound, PolicyInv, RegisteredTargetIds
  <2>8. AloneSound(h)'
    BY <2>2, <2>5, <2>6 DEF AloneSound, PolicyInv, RegisteredTargetIds
  <2> QED BY <1>2, <2>2, <2>4, <2>5, <2>7, <2>8, HandlerMovesOn DEF RegisteredTargetIds, PolicyInv, PoliciesTypeOK
<1> QED BY <1>1, <1>2

LEMMA ExtendStandardPolicySound ==
  ASSUME PolicyInv, NEW h \in Handlers, ExtendStandardPolicy(h) PROVE PolicyInv'
<1>1. CASE allowed # {} /\ handler[h].ids \subseteq allowed
  <2>1. handler[h].alone => registered \subseteq allowed /\ (handler[h].kind = "restart" => registered \subseteq policyRow)
    BY <1>1 DEF ExtendStandardPolicy, PolicyInv, AloneSound
  <2> QED BY <1>1, <2>1, CompletesSound DEF ExtendStandardPolicy, PolicyInv, PoliciesTypeOK
<1>2. CASE ~ (allowed # {} /\ handler[h].ids \subseteq allowed)
  <2> DEFINE current == IF allowed = {} THEN DefaultUpdatePolicy(handler[h].ids) ELSE allowed
             next == current \cup handler[h].ids
             step == PersistStep(allowed # {})
             q == [handler[h] EXCEPT !.at = step, !.policy = next]
  <2>0. handler \in [Handlers -> HandlerShape]
    BY DEF PolicyInv, PoliciesTypeOK, HandlerShape
  <2>1. handler[h] \in HandlerShape /\ handler[h].ids \subseteq Resources
    BY <2>0 DEF HandlerShape
  <2>2. next \in SUBSET Resources /\ handler[h].ids \subseteq next
    BY <2>1 DEF DefaultUpdatePolicy, PolicyInv, PoliciesTypeOK
  <2>3. step \in {"insert", "save"} /\ step \in HandlerSteps /\ step # "idle"
    BY DEF PersistStep, HandlerSteps
  <2>4. handler' = [handler EXCEPT ![h] = q] /\ settled' = settled
    BY <1>2, <2>0 DEF ExtendStandardPolicy
  <2> HIDE DEF next, step
  <2>5. /\ q \in HandlerShape /\ q.at = step /\ q.alone = handler[h].alone /\ q.kind = handler[h].kind
        /\ q.policy = next
    BY <2>1, <2>2, <2>3 DEF HandlerShape
  <2> HIDE DEF q
  <2>6. q # Unused /\ handler[h] # Unused
    BY <2>3, <2>5 DEF Unused, ExtendStandardPolicy
  <2>7. HandlerMoves(h, q) /\ handler'[h] = q
    BY <2>0, <2>4, <2>5 DEF HandlerMoves
  <2>8. Busy' = Busy
    BY <2>6, <2>7 DEF HandlerMoves, Busy
  <2>9. HandlerSound(h)'
    BY <2>2, <2>3, <2>5, <2>7 DEF HandlerSound, PolicyInv, ExtendStandardPolicy
  <2>10. AloneSound(h)'
    BY <2>2, <2>3, <2>5, <2>7, <2>8 DEF AloneSound, PolicyInv, ExtendStandardPolicy
  <2> QED BY <2>4, <2>5, <2>6, <2>7, <2>9, <2>10, HandlerMovesOn DEF ExtendStandardPolicy, PolicyInv, PoliciesTypeOK
<1> QED BY <1>1, <1>2

LEMMA SaveIfAbsentSound ==
  ASSUME PolicyInv, NEW h \in Handlers, SaveIfAbsent(h) PROVE PolicyInv'
<1> DEFINE step == IF policyRow = {} THEN "memory" ELSE "merge"
<1>0. step \in HandlerSteps \ {"idle"} /\ Moves(h, step) /\ step \in {"memory", "merge"}
  BY DEF SaveIfAbsent, HandlerSteps
<1>1. policyRow = {} => policyRow' = handler[h].policy
  BY DEF SaveIfAbsent
<1>2. policyRow # {} => policyRow' = policyRow /\ step = "merge"
  BY DEF SaveIfAbsent
<1>3. policyRow = {} => step = "memory"
  OBVIOUS
<1> HIDE DEF step
<1>4. PICK q : /\ HandlerMoves(h, q) /\ q # Unused /\ handler[h] # Unused
               /\ q.at = step /\ q.alone = handler[h].alone /\ q.kind = handler[h].kind
               /\ q.policy = handler[h].policy /\ handler'[h] = q
  BY <1>0, NextHandlerStep DEF SaveIfAbsent
<1>5. policyRow' \subseteq Resources
  BY <1>1, <1>2 DEF PolicyInv, PoliciesTypeOK
<1>6. HandlerSound(h)'
  BY <1>0, <1>4 DEF SaveIfAbsent, HandlerSound, PolicyInv
<1>7. Busy' = Busy
  BY <1>4 DEF HandlerMoves, Busy
<1>8. AloneSound(h)'
  BY <1>0, <1>1, <1>2, <1>3, <1>4, <1>7 DEF SaveIfAbsent, AloneSound, PolicyInv
<1> QED BY <1>4, <1>5, <1>6, <1>8, HandlerMovesOn DEF SaveIfAbsent, PolicyInv, PoliciesTypeOK

LEMMA MergeConcurrentStandardPolicySound ==
  ASSUME PolicyInv, NEW h \in Handlers, MergeConcurrentStandardPolicy(h) PROVE PolicyInv'
<1>1. CASE policyRow = {}
  <2>1. ~ handler[h].alone
    BY <1>1 DEF PolicyInv, AloneSound, MergeConcurrentStandardPolicy
  <2> QED BY <1>1, <2>1, CompletesSound DEF MergeConcurrentStandardPolicy, PolicyInv, PoliciesTypeOK
<1>2. CASE policyRow # {}
  <2> DEFINE merged == policyRow \cup handler[h].policy
             step == IF merged = policyRow THEN "memory" ELSE "save"
             q == [handler[h] EXCEPT !.policy = merged, !.at = step]
  <2>0. handler \in [Handlers -> HandlerShape]
    BY DEF PolicyInv, PoliciesTypeOK, HandlerShape
  <2>1. handler[h] \in HandlerShape /\ handler[h].policy \subseteq Resources
    BY <2>0 DEF HandlerShape
  <2>2. merged \in SUBSET Resources /\ handler[h].policy \subseteq merged /\ merged # {}
    BY <1>2, <2>1 DEF PolicyInv, PoliciesTypeOK
  <2>3. step \in {"memory", "save"} /\ step \in HandlerSteps /\ step # "idle" /\ (step = "memory" => merged = policyRow)
    BY DEF HandlerSteps
  <2>4. handler' = [handler EXCEPT ![h] = q] /\ settled' = settled
    BY <1>2, <2>0 DEF MergeConcurrentStandardPolicy
  <2> HIDE DEF merged, step
  <2>5. /\ q \in HandlerShape /\ q.at = step /\ q.alone = handler[h].alone /\ q.kind = handler[h].kind
        /\ q.policy = merged
    BY <2>1, <2>2, <2>3 DEF HandlerShape
  <2> HIDE DEF q
  <2>6. q # Unused /\ handler[h] # Unused
    BY <2>3, <2>5 DEF Unused, MergeConcurrentStandardPolicy
  <2>7. HandlerMoves(h, q) /\ handler'[h] = q
    BY <2>0, <2>4, <2>5 DEF HandlerMoves
  <2>8. Busy' = Busy
    BY <2>6, <2>7 DEF HandlerMoves, Busy
  <2>9. HandlerSound(h)'
    BY <2>2, <2>3, <2>5, <2>7 DEF HandlerSound, PolicyInv, MergeConcurrentStandardPolicy
  <2>10. AloneSound(h)'
    BY <2>2, <2>3, <2>5, <2>7, <2>8 DEF AloneSound, PolicyInv, MergeConcurrentStandardPolicy
  <2> QED BY <2>4, <2>5, <2>6, <2>7, <2>9, <2>10, HandlerMovesOn
          DEF MergeConcurrentStandardPolicy, PolicyInv, PoliciesTypeOK
<1> QED BY <1>1, <1>2

LEMMA SavePolicySound ==
  ASSUME PolicyInv, NEW h \in Handlers, SavePolicy(h) PROVE PolicyInv'
<1>1. PICK q : /\ HandlerMoves(h, q) /\ q # Unused /\ handler[h] # Unused
               /\ q.at = "memory" /\ q.alone = handler[h].alone /\ q.kind = handler[h].kind
               /\ q.policy = handler[h].policy /\ handler'[h] = q
  BY NextHandlerStep DEF SavePolicy, HandlerSteps
<1>2. policyRow' \subseteq Resources
  BY DEF SavePolicy, PolicyInv, PoliciesTypeOK
<1>3. HandlerSound(h)'
  BY <1>1 DEF SavePolicy, HandlerSound, PolicyInv
<1>4. Busy' = Busy
  BY <1>1 DEF HandlerMoves, Busy
<1>5. AloneSound(h)'
  BY <1>1, <1>4 DEF SavePolicy, AloneSound, PolicyInv
<1> QED BY <1>1, <1>2, <1>3, <1>5, HandlerMovesOn DEF SavePolicy, PolicyInv, PoliciesTypeOK

LEMMA WritePolicyMemorySound ==
  ASSUME PolicyInv, NEW h \in Handlers, WritePolicyMemory(h) PROVE PolicyInv'
<1>1. /\ handler[h].alone => registered \subseteq allowed'
      /\ handler[h].alone /\ handler[h].kind = "restart" => registered \subseteq policyRow
  BY DEF WritePolicyMemory, PolicyInv, AloneSound
<1>2. allowed' \subseteq Resources
  BY DEF WritePolicyMemory, PolicyInv, PoliciesTypeOK
<1> QED BY <1>1, <1>2, CompletesSound DEF WritePolicyMemory

LEMMA DeleteWithRelatedDataSound ==
  ASSUME PolicyInv, NEW h \in Handlers, DeleteWithRelatedData(h) PROVE PolicyInv'
<1>1. PICK q : /\ HandlerMoves(h, q) /\ q # Unused /\ handler[h] # Unused
               /\ q.at = "deleteMemory" /\ q.alone = handler[h].alone /\ q.kind = handler[h].kind
               /\ handler'[h] = q
  BY NextHandlerStep DEF DeleteWithRelatedData, HandlerSteps
<1>2. q.kind = "delete"
  BY <1>1 DEF DeleteWithRelatedData, PolicyInv, HandlerSound
<1>3. HandlerSound(h)'
  BY <1>1, <1>2 DEF HandlerSound
<1>4. Busy' = Busy
  BY <1>1 DEF HandlerMoves, Busy
<1>5. AloneSound(h)'
  BY <1>1, <1>2, <1>4 DEF AloneSound, PolicyInv
<1>6. targetRows' \subseteq Resources /\ policyRow' \subseteq Resources
  BY DEF DeleteWithRelatedData, PolicyInv, PoliciesTypeOK
<1> QED BY <1>1, <1>3, <1>5, <1>6, HandlerMovesOn DEF DeleteWithRelatedData, PolicyInv, PoliciesTypeOK

(* A delete and a request given up end with nothing settled. *)
LEMMA ForgetAndGiveUpSound ==
  ASSUME PolicyInv, NEW h \in Handlers, ForgetResource(h) \/ GivesUp(h) PROVE PolicyInv'
<1>1. CASE ForgetResource(h)
  <2>1. handler[h] # Unused
    BY <1>1 DEF ForgetResource, Unused
  <2>2. settled = "no"
    BY <2>1 DEF PolicyInv, Busy
  <2> QED BY <1>1, <2>1, <2>2, HandlerEnds DEF ForgetResource, PolicyInv, PoliciesTypeOK
<1>2. CASE GivesUp(h)
  BY <1>2, HandlerEnds DEF GivesUp, PolicyInv, PoliciesTypeOK
<1> QED BY <1>1, <1>2

LEMMA RestoreUpdatePoliciesSound ==
  ASSUME PolicyInv, NEW h \in Handlers, RestoreUpdatePolicies(h) PROVE PolicyInv'
<1> DEFINE new == [Unused EXCEPT !.kind = "restart", !.at = "targets", !.alone = TRUE]
<1>0. /\ Unused \in HandlerShape /\ Unused.at = "idle" /\ Unused.alone = FALSE
      /\ new \in HandlerShape /\ new.kind = "restart" /\ new.at = "targets"
  BY DEF HandlerShape, Unused, HandlerSteps
<1> HIDE DEF new
<1>1. \A x \in Handlers : /\ handler'[x] \in {Unused, new} /\ (x # h => handler'[x] = Unused)
                          /\ (handler'[x] = new => allowed' = policyRow')
  <2>1. new # Unused
    BY <1>0
  <2>2. \/ allowed' = policyRow' /\ handler' = [x \in Handlers |-> IF x = h THEN new ELSE Unused]
        \/ handler' = [x \in Handlers |-> Unused]
    BY DEF RestoreUpdatePolicies, new
  <2> QED BY <2>1, <2>2
<1>2. handler' \in [Handlers -> HandlerShape]
  <2>1. handler' = [x \in Handlers |-> handler'[x]]
    BY DEF RestoreUpdatePolicies
  <2> QED BY <1>0, <1>1, <2>1
<1>3. /\ targetRows' \subseteq Resources /\ registered' \subseteq Resources
      /\ policyRow' \subseteq Resources /\ allowed' \subseteq Resources /\ settled' = "no"
  BY DEF RestoreUpdatePolicies, PolicyInv, PoliciesTypeOK
<1>4. \A x \in Handlers : HandlerSound(x)' /\ AloneSound(x)'
  BY <1>0, <1>1 DEF HandlerSound, AloneSound, Busy
<1>5. PoliciesTypeOK'
  <2>1. \A x \in Handlers : handler'[x].at \in {"insert", "merge", "save", "memory"} => handler'[x].policy # {}
    BY <1>4 DEF HandlerSound
  <2> QED BY <1>2, <1>3, <2>1 DEF PoliciesTypeOK, HandlerShape
<1> QED BY <1>3, <1>4, <1>5 DEF PolicyInv

LEMMA PolicyInvHolds == PoliciesSpec => []PolicyInv
<1>1. PoliciesInit => PolicyInv
  <2> SUFFICES ASSUME PoliciesInit PROVE PolicyInv
    OBVIOUS
  <2>1. Unused \in HandlerShape /\ Unused.at = "idle" /\ Unused.alone = FALSE
    BY DEF HandlerShape, Unused, HandlerSteps
  <2>2. \A h \in Handlers : handler[h] = Unused
    BY DEF PoliciesInit
  <2>3. \A h \in Handlers : HandlerSound(h) /\ AloneSound(h)
    BY <2>1, <2>2 DEF HandlerSound, AloneSound
  <2>4. PoliciesTypeOK
    BY <2>1, <2>2 DEF PoliciesInit, PoliciesTypeOK, HandlerShape
  <2> QED BY <2>3, <2>4 DEF PolicyInv, PoliciesInit
<1>2. PolicyInv /\ [PoliciesNext]_policyVars => PolicyInv'
  <2> SUFFICES ASSUME PolicyInv, [PoliciesNext]_policyVars PROVE PolicyInv'
    OBVIOUS
  <2>1. CASE UNCHANGED policyVars
    BY <2>1 DEF policyVars, PolicyInv, PoliciesTypeOK, HandlerSound, AloneSound, Busy
  <2>2. ASSUME NEW h \in Handlers, HandlerStep(h) PROVE PolicyInv'
    BY <2>2, SaveTargetSound, RegisterTargetSound, RegisteredTargetIdsSound, ExtendStandardPolicySound,
       SaveIfAbsentSound, MergeConcurrentStandardPolicySound, SavePolicySound, WritePolicyMemorySound,
       DeleteWithRelatedDataSound, ForgetAndGiveUpSound DEF HandlerStep
  <2>3. ASSUME NEW h \in Handlers, GivesUp(h) PROVE PolicyInv'
    BY <2>3, ForgetAndGiveUpSound
  <2> QED BY <2>1, <2>2, <2>3, RequestsStart, RestoreUpdatePoliciesSound DEF PoliciesNext
<1> QED BY <1>1, <1>2, PTL DEF PoliciesSpec

(* The next create_target, list_update_policies or restart that runs alone *)
(* leaves a standard policy over every registered target, whatever         *)
(* overlapping, failed or dropped requests left out of it: whoever has     *)
(* been alone since its start acts on a policy and on targets that are     *)
(* still the ones ensure_default_update_policies read.                     *)
THEOREM StandardPolicyAlwaysRepaired == PoliciesSpec => []StandardPolicyRepaired
<1>1. PolicyInv => StandardPolicyRepaired
  BY DEF PolicyInv, StandardPolicyRepaired
<1> QED BY <1>1, PolicyInvHolds, PTL

(***************************************************************************)
(* Package updates                                                         *)
(***************************************************************************)

Statuses == {"unsaved", "lost", "queued", "running", "succeeded", "failed", "reconcile_required"}
JobShape ==
  [mode : {"plan", "apply", "check"}, pol : Policies \cup {"none"}, pkgs : PackageLists \cup {{}}, plan : Nat,
   token : Operators \cup {NoOperator}, rule : Rules \cup {NoRule}, checked : 0 .. Day - 1, status : Statuses]
RequestShape ==
  [at : {"idle", "plan", "reused", "existing", "submit", "save"}, mode : {"none", "plan", "apply"},
   pol : Policies \cup {"none"}, pkgs : PackageLists \cup {{}}, plan : Nat, token : Operators \cup {NoOperator},
   rule : Rules \cup {NoRule}, checked : 0 .. Day - 1, id : Nat]
TickShape == [at : {"idle", "next", "submit", "save"}, todo : SUBSET Nat, update : Nat, id : Nat]

UpdatesTyped ==
  /\ rule \in [Policies -> Rules \cup {NoRule}] /\ ruleRow \in [Policies -> Rules \cup {NoRule}]
  /\ minute \in 0 .. Day - 1 /\ jobs \in Seq(JobShape)
  /\ asked \in [Operators -> RequestShape] /\ tick \in TickShape
  /\ known \subseteq Ids /\ together \subseteq Ids
  /\ \A j \in known : jobs[j].status # "lost"

(* A rule that a policy had permitted the packages at the minute checked. *)
Admitted(q) == q.rule \in Rules /\ InWindow(q.rule, q.checked) /\ AllowsPackages(q.rule, q.pkgs)
(* The coordinator's job j is the one request q is about to save. *)
MadeFor(j, q) ==
  /\ j \in Ids /\ jobs[j].status = "unsaved"
  /\ jobs[j].mode = q.mode /\ jobs[j].pol = q.pol /\ jobs[j].pkgs = q.pkgs /\ jobs[j].plan = q.plan
  /\ jobs[j].rule = q.rule /\ jobs[j].checked = q.checked

(* What a request being judged has established, and what of it lasts. *)
RequestSound(r) ==
  LET q == asked[r] IN
  /\ q.at # "idle" => q.mode \in {"plan", "apply"}
  /\ q.at \in {"plan", "reused"} => q.mode = "apply"
  /\ q.mode \in {"none", "plan"} => q.plan = 0
  /\ q.mode = "apply" => q.plan \in Ids /\ Admitted(q)
  /\ q.mode = "apply" /\ q.at \in {"reused", "existing", "submit", "save"} => PlanMatchesRequest(q.plan, q)
  /\ q.at = "save" => MadeFor(q.id, q)
SaversApart ==
  \A x, y \in Operators : asked[x].at = "save" /\ asked[y].at = "save" /\ asked[x].id = asked[y].id => x = y

(* An apply that succeeded, and one without an inventory. *)
Done(u) == u \in Rows /\ jobs[u].mode = "apply" /\ jobs[u].status = "succeeded"
NotFollowed(u) == \A j \in Rows : ~ (jobs[j].mode = "check" /\ jobs[j].plan = u)
(* The tick follows up applies that succeeded and have no inventory yet. *)
TickSound ==
  /\ \A u \in tick.todo : Done(u)
  /\ tick.at \in {"idle", "next"} => tick.update = 0
  /\ tick.at \in {"submit", "save"} => Done(tick.update) /\ NotFollowed(tick.update)
  /\ tick.at = "save" => /\ tick.id \in Ids /\ jobs[tick.id].status = "unsaved"
                         /\ jobs[tick.id].mode = "check" /\ jobs[tick.id].plan = tick.update

(* An apply row has what its request had; an inventory row its update. *)
RowSound(j) ==
  /\ jobs[j].mode = "apply" => PlanMatchesRequest(jobs[j].plan, jobs[j]) /\ Admitted(jobs[j])
  /\ jobs[j].mode = "check" =>
       /\ Done(jobs[j].plan)
       /\ \A k \in Rows : jobs[k].mode = "check" /\ jobs[k].plan = jobs[j].plan => k = j

(* Unless two requests passed together, a plan has one apply at most, made *)
(* or under way.                                                           *)
UsedOnce(p) ==
  /\ \A j, k \in Applies(p) : j = k
  /\ \A x, y \in Passed(p) : x = y
  /\ Applies(p) = {} \/ Passed(p) = {}

UpdatesInv ==
  /\ UpdatesTyped
  /\ \A r \in Operators : RequestSound(r)
  /\ SaversApart
  /\ TickSound
  /\ \A j \in Rows : RowSound(j)
  /\ \A p \in Ids \ together : UsedOnce(p)

(* What a step does to the jobs: none is forgotten or rewritten, a saved   *)
(* one stays saved and a success a success; those of new may be saved now, *)
(* no other.                                                               *)
JobsGrow(new) ==
  /\ jobs' \in Seq(JobShape) /\ Len(jobs) <= Len(jobs')
  /\ \A j \in Ids :
       /\ jobs'[j].mode = jobs[j].mode /\ jobs'[j].pol = jobs[j].pol /\ jobs'[j].pkgs = jobs[j].pkgs
       /\ jobs'[j].plan = jobs[j].plan /\ jobs'[j].rule = jobs[j].rule /\ jobs'[j].checked = jobs[j].checked
       /\ jobs[j].status = "succeeded" => jobs'[j].status = "succeeded"
       /\ Saved(j) => Saved(j)'
       /\ Saved(j)' => Saved(j) \/ j \in new
  /\ \A j \in Ids' \ Ids : ~ Saved(j)'
(* A job that waits to be saved still does. *)
StillUnsaved(j) == j \in Ids' /\ jobs'[j].status = "unsaved"

(* Of the rows only those of new are new, and what was known of them lasts. *)
LEMMA RowsLast ==
  ASSUME UpdatesInv, NEW new, JobsGrow(new)
  PROVE  /\ Ids \subseteq Ids' /\ Rows \subseteq Rows' /\ Rows' \subseteq Rows \cup new /\ Rows' \subseteq Ids
         /\ \A p, q : PlanMatchesRequest(p, q) =>
              /\ p \in Rows' /\ jobs'[p].mode = "plan" /\ jobs'[p].status = "succeeded"
              /\ jobs'[p].pkgs = q.pkgs /\ jobs'[p].pol = q.pol
         /\ \A u : Done(u) => u \in Rows' /\ jobs'[u].mode = "apply" /\ jobs'[u].status = "succeeded"
<1>0. Len(jobs) \in Nat /\ Len(jobs') \in Nat
  BY DEF UpdatesInv, UpdatesTyped, JobsGrow
<1>1. Ids \subseteq Ids'
  BY <1>0 DEF Ids, JobsGrow
<1>2. Rows \subseteq Rows' /\ Rows' \subseteq Rows \cup new /\ Rows' \subseteq Ids
  BY <1>1 DEF Rows, JobsGrow
<1>3. ASSUME NEW p, NEW q, PlanMatchesRequest(p, q)
      PROVE  /\ p \in Rows' /\ jobs'[p].mode = "plan" /\ jobs'[p].status = "succeeded"
             /\ jobs'[p].pkgs = q.pkgs /\ jobs'[p].pol = q.pol
  <2>1. p \in Ids /\ p \in Rows
    BY <1>3 DEF PlanMatchesRequest, Rows
  <2> QED BY <1>2, <1>3, <2>1 DEF PlanMatchesRequest, JobsGrow
<1>4. ASSUME NEW u, Done(u) PROVE u \in Rows' /\ jobs'[u].mode = "apply" /\ jobs'[u].status = "succeeded"
  <2>1. u \in Ids /\ u \in Rows
    BY <1>4 DEF Done, Rows
  <2> QED BY <1>2, <1>4, <2>1 DEF Done, JobsGrow
<1> QED BY <1>1, <1>2, <1>3, <1>4

(* A request that stays where it is. *)
LEMMA RequestStays ==
  ASSUME UpdatesInv, NEW new, JobsGrow(new), NEW r \in Operators, asked'[r] = asked[r],
         asked[r].at = "save" => StillUnsaved(asked[r].id)
  PROVE  RequestSound(r)'
<1> PICK q : q = asked[r]
  OBVIOUS
<1>1. /\ q.at # "idle" => q.mode \in {"plan", "apply"}
      /\ q.at \in {"plan", "reused"} => q.mode = "apply"
      /\ q.mode \in {"none", "plan"} => q.plan = 0
      /\ q.mode = "apply" => q.plan \in Ids /\ Admitted(q)
      /\ q.mode = "apply" /\ q.at \in {"reused", "existing", "submit", "save"} => PlanMatchesRequest(q.plan, q)
      /\ q.at = "save" => MadeFor(q.id, q)
  BY DEF UpdatesInv, RequestSound
<1>2. q.plan \in Ids => q.plan \in Ids'
  BY RowsLast
<1>3. PlanMatchesRequest(q.plan, q) => PlanMatchesRequest(q.plan, q)'
  <2>1. PlanMatchesRequest(q.plan, q) =>
          /\ q.plan \in Rows' /\ jobs'[q.plan].mode = "plan" /\ jobs'[q.plan].status = "succeeded"
          /\ jobs'[q.plan].pkgs = q.pkgs /\ jobs'[q.plan].pol = q.pol
    BY RowsLast
  <2> QED BY <2>1 DEF PlanMatchesRequest
<1>4. Admitted(q) => Admitted(q)'
  BY DEF Admitted, InWindow, AllowsPackages
<1>5. q.at = "save" => MadeFor(q.id, q)'
  <2> SUFFICES ASSUME q.at = "save" PROVE MadeFor(q.id, q)'
    OBVIOUS
  <2>1. MadeFor(q.id, q)
    BY <1>1
  <2>2. q.id \in Ids /\ StillUnsaved(q.id)
    BY <2>1 DEF MadeFor
  <2> QED BY <2>1, <2>2 DEF MadeFor, JobsGrow, StillUnsaved
<1>6. q = asked'[r]
  OBVIOUS
<1> QED BY <1>1, <1>2, <1>3, <1>4, <1>5, <1>6 DEF RequestSound

(* A row that may be saved now. *)
NewRowSound(j) ==
  /\ j \in Ids \ Rows
  /\ jobs[j].mode = "apply" => PlanMatchesRequest(jobs[j].plan, jobs[j]) /\ Admitted(jobs[j])
  /\ jobs[j].mode = "check" => Done(jobs[j].plan) /\ NotFollowed(jobs[j].plan)

(* The rows stay sound when the new one is. *)
LEMMA RowsStaySound ==
  ASSUME UpdatesInv, NEW new, JobsGrow(new),
         \A j \in new : NewRowSound(j) /\ \A k \in new : k = j
  PROVE  \A j \in Rows' : RowSound(j)'
<1> SUFFICES ASSUME NEW j \in Rows' PROVE RowSound(j)'
  OBVIOUS
<1>1. Rows' \subseteq Rows \cup new /\ Rows' \subseteq Ids /\ j \in Ids
  BY RowsLast
<1> PICK p : p = jobs[j].plan
  OBVIOUS
<1>2. /\ jobs[j].mode = "apply" => PlanMatchesRequest(p, jobs[j]) /\ Admitted(jobs[j])
      /\ jobs[j].mode = "check" => Done(p)
  <2>1. CASE j \in Rows
    BY <2>1 DEF UpdatesInv, RowSound
  <2>2. CASE j \in new
    BY <2>2 DEF NewRowSound
  <2> QED BY <1>1, <2>1, <2>2
<1>3. /\ jobs'[j].pol = jobs[j].pol /\ jobs'[j].pkgs = jobs[j].pkgs /\ jobs'[j].plan = p
      /\ jobs'[j].rule = jobs[j].rule /\ jobs'[j].checked = jobs[j].checked
      /\ \A i \in Rows' : jobs'[i].mode = jobs[i].mode /\ jobs'[i].plan = jobs[i].plan
  BY <1>1 DEF JobsGrow
<1>4. jobs[j].mode = "apply" =>
        /\ p \in Rows' /\ jobs'[p].mode = "plan" /\ jobs'[p].status = "succeeded"
        /\ jobs'[p].pkgs = jobs'[j].pkgs /\ jobs'[p].pol = jobs'[j].pol
  BY <1>2, <1>3, RowsLast
<1>5. jobs[j].mode = "check" => p \in Rows' /\ jobs'[p].mode = "apply" /\ jobs'[p].status = "succeeded"
  BY <1>2, RowsLast
<1>6. ASSUME jobs[j].mode = "check", NEW k \in Rows', jobs[k].mode = "check", jobs[k].plan = p
      PROVE  k = j
  <2>1. CASE j \in Rows /\ k \in Rows
    BY <1>6, <2>1 DEF UpdatesInv, RowSound
  <2>2. CASE j \in new /\ k \in new
    BY <2>2
  <2>3. CASE j \in Rows /\ k \in new
    BY <1>6, <2>3 DEF NotFollowed, NewRowSound
  <2>4. CASE j \in new /\ k \in Rows
    BY <1>6, <2>4 DEF NotFollowed, NewRowSound
  <2> QED BY <1>1, <2>1, <2>2, <2>3, <2>4
<1>7. jobs[j].mode = "apply" => Admitted(jobs[j])'
  <2>1. Admitted(jobs[j]) => Admitted(jobs[j])'
    BY <1>3 DEF Admitted, InWindow, AllowsPackages
  <2> QED BY <1>2, <2>1
<1>8. jobs[j].mode = "apply" => PlanMatchesRequest(jobs[j].plan, jobs[j])'
  BY <1>3, <1>4 DEF PlanMatchesRequest
<1>9. jobs[j].mode = "check" => Done(jobs[j].plan)'
  BY <1>3, <1>5 DEF Done
<1> QED BY <1>3, <1>6, <1>7, <1>8, <1>9 DEF RowSound

(* The tick that stays where it is. *)
LEMMA TickStays ==
  ASSUME UpdatesInv, NEW new, JobsGrow(new), tick' = tick,
         \A j \in new : j \in Ids => jobs[j].mode # "check",
         tick.at = "save" => StillUnsaved(tick.id)
  PROVE  TickSound'
<1>1. Rows' \subseteq Rows \cup new /\ Rows' \subseteq Ids
  BY RowsLast
<1>2. /\ \A u \in tick.todo : Done(u)
      /\ tick.at \in {"idle", "next"} => tick.update = 0
      /\ tick.at \in {"submit", "save"} => Done(tick.update) /\ NotFollowed(tick.update)
      /\ tick.at = "save" => /\ tick.id \in Ids /\ jobs[tick.id].status = "unsaved"
                             /\ jobs[tick.id].mode = "check" /\ jobs[tick.id].plan = tick.update
  BY DEF UpdatesInv, TickSound
<1>3. \A u : NotFollowed(u) => NotFollowed(u)'
  BY <1>1 DEF NotFollowed, JobsGrow
<1>4. \A u : Done(u) => Done(u)'
  BY RowsLast DEF Done
<1>5. tick.at = "save" => /\ tick.id \in Ids' /\ jobs'[tick.id].status = "unsaved"
                          /\ jobs'[tick.id].mode = "check" /\ jobs'[tick.id].plan = tick.update
  <2> SUFFICES ASSUME tick.at = "save"
               PROVE  /\ tick.id \in Ids' /\ jobs'[tick.id].status = "unsaved"
                      /\ jobs'[tick.id].mode = "check" /\ jobs'[tick.id].plan = tick.update
    OBVIOUS
  <2>1. jobs'[tick.id].mode = "check" /\ jobs'[tick.id].plan = tick.update
    BY <1>2 DEF JobsGrow
  <2> QED BY <2>1 DEF StillUnsaved
<1>6. tick.at \in {"submit", "save"} => Done(tick.update)' /\ NotFollowed(tick.update)'
  <2> PICK u : u = tick.update /\ u = tick'.update
    OBVIOUS
  <2>1. tick.at \in {"submit", "save"} => Done(u)' /\ NotFollowed(u)'
    BY <1>2, <1>3, <1>4
  <2> QED BY <2>1 DEF Done, NotFollowed
<1>7. \A u \in tick'.todo : Done(u)'
  BY <1>2, <1>4
<1> QED BY <1>2, <1>5, <1>6, <1>7 DEF TickSound

(* A step that saves no apply and lets no request pass. *)
LEMMA PlansStayUsedOnce ==
  ASSUME UpdatesInv, NEW new, JobsGrow(new), \A j \in new : j \in Ids => jobs[j].mode # "apply",
         together \subseteq together', \A p \in Ids \ together' : Passed(p)' \subseteq Passed(p),
         \A x \in Operators : asked'[x].plan \in Ids' => asked'[x].plan \in Ids
  PROVE  \A p \in Ids' \ together' : UsedOnce(p)'
<1> SUFFICES ASSUME NEW p \in Ids' \ together' PROVE UsedOnce(p)'
  OBVIOUS
<1>1. Rows \subseteq Rows' /\ Rows' \subseteq Rows \cup new /\ Rows' \subseteq Ids
  BY RowsLast
<1>2. CASE p \in Ids
  <2>1. Applies(p)' \subseteq Applies(p)
    BY <1>1 DEF Applies, JobsGrow
  <2>2. UsedOnce(p)
    BY <1>2 DEF UpdatesInv
  <2>3. Passed(p)' \subseteq Passed(p)
    BY <1>2
  <2> QED BY <2>1, <2>2, <2>3 DEF UsedOnce
<1>3. CASE p \notin Ids
  <2>1. Applies(p)' = {}
    <3> SUFFICES ASSUME NEW j \in Applies(p)' PROVE FALSE
      OBVIOUS
    <3>1. j \in Rows /\ jobs[j].mode = "apply" /\ jobs[j].plan = p
      BY <1>1 DEF Applies, JobsGrow
    <3>2. p \in Rows
      BY <3>1 DEF UpdatesInv, RowSound, PlanMatchesRequest
    <3> QED BY <1>3, <3>2 DEF Rows
  <2>2. Passed(p)' = {}
    BY <1>3 DEF Passed
  <2> QED BY <2>1, <2>2 DEF UsedOnce
<1> QED BY <1>2, <1>3

(***************************************************************************)
(* What the steps do to the jobs                                           *)
(***************************************************************************)

LEMMA JobsKept ==
  ASSUME UpdatesInv, jobs' = jobs
  PROVE  /\ JobsGrow({}) /\ Ids' = Ids /\ Rows' = Rows
         /\ \A j \in Ids : jobs[j].status = "unsaved" => StillUnsaved(j)
BY DEF UpdatesInv, UpdatesTyped, JobsGrow, Ids, Saved, StillUnsaved, Rows

(* A status is written, over any that is not a success. *)
LEMMA StatusWritten ==
  ASSUME UpdatesInv, NEW j \in Ids, NEW s \in Statuses \ {"unsaved", "lost"}, jobs[j].status # "succeeded",
         jobs' = [jobs EXCEPT ![j].status = s]
  PROVE  /\ JobsGrow(IF Saved(j) THEN {} ELSE {j}) /\ Ids' = Ids /\ jobs'[j].status = s
         /\ \A i \in Ids : i # j => jobs'[i] = jobs[i]
         /\ \A i \in Ids : i # j /\ jobs[i].status = "unsaved" => StillUnsaved(i)
<1>1. jobs \in Seq(JobShape) /\ jobs[j] \in JobShape
  BY DEF UpdatesInv, UpdatesTyped, Ids
<1> DEFINE n == [jobs[j] EXCEPT !.status = s]
<1>2. /\ n \in JobShape /\ n.mode = jobs[j].mode /\ n.pol = jobs[j].pol /\ n.pkgs = jobs[j].pkgs
      /\ n.plan = jobs[j].plan /\ n.rule = jobs[j].rule /\ n.checked = jobs[j].checked /\ n.status = s
  BY <1>1 DEF JobShape
<1>3. jobs' = [jobs EXCEPT ![j] = n]
  BY <1>1
<1> HIDE DEF n
<1>4. /\ jobs' \in Seq(JobShape) /\ Len(jobs') = Len(jobs) /\ jobs'[j] = n
      /\ \A i \in 1 .. Len(jobs) : i # j => jobs'[i] = jobs[i]
  BY <1>1, <1>2, <1>3 DEF Ids
<1>5. Ids' = Ids
  BY <1>4 DEF Ids
<1>6. \A i \in Ids : i # j => jobs'[i] = jobs[i]
  BY <1>4 DEF Ids
<1>7. Saved(j)'
  BY <1>2, <1>4 DEF Saved
<1>8. \A i \in Ids : i # j => (Saved(i)' <=> Saved(i))
  BY <1>6 DEF Saved
<1>9. JobsGrow(IF Saved(j) THEN {} ELSE {j})
  BY <1>1, <1>2, <1>4, <1>5, <1>6, <1>7, <1>8 DEF JobsGrow
<1> QED BY <1>2, <1>4, <1>5, <1>6, <1>9 DEF StillUnsaved

(* The coordinator makes a job. *)
LEMMA JobMade ==
  ASSUME UpdatesInv, NEW q, Made(q),
         q.mode \in {"plan", "apply", "check"}, q.pol \in Policies \cup {"none"}, q.pkgs \in PackageLists \cup {{}},
         q.plan \in Nat, q.token \in Operators \cup {NoOperator}, q.rule \in Rules \cup {NoRule},
         q.checked \in 0 .. Day - 1
  PROVE  /\ JobsGrow({}) /\ Ids' = Ids \cup {Len(jobs) + 1} /\ Len(jobs) + 1 \notin Ids /\ Rows' = Rows
         /\ \A j \in Ids : jobs'[j] = jobs[j]
         /\ \A j \in Ids : jobs[j].status = "unsaved" => StillUnsaved(j)
         /\ \A i, o : i = Len(jobs) + 1 /\ o = q => MadeFor(i, o)'
         /\ known' \subseteq Ids' /\ \A j \in known' : jobs'[j].status # "lost"
<1> DEFINE n == [mode |-> q.mode, pol |-> q.pol, pkgs |-> q.pkgs, plan |-> q.plan, token |-> q.token,
                 rule |-> q.rule, checked |-> q.checked, status |-> "unsaved"]
<1>0. jobs \in Seq(JobShape) /\ Len(jobs) \in Nat /\ known \subseteq Ids /\ \A j \in known : jobs[j].status # "lost"
  BY DEF UpdatesInv, UpdatesTyped
<1>1. n \in JobShape
  BY DEF JobShape, Statuses
<1>2. jobs' = Append(jobs, n) /\ known' = known \cup {Len(jobs) + 1}
  BY DEF Made
<1>3. /\ n.mode = q.mode /\ n.pol = q.pol /\ n.pkgs = q.pkgs /\ n.plan = q.plan
      /\ n.rule = q.rule /\ n.checked = q.checked /\ n.status = "unsaved"
  OBVIOUS
<1> HIDE DEF n
<1>4. /\ jobs' \in Seq(JobShape) /\ Len(jobs') = Len(jobs) + 1 /\ jobs'[Len(jobs) + 1] = n
      /\ \A j \in 1 .. Len(jobs) : jobs'[j] = jobs[j]
  BY <1>0, <1>1, <1>2
<1>5. Ids' = Ids \cup {Len(jobs) + 1} /\ Len(jobs) + 1 \notin Ids
  BY <1>0, <1>4 DEF Ids
<1>6. \A j \in Ids : jobs'[j] = jobs[j] /\ (Saved(j)' <=> Saved(j))
  BY <1>4 DEF Ids, Saved
<1>7. \A j \in Ids' \ Ids : ~ Saved(j)'
  BY <1>3, <1>4, <1>5 DEF Saved
<1>8. JobsGrow({}) /\ Rows' = Rows
  BY <1>0, <1>4, <1>5, <1>6, <1>7 DEF JobsGrow, Rows
<1>9. \A j \in Ids : jobs[j].status = "unsaved" => StillUnsaved(j)
  BY <1>5, <1>6 DEF StillUnsaved
<1>10. /\ Len(jobs) + 1 \in Ids' /\ jobs'[Len(jobs) + 1].status = "unsaved"
       /\ jobs'[Len(jobs) + 1].mode = q.mode /\ jobs'[Len(jobs) + 1].pol = q.pol
       /\ jobs'[Len(jobs) + 1].pkgs = q.pkgs /\ jobs'[Len(jobs) + 1].plan = q.plan
       /\ jobs'[Len(jobs) + 1].rule = q.rule /\ jobs'[Len(jobs) + 1].checked = q.checked
  BY <1>3, <1>4, <1>5
<1>11. \A i, o : i = Len(jobs) + 1 /\ o = q => MadeFor(i, o)'
  BY <1>10 DEF MadeFor
<1>12. known' \subseteq Ids' /\ \A j \in known' : jobs'[j].status # "lost"
  BY <1>0, <1>2, <1>5, <1>6, <1>10
<1> QED BY <1>5, <1>6, <1>8, <1>9, <1>11, <1>12

(***************************************************************************)
(* The steps                                                               *)
(***************************************************************************)

(* A step that no request and no tick takes, and that saves nothing. *)
LEMMA NobodyMoves ==
  ASSUME UpdatesInv, UpdatesTyped', JobsGrow({}), Ids' = Ids, asked' = asked, tick' = tick, together' = together,
         \A j \in Ids : jobs[j].status = "unsaved" => StillUnsaved(j)
  PROVE  UpdatesInv'
<1>1. \A r \in Operators : RequestSound(r)'
  <2> SUFFICES ASSUME NEW r \in Operators PROVE RequestSound(r)'
    OBVIOUS
  <2>1. asked[r].at = "save" => StillUnsaved(asked[r].id)
    BY DEF UpdatesInv, RequestSound, MadeFor
  <2> QED BY <2>1, RequestStays
<1>2. SaversApart'
  BY DEF UpdatesInv, SaversApart
<1>3. tick.at = "save" => StillUnsaved(tick.id)
  BY DEF UpdatesInv, TickSound
<1>4. TickSound'
  BY <1>3, TickStays
<1>5. \A j \in Rows' : RowSound(j)'
  BY RowsStaySound
<1>6. \A p \in Ids \ together' : Passed(p)' \subseteq Passed(p)
  BY DEF Passed
<1>7. \A p \in Ids' \ together' : UsedOnce(p)'
  BY <1>6, PlansStayUsedOnce
<1> QED BY <1>1, <1>2, <1>4, <1>5, <1>7 DEF UpdatesInv

(* A step of request r that saves nothing. *)
LEMMA RequestMoves ==
  ASSUME UpdatesInv, UpdatesTyped', JobsGrow({}), NEW r \in Operators, NEW q,
         asked' = [asked EXCEPT ![r] = q], tick' = tick,
         RequestSound(r)', q.at = "save" => q.id \notin Ids,
         \A j \in Ids : jobs[j].status = "unsaved" => StillUnsaved(j),
         \A p \in Ids' \ together' : UsedOnce(p)'
  PROVE  UpdatesInv'
<1>0. \A x \in Operators : asked'[x] = IF x = r THEN q ELSE asked[x]
  BY DEF UpdatesInv, UpdatesTyped
<1>1. \A x \in Operators : RequestSound(x)'
  <2> SUFFICES ASSUME NEW x \in Operators, x # r PROVE RequestSound(x)'
    OBVIOUS
  <2>1. asked[x].at = "save" => StillUnsaved(asked[x].id)
    BY DEF UpdatesInv, RequestSound, MadeFor
  <2> QED BY <1>0, <2>1, RequestStays
<1>2. SaversApart'
  <2>1. \A x \in Operators : asked[x].at = "save" => asked[x].id \in Ids
    BY DEF UpdatesInv, RequestSound, MadeFor
  <2> QED BY <1>0, <2>1 DEF UpdatesInv, SaversApart
<1>3. tick.at = "save" => StillUnsaved(tick.id)
  BY DEF UpdatesInv, TickSound
<1>4. TickSound'
  BY <1>3, TickStays
<1>5. \A j \in Rows' : RowSound(j)'
  BY RowsStaySound
<1> QED BY <1>1, <1>2, <1>4, <1>5 DEF UpdatesInv

(* A step of the tick that saves nothing. *)
LEMMA TickMoves ==
  ASSUME UpdatesInv, UpdatesTyped', JobsGrow({}), asked' = asked, together' = together, TickSound',
         \A x \in Operators : asked'[x].plan \in Ids' => asked'[x].plan \in Ids,
         \A j \in Ids : jobs[j].status = "unsaved" => StillUnsaved(j)
  PROVE  UpdatesInv'
<1>1. \A r \in Operators : RequestSound(r)'
  <2> SUFFICES ASSUME NEW r \in Operators PROVE RequestSound(r)'
    OBVIOUS
  <2>1. asked[r].at = "save" => StillUnsaved(asked[r].id)
    BY DEF UpdatesInv, RequestSound, MadeFor
  <2> QED BY <2>1, RequestStays
<1>2. SaversApart'
  BY DEF UpdatesInv, SaversApart
<1>5. \A j \in Rows' : RowSound(j)'
  BY RowsStaySound
<1>6. \A p \in Ids \ together' : Passed(p)' \subseteq Passed(p)
  BY DEF Passed
<1>7. \A p \in Ids' \ together' : UsedOnce(p)'
  BY <1>6, PlansStayUsedOnce
<1> QED BY <1>1, <1>2, <1>5, <1>7 DEF UpdatesInv

(* Policies come and go, and minutes pass. *)
LEMMA RulesAndClock ==
  ASSUME UpdatesInv,
         \/ \E p \in Policies : \/ \E r \in Rules : CreateUpdatePolicy(p, r)
                                \/ SaveUpdatePolicy(p) \/ DeleteUpdatePolicy(p) \/ ForgetUpdatePolicy(p)
         \/ MinutePasses
         \/ UNCHANGED updateVars
  PROVE  UpdatesInv'
<1>0. UpdatesTyped
  BY DEF UpdatesInv
<1>1. UNCHANGED <<jobs, known, asked, tick, together>>
  BY DEF CreateUpdatePolicy, SaveUpdatePolicy, DeleteUpdatePolicy, ForgetUpdatePolicy, MinutePasses, updateVars
<1>2. rule' \in [Policies -> Rules \cup {NoRule}] /\ ruleRow' \in [Policies -> Rules \cup {NoRule}]
  BY <1>0 DEF UpdatesTyped, CreateUpdatePolicy, SaveUpdatePolicy, DeleteUpdatePolicy, ForgetUpdatePolicy,
     MinutePasses, updateVars, ruleVars
<1>3. minute' \in 0 .. Day - 1
  <2>1. CASE MinutePasses
    BY <1>0, <2>1, RulesAssumption DEF UpdatesTyped, MinutePasses
  <2> QED BY <1>0, <2>1 DEF UpdatesTyped, CreateUpdatePolicy, SaveUpdatePolicy, DeleteUpdatePolicy,
             ForgetUpdatePolicy, updateVars
<1>4. UpdatesTyped'
  BY <1>0, <1>1, <1>2, <1>3 DEF UpdatesTyped, Ids
<1> QED BY <1>1, <1>4, JobsKept, NobodyMoves

(* The worker claims a job and ends it, and a failed one is tried again. *)
LEMMA WorkerMoves ==
  ASSUME UpdatesInv, NEW j \in Ids, ClaimUpdate(j) \/ EndUpdate(j) \/ RetryUpdate(j)
  PROVE  UpdatesInv'
<1>0. UpdatesTyped
  BY DEF UpdatesInv
<1>1. PICK s \in Statuses \ {"unsaved", "lost"} :
        /\ jobs' = [jobs EXCEPT ![j].status = s]
        /\ jobs[j].status \in {"queued", "running", "reconcile_required", "failed"}
  BY DEF ClaimUpdate, EndUpdate, RetryUpdate, Statuses
<1>2. UNCHANGED <<rule, ruleRow, minute, known, asked, tick, together>>
  BY DEF ClaimUpdate, EndUpdate, RetryUpdate, ruleVars
<1>3. Saved(j) /\ jobs[j].status # "succeeded" /\ jobs[j].status # "unsaved"
  BY <1>1 DEF Saved
<1>4. /\ JobsGrow({}) /\ Ids' = Ids /\ jobs'[j].status = s /\ \A i \in Ids : i # j => jobs'[i] = jobs[i]
      /\ \A i \in Ids : jobs[i].status = "unsaved" => StillUnsaved(i)
  BY <1>1, <1>3, StatusWritten
<1>5. \A i \in known : jobs'[i].status # "lost"
  BY <1>0, <1>4 DEF UpdatesTyped
<1>6. UpdatesTyped'
  BY <1>0, <1>2, <1>4, <1>5 DEF UpdatesTyped, JobsGrow
<1> QED BY <1>2, <1>4, <1>6, NobodyMoves

LEMMA NoRequestShape ==
  NoRequest \in RequestShape /\ NoTick \in TickShape
BY RulesAssumption DEF NoRequest, RequestShape, NoTick, TickShape

(* A request that is refused or answered. *)
LEMMA RequestEnds ==
  ASSUME UpdatesInv, NEW r \in Operators, Refuse(r), jobs' = jobs, UNCHANGED <<rule, ruleRow, minute, known, tick, together>>
  PROVE  UpdatesInv'
<1>0. UpdatesTyped
  BY DEF UpdatesInv
<1>1. asked' = [asked EXCEPT ![r] = NoRequest] /\ \A x \in Operators : asked'[x] = IF x = r THEN NoRequest ELSE asked[x]
  BY <1>0 DEF Refuse, UpdatesTyped
<1>2. UpdatesTyped'
  BY <1>0, <1>1, NoRequestShape DEF UpdatesTyped, Ids
<1>3. /\ NoRequest.at = "idle" /\ NoRequest.mode = "none" /\ NoRequest.plan = 0
  BY DEF NoRequest
<1>4. RequestSound(r)'
  BY <1>1, <1>3 DEF RequestSound
<1>5. \A p \in Ids \ together' : Passed(p)' \subseteq Passed(p)
  BY <1>1, <1>3 DEF Passed
<1>6. /\ JobsGrow({}) /\ Ids' = Ids /\ \A j \in Ids : jobs[j].status = "unsaved" => StillUnsaved(j)
  BY JobsKept
<1>7. \A p \in Ids' \ together' : UsedOnce(p)'
  BY <1>5, <1>6, PlansStayUsedOnce
<1> QED BY <1>1, <1>2, <1>3, <1>4, <1>6, <1>7, RequestMoves

(* A request that starts to be judged. *)
LEMMA ValidatePackageUpdateSound ==
  ASSUME UpdatesInv, NEW r \in Operators, NEW mode \in {"plan", "apply"}, NEW p \in Policies,
         NEW pkgs \in PackageLists, NEW plan \in 0 .. Len(jobs), ValidatePackageUpdate(r, mode, p, pkgs, plan)
  PROVE  UpdatesInv'
<1>0. UpdatesTyped /\ plan \in Nat
  BY DEF UpdatesInv, UpdatesTyped
<1>1. rule[p] \in Rules /\ rule[p] # NoRule /\ AllowsPackages(rule[p], pkgs)
  BY <1>0 DEF UpdatesTyped, ValidatePackageUpdate
<1>2. PICK q \in RequestShape :
        /\ asked' = [asked EXCEPT ![r] = q]
        /\ q.mode = mode /\ q.pol = p /\ q.pkgs = pkgs
        /\ \/ mode = "plan" /\ q.at = "existing" /\ q.plan = 0
           \/ /\ mode = "apply" /\ q.at = "plan" /\ q.plan \in Ids /\ q.rule = rule[p] /\ q.checked = minute
              /\ InWindow(rule[p], minute)
  <2> DEFINE b == [NoRequest EXCEPT !.mode = mode, !.pol = p, !.pkgs = pkgs, !.token = r]
             e == [b EXCEPT !.at = "existing"]
             a == [b EXCEPT !.at = "plan", !.plan = plan, !.rule = rule[p], !.checked = minute]
  <2>1. /\ b \in RequestShape /\ b.mode = mode /\ b.pol = p /\ b.pkgs = pkgs /\ b.plan = 0
    BY NoRequestShape DEF RequestShape, NoRequest
  <2>2. \/ mode = "plan" /\ asked' = [asked EXCEPT ![r] = e]
        \/ mode = "apply" /\ plan \in Ids /\ InWindow(rule[p], minute) /\ asked' = [asked EXCEPT ![r] = a]
    BY DEF ValidatePackageUpdate
  <2> HIDE DEF b
  <2>3. e \in RequestShape /\ e.at = "existing" /\ e.mode = mode /\ e.pol = p /\ e.pkgs = pkgs /\ e.plan = 0
    BY <2>1 DEF RequestShape
  <2>4. /\ a \in RequestShape /\ a.at = "plan" /\ a.mode = mode /\ a.pol = p /\ a.pkgs = pkgs /\ a.plan = plan
        /\ a.rule = rule[p] /\ a.checked = minute
    BY <1>0, <1>1, <2>1 DEF RequestShape, UpdatesTyped
  <2> HIDE DEF e, a
  <2> QED BY <2>2, <2>3, <2>4
<1>3. UNCHANGED <<rule, ruleRow, minute, jobs, known, tick, together>> /\ asked[r] = NoRequest
  BY DEF ValidatePackageUpdate, ruleVars
<1>4. \A x \in Operators : asked'[x] = IF x = r THEN q ELSE asked[x]
  BY <1>0, <1>2 DEF UpdatesTyped
<1>5. UpdatesTyped'
  BY <1>0, <1>2, <1>3 DEF UpdatesTyped, Ids
<1>6. /\ JobsGrow({}) /\ Ids' = Ids /\ \A j \in Ids : jobs[j].status = "unsaved" => StillUnsaved(j)
  BY <1>3, JobsKept
<1>7. RequestSound(r)'
  <2>1. mode = "apply" => Admitted(q)
    BY <1>1, <1>2 DEF Admitted
  <2>2. Admitted(q) => Admitted(q)'
    BY DEF Admitted, InWindow, AllowsPackages
  <2>3. asked'[r] = q
    BY <1>4
  <2> QED BY <1>2, <1>6, <2>1, <2>2, <2>3 DEF RequestSound
<1>8. \A i \in Ids \ together' : Passed(i)' \subseteq Passed(i)
  <2>1. 0 \notin Ids
    BY DEF Ids
  <2> QED BY <1>2, <1>4, <2>1 DEF Passed
<1>9. \A i \in Ids' \ together' : UsedOnce(i)'
  BY <1>3, <1>6, <1>8, PlansStayUsedOnce
<1> QED BY <1>2, <1>3, <1>5, <1>6, <1>7, <1>9, RequestMoves

(* The next step of a request, with what it has found out. *)
LEMMA RequestReaches ==
  ASSUME UpdatesInv, NEW r \in Operators, NEW at \in {"reused", "existing", "submit"}, Reaches(r, at)
  PROVE  \E q \in RequestShape :
           /\ asked' = [asked EXCEPT ![r] = q] /\ \A x \in Operators : asked'[x] = IF x = r THEN q ELSE asked[x]
           /\ q.at = at /\ q.mode = asked[r].mode /\ q.pol = asked[r].pol /\ q.pkgs = asked[r].pkgs
           /\ q.plan = asked[r].plan /\ q.rule = asked[r].rule /\ q.checked = asked[r].checked
<1>0. asked \in [Operators -> RequestShape]
  BY DEF UpdatesInv, UpdatesTyped
<1> DEFINE q == [asked[r] EXCEPT !.at = at]
<1>1. /\ q \in RequestShape /\ q.at = at /\ q.mode = asked[r].mode /\ q.pol = asked[r].pol
      /\ q.pkgs = asked[r].pkgs /\ q.plan = asked[r].plan /\ q.rule = asked[r].rule /\ q.checked = asked[r].checked
  BY <1>0 DEF RequestShape
<1>2. asked' = [asked EXCEPT ![r] = q]
  BY <1>0 DEF Reaches
<1> HIDE DEF q
<1>3. \A x \in Operators : asked'[x] = IF x = r THEN q ELSE asked[x]
  BY <1>0, <1>2
<1> QED BY <1>1, <1>2, <1>3

(* A request that goes on, on a plan that was looked at. *)
LEMMA RequestGoesOn ==
  ASSUME UpdatesInv, NEW r \in Operators, NEW at \in {"reused", "existing", "submit"}, Reaches(r, at),
         UNCHANGED <<rule, ruleRow, minute, jobs, known, tick>>, together' \subseteq Ids,
         asked[r].at \in {"plan", "reused", "existing"},
         asked[r].mode = "apply" => PlanMatchesRequest(asked[r].plan, asked[r]),
         at = "reused" => asked[r].mode = "apply",
         \A p \in Ids' \ together' : UsedOnce(p)'
  PROVE  UpdatesInv'
<1>0. UpdatesTyped /\ RequestSound(r)
  BY DEF UpdatesInv
<1>1. PICK q \in RequestShape :
           /\ asked' = [asked EXCEPT ![r] = q] /\ \A x \in Operators : asked'[x] = IF x = r THEN q ELSE asked[x]
           /\ q.at = at /\ q.mode = asked[r].mode /\ q.pol = asked[r].pol /\ q.pkgs = asked[r].pkgs
           /\ q.plan = asked[r].plan /\ q.rule = asked[r].rule /\ q.checked = asked[r].checked
  BY RequestReaches
<1>2. /\ JobsGrow({}) /\ Ids' = Ids /\ Rows' = Rows
      /\ \A j \in Ids : jobs[j].status = "unsaved" => StillUnsaved(j)
  BY JobsKept
<1>3. UpdatesTyped'
  BY <1>0, <1>1, <1>2 DEF UpdatesTyped
<1>4. q.mode = "apply" => Admitted(q)'
  <2>1. q.mode = "apply" => Admitted(asked[r])
    BY <1>0, <1>1 DEF RequestSound
  <2> QED BY <1>1, <2>1 DEF Admitted, InWindow, AllowsPackages
<1>5. q.mode = "apply" => PlanMatchesRequest(q.plan, q)'
  BY <1>1, <1>2 DEF PlanMatchesRequest
<1>6. q = asked'[r]
  BY <1>1
<1>7. q.mode \in {"plan", "apply"} /\ (q.mode = "plan" => q.plan = 0) /\ (q.mode = "apply" => q.plan \in Ids')
  BY <1>0, <1>1, <1>2 DEF RequestSound
<1>8. RequestSound(r)'
  BY <1>1, <1>4, <1>5, <1>6, <1>7 DEF RequestSound
<1> QED BY <1>1, <1>2, <1>3, <1>8, RequestMoves

(* No request passes reject_reused_plan in a step that leaves together be. *)
LEMMA NobodyPasses ==
  ASSUME UpdatesInv, NEW r \in Operators, NEW at \in {"reused", "existing", "submit"}, Reaches(r, at),
         jobs' = jobs, together' = together, at = "reused" \/ asked[r].at = "existing"
  PROVE  \A p \in Ids' \ together' : UsedOnce(p)'
<1>1. PICK q \in RequestShape :
           /\ \A x \in Operators : asked'[x] = IF x = r THEN q ELSE asked[x]
           /\ q.at = at /\ q.plan = asked[r].plan
  BY RequestReaches
<1>2. JobsGrow({}) /\ Ids' = Ids
  BY JobsKept
<1>3. \A p \in Ids \ together' : Passed(p)' \subseteq Passed(p)
  BY <1>1 DEF Passed
<1> QED BY <1>2, <1>3, PlansStayUsedOnce

LEMMA LoadPackagePlanSound ==
  ASSUME UpdatesInv, NEW r \in Operators, LoadPackagePlan(r) PROVE UpdatesInv'
<1>1. UNCHANGED <<rule, ruleRow, minute, jobs, known, tick, together>> /\ asked[r].at = "plan"
  BY DEF LoadPackagePlan, ruleVars
<1>2. asked[r].mode = "apply" /\ together' \subseteq Ids
  BY <1>1 DEF UpdatesInv, RequestSound, UpdatesTyped
<1>3. CASE PlanMatchesRequest(asked[r].plan, asked[r])
  <2>1. Reaches(r, "reused")
    BY <1>3 DEF LoadPackagePlan
  <2>2. \A p \in Ids' \ together' : UsedOnce(p)'
    BY <1>1, <2>1, NobodyPasses
  <2> QED BY <1>1, <1>2, <1>3, <2>1, <2>2, RequestGoesOn
<1>4. CASE ~ PlanMatchesRequest(asked[r].plan, asked[r])
  BY <1>1, <1>4, RequestEnds DEF LoadPackagePlan
<1> QED BY <1>3, <1>4

(* The one that passes is the first for its plan, or the plan is one that  *)
(* two requests are past the check for.                                    *)
LEMMA RejectReusedPlanSound ==
  ASSUME UpdatesInv, NEW r \in Operators, RejectReusedPlan(r) PROVE UpdatesInv'
<1>1. UNCHANGED <<rule, ruleRow, minute, jobs, known, tick>> /\ asked[r].at = "reused"
  BY DEF RejectReusedPlan, ruleVars
<1>2. /\ asked[r].mode = "apply" /\ PlanMatchesRequest(asked[r].plan, asked[r])
      /\ asked[r].plan \in Ids /\ together \subseteq Ids
  BY <1>1 DEF UpdatesInv, RequestSound, UpdatesTyped
<1>3. CASE Applies(asked[r].plan) # {}
  BY <1>1, <1>3, RequestEnds DEF RejectReusedPlan
<1>4. CASE Applies(asked[r].plan) = {}
  <2>1. /\ Reaches(r, "existing")
        /\ together' = IF Passed(asked[r].plan) = {} THEN together ELSE together \cup {asked[r].plan}
    BY <1>4 DEF RejectReusedPlan
  <2>2. PICK q \in RequestShape :
           /\ \A x \in Operators : asked'[x] = IF x = r THEN q ELSE asked[x]
           /\ q.at = "existing" /\ q.plan = asked[r].plan
    BY <2>1, RequestReaches
  <2>3. Ids' = Ids /\ Rows' = Rows
    BY <1>1, JobsKept
  <2>4. \A p : Applies(p)' = Applies(p)
    BY <1>1, <2>3 DEF Applies
  <2>5. \A p : p # asked[r].plan => Passed(p)' = Passed(p)
    BY <1>1, <2>2 DEF Passed
  <2>6. Passed(asked[r].plan) = {} => \A x, y \in Operators :
          (/\ asked'[x].plan = asked[r].plan /\ asked'[x].at \in {"existing", "submit", "save"}
           /\ asked'[y].plan = asked[r].plan /\ asked'[y].at \in {"existing", "submit", "save"}) => x = y
    BY <1>1, <2>2 DEF Passed
  <2>7. ASSUME NEW p \in Ids' \ together' PROVE UsedOnce(p)'
    <3>1. UsedOnce(p)
      BY <2>1, <2>3, <2>7 DEF UpdatesInv
    <3>2. CASE p # asked[r].plan
      BY <2>4, <2>5, <3>1, <3>2 DEF UsedOnce
    <3>3. CASE p = asked[r].plan
      <4>1. Applies(p)' = {} /\ Passed(asked[r].plan) = {}
        BY <1>4, <2>1, <2>4, <2>7, <3>3
      <4>2. \A x, y \in Passed(p)' : x = y
        BY <2>6, <3>3, <4>1 DEF Passed
      <4> QED BY <4>1, <4>2 DEF UsedOnce
    <3> QED BY <3>2, <3>3
  <2>8. together' \subseteq Ids
    BY <1>2, <2>1
  <2> QED BY <1>1, <1>2, <2>1, <2>7, <2>8, RequestGoesOn
<1> QED BY <1>3, <1>4

LEMMA FindExistingJobSound ==
  ASSUME UpdatesInv, NEW r \in Operators, FindExistingJob(r) PROVE UpdatesInv'
<1>1. UNCHANGED <<rule, ruleRow, minute, jobs, known, tick, together>> /\ asked[r].at = "existing"
  BY DEF FindExistingJob, ruleVars
<1>2. Refuse(r) \/ Reaches(r, "submit")
  BY DEF FindExistingJob
<1>3. CASE Refuse(r)
  BY <1>1, <1>3, RequestEnds
<1>4. CASE Reaches(r, "submit")
  <2>1. \A p \in Ids' \ together' : UsedOnce(p)'
    BY <1>1, <1>4, NobodyPasses
  <2>2. (asked[r].mode = "apply" => PlanMatchesRequest(asked[r].plan, asked[r])) /\ together \subseteq Ids
    BY <1>1 DEF UpdatesInv, RequestSound, UpdatesTyped
  <2> QED BY <1>1, <1>4, <2>1, <2>2, RequestGoesOn
<1> QED BY <1>2, <1>3, <1>4

(* The coordinator's job is made for the request that goes on to save it. *)
LEMMA SubmitUpdateSound ==
  ASSUME UpdatesInv, NEW r \in Operators, SubmitUpdate(r) PROVE UpdatesInv'
<1>1. UNCHANGED <<rule, ruleRow, minute, tick, together>> /\ asked[r].at = "submit"
  BY DEF SubmitUpdate, ruleVars
<1>2. CASE Duplicate(asked[r])
  BY <1>1, <1>2, RequestEnds DEF SubmitUpdate
<1>3. CASE ~ Duplicate(asked[r])
  <2>0. UpdatesTyped /\ asked \in [Operators -> RequestShape] /\ Len(jobs) \in Nat /\ RequestSound(r)
    BY DEF UpdatesInv, UpdatesTyped
  <2>1. Made(asked[r])
    BY <1>3 DEF SubmitUpdate
  <2>2. PICK q \in RequestShape :
          /\ asked' = [asked EXCEPT ![r] = q]
          /\ q.at = "save" /\ q.id = Len(jobs) + 1 /\ q.mode = asked[r].mode /\ q.pol = asked[r].pol
          /\ q.pkgs = asked[r].pkgs /\ q.plan = asked[r].plan /\ q.rule = asked[r].rule /\ q.checked = asked[r].checked
    <3> PICK n \in Nat : n = Len(jobs) + 1
      BY <2>0
    <3> DEFINE q == [asked[r] EXCEPT !.at = "save", !.id = n]
    <3>1. asked' = [asked EXCEPT ![r] = q]
      BY <1>3, <2>0 DEF SubmitUpdate
    <3>2. /\ q \in RequestShape /\ q.at = "save" /\ q.id = n /\ q.mode = asked[r].mode /\ q.pol = asked[r].pol
          /\ q.pkgs = asked[r].pkgs /\ q.plan = asked[r].plan /\ q.rule = asked[r].rule /\ q.checked = asked[r].checked
      BY <2>0 DEF RequestShape
    <3> HIDE DEF q
    <3> QED BY <3>1, <3>2
  <2>3. /\ asked[r].mode \in {"plan", "apply"} /\ (asked[r].mode = "plan" => asked[r].plan = 0)
        /\ asked[r].mode = "apply" => /\ asked[r].plan \in Ids /\ Admitted(asked[r])
                                      /\ PlanMatchesRequest(asked[r].plan, asked[r])
    BY <1>1, <2>0 DEF RequestSound
  <2>4. /\ JobsGrow({}) /\ Ids' = Ids \cup {Len(jobs) + 1} /\ Len(jobs) + 1 \notin Ids /\ Rows' = Rows
        /\ \A j \in Ids : jobs'[j] = jobs[j]
        /\ \A j \in Ids : jobs[j].status = "unsaved" => StillUnsaved(j)
        /\ \A i, o : i = Len(jobs) + 1 /\ o = asked[r] => MadeFor(i, o)'
        /\ known' \subseteq Ids' /\ \A j \in known' : jobs'[j].status # "lost"
    <3>1. asked[r] \in RequestShape
      BY <2>0
    <3>2. /\ asked[r].mode \in {"plan", "apply", "check"} /\ asked[r].pol \in Policies \cup {"none"}
          /\ asked[r].pkgs \in PackageLists \cup {{}} /\ asked[r].plan \in Nat
          /\ asked[r].token \in Operators \cup {NoOperator} /\ asked[r].rule \in Rules \cup {NoRule}
          /\ asked[r].checked \in 0 .. Day - 1
      BY <2>3, <3>1 DEF RequestShape
    <3>3. PICK o : o = asked[r]
      OBVIOUS
    <3> QED BY <2>1, <3>2, <3>3, JobMade
  <2>5. UpdatesTyped'
    BY <1>1, <2>0, <2>1, <2>2, <2>4 DEF UpdatesTyped, JobsGrow
  <2>6. asked'[r] = q /\ \A x \in Operators : asked'[x] = IF x = r THEN q ELSE asked[x]
    BY <2>0, <2>2
  <2>7. MadeFor(q.id, q)'
    <3>1. \A i, o : i = Len(jobs) + 1 /\ o = asked[r] => MadeFor(i, o)'
      BY <2>4
    <3> QED BY <2>2, <3>1 DEF MadeFor
  <2>8. q.mode = "apply" => Admitted(q)' /\ PlanMatchesRequest(q.plan, q)' /\ q.plan \in Ids'
    <3>1. q.mode = "apply" => Admitted(q)'
      BY <2>2, <2>3 DEF Admitted, InWindow, AllowsPackages
    <3>2. q.mode = "apply" => PlanMatchesRequest(q.plan, q)'
      BY <2>2, <2>3, <2>4 DEF PlanMatchesRequest
    <3> QED BY <2>2, <2>3, <2>4, <3>1, <3>2
  <2>9. RequestSound(r)'
    BY <2>2, <2>3, <2>6, <2>7, <2>8 DEF RequestSound
  <2>10. \A p \in Ids \ together' : Passed(p)' \subseteq Passed(p)
    BY <1>1, <2>2, <2>6 DEF Passed
  <2>11. \A x \in Operators : asked'[x].plan \in Ids' => asked'[x].plan \in Ids
    <3>1. \A x \in Operators : asked'[x].plan = asked[x].plan
      BY <2>2, <2>6
    <3>2. \A x \in Operators : asked[x].plan \in Ids \/ asked[x].plan = 0
      <4>1. \A x \in Operators : RequestSound(x) /\ asked[x].mode \in {"none", "plan", "apply"}
        BY <2>0 DEF UpdatesInv, RequestShape
      <4> QED BY <4>1 DEF RequestSound
    <3>3. 0 \notin Ids'
      BY DEF Ids
    <3> QED BY <3>1, <3>2, <3>3
  <2>12. \A p \in Ids' \ together' : UsedOnce(p)'
    BY <1>1, <2>4, <2>10, <2>11, PlansStayUsedOnce
  <2> QED BY <1>1, <2>1, <2>2, <2>4, <2>5, <2>9, <2>12, RequestMoves
<1> QED BY <1>2, <1>3

(* The INSERT: the plan the request looked at has succeeded for good, and  *)
(* unless another request is past the check the apply is its first.        *)
LEMMA SaveUpdateSound ==
  ASSUME UpdatesInv, NEW r \in Operators, SaveUpdate(r) PROVE UpdatesInv'
<1>1. UNCHANGED <<rule, ruleRow, minute, known, tick, together>> /\ asked[r].at = "save" /\ Refuse(r)
  BY DEF SaveUpdate, ruleVars
<1>2. CASE jobs' = jobs
  BY <1>1, <1>2, RequestEnds
<1>3. CASE jobs' = [jobs EXCEPT ![asked[r].id].status = "queued"]
  <2> PICK i, q : i = asked[r].id /\ q = asked[r]
    OBVIOUS
  <2>0. UpdatesTyped /\ RequestSound(r)
    BY DEF UpdatesInv
  <2>1. /\ MadeFor(i, q) /\ q.mode \in {"plan", "apply"} /\ (q.mode = "plan" => q.plan = 0)
        /\ q.mode = "apply" => q.plan \in Ids /\ Admitted(q) /\ PlanMatchesRequest(q.plan, q)
    BY <1>1, <2>0 DEF RequestSound
  <2>2. /\ i \in Ids /\ ~ Saved(i) /\ jobs[i].status = "unsaved" /\ jobs[i].mode = q.mode
        /\ jobs[i].plan = q.plan /\ jobs[i].pkgs = q.pkgs /\ jobs[i].pol = q.pol
        /\ jobs[i].rule = q.rule /\ jobs[i].checked = q.checked
    BY <2>1 DEF MadeFor, Saved
  <2>3. /\ JobsGrow({i}) /\ Ids' = Ids /\ jobs'[i].status = "queued"
        /\ \A j \in Ids : j # i => jobs'[j] = jobs[j]
        /\ \A j \in Ids : j # i /\ jobs[j].status = "unsaved" => StillUnsaved(j)
    BY <1>3, <2>2, StatusWritten DEF Statuses
  <2>4. \A x \in Operators : asked'[x] = IF x = r THEN NoRequest ELSE asked[x]
    BY <1>1, <2>0 DEF Refuse, UpdatesTyped
  <2>5. NoRequest.at = "idle" /\ NoRequest.mode = "none" /\ NoRequest.plan = 0
    BY DEF NoRequest
  <2>6. UpdatesTyped'
    <3>1. asked' \in [Operators -> RequestShape]
      BY <1>1, <2>0, NoRequestShape DEF Refuse, UpdatesTyped
    <3>2. \A j \in known : jobs'[j].status # "lost"
      BY <2>0, <2>3 DEF UpdatesTyped
    <3> QED BY <1>1, <2>0, <2>3, <3>1, <3>2 DEF UpdatesTyped, JobsGrow
  <2>7. ASSUME NEW x \in Operators PROVE RequestSound(x)'
    <3>1. CASE x = r
      BY <2>4, <2>5, <3>1 DEF RequestSound
    <3>2. CASE x # r
      <4>1. asked[x].at = "save" => asked[x].id # i /\ asked[x].id \in Ids /\ jobs[asked[x].id].status = "unsaved"
        BY <1>1, <3>2 DEF UpdatesInv, SaversApart, RequestSound, MadeFor
      <4> QED BY <2>3, <2>4, <3>2, <4>1, RequestStays
    <3> QED BY <3>1, <3>2
  <2>8. SaversApart'
    BY <2>4, <2>5 DEF UpdatesInv, SaversApart
  <2>9. TickSound'
    <3>1. tick.at = "save" => tick.id # i /\ tick.id \in Ids /\ jobs[tick.id].status = "unsaved"
      BY <2>1, <2>2 DEF UpdatesInv, TickSound
    <3> QED BY <1>1, <2>1, <2>2, <2>3, <3>1, TickStays
  <2>10. NewRowSound(i)
    <3>1. q.mode = "apply" => PlanMatchesRequest(jobs[i].plan, jobs[i])
      BY <2>1, <2>2 DEF PlanMatchesRequest
    <3>2. q.mode = "apply" => Admitted(jobs[i])
      BY <2>1, <2>2 DEF Admitted
    <3> QED BY <2>1, <2>2, <3>1, <3>2 DEF NewRowSound, Rows
  <2>11. \A j \in Rows' : RowSound(j)'
    BY <2>3, <2>10, RowsStaySound
  <2>12. ASSUME NEW p \in Ids' \ together' PROVE UsedOnce(p)'
    <3>1. UsedOnce(p) /\ p \in Ids
      BY <1>1, <2>3, <2>12 DEF UpdatesInv
    <3>2. Passed(p)' = Passed(p) \ {r}
      BY <2>4, <2>5 DEF Passed
    <3>3. Rows' \subseteq Rows \cup {i} /\ Rows' \subseteq Ids
      BY <2>3, RowsLast
    <3>4. CASE q.mode = "apply" /\ q.plan = p
      <4>1. r \in Passed(p)
        BY <1>1, <3>4 DEF Passed
      <4>2. Passed(p) \subseteq {r} /\ Applies(p) = {}
        BY <3>1, <4>1 DEF UsedOnce
      <4>3. Applies(p)' \subseteq Applies(p) \cup {i}
        BY <2>3, <3>3 DEF Applies
      <4> QED BY <3>2, <4>2, <4>3 DEF UsedOnce
    <3>5. CASE ~ (q.mode = "apply" /\ q.plan = p)
      <4>1. Applies(p)' \subseteq Applies(p)
        BY <2>2, <2>3, <3>3, <3>5 DEF Applies, JobsGrow
      <4> QED BY <3>1, <3>2, <4>1 DEF UsedOnce
    <3> QED BY <3>4, <3>5
  <2> QED BY <2>6, <2>7, <2>8, <2>9, <2>11, <2>12 DEF UpdatesInv
<1> QED BY <1>2, <1>3 DEF SaveUpdate

(* The tick lists applies that succeeded, and looks for the inventory of   *)
(* each.                                                                   *)
LEMMA TickLooks ==
  ASSUME UpdatesInv, TickListsUpdates \/ FindFollowUp PROVE UpdatesInv'
<1>1. UNCHANGED <<rule, ruleRow, minute, jobs, known, asked, together>>
  BY DEF TickListsUpdates, FindFollowUp, ruleVars
<1>2. /\ JobsGrow({}) /\ Ids' = Ids /\ Rows' = Rows
      /\ \A j \in Ids : jobs[j].status = "unsaved" => StillUnsaved(j)
  BY <1>1, JobsKept
<1>0. UpdatesTyped /\ TickSound /\ tick \in TickShape /\ Ids \subseteq Nat
  BY DEF UpdatesInv, UpdatesTyped, Ids
<1>3. \A u : (Done(u) => Done(u)' /\ u \in Nat) /\ (NotFollowed(u) => NotFollowed(u)')
  BY <1>0, <1>1, <1>2 DEF Done, NotFollowed, Rows
<1>4. PICK t \in TickShape : /\ tick' = t /\ \A u \in t.todo : Done(u)
                             /\ t.at \in {"idle", "next"} => t.update = 0
                             /\ t.at = "submit" => Done(t.update) /\ NotFollowed(t.update)
                             /\ t.at # "save"
  <2>1. CASE TickListsUpdates
    <3> DEFINE done == {j \in Rows : jobs[j].mode = "apply" /\ jobs[j].status = "succeeded"}
    <3>1. tick' = [NoTick EXCEPT !.at = "next", !.todo = done]
      BY <2>1 DEF TickListsUpdates
    <3>2. done \subseteq Nat /\ \A u \in done : Done(u)
      BY <1>0 DEF Done, Rows
    <3> HIDE DEF done
    <3>3. LET t == [NoTick EXCEPT !.at = "next", !.todo = done] IN
          t \in TickShape /\ t.at = "next" /\ t.todo = done /\ t.update = 0
      BY <3>2 DEF NoTick, TickShape
    <3> QED BY <3>1, <3>2, <3>3
  <2>2. CASE FindFollowUp /\ tick.todo = {}
    <3>1. NoTick \in TickShape /\ NoTick.at = "idle" /\ NoTick.todo = {} /\ NoTick.update = 0
      BY DEF NoTick, TickShape
    <3> QED BY <2>2, <3>1 DEF FindFollowUp
  <2>3. CASE FindFollowUp /\ tick.todo # {}
    <3>1. PICK u \in tick.todo :
            IF ActiveTarget \/ \E j \in Rows : SameKey(jobs[j], FollowUp(u))
              THEN tick' = [tick EXCEPT !.todo = @ \ {u}]
              ELSE tick' = [tick EXCEPT !.at = "submit", !.todo = @ \ {u}, !.update = u]
      BY <2>3 DEF FindFollowUp
    <3>2. /\ Done(u) /\ \A v \in tick.todo : Done(v)
          /\ u \in Nat /\ tick.at = "next" /\ tick.update = 0 /\ tick.todo \ {u} \subseteq Nat
      BY <1>0, <1>3, <2>3 DEF TickSound, FindFollowUp, TickShape
    <3>3. CASE tick' = [tick EXCEPT !.todo = @ \ {u}]
      <4>1. LET t == [tick EXCEPT !.todo = @ \ {u}] IN
            t \in TickShape /\ t.at = "next" /\ t.update = 0 /\ t.todo = tick.todo \ {u}
        BY <1>0, <3>2 DEF TickShape
      <4> QED BY <3>2, <3>3, <4>1
    <3>4. CASE /\ ~ \E j \in Rows : SameKey(jobs[j], FollowUp(u))
               /\ tick' = [tick EXCEPT !.at = "submit", !.todo = @ \ {u}, !.update = u]
      <4>1. FollowUp(u).mode = "check" /\ FollowUp(u).plan = u
        BY DEF FollowUp, NoRequest
      <4>2. NotFollowed(u)
        BY <3>4, <4>1 DEF NotFollowed, SameKey
      <4>3. LET t == [tick EXCEPT !.at = "submit", !.todo = @ \ {u}, !.update = u] IN
            t \in TickShape /\ t.at = "submit" /\ t.update = u /\ t.todo = tick.todo \ {u}
        BY <1>0, <3>2 DEF TickShape
      <4> QED BY <3>2, <3>4, <4>2, <4>3
    <3> QED BY <3>1, <3>3, <3>4
  <2> QED BY <2>1, <2>2, <2>3
<1>5. TickSound'
  <2>1. t = tick' /\ t.at \in {"idle", "next", "submit"}
    BY <1>4 DEF TickShape
  <2>2. t.at = "submit" => Done(t.update)' /\ NotFollowed(t.update)'
    <3> PICK u : u = t.update
      OBVIOUS
    <3>1. t.at = "submit" => Done(u)' /\ NotFollowed(u)'
      BY <1>3, <1>4
    <3> QED BY <3>1
  <2>3. \A u \in t.todo : Done(u)'
    BY <1>3, <1>4
  <2> QED BY <1>4, <2>1, <2>2, <2>3 DEF TickSound
<1>6. UpdatesTyped'
  BY <1>0, <1>1, <1>2, <1>4 DEF UpdatesTyped
<1> QED BY <1>1, <1>2, <1>5, <1>6, TickMoves

LEMMA SubmitInventorySound ==
  ASSUME UpdatesInv, SubmitInventory PROVE UpdatesInv'
<1>0. UpdatesTyped /\ TickSound /\ tick \in TickShape /\ tick.at = "submit" /\ Len(jobs) \in Nat
  BY DEF UpdatesInv, UpdatesTyped, SubmitInventory
<1>1. UNCHANGED <<rule, ruleRow, minute, asked, together>>
  BY DEF SubmitInventory, ruleVars
<1>2. PICK u \in Nat : u = tick.update /\ Done(u) /\ NotFollowed(u)
  BY <1>0 DEF TickSound, TickShape
<1>3. CASE Duplicate(FollowUp(tick.update))
  <2>1. UNCHANGED <<jobs, known>> /\ tick' = [tick EXCEPT !.at = "next", !.update = 0]
    BY <1>3 DEF SubmitInventory
  <2>2. /\ JobsGrow({}) /\ Ids' = Ids /\ Rows' = Rows
        /\ \A j \in Ids : jobs[j].status = "unsaved" => StillUnsaved(j)
    BY <2>1, JobsKept
  <2>3. tick' \in TickShape /\ tick'.at = "next" /\ tick'.update = 0 /\ tick'.todo = tick.todo
    BY <1>0, <2>1 DEF TickShape
  <2>4. \A v \in tick.todo : Done(v)'
    BY <1>0, <2>1, <2>2 DEF TickSound, Done
  <2>5. TickSound'
    BY <2>3, <2>4 DEF TickSound
  <2>6. UpdatesTyped'
    BY <1>0, <1>1, <2>1, <2>2, <2>3 DEF UpdatesTyped
  <2> QED BY <1>1, <2>2, <2>5, <2>6, TickMoves
<1>4. CASE ~ Duplicate(FollowUp(tick.update))
  <2> PICK o : o = FollowUp(u)
    OBVIOUS
  <2> PICK n \in Nat : n = Len(jobs) + 1
    BY <1>0
  <2>1. Made(o) /\ tick' = [tick EXCEPT !.at = "save", !.id = n]
    BY <1>2, <1>4 DEF SubmitInventory
  <2>2. o.mode = "check" /\ o.plan = u /\ o.pol = "none" /\ o.pkgs = {} /\ o.token = NoOperator /\ o.rule = NoRule /\ o.checked = 0
    BY DEF FollowUp, NoRequest
  <2>3. /\ JobsGrow({}) /\ Ids' = Ids \cup {n} /\ n \notin Ids /\ Rows' = Rows
        /\ \A j \in Ids : jobs'[j] = jobs[j]
        /\ \A j \in Ids : jobs[j].status = "unsaved" => StillUnsaved(j)
        /\ MadeFor(n, o)'
        /\ known' \subseteq Ids' /\ \A j \in known' : jobs'[j].status # "lost"
    <3>1. 0 \in 0 .. Day - 1
      BY RulesAssumption
    <3> QED BY <2>1, <2>2, <3>1, JobMade
  <2>4. tick' \in TickShape /\ tick'.at = "save" /\ tick'.update = u /\ tick'.todo = tick.todo /\ tick'.id = n
    BY <1>0, <1>2, <2>1 DEF TickShape
  <2>5. \A v : Done(v) => Done(v)'
    BY <2>3 DEF Done, Rows
  <2>6. NotFollowed(u)'
    BY <1>2, <2>3 DEF NotFollowed, Rows
  <2>7. n \in Ids' /\ jobs'[n].status = "unsaved" /\ jobs'[n].mode = "check" /\ jobs'[n].plan = u
    BY <2>2, <2>3 DEF MadeFor
  <2>8. TickSound'
    <3>1. Done(tick.update)' /\ NotFollowed(tick.update)'
      BY <1>2, <2>4, <2>5, <2>6 DEF Done, NotFollowed
    <3>2. \A v \in tick'.todo : Done(v)'
      BY <1>0, <2>4, <2>5 DEF TickSound
    <3> QED BY <2>4, <2>7, <3>1, <3>2 DEF TickSound
  <2>9. UpdatesTyped'
    BY <1>0, <1>1, <2>3, <2>4 DEF UpdatesTyped, JobsGrow
  <2>10. \A x \in Operators : asked'[x].plan \in Ids' => asked'[x].plan \in Ids
    <3>1. \A x \in Operators : asked[x].plan \in Ids \/ asked[x].plan = 0
      <4>1. \A x \in Operators : RequestSound(x) /\ asked[x].mode \in {"none", "plan", "apply"}
        BY <1>0 DEF UpdatesInv, UpdatesTyped, RequestShape
      <4> QED BY <4>1 DEF RequestSound
    <3>2. 0 \notin Ids'
      BY DEF Ids
    <3> QED BY <1>1, <3>1, <3>2
  <2> QED BY <1>1, <2>3, <2>8, <2>9, <2>10, TickMoves
<1> QED BY <1>3, <1>4

LEMMA SaveInventorySound ==
  ASSUME UpdatesInv, SaveInventory PROVE UpdatesInv'
<1>0. UpdatesTyped /\ TickSound /\ tick \in TickShape /\ tick.at = "save"
  BY DEF UpdatesInv, UpdatesTyped, SaveInventory
<1>1. UNCHANGED <<rule, ruleRow, minute, known, asked, together>> /\ tick' = [tick EXCEPT !.at = "next", !.id = 0, !.update = 0]
  BY DEF SaveInventory, ruleVars
<1>2. tick' \in TickShape /\ tick'.at = "next" /\ tick'.update = 0 /\ tick'.todo = tick.todo
  BY <1>0, <1>1 DEF TickShape
<1>3. CASE jobs' = jobs
  <2>1. /\ JobsGrow({}) /\ Ids' = Ids /\ Rows' = Rows
        /\ \A j \in Ids : jobs[j].status = "unsaved" => StillUnsaved(j)
    BY <1>3, JobsKept
  <2>2. \A u \in tick.todo : Done(u)'
    BY <1>0, <1>3, <2>1 DEF TickSound, Done
  <2>3. TickSound'
    BY <1>2, <2>2 DEF TickSound
  <2>4. UpdatesTyped'
    BY <1>0, <1>1, <1>2, <1>3, <2>1 DEF UpdatesTyped
  <2> QED BY <1>1, <2>1, <2>3, <2>4, TickMoves
<1>4. CASE jobs' = [jobs EXCEPT ![tick.id].status = "queued"]
  <2> PICK i, u : i = tick.id /\ u = tick.update
    OBVIOUS
  <2>1. /\ i \in Ids /\ jobs[i].status = "unsaved" /\ jobs[i].mode = "check" /\ jobs[i].plan = u
        /\ Done(u) /\ NotFollowed(u) /\ \A v \in tick.todo : Done(v)
    BY <1>0 DEF TickSound
  <2>2. ~ Saved(i)
    BY <2>1 DEF Saved
  <2>3. /\ JobsGrow({i}) /\ Ids' = Ids /\ jobs'[i].status = "queued"
        /\ \A j \in Ids : j # i => jobs'[j] = jobs[j]
        /\ \A j \in Ids : j # i /\ jobs[j].status = "unsaved" => StillUnsaved(j)
    BY <1>4, <2>1, <2>2, StatusWritten DEF Statuses
  <2>4. \A v \in tick'.todo : Done(v)'
    <3>1. \A v : Done(v) => v \in Rows' /\ jobs'[v].mode = "apply" /\ jobs'[v].status = "succeeded"
      BY <2>3, RowsLast
    <3> QED BY <1>2, <2>1, <3>1 DEF Done
  <2>5. TickSound'
    BY <1>2, <2>4 DEF TickSound
  <2>6. ASSUME NEW r \in Operators PROVE RequestSound(r)'
    <3>1. asked[r].at = "save" => asked[r].id # i /\ asked[r].id \in Ids /\ jobs[asked[r].id].status = "unsaved"
      BY <2>1 DEF UpdatesInv, RequestSound, MadeFor
    <3> QED BY <1>1, <2>3, <3>1, RequestStays
  <2>7. SaversApart'
    BY <1>1 DEF UpdatesInv, SaversApart
  <2>8. NewRowSound(i)
    BY <2>1, <2>2 DEF NewRowSound, Rows
  <2>9. \A j \in Rows' : RowSound(j)'
    BY <2>3, <2>8, RowsStaySound
  <2>10. \A p \in Ids \ together' : Passed(p)' \subseteq Passed(p)
    BY <1>1 DEF Passed
  <2>11. \A p \in Ids' \ together' : UsedOnce(p)'
    BY <1>1, <2>1, <2>3, <2>10, PlansStayUsedOnce
  <2>12. UpdatesTyped'
    <3>1. \A j \in known : jobs'[j].status # "lost"
      BY <1>0, <2>3 DEF UpdatesTyped
    <3> QED BY <1>0, <1>1, <1>2, <2>3, <3>1 DEF UpdatesTyped, JobsGrow
  <2> QED BY <2>5, <2>6, <2>7, <2>9, <2>11, <2>12 DEF UpdatesInv
<1> QED BY <1>3, <1>4 DEF SaveInventory

(* A restart forgets the jobs that were not saved, and every request. *)
LEMMA RestartUpdatesSound ==
  ASSUME UpdatesInv, RestartUpdates PROVE UpdatesInv'
<1>0. UpdatesTyped /\ jobs \in Seq(JobShape) /\ Len(jobs) \in Nat
  BY DEF UpdatesInv, UpdatesTyped
<1>1. /\ rule' = ruleRow /\ UNCHANGED <<ruleRow, minute, together>> /\ known' = {} /\ tick' = NoTick
      /\ asked' = [r \in Operators |-> NoRequest]
  BY DEF RestartUpdates
<1>2. \A j \in Ids : LET n == [jobs[j] EXCEPT !.status = "lost"] IN
        /\ n \in JobShape /\ n.mode = jobs[j].mode /\ n.pol = jobs[j].pol /\ n.pkgs = jobs[j].pkgs
        /\ n.plan = jobs[j].plan /\ n.rule = jobs[j].rule /\ n.checked = jobs[j].checked /\ n.status = "lost"
  <2>1. \A j \in Ids : jobs[j] \in JobShape
    BY <1>0 DEF Ids
  <2> QED BY <2>1 DEF JobShape, Statuses
<1>3. jobs' = [j \in 1 .. Len(jobs) |-> IF jobs[j].status = "unsaved" THEN [jobs[j] EXCEPT !.status = "lost"] ELSE jobs[j]]
  BY DEF RestartUpdates, Ids
<1>4. \A j \in 1 .. Len(jobs) : jobs'[j] = IF jobs[j].status = "unsaved" THEN [jobs[j] EXCEPT !.status = "lost"] ELSE jobs[j]
  BY <1>3
<1>5. \A j \in 1 .. Len(jobs) : jobs'[j] \in JobShape
  <2> SUFFICES ASSUME NEW j \in 1 .. Len(jobs) PROVE jobs'[j] \in JobShape
    OBVIOUS
  <2>1. jobs[j] \in JobShape
    BY <1>0
  <2>2. [jobs[j] EXCEPT !.status = "lost"] \in JobShape
    BY <1>2 DEF Ids
  <2> QED BY <1>4, <2>1, <2>2
<1>6. jobs' \in Seq(JobShape) /\ Len(jobs') = Len(jobs)
  <2>1. jobs' \in [1 .. Len(jobs) -> JobShape]
    BY <1>3, <1>5
  <2> QED BY <1>0, <2>1
<1>7. Ids' = Ids
  BY <1>6 DEF Ids
<1>8. \A j \in Ids : /\ jobs'[j].mode = jobs[j].mode /\ jobs'[j].pol = jobs[j].pol /\ jobs'[j].pkgs = jobs[j].pkgs
                     /\ jobs'[j].plan = jobs[j].plan /\ jobs'[j].rule = jobs[j].rule
                     /\ jobs'[j].checked = jobs[j].checked
                     /\ jobs[j].status # "unsaved" => jobs'[j].status = jobs[j].status
                     /\ jobs[j].status = "unsaved" => jobs'[j].status = "lost"
  BY <1>2, <1>4 DEF Ids
<1>9. JobsGrow({})
  BY <1>0, <1>6, <1>7, <1>8 DEF JobsGrow, Saved
<1>10. /\ NoRequest.at = "idle" /\ NoRequest.mode = "none" /\ NoRequest.plan = 0
       /\ NoTick.at = "idle" /\ NoTick.todo = {} /\ NoTick.update = 0
  BY DEF NoRequest, NoTick
<1>11. \A r \in Operators : asked'[r] = NoRequest
  BY <1>1
<1>12. \A r \in Operators : RequestSound(r)'
  BY <1>10, <1>11 DEF RequestSound
<1>13. SaversApart'
  BY <1>10, <1>11 DEF SaversApart
<1>14. TickSound'
  BY <1>1, <1>10 DEF TickSound
<1>15. \A j \in Rows' : RowSound(j)'
  BY <1>9, RowsStaySound
<1>16. \A p \in Ids \ together' : Passed(p)' \subseteq Passed(p)
  BY <1>10, <1>11 DEF Passed
<1>17. \A p \in Ids' \ together' : UsedOnce(p)'
  BY <1>1, <1>7, <1>9, <1>16, PlansStayUsedOnce
<1>18. UpdatesTyped'
  <2>1. asked' \in [Operators -> RequestShape] /\ tick' \in TickShape
    BY <1>1, NoRequestShape
  <2> QED BY <1>0, <1>1, <1>6, <1>7, <2>1 DEF UpdatesTyped
<1> QED BY <1>12, <1>13, <1>14, <1>15, <1>17, <1>18 DEF UpdatesInv

LEMMA UpdatesInvInit == UpdatesInit => UpdatesInv
<1> SUFFICES ASSUME UpdatesInit PROVE UpdatesInv
  OBVIOUS
<1>1. PICK p \in Policies, pkgs \in PackageLists :
        jobs = <<[mode |-> "plan", pol |-> p, pkgs |-> pkgs, plan |-> 0, token |-> NoOperator,
                  rule |-> NoRule, checked |-> 0, status |-> "queued"]>>
  BY DEF UpdatesInit
<1> DEFINE n == [mode |-> "plan", pol |-> p, pkgs |-> pkgs, plan |-> 0, token |-> NoOperator,
                 rule |-> NoRule, checked |-> 0, status |-> "queued"]
<1>2. n \in JobShape /\ n.mode = "plan" /\ n.status = "queued"
  BY RulesAssumption DEF JobShape, Statuses
<1>3. jobs = <<n>>
  BY <1>1
<1> HIDE DEF n
<1>4. jobs \in Seq(JobShape) /\ Len(jobs) = 1 /\ jobs[1] = n
  BY <1>2, <1>3
<1>5. Ids = {1}
  BY <1>4 DEF Ids
<1>6. /\ NoRequest.at = "idle" /\ NoRequest.mode = "none" /\ NoRequest.plan = 0
      /\ NoTick.at = "idle" /\ NoTick.todo = {} /\ NoTick.update = 0
  BY DEF NoRequest, NoTick
<1>7. /\ \A r \in Operators : asked[r] = NoRequest
      /\ asked \in [Operators -> RequestShape] /\ tick = NoTick /\ tick \in TickShape
  BY NoRequestShape DEF UpdatesInit
<1>8. UpdatesTyped
  BY <1>2, <1>4, <1>5, <1>7, RulesAssumption DEF UpdatesTyped, UpdatesInit
<1>9. \A r \in Operators : RequestSound(r)
  BY <1>6, <1>7 DEF RequestSound
<1>10. SaversApart /\ TickSound
  BY <1>6, <1>7 DEF SaversApart, TickSound
<1>11. Rows \subseteq {1} /\ jobs[1].mode = "plan"
  BY <1>2, <1>4, <1>5 DEF Rows
<1>12. \A j \in Rows : RowSound(j)
  BY <1>11 DEF RowSound
<1>13. \A i \in Ids \ together : UsedOnce(i)
  BY <1>6, <1>7, <1>11 DEF UsedOnce, Applies, Passed
<1> QED BY <1>8, <1>9, <1>10, <1>12, <1>13 DEF UpdatesInv

LEMMA UpdatesInvHolds == UpdatesSpec => []UpdatesInv
<1>1. UpdatesInv /\ [UpdatesNext]_updateVars => UpdatesInv'
  <2> SUFFICES ASSUME UpdatesInv, [UpdatesNext]_updateVars PROVE UpdatesInv'
    OBVIOUS
  <2>1. CASE \/ \E p \in Policies : \/ \E r \in Rules : CreateUpdatePolicy(p, r)
                                    \/ SaveUpdatePolicy(p) \/ DeleteUpdatePolicy(p) \/ ForgetUpdatePolicy(p)
             \/ MinutePasses \/ UNCHANGED updateVars
    BY <2>1, RulesAndClock
  <2>2. ASSUME NEW r \in Operators,
               \/ \E mode \in {"plan", "apply"}, p \in Policies, pkgs \in PackageLists, plan \in 0 .. Len(jobs) :
                    ValidatePackageUpdate(r, mode, p, pkgs, plan)
               \/ LoadPackagePlan(r) \/ RejectReusedPlan(r) \/ FindExistingJob(r)
               \/ SubmitUpdate(r) \/ SaveUpdate(r)
        PROVE  UpdatesInv'
    BY <2>2, ValidatePackageUpdateSound, LoadPackagePlanSound, RejectReusedPlanSound, FindExistingJobSound,
       SubmitUpdateSound, SaveUpdateSound
  <2>3. CASE TickListsUpdates \/ FindFollowUp \/ SubmitInventory \/ SaveInventory
    BY <2>3, TickLooks, SubmitInventorySound, SaveInventorySound
  <2>4. CASE \E j \in Ids : ClaimUpdate(j) \/ EndUpdate(j) \/ RetryUpdate(j)
    BY <2>4, WorkerMoves
  <2>5. CASE RestartUpdates
    BY <2>5, RestartUpdatesSound
  <2> QED BY <2>1, <2>2, <2>3, <2>4, <2>5 DEF UpdatesNext
<1> QED BY <1>1, UpdatesInvInit, PTL DEF UpdatesSpec

(* UpdatePolicy::allows is membership in the arc of the clock from start   *)
(* to end, whether or not the arc goes over midnight.                      *)
LEMMA WindowIsArc ==
  ASSUME NEW D \in Nat \ {0}, NEW s \in 0 .. D - 1, NEW e \in 0 .. D - 1, NEW m \in 0 .. D - 1,
         IF s <= e THEN s <= m /\ m <= e ELSE m >= s \/ m <= e
  PROVE  (m - s) % D <= (e - s) % D
<1>1. \A x \in Int : 0 <= x /\ x < D => x % D = x
  OBVIOUS
<1>2. \A x \in Int : x < 0 /\ 0 - D < x => x % D = x + D
  OBVIOUS
<1>3. CASE s <= e
  <2>1. (m - s) % D = m - s /\ (e - s) % D = e - s
    BY <1>1, <1>3
  <2> QED BY <1>3, <2>1
<1>4. CASE s > e
  <2>1. (e - s) % D = (e - s) + D
    BY <1>2, <1>4
  <2>2. CASE m >= s
    <3>1. (m - s) % D = m - s
      BY <1>1, <2>2
    <3> QED BY <1>4, <2>1, <2>2, <3>1
  <2>3. CASE m < s
    <3>1. (m - s) % D = (m - s) + D
      BY <1>2, <2>3
    <3> QED BY <1>4, <2>1, <2>3, <3>1
  <2> QED BY <2>2, <2>3
<1> QED BY <1>3, <1>4

(* Every apply row rests on a plan of the same packages and policy that    *)
(* has succeeded, and was admitted at a minute of the maintenance window   *)
(* of a rule that permits its packages: the plan that load_package_plan    *)
(* looked at and the rule that the handler read may be awaits old at the   *)
(* INSERT, but a success lasts, a job's request is never rewritten, and    *)
(* the coordinator's job keeps what was judged.                            *)
THEOREM AppliesAlwaysPermitted == UpdatesSpec => []AppliesWerePermitted
<1>1. UpdatesInv => AppliesWerePermitted
  <2> SUFFICES ASSUME UpdatesInv PROVE AppliesWerePermitted
    OBVIOUS
  <2>0. UpdatesTyped /\ TickSound /\ \A j \in Rows : RowSound(j)
    BY DEF UpdatesInv
  <2>1. UpdatesTypeOK
    <3>1. \A j \in Ids : jobs[j] \in JobShape
      BY <2>0 DEF UpdatesTyped, Ids
    <3>2. \A j \in Ids : jobs[j].status \in Statuses
      BY <3>1 DEF JobShape
    <3>3. Len(jobs) \in Nat /\ Rows \subseteq 0 .. Len(jobs) /\ 0 \in 0 .. Len(jobs)
      BY <2>0 DEF UpdatesTyped, Rows, Ids
    <3>4. tick.todo \cup {tick.update} \subseteq 0 .. Len(jobs)
      <4>1. tick.at \in {"idle", "next", "submit", "save"}
        BY <2>0 DEF UpdatesTyped, TickShape
      <4>2. tick.todo \subseteq Rows
        BY <2>0 DEF TickSound, Done
      <4>3. tick.update \in Rows \cup {0}
        BY <2>0, <4>1 DEF TickSound, Done
      <4> QED BY <3>3, <4>2, <4>3
    <3> QED BY <2>0, <3>2, <3>4 DEF UpdatesTypeOK, UpdatesTyped, Statuses
  <2>2. AppliedAsPlanned
    BY <2>0 DEF AppliedAsPlanned, RowSound, PlanMatchesRequest
  <2>3. AdmittedInWindow
    <3> SUFFICES ASSUME NEW j \in Rows, jobs[j].mode = "apply"
                 PROVE  LET r == jobs[j].rule IN
                        /\ (jobs[j].checked - r.start) % Day <= (r.end - r.start) % Day
                        /\ r.high /\ \A x \in jobs[j].pkgs : r.packages = {} \/ x \in r.packages
      BY DEF AdmittedInWindow
    <3>1. Admitted(jobs[j])
      BY <2>0 DEF RowSound
    <3> PICK r \in Rules : r = jobs[j].rule /\ InWindow(r, jobs[j].checked) /\ AllowsPackages(r, jobs[j].pkgs)
      BY <3>1 DEF Admitted
    <3>2. Day \in Nat \ {0} /\ r.start \in 0 .. Day - 1 /\ r.end \in 0 .. Day - 1
      BY RulesAssumption DEF RuleType
    <3>3. jobs[j].checked \in 0 .. Day - 1
      <4>1. jobs[j] \in JobShape
        BY <2>0 DEF UpdatesTyped, Rows, Ids
      <4> QED BY <4>1 DEF JobShape
    <3>4. (jobs[j].checked - r.start) % Day <= (r.end - r.start) % Day
      BY <3>2, <3>3, WindowIsArc DEF InWindow
    <3> QED BY <3>4 DEF AllowsPackages
  <2> QED BY <2>1, <2>2, <2>3 DEF AppliesWerePermitted
<1> QED BY <1>1, UpdatesInvHolds, PTL

(* A plan has two applies only where two requests were past                *)
(* reject_reused_plan together, and an apply that succeeded is followed by *)
(* one package inventory at most, however often requests, ticks and        *)
(* restarts repeat.                                                        *)
THEOREM PlansAreUsedOnce == UpdatesSpec => []OncePerPlan
<1>1. UpdatesInv => OncePerPlan
  <2> SUFFICES ASSUME UpdatesInv PROVE OncePerPlan
    OBVIOUS
  <2>1. ReusedOnlyTogether
    <3> SUFFICES ASSUME NEW p \in Ids, p \notin together PROVE ~ (Cardinality(Applies(p)) > 1)
      BY DEF ReusedOnlyTogether
    <3>1. \A j, k \in Applies(p) : j = k
      BY DEF UpdatesInv, UsedOnce
    <3>2. CASE Applies(p) = {}
      BY <3>2, FS_EmptySet
    <3>3. CASE Applies(p) # {}
      <4>1. PICK j : Applies(p) = {j}
        BY <3>1, <3>3
      <4> QED BY <4>1, FS_Singleton
    <3> QED BY <3>2, <3>3
  <2>2. OneInventoryPerApply
    BY DEF OneInventoryPerApply, UpdatesInv, RowSound, Done
  <2> QED BY <2>1, <2>2 DEF OncePerPlan
<1> QED BY <1>1, UpdatesInvHolds, PTL

(***************************************************************************)
(* The package inventory an agent still has to deliver                     *)
(*                                                                         *)
(* The agent forgets an inventory when a heartbeat that carried it is      *)
(* answered, so the answer must not come before the snapshot is stored.    *)
(* Heartbeats overlap, and a snapshot may be replaced by an older one that *)
(* was checked before it; so the argument is about what was ever stored.   *)
(* What a heartbeat carries is the inventory collected last, or an older   *)
(* one; whether it is discarded is settled before its handler's first      *)
(* statement; and a handler of the last inventory that will not replace    *)
(* the snapshot, or has answered, finds it among those stored (BeatFits).  *)
(***************************************************************************)

InventoryRec == [n : Nat, valid : BOOLEAN]
TakenRec == [last : InventoryRec, stored : SUBSET Nat, discarded : SUBSET Nat]
BeatPlaces == {"quiet", "sent", "append", "commit", "latest", "replace", "answer"}
BeatShape(r) ==
  r \in [at : BeatPlaces, by : {"nobody", "loop", "poller"}, sent : {r.sent}, samples : {r.samples}, package : InventoryRec,
         received : {r.received}, appended : {r.appended}, rows : {r.rows}, replace : BOOLEAN]

BeatFits(r, t) ==
  /\ r.package.n <= t.last.n
  /\ r.package.n # 0 /\ r.package.n = t.last.n => r.package = t.last
  /\ r.package.n = 0 => r.package.valid
  /\ r.at \notin {"quiet", "sent"} /\ ~r.package.valid => r.package.n \in t.discarded
  /\ r.at \in {"latest", "replace"} => r.package.valid /\ r.package.n # 0
  /\ r.at = "replace" /\ ~r.replace /\ r.package.n = t.last.n => r.package.n \in t.stored
  /\ r.at = "answer" /\ r.package.valid /\ r.package.n # 0 /\ r.package.n = t.last.n => r.package.n \in t.stored

InventoriesTyped ==
  /\ held \in InventoryRec /\ taken \in TakenRec /\ snapshot \in Nat
  /\ beats = [b \in Beats |-> beats[b]] /\ \A b \in Beats : BeatShape(beats[b])
HeldIsLast == held = NoInventory \/ (held = taken.last /\ held.n # 0)
StoredIsKnown == snapshot <= taken.last.n /\ snapshot \in taken.stored \cup {0}
BeatsFit == \A b \in Beats : BeatFits(beats[b], taken)
InventoryInv == InventoriesTyped /\ HeldIsLast /\ StoredIsKnown /\ BeatsFit /\ ForgottenIsStored

LEMMA InventoryFacts ==
  ASSUME InventoryInv
  PROVE  /\ held \in InventoryRec /\ taken.last \in InventoryRec /\ taken.stored \subseteq Nat /\ taken.discarded \subseteq Nat
         /\ snapshot \in Nat /\ held.n \in Nat /\ taken.last.n \in Nat /\ taken \in TakenRec
BY DEF InventoryInv, InventoriesTyped, InventoryRec, TakenRec

LEMMA BeatFacts ==
  ASSUME InventoryInv, NEW b \in Beats
  PROVE  /\ BeatShape(beats[b]) /\ BeatFits(beats[b], taken) /\ beats[b].at \in BeatPlaces
         /\ beats[b].package \in InventoryRec /\ beats[b].package.n \in Nat
BY DEF InventoryInv, InventoriesTyped, BeatsFit, BeatShape, InventoryRec

LEMMA NoneHeld == NoInventory \in InventoryRec /\ NoInventory.n = 0 /\ NoInventory.valid
BY DEF NoInventory, InventoryRec

LEMMA QuietShape ==
  /\ BeatShape(Quiet) /\ Quiet.at = "quiet" /\ Quiet.package.n = 0 /\ Quiet.package.valid
BY NoneHeld DEF Quiet, BeatShape, BeatPlaces

LEMMA QuietFits ==
  ASSUME NEW t \in TakenRec
  PROVE  BeatFits(Quiet, t)
<1>1. t.last.n \in Nat
  BY DEF TakenRec, InventoryRec
<1> QED
  BY <1>1, QuietShape DEF BeatFits

\* What was stored or discarded stays so.
LEMMA FitsLater ==
  ASSUME NEW r, NEW t, NEW u, BeatFits(r, t), u.last = t.last, t.stored \subseteq u.stored, t.discarded \subseteq u.discarded
  PROVE  BeatFits(r, u)
BY DEF BeatFits

\* Samples, seconds and commits leave the inventories alone.
LEMMA InventoryUntouched ==
  ASSUME InventoryInv, UNCHANGED <<held, beats, snapshot, taken>>
  PROVE  InventoryInv'
<1>1. InventoriesTyped'
  BY DEF InventoryInv, InventoriesTyped
<1>2. HeldIsLast' /\ StoredIsKnown' /\ BeatsFit'
  BY DEF InventoryInv, HeldIsLast, StoredIsKnown, BeatsFit
<1>3. ForgottenIsStored'
  BY DEF InventoryInv, ForgottenIsStored
<1> QED
  BY <1>1, <1>2, <1>3 DEF InventoryInv

\* A newer inventory is none of those on their way.
LEMMA RecordInventoryKeeps ==
  ASSUME InventoryInv, RecordInventory
  PROVE  InventoryInv'
<1>0. UNCHANGED <<beats, snapshot>>
  BY DEF RecordInventory
<1>a. PICK v \in BOOLEAN : held' = [n |-> taken.last.n + 1, valid |-> v] /\ taken' = [taken EXCEPT !.last = held']
  BY DEF RecordInventory
<1>1. PICK i : i = [n |-> taken.last.n + 1, valid |-> v] /\ held' = i /\ taken' = [taken EXCEPT !.last = i]
  BY <1>a
<1>2. i \in InventoryRec /\ i.n = taken.last.n + 1 /\ i.n \in Nat /\ i.n # 0
  BY <1>1, InventoryFacts DEF InventoryRec
<1>3. taken'.last = i /\ taken'.stored = taken.stored /\ taken'.discarded = taken.discarded /\ taken' \in TakenRec
  BY <1>1, <1>2, InventoryFacts DEF TakenRec
<1>4. InventoriesTyped'
  BY <1>0, <1>1, <1>2, <1>3 DEF InventoryInv, InventoriesTyped
<1>5. HeldIsLast'
  BY <1>1, <1>2, <1>3 DEF HeldIsLast
<1>6. StoredIsKnown'
  BY <1>0, <1>2, <1>3, InventoryFacts DEF InventoryInv, StoredIsKnown
<1>7. ASSUME NEW b \in Beats PROVE BeatFits(beats[b], taken')
  <2>1. beats[b].package.n <= i.n /\ beats[b].package.n # i.n
    BY <1>2, BeatFacts, InventoryFacts DEF BeatFits
  <2> QED
    BY <1>3, <2>1, BeatFacts DEF BeatFits
<1>8. BeatsFit'
  BY <1>0, <1>7 DEF BeatsFit
<1>9. ForgottenIsStored'
  BY <1>1, <1>2 DEF ForgottenIsStored
<1> QED
  BY <1>4, <1>5, <1>6, <1>8, <1>9 DEF InventoryInv

\* One heartbeat changes, and at most its own inventory is stored or
\* discarded.
LEMMA BeatChanges ==
  ASSUME InventoryInv, NEW b \in Beats, NEW r, beats' = [beats EXCEPT ![b] = r], BeatShape(r),
         UNCHANGED held, taken' \in TakenRec, taken'.last = taken.last,
         taken.stored \subseteq taken'.stored, taken.discarded \subseteq taken'.discarded,
         BeatFits(r, taken'), snapshot' \in Nat, StoredIsKnown'
  PROVE  InventoryInv'
<1>1. ASSUME NEW c \in Beats PROVE beats'[c] = IF c = b THEN r ELSE beats[c]
  BY DEF InventoryInv, InventoriesTyped
<1>2. InventoriesTyped'
  <2>1. beats' = [c \in Beats |-> beats'[c]]
    BY DEF InventoryInv, InventoriesTyped
  <2>2. ASSUME NEW c \in Beats PROVE BeatShape(beats'[c])
    BY <1>1, BeatFacts
  <2> QED
    BY <2>1, <2>2, InventoryFacts DEF InventoriesTyped
<1>3. HeldIsLast'
  BY DEF InventoryInv, HeldIsLast
<1>4. BeatsFit'
  <2>1. ASSUME NEW c \in Beats PROVE BeatFits(beats'[c], taken')
    <3>1. BeatFits(beats[c], taken')
      BY BeatFacts, FitsLater
    <3> QED
      BY <1>1, <3>1
  <2> QED
    BY <2>1 DEF BeatsFit
<1>5. ForgottenIsStored'
  BY DEF InventoryInv, ForgottenIsStored
<1> QED
  BY <1>2, <1>3, <1>4, <1>5 DEF InventoryInv

LEMMA BeatMoves ==
  ASSUME InventoryInv, NEW b \in Beats, NEW r, beats' = [beats EXCEPT ![b] = r], BeatShape(r),
         UNCHANGED <<held, snapshot, taken>>, BeatFits(r, taken)
  PROVE  InventoryInv'
<1>1. StoredIsKnown'
  BY DEF InventoryInv, StoredIsKnown
<1> QED
  BY <1>1, BeatChanges, InventoryFacts

LEMMA SendHeartbeatKeeps ==
  ASSUME InventoryInv, NEW b \in Beats, SendHeartbeat(b) \/ PollerSends(b)
  PROVE  InventoryInv'
<1>1. PICK q \in {"loop", "poller"} : SendAs(b, q)
  BY DEF SendHeartbeat, PollerSends
<1>a. PICK s, x : s = AgentClock /\ x = RemoveExpired(buffer)
  OBVIOUS
<1>2. beats' = [beats EXCEPT ![b] = [Quiet EXCEPT !.at = "sent", !.by = q, !.sent = s, !.samples = x, !.package = held]]
  BY <1>1, <1>a DEF SendAs
<1>3. PICK r : r = [Quiet EXCEPT !.at = "sent", !.by = q, !.sent = s, !.samples = x, !.package = held]
  OBVIOUS
<1>4. BeatShape(r) /\ r.at = "sent" /\ r.package = held
  BY <1>3, InventoryFacts DEF BeatShape, BeatPlaces, Quiet
<1>5. (held.n = 0 => held.valid) /\ held.n <= taken.last.n /\ (held.n # 0 => held = taken.last)
  BY NoneHeld, InventoryFacts DEF InventoryInv, HeldIsLast
<1>6. BeatFits(r, taken)
  BY <1>4, <1>5 DEF BeatFits
<1>7. UNCHANGED <<held, snapshot, taken>>
  BY <1>1 DEF SendAs
<1> QED
  BY <1>2, <1>3, <1>4, <1>6, <1>7, BeatMoves

LEMMA HeartbeatFailsKeeps ==
  ASSUME InventoryInv, NEW b \in Beats, HeartbeatFails(b)
  PROVE  InventoryInv'
<1>0. UNCHANGED <<held, snapshot, taken>>
  BY DEF HeartbeatFails
<1>1. CASE beats' = [beats EXCEPT ![b] = Quiet]
  BY <1>0, <1>1, QuietShape, QuietFits, InventoryFacts, BeatMoves
<1>2. CASE beats' = [beats EXCEPT ![b].by = "nobody"]
  <2>1. PICK r : r = [beats[b] EXCEPT !.by = "nobody"]
    OBVIOUS
  <2>2. beats' = [beats EXCEPT ![b] = r]
    BY <1>2, <2>1
  <2>3. BeatShape(r) /\ r.at = beats[b].at /\ r.package = beats[b].package /\ r.replace = beats[b].replace
    BY <2>1, BeatFacts DEF BeatShape
  <2>4. BeatFits(r, taken)
    BY <2>3, BeatFacts DEF BeatFits
  <2> QED
    BY <1>0, <2>2, <2>3, <2>4, BeatMoves
<1> QED
  BY <1>1, <1>2 DEF HeartbeatFails

LEMMA ReceiveHeartbeatKeeps ==
  ASSUME InventoryInv, NEW b \in Beats, ReceiveHeartbeat(b)
  PROVE  InventoryInv'
<1>0. PICK p : p = beats[b].package
  OBVIOUS
<1>1. /\ beats[b].at = "sent" /\ beats' = [beats EXCEPT ![b].at = "append", ![b].received = now] /\ UNCHANGED <<held, snapshot>>
      /\ taken' = IF Discards(p) THEN [taken EXCEPT !.discarded = @ \cup {p.n}] ELSE taken
  BY <1>0 DEF ReceiveHeartbeat
<1>2. PICK r : r = [beats[b] EXCEPT !.at = "append", !.received = now]
  OBVIOUS
<1>3. beats' = [beats EXCEPT ![b] = r]
  BY <1>1, <1>2
<1>4. BeatShape(r) /\ r.at = "append" /\ r.package = p
  BY <1>0, <1>2, BeatFacts DEF BeatShape, BeatPlaces
<1>5. p.n \in Nat
  BY <1>0, BeatFacts
<1>6. /\ taken' \in TakenRec /\ taken'.last = taken.last /\ taken'.stored = taken.stored
      /\ taken.discarded \subseteq taken'.discarded
  <2>1. taken.discarded \cup {p.n} \in SUBSET Nat
    BY <1>5, InventoryFacts
  <2> QED
    BY <1>1, <2>1, InventoryFacts DEF TakenRec
<1>7. ~p.valid => p.n \in taken'.discarded
  <2> SUFFICES ASSUME ~p.valid PROVE p.n \in taken'.discarded
    OBVIOUS
  <2>1. SanitizeInventory(p) = NoInventory
    BY DEF SanitizeInventory
  <2>2. p # NoInventory
    BY NoneHeld
  <2>3. taken' = [taken EXCEPT !.discarded = @ \cup {p.n}]
    BY <1>1, <2>1, <2>2 DEF Discards
  <2> QED
    BY <2>3, InventoryFacts DEF TakenRec
<1>8. BeatFits(r, taken')
  BY <1>0, <1>4, <1>6, <1>7, BeatFacts DEF BeatFits
<1>9. StoredIsKnown'
  BY <1>1, <1>6 DEF InventoryInv, StoredIsKnown
<1> QED
  BY <1>1, <1>3, <1>4, <1>6, <1>8, <1>9, InventoryFacts, BeatChanges

\* Between two statements of the handler its place changes.
LEMMA BeatHandlerMoves ==
  ASSUME InventoryInv, NEW b \in Beats, NEW r, beats' = [beats EXCEPT ![b] = r], BeatShape(r),
         UNCHANGED <<held, snapshot, taken>>, beats[b].at \notin {"quiet", "sent"}, r.package = beats[b].package,
         r.at \in {"latest", "replace"} => r.package.valid /\ r.package.n # 0,
         r.at = "replace" /\ ~r.replace /\ r.package.n = taken.last.n => r.package.n \in taken.stored,
         r.at = "answer" => ~r.package.valid \/ r.package.n = 0
  PROVE  InventoryInv'
<1>1. BeatFits(r, taken)
  BY BeatFacts DEF BeatFits
<1> QED
  BY <1>1, BeatMoves

LEMMA BeatHandlerKeeps ==
  ASSUME InventoryInv, NEW b \in Beats, AppendHeartbeat(b) \/ CommitHeartbeat(b) \/ FindLatest(b)
  PROVE  InventoryInv'
<1>0. UNCHANGED <<held, snapshot, taken>>
  BY DEF AppendHeartbeat, CommitHeartbeat, FindLatest
<1>s. BeatShape(beats[b])
  BY BeatFacts
<1>1. CASE AppendHeartbeat(b)
  <2>0. PICK x : x = FoldLeft(InsertSample, timeline, Sanitized(b)) \ timeline
    OBVIOUS
  <2>1. beats[b].at = "append" /\ beats' = [beats EXCEPT ![b].at = "commit", ![b].appended = now, ![b].rows = x]
    BY <1>1, <2>0 DEF AppendHeartbeat
  <2>2. PICK r : r = [beats[b] EXCEPT !.at = "commit", !.appended = now, !.rows = x]
    OBVIOUS
  <2>3. beats' = [beats EXCEPT ![b] = r]
    BY <2>1, <2>2
  <2>4. BeatShape(r) /\ r.at = "commit" /\ r.package = beats[b].package
    BY <1>s, <2>2 DEF BeatShape, BeatPlaces
  <2> QED
    BY <1>0, <2>1, <2>3, <2>4, BeatHandlerMoves
<1>2. CASE CommitHeartbeat(b)
  <2>1. PICK place \in {"latest", "answer"} :
          /\ beats' = [beats EXCEPT ![b].at = place, ![b].rows = {}]
          /\ place = IF SanitizeInventory(beats[b].package).n # 0 THEN "latest" ELSE "answer"
    BY <1>2 DEF CommitHeartbeat
  <2>2. PICK r : r = [beats[b] EXCEPT !.at = place, !.rows = {}]
    OBVIOUS
  <2>3. beats' = [beats EXCEPT ![b] = r]
    BY <2>1, <2>2
  <2>4. BeatShape(r) /\ r.at = place /\ r.package = beats[b].package
    BY <1>s, <2>2 DEF BeatShape, BeatPlaces
  <2>5. place = "latest" => beats[b].package.valid /\ beats[b].package.n # 0
    BY <2>1, NoneHeld DEF SanitizeInventory
  <2>6. place = "answer" => ~beats[b].package.valid \/ beats[b].package.n = 0
    BY <2>1 DEF SanitizeInventory
  <2>7. beats[b].at = "commit"
    BY <1>2 DEF CommitHeartbeat
  <2> QED
    BY <1>0, <2>3, <2>4, <2>5, <2>6, <2>7, BeatHandlerMoves
<1>3. CASE FindLatest(b)
  <2>0. PICK n : n = beats[b].package.n
    OBVIOUS
  <2>1. PICK q : q = (snapshot < n)
    OBVIOUS
  <2>2. beats[b].at = "latest" /\ beats' = [beats EXCEPT ![b].at = "replace", ![b].replace = q]
    BY <1>3, <2>0, <2>1 DEF FindLatest
  <2>3. PICK r : r = [beats[b] EXCEPT !.at = "replace", !.replace = q]
    OBVIOUS
  <2>4. beats' = [beats EXCEPT ![b] = r]
    BY <2>2, <2>3
  <2>5. BeatShape(r) /\ r.at = "replace" /\ r.package = beats[b].package /\ r.replace = q
    <3>1. q \in BOOLEAN
      BY <2>1
    <3> QED
      BY <1>s, <2>3, <3>1 DEF BeatShape, BeatPlaces
  <2>6. beats[b].package.valid /\ n # 0 /\ n \in Nat
    BY <2>0, <2>2, BeatFacts DEF BeatFits
  <2>7. ASSUME ~q, n = taken.last.n PROVE n \in taken.stored
    <3>1. snapshot <= taken.last.n /\ snapshot \in taken.stored \cup {0}
      BY DEF InventoryInv, StoredIsKnown
    <3>2. ~(snapshot < n) /\ snapshot \in Nat
      BY <2>1, <2>7, InventoryFacts
    <3>3. snapshot = n
      BY <2>6, <2>7, <3>1, <3>2
    <3> QED
      BY <2>6, <3>1, <3>3
  <2> QED
    BY <1>0, <2>0, <2>2, <2>4, <2>5, <2>6, <2>7, BeatHandlerMoves
<1> QED
  BY <1>1, <1>2, <1>3

LEMMA ReplaceInventoryKeeps ==
  ASSUME InventoryInv, NEW b \in Beats, ReplaceInventory(b)
  PROVE  InventoryInv'
<1>0. PICK p : p = beats[b].package
  OBVIOUS
<1>1. beats[b].at = "replace" /\ beats' = [beats EXCEPT ![b].at = "answer"] /\ UNCHANGED held
  BY DEF ReplaceInventory, Move
<1>2. PICK r : r = [beats[b] EXCEPT !.at = "answer"]
  OBVIOUS
<1>3. beats' = [beats EXCEPT ![b] = r]
  BY <1>1, <1>2
<1>4. BeatShape(r) /\ r.at = "answer" /\ r.package = p
  BY <1>0, <1>2, BeatFacts DEF BeatShape, BeatPlaces
<1>5. p.valid /\ p.n # 0 /\ p.n \in Nat /\ p.n <= taken.last.n
  BY <1>0, <1>1, BeatFacts DEF BeatFits
<1>6. CASE beats[b].replace
  <2>1. snapshot' = p.n /\ taken' = [taken EXCEPT !.stored = @ \cup {p.n}]
    BY <1>0, <1>6 DEF ReplaceInventory
  <2>2. taken.stored \cup {p.n} \in SUBSET Nat
    BY <1>5, InventoryFacts
  <2>3. /\ taken' \in TakenRec /\ taken'.last = taken.last /\ taken'.stored = taken.stored \cup {p.n}
        /\ taken'.discarded = taken.discarded
    BY <2>1, <2>2, InventoryFacts DEF TakenRec
  <2>4. BeatFits(r, taken')
    BY <1>0, <1>4, <1>5, <2>3, BeatFacts DEF BeatFits
  <2>5. StoredIsKnown'
    BY <1>5, <2>1, <2>3 DEF StoredIsKnown
  <2> QED
    BY <1>1, <1>3, <1>4, <1>5, <2>1, <2>3, <2>4, <2>5, BeatChanges
<1>7. CASE ~beats[b].replace
  <2>1. UNCHANGED <<snapshot, taken>>
    BY <1>7 DEF ReplaceInventory
  <2>2. BeatFits(r, taken)
    BY <1>0, <1>1, <1>4, <1>5, <1>7, BeatFacts DEF BeatFits
  <2> QED
    BY <1>1, <1>3, <1>4, <2>1, <2>2, BeatMoves
<1> QED
  BY <1>6, <1>7

LEMMA AnsweredKeeps ==
  ASSUME InventoryInv, NEW b \in Beats, HeartbeatAnswered(b)
  PROVE  InventoryInv'
<1>0. PICK p : p = beats[b].package
  OBVIOUS
<1>1. /\ beats[b].at = "answer" /\ beats' = [beats EXCEPT ![b] = Quiet] /\ UNCHANGED <<snapshot, taken>>
      /\ held' = held \/ (p.n # 0 /\ held.n = p.n /\ held' = NoInventory)
  BY <1>0 DEF HeartbeatAnswered, Acknowledge
<1>2. CASE held' = held
  BY <1>1, <1>2, QuietShape, QuietFits, InventoryFacts, BeatMoves
<1>3. CASE p.n # 0 /\ held.n = p.n /\ held' = NoInventory
  <2>1. held = taken.last /\ p = taken.last
    BY <1>0, <1>3, NoneHeld, BeatFacts DEF InventoryInv, HeldIsLast, BeatFits
  <2>2. taken.last.n \in taken.stored \cup taken.discarded
    BY <1>0, <1>1, <1>3, <2>1, BeatFacts DEF BeatFits
  <2>3. ASSUME NEW c \in Beats PROVE beats'[c] = IF c = b THEN Quiet ELSE beats[c]
    BY <1>1 DEF InventoryInv, InventoriesTyped
  <2>4. beats' = [c \in Beats |-> beats'[c]]
    BY <1>1 DEF InventoryInv, InventoriesTyped
  <2>5. ASSUME NEW c \in Beats PROVE BeatShape(beats'[c]) /\ BeatFits(beats'[c], taken)
    BY <2>3, BeatFacts, QuietShape, QuietFits, InventoryFacts
  <2>6. InventoriesTyped'
    BY <1>1, <1>3, <2>4, <2>5, NoneHeld, InventoryFacts DEF InventoriesTyped
  <2>7. HeldIsLast' /\ StoredIsKnown' /\ BeatsFit'
    BY <1>1, <1>3, <2>5 DEF InventoryInv, HeldIsLast, StoredIsKnown, BeatsFit
  <2>8. ForgottenIsStored'
    BY <1>1, <2>2 DEF ForgottenIsStored
  <2> QED
    BY <2>6, <2>7, <2>8 DEF InventoryInv
<1> QED
  BY <1>1, <1>2, <1>3

LEMMA InventoryKept ==
  ASSUME InventoryInv, [HeartbeatNext]_heartbeatVars
  PROVE  InventoryInv'
<1>1. CASE RecordTelemetry \/ Second \/ UNCHANGED heartbeatVars
  <2>1. UNCHANGED <<held, beats, snapshot, taken>>
    BY <1>1 DEF RecordTelemetry, Second, heartbeatVars
  <2> QED
    BY <2>1, InventoryUntouched
<1>2. CASE RecordInventory
  BY <1>2, RecordInventoryKeeps
<1>3. ASSUME NEW b \in Beats, SendHeartbeat(b) \/ PollerSends(b) \/ HeartbeatFails(b) \/ HeartbeatAnswered(b) PROVE InventoryInv'
  BY <1>3, SendHeartbeatKeeps, HeartbeatFailsKeeps, AnsweredKeeps
<1>4. ASSUME NEW b \in Beats, ReceiveHeartbeat(b) \/ ReplaceInventory(b) PROVE InventoryInv'
  BY <1>4, ReceiveHeartbeatKeeps, ReplaceInventoryKeeps
<1>5. ASSUME NEW b \in Beats, AppendHeartbeat(b) \/ CommitHeartbeat(b) \/ FindLatest(b) PROVE InventoryInv'
  BY <1>5, BeatHandlerKeeps
<1> QED
  BY <1>1, <1>2, <1>3, <1>4, <1>5 DEF HeartbeatNext

LEMMA InventoryStarts ==
  ASSUME HeartbeatInit
  PROVE  InventoryInv
<1>0. /\ held = NoInventory /\ beats = [b \in Beats |-> Quiet] /\ snapshot = 0
      /\ taken = [last |-> NoInventory, stored |-> {}, discarded |-> {}]
  BY DEF HeartbeatInit
<1>1. taken \in TakenRec /\ taken.last = NoInventory /\ taken.last.n = 0
  BY <1>0, NoneHeld DEF TakenRec
<1>2. ASSUME NEW b \in Beats PROVE BeatShape(beats[b]) /\ BeatFits(beats[b], taken)
  BY <1>0, <1>1, QuietShape, QuietFits
<1>3. InventoriesTyped
  BY <1>0, <1>1, <1>2, NoneHeld DEF InventoriesTyped
<1>4. HeldIsLast /\ StoredIsKnown
  BY <1>0, <1>1 DEF HeldIsLast, StoredIsKnown
<1>5. BeatsFit
  BY <1>2 DEF BeatsFit
<1>6. ForgottenIsStored
  BY <1>1 DEF ForgottenIsStored
<1> QED
  BY <1>3, <1>4, <1>5, <1>6 DEF InventoryInv

(* An inventory the agent no longer holds was stored or found invalid, for  *)
(* any intervals and clock, and any number of inventories and of heartbeats *)
(* of both senders that overlap, take any time and fail at any statement    *)
(* (acknowledge_package_inventory, receive_agent_heartbeat,                 *)
(* report_claimed_workflow).                                                *)
THEOREM ForgottenIsAlwaysStored == HeartbeatSpec => []ForgottenIsStored
<1>1. HeartbeatInit => InventoryInv
  BY InventoryStarts
<1>2. InventoryInv /\ [HeartbeatNext]_heartbeatVars => InventoryInv'
  BY InventoryKept
<1>3. InventoryInv => ForgottenIsStored
  BY DEF InventoryInv
<1> QED
  BY <1>1, <1>2, <1>3, PTL DEF HeartbeatSpec
=============================================================================
