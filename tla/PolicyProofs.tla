----------------------------- MODULE PolicyProofs -----------------------------
(***************************************************************************)
(* Proofs about PolicyController, for any set of policies and Collectors,  *)
(* any selectors that the index serves, any faults and any bounds.         *)
(***************************************************************************)
EXTENDS PolicyController, AttributesProofs, ControllerProofs, FiniteSetTheorems, TLAPS

-----------------------------------------------------------------------------
(* What the operators of the model return.                                 *)

LEMMA BoundsType == MaxEdits \in Nat /\ MaxFaults \in Nat
  BY PolicyAssumption, FaultsAssumption

LEMMA VersionType ==
  ASSUME NEW o \in Version
  PROVE  o.exists <=> o \in Policy
  <1>1. o \in Policy => o.exists
    BY DEF Policy
  <1>2. o = NoObject => ~o.exists
    BY DEF NoObject
  <1> QED BY <1>1, <1>2 DEF Version

LEMMA SelectedType ==
  ASSUME NEW sel
  PROVE  /\ evaluatePolicySelector(sel) \subseteq Ids
         /\ Cardinality(evaluatePolicySelector(sel)) \in Nat
  <1>1. evaluatePolicySelector(sel) \subseteq Ids
    BY DEF evaluatePolicySelector
  <1>2. IsFiniteSet(evaluatePolicySelector(sel))
    BY <1>1, FS_Subset, PolicyAssumption
  <1> QED BY <1>1, <1>2, FS_CardinalityType

LEMMA MatchedStatusType ==
  ASSUME NEW o \in Policy, NEW matched \in SUBSET Ids, Cardinality(matched) \in Nat
  PROVE  /\ [o EXCEPT !.st = MatchedStatus(o, matched)] \in Policy
         /\ [o EXCEPT !.st = MatchedStatus(o, matched)].sel = o.sel
         /\ [o EXCEPT !.st = MatchedStatus(o, matched)].gen = o.gen
         /\ [o EXCEPT !.st = MatchedStatus(o, matched)].st = MatchedStatus(o, matched)
  <1>1. capped(matched) \in SUBSET Ids
    BY DEF capped
  <1>2. MatchedStatus(o, matched) \in Status
    BY <1>1 DEF MatchedStatus, Status, Reasons, Policy
  <1> QED BY <1>2 DEF Policy

LEMMA ErrorStatusType ==
  ASSUME NEW o \in Policy
  PROVE  /\ [o EXCEPT !.st = ErrorStatus(o)] \in Policy
         /\ [o EXCEPT !.st = ErrorStatus(o)].sel = o.sel
         /\ [o EXCEPT !.st = ErrorStatus(o)].gen = o.gen
  <1>1. ErrorStatus(o) \in Status
    BY DEF ErrorStatus, Status, Reasons, Policy
  <1> QED BY <1>1 DEF Policy

\* A policy with the status of another.
LEMMA GraftType ==
  ASSUME NEW o \in Policy, NEW p \in Policy
  PROVE  /\ [o EXCEPT !.st = p.st] \in Policy
         /\ [o EXCEPT !.st = p.st].sel = o.sel
         /\ [o EXCEPT !.st = p.st].gen = o.gen
         /\ [o EXCEPT !.st = p.st].st = p.st
  BY DEF Policy

LEMMA NewPolicyType ==
  ASSUME NEW s \in Selectors
  PROVE  NewPolicy(s) \in Policy
  BY DEF NewPolicy, NewStatus, Policy, Status, Reasons

LEMMA EditedType ==
  ASSUME NEW o \in Policy, NEW s \in Selectors
  PROVE  [o EXCEPT !.sel = s, !.gen = @ + 1] \in Policy
  <1>1. o.gen + 1 \in Nat
    BY DEF Policy
  <1> QED BY <1>1 DEF Policy

-----------------------------------------------------------------------------
(* The first invariant: what a copy of a policy has to do with the stored  *)
(* one.  It holds whatever the index does.                                 *)

\* A copy with the stored resourceVersion differs from the stored policy in the
\* status only.
Held ==
  pc # "idle" /\ fresh =>
    obj[cur].exists /\ mem.sel = obj[cur].sel /\ mem.gen = obj[cur].gen

CInv == TypeOK /\ Copies /\ Held

LEMMA VersionsTyped ==
  ASSUME TypeOK
  PROVE  Typed(Version)
  BY DEF TypeOK, Typed

LEMMA CInit == Init => CInv
  <1> SUFFICES ASSUME Init PROVE CInv
    OBVIOUS
  <1>1. PICK stored \in [Keys -> {NoObject} \cup {NewPolicy(s) : s \in Selectors}] : KubeInit(stored)
    BY DEF Init
  <1>2. stored \in [Keys -> Version]
    BY NewPolicyType DEF Version
  <1>3. TypeOK
    <2>1. [k \in Keys |-> <<>>] \in [Keys -> Seq(Version)]
      BY EmptyFacts
    <2>2. 0 \in 0..MaxEdits /\ 0 \in 0..MaxFaults
      BY BoundsType
    <2> QED BY <1>1, <1>2, <2>1, <2>2 DEF KubeInit, Init, TypeOK, Steps
  <1>4. Copies /\ Held
    BY <1>1 DEF KubeInit, Init, Copies, Held
  <1> QED BY <1>3, <1>4 DEF CInv

\* A user's write.
LEMMA UserWriteKeeps ==
  ASSUME CInv, NEW k \in Keys, NEW o \in Version, UserWrite(k, o),
         Edit, NotOperator, UNCHANGED collectors
  PROVE  CInv'
  <1> USE DEF CInv
  <1>0. Store(k, o) /\ UNCHANGED <<cache, queue, cur, mem, pc, retry, faults, collectors>>
    BY DEF UserWrite, NotOperator
  <1>1. /\ Typed(Version)' /\ Copies'
        /\ \A j \in Keys \ {k} : obj'[j] = obj[j]
    BY <1>0, VersionsTyped, StoreFacts
  <1>2. fresh' = (fresh /\ cur # k)
    BY DEF UserWrite
  <1>3. edits' \in 0..MaxEdits
    <2>1. edits \in 0..MaxEdits /\ edits < MaxEdits /\ edits' = edits + 1
      BY DEF Edit, TypeOK
    <2> QED BY <2>1, BoundsType, OneMore
  <1>4. TypeOK'
    BY <1>0, <1>1, <1>2, <1>3 DEF TypeOK, Typed
  <1>5. Held'
    <2> SUFFICES ASSUME pc' # "idle", fresh'
                 PROVE  obj'[cur].exists /\ mem.sel = obj'[cur].sel /\ mem.gen = obj'[cur].gen
      BY <1>0 DEF Held
    <2>1. cur \in Keys \ {k} /\ pc # "idle" /\ fresh
      BY <1>0, <1>2 DEF TypeOK
    <2> QED BY <2>1, <1>1 DEF Held
  <1> QED BY <1>1, <1>4, <1>5

LEMMA UserKeeps ==
  ASSUME CInv, User
  PROVE  CInv'
  <1>1. ASSUME NEW k \in Keys, NEW s \in Selectors, CreatePolicy(k, s)
        PROVE  CInv'
    BY <1>1, NewPolicyType, UserWriteKeeps DEF CreatePolicy, Version
  <1>2. ASSUME NEW k \in Keys, NEW s \in Selectors, EditSpec(k, s)
        PROVE  CInv'
    <2>1. obj[k] \in Policy
      BY <1>2, VersionType DEF EditSpec, CInv, TypeOK
    <2>2. [obj[k] EXCEPT !.sel = s, !.gen = @ + 1] \in Version
      BY <2>1, EditedType DEF Version
    <2> QED BY <1>2, <2>2, UserWriteKeeps DEF EditSpec
  <1>3. ASSUME NEW k \in Keys, DeletePolicy(k)
        PROVE  CInv'
    BY <1>3, UserWriteKeeps DEF DeletePolicy, Version
  <1>4. ASSUME NEW i \in Ids, NEW new \in {NoCollector} \cup Collectors, ChangeCollector(i, new)
        PROVE  CInv'
    <2>1. collectors' \in [Ids -> {NoCollector} \cup Collectors] /\ queue' \subseteq Keys
      BY <1>4 DEF ChangeCollector, CInv, TypeOK, mapCollectorToAffectedPolicies
    <2>2. edits' \in 0..MaxEdits
      <3>1. edits \in 0..MaxEdits /\ edits < MaxEdits /\ edits' = edits + 1
        BY <1>4 DEF ChangeCollector, Edit, CInv, TypeOK
      <3> QED BY <3>1, BoundsType, OneMore
    <2> QED BY <1>4, <2>1, <2>2 DEF ChangeCollector, NotOperator, CInv, TypeOK, Copies, Held
  <1> QED BY <1>1, <1>2, <1>3, <1>4 DEF User

LEMMA ReconcileKeeps ==
  ASSUME CInv, NEW k \in Keys, Reconcile(k)
  PROVE  CInv'
  <1>1. CASE ReconcileNothing(k)
    BY <1>1 DEF ReconcileNothing, FetchAndReturn, NoFault, OperatorOnly, CInv, TypeOK, Copies, Held
  <1>2. CASE ReconcileGet(k)
    <2>1. cache[k] \in Policy
      BY <1>2, VersionType DEF ReconcileGet, CInv, TypeOK
    <2>2. TypeOK'
      BY <1>2, <2>1 DEF ReconcileGet, Fetch, NoFault, OperatorOnly, CInv, TypeOK, Steps
    <2>3. Copies' /\ Held'
      BY <1>2 DEF ReconcileGet, Fetch, CInv, TypeOK, Copies, Held
    <2> QED BY <2>2, <2>3 DEF CInv
  <1> QED BY <1>1, <1>2 DEF Reconcile

LEMMA InformKeeps ==
  ASSUME CInv, NEW k \in Keys, Inform(k)
  PROVE  CInv'
  <1>1. /\ Typed(Version)' /\ Copies' /\ queue' = queue \cup {k}
        /\ UNCHANGED <<obj, cur, mem, fresh, pc, retry, faults, collectors, edits>>
    BY VersionsTyped, DeliverFacts DEF Inform, CInv
  <1>2. TypeOK' /\ Held'
    BY <1>1 DEF CInv, TypeOK, Typed, Held
  <1> QED BY <1>1, <1>2 DEF CInv

LEMMA ListKeeps ==
  ASSUME CInv, ListCollectors
  PROVE  CInv'
  <1> DEFINE matched == evaluatePolicySelector(mem.sel)
  <1>1. mem \in Policy /\ cur \in Keys /\ pc = "list"
    BY DEF ListCollectors, CInv, TypeOK
  <1>2. matched \in SUBSET Ids /\ Cardinality(matched) \in Nat
    BY SelectedType
  <1>3. CASE NoOp /\ OperatorOnly
    BY <1>3, <1>1 DEF NoOp, JustReturn, Return, NoFault, OperatorOnly, CInv, TypeOK, Steps, Copies, Held
  <1>4. ASSUME NEW st, NEW again \in BOOLEAN, ToWrite(st, again), OperatorOnly,
               [mem EXCEPT !.st = st] \in Policy,
               [mem EXCEPT !.st = st].sel = mem.sel, [mem EXCEPT !.st = st].gen = mem.gen,
               faults' \in 0..MaxFaults
        PROVE  CInv'
    BY <1>1, <1>4 DEF ToWrite, Continue, OperatorOnly, CInv, TypeOK, Steps, Copies, Held
  <1>5. CASE ToWrite(MatchedStatus(mem, matched), FALSE) /\ NoFault /\ OperatorOnly
    <2>1. faults' \in 0..MaxFaults
      BY <1>5 DEF NoFault, CInv, TypeOK
    <2> QED BY <1>5, <2>1, <1>1, <1>2, <1>4, MatchedStatusType
  <1>6. CASE Fault("k8s") /\ ToWrite(ErrorStatus(mem), TRUE) /\ OperatorOnly
    <2>1. faults' \in 0..MaxFaults
      BY <1>6, FaultType DEF CInv, TypeOK
    <2> QED BY <1>6, <2>1, <1>1, <1>4, ErrorStatusType
  <1> QED BY <1>3, <1>5, <1>6 DEF ListCollectors

\* What a status write may do: store the worker's status on top of the stored
\* policy, or nothing; the request comes back unless the write went well and no
\* error was to be reported.
LEMMA UpdateStatusSteps ==
  ASSUME CInv, UpdateStatus
  PROVE  /\ pc = "updateStatus" /\ cur \in Keys /\ mem \in Policy
         /\ pc' = "idle" /\ retry' = FALSE /\ cur' = "" /\ mem' = NoObject /\ fresh' = FALSE
         /\ UNCHANGED <<cache, collectors, edits>>
         /\ faults' \in 0..MaxFaults
         /\ \/ UNCHANGED <<obj, watch>> /\ queue' = queue \cup {cur}
            \/ /\ fresh /\ Store(cur, [obj[cur] EXCEPT !.st = mem.st])
               /\ \/ queue' = queue \cup {cur}
                  \/ ~retry /\ queue' = queue
  <1> DEFINE o == [obj[cur] EXCEPT !.st = mem.st]
  <1>1. /\ pc = "updateStatus" /\ cur \in Keys /\ mem \in Policy
        /\ retry \in BOOLEAN /\ faults \in 0..MaxFaults
    BY DEF UpdateStatus, CInv, TypeOK
  <1>2. KubeWrite(o, retry, TRUE) /\ UNCHANGED <<collectors, edits>>
    BY DEF UpdateStatus, OperatorOnly
  <1> HIDE DEF o
  <1>3. /\ pc' = "idle" /\ retry' = FALSE /\ cur' = "" /\ mem' = NoObject /\ fresh' = FALSE
        /\ cache' = cache /\ faults' \in 0..MaxFaults
        /\ UNCHANGED <<obj, watch>> \/ (fresh /\ Store(cur, o))
        /\ \/ queue' = queue \cup {cur}
           \/ queue' = queue /\ ~retry /\ fresh /\ Store(cur, o)
    BY <1>1, <1>2, KubeWriteSteps
  <1> QED BY <1>1, <1>2, <1>3 DEF o

LEMMA UpdateStatusKeeps ==
  ASSUME CInv, UpdateStatus
  PROVE  CInv'
  <1> DEFINE o == [obj[cur] EXCEPT !.st = mem.st]
  <1>1. /\ pc = "updateStatus" /\ cur \in Keys /\ mem \in Policy
        /\ pc' = "idle" /\ retry' = FALSE /\ cur' = "" /\ mem' = NoObject /\ fresh' = FALSE
        /\ UNCHANGED <<cache, collectors, edits>>
        /\ faults' \in 0..MaxFaults
        /\ \/ UNCHANGED <<obj, watch>> /\ queue' = queue \cup {cur}
           \/ /\ fresh /\ Store(cur, o)
              /\ \/ queue' = queue \cup {cur}
                 \/ ~retry /\ queue' = queue
    BY UpdateStatusSteps
  <1>2. Typed(Version)' /\ Copies'
    <2>1. CASE UNCHANGED <<obj, watch>>
      BY <1>1, <2>1 DEF CInv, TypeOK, Typed, Copies
    <2>2. CASE fresh /\ Store(cur, o)
      <3>1. obj[cur] \in Policy
        BY <1>1, <2>2, VersionType DEF CInv, TypeOK, Held
      <3>2. o \in Version
        BY <1>1, <3>1, GraftType DEF Version
      <3> HIDE DEF o
      <3> QED BY <1>1, <2>2, <3>2, VersionsTyped, StoreFacts DEF CInv
    <2> QED BY <1>1, <2>1, <2>2
  <1> HIDE DEF o
  <1>3. TypeOK'
    BY <1>1, <1>2 DEF CInv, TypeOK, Typed, Steps
  <1>4. Held'
    BY <1>1 DEF Held
  <1> QED BY <1>2, <1>3, <1>4 DEF CInv

LEMMA RestartKeeps ==
  ASSUME CInv, Restart
  PROVE  CInv'
  <1>1. faults' \in 0..MaxFaults
    <2>1. faults \in 0..MaxFaults /\ faults < MaxFaults /\ faults' = faults + 1
      BY DEF Restart, CInv, TypeOK
    <2> QED BY <2>1, BoundsType, OneMore
  <1>2. Typed(Version)' /\ Copies'
    BY ListedFacts DEF Restart, KubeRestart, CInv, TypeOK
  <1>3. TypeOK' /\ Held'
    BY <1>1, <1>2 DEF Restart, KubeRestart, CInv, TypeOK, Typed, Steps, Held
  <1> QED BY <1>2, <1>3 DEF CInv

LEMMA NextKeeps ==
  ASSUME CInv, [Next]_vars
  PROVE  CInv'
  <1>1. CASE UNCHANGED vars
    BY <1>1 DEF vars, kubeVars, CInv, TypeOK, Copies, Held
  <1>2. CASE Next
    BY <1>2, UserKeeps, ReconcileKeeps, InformKeeps, ListKeeps, UpdateStatusKeeps, RestartKeeps
       DEF Next, Worker
  <1> QED BY <1>1, <1>2

\* Cached, undelivered and in-memory copies of a policy stay related to the stored
\* one, whatever fails and whatever the index finds.
THEOREM CopiesAreRelated == Spec => []CInv
  <1>1. Init => CInv
    BY CInit
  <1>2. CInv /\ [Next]_vars => CInv'
    BY NextKeeps
  <1> QED BY <1>1, <1>2, PTL DEF Spec

\* Every variable keeps its type, and an idle worker holds no copy.
THEOREM TypeCorrect == Spec => []TypeOK
  <1>1. CInv => TypeOK
    BY DEF CInv
  <1> QED BY <1>1, CopiesAreRelated, PTL

-----------------------------------------------------------------------------
(* The second invariant: no wake-up is lost, provided the index finds the  *)
(* policies that select a Collector.                                       *)

\* A selector that matches a Collector is found for it.
IndexFinds ==
  \A sel \in Selectors, i \in Ids, c \in Collectors : Match(sel, i, c.local) => Affected(sel, c)

\* Unless another run is due, the worker looks at the version the cache has.
Looked == pc = "list" /\ cur \notin queue => mem = cache[cur]

\* Unless another run is due, the status about to be written is right for the
\* Collectors as they are, and the index knows the selector it was computed from.
Found ==
  pc = "updateStatus" /\ ~retry /\ cur \notin queue =>
    Current(mem) /\ cache[cur].exists /\ cache[cur].sel = mem.sel

WInv == CInv /\ Looked /\ Found /\ MatchedIsCurrent

\* Whether a status is right depends on the Collectors and on its own fields only.
LEMMA CurrentDepends ==
  ASSUME NEW o, NEW p, o.sel = p.sel, o.gen = p.gen, o.st = p.st, Current(p)
  PROVE  Current(o)
  BY DEF Current

LEMMA CurrentStays ==
  ASSUME NEW o \in Policy, Current(o), evaluatePolicySelector(o.sel)' = evaluatePolicySelector(o.sel)
  PROVE  Current(o)'
  <1> DEFINE now == evaluatePolicySelector(o.sel)
             then == evaluatePolicySelector(o.sel)'
  <1>1. o.st.og = o.gen /\ o.st.ids = capped(now) /\ o.st.count = Cardinality(now)
    BY DEF Current
  <1> HIDE DEF now, then
  <1>2. then = now
    BY DEF now, then
  <1>3. o.st.og = o.gen /\ o.st.ids = capped(then) /\ o.st.count = Cardinality(then)
    BY <1>1, <1>2
  <1> QED BY <1>3 DEF Current, then

LEMMA WInit == Init => WInv
  <1> SUFFICES ASSUME Init PROVE WInv
    OBVIOUS
  <1>1. PICK stored : KubeInit(stored)
    BY DEF Init
  <1>2. Looked /\ Found
    BY DEF Init, Looked, Found
  <1>3. MatchedIsCurrent
    BY <1>1 DEF KubeInit, MatchedIsCurrent, Quiet
  <1> QED BY <1>2, <1>3, CInit DEF WInv

\* A user's write is on its way to the cache, or there was nothing to write.
LEMMA UserWriteWakes ==
  ASSUME WInv, NEW k \in Keys, NEW o \in Version, UserWrite(k, o),
         Edit, NotOperator, UNCHANGED collectors
  PROVE  WInv'
  <1>0. CInv /\ CInv'
    BY UserWriteKeeps DEF WInv
  <1>1. Store(k, o) /\ UNCHANGED <<cache, queue, cur, mem, pc, retry, collectors>>
    BY DEF UserWrite, NotOperator
  <1>2. /\ watch'[k] = <<>> => obj' = obj /\ watch' = watch
        /\ \A j \in Keys \ {k} : obj'[j] = obj[j] /\ watch'[j] = watch[j]
    BY <1>0, <1>1, VersionsTyped, StoreFacts DEF CInv
  <1>3. Looked' /\ Found'
    BY <1>1 DEF WInv, Looked, Found, Current, evaluatePolicySelector
  <1>4. MatchedIsCurrent'
    <2> SUFFICES ASSUME NEW j \in Keys, obj'[j].exists, Quiet(j)' PROVE Current(obj[j])'
      BY DEF MatchedIsCurrent
    <2>1. obj'[j] = obj[j] /\ Quiet(j)
      BY <1>1, <1>2 DEF Quiet
    <2>2. Current(obj[j])
      BY <2>1 DEF WInv, MatchedIsCurrent
    <2> QED BY <1>1, <2>1, <2>2 DEF Current, evaluatePolicySelector
  <1> QED BY <1>0, <1>3, <1>4 DEF WInv

\* A Collector's event reaches every policy whose selection it changes.
LEMMA SelectionStays ==
  ASSUME IndexFinds, TypeOK, NEW i \in Ids, NEW new \in {NoCollector} \cup Collectors,
         ChangeCollector(i, new), NEW k \in Keys, k \notin queue',
         cache[k] \in Policy
  PROVE  evaluatePolicySelector(cache[k].sel)' = evaluatePolicySelector(cache[k].sel)
  <1> DEFINE sel == cache[k].sel
  <1>1. collectors' = [collectors EXCEPT ![i] = new] /\ cache' = cache
    BY DEF ChangeCollector
  <1>2. cache[k].exists /\ sel \in Selectors
    BY DEF Policy
  <1>3. ~Affected(sel, collectors[i]) /\ ~Affected(sel, new)
    BY <1>2 DEF ChangeCollector, mapCollectorToAffectedPolicies
  <1>4. ASSUME NEW c \in {NoCollector} \cup Collectors, c.exists, ~Affected(sel, c)
        PROVE  ~Match(sel, i, c.local)
    <2>1. c \in Collectors
      BY <1>4 DEF NoCollector
    <2> QED BY <2>1, <1>2, <1>4 DEF IndexFinds
  <1>5. collectors[i] \in {NoCollector} \cup Collectors
    BY DEF TypeOK
  <1>6. /\ ~(collectors[i].exists /\ Match(sel, i, collectors[i].local))
        /\ ~(new.exists /\ Match(sel, i, new.local))
    BY <1>3, <1>4, <1>5
  <1>7. collectors'[i] = new /\ \A j \in Ids \ {i} : collectors'[j] = collectors[j]
    BY <1>1 DEF TypeOK
  <1> HIDE DEF sel
  <1>8. {j \in Ids : collectors'[j].exists /\ Match(sel, j, collectors'[j].local)}
          = {j \in Ids : collectors[j].exists /\ Match(sel, j, collectors[j].local)}
    BY <1>6, <1>7
  <1> QED BY <1>1, <1>8 DEF evaluatePolicySelector, sel

LEMMA ChangeCollectorWakes ==
  ASSUME IndexFinds, WInv, NEW i \in Ids, NEW new \in {NoCollector} \cup Collectors,
         ChangeCollector(i, new)
  PROVE  WInv'
  <1>0. CInv /\ TypeOK /\ Copies
    BY DEF WInv, CInv
  <1>1. CInv'
    BY <1>0, UserKeeps DEF User
  <1>2. UNCHANGED <<obj, watch, cache, cur, mem, fresh, pc, retry>> /\ queue \subseteq queue'
    BY DEF ChangeCollector, NotOperator
  <1>3. Looked'
    BY <1>2 DEF WInv, Looked
  <1>4. Found'
    <2> SUFFICES ASSUME pc = "updateStatus", ~retry, cur \notin queue'
                 PROVE  Current(mem)' /\ cache[cur].exists /\ cache[cur].sel = mem.sel
      BY <1>2 DEF Found
    <2>1. Current(mem) /\ cache[cur].exists /\ cache[cur].sel = mem.sel
      BY <1>2 DEF WInv, Found
    <2>2. cur \in Keys /\ mem \in Policy /\ cache[cur] \in Policy
      BY <1>0, <2>1, VersionType DEF TypeOK
    <2>3. evaluatePolicySelector(mem.sel)' = evaluatePolicySelector(mem.sel)
      BY <1>0, <1>2, <2>1, <2>2, SelectionStays
    <2> QED BY <1>2, <2>1, <2>2, <2>3, CurrentStays
  <1>5. MatchedIsCurrent'
    <2> SUFFICES ASSUME NEW k \in Keys, obj[k].exists, Quiet(k)' PROVE Current(obj[k])'
      BY <1>2 DEF MatchedIsCurrent
    <2>1. Quiet(k) /\ k \notin queue' /\ watch[k] = <<>>
      BY <1>2 DEF Quiet
    <2>2. cache[k] = obj[k] /\ obj[k] \in Policy
      BY <1>0, <2>1, VersionType DEF Copies, TypeOK
    <2>3. Current(obj[k])
      BY <2>1 DEF WInv, MatchedIsCurrent
    <2>4. evaluatePolicySelector(obj[k].sel)' = evaluatePolicySelector(obj[k].sel)
      BY <1>0, <1>2, <2>1, <2>2, SelectionStays
    <2> QED BY <1>2, <2>2, <2>3, <2>4, CurrentStays
  <1> QED BY <1>1, <1>3, <1>4, <1>5 DEF WInv

LEMMA UserWakes ==
  ASSUME IndexFinds, WInv, User
  PROVE  WInv'
  <1>1. ASSUME NEW k \in Keys, NEW s \in Selectors, CreatePolicy(k, s)
        PROVE  WInv'
    BY <1>1, NewPolicyType, UserWriteWakes DEF CreatePolicy, Version
  <1>2. ASSUME NEW k \in Keys, NEW s \in Selectors, EditSpec(k, s)
        PROVE  WInv'
    <2>1. obj[k] \in Policy
      BY <1>2, VersionType DEF EditSpec, WInv, CInv, TypeOK
    <2>2. [obj[k] EXCEPT !.sel = s, !.gen = @ + 1] \in Version
      BY <2>1, EditedType DEF Version
    <2> QED BY <1>2, <2>2, UserWriteWakes DEF EditSpec
  <1>3. ASSUME NEW k \in Keys, DeletePolicy(k)
        PROVE  WInv'
    BY <1>3, UserWriteWakes DEF DeletePolicy, Version
  <1> QED BY <1>1, <1>2, <1>3, ChangeCollectorWakes DEF User

\* The other policies are not touched by what happens to k.
LEMMA OthersStay ==
  ASSUME WInv, NEW j \in Keys, obj'[j] = obj[j], obj'[j].exists, UNCHANGED collectors,
         Quiet(j)
  PROVE  Current(obj[j])'
  <1>1. Current(obj[j])
    BY DEF WInv, MatchedIsCurrent
  <1> QED BY <1>1 DEF Current, evaluatePolicySelector

LEMMA ReconcileWakes ==
  ASSUME WInv, NEW k \in Keys, Reconcile(k)
  PROVE  WInv'
  <1>0. CInv /\ TypeOK /\ Copies
    BY DEF WInv, CInv
  <1>1. CInv'
    BY <1>0, ReconcileKeeps
  <1>2. CASE ReconcileNothing(k)
    <2>1. /\ ~cache[k].exists /\ cur = "" /\ pc = "idle"
          /\ UNCHANGED <<obj, watch, cache, cur, mem, pc, retry, collectors>>
          /\ queue' = queue \ {k}
      BY <1>0, <1>2, KeysAssumption DEF ReconcileNothing, FetchAndReturn, OperatorOnly, TypeOK
    <2>2. Looked' /\ Found'
      BY <2>1 DEF Looked, Found
    <2>3. MatchedIsCurrent'
      <3> SUFFICES ASSUME NEW j \in Keys, obj'[j].exists, Quiet(j)' PROVE Current(obj[j])'
        BY DEF MatchedIsCurrent
      <3>1. j # k
        BY <1>0, <2>1 DEF Copies, Quiet
      <3> QED BY <2>1, <3>1, OthersStay DEF Quiet
    <2> QED BY <1>1, <2>2, <2>3 DEF WInv
  <1>3. CASE ReconcileGet(k)
    <2>1. /\ cur = "" /\ cur' = k /\ mem' = cache[k] /\ pc' = "list" /\ queue' = queue \ {k}
          /\ UNCHANGED <<obj, watch, cache, collectors>>
      BY <1>3 DEF ReconcileGet, Fetch, OperatorOnly
    <2>2. Looked' /\ Found'
      BY <2>1 DEF Looked, Found
    <2>3. MatchedIsCurrent'
      <3> SUFFICES ASSUME NEW j \in Keys, obj'[j].exists, Quiet(j)' PROVE Current(obj[j])'
        BY DEF MatchedIsCurrent
      <3>1. Quiet(j)
        BY <2>1, KeysAssumption DEF Quiet
      <3> QED BY <2>1, <3>1, OthersStay
    <2> QED BY <1>1, <2>2, <2>3 DEF WInv
  <1> QED BY <1>2, <1>3 DEF Reconcile

LEMMA InformWakes ==
  ASSUME WInv, NEW k \in Keys, Inform(k)
  PROVE  WInv'
  <1>0. CInv /\ TypeOK
    BY DEF WInv, CInv
  <1>1. CInv'
    BY <1>0, InformKeeps
  <1>2. /\ queue' = queue \cup {k}
        /\ \A j \in Keys \ {k} : cache'[j] = cache[j] /\ watch'[j] = watch[j]
        /\ UNCHANGED <<obj, cur, mem, pc, retry, collectors>>
    BY <1>0 DEF Inform, Deliver, TypeOK
  <1>3. pc # "idle" => cur \in Keys
    BY <1>0 DEF TypeOK
  <1>4. Looked'
    BY <1>2, <1>3 DEF WInv, Looked
  <1>5. Found'
    BY <1>2, <1>3 DEF WInv, Found, Current, evaluatePolicySelector
  <1>6. MatchedIsCurrent'
    <2> SUFFICES ASSUME NEW j \in Keys, obj'[j].exists, Quiet(j)' PROVE Current(obj[j])'
      BY DEF MatchedIsCurrent
    <2>1. Quiet(j)
      BY <1>2 DEF Quiet
    <2> QED BY <1>2, <2>1, OthersStay
  <1> QED BY <1>1, <1>4, <1>5, <1>6 DEF WInv

\* The status that is written is right when it is computed; a status that is left
\* alone is right already.
LEMMA ListWakes ==
  ASSUME WInv, ListCollectors
  PROVE  WInv'
  <1> DEFINE matched == evaluatePolicySelector(mem.sel)
             written == [mem EXCEPT !.st = MatchedStatus(mem, matched)]
  <1>0. CInv /\ TypeOK /\ Copies
    BY DEF WInv, CInv
  <1>1. CInv'
    BY <1>0, ListKeeps
  <1>2. pc = "list" /\ cur \in Keys /\ mem \in Policy /\ cache[cur] \in Version
        /\ UNCHANGED <<obj, watch, cache, collectors>>
    BY <1>0 DEF ListCollectors, OperatorOnly, TypeOK, NoOp, JustReturn, ToWrite, Continue
  <1>3. matched \in SUBSET Ids /\ Cardinality(matched) \in Nat
    BY SelectedType
  <1>4. cur \notin queue => mem = cache[cur]
    BY <1>2 DEF WInv, Looked
  <1>5. CASE alreadyReconciled(mem, matched) /\ NoOp
    <2>1. cur' = "" /\ pc' = "idle" /\ queue' = queue
      BY <1>5 DEF NoOp, JustReturn, Return
    <2>2. Looked' /\ Found'
      BY <2>1 DEF Looked, Found
    <2>3. MatchedIsCurrent'
      <3> SUFFICES ASSUME NEW j \in Keys, obj'[j].exists, Quiet(j)' PROVE Current(obj[j])'
        BY DEF MatchedIsCurrent
      <3>1. CASE j # cur
        BY <1>2, <2>1, <3>1, OthersStay DEF Quiet
      <3>2. CASE j = cur
        <4>1. mem = obj[j]
          BY <1>0, <1>2, <1>4, <2>1, <3>2 DEF Quiet, Copies
        <4>2. Current(mem)
          BY <1>5 DEF alreadyReconciled, Current
        <4> QED BY <1>2, <4>1, <4>2 DEF Current, evaluatePolicySelector
      <3> QED BY <3>1, <3>2
    <2> QED BY <1>1, <2>2, <2>3 DEF WInv
  <1>6. ASSUME NEW st, NEW again \in BOOLEAN, ToWrite(st, again),
               ~again => /\ Current([mem EXCEPT !.st = st])
                         /\ [mem EXCEPT !.st = st].sel = mem.sel
        PROVE  WInv'
    <2>1. /\ mem' = [mem EXCEPT !.st = st] /\ pc' = "updateStatus" /\ retry' = again
          /\ UNCHANGED <<queue, cur>>
      BY <1>6 DEF ToWrite, Continue
    <2>2. Looked'
      BY <2>1 DEF Looked
    <2>3. Found'
      <3> SUFFICES ASSUME ~again, cur \notin queue
                   PROVE  Current(mem)' /\ cache[cur].exists /\ cache[cur].sel = mem'.sel
        BY <1>2, <2>1 DEF Found
      <3>1. cache[cur].exists /\ cache[cur].sel = mem'.sel
        BY <1>2, <1>4, <1>6, <2>1, VersionType
      <3>2. Current(mem)'
        BY <1>2, <1>6, <2>1 DEF Current, evaluatePolicySelector
      <3> QED BY <3>1, <3>2
    <2>4. MatchedIsCurrent'
      <3> SUFFICES ASSUME NEW j \in Keys, obj'[j].exists, Quiet(j)' PROVE Current(obj[j])'
        BY DEF MatchedIsCurrent
      <3> QED BY <1>2, <2>1, OthersStay DEF Quiet
    <2> QED BY <1>1, <2>2, <2>3, <2>4 DEF WInv
  <1>7. CASE ToWrite(MatchedStatus(mem, matched), FALSE)
    <2>1. /\ written.sel = mem.sel /\ written.gen = mem.gen
          /\ written.st = MatchedStatus(mem, matched)
      BY <1>2, <1>3, MatchedStatusType
    <2> HIDE DEF written
    <2>2. Current(written)
      BY <2>1 DEF Current, MatchedStatus
    <2> QED BY <1>6, <1>7, <2>1, <2>2 DEF written
  <1>8. CASE ToWrite(ErrorStatus(mem), TRUE)
    BY <1>6, <1>8
  <1> QED BY <1>5, <1>7, <1>8 DEF ListCollectors

\* A write that changes the status wakes the controller up again; one that changes
\* nothing leaves a status that is right.
LEMMA UpdateStatusWakes ==
  ASSUME WInv, UpdateStatus
  PROVE  WInv'
  <1> DEFINE o == [obj[cur] EXCEPT !.st = mem.st]
  <1>0. CInv /\ TypeOK /\ Copies
    BY DEF WInv, CInv
  <1>1. CInv'
    BY <1>0, UpdateStatusKeeps
  <1>2. /\ pc = "updateStatus" /\ cur \in Keys /\ mem \in Policy
        /\ pc' = "idle" /\ cur' = ""
        /\ UNCHANGED <<cache, collectors>>
        /\ \/ UNCHANGED <<obj, watch>> /\ queue' = queue \cup {cur}
           \/ /\ fresh /\ Store(cur, o)
              /\ \/ queue' = queue \cup {cur}
                 \/ ~retry /\ queue' = queue
    BY <1>0, UpdateStatusSteps
  <1>3. Looked' /\ Found'
    BY <1>2 DEF Looked, Found
  <1>4. CASE UNCHANGED <<obj, watch>> /\ queue' = queue \cup {cur}
    <2>1. MatchedIsCurrent'
      <3> SUFFICES ASSUME NEW j \in Keys, obj'[j].exists, Quiet(j)' PROVE Current(obj[j])'
        BY DEF MatchedIsCurrent
      <3> QED BY <1>2, <1>4, OthersStay DEF Quiet
    <2> QED BY <1>1, <1>3, <2>1 DEF WInv
  <1>5. CASE /\ fresh /\ Store(cur, o)
             /\ \/ queue' = queue \cup {cur}
                \/ ~retry /\ queue' = queue
    <2>1. obj[cur] \in Policy /\ mem.sel = obj[cur].sel /\ mem.gen = obj[cur].gen
      BY <1>0, <1>2, <1>5, VersionType DEF CInv, TypeOK, Held
    <2>2. o \in Policy /\ o.sel = mem.sel /\ o.gen = mem.gen /\ o.st = mem.st
      BY <1>2, <2>1, GraftType
    <2> HIDE DEF o
    <2>3. /\ obj'[cur] = o
          /\ \A j \in Keys \ {cur} : obj'[j] = obj[j] /\ watch'[j] = watch[j]
      <3>1. o \in Version
        BY <2>2 DEF Version
      <3> QED BY <1>0, <1>2, <1>5, <3>1, VersionsTyped, StoreFacts
    <2>4. MatchedIsCurrent'
      <3> SUFFICES ASSUME NEW j \in Keys, obj'[j].exists, Quiet(j)' PROVE Current(obj[j])'
        BY DEF MatchedIsCurrent
      <3>1. CASE j # cur
        BY <1>2, <1>5, <2>3, <3>1, OthersStay DEF Quiet
      <3>2. CASE j = cur
        <4>1. ~retry /\ cur \notin queue
          BY <1>5, <3>2 DEF Quiet
        <4>2. Current(mem)
          BY <1>2, <4>1 DEF WInv, Found
        <4>3. Current(o)
          BY <2>2, <4>2, CurrentDepends
        <4> QED BY <1>2, <2>3, <3>2, <4>3 DEF Current, evaluatePolicySelector
      <3> QED BY <3>1, <3>2
    <2> QED BY <1>1, <1>3, <2>4 DEF WInv
  <1> QED BY <1>2, <1>4, <1>5

LEMMA RestartWakes ==
  ASSUME WInv, Restart
  PROVE  WInv'
  <1>1. CInv'
    BY RestartKeeps DEF WInv
  <1>2. pc' = "idle" /\ queue' = {k \in Keys : obj[k].exists} /\ obj' = obj
    BY DEF Restart, KubeRestart
  <1>3. Looked' /\ Found' /\ MatchedIsCurrent'
    BY <1>2 DEF Looked, Found, MatchedIsCurrent, Quiet
  <1> QED BY <1>1, <1>3 DEF WInv

LEMMA NextWakes ==
  ASSUME IndexFinds, WInv, [Next]_vars
  PROVE  WInv'
  <1>1. CASE UNCHANGED vars
    <2>1. CInv'
      BY NextKeeps DEF WInv
    <2>2. UNCHANGED <<obj, watch, cache, queue, cur, mem, fresh, pc, retry, collectors>>
      BY <1>1 DEF vars, kubeVars
    <2>3. Looked' /\ Found'
      BY <2>2 DEF WInv, Looked, Found, Current, evaluatePolicySelector
    <2>4. MatchedIsCurrent'
      BY <2>2 DEF WInv, MatchedIsCurrent, Quiet, Current, evaluatePolicySelector
    <2> QED BY <2>1, <2>3, <2>4 DEF WInv
  <1>2. CASE Next
    BY <1>2, UserWakes, ReconcileWakes, InformWakes, ListWakes, UpdateStatusWakes, RestartWakes
       DEF Next, Worker
  <1> QED BY <1>1, <1>2

LEMMA ServedAreFound ==
  ASSUME \A sel \in Selectors : Served(sel)
  PROVE  IndexFinds
  BY IndexFindsServed, PolicyAssumption DEF IndexFinds

\* No wake-up is lost, if every selector is one the index serves: a policy that
\* nobody is about to look at has a status that is right for its spec and for the
\* Collectors as they are.  (IDs besides matchers break it: see Served.)
THEOREM NoLostWakeUp ==
  ASSUME \A sel \in Selectors : Served(sel)
  PROVE  Spec => []MatchedIsCurrent
  <1>1. Init => WInv
    BY WInit
  <1>2. WInv /\ [Next]_vars => WInv'
    BY NextWakes, ServedAreFound
  <1>3. WInv => MatchedIsCurrent
    BY DEF WInv
  <1> QED BY <1>1, <1>2, <1>3, PTL DEF Spec

===============================================================================
