--------------------------- MODULE TenantPolicyProofs ---------------------------
(***************************************************************************)
(* Proofs about TenantPolicy, for any policies, subjects, matchers, labels *)
(* and requests, any faults and any bounds.                                *)
(*                                                                         *)
(* The reconciler and the decisions share the policies only, and decisions *)
(* write nothing, so there are two inductive invariants: KInv about the    *)
(* stored policies and the copies of them, DInv about a decision and what  *)
(* was the case while it was taken.                                        *)
(***************************************************************************)
EXTENDS TenantPolicy, ControllerProofs, FiniteSetTheorems, TLAPS

-----------------------------------------------------------------------------
(* What the operators of the model return.                                 *)

LEMMA BoundsType == MaxEdits \in Nat /\ MaxFaults \in Nat
  BY TenantAssumption, FaultsAssumption

LEMMA VersionType ==
  ASSUME NEW o \in Version
  PROVE  o.exists <=> o \in Policy
  <1>1. o \in Policy => o.exists
    BY DEF Policy
  <1>2. o = NoObject => ~o.exists
    BY DEF NoObject
  <1> QED BY <1>1, <1>2 DEF Version

LEMMA NoItemsType ==
  /\ NoItems \in [Keys -> Version]
  /\ \A k \in Keys : ~NoItems[k].exists
  BY DEF NoItems, Version, NoObject

\* The status computed for a policy, and the policy that carries it.
LEMMA WantedStatusType ==
  ASSUME NEW o \in Policy
  PROVE  /\ WantedStatus(o) \in Status /\ WantedStatus(o).og = o.gen
         /\ WantedStatus(o).ready = "False" <=> ~validateTenantPolicySpec(o.spec)
  <1>1. o.gen \in Nat /\ o.spec \in Specs
    BY DEF Policy
  <1>2. Cardinality(o.spec.subjects) \in Nat
    BY <1>1, TenantAssumption, FS_CardinalityType
  <1> QED BY <1>1, <1>2 DEF WantedStatus, Status

\* A policy with another status.
LEMMA GraftType ==
  ASSUME NEW o \in Policy, NEW st \in Status
  PROVE  /\ [o EXCEPT !.st = st] \in Policy
         /\ [o EXCEPT !.st = st].spec = o.spec
         /\ [o EXCEPT !.st = st].gen = o.gen
         /\ [o EXCEPT !.st = st].st = st
         /\ [o EXCEPT !.st = st].exists
  BY DEF Policy

LEMMA NewPolicyType ==
  ASSUME NEW s \in Specs
  PROVE  /\ NewPolicy(s) \in Policy
         /\ NewPolicy(s).spec = s /\ NewPolicy(s).gen = 1
         /\ NewPolicy(s).st.og = 0 /\ NewPolicy(s).st.ready = ""
  BY DEF NewPolicy, Policy, Status

LEMMA EditedType ==
  ASSUME NEW o \in Policy, NEW s \in Specs
  PROVE  /\ [o EXCEPT !.spec = s, !.gen = @ + 1] \in Policy
         /\ [o EXCEPT !.spec = s, !.gen = @ + 1].spec = s
         /\ [o EXCEPT !.spec = s, !.gen = @ + 1].gen = o.gen + 1
         /\ [o EXCEPT !.spec = s, !.gen = @ + 1].st = o.st
  <1>1. o.gen + 1 \in Nat
    BY DEF Policy
  <1> QED BY <1>1 DEF Policy

\* What the webhook accepts the reconciler accepts.
LEMMA StricterSpec ==
  ASSUME NEW s, validateTenantPolicy(s)
  PROVE  validateTenantPolicySpec(s)
  BY DEF validateTenantPolicy, validateTenantPolicySpec, validateSubjects,
         validateRequiredMatchers, validateNamespaceSelector

\* The wanted status depends on spec and generation only.
LEMMA WantedDepends ==
  ASSUME NEW o, NEW p, o.spec = p.spec, o.gen = p.gen
  PROVE  WantedStatus(o) = WantedStatus(p)
  BY DEF WantedStatus

-----------------------------------------------------------------------------
(* The first invariant: the reconciler.                                    *)

WorkerType ==
  /\ queue \subseteq Keys /\ fresh \in BOOLEAN /\ retry = FALSE
  /\ \/ pc = "idle" /\ cur = "" /\ mem = NoObject
     \/ pc = "updateStatus" /\ cur \in Keys /\ mem \in Policy

\* The worker's copy carries the status wanted for it, and with the stored
\* resourceVersion it has the stored spec and generation.
Held ==
  pc # "idle" =>
    /\ mem.st = WantedStatus(mem)
    /\ fresh => obj[cur].exists /\ mem.spec = obj[cur].spec /\ mem.gen = obj[cur].gen

\* What is right of every stored policy: a status is never ahead of the spec and is
\* the wanted one if it is not behind; the webhook has let the spec pass.
Right(o) ==
  /\ o.st.og <= o.gen
  /\ o.st.og = o.gen => o.st = WantedStatus(o)
  /\ webhook => validateTenantPolicy(o.spec) /\ o.st.ready # "False"

Stored == \A k \in Keys : obj[k].exists => Right(obj[k])

KInv ==
  /\ webhook \in BOOLEAN
  /\ Typed(Version) /\ WorkerType
  /\ Copies /\ Held /\ Stored

\* Nothing but the reconciler's view counts for the first invariant.
LEMMA ElsewhereKeepsK ==
  ASSUME KInv, UNCHANGED <<kubeVars, pc, retry, webhook>>
  PROVE  KInv'
  <1>1. UNCHANGED <<obj, watch, cache, queue, cur, mem, fresh, pc, retry, webhook>>
    BY DEF kubeVars
  <1>2. Stored'
    BY <1>1 DEF KInv, Stored, Right
  <1> QED BY <1>1, <1>2 DEF KInv, Typed, WorkerType, Copies, Held

LEMMA NewIsRight ==
  ASSUME NEW s \in Specs, webhook => validateTenantPolicy(s)
  PROVE  Right(NewPolicy(s))
  <1> DEFINE n == NewPolicy(s)
  <1>1. n.spec = s /\ n.st.ready = ""
    BY NewPolicyType
  <1>2. n.gen = 1 /\ n.st.og = 0
    BY NewPolicyType
  <1> HIDE DEF n
  <1>3. n.st.og <= n.gen /\ n.st.og # n.gen
    BY <1>2
  <1>4. n.st.ready # "False" /\ (webhook => validateTenantPolicy(n.spec))
    BY <1>1
  <1>5. Right(n)
    BY <1>3, <1>4 DEF Right
  <1> QED BY <1>5 DEF n

\* A policy with the status wanted for it is right, once the webhook has seen its spec.
LEMMA WantedIsRight ==
  ASSUME NEW o \in Policy, o.st = WantedStatus(o), webhook => validateTenantPolicy(o.spec)
  PROVE  Right(o)
  <1>1. o.st.og = o.gen /\ o.gen \in Nat
    BY WantedStatusType DEF Policy
  <1>2. webhook => o.st.ready # "False"
    BY WantedStatusType, StricterSpec
  <1> QED BY <1>1, <1>2 DEF Right

LEMMA ReconciledIsRight ==
  ASSUME NEW s \in Specs, webhook => validateTenantPolicy(s)
  PROVE  Reconciled(s) \in Policy /\ Right(Reconciled(s))
  <1> DEFINE n == NewPolicy(s)
  <1>1. n \in Policy /\ n.spec = s
    BY NewPolicyType
  <1>2. WantedStatus(n) \in Status
    BY <1>1, WantedStatusType
  <1> HIDE DEF n
  <1>3. /\ Reconciled(s) \in Policy /\ Reconciled(s).spec = s
        /\ Reconciled(s).gen = n.gen /\ Reconciled(s).st = WantedStatus(n)
    BY <1>1, <1>2, GraftType DEF Reconciled, n
  <1>4. WantedStatus(Reconciled(s)) = WantedStatus(n)
    BY <1>1, <1>3, WantedDepends
  <1> QED BY <1>3, <1>4, WantedIsRight

LEMMA KInit == Init => KInv
  <1> SUFFICES ASSUME Init PROVE KInv
    OBVIOUS
  <1>1. PICK S \in SUBSET Keys, spec \in [Keys -> {s \in Specs : webhook => validateTenantPolicy(s)}] :
          \/ KubeInit([k \in Keys |-> IF k \in S THEN Reconciled(spec[k]) ELSE NoObject])
          \/ \E new \in S :
                KubeInit([k \in Keys |-> IF k = new THEN NewPolicy(spec[k]) ELSE NoObject])
    BY DEF Init
  <1>2. \A k \in Keys : spec[k] \in Specs /\ (webhook => validateTenantPolicy(spec[k]))
    OBVIOUS
  <1>3. /\ \A k \in Keys : obj[k] \in Version /\ (obj[k].exists => Right(obj[k]))
        /\ obj = [k \in Keys |-> obj[k]]
        /\ cache = obj /\ watch = [k \in Keys |-> <<>>] /\ queue \subseteq Keys
        /\ cur = "" /\ mem = NoObject /\ fresh = FALSE
    <2>1. CASE KubeInit([k \in Keys |-> IF k \in S THEN Reconciled(spec[k]) ELSE NoObject])
      <3>1. obj = [k \in Keys |-> IF k \in S THEN Reconciled(spec[k]) ELSE NoObject]
        BY <2>1 DEF KubeInit
      <3>2. ASSUME NEW k \in Keys
            PROVE  obj[k] \in Version /\ (obj[k].exists => Right(obj[k]))
        <4>1. CASE k \in S
          BY <1>2, <3>1, <4>1, ReconciledIsRight DEF Version
        <4>2. CASE k \notin S
          BY <3>1, <4>2 DEF Version, NoObject
        <4> QED BY <4>1, <4>2
      <3>3. obj = [k \in Keys |-> obj[k]]
        BY <3>1
      <3> QED BY <2>1, <3>2, <3>3 DEF KubeInit
    <2>2. CASE \E new \in S :
                 KubeInit([k \in Keys |-> IF k = new THEN NewPolicy(spec[k]) ELSE NoObject])
      <3>0. PICK new \in S :
                 KubeInit([k \in Keys |-> IF k = new THEN NewPolicy(spec[k]) ELSE NoObject])
        BY <2>2
      <3>1. obj = [k \in Keys |-> IF k = new THEN NewPolicy(spec[k]) ELSE NoObject]
        BY <3>0 DEF KubeInit
      <3>2. ASSUME NEW k \in Keys
            PROVE  obj[k] \in Version /\ (obj[k].exists => Right(obj[k]))
        <4>1. CASE k = new
          BY <1>2, <3>1, <4>1, NewPolicyType, NewIsRight DEF Version
        <4>2. CASE k # new
          BY <3>1, <4>2 DEF Version, NoObject
        <4> QED BY <4>1, <4>2
      <3>3. obj = [k \in Keys |-> obj[k]]
        BY <3>1
      <3> QED BY <3>0, <3>2, <3>3 DEF KubeInit
    <2> QED BY <1>1, <2>1, <2>2
  <1>4. obj \in [Keys -> Version]
    BY <1>3
  <1>5. Typed(Version) /\ Copies
    <2>1. [k \in Keys |-> <<>>] \in [Keys -> Seq(Version)]
      BY EmptyFacts
    <2> QED BY <1>3, <1>4, <2>1 DEF Typed, Copies
  <1>6. WorkerType /\ Held /\ Stored /\ webhook \in BOOLEAN
    BY <1>3 DEF WorkerType, Held, Stored, Init
  <1> QED BY <1>5, <1>6 DEF KInv

\* An administrator's write of a policy that is right, or a deletion.
LEMMA WritePolicyKeepsK ==
  ASSUME KInv, NEW k \in Keys, NEW o \in Version, o.exists => Right(o), WritePolicy(k, o)
  PROVE  KInv'
  <1>0. /\ Store(k, o) /\ fresh' = (fresh /\ cur # k)
        /\ UNCHANGED <<cache, queue, cur, mem, pc, retry, webhook>>
    BY DEF WritePolicy, UserWrite
  <1>1. /\ Typed(Version)' /\ Copies' /\ obj'[k] = o
        /\ \A j \in Keys \ {k} : obj'[j] = obj[j]
    BY <1>0, StoreFacts DEF KInv
  <1>2. WorkerType'
    BY <1>0 DEF KInv, WorkerType
  <1>3. Held'
    <2>1. CASE pc = "idle"
      BY <1>0, <2>1 DEF Held
    <2>2. CASE pc # "idle"
      <3>1. cur \in Keys /\ mem.st = WantedStatus(mem)
        BY <2>2 DEF KInv, WorkerType, Held
      <3>2. fresh' => cur # k /\ fresh
        BY <1>0
      <3> QED BY <1>0, <1>1, <2>2, <3>1, <3>2 DEF KInv, Held, WantedStatus
    <2> QED BY <2>1, <2>2
  <1>4. Stored'
    <2> SUFFICES ASSUME NEW j \in Keys, obj'[j].exists PROVE Right(obj[j])'
      BY DEF Stored
    <2>1. Right(obj'[j])
      BY <1>1 DEF KInv, Stored
    <2> QED BY <1>0, <2>1 DEF Right, validateTenantPolicy
  <1> QED BY <1>0, <1>1, <1>2, <1>3, <1>4 DEF KInv

LEMMA AdministratorKeepsK ==
  ASSUME KInv, NEW k \in Keys,
         (\E s \in Specs : CreatePolicy(k, s) \/ EditSpec(k, s)) \/ DeletePolicy(k)
  PROVE  KInv'
  <1>1. ASSUME NEW s \in Specs, CreatePolicy(k, s)
        PROVE  KInv'
    BY <1>1, NewPolicyType, NewIsRight, WritePolicyKeepsK DEF CreatePolicy, Version
  <1>2. ASSUME NEW s \in Specs, EditSpec(k, s)
        PROVE  KInv'
    <2> DEFINE o == [obj[k] EXCEPT !.spec = s, !.gen = @ + 1]
    <2>1. obj[k] \in Policy /\ Right(obj[k])
      BY <1>2, VersionType DEF EditSpec, KInv, Typed, Stored
    <2>2. o \in Policy /\ o.spec = s /\ o.gen = obj[k].gen + 1 /\ o.st = obj[k].st
      BY <2>1, EditedType
    <2>3. WritePolicy(k, o) /\ (webhook => validateTenantPolicy(s))
      BY <1>2 DEF EditSpec
    <2> HIDE DEF o
    <2>4. obj[k].gen \in Nat /\ obj[k].st.og \in Nat
      BY <2>1 DEF Policy, Status
    <2>5. Right(o)
      BY <2>1, <2>2, <2>3, <2>4 DEF Right
    <2>6. o \in Version
      BY <2>2 DEF Version
    <2> QED BY <2>3, <2>5, <2>6, WritePolicyKeepsK
  <1>3. CASE DeletePolicy(k)
    BY <1>3, WritePolicyKeepsK DEF DeletePolicy, Version, NoObject
  <1> QED BY <1>1, <1>2, <1>3

LEMMA ReconcileKeepsK ==
  ASSUME KInv, NEW k \in Keys, Reconcile(k)
  PROVE  KInv'
  <1>1. CASE ReconcileNothing(k)
    <2>1. queue' \subseteq queue /\ UNCHANGED <<obj, watch, cache, cur, mem, fresh, pc, retry, webhook>>
      BY <1>1 DEF ReconcileNothing, FetchAndReturn, RequestsUntouched
    <2>2. Stored'
      BY <2>1 DEF KInv, Stored, Right
    <2> QED BY <2>1, <2>2 DEF KInv, Typed, WorkerType, Copies, Held
  <1>2. CASE ReconcileStatus(k)
    <2> DEFINE o == [cache[k] EXCEPT !.st = WantedStatus(cache[k])]
    <2>1. cache[k] \in Policy
      BY <1>2, VersionType DEF ReconcileStatus, KInv, Typed
    <2>2. WantedStatus(cache[k]) \in Status
      BY <2>1, WantedStatusType
    <2>3. /\ o \in Policy /\ o.spec = cache[k].spec /\ o.gen = cache[k].gen
          /\ o.st = WantedStatus(cache[k])
      BY <2>1, <2>2, GraftType
    <2>4. /\ queue' \subseteq queue /\ cur' = k /\ mem' = o /\ fresh' = (watch[k] = <<>>)
          /\ pc' = "updateStatus" /\ UNCHANGED <<obj, watch, cache, retry, webhook>>
      BY <1>2 DEF ReconcileStatus, Fetch, RequestsUntouched
    <2> HIDE DEF o
    <2>5. o.st = WantedStatus(o)
      BY <2>3, WantedDepends
    <2>6. Held'
      <3>1. fresh' => cache[k] = obj[k]
        BY <2>4 DEF KInv, Copies
      <3>2. WantedStatus(mem)' = WantedStatus(mem')
        BY DEF WantedStatus
      <3> QED BY <1>2, <2>3, <2>4, <2>5, <3>1, <3>2 DEF Held, ReconcileStatus
    <2>7. WorkerType'
      BY <2>3, <2>4 DEF KInv, WorkerType
    <2>8. Stored'
      BY <2>4 DEF KInv, Stored, Right
    <2> QED BY <2>4, <2>6, <2>7, <2>8 DEF KInv, Typed, Copies
  <1> QED BY <1>1, <1>2 DEF Reconcile

LEMMA InformKeepsK ==
  ASSUME KInv, NEW k \in Keys, Inform(k)
  PROVE  KInv'
  <1>1. /\ Typed(Version)' /\ Copies' /\ queue' = queue \cup {k}
        /\ UNCHANGED <<obj, cur, mem, fresh, pc, retry, webhook>>
    BY DeliverFacts DEF Inform, KInv, RequestsUntouched
  <1>2. Stored'
    BY <1>1 DEF KInv, Stored, Right
  <1> QED BY <1>1, <1>2 DEF KInv, WorkerType, Held

\* What is written is right for the stored spec, or nothing is.
LEMMA UpdateStatusKeepsK ==
  ASSUME KInv, UpdateStatus, faults \in 0..MaxFaults
  PROVE  KInv'
  <1> DEFINE o == [obj[cur] EXCEPT !.st = mem.st]
  <1>1. pc = "updateStatus" /\ cur \in Keys /\ mem \in Policy /\ mem.st = WantedStatus(mem)
    BY DEF UpdateStatus, KInv, WorkerType, Held
  <1>0. Typed(Version) /\ Copies
    BY DEF KInv
  <1>2. KubeWrite(o, FALSE, TRUE) /\ UNCHANGED webhook
    BY DEF UpdateStatus, RequestsUntouched
  <1>3. /\ pc' = "idle" /\ retry' = FALSE /\ cur' = "" /\ mem' = NoObject /\ fresh' = FALSE
        /\ cache' = cache
        /\ UNCHANGED <<obj, watch>> \/ (fresh /\ Store(cur, o))
        /\ queue' \subseteq queue \cup {cur}
    <2> HIDE DEF o
    <2> QED BY <1>2, KubeWriteSteps
  <1>4. WorkerType' /\ Held'
    BY <1>1, <1>3 DEF KInv, WorkerType, Held
  <1>5. CASE UNCHANGED <<obj, watch>>
    <2>1. Stored'
      BY <1>2, <1>5 DEF KInv, Stored, Right
    <2> QED BY <1>2, <1>3, <1>4, <1>5, <2>1 DEF KInv, Typed, Copies
  <1>6. CASE fresh /\ Store(cur, o)
    <2>1. obj[cur] \in Policy /\ mem.spec = obj[cur].spec /\ mem.gen = obj[cur].gen
      BY <1>1, <1>6, VersionType DEF KInv, Typed, Held
    <2>2. mem.st \in Status
      BY <1>1 DEF Policy
    <2>3. o \in Policy /\ o.spec = mem.spec /\ o.gen = mem.gen /\ o.st = mem.st
      BY <2>1, <2>2, GraftType
    <2> HIDE DEF o
    <2>4. o \in Version
      BY <2>3 DEF Version
    <2>5. /\ Typed(Version)' /\ Copies' /\ obj'[cur] = o
          /\ \A j \in Keys \ {cur} : obj'[j] = obj[j]
      <3>1. cur \in Keys /\ Store(cur, o) /\ cache' = cache
        BY <1>1, <1>3, <1>6
      <3> QED BY <1>0, <2>4, <3>1, StoreFacts
    <2>6. o.st = WantedStatus(o)
      BY <1>1, <2>3, WantedDepends
    <2>7. webhook => validateTenantPolicy(o.spec)
      BY <1>1, <1>6, <2>1, <2>3 DEF KInv, Held, Stored, Right
    <2>8. Right(o)
      BY <2>3, <2>6, <2>7, WantedIsRight
    <2>9. Stored'
      <3> SUFFICES ASSUME NEW j \in Keys, obj'[j].exists PROVE Right(obj[j])'
        BY DEF Stored
      <3>1. Right(obj'[j])
        BY <2>5, <2>8 DEF KInv, Stored
      <3> QED BY <1>2, <3>1 DEF Right
    <2> QED BY <1>2, <1>4, <2>5, <2>9 DEF KInv
  <1> QED BY <1>3, <1>5, <1>6

LEMMA RestartKeepsK ==
  ASSUME KInv, Restart
  PROVE  KInv'
  <1>1. /\ obj' = obj /\ cache' = obj' /\ watch' = [k \in Keys |-> <<>>]
        /\ queue' \subseteq Keys /\ cur' = "" /\ mem' = NoObject /\ fresh' = FALSE
        /\ pc' = "idle" /\ retry' = FALSE /\ webhook' = webhook
    BY DEF Restart, KubeRestart
  <1>2. Typed(Version)' /\ Copies'
    BY <1>1, ListedFacts DEF KInv, Typed
  <1>3. Stored'
    BY <1>1 DEF KInv, Stored, Right
  <1> QED BY <1>1, <1>2, <1>3 DEF KInv, WorkerType, Held

-----------------------------------------------------------------------------
(* The second invariant: a decision.                                       *)

RequestType ==
  /\ labels \in Labels \cup {"absent"}
  /\ \/ step = "idle" /\ req = NoRequest /\ items = NoItems /\ matched = {}
     \/ step \in {"check", "list", "matches", "respond"} /\ req \in Requests
  /\ items \in [Keys -> Version]
  /\ matched \subseteq Keys /\ allowed \subseteq Matchers
  /\ verdict \in {"", "admitted", "denied", "error"}

Bounded == edits \in 0..MaxEdits /\ faults \in 0..MaxFaults

LEMMA TypeParts ==
  TypeOK <=> /\ webhook \in BOOLEAN /\ Typed(Version) /\ WorkerType
             /\ RequestType /\ Bounded
  BY DEF TypeOK, Typed, WorkerType, RequestType, Bounded

Deciding == step \in {"check", "list", "matches"}

\* Listed, and still to be looked at.
Waiting(p) == items[p[1]].exists /\ items[p[1]].spec = p[2]

\* Between the loops nothing is left over from them.
Reset == step \in {"idle", "list", "respond"} => items = NoItems /\ matched = {} /\ allowed = {}

\* The history is that of the request: what has governed it throughout does so now,
\* and what is the case now is on record.
Followed ==
  Deciding =>
    /\ throughout \subseteq Governing(req)
    /\ Known(req) \subseteq known
    /\ labels \in labelled

\* What a loop goes by was cached at some moment of the request.
Grounded ==
  /\ \A k \in Keys : items[k].exists => <<k, items[k].spec>> \in known
  /\ matched # {} => \E p \in InForce : p[2].required \subseteq allowed
  /\ \A m \in allowed : \E p \in InForce : m \in p[2].required

\* A policy that has governed the request throughout has been counted or will be.
Counted ==
  /\ step = "check" => \A p \in throughout : Waiting(p) \/ p[1] \in matched
  /\ step = "matches" => \A p \in throughout : Waiting(p)
  /\ step \in {"list", "matches"} => req.ids

Answered ==
  /\ verdict # "" => step = "respond"
  /\ GovernedIsScoped
  /\ UngovernedIsAdmitted

DInv == RequestType /\ Reset /\ Followed /\ Grounded /\ Counted /\ Answered

LEMMA RequestFields ==
  ASSUME NEW q \in Requests
  PROVE  q.ids \in BOOLEAN /\ q # NoRequest
  BY TenantAssumption

LEMMA DInit == Init => DInv
  <1> SUFFICES ASSUME Init PROVE DInv
    OBVIOUS
  <1>1. /\ labels \in Labels /\ req = NoRequest /\ step = "idle" /\ items = NoItems
        /\ matched = {} /\ allowed = {} /\ verdict = ""
    BY DEF Init
  <1>2. RequestType
    BY <1>1, NoItemsType DEF RequestType
  <1>3. Reset /\ Followed /\ Counted /\ Answered
    BY <1>1 DEF Reset, Followed, Deciding, Counted, Answered, GovernedIsScoped,
                UngovernedIsAdmitted
  <1>4. Grounded
    BY <1>1, NoItemsType DEF Grounded
  <1> QED BY <1>2, <1>3, <1>4 DEF DInv

\* No decision is under way after the step.
LEMMA IdleIsD ==
  ASSUME /\ step' = "idle" /\ req' = NoRequest /\ items' = NoItems
         /\ matched' = {} /\ allowed' = {} /\ verdict' = ""
         /\ labels' \in Labels \cup {"absent"}
  PROVE  DInv'
  <1>1. RequestType'
    BY NoItemsType DEF RequestType
  <1>2. Reset' /\ Followed' /\ Counted' /\ Answered'
    BY DEF Reset, Followed, Deciding, Counted, Answered, GovernedIsScoped,
           UngovernedIsAdmitted
  <1>3. Grounded'
    BY NoItemsType DEF Grounded
  <1> QED BY <1>1, <1>2, <1>3 DEF DInv

\* With more on record there is more in force.
LEMMA InForceGrows ==
  ASSUME known \subseteq known', labelled \subseteq labelled'
  PROVE  InForce \subseteq InForce'
  BY DEF InForce

\* A policy that a loop looks at and that covers the namespace is in force.
LEMMA CoveringIsInForce ==
  ASSUME Grounded, labels \in labelled, NEW k \in Keys, items[k].exists, Covers(items[k].spec)
  PROVE  <<k, items[k].spec>> \in InForce
  <1>1. <<k, items[k].spec>> \in known
    BY DEF Grounded
  <1>2. items[k].spec.sel \in labelled \cup {"all"}
    BY DEF Covers
  <1> QED BY <1>1, <1>2 DEF InForce

\* What governs a request is cached, is for its user and covers the namespace.
LEMMA GoverningFacts ==
  ASSUME NEW q, NEW p \in Governing(q)
  PROVE  /\ p[1] \in Keys /\ p = <<p[1], p[2]>>
         /\ cache[p[1]].exists /\ p[2] = cache[p[1]].spec
         /\ subjectMatchesUser(cache[p[1]].spec.subjects, q)
         /\ Covers(p[2])
  BY DEF Governing, Known

\* What List returns is cached now.
LEMMA ListFacts ==
  ASSUME NEW q
  PROVE  /\ Typed(Version) => Listed(q) \in [Keys -> Version]
         /\ \A k \in Keys : Listed(q)[k].exists => <<k, Listed(q)[k].spec>> \in Known(q)
         /\ \A p \in Governing(q) : Listed(q)[p[1]].exists /\ Listed(q)[p[1]].spec = p[2]
  <1>1. Typed(Version) => Listed(q) \in [Keys -> Version]
    BY DEF Typed, Listed, Version
  <1>2. ASSUME NEW k \in Keys, Listed(q)[k].exists
        PROVE  <<k, Listed(q)[k].spec>> \in Known(q)
    <2>1. /\ cache[k].exists /\ subjectMatchesUser(cache[k].spec.subjects, q)
          /\ Listed(q)[k] = cache[k]
      BY <1>2 DEF Listed, NoObject
    <2> QED BY <2>1 DEF Known
  <1>3. ASSUME NEW p \in Governing(q)
        PROVE  Listed(q)[p[1]].exists /\ Listed(q)[p[1]].spec = p[2]
    BY GoverningFacts DEF Listed
  <1> QED BY <1>1, <1>2, <1>3

\* Policies and labels change around a decision.
LEMMA ElsewhereKeepsD ==
  ASSUME DInv, UNCHANGED reqVars, Follow, labels' \in Labels \cup {"absent"}
  PROVE  DInv'
  <1>0. UNCHANGED <<req, step, items, matched, allowed, verdict>>
    BY DEF reqVars
  <1>1. RequestType' /\ Reset'
    BY <1>0 DEF DInv, RequestType, Reset
  <1>2. CASE step = "idle"
    <2>1. /\ req = NoRequest /\ items = NoItems /\ matched = {} /\ allowed = {} /\ verdict = ""
      BY <1>2 DEF DInv, RequestType, Reset, Answered
    <2> QED BY <1>0, <1>2, <2>1, IdleIsD
  <1>3. CASE step = "respond"
    <2>1. UNCHANGED history
      BY <1>0, <1>3 DEF Follow
    <2>2. InForce' = InForce
      BY <2>1 DEF history, InForce
    <2>3. Followed' /\ Counted'
      BY <1>0, <1>3 DEF Followed, Deciding, Counted
    <2>4. Grounded'
      BY <1>0, <2>1, <2>2 DEF history, DInv, Grounded
    <2>5. Answered'
      BY <1>0, <2>1, <2>2 DEF history, DInv, Answered, GovernedIsScoped, UngovernedIsAdmitted
    <2> QED BY <1>1, <2>3, <2>4, <2>5 DEF DInv
  <1>4. CASE Deciding
    <2>1. /\ throughout' = throughout \cap Governing(req)'
          /\ known' = known \cup Known(req)'
          /\ labelled' = labelled \cup {labels'}
      BY <1>0, <1>4 DEF Follow, Deciding
    <2>2. InForce \subseteq InForce'
      BY <2>1, InForceGrows
    <2>3. Followed'
      BY <2>1 DEF Followed
    <2>4. Grounded'
      BY <1>0, <2>1, <2>2 DEF DInv, Grounded
    <2>5. Counted'
      BY <1>0, <2>1 DEF DInv, Counted, Waiting
    <2>6. verdict = ""
      BY <1>4 DEF DInv, Answered, Deciding
    <2>7. Answered'
      BY <1>0, <2>6 DEF Answered, GovernedIsScoped, UngovernedIsAdmitted
    <2> QED BY <1>1, <2>3, <2>4, <2>5, <2>7 DEF DInv
  <1> QED BY <1>2, <1>3, <1>4 DEF DInv, RequestType, Deciding

\* A decision falls: the history stops, and the answer has to be justified by it.
LEMMA DecideKeepsD ==
  ASSUME DInv, Deciding, Follow, NEW v \in {"admitted", "denied", "error"}, Decide(v),
         labels' = labels,
         v = "admitted" /\ throughout # {} =>
             ~req.ids /\ \E p \in InForce : req.matchers \cap p[2].required # {},
         v = "denied" => \E p \in InForce : req.ids \/ req.matchers \cap p[2].required = {}
  PROVE  DInv'
  <1>1. /\ verdict' = v /\ step' = "respond" /\ items' = NoItems
        /\ matched' = {} /\ allowed' = {} /\ req' = req
    BY DEF Decide
  <1>2. UNCHANGED <<throughout, known, labelled>>
    BY <1>1 DEF Follow, history, Deciding
  <1>3. InForce' = InForce
    BY <1>2 DEF InForce
  <1>4. RequestType'
    BY <1>1, NoItemsType DEF DInv, RequestType, Deciding
  <1>5. Reset' /\ Followed' /\ Counted'
    BY <1>1 DEF Reset, Followed, Deciding, Counted
  <1>6. Grounded'
    BY <1>1, NoItemsType DEF Grounded
  <1>7. Answered'
    BY <1>1, <1>2, <1>3 DEF Answered, GovernedIsScoped, UngovernedIsAdmitted
  <1> QED BY <1>4, <1>5, <1>6, <1>7 DEF DInv

\* The loops go on: nothing is cached or labelled anew, so the record stays.
LEMMA LoopFollows ==
  ASSUME DInv, Deciding, Deciding', Follow, UNCHANGED <<cache, labels, req>>
  PROVE  /\ throughout' = throughout /\ known' = known /\ labelled' = labelled
         /\ InForce' = InForce /\ Followed'
  <1>1. /\ throughout' = throughout \cap Governing(req)'
        /\ known' = known \cup Known(req)'
        /\ labelled' = labelled \cup {labels'}
    BY DEF Follow, Deciding
  <1>2. Known(req)' = Known(req) /\ Governing(req)' = Governing(req)
    BY DEF Known, Governing, Covers
  <1>3. throughout' = throughout /\ known' = known /\ labelled' = labelled
    BY <1>1, <1>2 DEF DInv, Followed
  <1>4. InForce' = InForce
    BY <1>3 DEF InForce
  <1>5. Followed'
    BY <1>2, <1>3 DEF DInv, Followed
  <1> QED BY <1>3, <1>4, <1>5

LEMMA ReceiveKeepsD ==
  ASSUME DInv, Typed(Version), NEW q \in Requests, Receive(q), Follow
  PROVE  DInv'
  <1>0. /\ step = "idle" /\ req' = q /\ UNCHANGED <<cache, labels, matched, allowed>>
        /\ items = NoItems /\ matched = {} /\ allowed = {} /\ verdict = ""
    BY DEF Receive, DecisionOnly, kubeVars, DInv, RequestType, Reset, Answered
  <1>1. CASE step' = "check" /\ items' = Listed(q) /\ UNCHANGED verdict
    <2>1. throughout' = Governing(q) /\ known' = Known(q) /\ labelled' = {labels}
      BY <1>0, <1>1 DEF Follow
    <2>2. Governing(req)' = Governing(q) /\ Known(req)' = Known(q)
      BY <1>0 DEF Governing, Known, Covers
    <2>3. RequestType' /\ Reset'
      BY <1>0, <1>1, ListFacts DEF DInv, RequestType, Reset
    <2>4. Followed'
      BY <1>0, <2>1, <2>2 DEF Followed
    <2>5. Grounded'
      BY <1>0, <1>1, <2>1, ListFacts DEF Grounded
    <2>6. Counted'
      BY <1>1, <2>1, ListFacts DEF Counted, Waiting
    <2>7. Answered'
      BY <1>0, <1>1 DEF Answered, GovernedIsScoped, UngovernedIsAdmitted
    <2> QED BY <2>3, <2>4, <2>5, <2>6, <2>7 DEF DInv
  <1>2. CASE verdict' = "error" /\ step' = "respond" /\ UNCHANGED items
    <2>1. RequestType' /\ Reset' /\ Followed' /\ Counted'
      BY <1>0, <1>2 DEF DInv, RequestType, Reset, Followed, Deciding, Counted
    <2>2. Grounded'
      BY <1>0, <1>2, NoItemsType DEF Grounded
    <2>3. Answered'
      BY <1>2 DEF Answered, GovernedIsScoped, UngovernedIsAdmitted
    <2> QED BY <2>1, <2>2, <2>3 DEF DInv
  <1> QED BY <1>1, <1>2 DEF Receive

LEMMA CheckPolicyKeepsD ==
  ASSUME DInv, NEW k \in Keys, CheckPolicy(k), Follow
  PROVE  DInv'
  <1> DEFINE s == items[k].spec
  <1>0. /\ step = "check" /\ Deciding /\ items[k].exists /\ UNCHANGED <<cache, labels>>
        /\ verdict = "" /\ labels \in labelled
    BY DEF CheckPolicy, DecisionOnly, kubeVars, Deciding, DInv, Followed, Answered
  <1>1. CASE Decide("error")
    BY <1>0, <1>1, DecideKeepsD
  <1>2. CASE /\ items' = [items EXCEPT ![k] = NoObject]
             /\ matched' = IF Covers(s) THEN matched \cup {k} ELSE matched
             /\ allowed' = IF Covers(s) THEN allowed \cup s.required ELSE allowed
             /\ UNCHANGED <<req, step, verdict>>
    <2>1. /\ throughout' = throughout /\ known' = known /\ InForce' = InForce /\ Followed'
      BY <1>0, <1>2, LoopFollows DEF Deciding
    <2>2. items[k] \in Policy
      BY <1>0, VersionType DEF DInv, RequestType
    <2>3. items' \in [Keys -> Version] /\ ~items'[k].exists
      BY <1>2 DEF DInv, RequestType, Version, NoObject
    <2>4. \A j \in Keys \ {k} : items'[j] = items[j]
      BY <1>2 DEF DInv, RequestType
    <2>5. allowed' \subseteq Matchers /\ matched' \subseteq Keys
      <3>1. s.required \subseteq Matchers
        BY <2>2, TenantAssumption DEF Policy
      <3> QED BY <1>2, <3>1 DEF DInv, RequestType
    <2>6. RequestType' /\ Reset'
      BY <1>0, <1>2, <2>3, <2>5 DEF DInv, RequestType, Reset
    <2>7. Grounded'
      <3>1. \A j \in Keys : items'[j].exists => <<j, items'[j].spec>> \in known'
        BY <2>1, <2>3, <2>4 DEF DInv, Grounded
      <3>2. CASE Covers(s)
        <4>1. <<k, s>> \in InForce
          BY <1>0, <3>2, CoveringIsInForce DEF DInv
        <4>2. <<k, s>>[2] = s
          OBVIOUS
        <4>3. \A m \in allowed' : \E p \in InForce : m \in p[2].required
          BY <1>2, <3>2, <4>1, <4>2 DEF DInv, Grounded
        <4>4. \E p \in InForce : p[2].required \subseteq allowed'
          BY <1>2, <3>2, <4>1, <4>2
        <4> QED BY <2>1, <3>1, <4>3, <4>4 DEF Grounded
      <3>3. CASE ~Covers(s)
        BY <1>2, <2>1, <3>1, <3>3 DEF DInv, Grounded
      <3> QED BY <3>2, <3>3
    <2>8. Counted'
      <3> SUFFICES ASSUME NEW p \in throughout
                   PROVE  (items'[p[1]].exists /\ items'[p[1]].spec = p[2]) \/ p[1] \in matched'
        BY <1>0, <1>2, <2>1 DEF Counted, Waiting
      <3>1. p[1] \in Keys /\ Covers(p[2])
        BY <1>0, GoverningFacts DEF DInv, Followed
      <3>2. (items[p[1]].exists /\ items[p[1]].spec = p[2]) \/ p[1] \in matched
        BY <1>0 DEF DInv, Counted, Waiting
      <3>3. CASE p[1] = k /\ items[p[1]].spec = p[2]
        BY <1>2, <3>1, <3>3
      <3>4. CASE p[1] # k \/ p[1] \in matched
        BY <1>2, <2>4, <3>1, <3>2, <3>4
      <3> QED BY <3>2, <3>3, <3>4
    <2>9. Answered'
      BY <1>0, <1>2 DEF Answered, GovernedIsScoped, UngovernedIsAdmitted
    <2> QED BY <2>1, <2>6, <2>7, <2>8, <2>9 DEF DInv
  <1> QED BY <1>1, <1>2 DEF CheckPolicy

LEMMA EndCheckKeepsD ==
  ASSUME DInv, EndCheck, Follow
  PROVE  DInv'
  <1>0. /\ step = "check" /\ Deciding /\ items = NoItems /\ UNCHANGED <<cache, labels>>
        /\ verdict = "" /\ req \in Requests /\ labels \in Labels \cup {"absent"}
    BY DEF EndCheck, DecisionOnly, kubeVars, Deciding, DInv, Answered, RequestType
  <1>1. CASE matched # {} /\ req.matchers \cap allowed = {} /\ Decide("denied")
    <2>1. PICK p \in InForce : p[2].required \subseteq allowed
      BY <1>1 DEF DInv, Grounded
    <2>2. req.matchers \cap p[2].required = {}
      BY <1>1, <2>1
    <2> QED BY <1>0, <1>1, <2>2, DecideKeepsD
  <1>2. CASE /\ matched = {} \/ req.matchers \cap allowed # {}
             /\ ~req.ids /\ Decide("admitted")
    <2>1. ASSUME throughout # {}
          PROVE  \E p \in InForce : req.matchers \cap p[2].required # {}
      <3>1. PICK p \in throughout : TRUE
        BY <2>1
      <3>2. p[1] \in Keys
        BY <1>0, GoverningFacts DEF DInv, Followed
      <3>3. ~items[p[1]].exists
        BY <1>0, <3>2, NoItemsType
      <3>4. p[1] \in matched
        BY <1>0, <3>3 DEF DInv, Counted, Waiting
      <3>5. PICK m \in req.matchers : m \in allowed
        BY <1>2, <3>4
      <3> QED BY <3>5 DEF DInv, Grounded
    <2> QED BY <1>0, <1>2, <2>1, DecideKeepsD
  <1>3. CASE /\ req.ids /\ step' = "list" /\ matched' = {} /\ allowed' = {}
             /\ UNCHANGED <<req, items, verdict>>
    <2>1. throughout' = throughout /\ Followed'
      BY <1>0, <1>3, LoopFollows DEF Deciding
    <2>2. RequestType' /\ Reset' /\ Counted'
      BY <1>0, <1>3, NoItemsType DEF RequestType, Reset, Counted
    <2>3. Grounded'
      BY <1>0, <1>3, NoItemsType DEF Grounded
    <2>4. Answered'
      BY <1>0, <1>3 DEF Answered, GovernedIsScoped, UngovernedIsAdmitted
    <2> QED BY <2>1, <2>2, <2>3, <2>4 DEF DInv
  <1> QED BY <1>1, <1>2, <1>3 DEF EndCheck

LEMMA ListAgainKeepsD ==
  ASSUME DInv, Typed(Version), ListAgain, Follow
  PROVE  DInv'
  <1>0. /\ step = "list" /\ Deciding /\ UNCHANGED <<cache, labels>>
        /\ verdict = "" /\ req.ids /\ matched = {} /\ allowed = {}
    BY DEF ListAgain, DecisionOnly, kubeVars, Deciding, DInv, Answered, Counted, Reset
  <1>1. CASE Decide("error")
    BY <1>0, <1>1, DecideKeepsD
  <1>2. CASE /\ items' = Listed(req) /\ step' = "matches"
             /\ UNCHANGED <<req, matched, allowed, verdict>>
    <2>1. throughout' = throughout /\ known' = known /\ Followed'
      BY <1>0, <1>2, LoopFollows DEF Deciding
    <2>2. throughout \subseteq Governing(req) /\ Known(req) \subseteq known
      BY <1>0 DEF DInv, Followed
    <2>3. RequestType' /\ Reset'
      BY <1>0, <1>2, ListFacts DEF DInv, RequestType, Reset
    <2>4. Grounded'
      BY <1>0, <1>2, <2>1, <2>2, ListFacts DEF Grounded
    <2>5. Counted'
      BY <1>0, <1>2, <2>1, <2>2, ListFacts DEF Counted, Waiting
    <2>6. Answered'
      BY <1>0, <1>2 DEF Answered, GovernedIsScoped, UngovernedIsAdmitted
    <2> QED BY <2>1, <2>3, <2>4, <2>5, <2>6 DEF DInv
  <1> QED BY <1>1, <1>2 DEF ListAgain

LEMMA MatchPolicyKeepsD ==
  ASSUME DInv, NEW k \in Keys, MatchPolicy(k), Follow
  PROVE  DInv'
  <1>0. /\ step = "matches" /\ Deciding /\ items[k].exists /\ UNCHANGED <<cache, labels>>
        /\ verdict = "" /\ labels \in labelled
    BY DEF MatchPolicy, DecisionOnly, kubeVars, Deciding, DInv, Followed, Answered
  <1>1. CASE Decide("error")
    BY <1>0, <1>1, DecideKeepsD
  <1>2. CASE Covers(items[k].spec) /\ Decide("denied")
    <2>1. \E p \in InForce : req.ids \/ req.matchers \cap p[2].required = {}
      <3>1. <<k, items[k].spec>> \in InForce
        BY <1>0, <1>2, CoveringIsInForce DEF DInv
      <3>2. req.ids
        BY <1>0 DEF DInv, Counted
      <3> QED BY <3>1, <3>2
    <2> QED BY <1>0, <1>2, <2>1, DecideKeepsD
  <1>3. CASE /\ ~Covers(items[k].spec)
             /\ items' = [items EXCEPT ![k] = NoObject]
             /\ UNCHANGED <<req, step, matched, allowed, verdict>>
    <2>1. throughout' = throughout /\ known' = known /\ InForce' = InForce /\ Followed'
      BY <1>0, <1>3, LoopFollows DEF Deciding
    <2>2. items' \in [Keys -> Version] /\ ~items'[k].exists
      BY <1>3 DEF DInv, RequestType, Version, NoObject
    <2>3. \A j \in Keys \ {k} : items'[j] = items[j]
      BY <1>3 DEF DInv, RequestType
    <2>4. RequestType' /\ Reset'
      BY <1>0, <1>3, <2>2 DEF DInv, RequestType, Reset
    <2>5. Grounded'
      BY <1>3, <2>1, <2>2, <2>3 DEF DInv, Grounded
    <2>6. Counted'
      <3> SUFFICES ASSUME NEW p \in throughout
                   PROVE  items'[p[1]].exists /\ items'[p[1]].spec = p[2]
        BY <1>0, <1>3, <2>1 DEF DInv, Counted, Waiting
      <3>1. p[1] \in Keys /\ Covers(p[2])
        BY <1>0, GoverningFacts DEF DInv, Followed
      <3>2. items[p[1]].exists /\ items[p[1]].spec = p[2]
        BY <1>0 DEF DInv, Counted, Waiting
      <3>3. p[1] # k
        BY <1>3, <3>1, <3>2
      <3> QED BY <2>3, <3>1, <3>2, <3>3
    <2>7. Answered'
      BY <1>0, <1>3 DEF Answered, GovernedIsScoped, UngovernedIsAdmitted
    <2> QED BY <2>1, <2>4, <2>5, <2>6, <2>7 DEF DInv
  <1> QED BY <1>1, <1>2, <1>3 DEF MatchPolicy

LEMMA EndMatchesKeepsD ==
  ASSUME DInv, EndMatches, Follow
  PROVE  DInv'
  <1>0. step = "matches" /\ Deciding /\ items = NoItems /\ labels' = labels /\ Decide("admitted")
    BY DEF EndMatches, DecisionOnly, Deciding
  <1>1. throughout = {}
    <2> SUFFICES ASSUME NEW p \in throughout PROVE FALSE
      OBVIOUS
    <2>1. p[1] \in Keys
      BY <1>0, GoverningFacts DEF DInv, Followed
    <2>2. items[p[1]].exists
      BY <1>0 DEF DInv, Counted, Waiting
    <2> QED BY <1>0, <2>1, <2>2, NoItemsType
  <1> QED BY <1>0, <1>1, DecideKeepsD

LEMMA RespondKeepsD ==
  ASSUME DInv, Respond
  PROVE  DInv'
  <1>1. /\ step' = "idle" /\ req' = NoRequest /\ items' = NoItems
        /\ matched' = {} /\ allowed' = {} /\ verdict' = "" /\ labels' \in Labels \cup {"absent"}
    BY DEF Respond, DecisionOnly, DInv, RequestType, Reset
  <1> QED BY <1>1, IdleIsD

LEMMA RestartKeepsD ==
  ASSUME DInv, Restart
  PROVE  DInv'
  <1>1. /\ step' = "idle" /\ req' = NoRequest /\ items' = NoItems
        /\ matched' = {} /\ allowed' = {} /\ verdict' = "" /\ labels' \in Labels \cup {"absent"}
    BY DEF Restart, DInv, RequestType
  <1> QED BY <1>1, IdleIsD

-----------------------------------------------------------------------------
(* The theorems.                                                           *)

IInv == KInv /\ DInv /\ Bounded

LEMMA BoundedStep ==
  ASSUME Bounded, Step
  PROVE  Bounded'
  <1>0. edits \in 0..MaxEdits /\ faults \in 0..MaxFaults
    BY DEF Bounded
  <1>1. Edit /\ faults' = faults => Bounded'
    <2> SUFFICES ASSUME Edit, faults' = faults PROVE edits' \in 0..MaxEdits
      BY <1>0 DEF Bounded
    <2>1. edits < MaxEdits /\ edits' = edits + 1
      BY DEF Edit
    <2> QED BY <1>0, <2>1, BoundsType, OneMore
  <1>2. edits' = edits /\ NoFault => Bounded'
    BY <1>0 DEF NoFault, Bounded
  <1>3. ASSUME NEW code, edits' = edits, Fault(code)
        PROVE  Bounded'
    BY <1>0, <1>3, FaultType DEF Bounded
  <1>4. ASSUME NEW k \in Keys, NEW s \in Specs, CreatePolicy(k, s) \/ EditSpec(k, s)
        PROVE  Bounded'
    BY <1>1, <1>4 DEF CreatePolicy, EditSpec, WritePolicy
  <1>5. ASSUME NEW k \in Keys, DeletePolicy(k)
        PROVE  Bounded'
    BY <1>1, <1>5 DEF DeletePolicy, WritePolicy
  <1>6. ASSUME NEW k \in Keys, Reconcile(k) \/ Inform(k)
        PROVE  Bounded'
    BY <1>2, <1>6 DEF Reconcile, ReconcileNothing, ReconcileStatus, Inform, RequestsUntouched
  <1>7. ASSUME NEW l, Relabel(l)
        PROVE  Bounded'
    BY <1>1, <1>7 DEF Relabel
  <1>8. CASE UpdateStatus
    <2>1. edits' = edits
      BY <1>8 DEF UpdateStatus, RequestsUntouched
    <2> QED BY <1>2, <1>3, <1>8, <2>1 DEF UpdateStatus, KubeWrite
  <1>9. ASSUME NEW q \in Requests, Receive(q)
        PROVE  Bounded'
    BY <1>2, <1>3, <1>9 DEF Receive, DecisionOnly
  <1>10. CASE Decision
    <2>1. edits' = edits
      BY <1>10 DEF Decision, CheckPolicy, MatchPolicy, EndCheck, ListAgain, EndMatches, Respond,
                   DecisionOnly
    <2>2. NoFault \/ Fault("k8s")
      BY <1>10 DEF Decision, CheckPolicy, MatchPolicy, EndCheck, ListAgain, EndMatches, Respond,
                   GetFails
    <2> QED BY <1>2, <1>3, <2>1, <2>2
  <1>11. CASE Restart
    <2>1. faults < MaxFaults /\ faults' = faults + 1 /\ edits' = edits
      BY <1>11 DEF Restart
    <2> QED BY <1>0, <2>1, BoundsType, OneMore DEF Bounded
  <1> QED BY <1>4, <1>5, <1>6, <1>7, <1>8, <1>9, <1>10, <1>11 DEF Step

\* A step of the reconciler or of an administrator, one of the namespace, or one of
\* a decision.
LEMMA StepKeeps ==
  ASSUME IInv, Step, Follow
  PROVE  KInv' /\ DInv'
  <1>0. KInv /\ DInv /\ Typed(Version) /\ faults \in 0..MaxFaults
        /\ labels \in Labels \cup {"absent"}
    BY DEF IInv, KInv, DInv, RequestType, Bounded
  <1>1. ASSUME UNCHANGED <<reqVars, labels>>
        PROVE  DInv'
    BY <1>0, <1>1, ElsewhereKeepsD
  <1>2. ASSUME NEW k \in Keys,
               (\E s \in Specs : CreatePolicy(k, s) \/ EditSpec(k, s)) \/ DeletePolicy(k)
        PROVE  KInv' /\ DInv'
    <2>1. UNCHANGED <<reqVars, labels>>
      BY <1>2 DEF CreatePolicy, EditSpec, DeletePolicy, WritePolicy
    <2> QED BY <1>0, <1>1, <1>2, <2>1, AdministratorKeepsK
  <1>3. ASSUME NEW k \in Keys, Reconcile(k) \/ Inform(k)
        PROVE  KInv' /\ DInv'
    <2>1. UNCHANGED <<reqVars, labels>>
      BY <1>3 DEF Reconcile, ReconcileNothing, ReconcileStatus, Inform, RequestsUntouched
    <2> QED BY <1>0, <1>1, <1>3, <2>1, ReconcileKeepsK, InformKeepsK
  <1>4. CASE UpdateStatus
    <2>1. UNCHANGED <<reqVars, labels>>
      BY <1>4 DEF UpdateStatus, RequestsUntouched
    <2> QED BY <1>0, <1>1, <1>4, <2>1, UpdateStatusKeepsK
  <1>5. ASSUME NEW l \in Labels \cup {"absent"}, Relabel(l)
        PROVE  KInv' /\ DInv'
    <2>1. UNCHANGED <<kubeVars, pc, retry, webhook, reqVars>> /\ labels' = l
      BY <1>5 DEF Relabel
    <2> QED BY <1>0, <2>1, ElsewhereKeepsK, ElsewhereKeepsD
  <1>6. ASSUME NEW q \in Requests, Receive(q)
        PROVE  KInv' /\ DInv'
    <2>1. UNCHANGED <<kubeVars, pc, retry, webhook>>
      BY <1>6 DEF Receive, DecisionOnly
    <2> QED BY <1>0, <1>6, <2>1, ElsewhereKeepsK, ReceiveKeepsD
  <1>7. CASE Decision
    <2>1. UNCHANGED <<kubeVars, pc, retry, webhook>>
      BY <1>7 DEF Decision, CheckPolicy, MatchPolicy, EndCheck, ListAgain, EndMatches, Respond,
                  DecisionOnly
    <2>2. DInv'
      BY <1>0, <1>7, CheckPolicyKeepsD, MatchPolicyKeepsD, EndCheckKeepsD, ListAgainKeepsD,
         EndMatchesKeepsD, RespondKeepsD DEF Decision
    <2> QED BY <1>0, <2>1, <2>2, ElsewhereKeepsK
  <1>8. CASE Restart
    BY <1>0, <1>8, RestartKeepsK, RestartKeepsD
  <1> QED BY <1>2, <1>3, <1>4, <1>5, <1>6, <1>7, <1>8 DEF Step

LEMMA StutterKeeps ==
  ASSUME IInv, UNCHANGED vars
  PROVE  IInv'
  <1>1. /\ UNCHANGED <<kubeVars, pc, retry, faults, webhook, labels, reqVars, history, edits>>
    BY DEF vars
  <1>2. KInv'
    BY <1>1, ElsewhereKeepsK DEF IInv
  <1>3. Bounded'
    BY <1>1 DEF IInv, Bounded
  <1>4. UNCHANGED <<req, step, items, matched, allowed, verdict, throughout, known, labelled,
                    cache, labels>>
    BY <1>1 DEF reqVars, history, kubeVars
  <1>5. InForce' = InForce /\ Known(req)' = Known(req) /\ Governing(req)' = Governing(req)
    BY <1>4 DEF InForce, Known, Governing, Covers
  <1>6. RequestType' /\ Reset' /\ Followed'
    BY <1>4, <1>5 DEF IInv, DInv, RequestType, Reset, Followed, Deciding
  <1>7. Grounded' /\ Counted' /\ Answered'
    BY <1>4, <1>5 DEF IInv, DInv, Grounded, Counted, Waiting, Answered, GovernedIsScoped,
                      UngovernedIsAdmitted
  <1> QED BY <1>2, <1>3, <1>6, <1>7 DEF IInv, DInv

\* The inductive invariant: copies of a policy agree with the stored one as far as the
\* status needs it, and a decision goes by policies that were in force while it was
\* being taken.
THEOREM Invariance == Spec => []IInv
  <1>1. Init => IInv
    <2>1. Init => Bounded
      <3>1. 0 \in 0..MaxEdits /\ 0 \in 0..MaxFaults
        BY BoundsType
      <3>2. Init => edits = 0 /\ faults = 0
        BY DEF Init
      <3> QED BY <3>1, <3>2 DEF Bounded
    <2> QED BY <2>1, KInit, DInit DEF IInv
  <1>2. IInv /\ [Next]_vars => IInv'
    BY StepKeeps, BoundedStep, StutterKeeps DEF Next, IInv
  <1> QED BY <1>1, <1>2, PTL DEF Spec

\* Every variable keeps its type, and an idle worker holds no copy.
THEOREM TypeCorrect == Spec => []TypeOK
  <1>1. IInv => TypeOK
    BY TypeParts DEF IInv, KInv, DInv
  <1> QED BY <1>1, Invariance, PTL

\* A status whose observedGeneration is the policy's generation says of the stored spec
\* what the reconciler makes of it.
THEOREM CurrentStatusIsTrue == Spec => []StatusIsTrue
  <1>1. IInv => StatusIsTrue
    BY DEF IInv, KInv, Stored, Right, StatusIsTrue
  <1> QED BY <1>1, Invariance, PTL

\* With the webhook enabled the reconciler never reports Ready=False.
THEOREM AdmittedIsValid == Spec => []WebhookIsStricter
  <1>1. IInv => WebhookIsStricter
    BY DEF IInv, KInv, Stored, Right, WebhookIsStricter
  <1> QED BY <1>1, Invariance, PTL

\* A request that a policy governs from the first look to the last is admitted only
\* within the scope of a policy in force and without collector IDs, whatever changes
\* between the looks and whichever of them fail.
THEOREM TenantsAreScoped == Spec => []GovernedIsScoped
  <1>1. IInv => GovernedIsScoped
    BY DEF IInv, DInv, Answered
  <1> QED BY <1>1, Invariance, PTL

\* A request is denied only on the grounds of a policy in force, none of whose required
\* matchers it has unless it names collector IDs.
THEOREM DenialHasGrounds == Spec => []UngovernedIsAdmitted
  <1>1. IInv => UngovernedIsAdmitted
    BY DEF IInv, DInv, Answered
  <1> QED BY <1>1, Invariance, PTL

=================================================================================
