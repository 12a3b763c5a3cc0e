---------------------------- MODULE PipelineProofs ----------------------------
(***************************************************************************)
(* Proofs about PipelineController, for any set of Pipelines, any specs    *)
(* and annotations, any faults and any bounds, and about PipelineDiscovery *)
(* for any discoveries beside it.                                          *)
(***************************************************************************)
EXTENDS PipelineDiscovery, TLAPS

-----------------------------------------------------------------------------
(* What the operators of the model return.                                 *)

LEMMA NoObjectType == NoObject \notin Pipeline /\ ~NoObject.exists
  BY DEF NoObject, Pipeline

LEMMA VersionType ==
  ASSUME NEW o \in Version
  PROVE  o.exists <=> o \in Pipeline
  <1>1. o \in Pipeline => o.exists
    BY DEF Pipeline
  <1>2. o = NoObject => ~o.exists
    BY DEF NoObject
  <1> QED BY <1>1, <1>2 DEF Version

LEMMA NameType ==
  ASSUME NEW k \in Keys, NEW o \in Pipeline
  PROVE  DesiredFleetName(k, o) \in Names /\ <<"", o.spec.base>> \in Names
  BY DEF DesiredFleetName, Names, Bases, Pipeline

LEMMA BackfillType ==
  ASSUME NEW o \in Pipeline
  PROVE  /\ backfillSyncedName(o) \in Pipeline
         /\ backfillSyncedName(o).gen = o.gen
         /\ backfillSyncedName(o).st.id = o.st.id
         /\ backfillSyncedName(o).st.og = o.st.og
  BY DEF backfillSyncedName, Pipeline, Status, Names, Bases

LEMMA SyncedType ==
  ASSUME NEW o \in Pipeline, NEW id \in Nat, NEW n \in Names
  PROVE  /\ SyncedStatus(o, id, n) \in Pipeline
         /\ SyncedStatus(o, id, n).gen = o.gen
         /\ SyncedStatus(o, id, n).st.og = o.gen
  BY DEF SyncedStatus, Pipeline, Status, Reasons

LEMMA ReadOnlyType ==
  ASSUME NEW o \in Pipeline, NEW id \in Nat
  PROVE  /\ ReadOnlyStatus(o, id) \in Pipeline
         /\ ReadOnlyStatus(o, id).gen = o.gen
         /\ ReadOnlyStatus(o, id).st.og = o.gen
  BY DEF ReadOnlyStatus, Pipeline, Status, Reasons

LEMMA ErrorType ==
  ASSUME NEW o \in Pipeline, NEW r \in Reasons, NEW b \in BOOLEAN
  PROVE  /\ ErrorStatus(o, r, b) \in Pipeline
         /\ ErrorStatus(o, r, b).gen = o.gen
         /\ ErrorStatus(o, r, b).st.og \in {o.st.og, o.gen}
         /\ ErrorStatus(o, r, b).st.id = o.st.id
  BY DEF ErrorStatus, Pipeline, Status

LEMMA ClearedType ==
  ASSUME NEW o \in Pipeline
  PROVE  /\ [o EXCEPT !.st.id = NoId] \in Pipeline
         /\ [o EXCEPT !.st.id = NoId].gen = o.gen
         /\ [o EXCEPT !.st.id = NoId].st.og = o.st.og
  BY DEF Pipeline, Status, NoId

LEMMA NumbersType ==
  ASSUME NEW o \in Pipeline
  PROVE  o.exists /\ o.gen \in Nat /\ o.st \in Status /\ o.st.og \in Nat /\ o.st.id \in Nat
  BY DEF Pipeline, Status

LEMMA EditedType ==
  ASSUME NEW o \in Pipeline, NotAhead(o), NEW s \in Specs
  PROVE  /\ [o EXCEPT !.spec = s, !.gen = @ + 1] \in Pipeline
         /\ [o EXCEPT !.spec = s, !.gen = @ + 1].fin = o.fin
         /\ NotAhead([o EXCEPT !.spec = s, !.gen = @ + 1])
  <1> DEFINE e == [o EXCEPT !.spec = s, !.gen = @ + 1]
  <1>1. o.gen \in Nat /\ o.st.og \in Nat /\ o.st.og <= o.gen
    BY NumbersType DEF NotAhead
  <1>2. \A g \in Nat : [o EXCEPT !.spec = s, !.gen = g] \in Pipeline
    BY DEF Pipeline
  <1>4. e = [o EXCEPT !.spec = s, !.gen = o.gen + 1] /\ o.gen + 1 \in Nat
    BY <1>1
  <1>3. e.st = o.st /\ e.gen = o.gen + 1 /\ e.fin = o.fin
    BY DEF Pipeline
  <1>5. e \in Pipeline
    BY <1>2, <1>4
  <1> HIDE DEF e
  <1>6. NotAhead(e)
    BY <1>1, <1>3 DEF NotAhead
  <1> QED BY <1>3, <1>5, <1>6 DEF e

LEMMA DeletedType ==
  ASSUME NEW o \in Pipeline, NotAhead(o)
  PROVE  /\ [o EXCEPT !.del = TRUE, !.gen = @ + 1] \in Pipeline
         /\ [o EXCEPT !.del = TRUE, !.gen = @ + 1].fin = o.fin
         /\ NotAhead([o EXCEPT !.del = TRUE, !.gen = @ + 1])
  <1> DEFINE e == [o EXCEPT !.del = TRUE, !.gen = @ + 1]
  <1>1. o.gen \in Nat /\ o.st.og \in Nat /\ o.st.og <= o.gen
    BY NumbersType DEF NotAhead
  <1>2. \A g \in Nat : [o EXCEPT !.del = TRUE, !.gen = g] \in Pipeline
    BY DEF Pipeline
  <1>4. e = [o EXCEPT !.del = TRUE, !.gen = o.gen + 1] /\ o.gen + 1 \in Nat
    BY <1>1
  <1>3. e.st = o.st /\ e.gen = o.gen + 1 /\ e.fin = o.fin
    BY DEF Pipeline
  <1>5. e \in Pipeline
    BY <1>2, <1>4
  <1> HIDE DEF e
  <1>6. NotAhead(e)
    BY <1>1, <1>3 DEF NotAhead
  <1> QED BY <1>3, <1>5, <1>6 DEF e

LEMMA AppendFacts ==
  ASSUME NEW S, NEW s \in Seq(S), NEW x \in S
  PROVE  /\ Append(s, x) \in Seq(S)
         /\ Len(Append(s, x)) = Len(s) + 1
         /\ \A i \in 1..Len(s) : Append(s, x)[i] = s[i]
         /\ Append(s, x)[Len(s) + 1] = x
         /\ Append(s, x) # <<>> /\ Len(s) \in Nat
  OBVIOUS

LEMMA EmptyFacts ==
  ASSUME NEW S
  PROVE  <<>> \in Seq(S) /\ Len(<<>>) = 0 /\ \A i : i \notin 1..0
  OBVIOUS

LEMMA BoundsType == MaxEdits \in Nat /\ MaxFaults \in Nat /\ MaxCrashes \in Nat
  BY BoundsAssumption, FaultsAssumption

LEMMA TailFacts ==
  ASSUME NEW S, NEW s \in Seq(S), s # <<>>
  PROVE  /\ Tail(s) \in Seq(S)
         /\ Head(s) \in S
         /\ Head(s) = s[1]
         /\ 1 \in 1..Len(s)
         /\ Len(s) \in Nat /\ Len(Tail(s)) = Len(s) - 1
         /\ Tail(s) = <<>> => Len(s) = 1
         /\ \A i \in 1..Len(Tail(s)) : i + 1 \in 1..Len(s) /\ Tail(s)[i] = s[i + 1]
  <1>1. /\ Tail(s) \in Seq(S) /\ Head(s) \in S /\ Head(s) = s[1] /\ 1 \in 1..Len(s)
        /\ Len(s) \in Nat /\ Len(Tail(s)) = Len(s) - 1
        /\ \A i \in 1..Len(Tail(s)) : i + 1 \in 1..Len(s) /\ Tail(s)[i] = s[i + 1]
    OBVIOUS
  <1>2. Tail(s) = <<>> => Len(Tail(s)) = 0
    BY EmptyFacts
  <1> QED BY <1>1, <1>2

\* What storing a version does to the object and to the versions under way.
LEMMA StoreFacts ==
  ASSUME obj \in [Keys -> Version], watch \in [Keys -> Seq(Version)],
         NEW k \in Keys, NEW o \in Version, Store(k, o)
  PROVE  /\ obj' \in [Keys -> Version] /\ obj'[k] = o
         /\ watch' \in [Keys -> Seq(Version)]
         /\ \A j \in Keys : j # k => obj'[j] = obj[j] /\ watch'[j] = watch[j]
         /\ \A i \in 1..Len(watch'[k]) :
              watch'[k][i] = o \/ (i \in 1..Len(watch[k]) /\ watch'[k][i] = watch[k][i])
         /\ \/ o = obj[k] /\ watch'[k] = watch[k]
            \/ watch'[k] # <<>> /\ watch'[k][Len(watch'[k])] = o
  <1>1. CASE o = obj[k] /\ UNCHANGED <<obj, watch>>
    BY <1>1
  <1>2. CASE obj' = [obj EXCEPT ![k] = o] /\ watch' = [watch EXCEPT ![k] = Append(@, o)]
    <2> DEFINE w == watch[k]
    <2>1. w \in Seq(Version)
      OBVIOUS
    <2>2. /\ Append(w, o) \in Seq(Version)
          /\ Len(Append(w, o)) = Len(w) + 1
          /\ \A i \in 1..Len(w) : Append(w, o)[i] = w[i]
          /\ Append(w, o)[Len(w) + 1] = o
          /\ Append(w, o) # <<>>
          /\ Len(w) \in Nat
      BY <2>1, AppendFacts
    <2>3. watch'[k] = Append(w, o)
      BY <1>2
    <2> HIDE DEF w
    <2>4. \A i \in 1..Len(Append(w, o)) :
             Append(w, o)[i] = o \/ (i \in 1..Len(w) /\ Append(w, o)[i] = w[i])
      BY <2>2
    <2> QED BY <1>2, <2>2, <2>3, <2>4 DEF w
  <1> QED BY <1>1, <1>2 DEF Store

-----------------------------------------------------------------------------
(* The inductive invariant, and the steps of the API server, the informer  *)
(* and the worker that preserve it.  The actions of PipelineController are *)
(* instances of these.                                                     *)

IInv == TypeOK /\ CopiesAgree

budgets == <<edits, faults, crashes>>
BudgetsOK == edits \in 0..MaxEdits /\ faults \in 0..MaxFaults /\ crashes \in 0..MaxCrashes

\* A version o may be stored over obj[k]: it has a type, is not ahead of itself and
\* does not take a finalizer away.
Storable(k, o) ==
    /\ o \in Version
    /\ NotAhead(o)
    /\ (obj[k].exists /\ obj[k].fin) => (o.exists /\ o.fin)

LEMMA UserWriteInv ==
  ASSUME IInv, NEW k \in Keys, NEW o, Storable(k, o), UserWrite(k, o),
         UNCHANGED <<pc, retry, fleet, nextId, scope>>, BudgetsOK'
  PROVE  IInv'
  <1>0. obj \in [Keys -> Version] /\ watch \in [Keys -> Seq(Version)] /\ o \in Version /\ Store(k, o)
    BY DEF IInv, TypeOK, UserWrite, Storable
  <1>1. /\ obj' \in [Keys -> Version] /\ obj'[k] = o
        /\ watch' \in [Keys -> Seq(Version)]
        /\ \A j \in Keys : j # k => obj'[j] = obj[j] /\ watch'[j] = watch[j]
    BY <1>0, StoreFacts
  <1>2. /\ \A i \in 1..Len(watch'[k]) :
             watch'[k][i] = o \/ (i \in 1..Len(watch[k]) /\ watch'[k][i] = watch[k][i])
        /\ \/ o = obj[k] /\ watch'[k] = watch[k]
           \/ watch'[k] # <<>> /\ watch'[k][Len(watch'[k])] = o
    BY <1>0, StoreFacts
  <1>3. TypeOK'
    BY <1>1, <1>2 DEF IInv, TypeOK, UserWrite, Storable, BudgetsOK
  <1>4. fresh' => fresh /\ cur # k
    BY DEF UserWrite
  <1>5. FreshCopy'
    BY <1>1, <1>4 DEF IInv, TypeOK, CopiesAgree, FreshCopy, UserWrite
  <1>6. VersionsPinned'
    BY <1>1, <1>2 DEF IInv, TypeOK, CopiesAgree, VersionsPinned, Pinned, UserWrite, Storable
  <1>7. VersionsNotAhead'
    BY <1>1, <1>2 DEF IInv, TypeOK, CopiesAgree, VersionsNotAhead, NotAhead, UserWrite, Storable
  <1>8. WorkerCopy'
    BY <1>1, <1>4 DEF IInv, TypeOK, CopiesAgree, WorkerCopy, IsReadOnly, FleetIds, UserWrite
  <1>9. FinalizerBeforeFleet'
    BY <1>1 DEF IInv, TypeOK, CopiesAgree, FinalizerBeforeFleet, UserWrite, Storable
  <1>10. CacheCatchesUp'
    BY <1>1, <1>2 DEF IInv, CopiesAgree, CacheCatchesUp, UserWrite
  <1> QED BY <1>3, <1>5, <1>6, <1>7, <1>8, <1>9, <1>10 DEF IInv, CopiesAgree

LEMMA DeliverInv ==
  ASSUME IInv, NEW k \in Keys, Deliver(k),
         UNCHANGED <<pc, retry, fleet, nextId, scope, budgets>>
  PROVE  IInv'
  <1>1. /\ watch[k] \in Seq(Version) /\ watch[k] # <<>>
        /\ \A j \in Keys : j # k => cache'[j] = cache[j] /\ watch'[j] = watch[j]
        /\ cache'[k] = Head(watch[k]) /\ watch'[k] = Tail(watch[k])
    BY DEF IInv, TypeOK, Deliver
  <1>2. /\ Tail(watch[k]) \in Seq(Version)
        /\ Head(watch[k]) \in Version
        /\ Head(watch[k]) = watch[k][1] /\ 1 \in 1..Len(watch[k])
        /\ \A i \in 1..Len(Tail(watch[k])) :
             i + 1 \in 1..Len(watch[k]) /\ Tail(watch[k])[i] = watch[k][i + 1]
    BY <1>1, TailFacts
  <1>3. TypeOK'
    BY <1>1, <1>2 DEF IInv, TypeOK, Deliver, budgets
  <1>4. FreshCopy'
    BY <1>1 DEF IInv, TypeOK, CopiesAgree, FreshCopy, Deliver
  <1>5. VersionsPinned'
    BY <1>1, <1>2 DEF IInv, CopiesAgree, VersionsPinned, Pinned, Deliver
  <1>6. VersionsNotAhead'
    BY <1>1, <1>2 DEF IInv, CopiesAgree, VersionsNotAhead, NotAhead, Deliver
  <1>7. WorkerCopy' /\ FinalizerBeforeFleet'
    BY DEF IInv, CopiesAgree, WorkerCopy, FinalizerBeforeFleet, IsReadOnly, FleetIds, Deliver
  <1>8. CacheCatchesUp'
    <2>1. Tail(watch[k]) = <<>> => Len(watch[k]) = 1
      BY <1>1, TailFacts
    <2>2. Tail(watch[k]) # <<>> =>
            Tail(watch[k])[Len(Tail(watch[k]))] = watch[k][Len(watch[k])]
      BY <1>1, <1>2
    <2> QED BY <1>1, <1>2, <2>1, <2>2 DEF IInv, CopiesAgree, CacheCatchesUp, Deliver
  <1> QED BY <1>3, <1>4, <1>5, <1>6, <1>7, <1>8 DEF IInv, CopiesAgree

\* The worker lets go of its copy, with nothing written.
LEMMA ReturnInv ==
  ASSUME IInv, NEW b \in BOOLEAN, pc # "idle", JustReturn(b), pc' = "idle", retry' \in BOOLEAN,
         fleet' \in [Names -> FleetPipeline \cup {Vacant}], nextId' \in Nat \ {NoId},
         UNCHANGED scope, BudgetsOK'
  PROVE  IInv'
  <1>1. TypeOK'
    BY DEF IInv, TypeOK, JustReturn, Return, BudgetsOK, Steps
  <1>2. CopiesAgree'
    BY DEF IInv, CopiesAgree, FreshCopy, CacheCatchesUp, VersionsPinned, Pinned,
           VersionsNotAhead, NotAhead, WorkerCopy, FinalizerBeforeFleet, JustReturn, Return
  <1> QED BY <1>1, <1>2 DEF IInv

\* The worker writes its object and lets go of its copy.
LEMMA WriteInv ==
  ASSUME IInv, NEW o \in Version, NEW b \in BOOLEAN, pc # "idle", WriteAndReturn(o, b),
         pc' = "idle", retry' \in BOOLEAN, UNCHANGED <<fleet, nextId, scope>>, BudgetsOK',
         NotAhead(o),
         (obj[cur].exists /\ obj[cur].fin /\ ~obj[cur].del) => (o.exists /\ o.fin)
  PROVE  IInv'
  <1>1. /\ cur \in Keys /\ watch[cur] = <<>> /\ cache[cur] = obj[cur]
        /\ cache' = cache /\ Store(cur, o)
        /\ obj \in [Keys -> Version] /\ watch \in [Keys -> Seq(Version)]
    BY DEF IInv, TypeOK, CopiesAgree, FreshCopy, WriteAndReturn
  <1>2. /\ obj' \in [Keys -> Version] /\ obj'[cur] = o
        /\ watch' \in [Keys -> Seq(Version)]
        /\ \A j \in Keys : j # cur => obj'[j] = obj[j] /\ watch'[j] = watch[j]
    BY <1>1, StoreFacts
  <1>9. /\ \A i \in 1..Len(watch'[cur]) :
             watch'[cur][i] = o \/ i \in 1..Len(watch[cur])
        /\ \/ o = obj[cur] /\ watch'[cur] = watch[cur]
           \/ watch'[cur] # <<>> /\ watch'[cur][Len(watch'[cur])] = o
    BY <1>1, StoreFacts
  <1>10. \A i \in 1..Len(watch'[cur]) : watch'[cur][i] = o
    BY <1>1, <1>9
  <1>3. TypeOK'
    BY <1>1, <1>2 DEF IInv, TypeOK, WriteAndReturn, Return, BudgetsOK, Steps
  <1>4. FreshCopy' /\ WorkerCopy' /\ FinalizerBeforeFleet'
    BY DEF FreshCopy, WorkerCopy, FinalizerBeforeFleet, WriteAndReturn, Return
  <1>5. VersionsPinned'
    BY <1>1, <1>2, <1>10 DEF IInv, CopiesAgree, VersionsPinned, Pinned
  <1>6. VersionsNotAhead'
    BY <1>1, <1>2, <1>10 DEF IInv, CopiesAgree, VersionsNotAhead, NotAhead
  <1>7. CacheCatchesUp'
    BY <1>1, <1>2, <1>9 DEF IInv, CopiesAgree, CacheCatchesUp
  <1> QED BY <1>3, <1>4, <1>5, <1>6, <1>7 DEF IInv, CopiesAgree

\* The worker takes a request and copies the cached object; o is the copy as the
\* code has changed it before its first call.
LEMMA FetchInv ==
  ASSUME IInv, NEW k \in Keys, NEW o \in Pipeline, Fetch(k, o), pc' \in Steps \ {"idle"},
         UNCHANGED <<fleet, nextId, scope, budgets, retry>>,
         cache[k].exists, o.gen = cache[k].gen,
         cache[k].st.og <= o.st.og, o.st.og <= o.gen,
         pc' \in {"dryRun", "migrateDelete", "upsert", "get"} => cache[k].fin /\ ~cache[k].del,
         pc' = "addFinalizer" => o.fin,
         pc' \in {"finalDelete", "removeFinalizer"} => o.del /\ o = cache[k],
         pc' = "removeFinalizer" /\ ~IsReadOnly(o) => o.st.id = NoId
  PROVE  IInv'
  <1>1. TypeOK'
    BY DEF IInv, TypeOK, Fetch, budgets
  <1>2. cur' = k /\ mem' = o /\ UNCHANGED <<obj, watch, cache>> /\ fresh' = (watch[k] = <<>>)
    BY DEF Fetch
  <1>3. CacheCatchesUp' /\ VersionsPinned' /\ VersionsNotAhead'
    BY <1>2 DEF IInv, CopiesAgree, CacheCatchesUp, VersionsPinned, Pinned,
                VersionsNotAhead, NotAhead
  <1>4. fresh' => obj[k] = cache[k]
    BY <1>2 DEF IInv, CopiesAgree, CacheCatchesUp
  <1>5. FreshCopy'
    BY <1>2, <1>4 DEF FreshCopy
  <1>6. FinalizerBeforeFleet'
    BY <1>2 DEF IInv, CopiesAgree, VersionsPinned, Pinned, FinalizerBeforeFleet
  <1>7. NoId \notin FleetIds'
    BY DEF FleetIds
  <1>8. WorkerCopy'
    BY <1>2, <1>4, <1>7 DEF WorkerCopy, IsReadOnly
  <1> QED BY <1>1, <1>3, <1>5, <1>6, <1>8 DEF IInv, CopiesAgree

\* The worker goes on to another call with its copy changed to o.
LEMMA ContinueInv ==
  ASSUME IInv, NEW o \in Pipeline, Continue(o), pc # "idle", pc' \in Steps \ {"idle"},
         retry' \in BOOLEAN, UNCHANGED scope, BudgetsOK',
         fleet' \in [Names -> FleetPipeline \cup {Vacant}], nextId' \in Nat \ {NoId},
         o.gen = mem.gen, mem.st.og <= o.st.og, o.st.og <= o.gen,
         pc' \in {"dryRun", "migrateDelete", "upsert", "get"} =>
            pc \in {"dryRun", "migrateDelete", "upsert", "get"},
         pc' # "addFinalizer",
         pc' \in {"finalDelete", "removeFinalizer"} => pc = "finalDelete" /\ o = mem,
         pc' = "removeFinalizer" => o.st.id \notin FleetIds'
  PROVE  IInv'
  <1>1. TypeOK'
    BY DEF IInv, TypeOK, Continue, BudgetsOK
  <1>2. mem' = o /\ UNCHANGED <<obj, watch, cache, cur, fresh>>
    BY DEF Continue
  <1>3. CacheCatchesUp' /\ VersionsPinned' /\ VersionsNotAhead'
    BY <1>2 DEF IInv, CopiesAgree, CacheCatchesUp, VersionsPinned, Pinned,
                VersionsNotAhead, NotAhead
  <1>4. FreshCopy'
    <2> SUFFICES ASSUME fresh PROVE obj[cur].st.og <= o.st.og /\ FreshCopy
      BY <1>2 DEF FreshCopy
    <2>1. obj[cur] \in Version /\ mem \in Pipeline /\ FreshCopy
      BY DEF IInv, TypeOK, CopiesAgree
    <2>2. obj[cur] \in Pipeline
      BY <2>1, VersionType DEF FreshCopy
    <2>3. obj[cur].st.og \in Nat /\ mem.st.og \in Nat /\ o.st.og \in Nat
      BY <2>1, <2>2, NumbersType
    <2>4. obj[cur].st.og <= mem.st.og
      BY <2>1 DEF FreshCopy
    <2> QED BY <2>1, <2>3, <2>4
  <1>5. FinalizerBeforeFleet'
    BY <1>2 DEF IInv, CopiesAgree, FinalizerBeforeFleet
  <1>6. WorkerCopy'
    BY <1>2 DEF IInv, CopiesAgree, WorkerCopy, IsReadOnly
  <1> QED BY <1>1, <1>3, <1>4, <1>5, <1>6 DEF IInv, CopiesAgree

LEMMA RestartInv ==
  ASSUME IInv, Restart
  PROVE  IInv'
  <1>1. /\ cache' = obj /\ obj' = obj /\ watch' = [k \in Keys |-> <<>>]
        /\ queue' \subseteq Keys /\ cur' = "" /\ mem' = NoObject /\ fresh' = FALSE
        /\ pc' = "idle" /\ retry' = FALSE /\ UNCHANGED <<fleet, nextId, edits, faults>>
    BY DEF Restart, KubeRestart, NoEffect
  <1>2. crashes' \in 0..MaxCrashes /\ scope' \in ScopeValues
    <2>1. crashes \in 0..MaxCrashes /\ crashes < MaxCrashes /\ crashes' = crashes + 1
      BY DEF IInv, TypeOK, Restart
    <2>2. scope' \in ScopeValues
      BY ScopesAssumption DEF Restart
    <2> QED BY <2>1, <2>2, BoundsType
  <1>3. \A k \in Keys : watch'[k] = <<>> /\ \A i : i \notin 1..Len(watch'[k])
    BY <1>1, EmptyFacts
  <1>4. watch' \in [Keys -> Seq(Version)]
    BY <1>1, EmptyFacts
  <1>5. TypeOK'
    BY <1>1, <1>2, <1>4 DEF IInv, TypeOK, Steps
  <1>6. FreshCopy' /\ WorkerCopy' /\ FinalizerBeforeFleet'
    BY <1>1 DEF FreshCopy, WorkerCopy, FinalizerBeforeFleet
  <1>7. CacheCatchesUp' /\ VersionsPinned' /\ VersionsNotAhead'
    BY <1>1, <1>3 DEF IInv, CopiesAgree, CacheCatchesUp, VersionsPinned, Pinned,
                      VersionsNotAhead, NotAhead
  <1> QED BY <1>5, <1>6, <1>7 DEF IInv, CopiesAgree

-----------------------------------------------------------------------------
(* One lemma per group of actions.                                         *)

LEMMA InitInv == Init => IInv
  <1> SUFFICES ASSUME Init PROVE IInv
    OBVIOUS
  <1> DEFINE legacy(k, s, a) ==
               [j \in Keys |->
                   IF j = k
                   THEN [exists |-> TRUE, spec |-> s, ann |-> a, gen |-> 1,
                         fin |-> TRUE, del |-> FALSE,
                         st |-> [id |-> 1, name |-> NoName, og |-> 1,
                                 ready |-> "True", reason |-> "Synced"]]
                   ELSE NoObject]
  <1>1. PICK stored \in [Keys -> Version] :
          KubeInit(stored) /\ \A k \in Keys : NotAhead(stored[k])
    <2>1. CASE KubeInit([k \in Keys |-> NoObject])
      BY <2>1, NoObjectType DEF Version, NotAhead
    <2>2. ASSUME NEW k \in Keys, NEW s \in Specs, NEW a \in Annots
          PROVE  /\ legacy(k, s, a) \in [Keys -> Version]
                 /\ \A j \in Keys : NotAhead(legacy(k, s, a)[j])
      BY DEF Version, NotAhead, NoObject, Pipeline, Status, Reasons
    <2>3. CASE \E k \in Keys, s \in Specs, a \in Annots : KubeInit(legacy(k, s, a))
      BY <2>2, <2>3
    <2> QED BY <2>1, <2>3 DEF Init
  <1>2. fleet \in [Names -> FleetPipeline \cup {Vacant}]
    <2> DEFINE one(N, c) == [n \in Names |->
                              IF n \in N THEN [id |-> 1, contents |-> c] ELSE Vacant]
    <2>1. ASSUME NEW N, NEW c \in Contents
          PROVE  one(N, c) \in [Names -> FleetPipeline \cup {Vacant}]
      BY DEF FleetPipeline, NoId
    <2>2. ASSUME NEW name, NEW c \in Contents
          PROVE  [n \in Names |-> IF n = name THEN [id |-> 1, contents |-> c]
                                  ELSE Vacant] \in [Names -> FleetPipeline \cup {Vacant}]
      BY DEF FleetPipeline, NoId
    <2>3. CASE \E N \in SUBSET Foreign, c \in Contents \ Invalid : fleet = one(N, c)
      BY <2>1, <2>3
    <2>4. CASE \E s \in Specs :
                 fleet = [n \in Names |-> IF n = <<"", s.base>>
                                          THEN [id |-> 1, contents |-> s.contents]
                                          ELSE Vacant]
      <3>1. PICK s \in Specs : fleet = [n \in Names |-> IF n = <<"", s.base>>
                                          THEN [id |-> 1, contents |-> s.contents]
                                          ELSE Vacant]
        BY <2>4
      <3>2. s.contents \in Contents
        BY DEF Contents
      <3> QED BY <2>2, <3>1, <3>2
    <2> QED BY <2>3, <2>4 DEF Init
  <1>3. watch = [k \in Keys |-> <<>>]
    BY <1>1 DEF KubeInit
  <1>7. watch \in [Keys -> Seq(Version)]
    BY <1>3, EmptyFacts
  <1>8. \A k \in Keys : watch[k] = <<>> /\ \A i : i \notin 1..Len(watch[k])
    BY <1>3, EmptyFacts
  <1>9. BudgetsOK /\ nextId \in Nat \ {NoId} /\ scope \in ScopeValues
    <2>1. nextId = 2 /\ scope \in Scopes /\ edits = 0 /\ faults = 0 /\ crashes = 0
      BY DEF Init
    <2>2. scope \in ScopeValues
      BY <2>1, ScopesAssumption
    <2> QED BY <2>1, <2>2, BoundsType DEF BudgetsOK, NoId
  <1>10. retry \in BOOLEAN /\ pc = "idle"
    BY DEF Init
  <1>11. /\ obj \in [Keys -> Version] /\ cache \in [Keys -> Version]
         /\ queue \subseteq Keys /\ cur = "" /\ mem = NoObject /\ fresh = FALSE
    BY <1>1 DEF KubeInit
  <1>4. TypeOK
    BY <1>2, <1>7, <1>9, <1>10, <1>11 DEF TypeOK, Steps, BudgetsOK
  <1>5. FreshCopy /\ WorkerCopy /\ FinalizerBeforeFleet
    BY <1>10, <1>11 DEF FreshCopy, WorkerCopy, FinalizerBeforeFleet
  <1>6. CacheCatchesUp /\ VersionsPinned /\ VersionsNotAhead
    BY <1>1, <1>8 DEF KubeInit, CacheCatchesUp, VersionsPinned, Pinned, VersionsNotAhead, NotAhead
  <1> QED BY <1>4, <1>5, <1>6 DEF IInv, CopiesAgree

LEMMA UserInv ==
  ASSUME IInv, User
  PROVE  IInv'
  <1>1. BudgetsOK' /\ UNCHANGED <<pc, retry, nextId, scope>>
    <2>1. Edit /\ NotOperator
      BY DEF User, EditSpec, CreatePipeline, Annotate, DeletePipeline, ExternalDelete
    <2>2. BudgetsOK
      BY DEF IInv, TypeOK, BudgetsOK
    <2>3. BudgetsOK'
      BY <2>1, <2>2, BoundsType DEF Edit, NotOperator, BudgetsOK
    <2> QED BY <2>1, <2>3 DEF NotOperator
  <1>2. ASSUME NEW k \in Keys, NEW s \in Specs, NEW a \in Annots, CreatePipeline(k, s, a)
        PROVE  IInv'
    <2> DEFINE st == [id |-> NoId, name |-> NoName, og |-> 0,
                      ready |-> "Unknown", reason |-> ""]
               o == [exists |-> TRUE, spec |-> s, ann |-> a, gen |-> 1,
                     fin |-> FALSE, del |-> FALSE, st |-> st]
    <2>0. st \in Status
      BY DEF Status, Reasons, NoId
    <2>4. o \in Pipeline
      BY <2>0 DEF Pipeline
    <2>5. o.st.og = 0 /\ o.gen = 1
      OBVIOUS
    <2> HIDE DEF o
    <2>1. o \in Pipeline /\ o.st.og <= o.gen
      BY <2>4, <2>5
    <2>2. Storable(k, o)
      BY <1>2, <2>1 DEF Storable, Version, NotAhead, CreatePipeline
    <2>3. UserWrite(k, o) /\ UNCHANGED fleet
      BY <1>2 DEF CreatePipeline, o
    <2> QED BY <1>1, <2>2, <2>3, UserWriteInv
  <1>3. ASSUME NEW k \in Keys, obj[k].exists
        PROVE  obj[k] \in Pipeline /\ NotAhead(obj[k])
    BY <1>3, VersionType DEF IInv, TypeOK, CopiesAgree, VersionsNotAhead
  <1>4. ASSUME NEW k \in Keys, NEW s \in Specs, EditSpec(k, s)
        PROVE  IInv'
    <2>1. Storable(k, [obj[k] EXCEPT !.spec = s, !.gen = @ + 1])
      <3>1. obj[k] \in Pipeline /\ NotAhead(obj[k])
        BY <1>3, <1>4 DEF EditSpec
      <3> QED BY <3>1, EditedType, VersionType DEF Storable, Version, NotAhead
    <2> QED BY <1>1, <1>4, <2>1, UserWriteInv DEF EditSpec
  <1>5. ASSUME NEW k \in Keys, NEW a \in Annots, Annotate(k, a)
        PROVE  IInv'
    <2>1. Storable(k, [obj[k] EXCEPT !.ann = a])
      BY <1>3, <1>5 DEF Annotate, Storable, Version, NotAhead, Pipeline, Status
    <2> QED BY <1>1, <1>5, <2>1, UserWriteInv DEF Annotate
  <1>6. ASSUME NEW k \in Keys, DeletePipeline(k)
        PROVE  IInv'
    <2>1. CASE obj[k].fin
      <3>1. Storable(k, [obj[k] EXCEPT !.del = TRUE, !.gen = @ + 1])
        <4>1. obj[k] \in Pipeline /\ NotAhead(obj[k])
          BY <1>3, <1>6 DEF DeletePipeline
        <4> QED BY <2>1, <4>1, DeletedType, VersionType DEF Storable, Version, NotAhead
      <3> QED BY <1>1, <1>6, <2>1, <3>1, UserWriteInv DEF DeletePipeline
    <2>2. CASE ~obj[k].fin
      <3>1. Storable(k, NoObject)
        BY <2>2, NoObjectType DEF Storable, Version, NotAhead
      <3> QED BY <1>1, <1>6, <2>2, <3>1, UserWriteInv DEF DeletePipeline
    <2> QED BY <2>1, <2>2
  <1>7. ASSUME NEW n \in Names, ExternalDelete(n)
        PROVE  IInv'
    <2>1. UNCHANGED <<kubeVars, pc, retry, nextId, scope>>
      BY <1>7 DEF ExternalDelete, NotOperator
    <2>2. /\ fleet' \in [Names -> FleetPipeline \cup {Vacant}]
          /\ FleetIds' \subseteq FleetIds
      BY <1>7 DEF ExternalDelete, IInv, TypeOK, FleetIds, Vacant, NoId
    <2>3. TypeOK'
      BY <1>1, <2>1, <2>2 DEF IInv, TypeOK, kubeVars, BudgetsOK
    <2>4. CopiesAgree'
      BY <2>1, <2>2 DEF IInv, CopiesAgree, FreshCopy, CacheCatchesUp, VersionsPinned, Pinned,
           VersionsNotAhead, NotAhead, WorkerCopy, IsReadOnly, FinalizerBeforeFleet, kubeVars
    <2> QED BY <2>3, <2>4 DEF IInv
  <1> QED BY <1>2, <1>4, <1>5, <1>6, <1>7 DEF User

\* A request that Reconcile answers without a call.
LEMMA ReconcileNothingInv ==
  ASSUME IInv, NEW k \in Keys, ReconcileNothing(k)
  PROVE  IInv'
  <1>1. /\ UNCHANGED <<obj, watch, cache, cur, mem, fresh, fleet, nextId, scope, pc, retry, budgets>>
        /\ queue' = queue \ {k}
    BY DEF ReconcileNothing, FetchAndReturn, NoEffect, NoFault, OperatorOnly, budgets
  <1>2. TypeOK'
    BY <1>1 DEF IInv, TypeOK, budgets
  <1>3. CopiesAgree'
    BY <1>1 DEF IInv, CopiesAgree, FreshCopy, CacheCatchesUp, VersionsPinned, Pinned,
           VersionsNotAhead, NotAhead, WorkerCopy, IsReadOnly, FleetIds, FinalizerBeforeFleet
  <1> QED BY <1>2, <1>3 DEF IInv

LEMMA ReconcileInv ==
  ASSUME IInv, NEW k \in Keys, Reconcile(k)
  PROVE  IInv'
  <1> DEFINE c == cache[k]
             o == backfillSyncedName(c)
  <1>1. ASSUME c.exists
        PROVE  c \in Pipeline /\ c.st.og \in Nat /\ c.gen \in Nat /\ c.st.og <= c.gen
    <2>1. c \in Version /\ NotAhead(c)
      BY DEF IInv, TypeOK, CopiesAgree, VersionsNotAhead
    <2> QED BY <1>1, <2>1, VersionType, NumbersType DEF NotAhead
  <1>2. ASSUME c.exists
        PROVE  o \in Pipeline /\ o.gen = c.gen /\ o.st.og = c.st.og
    BY <1>1, <1>2, BackfillType
  <1> HIDE DEF o
  <1>3. CASE ReconcileFinalizer(k)
    <2> DEFINE f == [c EXCEPT !.fin = TRUE]
    <2>1. c.exists /\ Fetch(k, f) /\ pc' = "addFinalizer"
          /\ UNCHANGED <<fleet, nextId, scope, budgets, retry>>
      BY <1>3 DEF ReconcileFinalizer, NoEffect, NoFault, OperatorOnly, budgets
    <2>2. f \in Pipeline /\ f.gen = c.gen /\ f.st.og = c.st.og /\ f.fin
      BY <1>1, <2>1 DEF Pipeline
    <2> HIDE DEF f
    <2> QED BY <1>1, <2>1, <2>2, FetchInv DEF Steps
  <1>4. CASE ReconcileReadOnly(k)
    <2>1. c.exists /\ c.fin /\ ~c.del /\ UNCHANGED <<fleet, nextId, scope, budgets, retry>>
      BY <1>4 DEF ReconcileReadOnly, ToSync, NoEffect, NoFault, OperatorOnly, budgets
    <2>2. CASE Fetch(k, o) /\ pc' = "get"
      BY <1>1, <1>2, <2>1, <2>2, FetchInv DEF Steps
    <2>3. CASE Fetch(k, ErrorStatus(o, "ValidationError", FALSE)) /\ pc' = "updateStatus"
      <3> DEFINE e == ErrorStatus(o, "ValidationError", FALSE)
      <3>1. e \in Pipeline /\ e.gen = o.gen /\ e.st.og \in {o.st.og, o.gen}
        BY <1>2, <2>1, ErrorType DEF Reasons
      <3> HIDE DEF e
      <3>2. c.st.og <= e.st.og /\ e.st.og <= e.gen
        BY <1>1, <1>2, <2>1, <3>1
      <3> QED BY <1>2, <2>1, <2>3, <3>1, <3>2, FetchInv DEF Steps, e
    <2> QED BY <1>4, <2>2, <2>3 DEF ReconcileReadOnly, o
  <1>5. CASE ReconcileNormal(k)
    <2>1. c.exists /\ c.fin /\ ~c.del /\ UNCHANGED <<fleet, nextId, scope, budgets, retry>>
      BY <1>5 DEF ReconcileNormal, ToSync, NoEffect, NoFault, OperatorOnly, budgets
    <2>2. Fetch(k, o) /\ pc' \in {"dryRun", "upsert"}
      BY <1>5 DEF ReconcileNormal, o
    <2> QED BY <1>1, <1>2, <2>1, <2>2, FetchInv DEF Steps
  <1>6. CASE ReconcileDelete(k)
    <2>1. c.exists /\ c.del /\ UNCHANGED <<fleet, nextId, scope, budgets, retry>> /\ Fetch(k, c)
      BY <1>6 DEF ReconcileDelete, NoEffect, NoFault, OperatorOnly, budgets
    <2>2. /\ pc' \in {"removeFinalizer", "finalDelete"}
          /\ pc' = "removeFinalizer" /\ ~IsReadOnly(c) => c.st.id = NoId
      BY <1>6 DEF ReconcileDelete
    <2> QED BY <1>1, <2>1, <2>2, FetchInv DEF Steps
  <1> QED BY <1>3, <1>4, <1>5, <1>6, ReconcileNothingInv DEF Reconcile

\* What Fleet may do during a call keeps its type, and a deleted ID is gone.
LEMMA FleetFacts ==
  ASSUME IInv, NEW n \in Names, NEW c \in Contents, NEW id \in Nat
  PROVE  /\ NoEffect \/ UpsertEffect(n, c) \/ DeleteEffect(id) =>
              /\ fleet' \in [Names -> FleetPipeline \cup {Vacant}]
              /\ nextId' \in Nat \ {NoId}
         /\ Upserted(n, c)[n].id \in Nat
         /\ DeleteEffect(id) => id \notin FleetIds'
  <1>1. fleet \in [Names -> FleetPipeline \cup {Vacant}] /\ nextId \in Nat \ {NoId}
    BY DEF IInv, TypeOK
  <1>2. \A m \in Names : fleet[m].id \in Nat /\ (fleet[m].id # NoId => fleet[m] \in FleetPipeline)
    BY <1>1 DEF FleetPipeline, Vacant, NoId
  <1> DEFINE typed == /\ fleet' \in [Names -> FleetPipeline \cup {Vacant}]
                      /\ nextId' \in Nat \ {NoId}
  <1>3. UpsertEffect(n, c) => typed
    <2>1. UpsertEffect(n, c) => nextId' \in Nat \ {NoId}
      BY <1>1 DEF UpsertEffect, NoId
    <2>2. [id |-> IF fleet[n].id = NoId THEN nextId ELSE fleet[n].id, contents |-> c]
             \in FleetPipeline
      BY <1>1, <1>2 DEF FleetPipeline
    <2> QED BY <1>1, <2>1, <2>2 DEF UpsertEffect, Upserted
  <1>4. DeleteEffect(id) => typed
    BY <1>1 DEF DeleteEffect, Removed
  <1>5. Upserted(n, c)[n].id \in Nat
    BY <1>1, <1>2 DEF Upserted
  <1>6. DeleteEffect(id) => id \notin FleetIds'
    BY <1>1 DEF DeleteEffect, Removed, FleetIds, Vacant
  <1>7. NoEffect => typed
    BY <1>1 DEF NoEffect
  <1> QED BY <1>3, <1>4, <1>5, <1>6, <1>7

FleetTyped == fleet \in [Names -> FleetPipeline \cup {Vacant}] /\ nextId \in Nat \ {NoId}

LEMMA FaultBudget ==
  ASSUME IInv, OperatorOnly, NoFault \/ \E code \in FaultCode : Fault(code)
  PROVE  BudgetsOK' /\ UNCHANGED scope
  <1>1. BudgetsOK
    BY DEF IInv, TypeOK, BudgetsOK
  <1>2. UNCHANGED <<scope, edits, crashes>>
    BY DEF OperatorOnly
  <1>3. CASE NoFault
    BY <1>1, <1>2, <1>3 DEF NoFault, BudgetsOK
  <1>4. CASE faults < MaxFaults /\ faults' = faults + 1
    BY <1>1, <1>2, <1>4, BoundsType DEF BudgetsOK
  <1> QED BY <1>3, <1>4 DEF Fault

\* Facts about the copy that the worker holds between two calls.
LEMMA CopyFacts ==
  ASSUME IInv, pc # "idle"
  PROVE  /\ cur \in Keys /\ mem \in Pipeline /\ mem.st.id \in Nat
         /\ mem.gen \in Nat /\ mem.st.og \in Nat /\ mem.st.og <= mem.gen
         /\ mem.spec.contents \in Contents
  <1>1. cur \in Keys /\ mem \in Pipeline /\ mem.st.og <= mem.gen
    BY DEF IInv, TypeOK, CopiesAgree, WorkerCopy
  <1>2. mem.spec.contents \in Contents
    BY <1>1 DEF Contents, Pipeline
  <1> QED BY <1>1, <1>2, NumbersType

LEMMA ErrorPathInv ==
  ASSUME IInv, pc # "idle", NEW reason \in Reasons, NEW b \in BOOLEAN,
         updateStatusError(reason, b), UNCHANGED scope, BudgetsOK', FleetTyped'
  PROVE  IInv'
  <1> DEFINE e == ErrorStatus(mem, reason, b)
  <1>1. e \in Pipeline /\ e.gen = mem.gen /\ e.st.og \in {mem.st.og, mem.gen}
    BY CopyFacts, ErrorType
  <1>2. Continue(e) /\ pc' = "updateStatus" /\ retry' \in BOOLEAN
    BY DEF updateStatusError
  <1> HIDE DEF e
  <1>3. mem.st.og <= e.st.og /\ e.st.og <= e.gen
    BY <1>1, CopyFacts
  <1> QED BY <1>1, <1>2, <1>3, ContinueInv DEF Steps, FleetTyped

LEMMA RequeueInv ==
  ASSUME IInv, pc # "idle", RequeueAfter, UNCHANGED scope, BudgetsOK', FleetTyped'
  PROVE  IInv'
  <1>1. JustReturn(TRUE) /\ pc' = "idle" /\ retry' \in BOOLEAN
    BY DEF RequeueAfter, IInv, TypeOK
  <1> QED BY <1>1, ReturnInv DEF FleetTyped

\* Going on with status.id cleared.
LEMMA ClearInv ==
  ASSUME IInv, pc \in {"dryRun", "migrateDelete", "upsert"},
         Continue([mem EXCEPT !.st.id = NoId]), pc' = "upsert", UNCHANGED retry,
         UNCHANGED scope, BudgetsOK', FleetTyped'
  PROVE  IInv'
  <1> DEFINE e == [mem EXCEPT !.st.id = NoId]
  <1>1. e \in Pipeline /\ e.gen = mem.gen /\ e.st.og = mem.st.og
    BY CopyFacts, ClearedType
  <1>2. Continue(e)
    OBVIOUS
  <1> HIDE DEF e
  <1>3. mem.st.og <= e.st.og /\ e.st.og <= e.gen
    BY <1>1, CopyFacts
  <1>4. retry' \in BOOLEAN
    BY DEF IInv, TypeOK
  <1> QED BY <1>1, <1>2, <1>3, <1>4, ContinueInv DEF Steps, FleetTyped

LEMMA HandleInv ==
  ASSUME IInv, pc \in {"dryRun", "migrateDelete", "upsert"}, NEW code,
         handleAPIError(code), UNCHANGED scope, BudgetsOK', FleetTyped'
  PROVE  IInv'
  <1>1. CASE updateStatusError("ValidationError", FALSE)
    BY <1>1, ErrorPathInv DEF Reasons
  <1>2. CASE RequeueAfter
    BY <1>2, RequeueInv
  <1>3. CASE updateStatusError("SyncFailed", shouldRetry(code, "SyncFailed"))
    BY <1>3, ErrorPathInv DEF Reasons, shouldRetry
  <1>4. CASE Continue([mem EXCEPT !.st.id = NoId]) /\ pc' = "upsert" /\ UNCHANGED retry
    BY <1>4, ClearInv
  <1> QED BY <1>1, <1>2, <1>3, <1>4 DEF handleAPIError

LEMMA HandleReadOnlyInv ==
  ASSUME IInv, pc = "get", NEW code,
         handleReadOnlyAPIError(code), UNCHANGED scope, BudgetsOK', FleetTyped'
  PROVE  IInv'
  <1>1. CASE updateStatusError("ValidationError", FALSE)
    BY <1>1, ErrorPathInv DEF Reasons
  <1>2. CASE RequeueAfter
    BY <1>2, RequeueInv
  <1>3. CASE updateStatusError("ReadOnly", shouldRetry(code, "ReadOnly"))
    BY <1>3, ErrorPathInv DEF Reasons, shouldRetry
  <1> QED BY <1>1, <1>2, <1>3 DEF handleReadOnlyAPIError

-----------------------------------------------------------------------------
(* The calls of the worker.                                                *)

LEMMA MigrateDryRunInv ==
  ASSUME IInv, MigrateDryRun
  PROVE  IInv'
  <1>1. pc = "dryRun" /\ NoEffect /\ OperatorOnly
    BY DEF MigrateDryRun
  <1>2. BudgetsOK' /\ UNCHANGED scope
    BY <1>1, FaultBudget DEF MigrateDryRun, FleetFault, FaultCode
  <1>3. FleetTyped'
    BY <1>1 DEF IInv, TypeOK, FleetTyped, NoEffect
  <1>4. CASE Continue(mem) /\ pc' = "migrateDelete" /\ UNCHANGED retry
    BY <1>1, <1>2, <1>3, <1>4, CopyFacts, ContinueInv DEF Steps, FleetTyped, IInv, TypeOK
  <1>5. CASE \E code : handleAPIError(code)
    BY <1>1, <1>2, <1>3, <1>5, HandleInv
  <1> QED BY <1>4, <1>5 DEF MigrateDryRun

LEMMA MigrateDeleteInv ==
  ASSUME IInv, MigrateDelete
  PROVE  IInv'
  <1>1. pc = "migrateDelete" /\ OperatorOnly
    BY DEF MigrateDelete
  <1>2. BudgetsOK' /\ UNCHANGED scope
    BY <1>1, FaultBudget DEF MigrateDelete, FleetFault, FaultCode
  <1>3. FleetTyped'
    <2>1. DeleteEffect(mem.st.id) \/ NoEffect
      BY DEF MigrateDelete
    <2>2. mem.st.id \in Nat /\ mem \in Pipeline /\ cur \in Keys /\ mem.spec.contents \in Contents
      BY <1>1, CopyFacts
    <2> QED BY <2>1, <2>2, FleetFacts, NameType DEF FleetTyped
  <1>4. CASE Continue([mem EXCEPT !.st.id = NoId]) /\ pc' = "upsert" /\ UNCHANGED retry
    BY <1>1, <1>2, <1>3, <1>4, ClearInv
  <1>5. CASE \E code : handleAPIError(code)
    BY <1>1, <1>2, <1>3, <1>5, HandleInv
  <1> QED BY <1>4, <1>5 DEF MigrateDelete

LEMMA UpsertInv ==
  ASSUME IInv, Upsert
  PROVE  IInv'
  <1> DEFINE n == DesiredFleetName(cur, mem)
             c == mem.spec.contents
             e == SyncedStatus(mem, Upserted(n, c)[n].id, n)
  <1>1. pc = "upsert" /\ OperatorOnly
    BY DEF Upsert
  <1>2. BudgetsOK' /\ UNCHANGED scope
    BY <1>1, FaultBudget DEF Upsert, FleetFault, FaultCode
  <1>3. cur \in Keys /\ mem \in Pipeline /\ mem.st.id \in Nat /\ n \in Names /\ c \in Contents
    BY <1>1, CopyFacts, NameType
  <1>4. FleetTyped'
    <2>1. UpsertEffect(n, c) \/ NoEffect
      BY DEF Upsert, buildUpsertRequest
    <2> QED BY <1>3, <2>1, FleetFacts DEF FleetTyped
  <1>5. CASE Continue(e) /\ pc' = "updateStatus" /\ UNCHANGED retry
    <2>1. e \in Pipeline /\ e.gen = mem.gen /\ e.st.og = mem.gen
      BY <1>3, FleetFacts, SyncedType
    <2> HIDE DEF e
    <2>2. mem.st.og <= e.st.og /\ e.st.og <= e.gen
      BY <1>1, <2>1, CopyFacts
    <2>3. retry' \in BOOLEAN
      BY <1>5 DEF IInv, TypeOK
    <2> QED BY <1>1, <1>2, <1>4, <1>5, <2>1, <2>2, <2>3, ContinueInv DEF Steps, FleetTyped
  <1>6. CASE \E code : handleAPIError(code)
    BY <1>1, <1>2, <1>4, <1>6, HandleInv
  <1> QED BY <1>5, <1>6 DEF Upsert, buildUpsertRequest

LEMMA GetPipelineInv ==
  ASSUME IInv, GetPipeline
  PROVE  IInv'
  <1> DEFINE e == ReadOnlyStatus(mem, readOnlyPipelineID(mem))
  <1>1. pc = "get" /\ NoEffect /\ OperatorOnly
    BY DEF GetPipeline
  <1>2. BudgetsOK' /\ UNCHANGED scope
    BY <1>1, FaultBudget DEF GetPipeline, FleetFault, FaultCode
  <1>3. FleetTyped'
    BY <1>1 DEF IInv, TypeOK, FleetTyped, NoEffect
  <1>4. CASE Continue(e) /\ pc' = "updateStatus" /\ UNCHANGED retry
    <2>1. readOnlyPipelineID(mem) \in Nat
      BY <1>1, CopyFacts, AnnotsAssumption DEF readOnlyPipelineID, Pipeline
    <2>2. e \in Pipeline /\ e.gen = mem.gen /\ e.st.og = mem.gen
      BY <1>1, <2>1, CopyFacts, ReadOnlyType
    <2> HIDE DEF e
    <2>3. mem.st.og <= e.st.og /\ e.st.og <= e.gen
      BY <1>1, <2>2, CopyFacts
    <2>4. retry' \in BOOLEAN
      BY <1>4 DEF IInv, TypeOK
    <2> QED BY <1>1, <1>2, <1>3, <1>4, <2>2, <2>3, <2>4, ContinueInv DEF Steps, FleetTyped
  <1>5. CASE \E code : handleReadOnlyAPIError(code)
    BY <1>1, <1>2, <1>3, <1>5, HandleReadOnlyInv
  <1> QED BY <1>4, <1>5 DEF GetPipeline

LEMMA FinalDeleteInv ==
  ASSUME IInv, FinalDelete
  PROVE  IInv'
  <1>1. pc = "finalDelete" /\ OperatorOnly
    BY DEF FinalDelete
  <1>2. BudgetsOK' /\ UNCHANGED scope
    BY <1>1, FaultBudget DEF FinalDelete, FleetFault, FaultCode
  <1>3. /\ mem.st.id \in Nat /\ mem \in Pipeline /\ cur \in Keys /\ mem.spec.contents \in Contents
        /\ mem.st.og \in Nat /\ mem.st.og <= mem.gen
    BY <1>1, CopyFacts
  <1>4. FleetTyped' /\ (DeleteEffect(mem.st.id) => mem.st.id \notin FleetIds')
    <2>1. DeleteEffect(mem.st.id) \/ NoEffect
      BY DEF FinalDelete
    <2> QED BY <1>3, <2>1, FleetFacts, NameType DEF FleetTyped
  <1>5. CASE DeleteEffect(mem.st.id) /\ Continue(mem) /\ pc' = "removeFinalizer" /\ UNCHANGED retry
    <2>1. retry' \in BOOLEAN
      BY <1>5 DEF IInv, TypeOK
    <2>2. mem.st.og <= mem.st.og
      BY <1>3
    <2> QED BY <1>1, <1>2, <1>3, <1>4, <1>5, <2>1, <2>2, ContinueInv DEF Steps, FleetTyped
  <1>6. CASE \E code : updateStatusError("DeleteFailed", shouldRetry(code, "DeleteFailed"))
    BY <1>1, <1>2, <1>4, <1>6, ErrorPathInv DEF Reasons, shouldRetry
  <1> QED BY <1>5, <1>6 DEF FinalDelete

\* A write of the worker, whatever its outcome, when o may follow the stored object.
LEMMA KubeWriteInv ==
  ASSUME IInv, pc # "idle", NEW o, NEW b \in BOOLEAN, NEW e \in BOOLEAN, PipelineWrite(o, b, e),
         fresh => /\ o \in Version /\ NotAhead(o)
                  /\ (obj[cur].exists /\ obj[cur].fin /\ ~obj[cur].del) => (o.exists /\ o.fin)
  PROVE  IInv'
  <1>1. /\ pc' = "idle" /\ retry' \in BOOLEAN /\ UNCHANGED <<fleet, nextId>> /\ OperatorOnly
        /\ NoFault \/ Fault("k8s") \/ Fault("k8sLost")
    BY DEF PipelineWrite, KubeWrite, NoEffect
  <1>2. BudgetsOK' /\ UNCHANGED scope
    BY <1>1, FaultBudget DEF FaultCode
  <1>3. FleetTyped'
    BY <1>1 DEF IInv, TypeOK, FleetTyped
  <1>4. CASE \E q \in BOOLEAN : JustReturn(q)
    BY <1>1, <1>2, <1>3, <1>4, ReturnInv DEF FleetTyped
  <1>5. CASE \E q \in BOOLEAN : WriteAndReturn(o, q)
    <2>1. fresh
      BY <1>5 DEF WriteAndReturn
    <2> QED BY <1>1, <1>2, <1>5, <2>1, WriteInv
  <1> QED BY <1>4, <1>5 DEF PipelineWrite, KubeWrite

\* The object a write of the worker is about, when the write can be accepted.
LEMMA FreshFacts ==
  ASSUME IInv, fresh
  PROVE  /\ pc # "idle" /\ obj[cur] \in Pipeline /\ mem.gen = obj[cur].gen
         /\ obj[cur].st.og <= mem.st.og
  <1>1. FreshCopy
    BY DEF IInv, CopiesAgree
  <1>2. cur \in Keys /\ obj[cur] \in Version /\ obj[cur].exists
    BY <1>1 DEF IInv, TypeOK, FreshCopy
  <1> QED BY <1>1, <1>2, VersionType DEF FreshCopy

LEMMA AddFinalizerInv ==
  ASSUME IInv, AddFinalizer
  PROVE  IInv'
  <1>1. pc = "addFinalizer" /\ PipelineWrite(mem, FALSE, TRUE)
    BY DEF AddFinalizer
  <1>2. mem \in Version /\ mem.exists /\ mem.fin /\ NotAhead(mem)
    BY <1>1, CopyFacts, VersionType DEF IInv, CopiesAgree, WorkerCopy, Version, NotAhead
  <1> QED BY <1>1, <1>2, KubeWriteInv

LEMMA RemoveFinalizerInv ==
  ASSUME IInv, RemoveFinalizer
  PROVE  IInv'
  <1>1. pc = "removeFinalizer" /\ PipelineWrite(NoObject, FALSE, TRUE)
    BY DEF RemoveFinalizer
  <1>2. fresh => obj[cur].del
    BY <1>1 DEF IInv, CopiesAgree, WorkerCopy
  <1>3. NoObject \in Version /\ NotAhead(NoObject)
    BY NoObjectType DEF Version, NotAhead
  <1> QED BY <1>1, <1>2, <1>3, KubeWriteInv

LEMMA StatusType ==
  ASSUME NEW o \in Pipeline, NEW st \in Status
  PROVE  /\ [o EXCEPT !.st = st] \in Pipeline
         /\ [o EXCEPT !.st = st].st = st
         /\ [o EXCEPT !.st = st].gen = o.gen
         /\ [o EXCEPT !.st = st].fin = o.fin
         /\ [o EXCEPT !.st = st].exists
  BY DEF Pipeline

LEMMA UpdateStatusInv ==
  ASSUME IInv, UpdateStatus
  PROVE  IInv'
  <1> DEFINE o == [obj[cur] EXCEPT !.st = mem.st]
  <1>1. pc = "updateStatus" /\ PipelineWrite(o, retry, retry \/ mem.st.ready = "True")
    BY DEF UpdateStatus
  <1>2. retry \in BOOLEAN /\ (retry \/ mem.st.ready = "True") \in BOOLEAN
    BY DEF IInv, TypeOK
  <1>3. ASSUME fresh
        PROVE  /\ o \in Version /\ NotAhead(o) /\ o.exists
               /\ obj[cur].fin => o.fin
    <2>1. mem.st \in Status /\ mem.st.og <= mem.gen
      BY <1>1, CopyFacts, NumbersType
    <2>2. obj[cur] \in Pipeline /\ mem.gen = obj[cur].gen
      BY <1>3, FreshFacts
    <2>3. o \in Pipeline /\ o.st = mem.st /\ o.gen = mem.gen /\ o.fin = obj[cur].fin /\ o.exists
      BY <2>1, <2>2, StatusType
    <2> HIDE DEF o
    <2> QED BY <2>1, <2>3 DEF Version, NotAhead
  <1> HIDE DEF o
  <1> QED BY <1>1, <1>2, <1>3, KubeWriteInv

LEMMA NextInv ==
  ASSUME IInv, [Next]_vars
  PROVE  IInv'
  <1>1. CASE User
    BY <1>1, UserInv
  <1>2. ASSUME NEW k \in Keys, Reconcile(k)
        PROVE  IInv'
    BY <1>2, ReconcileInv
  <1>3. ASSUME NEW k \in Keys, Inform(k)
        PROVE  IInv'
    BY <1>3, DeliverInv DEF Inform, NoEffect, budgets
  <1>4. CASE Worker
    BY <1>4, MigrateDryRunInv, MigrateDeleteInv, UpsertInv, GetPipelineInv, FinalDeleteInv,
       AddFinalizerInv, RemoveFinalizerInv, UpdateStatusInv DEF Worker
  <1>5. CASE Restart
    BY <1>5, RestartInv
  <1>6. CASE UNCHANGED vars
    <2>1. TypeOK'
      BY <1>6 DEF IInv, TypeOK, vars, kubeVars
    <2>2. CopiesAgree'
      BY <1>6 DEF IInv, CopiesAgree, FreshCopy, CacheCatchesUp, VersionsPinned, Pinned,
           VersionsNotAhead, NotAhead, WorkerCopy, IsReadOnly, FleetIds, FinalizerBeforeFleet,
           vars, kubeVars
    <2> QED BY <2>1, <2>2 DEF IInv
  <1> QED BY <1>1, <1>2, <1>3, <1>4, <1>5, <1>6 DEF Next

-----------------------------------------------------------------------------
(* The theorems.                                                           *)

\* IInv is an invariant: it holds initially and every step keeps it.
THEOREM Inductive == Spec => []IInv
  BY InitInv, NextInv, PTL DEF Spec

\* Every step of users, informer, Pipeline reconciler and restarts keeps the types:
\* in particular the worker never acts on a Pipeline it has not read, whatever it
\* reads from a stale cache.
THEOREM TypeCorrect == Spec => []TypeOK
  <1>1. IInv => TypeOK
    BY DEF IInv
  <1> QED BY <1>1, Inductive, PTL

\* Every copy of a Pipeline relates to the stored one as CopiesAgree says, for any
\* number of Pipelines, edits, faults and crashes.
THEOREM CopiesAreHarmless == Spec => []CopiesAgree
  <1>1. IInv => CopiesAgree
    BY DEF IInv
  <1> QED BY <1>1, Inductive, PTL

\* The reconciler calls Fleet for a live Pipeline only when its finalizer is stored
\* (step 2 of Reconcile returns after adding it).
THEOREM FinalizerFirst == Spec => []FinalizerBeforeFleet
  <1>1. IInv => FinalizerBeforeFleet
    BY DEF IInv, CopiesAgree
  <1> QED BY <1>1, Inductive, PTL

\* How a step may change a stored object that exists.
LEMMA ObjectStep ==
  ASSUME IInv, [Next]_vars, NEW k \in Keys, obj[k].exists, obj'[k] # obj[k]
  PROVE  \/ obj'[k].exists /\ obj[k].st.og <= obj'[k].st.og
         \/ ~obj'[k].exists /\ ~obj[k].fin
         \/ ~obj'[k].exists /\ mem = obj[k] /\ pc = "removeFinalizer" /\ UNCHANGED fleet
  <1>0. /\ obj \in [Keys -> Version] /\ watch \in [Keys -> Seq(Version)] /\ cur \in Keys \cup {""}
        /\ obj[k] \in Pipeline /\ NotAhead(obj[k]) /\ obj[k].st.og <= obj[k].st.og
        /\ obj[k].st.og \in Nat
    <2>1. /\ obj \in [Keys -> Version] /\ watch \in [Keys -> Seq(Version)]
          /\ cur \in Keys \cup {""} /\ NotAhead(obj[k])
      BY DEF IInv, TypeOK, CopiesAgree, VersionsNotAhead
    <2>2. obj[k] \in Pipeline
      BY <2>1, VersionType
    <2>3. obj[k].st.og \in Nat
      BY <2>2, NumbersType
    <2>4. obj[k].st.og <= obj[k].st.og
      BY <2>3
    <2> QED BY <2>1, <2>2, <2>3, <2>4
  <1>1. ASSUME NEW j \in Keys, NEW o \in Version, Store(j, o)
        PROVE  j = k /\ obj'[k] = o
    BY <1>0, <1>1, StoreFacts
  <1>2. ASSUME NEW j \in Keys, NEW s \in Specs, EditSpec(j, s)
        PROVE  obj'[k].exists /\ obj[k].st.og <= obj'[k].st.og
    <2> DEFINE o == [obj[j] EXCEPT !.spec = s, !.gen = @ + 1]
    <2>1. obj[j].exists /\ Store(j, o)
      BY <1>2 DEF EditSpec, UserWrite
    <2>2. obj[j] \in Pipeline /\ NotAhead(obj[j])
      BY <1>0, <2>1, VersionType DEF IInv, CopiesAgree, VersionsNotAhead
    <2>3. o \in Pipeline /\ o.st = obj[j].st
      BY <2>2, EditedType DEF Pipeline
    <2> HIDE DEF o
    <2>4. o \in Version /\ o.exists
      BY <2>3, NumbersType DEF Version
    <2> QED BY <1>0, <1>1, <2>1, <2>3, <2>4
  <1>3. ASSUME NEW j \in Keys, NEW a \in Annots, Annotate(j, a)
        PROVE  obj'[k].exists /\ obj[k].st.og <= obj'[k].st.og
    <2> DEFINE o == [obj[j] EXCEPT !.ann = a]
    <2>1. obj[j].exists /\ Store(j, o)
      BY <1>3 DEF Annotate, UserWrite
    <2>2. obj[j] \in Pipeline
      BY <1>0, <2>1, VersionType
    <2>3. o \in Pipeline /\ o.st = obj[j].st
      BY <2>2 DEF Pipeline
    <2> HIDE DEF o
    <2>4. o \in Version /\ o.exists
      BY <2>3, NumbersType DEF Version
    <2> QED BY <1>0, <1>1, <2>1, <2>3, <2>4
  <1>4. ASSUME NEW j \in Keys, DeletePipeline(j)
        PROVE  \/ obj'[k].exists /\ obj[k].st.og <= obj'[k].st.og
               \/ ~obj'[k].exists /\ ~obj[k].fin
    <2> DEFINE o == [obj[j] EXCEPT !.del = TRUE, !.gen = @ + 1]
    <2>1. obj[j].exists /\ Store(j, IF obj[j].fin THEN o ELSE NoObject)
      BY <1>4 DEF DeletePipeline, UserWrite
    <2>2. obj[j] \in Pipeline /\ NotAhead(obj[j])
      BY <1>0, <2>1, VersionType DEF IInv, CopiesAgree, VersionsNotAhead
    <2>3. o \in Pipeline /\ o.st = obj[j].st
      BY <2>2, DeletedType DEF Pipeline
    <2> HIDE DEF o
    <2>4. o \in Version /\ o.exists /\ NoObject \in Version /\ ~NoObject.exists
      BY <2>3, NumbersType, NoObjectType DEF Version
    <2>5. CASE obj[j].fin
      BY <1>0, <1>1, <2>1, <2>3, <2>4, <2>5
    <2>6. CASE ~obj[j].fin
      BY <1>0, <1>1, <2>1, <2>4, <2>6
    <2> QED BY <2>5, <2>6
  <1>5. ASSUME NEW j \in Keys, NEW s \in Specs, NEW a \in Annots, CreatePipeline(j, s, a)
        PROVE  FALSE
    <2>1. ~obj[j].exists /\ \E o : Store(j, o)
      BY <1>5 DEF CreatePipeline, UserWrite
    <2>2. j = k
      BY <1>0, <2>1 DEF Store
    <2> QED BY <2>1, <2>2
  <1>6. CASE User
    <2>1. CASE \E n \in Names : ExternalDelete(n)
      BY <2>1 DEF ExternalDelete, kubeVars
    <2> QED BY <1>2, <1>3, <1>4, <1>5, <1>6, <2>1 DEF User
  <1>7. ASSUME NEW o \in Version, NEW b, NEW e, PipelineWrite(o, b, e)
        PROVE  fresh /\ cur = k /\ obj'[k] = o /\ UNCHANGED fleet
    <2>1. UNCHANGED fleet
      BY <1>7 DEF PipelineWrite, KubeWrite, NoEffect
    <2>2. PICK q : WriteAndReturn(o, q)
      BY <1>7 DEF PipelineWrite, KubeWrite, JustReturn
    <2>3. cur \in Keys
      BY <2>2, FreshFacts DEF IInv, TypeOK, WriteAndReturn
    <2> QED BY <1>1, <2>1, <2>2, <2>3 DEF WriteAndReturn
  <1>8. CASE AddFinalizer
    <2>1. pc = "addFinalizer" /\ PipelineWrite(mem, FALSE, TRUE)
      BY <1>8 DEF AddFinalizer
    <2>2. mem \in Version /\ mem.exists
      BY <2>1, CopyFacts, NumbersType DEF Version
    <2> QED BY <1>7, <2>1, <2>2, FreshFacts
  <1>9. CASE RemoveFinalizer
    <2>1. pc = "removeFinalizer" /\ PipelineWrite(NoObject, FALSE, TRUE)
      BY <1>9 DEF RemoveFinalizer
    <2>2. NoObject \in Version /\ ~NoObject.exists
      BY NoObjectType DEF Version
    <2>3. fresh => mem = obj[cur]
      BY <2>1 DEF IInv, CopiesAgree, WorkerCopy
    <2> QED BY <1>7, <2>1, <2>2, <2>3
  <1>10. CASE UpdateStatus
    <2> DEFINE o == [obj[cur] EXCEPT !.st = mem.st]
    <2>1. pc = "updateStatus" /\ PipelineWrite(o, retry, retry \/ mem.st.ready = "True")
      BY <1>10 DEF UpdateStatus
    <2>2. fresh
      BY <2>1 DEF PipelineWrite, KubeWrite, JustReturn, WriteAndReturn
    <2>3. mem.st \in Status
      BY <2>1, CopyFacts, NumbersType
    <2>4. o \in Pipeline /\ o.st = mem.st
      BY <2>2, <2>3, FreshFacts, StatusType
    <2> HIDE DEF o
    <2>5. o \in Version /\ o.exists
      BY <2>4, NumbersType DEF Version
    <2> QED BY <1>7, <2>1, <2>4, <2>5, FreshFacts
  <1>11. CASE MigrateDryRun \/ MigrateDelete \/ Upsert \/ GetPipeline \/ FinalDelete
    <2>1. UNCHANGED obj
      BY <1>11 DEF MigrateDryRun, MigrateDelete, Upsert, GetPipeline, FinalDelete, Continue,
         handleAPIError, handleReadOnlyAPIError, updateStatusError, RequeueAfter, JustReturn
    <2> QED BY <2>1
  <1>12. CASE \/ \E j \in Keys : Reconcile(j) \/ Inform(j)
              \/ Restart
              \/ UNCHANGED vars
    <2>1. UNCHANGED obj
      BY <1>12 DEF Reconcile, ReconcileNothing, ReconcileFinalizer, ReconcileReadOnly,
         ReconcileNormal, ReconcileDelete, Fetch, FetchAndReturn, Inform, Deliver,
         Restart, KubeRestart, vars, kubeVars
    <2> QED BY <2>1
  <1> QED BY <1>6, <1>8, <1>9, <1>10, <1>11, <1>12 DEF Next, Worker

\* reconcileDelete never lets go of a managed Pipeline while the Fleet pipeline its
\* status names is there, in any interleaving with edits, faults and crashes.
THEOREM DeleteCleansUp == Spec => TrackedIsCleanedUp
  <1> DEFINE step(k) == (/\ obj[k].exists /\ obj[k].fin /\ ~obj'[k].exists
                         /\ ~IsReadOnly(obj[k]))
                        => obj[k].st.id \notin FleetIds'
  <1>1. ASSUME IInv, [Next]_vars, NEW k \in Keys
        PROVE  step(k)
    <2> SUFFICES ASSUME obj[k].exists, obj[k].fin, ~obj'[k].exists, ~IsReadOnly(obj[k])
                 PROVE  obj[k].st.id \notin FleetIds'
      OBVIOUS
    <2>1. mem = obj[k] /\ pc = "removeFinalizer" /\ UNCHANGED fleet
      BY <1>1, ObjectStep
    <2>2. mem.st.id \notin FleetIds
      BY <1>1, <2>1 DEF IInv, CopiesAgree, WorkerCopy
    <2> QED BY <2>1, <2>2 DEF FleetIds
  <1>2. IInv /\ [Next]_vars => [\A k \in Keys : step(k)]_vars
    BY <1>1
  <1> QED BY <1>2, Inductive, PTL DEF Spec, TrackedIsCleanedUp

\* Status writes never take status.observedGeneration back or past the generation,
\* because a write of a stale copy conflicts.
THEOREM ObservedGenerationIsMonotone == Spec => ObservedGenerationAdvances
  <1> DEFINE step(k) == obj[k].exists /\ obj'[k].exists
                        => obj[k].st.og <= obj'[k].st.og /\ obj'[k].st.og <= obj'[k].gen
  <1>1. ASSUME IInv, [Next]_vars, NEW k \in Keys
        PROVE  step(k)
    <2> SUFFICES ASSUME obj[k].exists, obj'[k].exists
                 PROVE  obj[k].st.og <= obj'[k].st.og /\ obj'[k].st.og <= obj'[k].gen
      OBVIOUS
    <2>1. obj'[k].st.og <= obj'[k].gen
      BY <1>1, NextInv DEF IInv, CopiesAgree, VersionsNotAhead, NotAhead
    <2>2. CASE obj'[k] # obj[k]
      BY <1>1, <2>1, <2>2, ObjectStep
    <2>3. CASE obj'[k] = obj[k]
      <3>1. obj[k] \in Pipeline
        BY <1>1, VersionType DEF IInv, TypeOK
      <3>2. obj[k].st.og \in Nat
        BY <3>1, NumbersType
      <3> QED BY <2>1, <2>3, <3>2
    <2> QED BY <2>2, <2>3
  <1>2. IInv /\ [Next]_vars => [\A k \in Keys : step(k)]_vars
    BY <1>1
  <1> QED BY <1>2, Inductive, PTL DEF Spec, ObservedGenerationAdvances

-----------------------------------------------------------------------------
(* Does Synced mean applied?  The status of a Pipeline is a claim about    *)
(* Fleet that any worker step, for any Pipeline, on any stale copy, could  *)
(* make false.  What follows says which Pipelines such a step can reach.   *)

\* The versions of Pipeline k that something may still act on: the stored one, those
\* on their way to the cache, the cached one and the worker's copy.  A copy that only
\* waits for its finalizer is written as it was read or not at all.
Versions(k) ==
  {v \in {obj[k], cache[k]} \cup {watch[k][i] : i \in 1..Len(watch[k])}
         \cup (IF cur = k /\ pc # "addFinalizer" THEN {mem} ELSE {}) : v.exists}

\* The name a managed Pipeline has under the operator's flag.
OwnName(k, o) == <<IF scope = "namespace" THEN Namespace[k] ELSE "", o.spec.base>>

\* Acting on version v of Pipeline k may touch the Fleet pipeline named n.
Uses(k, v, n) ==
  \/ ~IsReadOnly(v) /\ n = DesiredFleetName(k, v)
  \/ v.st.id # NoId /\ n = v.st.name

\* No two Pipelines use, or still remember, the same Fleet name.  With one Pipeline,
\* or names that no other Pipeline ever has, this holds by itself.
NamesApart ==
  \A j, k \in Keys : j # k =>
     \A u \in Versions(j), v \in Versions(k), n \in Names : ~(Uses(j, u, n) /\ Uses(k, v, n))

\* The flag does not change between restarts, no annotation overrides it and none names
\* a Fleet ID: only edits of the spec, which raise the generation, rename a Pipeline.
OneNaming ==
  /\ \A s, t \in Scopes : s = t
  /\ \A a \in Annots : a.id = NoId /\ \A s \in Scopes : a.scope \in {"", s}

\* No Pipeline starts out with a name that has to be guessed (backfillSyncedName), or
\* the guess, an unscoped name, is none that the operator gives.
NothingToGuess == scope = "namespace" \/ \A k \in Keys : ~obj[k].exists

\* IDs name one pipeline and are not used up.
IdsDistinct ==
  /\ \A n \in Names : fleet[n].id < nextId
  /\ \A m, n \in Names : fleet[m].id = fleet[n].id /\ fleet[m].id # NoId => m = n

\* The Fleet pipeline a version points at, if it is there, has the recorded name.
Traced(v) ==
  /\ v.st.id < nextId
  /\ \A n \in Names : (v.st.id # NoId /\ fleet[n].id = v.st.id)
                      => n = v.st.name \/ (n[1] = "" /\ scope = "namespace")

\* A version being deleted whose object is gone points at nothing.
Lingering(k, v) ==
  (v.del /\ v.fin /\ ~(obj[k].exists /\ obj[k].del)) => IsReadOnly(v) \/ v.st.id \notin FleetIds

\* A finalized, live version is one of the stored object, no older than the last
\* generation whose outcome was recorded.
Current(k, v) ==
  (v.fin /\ ~v.del) =>
     /\ obj[k].exists /\ obj[k].fin
     /\ v.gen <= obj[k].gen /\ obj[k].st.og <= v.gen
     /\ v.gen = obj[k].gen => v.spec = obj[k].spec

VersionOK(k, v) == Traced(v) /\ Lingering(k, v) /\ Current(k, v)

VersionsOK == \A k \in Keys : \A v \in Versions(k) : VersionOK(k, v)

\* Two Pipelines never point at the same Fleet pipeline.
IdsApart ==
  \A j, k \in Keys : j # k =>
     \A u \in Versions(j), v \in Versions(k) : u.st.id = v.st.id => u.st.id \notin FleetIds

\* What the worker knows of its copy at each call.
WorkerOK ==
  /\ pc \in {"dryRun", "migrateDelete", "upsert"} => ~IsReadOnly(mem) /\ mem.fin /\ ~mem.del
  /\ pc \in {"dryRun", "migrateDelete"} => OwnName(cur, mem) # mem.st.name
  /\ pc = "migrateDelete" => mem.spec.contents \notin Invalid
  /\ pc = "updateStatus" /\ mem.st.reason = "Synced" =>
       fleet[mem.st.name] = [id |-> mem.st.id, contents |-> mem.spec.contents]
  /\ pc = "finalDelete" => mem.del /\ mem.fin /\ ~IsReadOnly(mem)
  /\ fresh => /\ mem.spec = obj[cur].spec /\ mem.del = obj[cur].del
              /\ pc = "addFinalizer" => mem.st = obj[cur].st

\* What SyncedMeansApplied is about, read-only Pipelines included.
Claims(k) ==
  /\ obj[k].exists /\ ~obj[k].del
  /\ obj[k].st.reason = "Synced" /\ obj[k].st.og = obj[k].gen
  /\ OwnName(k, obj[k]) = obj[k].st.name

ClaimsHold ==
  \A k \in Keys :
     Claims(k) => fleet[obj[k].st.name] = [id |-> obj[k].st.id, contents |-> obj[k].spec.contents]

SInv ==
  /\ scope \in Scopes
  /\ IdsDistinct /\ VersionsOK /\ IdsApart /\ WorkerOK /\ ClaimsHold

-----------------------------------------------------------------------------
(* Versions.                                                               *)

LEMMA VersionCases ==
  ASSUME NEW k, NEW v
  PROVE  v \in Versions(k) <=>
           /\ v.exists
           /\ \/ v = obj[k] \/ v = cache[k]
              \/ \E i \in 1..Len(watch[k]) : v = watch[k][i]
              \/ cur = k /\ pc # "addFinalizer" /\ v = mem
  BY DEF Versions

LEMMA VersionsTyped ==
  ASSUME TypeOK, NEW k \in Keys, NEW v \in Versions(k)
  PROVE  v \in Pipeline
  <1>1. v \in Version
    <2>1. /\ obj[k] \in Version /\ cache[k] \in Version /\ watch[k] \in Seq(Version)
          /\ cur = k => mem \in Version
      BY KeysAssumption DEF TypeOK, Version
    <2>2. \A i \in 1..Len(watch[k]) : watch[k][i] \in Version
      BY <2>1
    <2> QED BY <2>1, <2>2, VersionCases
  <1> QED BY <1>1, VersionType, VersionCases

LEMMA NextVersionsTyped ==
  ASSUME TypeOK', NEW k \in Keys, NEW v, (v \in Versions(k))'
  PROVE  v \in Pipeline
  <1>1. v \in Version /\ v.exists
    <2>1. /\ obj'[k] \in Version /\ cache'[k] \in Version /\ watch'[k] \in Seq(Version)
          /\ cur' = k => mem' \in Version
      BY KeysAssumption DEF TypeOK, Version
    <2>2. \A i \in 1..Len(watch'[k]) : watch'[k][i] \in Version
      BY <2>1
    <2> QED BY <2>1, <2>2 DEF Versions
  <1> QED BY <1>1, VersionType

\* Storing a version.
LEMMA StoredVersions ==
  ASSUME TypeOK, NEW k \in Keys, NEW o \in Version, Store(k, o), cache' = cache,
         cur' = "" \/ (UNCHANGED <<cur, mem, pc>>),
         NEW j \in Keys, NEW v, (v \in Versions(j))'
  PROVE  v \in Versions(j) \/ (j = k /\ v = o /\ o.exists)
  <1>1. /\ obj'[k] = o
        /\ \A i \in Keys : i # k => obj'[i] = obj[i] /\ watch'[i] = watch[i]
        /\ \A i \in 1..Len(watch'[k]) :
             watch'[k][i] = o \/ (i \in 1..Len(watch[k]) /\ watch'[k][i] = watch[k][i])
    BY StoreFacts DEF TypeOK
  <1>2. /\ v.exists
        /\ \/ v = obj'[j] \/ v = cache'[j]
           \/ \E i \in 1..Len(watch'[j]) : v = watch'[j][i]
           \/ cur' = j /\ pc' # "addFinalizer" /\ v = mem'
    BY DEF Versions
  <1>3. cur' = j => UNCHANGED <<cur, mem, pc>>
    BY KeysAssumption
  <1>4. CASE \E i \in 1..Len(watch'[j]) : v = watch'[j][i]
    <2>1. PICK i \in 1..Len(watch'[j]) : v = watch'[j][i]
      BY <1>4
    <2>2. CASE j = k /\ v # o
      <3>1. i \in 1..Len(watch[j]) /\ v = watch[j][i]
        BY <1>1, <2>1, <2>2
      <3> QED BY <1>2, <3>1, VersionCases
    <2>3. CASE j # k
      <3>1. i \in 1..Len(watch[j]) /\ v = watch[j][i]
        BY <1>1, <2>1, <2>3
      <3> QED BY <1>2, <3>1, VersionCases
    <2> QED BY <1>2, <2>2, <2>3
  <1>5. CASE v = obj'[j] \/ v = cache'[j]
    BY <1>1, <1>2, <1>5, VersionCases
  <1>6. CASE cur' = j /\ pc' # "addFinalizer" /\ v = mem'
    BY <1>2, <1>3, <1>6, VersionCases
  <1> QED BY <1>2, <1>4, <1>5, <1>6

LEMMA DeliveredVersions ==
  ASSUME TypeOK, NEW k \in Keys, Deliver(k), UNCHANGED pc,
         NEW j \in Keys, NEW v, (v \in Versions(j))'
  PROVE  v \in Versions(j)
  <1>1. /\ watch[k] \in Seq(Version) /\ watch[k] # <<>>
        /\ \A i \in Keys : i # k => cache'[i] = cache[i] /\ watch'[i] = watch[i]
        /\ cache'[k] = Head(watch[k]) /\ watch'[k] = Tail(watch[k])
        /\ UNCHANGED <<obj, cur, mem>>
    BY DEF TypeOK, Deliver
  <1>2. /\ Head(watch[k]) = watch[k][1] /\ 1 \in 1..Len(watch[k])
        /\ \A i \in 1..Len(Tail(watch[k])) :
             i + 1 \in 1..Len(watch[k]) /\ Tail(watch[k])[i] = watch[k][i + 1]
    BY <1>1, TailFacts
  <1>3. /\ v.exists
        /\ \/ v = obj'[j] \/ v = cache'[j]
           \/ \E i \in 1..Len(watch'[j]) : v = watch'[j][i]
           \/ cur' = j /\ pc' # "addFinalizer" /\ v = mem'
    BY DEF Versions
  <1>4. CASE \E i \in 1..Len(watch'[j]) : v = watch'[j][i]
    <2>1. PICK i \in 1..Len(watch'[j]) : v = watch'[j][i]
      BY <1>4
    <2>2. \E h \in 1..Len(watch[j]) : v = watch[j][h]
      <3>1. CASE j = k
        <4>1. i \in 1..Len(Tail(watch[k])) /\ v = Tail(watch[k])[i]
          BY <1>1, <2>1, <3>1
        <4>2. i + 1 \in 1..Len(watch[k]) /\ v = watch[k][i + 1]
          BY <1>2, <4>1
        <4> QED BY <3>1, <4>2
      <3>2. CASE j # k
        BY <1>1, <2>1, <3>2
      <3> QED BY <3>1, <3>2
    <2> QED BY <1>3, <2>2, VersionCases
  <1>5. CASE v = cache'[j]
    BY <1>1, <1>2, <1>3, <1>5, VersionCases
  <1>6. CASE v = obj'[j] \/ (cur' = j /\ pc' # "addFinalizer" /\ v = mem')
    BY <1>1, <1>3, <1>6, VersionCases
  <1> QED BY <1>3, <1>4, <1>5, <1>6

\* The worker takes a copy, changes it or drops it; the process starts again.
LEMMA HeldVersions ==
  ASSUME UNCHANGED <<obj, watch, cache>>, NEW j \in Keys, NEW v, (v \in Versions(j))'
  PROVE  v \in Versions(j) \/ (cur' = j /\ pc' # "addFinalizer" /\ v = mem' /\ v.exists)
  <1>1. /\ v.exists
        /\ \/ v = obj[j] \/ v = cache[j]
           \/ \E i \in 1..Len(watch[j]) : v = watch[j][i]
           \/ cur' = j /\ pc' # "addFinalizer" /\ v = mem'
    BY DEF Versions
  <1> QED BY <1>1, VersionCases

LEMMA RelistedVersions ==
  ASSUME KubeRestart, NEW j \in Keys, NEW v, (v \in Versions(j))'
  PROVE  v \in Versions(j)
  <1>1. UNCHANGED obj /\ cache' = obj /\ watch'[j] = <<>> /\ cur' = ""
    BY DEF KubeRestart
  <1>2. v.exists /\ v = obj[j]
    BY <1>1, EmptyFacts, KeysAssumption DEF Versions
  <1> QED BY <1>2, VersionCases

-----------------------------------------------------------------------------
(* What a step does to Fleet and to the versions.                          *)

\* IDs go or appear; none moves to another name and none comes back.
IdsMove ==
  /\ nextId <= nextId'
  /\ IdsDistinct'
  /\ \A n \in Names : fleet'[n].id \in {NoId, fleet[n].id} \/ nextId <= fleet'[n].id

LEMMA FleetIdsNat ==
  ASSUME IInv
  PROVE  /\ fleet \in [Names -> FleetPipeline \cup {Vacant}] /\ nextId \in Nat /\ NoId < nextId
         /\ \A n \in Names : fleet[n].id \in Nat
  <1>1. fleet \in [Names -> FleetPipeline \cup {Vacant}] /\ nextId \in Nat \ {NoId}
    BY DEF IInv, TypeOK
  <1>2. \A n \in Names : fleet[n].id \in Nat
    BY <1>1 DEF FleetPipeline, Vacant, NoId
  <1> QED BY <1>1, <1>2 DEF NoId

LEMMA EffectMovesIds ==
  ASSUME IInv, IdsDistinct, NEW n \in Names, NEW c \in Contents, NEW id \in Nat,
         NoEffect \/ UpsertEffect(n, c) \/ DeleteEffect(id)
  PROVE  IdsMove
  <1>1. /\ fleet \in [Names -> FleetPipeline \cup {Vacant}] /\ nextId \in Nat /\ nextId # NoId
        /\ \A m \in Names : fleet[m].id \in Nat
    BY FleetIdsNat DEF NoId
  <1>2. CASE NoEffect
    BY <1>1, <1>2 DEF NoEffect, IdsMove, IdsDistinct
  <1>3. CASE DeleteEffect(id)
    <2>1. /\ nextId' = nextId
          /\ \A m \in Names : fleet'[m].id = IF fleet[m].id = id THEN NoId ELSE fleet[m].id
      BY <1>1, <1>3 DEF DeleteEffect, Removed, Vacant
    <2>2. NoId < nextId
      BY <1>1 DEF NoId
    <2>3. IdsDistinct'
      BY <2>1, <2>2 DEF IdsDistinct
    <2> QED BY <1>1, <2>1, <2>3 DEF IdsMove
  <1>4. CASE UpsertEffect(n, c)
    <2>1. CASE fleet[n].id = NoId
      <3>1. nextId' = nextId + 1 /\ fleet'[n].id = nextId
        BY <1>1, <1>4, <2>1 DEF UpsertEffect, Upserted
      <3>2. \A m \in Names : m # n => fleet'[m] = fleet[m]
        BY <1>1, <1>4 DEF UpsertEffect, Upserted
      <3>3. \A m \in Names : fleet[m].id < nextId
        BY DEF IdsDistinct
      <3>4. IdsDistinct'
        <4>1. \A m \in Names : fleet'[m].id < nextId'
          BY <1>1, <3>1, <3>2, <3>3
        <4>2. \A m, l \in Names : fleet'[m].id = fleet'[l].id /\ fleet'[m].id # NoId => m = l
          BY <1>1, <3>1, <3>2, <3>3 DEF IdsDistinct
        <4> QED BY <4>1, <4>2 DEF IdsDistinct
      <3>5. \A m \in Names : fleet'[m].id \in {NoId, fleet[m].id} \/ nextId <= fleet'[m].id
        BY <1>1, <3>1, <3>2
      <3> QED BY <1>1, <3>1, <3>4, <3>5 DEF IdsMove
    <2>2. CASE fleet[n].id # NoId
      <3>1. nextId' = nextId /\ \A m \in Names : fleet'[m].id = fleet[m].id
        BY <1>1, <1>4, <2>2 DEF UpsertEffect, Upserted
      <3> QED BY <1>1, <3>1 DEF IdsMove, IdsDistinct
    <2> QED BY <2>1, <2>2
  <1> QED BY <1>2, <1>3, <1>4

\* The ID of v is that of u, with the name of u or one found for it.
Inherits(v, u) ==
  \/ v.st.id = NoId
  \/ v.st.id = u.st.id /\ u.st.name \in {v.st.name, NoName}

LEMMA NoNameFree == NoName \notin Names
  BY SpecsAssumption DEF NoName, Names, Bases

LEMMA InheritedIsTraced ==
  ASSUME IInv, IInv', IdsMove, scope' = scope, NEW u \in Pipeline, NEW v \in Pipeline,
         Traced(u), Inherits(v, u)
  PROVE  /\ Traced(v)'
         /\ v.st.id \in FleetIds' => u.st.id \in FleetIds /\ v.st.id = u.st.id
  <1>1. /\ nextId \in Nat /\ nextId' \in Nat /\ u.st.id \in Nat /\ v.st.id \in Nat
        /\ NoId < nextId
        /\ \A n \in Names : fleet[n].id \in Nat
    <2>1. nextId \in Nat /\ NoId < nextId /\ \A n \in Names : fleet[n].id \in Nat
      BY FleetIdsNat
    <2>2. nextId' \in Nat
      BY DEF IInv, TypeOK
    <2>3. u.st.id \in Nat /\ v.st.id \in Nat
      BY NumbersType
    <2> QED BY <2>1, <2>2, <2>3
  <1>2. CASE v.st.id = NoId
    <2>1. NoId < nextId'
      BY <1>1 DEF IdsMove, NoId
    <2> QED BY <1>2, <2>1 DEF Traced, FleetIds
  <1>3. CASE v.st.id # NoId
    <2>1. v.st.id = u.st.id /\ u.st.name \in {v.st.name, NoName} /\ u.st.id < nextId
      BY <1>3 DEF Inherits, Traced
    <2>2. \A n \in Names : fleet'[n].id = v.st.id => fleet[n].id = u.st.id
      BY <1>1, <1>3, <2>1 DEF IdsMove
    <2>3. \A n \in Names : fleet'[n].id = v.st.id
                           => n = v.st.name \/ (n[1] = "" /\ scope = "namespace")
      BY <1>3, <2>1, <2>2, NoNameFree DEF Traced
    <2>4. v.st.id < nextId'
      BY <1>1, <2>1 DEF IdsMove
    <2>5. Traced(v)'
      BY <2>3, <2>4 DEF Traced
    <2>6. v.st.id \in FleetIds' => u.st.id \in FleetIds
      BY <1>3, <2>1, <2>2 DEF FleetIds
    <2> QED BY <2>1, <2>5, <2>6
  <1> QED BY <1>2, <1>3

\* How the stored object may change under versions that stay.
Follows(k) ==
  \/ obj'[k] = obj[k]
  \/ /\ obj[k].exists /\ obj'[k].exists
     /\ obj[k].fin => obj'[k].fin
     /\ obj[k].del => obj'[k].del
     /\ \/ /\ obj'[k].gen = obj[k].gen /\ obj'[k].spec = obj[k].spec
           /\ \A v \in Versions(k) : v.fin /\ ~v.del => obj'[k].st.og <= v.gen
        \/ obj'[k].gen = obj[k].gen + 1 /\ obj'[k].st = obj[k].st
  \/ ~obj[k].exists /\ obj'[k].exists
  \/ obj[k].exists /\ ~obj[k].fin /\ ~obj[k].del /\ ~obj'[k].exists

\* Version v is version u with another status.
Derives(v, u) ==
  /\ v \in Pipeline /\ v.spec = u.spec /\ v.ann = u.ann
  /\ v.gen = u.gen /\ v.fin = u.fin /\ v.del = u.del
  /\ Inherits(v, u)

LEMMA DerivedIsOK ==
  ASSUME IInv, IInv', VersionsOK, IdsMove, scope' = scope, NEW k \in Keys, Follows(k),
         NEW u \in Versions(k), NEW v, Derives(v, u)
  PROVE  VersionOK(k, v)'
  <1>1. u \in Pipeline /\ v \in Pipeline /\ VersionOK(k, u)
    BY VersionsTyped DEF IInv, VersionsOK, Derives
  <1>2. Traced(v)' /\ (v.st.id \in FleetIds' => u.st.id \in FleetIds /\ v.st.id = u.st.id)
    BY <1>1, InheritedIsTraced DEF VersionOK, Derives
  <1>3. Lingering(k, v)'
    <2> SUFFICES ASSUME v.del, v.fin, ~(obj'[k].exists /\ obj'[k].del), ~IsReadOnly(v)
                 PROVE  v.st.id \notin FleetIds'
      BY DEF Lingering, IsReadOnly
    <2>1. u.del /\ u.fin /\ ~IsReadOnly(u)
      BY DEF Derives, IsReadOnly
    <2>2. ~(obj[k].exists /\ obj[k].del)
      BY DEF Follows
    <2>3. u.st.id \notin FleetIds
      BY <1>1, <2>1, <2>2 DEF VersionOK, Lingering
    <2> QED BY <1>2, <2>3
  <1>4. Current(k, v)'
    <2> SUFFICES ASSUME v.fin, ~v.del
                 PROVE  /\ obj'[k].exists /\ obj'[k].fin
                        /\ v.gen <= obj'[k].gen /\ obj'[k].st.og <= v.gen
                        /\ v.gen = obj'[k].gen => v.spec = obj'[k].spec
      BY DEF Current
    <2>1. /\ u.fin /\ ~u.del /\ u.gen = v.gen /\ u.spec = v.spec
          /\ obj[k].exists /\ obj[k].fin
          /\ u.gen <= obj[k].gen /\ obj[k].st.og <= u.gen
          /\ u.gen = obj[k].gen => u.spec = obj[k].spec
      BY <1>1 DEF VersionOK, Current, Derives
    <2>2. obj[k] \in Pipeline
      BY <2>1, VersionType DEF IInv, TypeOK
    <2>3. u.gen \in Nat /\ obj[k].gen \in Nat
      BY <1>1, <2>2, NumbersType
    <2>4. CASE obj'[k] = obj[k]
      BY <2>1, <2>4
    <2>5. CASE obj'[k] # obj[k]
      <3>1. /\ obj'[k].exists /\ obj'[k].fin
            /\ \/ /\ obj'[k].gen = obj[k].gen /\ obj'[k].spec = obj[k].spec
                  /\ obj'[k].st.og <= u.gen
               \/ obj'[k].gen = obj[k].gen + 1 /\ obj'[k].st = obj[k].st
        BY <2>1, <2>5 DEF Follows
      <3> QED BY <2>1, <2>3, <3>1
    <2> QED BY <2>4, <2>5
  <1> QED BY <1>2, <1>3, <1>4 DEF VersionOK

\* The version that was just stored.
LEMMA StoredIsOK ==
  ASSUME IInv, IInv', VersionsOK, IdsMove, scope' = scope, NEW k \in Keys,
         NEW v, v = obj'[k], v.exists, v.st.id = NoId \/ \E u \in Versions(k) : Inherits(v, u)
  PROVE  VersionOK(k, v)'
  <1>1. v \in Pipeline /\ v.st.og <= v.gen /\ v.gen \in Nat /\ NoId < nextId' /\ NoId \notin FleetIds'
    <2>1. v \in Version /\ NotAhead(v) /\ nextId' \in Nat \ {NoId}
      BY DEF IInv, TypeOK, CopiesAgree, VersionsNotAhead, NotAhead
    <2>2. v \in Pipeline
      BY <2>1, VersionType
    <2> QED BY <2>1, <2>2, NumbersType DEF NotAhead, NoId, FleetIds
  <1>2. Traced(v)'
    <2>1. CASE v.st.id = NoId
      BY <1>1, <2>1 DEF Traced
    <2>2. ASSUME NEW u \in Versions(k), Inherits(v, u)
          PROVE  Traced(v)'
      <3>1. u \in Pipeline /\ Traced(u)
        BY VersionsTyped DEF IInv, VersionsOK, VersionOK
      <3> QED BY <1>1, <2>2, <3>1, InheritedIsTraced
    <2> QED BY <2>1, <2>2
  <1>3. Lingering(k, v)' /\ Current(k, v)'
    BY <1>1 DEF Lingering, Current
  <1> QED BY <1>2, <1>3 DEF VersionOK

\* A version that the step adds to those of Pipeline k.
Fits(k, v) ==
  \/ \E u \in Versions(k) : Derives(v, u)
  \/ /\ v = obj'[k] /\ v.exists
     /\ v.st.id = NoId \/ \E u \in Versions(k) : Inherits(v, u)

LEMMA DerivesItself ==
  ASSUME NEW v \in Pipeline
  PROVE  Derives(v, v)
  BY DEF Derives, Inherits

\* Every step but an upsert only passes on IDs that the Pipeline has already.
LEMMA VersionsStep ==
  ASSUME IInv, IInv', VersionsOK, IdsApart, IdsMove, scope' = scope,
         \A k \in Keys : Follows(k),
         \A k \in Keys : \A v : (v \in Versions(k))' => v \in Versions(k) \/ Fits(k, v)
  PROVE  VersionsOK' /\ IdsApart'
  <1>1. ASSUME NEW k \in Keys, NEW v, (v \in Versions(k))'
        PROVE  /\ VersionOK(k, v)'
               /\ v.st.id \in FleetIds' =>
                    \E u \in Versions(k) : u.st.id = v.st.id /\ u.st.id \in FleetIds
    <2>1. Follows(k) /\ (v \in Versions(k) \/ Fits(k, v)) /\ v \in Pipeline
      BY <1>1, NextVersionsTyped DEF IInv
    <2>2. CASE \E u \in Versions(k) : Derives(v, u)
      <3>1. PICK u \in Versions(k) : Derives(v, u)
        BY <2>2
      <3>2. VersionOK(k, v)'
        BY <2>1, <3>1, DerivedIsOK
      <3>3. u \in Pipeline /\ Traced(u) /\ Inherits(v, u)
        BY <3>1, VersionsTyped DEF IInv, VersionsOK, VersionOK, Derives
      <3>4. v.st.id \in FleetIds' => u.st.id \in FleetIds /\ v.st.id = u.st.id
        BY <2>1, <3>3, InheritedIsTraced
      <3> QED BY <3>2, <3>4
    <2>3. CASE v \in Versions(k)
      <3>1. Derives(v, v)
        BY <2>1, DerivesItself
      <3> QED BY <2>2, <2>3, <3>1
    <2>4. CASE /\ v = obj'[k] /\ v.exists
               /\ v.st.id = NoId \/ \E u \in Versions(k) : Inherits(v, u)
      <3>1. VersionOK(k, v)'
        BY <2>4, StoredIsOK
      <3>2. CASE v.st.id = NoId
        BY <3>1, <3>2 DEF FleetIds
      <3>3. CASE \E u \in Versions(k) : Inherits(v, u)
        <4>1. PICK u \in Versions(k) : Inherits(v, u)
          BY <3>3
        <4>2. u \in Pipeline /\ Traced(u)
          BY VersionsTyped DEF IInv, VersionsOK, VersionOK
        <4>3. v.st.id \in FleetIds' => u.st.id \in FleetIds /\ v.st.id = u.st.id
          BY <2>1, <4>1, <4>2, InheritedIsTraced
        <4> QED BY <3>1, <4>3
      <3> QED BY <2>4, <3>2, <3>3
    <2> QED BY <2>1, <2>2, <2>3, <2>4 DEF Fits
  <1>2. VersionsOK'
    BY <1>1 DEF VersionsOK
  <1>3. IdsApart'
    <2> SUFFICES ASSUME NEW j \in Keys, NEW k \in Keys, j # k,
                        NEW u, (u \in Versions(j))', NEW v, (v \in Versions(k))',
                        u.st.id = v.st.id, u.st.id \in FleetIds'
                 PROVE  FALSE
      BY DEF IdsApart
    <2>1. PICK x \in Versions(j) : x.st.id = u.st.id /\ x.st.id \in FleetIds
      BY <1>1
    <2>2. PICK y \in Versions(k) : y.st.id = v.st.id /\ y.st.id \in FleetIds
      BY <1>1
    <2> QED BY <2>1, <2>2 DEF IdsApart
  <1> QED BY <1>2, <1>3

-----------------------------------------------------------------------------
(* Calls to Fleet spare the pipelines that a status speaks of.             *)

ClaimedStay == \A k \in Keys : Claims(k) => fleet'[obj[k].st.name] = fleet[obj[k].st.name]

LEMMA DesiredIsOwn ==
  ASSUME OneNaming, scope \in Scopes, NEW k, NEW o \in Pipeline, ~IsReadOnly(o)
  PROVE  DesiredFleetName(k, o) = OwnName(k, o)
  <1>1. o.ann \in Annots
    BY DEF Pipeline
  <1>2. o.ann.id = NoId /\ o.ann.scope \in {"", scope}
    BY <1>1 DEF OneNaming
  <1>3. EffectiveNameScope(o) = scope /\ ~IsDiscovered(o)
    BY <1>2 DEF EffectiveNameScope, IsDiscovered
  <1> QED BY <1>3 DEF DesiredFleetName, OwnName

LEMMA OwnNameFacts ==
  ASSUME NEW k \in Keys, NEW o \in Pipeline
  PROVE  /\ OwnName(k, o) \in Names
         /\ scope = "namespace" => OwnName(k, o)[1] # ""
  <1>1. o.spec.base \in Bases
    BY DEF Pipeline, Bases
  <1>2. OwnName(k, o) \in Names
    BY <1>1 DEF OwnName, Names
  <1>3. scope = "namespace" => OwnName(k, o)[1] # ""
    BY NamespaceAssumption DEF OwnName
  <1> QED BY <1>2, <1>3

LEMMA ClaimFacts ==
  ASSUME IInv, SInv, NEW k \in Keys, Claims(k)
  PROVE  /\ obj[k] \in Pipeline /\ obj[k] \in Versions(k)
         /\ obj[k].st.name = OwnName(k, obj[k]) /\ obj[k].st.name \in Names
         /\ fleet[obj[k].st.name] = [id |-> obj[k].st.id, contents |-> obj[k].spec.contents]
         /\ fleet[obj[k].st.name].id = obj[k].st.id
         /\ obj[k].st.id # NoId /\ obj[k].st.id \in FleetIds
  <1>1. obj[k] \in Pipeline /\ obj[k].exists
    BY VersionType DEF IInv, TypeOK, Claims
  <1>2. obj[k] \in Versions(k)
    BY <1>1, VersionCases
  <1>3. obj[k].st.name = OwnName(k, obj[k]) /\ obj[k].st.name \in Names
    BY <1>1, OwnNameFacts DEF Claims
  <1>4. fleet[obj[k].st.name] = [id |-> obj[k].st.id, contents |-> obj[k].spec.contents]
    BY DEF SInv, ClaimsHold
  <1>5. fleet[obj[k].st.name] \in FleetPipeline \cup {Vacant}
    BY <1>3 DEF IInv, TypeOK
  <1>6. [id |-> obj[k].st.id, contents |-> obj[k].spec.contents] # Vacant
    BY DEF Vacant
  <1>7. obj[k].st.id # NoId
    BY <1>4, <1>5, <1>6 DEF FleetPipeline
  <1>8. obj[k].st.id \in FleetIds
    BY <1>3, <1>4, <1>7 DEF FleetIds
  <1> QED BY <1>1, <1>2, <1>3, <1>4, <1>7, <1>8

\* The worker's copy is one of the versions of its Pipeline.
LEMMA CopyIsVersion ==
  ASSUME IInv, SInv, pc \notin {"idle", "addFinalizer"}
  PROVE  cur \in Keys /\ mem \in Pipeline /\ mem \in Versions(cur) /\ VersionOK(cur, mem)
  <1>1. cur \in Keys /\ mem \in Pipeline
    BY CopyFacts
  <1>2. mem \in Versions(cur)
    BY <1>1, NumbersType, VersionCases
  <1> QED BY <1>1, <1>2 DEF SInv, VersionsOK

\* A deletion that takes away what a live Pipeline points at is a step of the migration
\* of that Pipeline.
LEMMA DeletedByOwner ==
  ASSUME IInv, SInv, pc \in {"migrateDelete", "finalDelete"}, NEW k \in Keys,
         obj[k].exists, ~obj[k].del, obj[k].st.id = mem.st.id, mem.st.id \in FleetIds
  PROVE  cur = k /\ pc = "migrateDelete"
  <1>1. cur \in Keys /\ mem \in Pipeline /\ mem \in Versions(cur) /\ VersionOK(cur, mem)
    BY CopyIsVersion
  <1>2. obj[k] \in Versions(k)
    BY VersionCases
  <1>3. cur = k
    BY <1>1, <1>2 DEF SInv, IdsApart
  <1>4. pc # "finalDelete"
    BY <1>1, <1>3 DEF SInv, WorkerOK, VersionOK, Lingering
  <1> QED BY <1>3, <1>4

\* A live copy of a Pipeline that claims to be in sync is one of the same generation.
LEMMA SameGeneration ==
  ASSUME IInv, SInv, pc \in {"migrateDelete", "upsert"}, Claims(cur)
  PROVE  mem.spec = obj[cur].spec /\ mem \in Pipeline /\ cur \in Keys
  <1>1. cur \in Keys /\ mem \in Pipeline /\ VersionOK(cur, mem)
    BY CopyIsVersion
  <1>2. mem.fin /\ ~mem.del
    BY DEF SInv, WorkerOK
  <1>3. /\ mem.gen <= obj[cur].gen /\ obj[cur].st.og <= mem.gen
        /\ mem.gen = obj[cur].gen => mem.spec = obj[cur].spec
    BY <1>1, <1>2 DEF VersionOK, Current
  <1>4. obj[cur].st.og = obj[cur].gen /\ obj[cur] \in Pipeline
    BY <1>1, ClaimFacts DEF Claims
  <1>5. mem.gen \in Nat /\ obj[cur].gen \in Nat
    BY <1>1, <1>4, NumbersType
  <1>6. mem.gen = obj[cur].gen
    BY <1>3, <1>4, <1>5
  <1> QED BY <1>1, <1>3, <1>6

LEMMA DeleteSpares ==
  ASSUME IInv, SInv, pc \in {"migrateDelete", "finalDelete"}, DeleteEffect(mem.st.id)
  PROVE  ClaimedStay
  <1> SUFFICES ASSUME NEW k \in Keys, Claims(k)
               PROVE  fleet'[obj[k].st.name] = fleet[obj[k].st.name]
    BY DEF ClaimedStay
  <1> DEFINE n == obj[k].st.name
  <1>1. /\ obj[k] \in Pipeline /\ n = OwnName(k, obj[k]) /\ n \in Names
        /\ fleet[n].id = obj[k].st.id /\ obj[k].st.id # NoId /\ obj[k].st.id \in FleetIds
    BY ClaimFacts
  <1>2. ASSUME fleet[n].id = mem.st.id
        PROVE  FALSE
    <2>1. cur = k /\ pc = "migrateDelete"
      BY <1>1, <1>2, DeletedByOwner DEF Claims
    <2>2. mem.spec = obj[k].spec
      BY <2>1, SameGeneration
    <2>3. mem.st.name # n
      BY <1>1, <2>1, <2>2 DEF SInv, WorkerOK, OwnName
    <2>4. Traced(mem)
      BY <2>1, CopyIsVersion DEF VersionOK
    <2>5. n[1] = "" /\ scope = "namespace"
      BY <1>1, <1>2, <2>3, <2>4 DEF Traced
    <2> QED BY <1>1, <2>5, OwnNameFacts
  <1> QED BY <1>1, <1>2 DEF DeleteEffect, Removed

LEMMA UpsertSpares ==
  ASSUME IInv, SInv, OneNaming, NamesApart, pc = "upsert",
         UpsertEffect(DesiredFleetName(cur, mem), mem.spec.contents)
  PROVE  ClaimedStay
  <1> SUFFICES ASSUME NEW k \in Keys, Claims(k)
               PROVE  fleet'[obj[k].st.name] = fleet[obj[k].st.name]
    BY DEF ClaimedStay
  <1> DEFINE n == obj[k].st.name
             m == DesiredFleetName(cur, mem)
             c == mem.spec.contents
  <1>1. /\ obj[k] \in Pipeline /\ obj[k] \in Versions(k) /\ n \in Names
        /\ fleet[n] = [id |-> obj[k].st.id, contents |-> obj[k].spec.contents]
        /\ obj[k].st.id # NoId
    BY ClaimFacts
  <1>2. cur \in Keys /\ mem \in Pipeline /\ mem \in Versions(cur) /\ ~IsReadOnly(mem)
    BY CopyIsVersion DEF SInv, WorkerOK
  <1>3. fleet' = Upserted(m, c) /\ m \in Names /\ fleet \in [Names -> FleetPipeline \cup {Vacant}]
    BY <1>2, NameType DEF UpsertEffect, IInv, TypeOK
  <1>4. CASE n # m
    BY <1>1, <1>3, <1>4 DEF Upserted
  <1>5. CASE n = m
    <2>1. Uses(cur, mem, n) /\ Uses(k, obj[k], n)
      BY <1>1, <1>2, <1>5 DEF Uses
    <2>2. cur = k
      BY <1>1, <1>2, <2>1 DEF NamesApart
    <2>3. c = obj[k].spec.contents
      BY <2>2, SameGeneration
    <2>4. fleet'[n] = [id |-> fleet[n].id, contents |-> c]
      BY <1>1, <1>3, <1>5 DEF Upserted
    <2> QED BY <1>1, <2>3, <2>4
  <1> QED BY <1>4, <1>5

-----------------------------------------------------------------------------
(* The invariant is kept, by kind of step.                                 *)

\* A step that stores nothing and gives nobody an ID he does not have.
LEMMA QuietStep ==
  ASSUME IInv, IInv', SInv, IdsMove, ClaimedStay, scope' = scope, UNCHANGED obj, WorkerOK',
         \A k \in Keys : \A v : (v \in Versions(k))' =>
              v \in Versions(k) \/ \E u \in Versions(k) : Derives(v, u)
  PROVE  SInv'
  <1>1. \A k \in Keys : Follows(k)
    BY DEF Follows
  <1>2. VersionsOK' /\ IdsApart'
    BY <1>1, VersionsStep DEF SInv, Fits
  <1>3. ClaimsHold'
    BY DEF SInv, ClaimsHold, ClaimedStay, Claims, OwnName
  <1> QED BY <1>2, <1>3 DEF SInv, IdsMove

\* Nothing happens to the claim of Pipeline k, or it is withdrawn.
Keeps(k) ==
  \/ obj'[k] = obj[k]
  \/ ~Claims(k)'
  \/ Claims(k) /\ obj'[k].st = obj[k].st /\ obj'[k].spec = obj[k].spec

LEMMA UserWriteStep ==
  ASSUME IInv, IInv', SInv, UNCHANGED <<pc, fleet, nextId, scope>>,
         NEW k \in Keys, NEW o \in Version, UserWrite(k, o), Follows(k), Keeps(k),
         o.exists => o.st.id = NoId \/ (obj[k].exists /\ o.st = obj[k].st)
  PROVE  SInv'
  <1>1. Store(k, o) /\ UNCHANGED <<cache, cur, mem>> /\ fresh' = (fresh /\ cur # k)
    BY DEF UserWrite
  <1>2. obj'[k] = o /\ \A j \in Keys : j # k => obj'[j] = obj[j]
    BY <1>1, StoreFacts DEF IInv, TypeOK
  <1>3. \A j \in Keys : Follows(j) /\ Keeps(j)
    BY <1>2 DEF Follows, Keeps
  <1>4. \A j \in Keys : \A v : (v \in Versions(j))' => v \in Versions(j) \/ Fits(j, v)
    <2> SUFFICES ASSUME NEW j \in Keys, NEW v, (v \in Versions(j))', v \notin Versions(j)
                 PROVE  Fits(j, v)
      OBVIOUS
    <2>1. j = k /\ v = o /\ o.exists
      BY <1>1, StoredVersions DEF IInv
    <2>2. v = obj'[k]
      BY <1>2, <2>1
    <2>3. obj[k].exists => obj[k] \in Versions(k)
      BY VersionCases
    <2> QED BY <2>1, <2>2, <2>3 DEF Fits, Inherits
  <1>5. IdsMove
    <2>1. nextId <= nextId
      BY FleetIdsNat
    <2> QED BY <2>1 DEF IdsMove, IdsDistinct, SInv
  <1>6. VersionsOK' /\ IdsApart'
    BY <1>3, <1>4, <1>5, VersionsStep DEF SInv
  <1>7. WorkerOK'
    <2>1. fresh' => fresh /\ obj'[cur] = obj[cur]
      <3>1. fresh => cur \in Keys
        BY FreshFacts DEF IInv, TypeOK
      <3> QED BY <1>1, <1>2, <3>1
    <2> QED BY <1>1, <2>1 DEF SInv, WorkerOK, IsReadOnly, OwnName
  <1>8. ClaimsHold'
    <2> SUFFICES ASSUME NEW j \in Keys, Claims(j)'
                 PROVE  fleet[obj'[j].st.name] = [id |-> obj'[j].st.id, contents |-> obj'[j].spec.contents]
      BY DEF ClaimsHold
    <2>1. CASE obj'[j] = obj[j]
      BY <2>1 DEF SInv, ClaimsHold, Claims, OwnName
    <2>2. CASE Claims(j) /\ obj'[j].st = obj[j].st /\ obj'[j].spec = obj[j].spec
      BY <2>2 DEF SInv, ClaimsHold
    <2> QED BY <1>3, <2>1, <2>2 DEF Keeps
  <1> QED BY <1>5, <1>6, <1>7, <1>8 DEF SInv, IdsMove

LEMMA UserStep ==
  ASSUME IInv, IInv', SInv, ~ExternalDeletes, User
  PROVE  SInv'
  <1>1. ASSUME NEW k \in Keys, obj[k].exists
        PROVE  /\ obj[k] \in Pipeline /\ obj[k].gen \in Nat /\ obj[k].st.og \in Nat
               /\ NotAhead(obj[k]) /\ obj[k].st.og <= obj[k].gen
    <2>1. obj[k] \in Pipeline /\ NotAhead(obj[k])
      BY <1>1, VersionType DEF IInv, TypeOK, CopiesAgree, VersionsNotAhead
    <2> QED BY <1>1, <2>1, NumbersType DEF NotAhead
  <1>0. ASSUME NEW k \in Keys, NEW o \in Version, UserWrite(k, o)
        PROVE  obj'[k] = o
    BY <1>0, StoreFacts DEF IInv, TypeOK, UserWrite
  <1>2. ASSUME NEW k \in Keys, NEW s \in Specs, NEW a \in Annots, CreatePipeline(k, s, a)
        PROVE  SInv'
    <2> DEFINE st == [id |-> NoId, name |-> NoName, og |-> 0,
                      ready |-> "Unknown", reason |-> ""]
               o == [exists |-> TRUE, spec |-> s, ann |-> a, gen |-> 1,
                     fin |-> FALSE, del |-> FALSE, st |-> st]
    <2>1. st \in Status
      BY DEF Status, Reasons, NoId
    <2>2. o \in Pipeline /\ o.exists /\ o.st.id = NoId /\ o.st.reason # "Synced"
      BY <2>1 DEF Pipeline
    <2>3. UserWrite(k, o) /\ ~obj[k].exists /\ UNCHANGED <<pc, fleet, nextId, scope>>
      BY <1>2 DEF CreatePipeline, NotOperator
    <2> HIDE DEF o
    <2>4. o \in Version
      BY <2>2 DEF Version
    <2>5. obj'[k] = o
      BY <1>0, <2>3, <2>4
    <2>6. Follows(k) /\ Keeps(k)
      BY <2>2, <2>3, <2>5 DEF Follows, Keeps, Claims
    <2> QED BY <2>2, <2>3, <2>4, <2>6, UserWriteStep
  <1>3. ASSUME NEW k \in Keys, NEW s \in Specs, EditSpec(k, s)
        PROVE  SInv'
    <2> DEFINE o == [obj[k] EXCEPT !.spec = s, !.gen = @ + 1]
    <2>1. UserWrite(k, o) /\ obj[k].exists /\ UNCHANGED <<pc, fleet, nextId, scope>>
      BY <1>3 DEF EditSpec, NotOperator
    <2>2. o \in Pipeline /\ obj[k].gen \in Nat /\ obj[k].st.og <= obj[k].gen /\ obj[k].st.og \in Nat
      BY <1>1, <2>1, EditedType
    <2>3. /\ o.exists /\ o.st = obj[k].st /\ o.gen = obj[k].gen + 1
          /\ o.fin = obj[k].fin /\ o.del = obj[k].del
      BY <1>1, <2>1 DEF Pipeline
    <2> HIDE DEF o
    <2>4. o \in Version
      BY <2>2 DEF Version
    <2>5. obj'[k] = o
      BY <1>0, <2>1, <2>4
    <2>6. o.st.og # o.gen
      BY <2>2, <2>3
    <2>7. Follows(k) /\ Keeps(k)
      BY <2>1, <2>3, <2>5, <2>6 DEF Follows, Keeps, Claims
    <2> QED BY <2>1, <2>3, <2>4, <2>7, UserWriteStep
  <1>4. ASSUME NEW k \in Keys, NEW a \in Annots, Annotate(k, a)
        PROVE  SInv'
    <2> DEFINE o == [obj[k] EXCEPT !.ann = a]
    <2>1. UserWrite(k, o) /\ obj[k].exists /\ UNCHANGED <<pc, fleet, nextId, scope>>
      BY <1>4 DEF Annotate, NotOperator
    <2>2. obj[k] \in Pipeline
      BY <1>1, <2>1
    <2>3. /\ o \in Pipeline /\ o.exists /\ o.st = obj[k].st /\ o.gen = obj[k].gen
          /\ o.spec = obj[k].spec /\ o.fin = obj[k].fin /\ o.del = obj[k].del
      BY <2>2 DEF Pipeline
    <2> HIDE DEF o
    <2>4. o \in Version
      BY <2>3 DEF Version
    <2>5. obj'[k] = o
      BY <1>0, <2>1, <2>4
    <2>6. \A v \in Versions(k) : v.fin /\ ~v.del => obj[k].st.og <= v.gen
      BY DEF SInv, VersionsOK, VersionOK, Current
    <2>7. Follows(k)
      BY <2>1, <2>3, <2>5, <2>6 DEF Follows
    <2>8. Keeps(k)
      BY <2>1, <2>3, <2>5 DEF Keeps, Claims, OwnName
    <2> QED BY <2>1, <2>3, <2>4, <2>7, <2>8, UserWriteStep
  <1>5. ASSUME NEW k \in Keys, DeletePipeline(k)
        PROVE  SInv'
    <2>1. obj[k].exists /\ ~obj[k].del /\ UNCHANGED <<pc, fleet, nextId, scope>>
      BY <1>5 DEF DeletePipeline, NotOperator
    <2>2. CASE obj[k].fin
      <3> DEFINE o == [obj[k] EXCEPT !.del = TRUE, !.gen = @ + 1]
      <3>1. UserWrite(k, o)
        BY <1>5, <2>2 DEF DeletePipeline
      <3>2. o \in Pipeline
        BY <1>1, <2>1, DeletedType
      <3>3. o.exists /\ o.st = obj[k].st /\ o.gen = obj[k].gen + 1 /\ o.fin = obj[k].fin /\ o.del
        BY <1>1, <2>1 DEF Pipeline
      <3> HIDE DEF o
      <3>4. o \in Version
        BY <3>2 DEF Version
      <3>5. obj'[k] = o
        BY <1>0, <3>1, <3>4
      <3>6. Follows(k) /\ Keeps(k)
        BY <2>1, <3>3, <3>5 DEF Follows, Keeps, Claims
      <3> QED BY <2>1, <3>1, <3>3, <3>4, <3>6, UserWriteStep
    <2>3. CASE ~obj[k].fin
      <3>1. UserWrite(k, NoObject) /\ NoObject \in Version /\ ~NoObject.exists
        BY <1>5, <2>3, NoObjectType DEF DeletePipeline, Version
      <3>2. obj'[k] = NoObject
        BY <1>0, <3>1
      <3>3. Follows(k) /\ Keeps(k)
        BY <2>1, <2>3, <3>1, <3>2 DEF Follows, Keeps, Claims
      <3> QED BY <2>1, <3>1, <3>3, UserWriteStep
    <2> QED BY <2>2, <2>3
  <1>6. ASSUME NEW n \in Names, ExternalDelete(n)
        PROVE  FALSE
    BY <1>6 DEF ExternalDelete
  <1> QED BY <1>2, <1>3, <1>4, <1>5, <1>6 DEF User

\* Fleet is left alone.
LEMMA NoMove ==
  ASSUME IInv, SInv, UNCHANGED <<fleet, nextId>>
  PROVE  IdsMove /\ ClaimedStay
  <1>1. nextId <= nextId
    BY FleetIdsNat
  <1> QED BY <1>1 DEF IdsMove, IdsDistinct, SInv, ClaimedStay

LEMMA InformStep ==
  ASSUME IInv, IInv', SInv, NEW k \in Keys, Inform(k)
  PROVE  SInv'
  <1>1. Deliver(k) /\ UNCHANGED <<fleet, nextId, pc, scope, obj, cur, mem, fresh>>
    BY DEF Inform, NoEffect, Deliver
  <1>2. WorkerOK'
    BY <1>1 DEF SInv, WorkerOK, IsReadOnly, OwnName
  <1>3. \A j \in Keys : \A v : (v \in Versions(j))' => v \in Versions(j)
    BY <1>1, DeliveredVersions DEF IInv
  <1> QED BY <1>1, <1>2, <1>3, NoMove, QuietStep

\* The worker is done, or the process starts again.
LEMMA IdleStep ==
  ASSUME IInv, IInv', SInv, IdsMove, ClaimedStay, UNCHANGED <<scope, obj>>,
         pc' = "idle", fresh' = FALSE, cur' = "", UNCHANGED <<watch, cache>> \/ KubeRestart
  PROVE  SInv'
  <1>1. WorkerOK'
    BY DEF WorkerOK
  <1>2. ASSUME NEW j \in Keys, NEW v, (v \in Versions(j))'
        PROVE  v \in Versions(j)
    <2>1. CASE KubeRestart
      BY <1>2, <2>1, RelistedVersions
    <2>2. CASE UNCHANGED <<watch, cache>>
      BY <1>2, <2>2, HeldVersions, KeysAssumption
    <2> QED BY <2>1, <2>2
  <1> QED BY <1>1, <1>2, QuietStep

LEMMA BackfillDerives ==
  ASSUME NEW c \in Pipeline
  PROVE  /\ Derives(backfillSyncedName(c), c)
         /\ c.st.id = backfillSyncedName(c).st.id
  <1>1. CASE c.st.id # NoId /\ c.st.name = NoName
    <2> DEFINE o == [c EXCEPT !.st.name = <<"", c.spec.base>>]
    <2>1. backfillSyncedName(c) = o
      BY <1>1 DEF backfillSyncedName
    <2>2. o \in Pipeline
      BY <2>1, BackfillType
    <2>3. /\ o.spec = c.spec /\ o.ann = c.ann /\ o.gen = c.gen /\ o.fin = c.fin /\ o.del = c.del
          /\ o.st.id = c.st.id
      BY DEF Pipeline, Status
    <2> HIDE DEF o
    <2> QED BY <1>1, <2>1, <2>2, <2>3 DEF Derives, Inherits
  <1>2. CASE ~(c.st.id # NoId /\ c.st.name = NoName)
    <2>1. backfillSyncedName(c) = c
      BY <1>2 DEF backfillSyncedName
    <2> QED BY <2>1, DerivesItself
  <1> QED BY <1>1, <1>2

LEMMA ErrorDerives ==
  ASSUME NEW o \in Pipeline, NEW r \in Reasons, NEW b \in BOOLEAN
  PROVE  /\ Derives(ErrorStatus(o, r, b), o)
         /\ ErrorStatus(o, r, b).st.reason = r
  <1> DEFINE e == ErrorStatus(o, r, b)
  <1>1. e \in Pipeline
    BY ErrorType
  <1>2. /\ e.spec = o.spec /\ e.ann = o.ann /\ e.gen = o.gen /\ e.fin = o.fin /\ e.del = o.del
        /\ e.st.id = o.st.id /\ e.st.name = o.st.name /\ e.st.reason = r
    BY DEF ErrorStatus, Pipeline, Status
  <1> HIDE DEF e
  <1>3. Derives(e, o) /\ e.st.reason = r
    BY <1>1, <1>2 DEF Derives, Inherits
  <1> QED BY <1>3 DEF e

LEMMA DerivesTwice ==
  ASSUME NEW u \in Pipeline, NEW v, NEW w, Derives(v, u), Derives(w, v), v.st.name = w.st.name
  PROVE  Derives(w, u)
  BY DEF Derives, Inherits

\* The worker has a copy that differs from a version there was in its status alone, or
\* that only waits for its finalizer.
LEMMA HeldStep ==
  ASSUME IInv, IInv', SInv, IdsMove, ClaimedStay, UNCHANGED <<scope, obj, watch, cache>>, WorkerOK',
         pc' = "addFinalizer" \/ \E u \in Versions(cur') : Derives(mem', u)
  PROVE  SInv'
  <1>1. \A k \in Keys : \A v : (v \in Versions(k))' =>
              v \in Versions(k) \/ \E u \in Versions(k) : Derives(v, u)
    BY HeldVersions
  <1> QED BY <1>1, QuietStep

LEMMA FetchStep ==
  ASSUME IInv, IInv', SInv, UNCHANGED <<fleet, nextId, scope>>, NEW k \in Keys, NEW o,
         Fetch(k, o), cache[k].exists, Derives(o, cache[k]),
         pc' \notin {"migrateDelete", "addFinalizer"},
         pc' \in {"dryRun", "upsert"} => ~IsReadOnly(o) /\ o.fin /\ ~o.del,
         pc' = "dryRun" => OwnName(k, o) # o.st.name,
         pc' = "updateStatus" => o.st.reason # "Synced",
         pc' = "finalDelete" => o.del /\ o.fin /\ ~IsReadOnly(o)
  PROVE  SInv'
  <1>1. cur' = k /\ mem' = o /\ UNCHANGED <<obj, watch, cache>> /\ fresh' = (watch[k] = <<>>)
    BY DEF Fetch
  <1>2. fresh' => obj[k] = cache[k]
    BY <1>1 DEF IInv, CopiesAgree, CacheCatchesUp
  <1>3. cache[k] \in Versions(k)
    BY VersionCases
  <1>4. WorkerOK'
    <2>1. fresh' => o.spec = obj[k].spec /\ o.del = obj[k].del
      BY <1>2 DEF Derives
    <2> QED BY <1>1, <2>1 DEF WorkerOK, IsReadOnly, OwnName
  <1> QED BY <1>1, <1>3, <1>4, NoMove, HeldStep

LEMMA ReconcileStep ==
  ASSUME IInv, IInv', SInv, OneNaming, NEW k \in Keys, Reconcile(k)
  PROVE  SInv'
  <1> DEFINE c == cache[k]
             o == backfillSyncedName(c)
  <1>1. ASSUME c.exists
        PROVE  /\ c \in Pipeline /\ o \in Pipeline /\ Derives(o, c) /\ Derives(c, c)
               /\ o.fin = c.fin /\ o.del = c.del /\ o.spec = c.spec /\ o.ann = c.ann
    <2>1. c \in Pipeline
      BY <1>1, VersionType DEF IInv, TypeOK
    <2> QED BY <2>1, BackfillDerives, DerivesItself DEF Derives
  <1>2. CASE ReconcileNothing(k)
    <2>1. UNCHANGED <<obj, watch, cache, cur, mem, fresh, fleet, nextId, scope, pc>>
      BY <1>2 DEF ReconcileNothing, FetchAndReturn, NoEffect, OperatorOnly
    <2>2. WorkerOK'
      BY <2>1 DEF SInv, WorkerOK, IsReadOnly, OwnName
    <2>3. \A j \in Keys : \A v : (v \in Versions(j))' => v \in Versions(j)
      BY <2>1 DEF Versions
    <2> QED BY <2>1, <2>2, <2>3, NoMove, QuietStep
  <1>3. CASE ReconcileFinalizer(k)
    <2> DEFINE f == [c EXCEPT !.fin = TRUE]
    <2>1. c.exists /\ Fetch(k, f) /\ pc' = "addFinalizer" /\ UNCHANGED <<fleet, nextId, scope>>
      BY <1>3 DEF ReconcileFinalizer, NoEffect, OperatorOnly
    <2>2. f.spec = c.spec /\ f.del = c.del /\ f.st = c.st
      BY <1>1, <2>1 DEF Pipeline
    <2> HIDE DEF f
    <2>3. cur' = k /\ mem' = f /\ UNCHANGED <<obj, watch, cache>> /\ fresh' = (watch[k] = <<>>)
      BY <2>1 DEF Fetch
    <2>4. fresh' => obj[k] = cache[k]
      BY <2>3 DEF IInv, CopiesAgree, CacheCatchesUp
    <2>5. WorkerOK'
      BY <2>1, <2>2, <2>3, <2>4 DEF WorkerOK
    <2> QED BY <2>1, <2>3, <2>5, NoMove, HeldStep
  <1>4. CASE ReconcileReadOnly(k)
    <2>1. c.exists /\ UNCHANGED <<fleet, nextId, scope>>
      BY <1>4 DEF ReconcileReadOnly, ToSync, NoEffect, OperatorOnly
    <2> HIDE DEF o
    <2>2. CASE Fetch(k, o) /\ pc' = "get"
      BY <1>1, <2>1, <2>2, FetchStep
    <2>3. CASE Fetch(k, ErrorStatus(o, "ValidationError", FALSE)) /\ pc' = "updateStatus"
      <3> DEFINE e == ErrorStatus(o, "ValidationError", FALSE)
      <3>1. Derives(e, o) /\ e.st.reason = "ValidationError" /\ e.st.name = o.st.name
        BY <1>1, <2>1, ErrorDerives DEF Reasons, ErrorStatus, Pipeline, Status
      <3> HIDE DEF e
      <3>2. Derives(e, c)
        BY <1>1, <2>1, <3>1, DerivesTwice
      <3> QED BY <2>1, <2>3, <3>1, <3>2, FetchStep DEF e
    <2> QED BY <1>4, <2>2, <2>3 DEF ReconcileReadOnly, o
  <1>5. CASE ReconcileNormal(k)
    <2>1. /\ c.exists /\ c.fin /\ ~c.del /\ UNCHANGED <<fleet, nextId, scope>>
          /\ Fetch(k, o) /\ ~IsReadOnly(o)
          /\ pc' = IF namePending(k, o) THEN "dryRun" ELSE "upsert"
      BY <1>5 DEF ReconcileNormal, ToSync, NoEffect, OperatorOnly
    <2> HIDE DEF o
    <2>2. pc' = "dryRun" => OwnName(k, o) # o.st.name
      BY <1>1, <2>1, DesiredIsOwn DEF namePending, SInv
    <2> QED BY <1>1, <2>1, <2>2, FetchStep
  <1>6. CASE ReconcileDelete(k)
    <2>1. /\ c.exists /\ c.del /\ c.fin /\ UNCHANGED <<fleet, nextId, scope>> /\ Fetch(k, c)
          /\ pc' \in {"removeFinalizer", "finalDelete"}
          /\ pc' = "finalDelete" => ~IsReadOnly(c)
      BY <1>6 DEF ReconcileDelete, NoEffect, OperatorOnly
    <2> QED BY <1>1, <2>1, FetchStep
  <1> QED BY <1>2, <1>3, <1>4, <1>5, <1>6 DEF Reconcile

\* The worker goes on with a copy that has another status.
LEMMA ContinueStep ==
  ASSUME IInv, IInv', SInv, IdsMove, ClaimedStay, UNCHANGED scope,
         pc \notin {"idle", "addFinalizer"}, NEW o, Continue(o), Derives(o, mem),
         pc' \notin {"idle", "addFinalizer", "dryRun", "finalDelete"},
         pc' = "migrateDelete" => /\ pc = "dryRun" /\ o.st = mem.st
                                  /\ mem.spec.contents \notin Invalid,
         pc' = "upsert" => pc \in {"dryRun", "migrateDelete", "upsert"},
         pc' = "updateStatus" => o.st.reason # "Synced"
  PROVE  SInv'
  <1>1. mem' = o /\ UNCHANGED <<obj, watch, cache, cur, fresh>>
    BY DEF Continue
  <1>2. mem \in Versions(cur)
    BY CopyIsVersion
  <1>3. o.spec = mem.spec /\ o.ann = mem.ann /\ o.fin = mem.fin /\ o.del = mem.del
    BY DEF Derives
  <1>4. WorkerOK'
    BY <1>1, <1>3 DEF SInv, WorkerOK, IsReadOnly, OwnName
  <1> QED BY <1>1, <1>2, <1>4, HeldStep

LEMMA ErrorPathStep ==
  ASSUME IInv, IInv', SInv, IdsMove, ClaimedStay, UNCHANGED scope,
         pc \notin {"idle", "addFinalizer"}, NEW reason \in Reasons \ {"Synced"}, NEW b \in BOOLEAN,
         updateStatusError(reason, b)
  PROVE  SInv'
  <1> DEFINE e == ErrorStatus(mem, reason, b)
  <1>1. Derives(e, mem) /\ e.st.reason # "Synced"
    BY CopyFacts, ErrorDerives
  <1>2. Continue(e) /\ pc' = "updateStatus"
    BY DEF updateStatusError
  <1> HIDE DEF e
  <1> QED BY <1>1, <1>2, ContinueStep

LEMMA RequeueStep ==
  ASSUME IInv, IInv', SInv, IdsMove, ClaimedStay, UNCHANGED scope, RequeueAfter
  PROVE  SInv'
  <1>1. UNCHANGED <<obj, watch, cache>> /\ pc' = "idle" /\ fresh' = FALSE /\ cur' = ""
    BY DEF RequeueAfter, JustReturn, Return
  <1> QED BY <1>1, IdleStep

LEMMA ClearStep ==
  ASSUME IInv, IInv', SInv, IdsMove, ClaimedStay, UNCHANGED scope,
         pc \in {"dryRun", "migrateDelete", "upsert"},
         Continue([mem EXCEPT !.st.id = NoId]), pc' = "upsert"
  PROVE  SInv'
  <1> DEFINE e == [mem EXCEPT !.st.id = NoId]
  <1>1. mem \in Pipeline
    BY CopyFacts
  <1>2. /\ e \in Pipeline /\ e.spec = mem.spec /\ e.ann = mem.ann /\ e.gen = mem.gen
        /\ e.fin = mem.fin /\ e.del = mem.del /\ e.st.id = NoId
    BY <1>1, ClearedType DEF Pipeline, Status
  <1>3. Continue(e)
    OBVIOUS
  <1> HIDE DEF e
  <1>4. Derives(e, mem)
    BY <1>2 DEF Derives, Inherits
  <1> QED BY <1>3, <1>4, ContinueStep

LEMMA HandleStep ==
  ASSUME IInv, IInv', SInv, IdsMove, ClaimedStay, UNCHANGED scope,
         pc \in {"dryRun", "migrateDelete", "upsert"}, NEW code, handleAPIError(code)
  PROVE  SInv'
  <1>1. CASE updateStatusError("ValidationError", FALSE)
    BY <1>1, ErrorPathStep DEF Reasons
  <1>2. CASE RequeueAfter
    BY <1>2, RequeueStep
  <1>3. CASE updateStatusError("SyncFailed", shouldRetry(code, "SyncFailed"))
    BY <1>3, ErrorPathStep DEF Reasons, shouldRetry
  <1>4. CASE Continue([mem EXCEPT !.st.id = NoId]) /\ pc' = "upsert" /\ UNCHANGED retry
    BY <1>4, ClearStep
  <1> QED BY <1>1, <1>2, <1>3, <1>4 DEF handleAPIError

-----------------------------------------------------------------------------
(* The calls of the worker.                                                *)

LEMMA MigrateDryRunStep ==
  ASSUME IInv, IInv', SInv, MigrateDryRun
  PROVE  SInv'
  <1>1. pc = "dryRun" /\ UNCHANGED <<fleet, nextId, scope>>
    BY DEF MigrateDryRun, NoEffect, OperatorOnly
  <1>2. IdsMove /\ ClaimedStay
    BY <1>1, NoMove
  <1>3. CASE mem.spec.contents \notin Invalid /\ Continue(mem) /\ pc' = "migrateDelete"
    <2>1. Derives(mem, mem)
      BY <1>1, CopyFacts, DerivesItself
    <2> QED BY <1>1, <1>2, <1>3, <2>1, ContinueStep
  <1>4. CASE \E code : handleAPIError(code)
    BY <1>1, <1>2, <1>4, HandleStep
  <1> QED BY <1>3, <1>4 DEF MigrateDryRun, buildUpsertRequest

\* The deletions, of a migration and of the end.
LEMMA DeleteMoves ==
  ASSUME IInv, SInv, pc \in {"migrateDelete", "finalDelete"},
         DeleteEffect(mem.st.id) \/ NoEffect
  PROVE  IdsMove /\ ClaimedStay
  <1>1. mem.st.id \in Nat /\ mem \in Pipeline /\ cur \in Keys /\ mem.spec.contents \in Contents
    BY CopyFacts
  <1>2. DesiredFleetName(cur, mem) \in Names
    BY <1>1, NameType
  <1>3. IdsMove
    BY <1>1, <1>2, EffectMovesIds DEF SInv
  <1>4. CASE DeleteEffect(mem.st.id)
    BY <1>3, <1>4, DeleteSpares
  <1>5. CASE NoEffect
    BY <1>5, NoMove DEF NoEffect
  <1> QED BY <1>4, <1>5

LEMMA MigrateDeleteStep ==
  ASSUME IInv, IInv', SInv, MigrateDelete
  PROVE  SInv'
  <1>1. pc = "migrateDelete" /\ UNCHANGED scope /\ (DeleteEffect(mem.st.id) \/ NoEffect)
    BY DEF MigrateDelete, OperatorOnly
  <1>2. IdsMove /\ ClaimedStay
    BY <1>1, DeleteMoves
  <1>3. CASE Continue([mem EXCEPT !.st.id = NoId]) /\ pc' = "upsert"
    BY <1>1, <1>2, <1>3, ClearStep
  <1>4. CASE \E code : handleAPIError(code)
    BY <1>1, <1>2, <1>4, HandleStep
  <1> QED BY <1>3, <1>4 DEF MigrateDelete

LEMMA FinalDeleteStep ==
  ASSUME IInv, IInv', SInv, FinalDelete
  PROVE  SInv'
  <1>1. pc = "finalDelete" /\ UNCHANGED scope /\ (DeleteEffect(mem.st.id) \/ NoEffect)
    BY DEF FinalDelete, OperatorOnly
  <1>2. IdsMove /\ ClaimedStay
    BY <1>1, DeleteMoves
  <1>3. CASE Continue(mem) /\ pc' = "removeFinalizer"
    <2>1. Derives(mem, mem)
      BY <1>1, CopyFacts, DerivesItself
    <2> QED BY <1>1, <1>2, <1>3, <2>1, ContinueStep
  <1>4. CASE \E code : updateStatusError("DeleteFailed", shouldRetry(code, "DeleteFailed"))
    BY <1>1, <1>2, <1>4, ErrorPathStep DEF Reasons, shouldRetry
  <1> QED BY <1>3, <1>4 DEF FinalDelete

LEMMA GetPipelineStep ==
  ASSUME IInv, IInv', SInv, OneNaming, GetPipeline
  PROVE  SInv'
  <1>1. pc = "get" /\ UNCHANGED <<fleet, nextId, scope>>
    BY DEF GetPipeline, NoEffect, OperatorOnly
  <1>2. IdsMove /\ ClaimedStay
    BY <1>1, NoMove
  <1>3. mem \in Pipeline /\ mem.st.id \in Nat
    BY <1>1, CopyFacts
  <1>4. readOnlyPipelineID(mem) = mem.st.id
    <2>1. mem.ann \in Annots
      BY <1>3 DEF Pipeline
    <2> QED BY <2>1 DEF readOnlyPipelineID, OneNaming
  <1>5. CASE Continue(ReadOnlyStatus(mem, mem.st.id)) /\ pc' = "updateStatus"
    <2> DEFINE e == ReadOnlyStatus(mem, mem.st.id)
    <2>1. /\ e \in Pipeline /\ e.spec = mem.spec /\ e.ann = mem.ann /\ e.gen = mem.gen
          /\ e.fin = mem.fin /\ e.del = mem.del /\ e.st.id = mem.st.id /\ e.st.name = mem.st.name
          /\ e.st.reason = "ReadOnly"
      BY <1>3, ReadOnlyType DEF ReadOnlyStatus, Pipeline, Status
    <2>2. Continue(e)
      BY <1>5
    <2> HIDE DEF e
    <2>3. Derives(e, mem)
      BY <2>1 DEF Derives, Inherits
    <2> QED BY <1>1, <1>2, <1>5, <2>1, <2>2, <2>3, ContinueStep
  <1>6. CASE \E code : handleReadOnlyAPIError(code)
    <2>1. PICK code : handleReadOnlyAPIError(code)
      BY <1>6
    <2>2. CASE updateStatusError("ValidationError", FALSE)
      BY <1>1, <1>2, <2>2, ErrorPathStep DEF Reasons
    <2>3. CASE RequeueAfter
      BY <1>1, <1>2, <2>3, RequeueStep
    <2>4. CASE updateStatusError("ReadOnly", shouldRetry(code, "ReadOnly"))
      BY <1>1, <1>2, <2>4, ErrorPathStep DEF Reasons, shouldRetry
    <2> QED BY <2>1, <2>2, <2>3, <2>4 DEF handleReadOnlyAPIError
  <1> QED BY <1>4, <1>5, <1>6 DEF GetPipeline

\* UpsertPipeline answers: the copy gets the ID that the Fleet pipeline of its name has
\* now, and no other Pipeline has that ID.
LEMMA UpsertedStep ==
  ASSUME IInv, IInv', SInv, OneNaming, NamesApart, pc = "upsert", UNCHANGED scope, IdsMove, ClaimedStay,
         NEW n, n = DesiredFleetName(cur, mem), NEW c, c = mem.spec.contents,
         NEW i, i = Upserted(n, c)[n].id, NEW e, e = SyncedStatus(mem, i, n),
         UpsertEffect(n, c), Continue(e), pc' = "updateStatus"
  PROVE  SInv'
  <1>1. /\ cur \in Keys /\ mem \in Pipeline /\ mem \in Versions(cur) /\ VersionOK(cur, mem)
        /\ ~IsReadOnly(mem) /\ mem.fin /\ ~mem.del /\ c \in Contents
    BY CopyIsVersion, CopyFacts DEF SInv, WorkerOK
  <1>2. n \in Names /\ n = OwnName(cur, mem) /\ (scope = "namespace" => n[1] # "")
    BY <1>1, DesiredIsOwn, OwnNameFacts DEF SInv
  <1>3. /\ fleet' = Upserted(n, c) /\ fleet'[n] = [id |-> i, contents |-> c]
        /\ i = IF fleet[n].id = NoId THEN nextId ELSE fleet[n].id
        /\ i \in Nat /\ i # NoId
    <2>1. fleet \in [Names -> FleetPipeline \cup {Vacant}] /\ nextId \in Nat /\ NoId < nextId
      BY FleetIdsNat
    <2>2. fleet[n].id \in Nat
      BY <1>2, FleetIdsNat
    <2>3. i = IF fleet[n].id = NoId THEN nextId ELSE fleet[n].id
      BY <1>2, <2>1 DEF Upserted
    <2>4. fleet' = Upserted(n, c) /\ fleet'[n] = [id |-> i, contents |-> c]
      BY <1>2, <2>1 DEF UpsertEffect, Upserted
    <2> QED BY <2>1, <2>2, <2>3, <2>4 DEF NoId
  <1>4. mem' = e /\ UNCHANGED <<obj, watch, cache, cur, fresh>>
    BY DEF Continue
  <1>5. /\ e.spec = mem.spec /\ e.gen = mem.gen /\ e.fin = mem.fin /\ e.del = mem.del
        /\ e.st.id = i /\ e.st.name = n
    BY <1>1 DEF SyncedStatus, Pipeline
  <1>6. \A k \in Keys : \A v : (v \in Versions(k))' => v \in Versions(k) \/ (k = cur /\ v = e)
    BY <1>4, HeldVersions
  <1>7. ASSUME NEW k \in Keys, NEW v \in Versions(k)
        PROVE  /\ VersionOK(k, v)' /\ v \in Pipeline /\ Traced(v)
               /\ v.st.id \in FleetIds' => v.st.id \in FleetIds
    <2>1. v \in Pipeline /\ Traced(v) /\ Derives(v, v)
      BY VersionsTyped, DerivesItself DEF IInv, SInv, VersionsOK, VersionOK
    <2>2. VersionOK(k, v)'
      BY <1>4, <2>1, DerivedIsOK DEF Follows, SInv
    <2>3. v.st.id \in FleetIds' => v.st.id \in FleetIds
      BY <2>1, InheritedIsTraced DEF Derives
    <2> QED BY <2>1, <2>2, <2>3
  <1>8. VersionOK(cur, e)'
    <2>1. Traced(e)'
      <3>1. i < nextId' /\ \A m \in Names : fleet'[m].id = i => m = n
        BY <1>2, <1>3 DEF IdsMove, IdsDistinct
      <3> QED BY <1>5, <3>1 DEF Traced
    <2>2. Lingering(cur, e)'
      BY <1>1, <1>5 DEF Lingering
    <2>3. Current(cur, e)'
      BY <1>1, <1>4, <1>5 DEF Current, VersionOK
    <2> QED BY <1>4, <2>1, <2>2, <2>3 DEF VersionOK
  <1>9. VersionsOK'
    BY <1>4, <1>6, <1>7, <1>8 DEF VersionsOK
  <1>10. ASSUME NEW k \in Keys, k # cur, NEW v \in Versions(k)
         PROVE  v.st.id # i
    <2> SUFFICES ASSUME v.st.id = i PROVE FALSE
      OBVIOUS
    <2>1. v.st.id < nextId /\ nextId \in Nat
      BY <1>7, FleetIdsNat DEF Traced
    <2>2. fleet[n].id = v.st.id
      BY <1>3, <2>1
    <2>3. n = v.st.name
      BY <1>2, <1>3, <1>7, <2>2 DEF Traced
    <2>4. Uses(k, v, n) /\ Uses(cur, mem, n)
      BY <1>1, <1>3, <2>3 DEF Uses
    <2> QED BY <1>1, <1>2, <1>10, <2>4 DEF NamesApart
  <1>11. IdsApart'
    <2> SUFFICES ASSUME NEW j \in Keys, NEW k \in Keys, j # k,
                        NEW u, (u \in Versions(j))', NEW v, (v \in Versions(k))',
                        u.st.id = v.st.id, u.st.id \in FleetIds'
                 PROVE  FALSE
      BY DEF IdsApart
    <2>1. CASE u \in Versions(j) /\ v \in Versions(k)
      BY <1>7, <2>1 DEF SInv, IdsApart
    <2>2. CASE u \in Versions(j) /\ k = cur /\ v = e
      BY <1>5, <1>10, <2>2
    <2>3. CASE v \in Versions(k) /\ j = cur /\ u = e
      BY <1>5, <1>10, <2>3
    <2> QED BY <1>6, <2>1, <2>2, <2>3
  <1>12. WorkerOK'
    BY <1>3, <1>4, <1>5 DEF SInv, WorkerOK
  <1>13. ClaimsHold'
    BY <1>4 DEF SInv, ClaimsHold, ClaimedStay, Claims, OwnName
  <1> QED BY <1>9, <1>11, <1>12, <1>13 DEF SInv, IdsMove

LEMMA UpsertStep ==
  ASSUME IInv, IInv', SInv, OneNaming, NamesApart, Upsert
  PROVE  SInv'
  <1> DEFINE n == DesiredFleetName(cur, mem)
             c == mem.spec.contents
  <1>1. pc = "upsert" /\ UNCHANGED scope /\ (UpsertEffect(n, c) \/ NoEffect)
    BY DEF Upsert, OperatorOnly, buildUpsertRequest
  <1>2. cur \in Keys /\ mem \in Pipeline /\ mem.st.id \in Nat /\ n \in Names /\ c \in Contents
    BY <1>1, CopyFacts, NameType
  <1>3. IdsMove
    BY <1>1, <1>2, EffectMovesIds DEF SInv
  <1>4. ClaimedStay
    <2>1. CASE UpsertEffect(n, c)
      BY <1>1, <2>1, UpsertSpares
    <2>2. CASE NoEffect
      BY <2>2, NoMove DEF NoEffect
    <2> QED BY <1>1, <2>1, <2>2
  <1>5. CASE /\ UpsertEffect(n, c) /\ Continue(SyncedStatus(mem, Upserted(n, c)[n].id, n))
             /\ pc' = "updateStatus"
    BY <1>1, <1>3, <1>4, <1>5, UpsertedStep
  <1>6. CASE \E code : handleAPIError(code)
    BY <1>1, <1>3, <1>4, <1>6, HandleStep
  <1> QED BY <1>5, <1>6 DEF Upsert, buildUpsertRequest

-----------------------------------------------------------------------------
(* The writes of the worker.                                               *)

\* What a worker knows when its write can be accepted: only its own status is new.
LEMMA FreshVersions ==
  ASSUME IInv, SInv, fresh
  PROVE  /\ cur \in Keys /\ obj[cur] \in Pipeline /\ obj[cur] \in Versions(cur) /\ mem \in Pipeline
         /\ \A v \in Versions(cur) : v.gen = obj[cur].gen
         /\ \A v \in Versions(cur) : v \in {obj[cur], mem}
         /\ mem.spec = obj[cur].spec /\ mem.del = obj[cur].del /\ mem.gen = obj[cur].gen
         /\ mem.st.og <= mem.gen
  <1>1. pc # "idle" /\ obj[cur] \in Pipeline /\ mem.gen = obj[cur].gen
    BY FreshFacts
  <1>2. cur \in Keys /\ mem \in Pipeline /\ mem.st.og <= mem.gen
    BY <1>1, CopyFacts
  <1>3. cache[cur] = obj[cur] /\ watch[cur] = <<>>
    BY DEF IInv, CopiesAgree, FreshCopy
  <1>4. \A i : i \notin 1..Len(watch[cur])
    BY <1>3, EmptyFacts
  <1>5. \A v \in Versions(cur) : v \in {obj[cur], mem}
    BY <1>3, <1>4, VersionCases
  <1>6. obj[cur] \in Versions(cur)
    BY <1>1, NumbersType, VersionCases
  <1>7. mem.spec = obj[cur].spec /\ mem.del = obj[cur].del
    BY DEF SInv, WorkerOK
  <1> QED BY <1>1, <1>2, <1>5, <1>6, <1>7

LEMMA WriteStep ==
  ASSUME IInv, IInv', SInv, UNCHANGED <<fleet, nextId, scope>>, NEW o \in Pipeline, NEW b,
         WriteAndReturn(o, b), pc' = "idle", Follows(cur),
         \E u \in Versions(cur) : Inherits(o, u),
         NEW k, k = cur,
         Claims(k)' => fleet[o.st.name] = [id |-> o.st.id, contents |-> o.spec.contents]
  PROVE  SInv'
  <1>1. Store(cur, o) /\ UNCHANGED cache /\ cur' = "" /\ fresh' = FALSE /\ fresh /\ o \in Version
    BY DEF WriteAndReturn, Return, Version
  <1>2. cur \in Keys
    BY <1>1, FreshVersions
  <1>3. obj'[k] = o /\ \A j \in Keys : j # k => obj'[j] = obj[j]
    BY <1>1, <1>2, StoreFacts DEF IInv, TypeOK
  <1>4. \A j \in Keys : Follows(j)
    BY <1>3 DEF Follows
  <1>5. \A j \in Keys : \A v : (v \in Versions(j))' => v \in Versions(j) \/ Fits(j, v)
    <2> SUFFICES ASSUME NEW j \in Keys, NEW v, (v \in Versions(j))', v \notin Versions(j)
                 PROVE  Fits(j, v)
      OBVIOUS
    <2>1. j = k /\ v = o /\ o.exists
      BY <1>1, <1>2, StoredVersions DEF IInv
    <2> QED BY <1>3, <2>1 DEF Fits
  <1>6. IdsMove
    BY NoMove
  <1>7. VersionsOK' /\ IdsApart'
    BY <1>4, <1>5, <1>6, VersionsStep DEF SInv
  <1>8. WorkerOK'
    BY <1>1 DEF WorkerOK
  <1>9. ClaimsHold'
    <2> SUFFICES ASSUME NEW j \in Keys, Claims(j)'
                 PROVE  fleet[obj'[j].st.name] = [id |-> obj'[j].st.id, contents |-> obj'[j].spec.contents]
      BY DEF ClaimsHold
    <2>1. CASE j # k
      BY <1>3, <2>1 DEF SInv, ClaimsHold, Claims, OwnName
    <2>2. CASE j = k
      BY <1>3, <2>2
    <2> QED BY <2>1, <2>2
  <1> QED BY <1>6, <1>7, <1>8, <1>9 DEF SInv, IdsMove

\* A write that is not accepted.
LEMMA WriteCases ==
  ASSUME IInv, IInv', SInv, NEW o, NEW b, NEW e, PipelineWrite(o, b, e)
  PROVE  /\ pc' = "idle" /\ UNCHANGED <<fleet, nextId, scope>>
         /\ SInv' \/ \E q : WriteAndReturn(o, q)
  <1>1. pc' = "idle" /\ UNCHANGED <<fleet, nextId, scope>>
    BY DEF PipelineWrite, KubeWrite, NoEffect, OperatorOnly
  <1>2. CASE \E q : JustReturn(q)
    <2>1. UNCHANGED <<obj, watch, cache>> /\ cur' = "" /\ fresh' = FALSE
      BY <1>2 DEF JustReturn, Return
    <2> QED BY <1>1, <2>1, NoMove, IdleStep
  <1> QED BY <1>1, <1>2 DEF PipelineWrite, KubeWrite

LEMMA AddFinalizerStep ==
  ASSUME IInv, IInv', SInv, AddFinalizer
  PROVE  SInv'
  <1>1. pc = "addFinalizer" /\ PipelineWrite(mem, FALSE, TRUE)
    BY DEF AddFinalizer
  <1>2. pc' = "idle" /\ UNCHANGED <<fleet, nextId, scope>>
    BY <1>1, WriteCases
  <1>3. ASSUME NEW q, WriteAndReturn(mem, q)
        PROVE  SInv'
    <2>1. fresh /\ Store(cur, mem)
      BY <1>3 DEF WriteAndReturn
    <2>2. /\ cur \in Keys /\ obj[cur] \in Pipeline /\ obj[cur] \in Versions(cur) /\ mem \in Pipeline
          /\ mem.spec = obj[cur].spec /\ mem.del = obj[cur].del /\ mem.gen = obj[cur].gen
          /\ mem.exists /\ obj[cur].exists
      BY <2>1, FreshVersions, NumbersType
    <2>3. mem.st = obj[cur].st /\ mem.fin
      BY <1>1, <2>1 DEF SInv, WorkerOK, IInv, CopiesAgree, WorkerCopy
    <2> DEFINE k == cur
    <2>4. obj'[k] = mem
      BY <2>1, <2>2, StoreFacts DEF IInv, TypeOK, Version
    <2>5. Follows(cur)
      <3>1. \A v \in Versions(cur) : v.fin /\ ~v.del => obj[cur].st.og <= v.gen
        BY <2>2 DEF SInv, VersionsOK, VersionOK, Current
      <3> QED BY <2>2, <2>3, <2>4, <3>1 DEF Follows
    <2>6. PICK j : j = cur
      OBVIOUS
    <2>7. Claims(j)' => Claims(j)
      BY <1>2, <2>2, <2>3, <2>4, <2>6 DEF Claims, OwnName
    <2>8. Claims(j)' => fleet[mem.st.name] = [id |-> mem.st.id, contents |-> mem.spec.contents]
      BY <2>2, <2>3, <2>6, <2>7 DEF SInv, ClaimsHold
    <2>9. \E u \in Versions(cur) : Inherits(mem, u)
      BY <2>2, <2>3 DEF Inherits
    <2> QED BY <1>2, <1>3, <2>2, <2>5, <2>6, <2>8, <2>9, WriteStep
  <1> QED BY <1>1, <1>3, WriteCases

LEMMA UpdateStatusStep ==
  ASSUME IInv, IInv', SInv, UpdateStatus
  PROVE  SInv'
  <1>1. PICK o : o = [obj[cur] EXCEPT !.st = mem.st]
    OBVIOUS
  <1>2. pc = "updateStatus" /\ PipelineWrite(o, retry, retry \/ mem.st.ready = "True")
    BY <1>1 DEF UpdateStatus
  <1>3. pc' = "idle" /\ UNCHANGED <<fleet, nextId, scope>>
    BY <1>2, WriteCases
  <1>4. ASSUME NEW q, WriteAndReturn(o, q)
        PROVE  SInv'
    <2>1. fresh /\ Store(cur, o)
      BY <1>4 DEF WriteAndReturn
    <2>2. /\ cur \in Keys /\ obj[cur] \in Pipeline /\ mem \in Pipeline
          /\ \A v \in Versions(cur) : v.gen = obj[cur].gen
          /\ mem.spec = obj[cur].spec /\ mem.gen = obj[cur].gen /\ mem.st.og <= mem.gen
          /\ obj[cur].exists
      BY <2>1, FreshVersions, NumbersType
    <2>3. mem.st \in Status
      BY <2>2, NumbersType
    <2>4. /\ o \in Pipeline /\ o.st = mem.st /\ o.gen = obj[cur].gen /\ o.exists
          /\ o.fin = obj[cur].fin
      BY <1>1, <2>2, <2>3, StatusType
    <2>5. o.spec = obj[cur].spec /\ o.del = obj[cur].del
      BY <1>1, <2>2 DEF Pipeline
    <2>6. PICK j : j = cur
      OBVIOUS
    <2>7. obj'[j] = o
      BY <2>1, <2>2, <2>4, <2>6, StoreFacts DEF IInv, TypeOK, Version
    <2>8. Follows(cur)
      BY <2>2, <2>4, <2>5, <2>6, <2>7 DEF Follows
    <2>9. Claims(j)' => fleet[o.st.name] = [id |-> o.st.id, contents |-> o.spec.contents]
      BY <1>2, <2>2, <2>4, <2>5, <2>6, <2>7 DEF Claims, SInv, WorkerOK
    <2>10. \E u \in Versions(cur) : Inherits(o, u)
      BY <1>2, <2>4, CopyIsVersion DEF Inherits
    <2> QED BY <1>3, <1>4, <2>4, <2>6, <2>8, <2>9, <2>10, WriteStep
  <1> QED BY <1>2, <1>4, WriteCases

\* The object goes; the cache still shows it, as an object whose Fleet pipeline is gone.
LEMMA RemoveFinalizerStep ==
  ASSUME IInv, IInv', SInv, RemoveFinalizer
  PROVE  SInv'
  <1>1. pc = "removeFinalizer" /\ PipelineWrite(NoObject, FALSE, TRUE)
    BY DEF RemoveFinalizer
  <1>2. pc' = "idle" /\ UNCHANGED <<fleet, nextId, scope>>
    BY <1>1, WriteCases
  <1>3. ASSUME NEW q, WriteAndReturn(NoObject, q)
        PROVE  SInv'
    <2>1. Store(cur, NoObject) /\ UNCHANGED cache /\ cur' = "" /\ fresh' = FALSE /\ fresh
      BY <1>3 DEF WriteAndReturn, Return
    <2>2. cur \in Keys /\ \A v \in Versions(cur) : v \in {obj[cur], mem}
      BY <2>1, FreshVersions
    <2>3. /\ mem.del /\ mem = obj[cur]
          /\ ~IsReadOnly(mem) => mem.st.id \notin FleetIds
      BY <1>1, <2>1 DEF IInv, CopiesAgree, WorkerCopy
    <2>4. NoObject \in Version /\ ~NoObject.exists
      BY NoObjectType DEF Version
    <2>5. PICK k : k = cur
      OBVIOUS
    <2>6. obj'[k] = NoObject /\ \A j \in Keys : j # k => obj'[j] = obj[j]
      BY <2>1, <2>2, <2>4, <2>5, StoreFacts DEF IInv, TypeOK
    <2>7. \A j \in Keys : \A v : (v \in Versions(j))' => v \in Versions(j)
      BY <2>1, <2>2, <2>4, StoredVersions DEF IInv
    <2>8. ASSUME NEW j \in Keys, NEW v \in Versions(j)
          PROVE  VersionOK(j, v)'
      <3>1. VersionOK(j, v)
        BY DEF SInv, VersionsOK
      <3>2. Traced(v)'
        BY <1>2, <3>1 DEF VersionOK, Traced
      <3>3. CASE j # k
        BY <1>2, <2>6, <3>1, <3>2, <3>3 DEF VersionOK, Lingering, Current, FleetIds, IsReadOnly
      <3>4. CASE j = k
        <4>1. v.del /\ (~IsReadOnly(v) => v.st.id \notin FleetIds)
          BY <2>2, <2>3, <2>5, <3>4
        <4> QED BY <1>2, <3>2, <4>1 DEF VersionOK, Lingering, Current, FleetIds, IsReadOnly
      <3> QED BY <3>3, <3>4
    <2>9. VersionsOK' /\ IdsApart'
      BY <1>2, <2>7, <2>8 DEF VersionsOK, SInv, IdsApart, FleetIds
    <2>10. WorkerOK'
      BY <1>2, <2>1 DEF WorkerOK
    <2>11. ClaimsHold'
      BY <1>2, <2>4, <2>6 DEF SInv, ClaimsHold, Claims, OwnName
    <2>12. IdsDistinct'
      BY <1>2 DEF SInv, IdsDistinct
    <2> QED BY <1>2, <2>9, <2>10, <2>11, <2>12 DEF SInv
  <1> QED BY <1>1, <1>3, WriteCases

LEMMA RestartStep ==
  ASSUME IInv, IInv', SInv, OneNaming, Restart
  PROVE  SInv'
  <1>1. /\ KubeRestart /\ UNCHANGED <<fleet, nextId, obj>> /\ scope' \in Scopes
        /\ pc' = "idle" /\ fresh' = FALSE /\ cur' = ""
    BY DEF Restart, KubeRestart, NoEffect
  <1>2. scope' = scope
    BY <1>1 DEF OneNaming, SInv
  <1> QED BY <1>1, <1>2, NoMove, IdleStep

LEMMA NextSInv ==
  ASSUME IInv, SInv, OneNaming, ~ExternalDeletes, NamesApart, [Next]_vars
  PROVE  SInv'
  <1>0. IInv'
    BY NextInv
  <1>1. CASE User
    BY <1>0, <1>1, UserStep
  <1>2. ASSUME NEW k \in Keys, Reconcile(k) \/ Inform(k)
        PROVE  SInv'
    BY <1>0, <1>2, ReconcileStep, InformStep
  <1>3. CASE Worker
    BY <1>0, <1>3, MigrateDryRunStep, MigrateDeleteStep, UpsertStep, GetPipelineStep,
       FinalDeleteStep, AddFinalizerStep, RemoveFinalizerStep, UpdateStatusStep DEF Worker
  <1>4. CASE Restart
    BY <1>0, <1>4, RestartStep
  <1>5. CASE UNCHANGED vars
    <2>1. UNCHANGED <<obj, watch, cache, cur, mem, fresh, fleet, nextId, scope, pc>>
      BY <1>5 DEF vars, kubeVars
    <2>2. WorkerOK'
      BY <2>1 DEF SInv, WorkerOK, IsReadOnly, OwnName
    <2>3. \A j \in Keys : \A v : (v \in Versions(j))' => v \in Versions(j)
      BY <2>1 DEF Versions
    <2> QED BY <1>0, <2>1, <2>2, <2>3, NoMove, QuietStep
  <1> QED BY <1>1, <1>2, <1>3, <1>4, <1>5 DEF Next

LEMMA InitSInv ==
  ASSUME Init, NothingToGuess
  PROVE  SInv
  <1>1. pc = "idle" /\ nextId = 2 /\ scope \in Scopes
    BY DEF Init
  <1>2. IInv
    BY InitInv
  <1>3. cur = "" /\ fresh = FALSE /\ cache = obj /\ watch = [k \in Keys |-> <<>>]
    BY DEF Init, KubeInit
  <1>4. \A k \in Keys : \A v \in Versions(k) : v = obj[k] /\ v.exists
    <2>1. \A k \in Keys : \A i : i \notin 1..Len(watch[k])
      BY <1>3, EmptyFacts
    <2>2. \A k \in Keys : cache[k] = obj[k] /\ cur # k
      BY <1>3, KeysAssumption
    <2> QED BY <2>1, <2>2, VersionCases
  <1>5. WorkerOK
    BY <1>1, <1>3 DEF WorkerOK
  <1>6. CASE /\ KubeInit([k \in Keys |-> NoObject])
             /\ \E N \in SUBSET Foreign, c \in Contents \ Invalid :
                   /\ \A m, n \in N : m = n
                   /\ fleet = [n \in Names |->
                                 IF n \in N THEN [id |-> 1, contents |-> c] ELSE Vacant]
    <2>1. \A k \in Keys : ~obj[k].exists
      BY <1>6, NoObjectType DEF KubeInit
    <2>2. PICK N \in SUBSET Foreign, c \in Contents \ Invalid :
                   /\ \A m, n \in N : m = n
                   /\ fleet = [n \in Names |->
                                 IF n \in N THEN [id |-> 1, contents |-> c] ELSE Vacant]
      BY <1>6
    <2>3. \A n \in Names : fleet[n].id = IF n \in N THEN 1 ELSE 0
      BY <2>2 DEF Vacant, NoId
    <2>4. IdsDistinct
      BY <1>1, <2>2, <2>3 DEF IdsDistinct, NoId
    <2>5. VersionsOK /\ IdsApart
      BY <1>4, <2>1 DEF VersionsOK, IdsApart
    <2>6. ClaimsHold
      BY <2>1 DEF ClaimsHold, Claims
    <2> QED BY <1>1, <1>5, <2>4, <2>5, <2>6 DEF SInv
  <1>7. CASE \E k \in Keys, s \in Specs, a \in Annots :
               /\ KubeInit([j \in Keys |->
                     IF j = k
                     THEN [exists |-> TRUE, spec |-> s, ann |-> a, gen |-> 1,
                           fin |-> TRUE, del |-> FALSE,
                           st |-> [id |-> 1, name |-> NoName, og |-> 1,
                                   ready |-> "True", reason |-> "Synced"]]
                     ELSE NoObject])
               /\ fleet = [n \in Names |-> IF n = <<"", s.base>>
                                           THEN [id |-> 1, contents |-> s.contents]
                                           ELSE Vacant]
    <2>1. PICK k \in Keys, s \in Specs, a \in Annots :
               /\ KubeInit([j \in Keys |->
                     IF j = k
                     THEN [exists |-> TRUE, spec |-> s, ann |-> a, gen |-> 1,
                           fin |-> TRUE, del |-> FALSE,
                           st |-> [id |-> 1, name |-> NoName, og |-> 1,
                                   ready |-> "True", reason |-> "Synced"]]
                     ELSE NoObject])
               /\ fleet = [n \in Names |-> IF n = <<"", s.base>>
                                           THEN [id |-> 1, contents |-> s.contents]
                                           ELSE Vacant]
      BY <1>7
    <2>2. /\ \A j \in Keys : j # k => ~obj[j].exists
          /\ obj[k].exists /\ ~obj[k].del /\ obj[k].fin /\ obj[k].gen = 1 /\ obj[k].st.og = 1
          /\ obj[k].st.id = 1 /\ obj[k].st.name = NoName
      BY <2>1, NoObjectType DEF KubeInit
    <2>3. scope = "namespace"
      BY <2>2 DEF NothingToGuess
    <2>9. <<"", s.base>>[1] = ""
      OBVIOUS
    <2>10. PICK b : b = <<"", s.base>> /\ b[1] = ""
      BY <2>9
    <2>4. \A n \in Names : fleet[n].id = IF n = b THEN 1 ELSE 0
      BY <2>1, <2>10 DEF Vacant, NoId
    <2>5. IdsDistinct
      BY <1>1, <2>4 DEF IdsDistinct, NoId
    <2>6. VersionsOK
      <3>1. Traced(obj[k])
        <4>1. obj[k].st.id < nextId
          BY <1>1, <2>2
        <4>2. \A n \in Names : fleet[n].id = obj[k].st.id => n = b
          BY <2>2, <2>4
        <4>3. b[1] = ""
          BY <2>10
        <4> HIDE <2>10
        <4> QED BY <2>3, <4>1, <4>2, <4>3 DEF Traced
      <3>2. Lingering(k, obj[k]) /\ Current(k, obj[k])
        BY <2>2 DEF Lingering, Current
      <3> QED BY <1>4, <2>2, <3>1, <3>2 DEF VersionsOK, VersionOK
    <2>7. IdsApart
      BY <1>4, <2>2 DEF IdsApart
    <2>8. ClaimsHold
      <3>1. obj[k] \in Pipeline
        BY <1>2, <2>2, VersionType DEF IInv, TypeOK
      <3>2. OwnName(k, obj[k]) # NoName
        BY <3>1, OwnNameFacts, NoNameFree
      <3> QED BY <2>2, <3>2 DEF ClaimsHold, Claims
    <2> QED BY <1>1, <1>5, <2>5, <2>6, <2>7, <2>8 DEF SInv
  <1> QED BY <1>6, <1>7 DEF Init

\* updateStatusSuccess tells the truth as long as a Pipeline keeps its names to itself:
\* under one naming rule, with Fleet changed by nobody else and no name to guess, a
\* Synced status is true at every moment, through stale reads, lost answers, failed
\* status writes, crashes and interrupted migrations.
THEOREM SyncedIsApplied ==
  ASSUME OneNaming, ~ExternalDeletes
  PROVE  Spec /\ NothingToGuess /\ []NamesApart => []SyncedMeansApplied
  <1>1. Init /\ NothingToGuess => SInv
    BY InitSInv
  <1>2. IInv /\ SInv /\ NamesApart /\ [Next]_vars => SInv'
    BY NextSInv
  <1>3. IInv /\ SInv => SyncedMeansApplied
    <2> SUFFICES ASSUME IInv, SInv, NEW k \in Keys, Managed(obj[k]),
                        obj[k].st.reason = "Synced", obj[k].st.og = obj[k].gen,
                        DesiredFleetName(k, obj[k]) = obj[k].st.name
                 PROVE  fleet[obj[k].st.name] = [id |-> obj[k].st.id,
                                                 contents |-> obj[k].spec.contents]
      BY DEF SyncedMeansApplied
    <2>1. obj[k] \in Pipeline /\ obj[k].exists /\ ~obj[k].del /\ ~IsReadOnly(obj[k])
      BY VersionType DEF Managed, IInv, TypeOK
    <2>2. OwnName(k, obj[k]) = obj[k].st.name
      BY <2>1, DesiredIsOwn DEF SInv
    <2> QED BY <2>1, <2>2 DEF SInv, ClaimsHold, Claims
  <1> QED BY <1>1, <1>2, <1>3, Inductive, PTL DEF Spec

\* Only a deletion by the worker takes a Fleet pipeline away.
LEMMA FleetLoss ==
  ASSUME IInv, [Next]_vars, ~ExternalDeletes, NEW n \in Names, fleet[n].id # NoId, fleet'[n].id = NoId
  PROVE  pc \in {"migrateDelete", "finalDelete"} /\ fleet[n].id = mem.st.id
  <1>1. fleet \in [Names -> FleetPipeline \cup {Vacant}] /\ nextId \in Nat /\ NoId < nextId
    BY FleetIdsNat
  <1>2. fleet' # fleet
    OBVIOUS
  <1>3. ASSUME NEW m \in Names, NEW c, UpsertEffect(m, c)
        PROVE  FALSE
    <2>1. fleet'[n].id \in {fleet[n].id, nextId}
      BY <1>1, <1>3 DEF UpsertEffect, Upserted
    <2> QED BY <1>1, <2>1 DEF NoId
  <1>4. ASSUME DeleteEffect(mem.st.id)
        PROVE  fleet[n].id = mem.st.id
    BY <1>1, <1>4 DEF DeleteEffect, Removed
  <1>5. CASE User
    BY <1>2, <1>5 DEF User, EditSpec, CreatePipeline, Annotate, DeletePipeline, ExternalDelete
  <1>6. CASE \E k \in Keys : Reconcile(k) \/ Inform(k)
    BY <1>2, <1>6 DEF Reconcile, ReconcileNothing, ReconcileFinalizer, ReconcileReadOnly,
       ReconcileNormal, ReconcileDelete, Inform, NoEffect
  <1>7. CASE MigrateDryRun \/ GetPipeline \/ AddFinalizer \/ RemoveFinalizer \/ UpdateStatus
    BY <1>2, <1>7 DEF MigrateDryRun, GetPipeline, AddFinalizer, RemoveFinalizer, UpdateStatus,
       PipelineWrite, NoEffect
  <1>8. CASE Upsert
    <2>1. pc = "upsert" /\ UpsertEffect(DesiredFleetName(cur, mem), mem.spec.contents)
      BY <1>2, <1>8 DEF Upsert, buildUpsertRequest, NoEffect
    <2>2. DesiredFleetName(cur, mem) \in Names
      BY <2>1, CopyFacts, NameType
    <2> QED BY <1>3, <2>1, <2>2
  <1>9. CASE MigrateDelete \/ FinalDelete
    BY <1>2, <1>4, <1>9 DEF MigrateDelete, FinalDelete, NoEffect
  <1>10. CASE Restart \/ UNCHANGED vars
    BY <1>2, <1>10 DEF Restart, vars, NoEffect
  <1> QED BY <1>5, <1>6, <1>7, <1>8, <1>9, <1>10 DEF Next, Worker

\* migratePipelineName never deletes a pipeline it cannot rebuild, and no other deletion
\* takes the Fleet pipeline of a live Pipeline: under the same conditions, in every
\* interleaving, such a deletion is that of the Pipeline's own migration, past a dry run
\* that Fleet accepted.
THEOREM DeletedIsRebuildable ==
  ASSUME OneNaming, ~ExternalDeletes
  PROVE  Spec /\ NothingToGuess /\ []NamesApart => NeverDeleteUnrebuildable
  <1> DEFINE step(k, n) == (/\ Managed(obj[k])
                            /\ fleet[n].id # NoId /\ fleet[n].id = obj[k].st.id
                            /\ fleet'[n].id = NoId)
                           => cur = k /\ mem.spec.contents \notin Invalid
  <1>1. Init /\ NothingToGuess => SInv
    BY InitSInv
  <1>2. IInv /\ SInv /\ NamesApart /\ [Next]_vars => SInv'
    BY NextSInv
  <1>3. ASSUME IInv, SInv, [Next]_vars, NEW k \in Keys, NEW n \in Names
        PROVE  step(k, n)
    <2> SUFFICES ASSUME Managed(obj[k]), fleet[n].id # NoId, fleet[n].id = obj[k].st.id,
                        fleet'[n].id = NoId
                 PROVE  cur = k /\ mem.spec.contents \notin Invalid
      OBVIOUS
    <2>1. pc \in {"migrateDelete", "finalDelete"} /\ fleet[n].id = mem.st.id
      BY <1>3, FleetLoss
    <2>2. obj[k].exists /\ ~obj[k].del /\ mem.st.id \in FleetIds /\ obj[k].st.id = mem.st.id
      BY <2>1 DEF Managed, FleetIds
    <2>3. cur = k /\ pc = "migrateDelete"
      BY <1>3, <2>1, <2>2, DeletedByOwner
    <2> QED BY <1>3, <2>3 DEF SInv, WorkerOK
  <1>4. IInv /\ SInv /\ [Next]_vars => [\A k \in Keys, n \in Names : step(k, n)]_vars
    BY <1>3
  <1> QED BY <1>1, <1>2, <1>4, Inductive, PTL DEF Spec, NeverDeleteUnrebuildable

-----------------------------------------------------------------------------
(* Namespaces keep Pipelines apart.                                        *)

\* The ID of v is that of u, with the name of u or an unscoped one found for it.
Carries(v, u) ==
  v.st.id = u.st.id /\ (v.st.name = u.st.name \/ (u.st.name = NoName /\ v.st.name[1] = ""))

\* Where a version that appears in a step has its ID and name from.
Descends(k, v) ==
  \/ v.st.id = NoId
  \/ \E u \in Versions(k) : Carries(v, u)
  \/ v.st.name = OwnName(k, mem)

LEMMA Unscoped == NoName[1] = "" /\ \A b : <<"", b>>[1] = ""
  BY DEF NoName

LEMMA StoredDescends ==
  ASSUME IInv, NEW k \in Keys, NEW o, UserWrite(k, o), UNCHANGED pc, o \in Version,
         o.exists => Descends(k, o),
         NEW j \in Keys, NEW v, (v \in Versions(j))'
  PROVE  v \in Versions(j) \/ Descends(j, v)
  <1>1. Store(k, o) /\ UNCHANGED <<cache, cur, mem>>
    BY DEF UserWrite
  <1> QED BY <1>1, StoredVersions DEF IInv

LEMMA UserDescends ==
  ASSUME IInv, User, NEW j \in Keys, NEW v, (v \in Versions(j))'
  PROVE  v \in Versions(j) \/ Descends(j, v)
  <1>1. ASSUME NEW k \in Keys, obj[k].exists
        PROVE  obj[k] \in Pipeline /\ obj[k] \in Versions(k) /\ NotAhead(obj[k])
    BY <1>1, VersionType, VersionCases DEF IInv, TypeOK, CopiesAgree, VersionsNotAhead
  <1>2. ASSUME NEW k \in Keys, obj[k].exists, NEW o \in Pipeline, o.st = obj[k].st
        PROVE  o \in Version /\ Descends(k, o)
    <2>1. Carries(o, obj[k])
      BY <1>2 DEF Carries
    <2> QED BY <1>1, <1>2, <2>1 DEF Descends, Version
  <1>3. ASSUME NEW k \in Keys, NEW s \in Specs, NEW a \in Annots, CreatePipeline(k, s, a)
        PROVE  v \in Versions(j) \/ Descends(j, v)
    <2> DEFINE st == [id |-> NoId, name |-> NoName, og |-> 0,
                      ready |-> "Unknown", reason |-> ""]
               o == [exists |-> TRUE, spec |-> s, ann |-> a, gen |-> 1,
                     fin |-> FALSE, del |-> FALSE, st |-> st]
    <2>1. st \in Status
      BY DEF Status, Reasons, NoId
    <2>2. o \in Pipeline /\ o.st.id = NoId
      BY <2>1 DEF Pipeline
    <2>3. UserWrite(k, o) /\ UNCHANGED pc
      BY <1>3 DEF CreatePipeline, NotOperator
    <2> HIDE DEF o
    <2> QED BY <2>2, <2>3, StoredDescends DEF Version, Descends
  <1>4. ASSUME NEW k \in Keys, NEW s \in Specs, EditSpec(k, s)
        PROVE  v \in Versions(j) \/ Descends(j, v)
    <2> DEFINE o == [obj[k] EXCEPT !.spec = s, !.gen = @ + 1]
    <2>1. UserWrite(k, o) /\ obj[k].exists /\ UNCHANGED pc
      BY <1>4 DEF EditSpec, NotOperator
    <2>2. o \in Pipeline
      BY <1>1, <2>1, EditedType
    <2>3. o.st = obj[k].st
      BY <1>1, <2>1 DEF Pipeline
    <2> HIDE DEF o
    <2> QED BY <1>2, <2>1, <2>2, <2>3, StoredDescends
  <1>5. ASSUME NEW k \in Keys, NEW a \in Annots, Annotate(k, a)
        PROVE  v \in Versions(j) \/ Descends(j, v)
    <2> DEFINE o == [obj[k] EXCEPT !.ann = a]
    <2>1. UserWrite(k, o) /\ obj[k].exists /\ UNCHANGED pc
      BY <1>5 DEF Annotate, NotOperator
    <2>2. o \in Pipeline /\ o.st = obj[k].st
      BY <1>1, <2>1 DEF Pipeline
    <2> HIDE DEF o
    <2> QED BY <1>2, <2>1, <2>2, StoredDescends
  <1>6. ASSUME NEW k \in Keys, DeletePipeline(k)
        PROVE  v \in Versions(j) \/ Descends(j, v)
    <2>1. obj[k].exists /\ UNCHANGED pc
      BY <1>6 DEF DeletePipeline, NotOperator
    <2>2. CASE obj[k].fin
      <3> DEFINE o == [obj[k] EXCEPT !.del = TRUE, !.gen = @ + 1]
      <3>1. UserWrite(k, o)
        BY <1>6, <2>2 DEF DeletePipeline
      <3>2. o \in Pipeline
        BY <1>1, <2>1, DeletedType
      <3>3. o.st = obj[k].st
        BY <1>1, <2>1 DEF Pipeline
      <3> HIDE DEF o
      <3> QED BY <1>2, <2>1, <3>1, <3>2, <3>3, StoredDescends
    <2>3. CASE ~obj[k].fin
      <3>1. UserWrite(k, NoObject) /\ NoObject \in Version /\ ~NoObject.exists
        BY <1>6, <2>3, NoObjectType DEF DeletePipeline, Version
      <3> QED BY <2>1, <3>1, StoredDescends
    <2> QED BY <2>2, <2>3
  <1>7. ASSUME NEW n \in Names, ExternalDelete(n)
        PROVE  v \in Versions(j)
    BY <1>7 DEF ExternalDelete, NotOperator, kubeVars, Versions
  <1> QED BY <1>3, <1>4, <1>5, <1>6, <1>7 DEF User

\* The worker has a copy, or has dropped it.
LEMMA HeldDescends ==
  ASSUME UNCHANGED <<obj, watch, cache>>,
         cur' = "" \/ pc' = "addFinalizer" \/ Descends(cur', mem'),
         NEW j \in Keys, NEW v, (v \in Versions(j))'
  PROVE  v \in Versions(j) \/ Descends(j, v)
  BY HeldVersions, KeysAssumption

LEMMA ReconcileDescends ==
  ASSUME IInv, NEW k \in Keys, Reconcile(k), NEW j \in Keys, NEW v, (v \in Versions(j))'
  PROVE  v \in Versions(j) \/ Descends(j, v)
  <1> DEFINE c == cache[k]
             o == backfillSyncedName(c)
             e == ErrorStatus(o, "ValidationError", FALSE)
  <1>1. ASSUME c.exists
        PROVE  Descends(k, c) /\ Descends(k, o) /\ Descends(k, e)
    <2>1. c \in Pipeline /\ c \in Versions(k)
      BY <1>1, VersionType, VersionCases DEF IInv, TypeOK
    <2>2. o \in Pipeline /\ Carries(c, c)
      BY <2>1, BackfillType DEF Carries
    <2>3. Carries(o, c)
      <3>1. CASE c.st.id # NoId /\ c.st.name = NoName
        <4>1. o.st.id = c.st.id /\ o.st.name = <<"", c.spec.base>>
          BY <2>1, <3>1 DEF backfillSyncedName, Pipeline, Status
        <4> HIDE DEF o
        <4>2. o.st.name[1] = ""
          BY <4>1, Unscoped
        <4> QED BY <3>1, <4>1, <4>2 DEF Carries
      <3>2. CASE ~(c.st.id # NoId /\ c.st.name = NoName)
        BY <2>2, <3>2 DEF backfillSyncedName
      <3> QED BY <3>1, <3>2
    <2> HIDE DEF o
    <2>4. e.st.id = o.st.id /\ e.st.name = o.st.name
      BY <2>2 DEF ErrorStatus, Pipeline, Status
    <2> HIDE DEF e
    <2>5. Carries(e, c)
      BY <2>3, <2>4 DEF Carries
    <2> QED BY <2>1, <2>2, <2>3, <2>5 DEF Descends
  <1>2. CASE ReconcileNothing(k)
    BY <1>2 DEF ReconcileNothing, FetchAndReturn, NoEffect, OperatorOnly, Versions
  <1>3. CASE ~ReconcileNothing(k)
    <2>1. /\ c.exists /\ cur' = k /\ UNCHANGED <<obj, watch, cache>>
          /\ pc' = "addFinalizer" \/ mem' \in {c, o, e}
      BY <1>3 DEF Reconcile, ReconcileFinalizer, ReconcileReadOnly, ReconcileNormal, ReconcileDelete,
         ToSync, Fetch
    <2> QED BY <1>1, <2>1, HeldDescends
  <1> QED BY <1>2, <1>3

\* Where a call of the worker to Fleet leads.
LEMMA CallDescends ==
  ASSUME IInv, SInv, OneNaming, MigrateDryRun \/ MigrateDelete \/ Upsert \/ GetPipeline \/ FinalDelete,
         NEW j \in Keys, NEW v, (v \in Versions(j))'
  PROVE  v \in Versions(j) \/ Descends(j, v)
  <1>1. pc \in {"dryRun", "migrateDelete", "upsert", "get", "finalDelete"}
    BY DEF MigrateDryRun, MigrateDelete, Upsert, GetPipeline, FinalDelete
  <1>2. cur \in Keys /\ mem \in Pipeline /\ mem \in Versions(cur) /\ mem.ann \in Annots
    BY <1>1, CopyIsVersion DEF Pipeline
  <1>3. ASSUME NEW o, Continue(o), o.st.id = NoId \/ (o.st.id = mem.st.id /\ o.st.name = mem.st.name)
        PROVE  v \in Versions(j) \/ Descends(j, v)
    <2>1. mem' = o /\ UNCHANGED <<obj, watch, cache, cur>>
      BY <1>3 DEF Continue
    <2>2. Descends(cur, o)
      BY <1>2, <1>3 DEF Descends, Carries
    <2> QED BY <2>1, <2>2, HeldDescends
  <1>4. ASSUME NEW r, NEW b, updateStatusError(r, b)
        PROVE  v \in Versions(j) \/ Descends(j, v)
    <2> DEFINE e == ErrorStatus(mem, r, b)
    <2>1. Continue(e)
      BY <1>4 DEF updateStatusError
    <2>2. e.st.id = mem.st.id /\ e.st.name = mem.st.name
      BY <1>2 DEF ErrorStatus, Pipeline, Status
    <2> HIDE DEF e
    <2> QED BY <1>3, <2>1, <2>2
  <1>5. ASSUME RequeueAfter
        PROVE  v \in Versions(j) \/ Descends(j, v)
    BY <1>5, HeldDescends DEF RequeueAfter, JustReturn, Return
  <1>6. ASSUME Continue([mem EXCEPT !.st.id = NoId])
        PROVE  v \in Versions(j) \/ Descends(j, v)
    <2> DEFINE e == [mem EXCEPT !.st.id = NoId]
    <2>1. e.st.id = NoId
      BY <1>2 DEF Pipeline, Status
    <2>2. Continue(e)
      BY <1>6
    <2> HIDE DEF e
    <2> QED BY <1>3, <2>1, <2>2
  <1>7. ASSUME NEW code, handleAPIError(code) \/ handleReadOnlyAPIError(code)
        PROVE  v \in Versions(j) \/ Descends(j, v)
    BY <1>4, <1>5, <1>6, <1>7 DEF handleAPIError, handleReadOnlyAPIError
  <1>8. CASE Continue(mem)
    BY <1>3, <1>8
  <1>9. CASE Upsert
    <2> DEFINE n == DesiredFleetName(cur, mem)
               o == SyncedStatus(mem, Upserted(n, mem.spec.contents)[n].id, n)
    <2>1. CASE Continue(o)
      <3>1. o.st.name = n
        BY <1>2 DEF SyncedStatus, Pipeline
      <3>2. n = OwnName(cur, mem)
        BY <1>2, <1>9, DesiredIsOwn DEF Upsert, SInv, WorkerOK
      <3>3. mem' = o /\ UNCHANGED <<obj, watch, cache, cur>>
        BY <2>1 DEF Continue
      <3> HIDE DEF o, n
      <3>4. Descends(cur, o)
        BY <3>1, <3>2 DEF Descends
      <3> QED BY <3>3, <3>4, HeldDescends
    <2>2. CASE \E code : handleAPIError(code)
      BY <1>7, <2>2
    <2> QED BY <1>9, <2>1, <2>2 DEF Upsert, buildUpsertRequest
  <1>10. CASE GetPipeline
    <2>1. readOnlyPipelineID(mem) = mem.st.id
      BY <1>2 DEF readOnlyPipelineID, OneNaming
    <2> DEFINE e == ReadOnlyStatus(mem, mem.st.id)
    <2>2. CASE Continue(e)
      <3>1. e.st.id = mem.st.id /\ e.st.name = mem.st.name
        BY <1>2 DEF ReadOnlyStatus, Pipeline, Status
      <3> HIDE DEF e
      <3> QED BY <1>3, <2>2, <3>1
    <2> QED BY <1>7, <1>10, <2>1, <2>2 DEF GetPipeline
  <1>11. CASE MigrateDryRun \/ FinalDelete \/ MigrateDelete
    BY <1>4, <1>6, <1>7, <1>8, <1>11 DEF MigrateDryRun, MigrateDelete, FinalDelete
  <1> QED BY <1>9, <1>10, <1>11

LEMMA WriteDescends ==
  ASSUME IInv, SInv, AddFinalizer \/ RemoveFinalizer \/ UpdateStatus,
         NEW j \in Keys, NEW v, (v \in Versions(j))'
  PROVE  v \in Versions(j) \/ Descends(j, v)
  <1>1. PICK o : /\ \E b, e : PipelineWrite(o, b, e)
                 /\ \/ pc = "addFinalizer" /\ o = mem
                    \/ pc = "updateStatus" /\ o = [obj[cur] EXCEPT !.st = mem.st]
                    \/ o = NoObject
    BY DEF AddFinalizer, RemoveFinalizer, UpdateStatus
  <1>2. CASE \E q : JustReturn(q)
    BY <1>2, HeldDescends DEF JustReturn, Return
  <1>3. CASE \E q : WriteAndReturn(o, q)
    <2>1. fresh /\ Store(cur, o) /\ cur' = "" /\ cache' = cache
      BY <1>3 DEF WriteAndReturn, Return
    <2>2. cur \in Keys /\ mem \in Pipeline /\ obj[cur] \in Pipeline /\ obj[cur] \in Versions(cur)
      BY <2>1, FreshVersions
    <2>3. o \in Version /\ (o.exists => Descends(cur, o))
      <3>1. CASE pc = "addFinalizer" /\ o = mem
        BY <2>1, <2>2, <3>1 DEF SInv, WorkerOK, Descends, Carries, Version
      <3>2. CASE pc = "updateStatus" /\ o = [obj[cur] EXCEPT !.st = mem.st]
        <4>1. o \in Pipeline /\ o.st = mem.st
          BY <2>2, <3>2, NumbersType, StatusType
        <4>2. mem \in Versions(cur)
          BY <3>2, CopyIsVersion
        <4> QED BY <4>1, <4>2 DEF Descends, Carries, Version
      <3>3. CASE o = NoObject
        BY <3>3, NoObjectType DEF Version
      <3> QED BY <1>1, <3>1, <3>2, <3>3
    <2> QED BY <2>1, <2>2, <2>3, StoredVersions DEF IInv
  <1> QED BY <1>1, <1>2, <1>3 DEF PipelineWrite, KubeWrite

\* No step, however stale what it acts on, mixes up the records of two Pipelines.
LEMMA NextDescends ==
  ASSUME IInv, SInv, OneNaming, [Next]_vars, NEW j \in Keys, NEW v, (v \in Versions(j))'
  PROVE  v \in Versions(j) \/ Descends(j, v)
  <1>1. CASE User
    BY <1>1, UserDescends
  <1>2. ASSUME NEW k \in Keys, Reconcile(k) PROVE v \in Versions(j) \/ Descends(j, v)
    BY <1>2, ReconcileDescends
  <1>3. ASSUME NEW k \in Keys, Inform(k) PROVE v \in Versions(j)
    BY <1>3, DeliveredVersions DEF Inform, IInv
  <1>4. CASE Worker
    BY <1>4, CallDescends, WriteDescends DEF Worker
  <1>5. CASE Restart
    BY <1>5, RelistedVersions DEF Restart
  <1>6. CASE UNCHANGED vars
    BY <1>6 DEF vars, kubeVars, Versions
  <1> QED BY <1>1, <1>2, <1>3, <1>4, <1>5, <1>6 DEF Next

\* Every Pipeline is in a namespace of its own and its names are scoped by it.
OwnNamespaces ==
  /\ Scopes \subseteq {"namespace"}
  /\ \A j, k \in Keys : Namespace[j] = Namespace[k] => j = k

\* A recorded name is in the namespace of its Pipeline; only the Pipeline that an
\* earlier release has synced may have an unscoped name, or none.
RecordedIn(old, k, v) ==
  v.st.id # NoId => v.st.name[1] = Namespace[k] \/ (k = old /\ v.st.name[1] = "")

RecordsApart == \E old \in Keys : \A k \in Keys : \A v \in Versions(k) : RecordedIn(old, k, v)

LEMMA NextRecordsApart ==
  ASSUME IInv, SInv, OneNaming, OwnNamespaces, RecordsApart, [Next]_vars
  PROVE  RecordsApart'
  <1>1. PICK old \in Keys : \A k \in Keys : \A v \in Versions(k) : RecordedIn(old, k, v)
    BY DEF RecordsApart
  <1>2. scope = "namespace"
    BY DEF SInv, OwnNamespaces
  <1>3. ASSUME NEW k \in Keys, NEW v, (v \in Versions(k))'
        PROVE  RecordedIn(old, k, v)
    <2>1. v \in Versions(k) \/ Descends(k, v)
      BY <1>3, NextDescends
    <2>2. OwnName(k, mem)[1] = Namespace[k]
      BY <1>2 DEF OwnName
    <2>3. ASSUME NEW u \in Versions(k), Carries(v, u) PROVE RecordedIn(old, k, v)
      <3>1. u.st.name = NoName => u.st.name[1] = "" /\ "" # Namespace[k]
        BY Unscoped, NamespaceAssumption
      <3> QED BY <1>1, <2>3, <3>1 DEF Carries, RecordedIn
    <2> QED BY <1>1, <2>1, <2>2, <2>3 DEF Descends, RecordedIn
  <1> QED BY <1>3 DEF RecordsApart, RecordedIn

LEMMA InitRecordsApart ==
  ASSUME Init, NEW j \in Keys
  PROVE  RecordsApart
  <1>1. ASSUME NEW stored, KubeInit(stored), NEW k \in Keys, NEW v \in Versions(k)
        PROVE  v = stored[k] /\ stored[k].exists
    <2>1. obj = stored /\ cache = stored /\ watch[k] = <<>> /\ cur = ""
      BY <1>1 DEF KubeInit
    <2> QED BY <2>1, EmptyFacts, KeysAssumption DEF Versions
  <1>2. CASE KubeInit([k \in Keys |-> NoObject])
    <2>1. \A k \in Keys : \A v \in Versions(k) : FALSE
      BY <1>1, <1>2, NoObjectType
    <2> QED BY <2>1 DEF RecordsApart
  <1>3. ASSUME NEW k \in Keys, NEW o, o.st.name = NoName,
               KubeInit([i \in Keys |-> IF i = k THEN o ELSE NoObject])
        PROVE  RecordsApart
    <2>1. \A i \in Keys : \A v \in Versions(i) : i = k /\ v = o
      BY <1>1, <1>3, NoObjectType
    <2>2. o.st.name[1] = ""
      BY <1>3, Unscoped
    <2> QED BY <2>1, <2>2 DEF RecordsApart, RecordedIn
  <1> QED BY <1>2, <1>3 DEF Init

LEMMA RecordsKeepNamesApart ==
  ASSUME IInv, SInv, OneNaming, OwnNamespaces, RecordsApart
  PROVE  NamesApart
  <1>1. PICK old \in Keys : \A k \in Keys : \A v \in Versions(k) : RecordedIn(old, k, v)
    BY DEF RecordsApart
  <1>2. scope = "namespace"
    BY DEF SInv, OwnNamespaces
  <1>3. ASSUME NEW k \in Keys, NEW v \in Versions(k), NEW n \in Names, Uses(k, v, n)
        PROVE  n[1] = Namespace[k] \/ (k = old /\ n[1] = "")
    <2>1. v \in Pipeline
      BY VersionsTyped DEF IInv
    <2>2. CASE ~IsReadOnly(v) /\ n = DesiredFleetName(k, v)
      <3>1. n = OwnName(k, v)
        BY <2>1, <2>2, DesiredIsOwn DEF SInv
      <3> QED BY <1>2, <3>1 DEF OwnName
    <2>3. CASE v.st.id # NoId /\ n = v.st.name
      BY <1>1, <2>3 DEF RecordedIn
    <2> QED BY <1>3, <2>2, <2>3 DEF Uses
  <1>4. ASSUME NEW j \in Keys, NEW k \in Keys, j # k, NEW u \in Versions(j), NEW v \in Versions(k),
               NEW n \in Names, Uses(j, u, n), Uses(k, v, n)
        PROVE  FALSE
    <2>1. Namespace[j] # Namespace[k] /\ Namespace[j] # "" /\ Namespace[k] # ""
      BY <1>4, NamespaceAssumption DEF OwnNamespaces
    <2> QED BY <1>3, <1>4, <2>1
  <1> QED BY <1>4 DEF NamesApart

\* Scoping names by namespace does what it is for: with one Pipeline to a namespace and
\* every name scoped, whatever names users pick, no two Pipelines ever use or remember
\* the same Fleet name.  One of them may come from a release without syncedName.
THEOREM NamespacesKeepNamesApart ==
  ASSUME OneNaming, OwnNamespaces, ~ExternalDeletes
  PROVE  Spec => []NamesApart
  <1> DEFINE Held == SInv /\ (Keys # {} => RecordsApart)
  <1>1. Init => Held
    <2>1. Init => scope = "namespace"
      BY DEF Init, OwnNamespaces
    <2>2. Init => SInv
      BY <2>1, InitSInv DEF NothingToGuess
    <2> QED BY <2>2, InitRecordsApart
  <1>2. IInv /\ Held => NamesApart
    BY RecordsKeepNamesApart DEF NamesApart
  <1>3. IInv /\ Held /\ [Next]_vars => Held'
    BY <1>2, NextSInv, NextRecordsApart
  <1>4. Spec => []Held
    BY <1>1, <1>3, Inductive, PTL DEF Spec
  <1> QED BY <1>2, <1>4, Inductive, PTL

\* So for such Pipelines nothing is left to assume of the behaviour: a Synced status is
\* true at every moment, and what migratePipelineName deletes it can rebuild.
THEOREM NamespacedSyncIsTrue ==
  ASSUME OneNaming, OwnNamespaces, ~ExternalDeletes
  PROVE  Spec => []SyncedMeansApplied /\ NeverDeleteUnrebuildable
  <1>1. Spec => []NamesApart
    BY NamespacesKeepNamesApart
  <1>2. Spec => NothingToGuess
    BY DEF Spec, Init, OwnNamespaces, NothingToGuess
  <1>3. Spec /\ NothingToGuess /\ []NamesApart => []SyncedMeansApplied
    BY SyncedIsApplied
  <1>4. Spec /\ NothingToGuess /\ []NamesApart => NeverDeleteUnrebuildable
    BY DeletedIsRebuildable
  <1> QED BY <1>1, <1>2, <1>3, <1>4, PTL

-----------------------------------------------------------------------------
(* Discoveries beside the Pipeline reconciler.  The Pipelines are those    *)
(* that a discovery has created and users have edited since.               *)

ReadOnlyOnly == \A s \in DSpecs : s.mode = "ReadOnly"

\* What spec.readOnly of an imported Pipeline may be.
Flags == IF ReadOnlyOnly THEN {TRUE} ELSE BOOLEAN

CRSpec == [contents : Contents, base : Bases, grafana : BOOLEAN, paused : BOOLEAN]

CRAnnots == [scope : {""}, id : Nat, readOnly : Flags, by : Discoveries, stale : BOOLEAN]

CR == [exists : {TRUE}, spec : CRSpec, ann : CRAnnots, gen : Nat,
       fin : BOOLEAN, del : BOOLEAN, st : Status]

CRVersion == CR \cup {NoObject}

\* The Pipeline reconciler: with read-only imports it only ever looks at Fleet.
PTyped ==
  /\ obj \in [Keys -> CRVersion]
  /\ cache \in [Keys -> CRVersion]
  /\ watch \in [Keys -> Seq(CRVersion)]
  /\ pc \in Steps
  /\ \/ pc = "idle" /\ cur = ""
     \/ pc # "idle" /\ cur \in Keys /\ mem \in CR
  /\ fleet \in [Names -> FleetPipeline \cup {Vacant}] /\ nextId \in Nat \ {NoId}
  /\ ReadOnlyOnly => pc \in {"idle", "addFinalizer", "get", "updateStatus", "removeFinalizer"}

\* What a poll has gathered.
PollRecord ==
  [todo : SUBSET Listing, current : SUBSET Nat, conflicts : SUBSET Bases,
   items : [Keys -> CRVersion], managed : SUBSET Keys, stale : SUBSET Bases]

PollTyped == poll \in PollRecord

\* The discovery.
DVersion == Discovery \cup {NoObject}

DTyped ==
  /\ dobj \in [Discoveries -> DVersion]
  /\ dcache \in [Discoveries -> DVersion]
  /\ dwatch \in [Discoveries -> Seq(DVersion)]
  /\ dqueue \subseteq Discoveries /\ later \subseteq Discoveries
  /\ dfresh \in BOOLEAN
  /\ \/ dpc = "idle" /\ dcur = "" /\ dmem = NoObject
     \/ dpc \in DSteps \ {"idle"} /\ dcur \in Discoveries /\ dmem \in Discovery
  /\ recent \in [Discoveries -> BOOLEAN]

ItemsAreStale == \A k \in Keys : poll.items[k].exists => dpc = "stale"

ImportInv == PTyped /\ PollTyped /\ DTyped /\ ItemsAreStale

-----------------------------------------------------------------------------
(* The Pipeline reconciler on imported Pipelines.                          *)

LEMMA CRVersionType ==
  ASSUME NEW o \in CRVersion
  PROVE  o.exists <=> o \in CR
  <1>1. o \in CR => o.exists
    BY DEF CR
  <1>2. o = NoObject => ~o.exists
    BY DEF NoObject
  <1> QED BY <1>1, <1>2 DEF CRVersion

LEMMA NoObjectVersion == NoObject \in CRVersion /\ ~NoObject.exists
  BY DEF CRVersion, NoObject

LEMMA CRFacts ==
  ASSUME NEW o \in CR
  PROVE  /\ o.spec.contents \in Contents /\ o.spec.base \in Bases
         /\ o.ann.id \in Nat /\ o.st.id \in Nat /\ o.gen \in Nat /\ o.st \in Status
         /\ ReadOnlyOnly => IsReadOnly(o)
  <1>1. /\ o.spec.contents \in Contents /\ o.spec.base \in Bases
        /\ o.ann.id \in Nat /\ o.st.id \in Nat /\ o.gen \in Nat /\ o.st \in Status
    BY DEF CR, CRSpec, CRAnnots, Status
  <1>2. o.ann.readOnly \in Flags
    BY DEF CR, CRAnnots
  <1> QED BY <1>1, <1>2 DEF Flags, IsReadOnly

LEMMA CRNames ==
  ASSUME NEW k \in Keys, NEW o \in CR
  PROVE  DesiredFleetName(k, o) \in Names /\ <<"", o.spec.base>> \in Names
  BY CRFacts DEF DesiredFleetName, Names

LEMMA CRStatus ==
  ASSUME NEW o \in CR, NEW st \in Status
  PROVE  [o EXCEPT !.st = st] \in CR
  BY DEF CR

\* An edit of the spec, or a deletion that a finalizer holds up.
LEMMA CREdited ==
  ASSUME NEW o \in CR
  PROVE  /\ \A s \in CRSpec : [o EXCEPT !.spec = s, !.gen = @ + 1] \in CR
         /\ [o EXCEPT !.del = TRUE, !.gen = @ + 1] \in CR
  <1>1. o.gen + 1 \in Nat
    BY CRFacts
  <1>2. ASSUME NEW s \in CRSpec, NEW g \in Nat
        PROVE  [o EXCEPT !.spec = s, !.gen = g] \in CR /\ [o EXCEPT !.del = TRUE, !.gen = g] \in CR
    BY DEF CR
  <1>3. o.spec \in CRSpec
    BY DEF CR
  <1> QED BY <1>1, <1>2, <1>3

\* The statuses the reconciler writes, on an imported Pipeline.
LEMMA CRStatuses ==
  ASSUME NEW o \in CR
  PROVE  /\ backfillSyncedName(o) \in CR
         /\ [o EXCEPT !.st.id = NoId] \in CR
         /\ \A id \in Nat, n \in Names : SyncedStatus(o, id, n) \in CR
         /\ \A id \in Nat : ReadOnlyStatus(o, id) \in CR
         /\ \A r \in Reasons, b \in BOOLEAN : ErrorStatus(o, r, b) \in CR
  <1>1. o.st \in Status /\ o.gen \in Nat /\ <<"", o.spec.base>> \in Names \cup {NoName}
    BY CRFacts DEF Names
  <1>2. ASSUME NEW n \in Names PROVE [o.st EXCEPT !.name = n] \in Status
    BY <1>1 DEF Status
  <1>3. backfillSyncedName(o) \in CR
    <2>1. <<"", o.spec.base>> \in Names
      BY CRFacts DEF Names
    <2> QED BY <1>2, <2>1, CRStatus DEF backfillSyncedName
  <1>4. [o EXCEPT !.st.id = NoId] \in CR
    <2>1. [o.st EXCEPT !.id = NoId] \in Status
      BY <1>1 DEF Status, NoId
    <2> QED BY <2>1, CRStatus
  <1>5. ASSUME NEW id \in Nat, NEW n \in Names PROVE SyncedStatus(o, id, n) \in CR
    <2>1. [id |-> id, name |-> n, og |-> o.gen, ready |-> "True", reason |-> "Synced"] \in Status
      BY <1>1 DEF Status, Reasons
    <2> QED BY <2>1, CRStatus DEF SyncedStatus
  <1>6. ASSUME NEW id \in Nat PROVE ReadOnlyStatus(o, id) \in CR
    BY DEF ReadOnlyStatus, CR, Status, Reasons
  <1>7. ASSUME NEW r \in Reasons, NEW b \in BOOLEAN PROVE ErrorStatus(o, r, b) \in CR
    BY DEF ErrorStatus, CR, Status
  <1> QED BY <1>3, <1>4, <1>5, <1>6, <1>7

\* Storing a version, or handing one on, keeps the types.
LEMMA CRStore ==
  ASSUME PTyped, NEW k \in Keys, NEW o \in CRVersion, Store(k, o)
  PROVE  obj' \in [Keys -> CRVersion] /\ watch' \in [Keys -> Seq(CRVersion)]
  <1>1. obj \in [Keys -> CRVersion] /\ watch \in [Keys -> Seq(CRVersion)]
    BY DEF PTyped
  <1>2. CASE UNCHANGED <<obj, watch>>
    BY <1>1, <1>2
  <1>3. CASE obj' = [obj EXCEPT ![k] = o] /\ watch' = [watch EXCEPT ![k] = Append(@, o)]
    <2>1. Append(watch[k], o) \in Seq(CRVersion)
      BY <1>1, AppendFacts
    <2> QED BY <1>1, <1>3, <2>1
  <1> QED BY <1>2, <1>3 DEF Store

LEMMA CRUserWrite ==
  ASSUME PTyped, NEW k \in Keys, NEW o \in CRVersion, UserWrite(k, o) \/ UNCHANGED kubeVars,
         UNCHANGED <<pc, fleet, nextId>>
  PROVE  PTyped'
  <1>1. /\ obj' \in [Keys -> CRVersion] /\ watch' \in [Keys -> Seq(CRVersion)]
        /\ UNCHANGED <<cache, cur, mem>>
    BY CRStore DEF UserWrite, kubeVars, PTyped
  <1> QED BY <1>1 DEF PTyped

LEMMA CRInform ==
  ASSUME PTyped, NEW k \in Keys, Inform(k)
  PROVE  PTyped'
  <1>1. /\ cache' = [cache EXCEPT ![k] = Head(watch[k])]
        /\ watch' = [watch EXCEPT ![k] = Tail(@)] /\ watch[k] # <<>>
        /\ UNCHANGED <<obj, cur, mem, pc, fleet, nextId>>
    BY DEF Inform, Deliver, NoEffect
  <1>2. watch[k] \in Seq(CRVersion)
    BY DEF PTyped
  <1>3. Head(watch[k]) \in CRVersion /\ Tail(watch[k]) \in Seq(CRVersion)
    BY <1>1, <1>2, TailFacts
  <1> QED BY <1>1, <1>3 DEF PTyped

\* The worker takes a copy or changes it, and goes on to step.
LEMMA CRHeld ==
  ASSUME PTyped, UNCHANGED <<obj, watch, cache>>, cur' \in Keys, mem' \in CR, pc' \in Steps \ {"idle"},
         fleet' \in [Names -> FleetPipeline \cup {Vacant}], nextId' \in Nat \ {NoId},
         ReadOnlyOnly => pc' \in {"addFinalizer", "get", "updateStatus", "removeFinalizer"}
  PROVE  PTyped'
  BY DEF PTyped

LEMMA CRReturn ==
  ASSUME PTyped, NEW b, JustReturn(b), pc' = "idle",
         fleet' \in [Names -> FleetPipeline \cup {Vacant}], nextId' \in Nat \ {NoId}
  PROVE  PTyped'
  BY DEF PTyped, JustReturn, Return, Steps

LEMMA CRReconcile ==
  ASSUME PTyped, NEW k \in Keys, Reconcile(k)
  PROVE  PTyped'
  <1> DEFINE c == cache[k]
             o == backfillSyncedName(c)
  <1>1. /\ UNCHANGED <<obj, watch, cache, fleet, nextId>>
        /\ fleet' \in [Names -> FleetPipeline \cup {Vacant}] /\ nextId' \in Nat \ {NoId}
    BY DEF Reconcile, ReconcileNothing, ReconcileFinalizer, ReconcileReadOnly, ReconcileNormal,
       ReconcileDelete, Fetch, FetchAndReturn, NoEffect, PTyped
  <1>2. ASSUME c.exists
        PROVE  /\ c \in CR /\ o \in CR /\ ErrorStatus(o, "ValidationError", FALSE) \in CR
               /\ ReadOnlyOnly => IsReadOnly(c) /\ IsReadOnly(o)
    <2>1. c \in CR
      BY <1>2, CRVersionType DEF PTyped
    <2>2. o \in CR
      BY <2>1, CRStatuses
    <2> HIDE DEF o
    <2>3. ErrorStatus(o, "ValidationError", FALSE) \in CR
      BY <2>2, CRStatuses DEF Reasons
    <2> QED BY <2>1, <2>2, <2>3, CRFacts
  <1>3. CASE ReconcileNothing(k)
    <2>1. UNCHANGED <<cur, mem, pc>>
      BY <1>3 DEF ReconcileNothing, FetchAndReturn
    <2> QED BY <1>1, <2>1 DEF PTyped
  <1>4. CASE ReconcileFinalizer(k)
    <2>1. c.exists /\ cur' = k /\ mem' = [c EXCEPT !.fin = TRUE] /\ pc' = "addFinalizer"
      BY <1>4 DEF ReconcileFinalizer, Fetch
    <2>2. mem' \in CR
      BY <1>2, <2>1 DEF CR
    <2> QED BY <1>1, <2>1, <2>2, CRHeld DEF Steps
  <1>5. CASE ReconcileReadOnly(k)
    <2>1. /\ c.exists /\ cur' = k /\ pc' \in {"get", "updateStatus"}
          /\ mem' = o \/ mem' = ErrorStatus(o, "ValidationError", FALSE)
      BY <1>5 DEF ReconcileReadOnly, ToSync, Fetch
    <2>2. mem' \in CR
      BY <1>2, <2>1
    <2> QED BY <1>1, <2>1, <2>2, CRHeld DEF Steps
  <1>6. CASE ReconcileNormal(k)
    <2>1. /\ c.exists /\ cur' = k /\ mem' = o /\ ~IsReadOnly(o) /\ pc' \in {"dryRun", "upsert"}
      BY <1>6 DEF ReconcileNormal, ToSync, Fetch
    <2>2. ~ReadOnlyOnly /\ mem' \in CR
      BY <1>2, <2>1
    <2> QED BY <1>1, <2>1, <2>2, CRHeld DEF Steps
  <1>7. CASE ReconcileDelete(k)
    <2>1. /\ c.exists /\ cur' = k /\ mem' = c /\ pc' \in {"removeFinalizer", "finalDelete"}
          /\ IsReadOnly(c) => pc' = "removeFinalizer"
      BY <1>7 DEF ReconcileDelete, Fetch
    <2>2. mem' \in CR /\ (ReadOnlyOnly => pc' = "removeFinalizer")
      BY <1>2, <2>1
    <2> QED BY <1>1, <2>1, <2>2, CRHeld DEF Steps
  <1> QED BY <1>3, <1>4, <1>5, <1>6, <1>7 DEF Reconcile

FleetOK == fleet \in [Names -> FleetPipeline \cup {Vacant}] /\ nextId \in Nat \ {NoId}

\* What Fleet may do, during a call of the worker and by itself, keeps its type.
LEMMA FleetMoves ==
  ASSUME FleetOK, NEW n \in Names, NEW c \in Contents, NEW id,
         NoEffect \/ UpsertEffect(n, c) \/ DeleteEffect(id)
  PROVE  FleetOK'
  <1>1. \A m \in Names : fleet[m].id \in Nat
    BY DEF FleetOK, FleetPipeline, Vacant, NoId
  <1>2. CASE UpsertEffect(n, c)
    <2>1. [id |-> IF fleet[n].id = NoId THEN nextId ELSE fleet[n].id, contents |-> c]
             \in FleetPipeline
      BY <1>1 DEF FleetOK, FleetPipeline
    <2>2. nextId' \in Nat \ {NoId}
      BY <1>2 DEF UpsertEffect, FleetOK, NoId
    <2> QED BY <1>2, <2>1, <2>2 DEF UpsertEffect, Upserted, FleetOK
  <1>3. CASE DeleteEffect(id)
    BY <1>3 DEF DeleteEffect, Removed, FleetOK
  <1>4. CASE NoEffect
    BY <1>4 DEF NoEffect, FleetOK
  <1> QED BY <1>2, <1>3, <1>4

LEMMA CRErrorPath ==
  ASSUME PTyped, pc # "idle", FleetOK', NEW reason \in Reasons, NEW b \in BOOLEAN,
         updateStatusError(reason, b)
  PROVE  PTyped'
  <1>1. cur \in Keys /\ mem \in CR
    BY DEF PTyped
  <1>2. mem' = ErrorStatus(mem, reason, b) /\ pc' = "updateStatus" /\ UNCHANGED <<obj, watch, cache, cur>>
    BY DEF updateStatusError, Continue
  <1>3. mem' \in CR
    BY <1>1, <1>2, CRStatuses
  <1> QED BY <1>1, <1>2, <1>3, CRHeld DEF Steps, FleetOK

LEMMA CRHandle ==
  ASSUME PTyped, pc \in {"dryRun", "migrateDelete", "upsert"}, FleetOK', NEW code,
         handleAPIError(code)
  PROVE  PTyped'
  <1>1. CASE updateStatusError("ValidationError", FALSE)
    BY <1>1, CRErrorPath DEF Reasons
  <1>2. CASE RequeueAfter
    BY <1>2, CRReturn DEF RequeueAfter, FleetOK
  <1>3. CASE updateStatusError("SyncFailed", shouldRetry(code, "SyncFailed"))
    BY <1>3, CRErrorPath DEF Reasons, shouldRetry
  <1>4. CASE Continue([mem EXCEPT !.st.id = NoId]) /\ pc' = "upsert"
    <2>1. cur \in Keys /\ mem \in CR /\ ~ReadOnlyOnly
      BY DEF PTyped
    <2>2. mem' = [mem EXCEPT !.st.id = NoId] /\ UNCHANGED <<obj, watch, cache, cur>>
      BY <1>4 DEF Continue
    <2>3. mem' \in CR
      BY <2>1, <2>2, CRStatuses
    <2> QED BY <1>4, <2>1, <2>2, <2>3, CRHeld DEF Steps, FleetOK
  <1> QED BY <1>1, <1>2, <1>3, <1>4 DEF handleAPIError

LEMMA CRHandleReadOnly ==
  ASSUME PTyped, pc = "get", FleetOK', NEW code, handleReadOnlyAPIError(code)
  PROVE  PTyped'
  <1>1. CASE updateStatusError("ValidationError", FALSE)
    BY <1>1, CRErrorPath DEF Reasons
  <1>2. CASE RequeueAfter
    BY <1>2, CRReturn DEF RequeueAfter, FleetOK
  <1>3. CASE updateStatusError("ReadOnly", shouldRetry(code, "ReadOnly"))
    BY <1>3, CRErrorPath DEF Reasons, shouldRetry
  <1> QED BY <1>1, <1>2, <1>3 DEF handleReadOnlyAPIError

\* The calls that write to Fleet.
LEMMA CRFleetCalls ==
  ASSUME PTyped, MigrateDryRun \/ MigrateDelete \/ Upsert \/ FinalDelete
  PROVE  PTyped' /\ ~ReadOnlyOnly
  <1> DEFINE n == DesiredFleetName(cur, mem)
             c == mem.spec.contents
  <1>1. pc \in {"dryRun", "migrateDelete", "upsert", "finalDelete"}
    BY DEF MigrateDryRun, MigrateDelete, Upsert, FinalDelete
  <1>2. /\ ~ReadOnlyOnly /\ cur \in Keys /\ mem \in CR /\ n \in Names /\ c \in Contents
        /\ mem.st.id \in Nat
    BY <1>1, CRNames, CRFacts DEF PTyped
  <1>3. FleetOK /\ FleetOK'
    <2>1. FleetOK
      BY DEF PTyped, FleetOK
    <2>2. NoEffect \/ UpsertEffect(n, c) \/ DeleteEffect(mem.st.id)
      BY DEF MigrateDryRun, MigrateDelete, Upsert, FinalDelete, buildUpsertRequest
    <2> QED BY <1>2, <2>1, <2>2, FleetMoves
  <1>4. ASSUME NEW o \in CR, Continue(o), pc' \in Steps \ {"idle"}
        PROVE  PTyped'
    BY <1>2, <1>3, <1>4, CRHeld DEF Continue, FleetOK
  <1>5. CASE MigrateDryRun
    <2>1. CASE Continue(mem) /\ pc' = "migrateDelete"
      BY <1>2, <1>4, <2>1 DEF Steps
    <2>2. CASE \E code : handleAPIError(code)
      BY <1>2, <1>3, <1>5, <2>2, CRHandle DEF MigrateDryRun
    <2> QED BY <1>5, <2>1, <2>2 DEF MigrateDryRun
  <1>6. CASE MigrateDelete
    <2>1. CASE Continue([mem EXCEPT !.st.id = NoId]) /\ pc' = "upsert"
      BY <1>2, <1>4, <2>1, CRStatuses DEF Steps
    <2>2. CASE \E code : handleAPIError(code)
      BY <1>2, <1>3, <1>6, <2>2, CRHandle DEF MigrateDelete
    <2> QED BY <1>6, <2>1, <2>2 DEF MigrateDelete
  <1>7. CASE Upsert
    <2>1. CASE Continue(SyncedStatus(mem, Upserted(n, c)[n].id, n)) /\ pc' = "updateStatus"
      <3>1. Upserted(n, c)[n].id = IF fleet[n].id = NoId THEN nextId ELSE fleet[n].id
        BY <1>2, <1>3 DEF Upserted, FleetOK
      <3>2. Upserted(n, c)[n].id \in Nat
        <4>1. fleet[n] \in FleetPipeline \cup {Vacant} /\ nextId \in Nat
          BY <1>2, <1>3 DEF FleetOK
        <4> QED BY <3>1, <4>1 DEF FleetPipeline, Vacant, NoId
      <3>3. SyncedStatus(mem, Upserted(n, c)[n].id, n) \in CR
        BY <1>2, <3>2, CRStatuses
      <3> QED BY <1>2, <1>4, <2>1, <3>3 DEF Steps
    <2>2. CASE \E code : handleAPIError(code)
      BY <1>2, <1>3, <1>7, <2>2, CRHandle DEF Upsert
    <2> QED BY <1>7, <2>1, <2>2 DEF Upsert, buildUpsertRequest
  <1>8. CASE FinalDelete
    <2>1. CASE Continue(mem) /\ pc' = "removeFinalizer"
      BY <1>2, <1>4, <2>1 DEF Steps
    <2>2. CASE \E code : updateStatusError("DeleteFailed", shouldRetry(code, "DeleteFailed"))
      BY <1>1, <1>2, <1>3, <2>2, CRErrorPath DEF Reasons, shouldRetry
    <2> QED BY <1>8, <2>1, <2>2 DEF FinalDelete
  <1> QED BY <1>2, <1>5, <1>6, <1>7, <1>8

LEMMA CRGet ==
  ASSUME PTyped, GetPipeline
  PROVE  PTyped' /\ UNCHANGED fleet
  <1>1. pc = "get" /\ UNCHANGED <<fleet, nextId>>
    BY DEF GetPipeline, NoEffect
  <1>2. cur \in Keys /\ mem \in CR /\ FleetOK'
    BY <1>1 DEF PTyped, FleetOK
  <1>3. CASE Continue(ReadOnlyStatus(mem, readOnlyPipelineID(mem))) /\ pc' = "updateStatus"
    <2>1. readOnlyPipelineID(mem) \in Nat
      BY <1>2, CRFacts DEF readOnlyPipelineID
    <2>2. mem' \in CR /\ UNCHANGED <<obj, watch, cache, cur>>
      BY <1>2, <1>3, <2>1, CRStatuses DEF Continue
    <2> QED BY <1>1, <1>2, <1>3, <2>2, CRHeld DEF Steps, FleetOK
  <1>4. CASE \E code : handleReadOnlyAPIError(code)
    BY <1>1, <1>2, <1>4, CRHandleReadOnly
  <1> QED BY <1>1, <1>3, <1>4 DEF GetPipeline

\* The writes to the API server.
LEMMA CRWrites ==
  ASSUME PTyped, AddFinalizer \/ RemoveFinalizer \/ UpdateStatus
  PROVE  PTyped' /\ UNCHANGED fleet
  <1>1. pc # "idle"
    BY DEF AddFinalizer, RemoveFinalizer, UpdateStatus
  <1>2. cur \in Keys /\ mem \in CR /\ obj[cur] \in CRVersion
    BY <1>1 DEF PTyped
  <1>3. [obj[cur] EXCEPT !.st = mem.st] \in CRVersion
    <2>1. CASE obj[cur] \in CR
      <3>1. mem.st \in Status
        BY <1>2, CRFacts
      <3> QED BY <2>1, <3>1, CRStatus DEF CRVersion
    <2>2. CASE obj[cur] = NoObject
      <3>1. [NoObject EXCEPT !.st = mem.st] = NoObject
        BY DEF NoObject
      <3> QED BY <2>2, <3>1, NoObjectVersion
    <2> QED BY <1>2, <2>1, <2>2 DEF CRVersion
  <1>4. PICK o \in CRVersion : \E b, e : PipelineWrite(o, b, e)
    BY <1>2, <1>3, NoObjectVersion DEF AddFinalizer, RemoveFinalizer, UpdateStatus, CRVersion
  <1>5. pc' = "idle" /\ UNCHANGED <<fleet, nextId>>
    BY <1>4 DEF PipelineWrite, KubeWrite, NoEffect
  <1>6. CASE \E q : JustReturn(q)
    BY <1>5, <1>6, CRReturn DEF PTyped
  <1>7. CASE \E q : WriteAndReturn(o, q)
    <2>1. Store(cur, o) /\ UNCHANGED cache /\ cur' = ""
      BY <1>7 DEF WriteAndReturn, Return
    <2>2. obj' \in [Keys -> CRVersion] /\ watch' \in [Keys -> Seq(CRVersion)]
      BY <1>2, <2>1, CRStore
    <2> QED BY <1>5, <2>1, <2>2 DEF PTyped, Steps
  <1> QED BY <1>4, <1>5, <1>6, <1>7 DEF PipelineWrite, KubeWrite

LEMMA CRWorker ==
  ASSUME PTyped, Worker
  PROVE  PTyped' /\ (ReadOnlyOnly => UNCHANGED fleet)
  BY CRFleetCalls, CRGet, CRWrites DEF Worker

-----------------------------------------------------------------------------
(* The discovery.                                                          *)

LEMMA DVersionType ==
  ASSUME NEW o \in DVersion
  PROVE  o.exists <=> o \in Discovery
  <1>1. o \in Discovery => o.exists
    BY DEF Discovery
  <1>2. o = NoObject => ~o.exists
    BY DEF NoObject
  <1> QED BY <1>1, <1>2 DEF DVersion

LEMMA NoPollType ==
  /\ NoPoll \in PollRecord
  /\ NoPoll.todo = {} /\ \A k \in Keys : ~NoPoll.items[k].exists
  <1>1. NoItems \in [Keys -> CRVersion] /\ \A k \in Keys : ~NoItems[k].exists
    BY NoObjectVersion DEF NoItems
  <1>2. NoPoll.items = NoItems /\ NoPoll.todo = {}
    BY DEF NoPoll
  <1>3. NoPoll \in PollRecord
    BY <1>1 DEF NoPoll, PollRecord
  <1> QED BY <1>1, <1>2, <1>3

LEMMA DStatusTypes ==
  ASSUME NEW o \in Discovery
  PROVE  /\ \A r \in DReasons : DErrorStatus(o, r) \in Discovery
         /\ \A p \in PollRecord : DSuccessStatus(o, p).st \in DStatus
         /\ o.st \in DStatus /\ o.spec \in DSpecs
         /\ \A st \in DStatus : [o EXCEPT !.st = st] \in Discovery
  <1>1. o.st \in DStatus /\ o.gen \in Nat /\ o.spec \in DSpecs
    BY DEF Discovery
  <1>2. ASSUME NEW st \in DStatus PROVE [o EXCEPT !.st = st] \in Discovery
    BY DEF Discovery
  <1>3. \A s : Later(s) \in 0..2
    BY DEF Later
  <1>4. ASSUME NEW r \in DReasons PROVE DErrorStatus(o, r) \in Discovery
    BY <1>1, <1>3 DEF DErrorStatus, Discovery, DStatus
  <1>5. ASSUME NEW p \in PollRecord PROVE DSuccessStatus(o, p).st \in DStatus
    <2> DEFINE st == [og |-> o.gen, sync |-> Later(o.st.sync), ready |-> "True",
                      reason |-> "Synced", managed |-> p.managed, stale |-> p.stale,
                      conflicts |-> p.conflicts]
    <2>1. st \in DStatus
      BY <1>1, <1>3 DEF DStatus, DReasons, PollRecord
    <2>2. DSuccessStatus(o, p).st = st
      BY DEF DSuccessStatus, Discovery
    <2> QED BY <2>1, <2>2
  <1> QED BY <1>1, <1>2, <1>4, <1>5

LEMMA DEdited ==
  ASSUME NEW o \in Discovery, NEW s \in DSpecs
  PROVE  [o EXCEPT !.spec = s, !.gen = @ + 1] \in Discovery
  <1>1. o.gen \in Nat
    BY DEF Discovery
  <1>2. o.gen + 1 \in Nat
    BY <1>1
  <1>3. ASSUME NEW g \in Nat PROVE [o EXCEPT !.spec = s, !.gen = g] \in Discovery
    BY DEF Discovery
  <1> QED BY <1>2, <1>3

LEMMA DStore ==
  ASSUME DTyped, NEW d \in Discoveries, NEW o \in DVersion, D!Store(d, o)
  PROVE  dobj' \in [Discoveries -> DVersion] /\ dwatch' \in [Discoveries -> Seq(DVersion)]
  <1>1. dobj \in [Discoveries -> DVersion] /\ dwatch \in [Discoveries -> Seq(DVersion)]
    BY DEF DTyped
  <1>2. CASE UNCHANGED <<dobj, dwatch>>
    BY <1>1, <1>2
  <1>3. CASE dobj' = [dobj EXCEPT ![d] = o] /\ dwatch' = [dwatch EXCEPT ![d] = Append(@, o)]
    <2>1. Append(dwatch[d], o) \in Seq(DVersion)
      BY <1>1, AppendFacts
    <2> QED BY <1>1, <1>3, <2>1
  <1> QED BY <1>2, <1>3 DEF D!Store

LEMMA DUserWrite ==
  ASSUME DTyped, NEW d \in Discoveries, NEW o \in DVersion, D!UserWrite(d, o),
         UNCHANGED <<dpc, recent, later>>
  PROVE  DTyped'
  <1>1. /\ dobj' \in [Discoveries -> DVersion] /\ dwatch' \in [Discoveries -> Seq(DVersion)]
        /\ UNCHANGED <<dcache, dqueue, dcur, dmem>> /\ dfresh' = (dfresh /\ dcur # d)
    BY DStore DEF D!UserWrite
  <1>2. dfresh' \in BOOLEAN
    BY <1>1 DEF DTyped
  <1> QED BY <1>1, <1>2 DEF DTyped

\* The worker of the discovery goes on with what it has gathered, or with an error.
LEMMA DGoOn ==
  ASSUME DTyped, dpc # "idle", UNCHANGED <<recent, later>>,
         NEW p \in PollRecord, NEW step \in DSteps \ {"idle"}, GoOn(p, step),
         \A k \in Keys : p.items[k].exists => step = "stale"
  PROVE  DTyped' /\ PollTyped' /\ ItemsAreStale'
  <1>1. poll' = p /\ dpc' = step /\ UNCHANGED dKube
    BY DEF GoOn, D!Continue, dKube
  <1>2. DTyped'
    BY <1>1 DEF DTyped, dKube
  <1>3. PollTyped' /\ ItemsAreStale'
    BY <1>1 DEF PollTyped, ItemsAreStale
  <1> QED BY <1>2, <1>3

LEMMA DFail ==
  ASSUME DTyped, dpc # "idle", UNCHANGED <<recent, later>>, NEW reason \in DReasons, Fail(reason)
  PROVE  DTyped' /\ PollTyped' /\ ItemsAreStale'
  <1>1. /\ poll' = NoPoll /\ dpc' = "updateStatus" /\ dmem' = DErrorStatus(dmem, reason)
        /\ UNCHANGED <<dobj, dwatch, dcache, dqueue, dcur, dfresh>>
    BY DEF Fail, D!Continue
  <1>2. dmem' \in Discovery
    BY <1>1, DStatusTypes DEF DTyped
  <1>3. DTyped'
    BY <1>1, <1>2 DEF DTyped, DSteps
  <1>4. PollTyped' /\ ItemsAreStale'
    BY <1>1, NoPollType DEF PollTyped, ItemsAreStale
  <1> QED BY <1>3, <1>4

\* The worker returns, with or without having written its object.
LEMMA DReturn ==
  ASSUME DTyped, NEW b, dpc # "idle", NEW o \in DVersion,
         D!JustReturn(b) \/ D!WriteAndReturn(o, b), dpc' = "idle",
         recent' \in [Discoveries -> BOOLEAN], later' \subseteq Discoveries
  PROVE  DTyped'
  <1>0. dcur \in Discoveries
    BY DEF DTyped
  <1>1. /\ dqueue' \subseteq Discoveries /\ dcur' = "" /\ dmem' = NoObject /\ dfresh' = FALSE
        /\ UNCHANGED dcache
    BY <1>0 DEF D!JustReturn, D!WriteAndReturn, D!Return, D!NoObject, NoObject, DTyped
  <1>2. dobj' \in [Discoveries -> DVersion] /\ dwatch' \in [Discoveries -> Seq(DVersion)]
    <2>1. CASE D!JustReturn(b)
      BY <2>1 DEF D!JustReturn, DTyped
    <2>2. CASE D!WriteAndReturn(o, b)
      BY <1>0, <2>2, DStore DEF D!WriteAndReturn
    <2> QED BY <2>1, <2>2
  <1> QED BY <1>1, <1>2 DEF DTyped

LEMMA DFetch ==
  ASSUME DTyped, PollTyped, ItemsAreStale, NEW d \in Discoveries, NEW o \in Discovery, D!Fetch(d, o),
         dpc' \in DSteps \ {"idle"}, UNCHANGED <<poll, recent, later>>
  PROVE  DTyped' /\ PollTyped' /\ ItemsAreStale'
  <1>1. /\ dcur = "" /\ dcur' = d /\ dmem' = o /\ dqueue' = dqueue \ {d}
        /\ dfresh' = (dwatch[d] = <<>>) /\ UNCHANGED <<dobj, dwatch, dcache>>
    BY DEF D!Fetch
  <1>2. dpc = "idle"
    BY <1>1, PipelineDiscoveryAssumption DEF DTyped
  <1>3. dfresh' \in BOOLEAN
    BY <1>1
  <1>4. DTyped'
    BY <1>1, <1>3 DEF DTyped
  <1>5. PollTyped' /\ ItemsAreStale'
    BY <1>2 DEF PollTyped, ItemsAreStale
  <1> QED BY <1>4, <1>5

LEMMA DReconcileInv ==
  ASSUME ImportInv, NEW d \in Discoveries, DReconcile(d)
  PROVE  ImportInv' /\ UNCHANGED fleet
  <1>1. UNCHANGED <<kubeVars, pc, fleet, nextId, poll, recent>>
    BY DEF DReconcile, DReconcileNothing, DReconcileInvalid, DReconcileSkip, DReconcilePoll,
       NotPipelines, DiscoveryOnly, NoEffect
  <1>2. PTyped'
    BY <1>1 DEF ImportInv, PTyped, kubeVars
  <1>3. ASSUME dcache[d].exists
        PROVE  dcache[d] \in Discovery /\ DErrorStatus(dcache[d], "InvalidConfig") \in Discovery
    <2>1. dcache[d] \in Discovery
      BY <1>3, DVersionType DEF ImportInv, DTyped
    <2> QED BY <2>1, DStatusTypes DEF DReasons
  <1>4. CASE DReconcileNothing(d) \/ DReconcileSkip(d)
    <2>1. /\ dqueue' = dqueue \ {d} /\ UNCHANGED <<dobj, dwatch, dcache, dcur, dmem, dfresh, dpc>>
          /\ later' \in {later, later \cup {d}}
      BY <1>4 DEF DReconcileNothing, DReconcileSkip, D!FetchAndReturn
    <2>2. DTyped'
      BY <1>1, <2>1 DEF ImportInv, DTyped
    <2> QED BY <1>1, <1>2, <2>1, <2>2 DEF ImportInv, PollTyped, ItemsAreStale
  <1>5. CASE DReconcileInvalid(d)
    <2>1. /\ dcache[d].exists /\ D!Fetch(d, DErrorStatus(dcache[d], "InvalidConfig"))
          /\ dpc' = "updateStatus" /\ UNCHANGED later
      BY <1>5 DEF DReconcileInvalid
    <2> QED BY <1>1, <1>2, <1>3, <2>1, DFetch DEF ImportInv, DSteps
  <1>6. CASE DReconcilePoll(d)
    <2>1. dcache[d].exists /\ D!Fetch(d, dcache[d]) /\ dpc' = "list" /\ UNCHANGED later
      BY <1>6 DEF DReconcilePoll
    <2> QED BY <1>1, <1>2, <1>3, <2>1, DFetch DEF ImportInv, DSteps
  <1> QED BY <1>4, <1>5, <1>6 DEF DReconcile

LEMMA ListPipelinesInv ==
  ASSUME ImportInv, ListPipelines
  PROVE  ImportInv' /\ UNCHANGED fleet
  <1>1. /\ UNCHANGED <<kubeVars, pc, fleet, nextId, recent, later>> /\ dpc = "list"
    BY DEF ListPipelines, NotPipelines, DiscoveryOnly, NoEffect
  <1>2. PTyped'
    BY <1>1 DEF ImportInv, PTyped, kubeVars
  <1>3. CASE Fail("ListPipelinesFailed")
    BY <1>1, <1>2, <1>3, DFail DEF ImportInv, DReasons
  <1>4. CASE GoOn([NoPoll EXCEPT !.todo = Listed(dmem.spec)], "upsert")
    <2>1. Listed(dmem.spec) \subseteq Listing
      <3>1. ASSUME NEW n \in Names, fleet[n].id # NoId
            PROVE  [name |-> n[2], id |-> fleet[n].id, contents |-> fleet[n].contents] \in Listing
        <4>1. n[2] \in Bases
          BY DEF Names
        <4>2. fleet[n] \in FleetPipeline
          <5>1. fleet[n] \in FleetPipeline \cup {Vacant}
            BY DEF ImportInv, PTyped
          <5>2. Vacant.id = NoId
            BY DEF Vacant
          <5> QED BY <3>1, <5>1, <5>2
        <4> QED BY <4>1, <4>2 DEF Listing, FleetPipeline
      <3> QED BY <3>1 DEF Listed
    <2> DEFINE p == [NoPoll EXCEPT !.todo = Listed(dmem.spec)]
    <2>2. p \in PollRecord /\ p.items = NoPoll.items
      BY <2>1, NoPollType DEF PollRecord
    <2> HIDE DEF p
    <2>3. \A k \in Keys : ~p.items[k].exists
      BY <2>2, NoPollType
    <2> QED BY <1>1, <1>2, <1>4, <2>2, <2>3, DGoOn DEF ImportInv, DSteps, p
  <1> QED BY <1>3, <1>4 DEF ListPipelines

\* A write of a Pipeline by the discovery.
LEMMA WriteCRInv ==
  ASSUME PTyped, NEW k \in Keys, NEW o \in CRVersion, WriteCR(k, o), UNCHANGED <<pc, fleet, nextId>>
  PROVE  PTyped'
  BY CRUserWrite DEF WriteCR, NotPipelines

LEMMA PatchedType ==
  ASSUME PTyped, NEW k \in Keys, NEW v \in BOOLEAN, obj[k].exists
  PROVE  [obj[k] EXCEPT !.ann.stale = v] \in CRVersion
  <1>1. obj[k] \in CR
    BY CRVersionType DEF PTyped
  <1> QED BY <1>1 DEF CR, CRAnnots, CRVersion

LEMMA PatchStaleInv ==
  ASSUME ImportInv, dpc # "idle", UNCHANGED <<pc, fleet, nextId, recent, later>>,
         NEW k \in Keys, NEW o, NEW v \in BOOLEAN, NEW p \in PollRecord, NEW step \in DSteps \ {"idle"},
         NEW reason \in DReasons, PatchStale(k, o, v, p, step, reason),
         \A j \in Keys : p.items[j].exists => step = "stale"
  PROVE  ImportInv'
  <1>1. PTyped'
    <2>1. CASE NotPipelines
      BY <2>1 DEF NotPipelines, ImportInv, PTyped, kubeVars
    <2>2. CASE obj[k].exists /\ WriteCR(k, [obj[k] EXCEPT !.ann.stale = v])
      BY <2>2, PatchedType, WriteCRInv DEF ImportInv
    <2> QED BY <2>1, <2>2 DEF PatchStale
  <1>2. GoOn(p, step) \/ Fail(reason)
    BY DEF PatchStale
  <1> QED BY <1>1, <1>2, DGoOn, DFail DEF ImportInv

LEMMA ImportedType ==
  ASSUME DTyped, dpc # "idle", NEW p \in Listing
  PROVE  Imported(p) \in CRVersion
  <1> DEFINE g == p.contents \in FromGrafana
             r == dmem.spec.mode = "ReadOnly" \/ g
             s == [contents |-> p.contents, base |-> p.name, grafana |-> g, paused |-> FALSE]
             a == [scope |-> "", id |-> p.id, readOnly |-> r, by |-> dcur, stale |-> FALSE]
             st == [id |-> NoId, name |-> NoName, og |-> 0, ready |-> "Unknown", reason |-> ""]
  <1>1. dcur \in Discoveries /\ dmem.spec \in DSpecs
    BY DEF DTyped, Discovery
  <1>2. r \in Flags
    BY <1>1 DEF Flags, ReadOnlyOnly
  <1>3. s \in CRSpec
    BY DEF CRSpec, Listing
  <1> HIDE DEF r
  <1>4. a \in CRAnnots
    BY <1>1, <1>2 DEF CRAnnots, Listing
  <1>5. st \in Status
    BY DEF Status, Reasons, NoId
  <1> HIDE DEF s, a, st
  <1>6. [exists |-> TRUE, spec |-> s, ann |-> a, gen |-> 1, fin |-> FALSE, del |-> FALSE, st |-> st] \in CR
    BY <1>3, <1>4, <1>5 DEF CR
  <1> QED BY <1>6 DEF Imported, CRVersion, s, a, st, r

LEMMA PollMoves ==
  ASSUME PollTyped, NEW p \in Listing
  PROVE  /\ Claimed(p) \in PollRecord /\ Conflicting(p) \in PollRecord
         /\ Claimed(p).items = poll.items /\ Conflicting(p).items = poll.items
  <1>1. p.id \in Nat /\ p.name \in Bases
    BY DEF Listing
  <1>2. Claimed(p) \in PollRecord /\ Claimed(p).items = poll.items
    BY <1>1 DEF Claimed, PollTyped, PollRecord
  <1>3. Conflicting(p) \in PollRecord /\ Conflicting(p).items = poll.items
    BY <1>1 DEF Conflicting, PollTyped, PollRecord
  <1> QED BY <1>2, <1>3

LEMMA UpsertCRInv ==
  ASSUME ImportInv, NEW p \in poll.todo, UpsertCR(p)
  PROVE  ImportInv' /\ UNCHANGED fleet
  <1> DEFINE k == CRName[p.name]
             stored == IF obj[k].exists THEN obj[k] ELSE Imported(p)
  <1>1. UNCHANGED <<pc, fleet, nextId, recent, later>> /\ dpc = "upsert"
    BY DEF UpsertCR, DiscoveryOnly, NoEffect
  <1>2. p \in Listing /\ p.name \in Bases
    BY DEF ImportInv, PollTyped, PollRecord, Listing
  <1>3. k \in Keys
    BY <1>2, PipelineDiscoveryAssumption
  <1>4. /\ Claimed(p) \in PollRecord /\ Conflicting(p) \in PollRecord
        /\ \A j \in Keys : ~Claimed(p).items[j].exists /\ ~Conflicting(p).items[j].exists
    BY <1>1, <1>2, PollMoves DEF ImportInv, ItemsAreStale
  <1>5. stored \in CRVersion
    BY <1>1, <1>2, <1>3, ImportedType DEF ImportInv, PTyped
  <1> HIDE DEF stored, k
  <1>6. CASE CreatePipelineCR(p)
    <2>1. WriteCR(k, stored) \/ NotPipelines
      BY <1>6 DEF CreatePipelineCR, k, stored
    <2>2. PTyped'
      <3>1. CASE NotPipelines
        BY <1>1, <3>1 DEF NotPipelines, ImportInv, PTyped, kubeVars
      <3>2. CASE WriteCR(k, stored)
        BY <1>1, <1>3, <1>5, <3>2, WriteCRInv DEF ImportInv
      <3> QED BY <2>1, <3>1, <3>2
    <2>3. GoOn(Claimed(p), "upsert") \/ Fail("UpsertFailed")
      BY <1>6 DEF CreatePipelineCR
    <2> QED BY <1>1, <1>4, <2>2, <2>3, DGoOn, DFail DEF ImportInv, DSteps, DReasons
  <1>7. CASE \E o : PatchStale(k, o, FALSE, Claimed(p), "upsert", "UpsertFailed")
    BY <1>1, <1>3, <1>4, <1>7, PatchStaleInv DEF DSteps, DReasons
  <1>8. CASE GoOn(Conflicting(p), "upsert") /\ NotPipelines
    <2>1. PTyped'
      BY <1>1, <1>8 DEF NotPipelines, ImportInv, PTyped, kubeVars
    <2> QED BY <1>1, <1>4, <1>8, <2>1, DGoOn DEF ImportInv, DSteps
  <1> QED BY <1>6, <1>7, <1>8 DEF UpsertCR, k

LEMMA ListManagedInv ==
  ASSUME ImportInv, ListManaged
  PROVE  ImportInv' /\ UNCHANGED fleet
  <1> DEFINE its == [k \in Keys |-> IF cache[k].exists /\ pipelineIsOwnedByDiscovery(cache[k], dcur)
                                    THEN cache[k] ELSE NoObject]
             p == [poll EXCEPT !.items = its]
  <1>1. UNCHANGED <<kubeVars, pc, fleet, nextId, recent, later>> /\ dpc = "upsert"
    BY DEF ListManaged, NotPipelines, DiscoveryOnly, NoEffect
  <1>2. PTyped'
    BY <1>1 DEF ImportInv, PTyped, kubeVars
  <1>3. its \in [Keys -> CRVersion]
    <2>1. \A k \in Keys : cache[k] \in CRVersion
      BY DEF ImportInv, PTyped
    <2> QED BY <2>1, NoObjectVersion
  <1>4. GoOn(p, "stale") \/ Fail("StaleProcessingFailed")
    BY DEF ListManaged
  <1> HIDE DEF its
  <1>5. p \in PollRecord
    BY <1>3 DEF ImportInv, PollTyped, PollRecord
  <1> HIDE DEF p
  <1> QED BY <1>1, <1>2, <1>4, <1>5, DGoOn, DFail DEF ImportInv, DSteps, DReasons

\* An item of the list is done.
LEMMA ItemDone ==
  ASSUME PollTyped, NEW k \in Keys, poll.items[k].exists
  PROVE  /\ [poll EXCEPT !.items[k] = NoObject] \in PollRecord
         /\ Kept(k) \in PollRecord
         /\ [Kept(k) EXCEPT !.stale = @ \cup {poll.items[k].spec.base}] \in PollRecord
  <1> DEFINE its == [poll.items EXCEPT ![k] = NoObject]
  <1>1. poll \in PollRecord /\ poll.items \in [Keys -> CRVersion] /\ poll.managed \subseteq Keys
        /\ poll.stale \subseteq Bases
    BY DEF PollTyped, PollRecord
  <1>2. its \in [Keys -> CRVersion]
    BY <1>1, NoObjectVersion
  <1>3. poll.items[k].spec.base \in Bases
    BY <1>1, CRVersionType, CRFacts
  <1>4. [poll EXCEPT !.items[k] = NoObject] = [poll EXCEPT !.items = its]
    BY <1>1 DEF PollRecord
  <1> HIDE DEF its
  <1>5. [poll EXCEPT !.items = its] \in PollRecord
    BY <1>1, <1>2 DEF PollRecord
  <1>6. Kept(k) = [[poll EXCEPT !.items = its] EXCEPT !.managed = @ \cup {k}]
    BY <1>1 DEF Kept, PollRecord, its
  <1>7. Kept(k) \in PollRecord
    <2> DEFINE q == [poll EXCEPT !.items = its]
               m == q.managed \cup {k}
    <2>1. m \subseteq Keys
      BY <1>5 DEF PollRecord
    <2> HIDE DEF q, m
    <2>2. [q EXCEPT !.managed = m] \in PollRecord
      BY <1>5, <2>1 DEF PollRecord, q
    <2> QED BY <1>6, <2>2 DEF q, m
  <1>8. [Kept(k) EXCEPT !.stale = @ \cup {poll.items[k].spec.base}] \in PollRecord
    BY <1>3, <1>7 DEF PollRecord
  <1> QED BY <1>4, <1>5, <1>7, <1>8

LEMMA CRDeleted ==
  ASSUME NEW o \in CRVersion
  PROVE  Deleted(o) \in CRVersion
  <1>1. CASE o \in CR
    <2>1. [o EXCEPT !.del = TRUE, !.gen = @ + 1] \in CR
      BY <1>1, CREdited
    <2>2. Deleted(o) \in {o, [o EXCEPT !.del = TRUE, !.gen = @ + 1], NoObject}
      BY DEF Deleted
    <2> QED BY <1>1, <2>1, <2>2, NoObjectVersion DEF CRVersion
  <1>2. CASE o = NoObject
    BY <1>2, NoObjectVersion DEF Deleted
  <1> QED BY <1>1, <1>2 DEF CRVersion

LEMMA ProcessStalePInv ==
  ASSUME ImportInv, NEW k \in Keys, ProcessStaleP(k)
  PROVE  ImportInv' /\ UNCHANGED fleet
  <1> DEFINE o == poll.items[k]
             done == [poll EXCEPT !.items[k] = NoObject]
             kept == Kept(k)
             marked == [Kept(k) EXCEPT !.stale = @ \cup {o.spec.base}]
  <1>1. UNCHANGED <<pc, fleet, nextId, recent, later>> /\ dpc = "stale" /\ o.exists
    BY DEF ProcessStaleP, DiscoveryOnly, NoEffect
  <1>2. done \in PollRecord /\ kept \in PollRecord /\ marked \in PollRecord
    BY <1>1, ItemDone DEF ImportInv
  <1>3. Deleted(obj[k]) \in CRVersion
    <2>1. obj[k] \in CRVersion
      BY DEF ImportInv, PTyped
    <2> QED BY <2>1, CRDeleted
  <1>4. \/ PatchStale(k, o, FALSE, kept, "stale", "StaleProcessingFailed")
        \/ PatchStale(k, o, TRUE, marked, "stale", "StaleProcessingFailed")
        \/ /\ NotPipelines \/ WriteCR(k, Deleted(obj[k]))
           /\ GoOn(done, "stale") \/ Fail("StaleProcessingFailed")
    BY DEF ProcessStaleP
  <1> HIDE DEF o, done, kept, marked
  <1>5. CASE PatchStale(k, o, FALSE, kept, "stale", "StaleProcessingFailed")
    BY <1>1, <1>2, <1>5, PatchStaleInv DEF DSteps, DReasons
  <1>6. CASE PatchStale(k, o, TRUE, marked, "stale", "StaleProcessingFailed")
    BY <1>1, <1>2, <1>6, PatchStaleInv DEF DSteps, DReasons
  <1>7. CASE /\ NotPipelines \/ WriteCR(k, Deleted(obj[k]))
             /\ GoOn(done, "stale") \/ Fail("StaleProcessingFailed")
    <2>1. PTyped'
      <3>1. CASE NotPipelines
        BY <1>1, <3>1 DEF NotPipelines, ImportInv, PTyped, kubeVars
      <3>2. CASE WriteCR(k, Deleted(obj[k]))
        BY <1>1, <1>3, <3>2, WriteCRInv DEF ImportInv
      <3> QED BY <1>7, <3>1, <3>2
    <2> QED BY <1>1, <1>2, <1>7, <2>1, DGoOn, DFail DEF ImportInv, DSteps, DReasons
  <1> QED BY <1>1, <1>4, <1>5, <1>6, <1>7

\* The status the worker writes, on whatever version is stored.
LEMMA DWritten ==
  ASSUME DTyped, dpc # "idle", NEW st \in DStatus
  PROVE  [dobj[dcur] EXCEPT !.st = st] \in DVersion
  <1>1. dobj[dcur] \in DVersion
    BY DEF DTyped
  <1>2. CASE dobj[dcur] \in Discovery
    BY <1>2, DStatusTypes DEF DVersion
  <1>3. CASE dobj[dcur] = NoObject
    <2>1. [NoObject EXCEPT !.st = st] = NoObject
      BY DEF NoObject
    <2> QED BY <1>3, <2>1 DEF DVersion
  <1> QED BY <1>1, <1>2, <1>3 DEF DVersion

LEMMA DUpdateStatusInv ==
  ASSUME ImportInv, DUpdateStatusSuccess \/ DUpdateStatusError
  PROVE  ImportInv' /\ UNCHANGED fleet
  <1>1. /\ UNCHANGED <<kubeVars, pc, fleet, nextId>> /\ dpc \in {"stale", "updateStatus"}
        /\ dpc' = "idle"
    BY DEF DUpdateStatusSuccess, DUpdateStatusError, NotPipelines, DiscoveryOnly, NoEffect
  <1>2. PTyped'
    BY <1>1 DEF ImportInv, PTyped, kubeVars
  <1>3. dcur \in Discoveries /\ dmem \in Discovery
    BY <1>1 DEF ImportInv, DTyped
  <1>4. recent' \in [Discoveries -> BOOLEAN] /\ later' \subseteq Discoveries
    BY <1>3 DEF DUpdateStatusSuccess, DUpdateStatusError, Stamp, ImportInv, DTyped
  <1>5. CASE DUpdateStatusSuccess
    <2> DEFINE st == DSuccessStatus(dmem, poll).st
               o == [dobj[dcur] EXCEPT !.st = st]
    <2>1. st \in DStatus
      BY <1>3, DStatusTypes DEF ImportInv, PollTyped
    <2>2. poll' = NoPoll /\ \E b : D!JustReturn(b) \/ D!WriteAndReturn(o, b)
      BY <1>5 DEF DUpdateStatusSuccess
    <2> HIDE DEF st
    <2>3. o \in DVersion
      BY <1>1, <2>1, DWritten DEF ImportInv
    <2> HIDE DEF o
    <2>4. DTyped'
      BY <1>1, <1>4, <2>2, <2>3, DReturn DEF ImportInv
    <2> QED BY <1>1, <1>2, <2>2, <2>4, NoPollType DEF ImportInv, PollTyped, ItemsAreStale
  <1>6. CASE DUpdateStatusError
    <2> DEFINE o == [dobj[dcur] EXCEPT !.st = dmem.st]
    <2>1. poll' = poll /\ dpc = "updateStatus" /\ \E b : D!JustReturn(b) \/ D!WriteAndReturn(o, b)
      BY <1>6 DEF DUpdateStatusError
    <2>2. o \in DVersion
      BY <1>1, <1>3, DStatusTypes, DWritten DEF ImportInv
    <2> HIDE DEF o
    <2>3. DTyped'
      BY <1>1, <1>4, <2>1, <2>2, DReturn DEF ImportInv
    <2> QED BY <1>1, <1>2, <2>1, <2>3 DEF ImportInv, PollTyped, ItemsAreStale
  <1> QED BY <1>1, <1>5, <1>6

LEMMA DWorkerInv ==
  ASSUME ImportInv, DWorker
  PROVE  ImportInv' /\ UNCHANGED fleet
  BY ListPipelinesInv, UpsertCRInv, ListManagedInv, ProcessStalePInv, DUpdateStatusInv DEF DWorker

-----------------------------------------------------------------------------
(* The steps of the rest of the system.                                    *)

LEMMA DInformInv ==
  ASSUME ImportInv, NEW d \in Discoveries, DInform(d) \/ Elapse(d)
  PROVE  ImportInv' /\ UNCHANGED fleet
  <1>1. UNCHANGED <<vars, dobj, dcur, dmem, dfresh, dpc, poll>>
    BY DEF DInform, Elapse, D!Deliver
  <1>2. PTyped' /\ PollTyped' /\ ItemsAreStale' /\ UNCHANGED fleet
    BY <1>1 DEF ImportInv, PTyped, PollTyped, ItemsAreStale, vars, kubeVars
  <1>3. CASE DInform(d)
    <2>1. /\ dcache' = [dcache EXCEPT ![d] = Head(dwatch[d])]
          /\ dwatch' = [dwatch EXCEPT ![d] = Tail(@)] /\ dwatch[d] # <<>>
          /\ dqueue' = dqueue \cup {d} /\ UNCHANGED <<recent, later>>
      BY <1>3 DEF DInform, D!Deliver
    <2>2. dwatch[d] \in Seq(DVersion)
      BY DEF ImportInv, DTyped
    <2>3. Head(dwatch[d]) \in DVersion /\ Tail(dwatch[d]) \in Seq(DVersion)
      BY <2>1, <2>2, TailFacts
    <2>4. DTyped'
      BY <1>1, <2>1, <2>3 DEF ImportInv, DTyped
    <2> QED BY <1>2, <2>4 DEF ImportInv
  <1>4. CASE Elapse(d)
    <2>1. /\ recent' = [recent EXCEPT ![d] = FALSE] /\ later' = later \ {d}
          /\ dqueue' \subseteq dqueue \cup {d} /\ UNCHANGED <<dwatch, dcache>>
      BY <1>4 DEF Elapse
    <2>2. DTyped'
      BY <1>1, <2>1 DEF ImportInv, DTyped
    <2> QED BY <1>2, <2>2 DEF ImportInv
  <1> QED BY <1>3, <1>4

LEMMA DRestartInv ==
  ASSUME ImportInv, DRestart
  PROVE  ImportInv' /\ UNCHANGED fleet
  <1>1. /\ KubeRestart /\ D!KubeRestart /\ pc' = "idle" /\ dpc' = "idle" /\ poll' = NoPoll
        /\ later' = {} /\ UNCHANGED <<fleet, nextId, recent>>
    BY DEF DRestart, NoEffect
  <1>2. PTyped'
    <2>1. cache' = obj /\ watch' = [k \in Keys |-> <<>>] /\ cur' = "" /\ obj' = obj
      BY <1>1 DEF KubeRestart
    <2>2. watch' \in [Keys -> Seq(CRVersion)]
      BY <2>1, EmptyFacts
    <2> QED BY <1>1, <2>1, <2>2 DEF ImportInv, PTyped, Steps
  <1>3. DTyped'
    <2>1. /\ dcache' = dobj /\ dwatch' = [d \in Discoveries |-> <<>>] /\ dcur' = ""
          /\ dqueue' \subseteq Discoveries /\ dmem' = NoObject /\ dfresh' = FALSE /\ dobj' = dobj
      BY <1>1 DEF D!KubeRestart, D!NoObject, NoObject
    <2>2. dwatch' \in [Discoveries -> Seq(DVersion)]
      BY <2>1, EmptyFacts
    <2> QED BY <1>1, <2>1, <2>2 DEF ImportInv, DTyped
  <1>4. PollTyped' /\ ItemsAreStale'
    BY <1>1, NoPollType DEF PollTyped, ItemsAreStale
  <1> QED BY <1>1, <1>2, <1>3, <1>4 DEF ImportInv

\* A user edits or deletes a discovery.
LEMMA WriteDiscoveryInv ==
  ASSUME ImportInv, NEW d \in Discoveries,
         DeleteDiscovery(d) \/ \E s \in DSpecs : EditDiscovery(d, s)
  PROVE  ImportInv' /\ ~OperatorMoved
  <1>1. /\ dobj[d].exists /\ UNCHANGED <<kubeVars, pc, fleet, nextId, dpc, poll, recent, later>>
        /\ \/ D!UserWrite(d, NoObject)
           \/ \E s \in DSpecs : D!UserWrite(d, [dobj[d] EXCEPT !.spec = s, !.gen = @ + 1])
    BY DEF DeleteDiscovery, EditDiscovery, WriteDiscovery, OthersUnchanged, NoEffect,
       D!NoObject, NoObject
  <1>2. dobj[d] \in Discovery
    BY <1>1, DVersionType DEF ImportInv, DTyped
  <1>3. ASSUME NEW s \in DSpecs
        PROVE  [dobj[d] EXCEPT !.spec = s, !.gen = @ + 1] \in DVersion
    BY <1>2, DEdited DEF DVersion
  <1>4. PICK o \in DVersion : D!UserWrite(d, o)
    BY <1>1, <1>3 DEF DVersion
  <1>5. DTyped'
    BY <1>1, <1>4, DUserWrite DEF ImportInv
  <1>6. PTyped' /\ PollTyped' /\ ItemsAreStale'
    BY <1>1 DEF ImportInv, PTyped, PollTyped, ItemsAreStale, kubeVars
  <1> QED BY <1>1, <1>5, <1>6 DEF ImportInv, OperatorMoved

\* Somebody else changes Fleet.
LEMMA ExternalInv ==
  ASSUME ImportInv,
         \/ \E b \in Bases : ExternalRecreate(b) \/ \E c \in Contents : ExternalUpsert(b, c)
         \/ (\E n \in Names : ExternalDelete(n)) /\ UNCHANGED dvars
  PROVE  ImportInv' /\ ~OperatorMoved
  <1>1. UNCHANGED <<kubeVars, dKube, pc, dpc, poll, recent, later>>
    BY DEF ExternalRecreate, ExternalUpsert, ExternalDelete, OthersUnchanged, NotOperator, dvars
  <1>2. FleetOK
    BY DEF ImportInv, PTyped, FleetOK
  <1>3. FleetOK'
    <2>1. CASE \E n \in Names : ExternalDelete(n)
      BY <1>2, <2>1 DEF ExternalDelete, NotOperator, FleetOK
    <2>2. ASSUME NEW b \in Bases, NEW c \in Contents, ExternalUpsert(b, c) PROVE FleetOK'
      <3>1. <<"", b>> \in Names /\ UpsertEffect(<<"", b>>, c)
        BY <2>2 DEF Names, ExternalUpsert
      <3> QED BY <1>2, <3>1, FleetMoves
    <2>3. ASSUME NEW b \in Bases, ExternalRecreate(b) PROVE FleetOK'
      <3> DEFINE n == <<"", b>>
      <3>1. n \in Names
        BY DEF Names
      <3>2. /\ fleet[n].id # NoId /\ fleet' = [fleet EXCEPT ![n].id = nextId]
            /\ nextId' = nextId + 1
        BY <2>3 DEF ExternalRecreate
      <3> HIDE DEF n
      <3>3. fleet[n] \in FleetPipeline
        <4>1. fleet[n] \in FleetPipeline \cup {Vacant}
          BY <1>2, <3>1 DEF FleetOK
        <4>2. Vacant.id = NoId
          BY DEF Vacant
        <4> QED BY <3>2, <4>1, <4>2
      <3>4. [fleet[n] EXCEPT !.id = nextId] \in FleetPipeline
        BY <1>2, <3>3 DEF FleetOK, FleetPipeline
      <3>5. fleet' \in [Names -> FleetPipeline \cup {Vacant}]
        BY <1>2, <3>1, <3>2, <3>4 DEF FleetOK
      <3>6. nextId' \in Nat \ {NoId}
        BY <1>2, <3>2 DEF FleetOK, NoId
      <3> QED BY <3>5, <3>6 DEF FleetOK
    <2> QED BY <2>1, <2>2, <2>3
  <1>4. PTyped'
    BY <1>1, <1>3 DEF ImportInv, PTyped, kubeVars, FleetOK
  <1>5. DTyped'
    BY <1>1 DEF ImportInv, DTyped, dKube
  <1>6. PollTyped' /\ ItemsAreStale'
    BY <1>1 DEF ImportInv, PollTyped, ItemsAreStale
  <1> QED BY <1>1, <1>4, <1>5, <1>6 DEF ImportInv, OperatorMoved

\* A user edits or deletes an imported Pipeline.
LEMMA EditCRInv ==
  ASSUME ImportInv, NEW k \in Keys, DeletePipeline(k) \/ \E s \in Specs : EditSpec(k, s),
         UNCHANGED dvars
  PROVE  ImportInv' /\ ~OperatorMoved
  <1>1. /\ obj[k].exists /\ UNCHANGED <<pc, fleet, nextId>>
        /\ \/ UserWrite(k, NoObject)
           \/ UserWrite(k, [obj[k] EXCEPT !.del = TRUE, !.gen = @ + 1])
           \/ \E s \in Specs : UserWrite(k, [obj[k] EXCEPT !.spec = s, !.gen = @ + 1])
    BY DEF DeletePipeline, EditSpec, NotOperator
  <1>2. obj[k] \in CR
    BY <1>1, CRVersionType DEF ImportInv, PTyped
  <1>3. ASSUME NEW s \in Specs PROVE [obj[k] EXCEPT !.spec = s, !.gen = @ + 1] \in CR
    <2>1. s \in CRSpec
      BY SpecsAssumption DEF CRSpec, Contents, Bases
    <2> QED BY <1>2, <2>1, CREdited
  <1>4. [obj[k] EXCEPT !.del = TRUE, !.gen = @ + 1] \in CR
    BY <1>2, CREdited
  <1>5. PICK o \in CRVersion : UserWrite(k, o)
    BY <1>1, <1>3, <1>4 DEF CRVersion
  <1>6. PTyped'
    BY <1>1, <1>5, CRUserWrite DEF ImportInv
  <1>7. DTyped' /\ PollTyped' /\ ItemsAreStale'
    BY DEF ImportInv, DTyped, PollTyped, ItemsAreStale, dvars, dKube
  <1> QED BY <1>1, <1>6, <1>7 DEF ImportInv, OperatorMoved, dvars

LEMMA DUserInv ==
  ASSUME ImportInv, DUser
  PROVE  ImportInv' /\ ~OperatorMoved
  BY WriteDiscoveryInv, ExternalInv, EditCRInv DEF DUser

LEMMA PipelineStepInv ==
  ASSUME ImportInv, PipelineStep
  PROVE  ImportInv' /\ (ReadOnlyOnly => UNCHANGED fleet)
  <1>1. UNCHANGED dvars
    BY DEF PipelineStep
  <1>2. DTyped' /\ PollTyped' /\ ItemsAreStale'
    BY <1>1 DEF ImportInv, DTyped, PollTyped, ItemsAreStale, dvars, dKube
  <1>3. CASE Worker
    BY <1>2, <1>3, CRWorker DEF ImportInv
  <1>4. ASSUME NEW k \in Keys, Reconcile(k) PROVE PTyped' /\ UNCHANGED fleet
    <2>1. UNCHANGED fleet
      BY <1>4 DEF Reconcile, ReconcileNothing, ReconcileFinalizer, ReconcileReadOnly, ReconcileNormal,
       ReconcileDelete, NoEffect
    <2> QED BY <1>4, <2>1, CRReconcile DEF ImportInv
  <1>5. ASSUME NEW k \in Keys, Inform(k) PROVE PTyped' /\ UNCHANGED fleet
    BY <1>5, CRInform DEF ImportInv, Inform, NoEffect
  <1> QED BY <1>2, <1>3, <1>4, <1>5 DEF PipelineStep, ImportInv

LEMMA DInitInv ==
  ASSUME DInit
  PROVE  ImportInv
  <1>1. PTyped
    <2>1. /\ obj = [k \in Keys |-> NoObject] /\ cache = obj /\ watch = [k \in Keys |-> <<>>]
          /\ cur = "" /\ pc = "idle"
      BY DEF DInit, KubeInit
    <2>2. watch \in [Keys -> Seq(CRVersion)]
      BY <2>1, EmptyFacts
    <2>3. fleet \in [Names -> FleetPipeline \cup {Vacant}]
      <3>1. PICK B \in SUBSET Bases, c \in Contents :
               fleet = [n \in Names |-> IF n[2] \in B /\ n[1] = ""
                                        THEN [id |-> 1, contents |-> c] ELSE Vacant]
        BY DEF DInit
      <3>2. [id |-> 1, contents |-> c] \in FleetPipeline
        BY DEF FleetPipeline, NoId
      <3> QED BY <3>1, <3>2
    <2>4. obj \in [Keys -> CRVersion] /\ cache \in [Keys -> CRVersion]
      BY <2>1, NoObjectVersion
    <2>5. nextId \in Nat \ {NoId}
      <3>1. nextId = 2
        BY DEF DInit
      <3> QED BY <3>1 DEF NoId
    <2>6. pc \in Steps
      BY <2>1 DEF Steps
    <2> QED BY <2>1, <2>2, <2>3, <2>4, <2>5, <2>6 DEF PTyped
  <1>2. DTyped
    <2>1. PICK s \in DSpecs : D!KubeInit([d \in Discoveries |-> NewDiscovery(s)])
      BY DEF DInit
    <2>2. NewDiscovery(s) \in Discovery
      BY DEF NewDiscovery, Discovery, DStatus, DReasons
    <2>3. /\ dobj = [d \in Discoveries |-> NewDiscovery(s)] /\ dcache = dobj
          /\ dwatch = [d \in Discoveries |-> <<>>] /\ dqueue \subseteq Discoveries
          /\ dcur = "" /\ dmem = NoObject /\ dfresh = FALSE
      BY <2>1 DEF D!KubeInit, D!NoObject, NoObject
    <2>4. dwatch \in [Discoveries -> Seq(DVersion)]
      BY <2>3, EmptyFacts
    <2>5. dobj \in [Discoveries -> DVersion]
      BY <2>2, <2>3 DEF DVersion
    <2>6. dpc = "idle" /\ recent = [d \in Discoveries |-> FALSE] /\ later = {}
      BY DEF DInit
    <2> QED BY <2>3, <2>4, <2>5, <2>6 DEF DTyped
  <1>3. PollTyped /\ ItemsAreStale
    BY NoPollType DEF DInit, PollTyped, ItemsAreStale
  <1> QED BY <1>1, <1>2, <1>3 DEF ImportInv

LEMMA DNextInv ==
  ASSUME ImportInv, [DNext]_allVars
  PROVE  ImportInv' /\ (ReadOnlyOnly /\ OperatorMoved => UNCHANGED fleet)
  <1>1. CASE UNCHANGED allVars
    <2>1. PTyped'
      BY <1>1 DEF ImportInv, PTyped, allVars, vars, kubeVars
    <2>2. DTyped'
      BY <1>1 DEF ImportInv, DTyped, allVars, dvars, dKube
    <2>3. PollTyped' /\ ItemsAreStale'
      BY <1>1 DEF ImportInv, PollTyped, ItemsAreStale, allVars, dvars
    <2>4. UNCHANGED fleet
      BY <1>1 DEF allVars, vars
    <2> QED BY <2>1, <2>2, <2>3, <2>4 DEF ImportInv
  <1>2. CASE DUser
    BY <1>2, DUserInv
  <1>3. CASE PipelineStep
    BY <1>3, PipelineStepInv
  <1>4. CASE DWorker
    BY <1>4, DWorkerInv
  <1>5. ASSUME NEW d \in Discoveries, DReconcile(d) \/ DInform(d) \/ Elapse(d)
        PROVE  ImportInv' /\ UNCHANGED fleet
    BY <1>5, DReconcileInv, DInformInv
  <1>6. CASE DRestart
    BY <1>6, DRestartInv
  <1> QED BY <1>1, <1>2, <1>3, <1>4, <1>5, <1>6 DEF DNext

\* The discovery's worker and the Pipelines it makes keep their types, whatever is
\* imported: a worker between two calls holds a discovery that exists, what it has
\* gathered is of the right kind, and only processStaleP holds copies of Pipelines.
THEOREM DiscoveryTypes == DSpec => []DTypeOK
  <1>1. DInit => ImportInv
    BY DInitInv
  <1>2. ImportInv /\ [DNext]_allVars => ImportInv'
    BY DNextInv
  <1>3. ImportInv => DTypeOK
    BY DEF ImportInv, DTyped, DVersion, PollTyped, PollRecord, ItemsAreStale, DTypeOK
  <1> QED BY <1>1, <1>2, <1>3, PTL DEF DSpec

\* With read-only imports alone, upsertPipelineCRs and processStaleP and the Pipeline
\* reconciler that takes up their Pipelines (Reconcile, its finalizer and its deletion
\* included) never call UpsertPipeline or DeletePipeline: every change of Fleet is
\* somebody else's.
THEOREM ReadOnlyImportsArePassive == DSpec => ReadOnlyImportIsPassive
  <1>1. DInit => ImportInv
    BY DInitInv
  <1>2. ImportInv /\ [DNext]_allVars => ImportInv'
    BY DNextInv
  <1>3. ImportInv /\ [DNext]_allVars
           => [((\A s \in DSpecs : s.mode = "ReadOnly") /\ OperatorMoved) => fleet' = fleet]_allVars
    BY DNextInv DEF ReadOnlyOnly
  <1> QED BY <1>1, <1>2, <1>3, PTL DEF DSpec, ReadOnlyImportIsPassive

===============================================================================
