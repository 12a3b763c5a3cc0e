------------------------- MODULE CollectorDiscovery -------------------------
(***************************************************************************)
(* The CollectorDiscovery reconciler                                       *)
(* (internal/controller/collector_discovery_controller.go): at an interval *)
(* it lists the collectors of Fleet, creates a Collector CR for each one   *)
(* that has none, and marks or deletes the CRs it owns whose collector is  *)
(* gone.  It writes objects of another kind, which it reads from a cache   *)
(* of their own, one call after the other.                                 *)
(*                                                                         *)
(* Time is two facts: whether status.lastSyncTime is less than a           *)
(* pollInterval ago (recent) and which requests wait for a RequeueAfter    *)
(* of that length (later).  All discoveries have one target namespace, and *)
(* those in Others show only in the CRs they create and delete there;      *)
(* counts are sets; a CR name that is not DNS-1123 is impossible, as       *)
(* discovery/naming.go says itself.  A CollectorDiscovery has no finalizer *)
(* and so is never seen being deleted.                                     *)
(***************************************************************************)
EXTENDS Controller, FiniteSets

CONSTANTS
    Others,     \* discoveries of other namespaces with the same target namespace
    LabelOf,    \* LabelOf[k]: metadata.name of discovery k, the label on its CRs
    Ids,        \* collector IDs
    Names,      \* names of Collector CRs in the target namespace
    CRName,     \* CRName[i]: chooseCRName(i); hashed names may collide
    Specs,      \* specs a user may write: [only, inactive, onRemoved, valid]
    Leftovers,  \* Collector CRs that may be there when the operator starts
    MaxEdits    \* bound on changes by users, by Fleet and by the Collector controller

VARIABLES
    fleet,      \* fleet[i]: is collector i listed, and is it marked inactive?
    crs,        \* crs[n]: the Collector CR named n, or NoObject
    crWatch,    \* crWatch[n]: versions written and not yet in the cache
    crCache,    \* crCache[n]: the version Get and List return
    poll,       \* what the worker has gathered since ListCollectors
    recent,     \* recent[k]: now < status.lastSyncTime + pollInterval
    later,      \* requests that come back a pollInterval from now
    edits

crVars == <<crs, crWatch, crCache>>

vars == <<kubeVars, pc, retry, faults, fleet, crVars, poll, recent, later, edits>>

-----------------------------------------------------------------------------
(* Types.                                                                  *)

Presence == {"gone", "active", "inactive"}

Reasons == {"", "Synced", "ListCollectorsFailed", "UpsertFailed", "InvalidConfig"}

\* sync stands for lastSyncTime: 0 never set, and otherwise changed by every write.
Status == [og : Nat, sync : 0..2, ready : {"", "True", "False"}, reason : Reasons,
           managed : SUBSET Names, stale : SUBSET Ids, conflicts : SUBSET Ids]

Discovery == [exists : {TRUE}, spec : Specs, gen : Nat, st : Status]

Version == Discovery \cup {NoObject}

NewDiscovery(s) ==
    [exists |-> TRUE, spec |-> s, gen |-> 1,
     st |-> [og |-> 0, sync |-> 0, ready |-> "", reason |-> "",
             managed |-> {}, stale |-> {}, conflicts |-> {}]]

\* owner is the discovery that labels and annotation name, "" without the label.
Collector == [exists : {TRUE}, owner : Keys \cup Others \cup {""}, id : Ids, stale : BOOLEAN,
              fin : BOOLEAN, del : BOOLEAN]

CRVersion == Collector \cup {NoObject}

NewCollector(k, i) ==
    [exists |-> TRUE, owner |-> k, id |-> i, stale |-> FALSE, fin |-> FALSE, del |-> FALSE]

NoItems == [n \in Names |-> NoObject]

NoPoll == [seen |-> {}, todo |-> {}, current |-> {}, conflicts |-> {},
           items |-> NoItems, managed |-> {}, stale |-> {}]

Poll == [seen : SUBSET Ids, todo : SUBSET Ids, current : SUBSET Ids, conflicts : SUBSET Ids,
         items : [Names -> CRVersion], managed : SUBSET Names, stale : SUBSET Ids]

Steps == {"idle", "list", "upsert", "stale", "updateStatus"}

ASSUME DiscoveryAssumption ==
    /\ Specs \subseteq [only : SUBSET Ids, inactive : BOOLEAN,
                        onRemoved : {"Keep", "Delete"}, valid : BOOLEAN]
    /\ CRName \in [Ids -> Names]
    /\ Keys \cap Others = {}
    /\ Leftovers \subseteq Collector
    /\ MaxEdits \in Nat

\* The operator starts with the discoveries there are, and maybe CRs of an earlier
\* installation; Fleet is empty or full.
Init ==
    /\ \E stored \in [Keys -> {NoObject} \cup {NewDiscovery(s) : s \in Specs}] : KubeInit(stored)
    /\ \E p \in {"gone", "active"} : fleet = [i \in Ids |-> p]
    /\ crs \in [Names -> {NoObject} \cup Leftovers]
    /\ \A n \in Names : crs[n].exists => CRName[crs[n].id] = n
    /\ crCache = crs /\ crWatch = [n \in Names |-> <<>>]
    /\ poll = NoPoll
    /\ recent = [k \in Keys |-> FALSE] /\ later = {}
    /\ pc = "idle" /\ retry = FALSE
    /\ edits = 0 /\ faults = 0

-----------------------------------------------------------------------------
(* The store of Collector CRs.                                             *)

\* No writer waits for the caches; how far they are behind has no bound of its own.
CRWrite(n, o) ==
    /\ \/ o = crs[n] /\ UNCHANGED <<crs, crWatch>>
       \/ /\ o # crs[n]
          /\ crs' = [crs EXCEPT ![n] = o]
          /\ crWatch' = [crWatch EXCEPT ![n] = Append(@, o)]
    /\ UNCHANGED crCache

\* Delete of o: a finalizer keeps the object until it is removed.
Deleted(o) == IF o.exists /\ o.fin THEN [o EXCEPT !.del = TRUE] ELSE NoObject

-----------------------------------------------------------------------------
(* Users, Fleet and the Collector controller.                              *)

Edit == edits < MaxEdits /\ edits' = edits + 1

NotWorker == UNCHANGED <<pc, retry, faults, poll>>

WriteDiscovery(k, o) ==
    /\ Edit
    /\ UserWrite(k, o)
    /\ NotWorker /\ UNCHANGED <<fleet, crVars, recent, later>>

CreateDiscovery(k, s) == ~obj[k].exists /\ WriteDiscovery(k, NewDiscovery(s))

EditSpec(k, s) ==
    /\ obj[k].exists /\ s # obj[k].spec
    /\ WriteDiscovery(k, [obj[k] EXCEPT !.spec = s, !.gen = @ + 1])

DeleteDiscovery(k) == obj[k].exists /\ WriteDiscovery(k, NoObject)

ChangeFleet(i, p) ==
    /\ Edit
    /\ p # fleet[i]
    /\ fleet' = [fleet EXCEPT ![i] = p]
    /\ NotWorker /\ UNCHANGED <<kubeVars, crVars, recent, later>>

WriteCR(n, o) ==
    /\ Edit
    /\ CRWrite(n, o)
    /\ NotWorker /\ UNCHANGED <<kubeVars, fleet, recent, later>>

\* By hand, or by another discovery.
CreateCR(n, k, i) == ~crs[n].exists /\ WriteCR(n, NewCollector(k, i))

DeleteCR(n) == crs[n].exists /\ ~crs[n].del /\ WriteCR(n, Deleted(crs[n]))

\* A user takes a CR over by removing the labels of its discovery.
TakeOver(n) ==
    /\ crs[n].exists /\ crs[n].owner # ""
    /\ WriteCR(n, [crs[n] EXCEPT !.owner = ""])

\* The Collector controller protects a CR it has seen, and lets it go when it has
\* cleaned up.
AddFinalizer(n) ==
    /\ crs[n].exists /\ ~crs[n].fin /\ ~crs[n].del
    /\ WriteCR(n, [crs[n] EXCEPT !.fin = TRUE])

RemoveFinalizer(n) ==
    /\ crs[n].exists /\ crs[n].del
    /\ CRWrite(n, NoObject)
    /\ NotWorker /\ UNCHANGED <<kubeVars, fleet, recent, later, edits>>

-----------------------------------------------------------------------------
(* Reconcile, up to the first call.                                        *)

OperatorOnly == UNCHANGED <<fleet, edits>>

collectorIsOwnedByDiscovery(c, k) == c.owner = k

Later(sync) == IF sync = 1 THEN 2 ELSE 1

ErrorStatus(o, reason) ==
    [o EXCEPT !.st.og = o.gen, !.st.sync = Later(@),
              !.st.ready = "False", !.st.reason = reason]

SuccessStatus(o, p) ==
    [o EXCEPT !.st = [og |-> o.gen, sync |-> Later(@.sync), ready |-> "True",
                      reason |-> "Synced", managed |-> p.managed, stale |-> p.stale,
                      conflicts |-> p.conflicts]]

ReconcileNothing(k) ==
    /\ ~cache[k].exists
    /\ FetchAndReturn(k)
    /\ NoFault /\ OperatorOnly /\ UNCHANGED <<pc, retry, crVars, poll, recent, later>>

\* parsePollInterval fails.
ReconcileInvalid(k) ==
    /\ cache[k].exists /\ ~cache[k].spec.valid
    /\ Fetch(k, ErrorStatus(cache[k], "InvalidConfig"))
    /\ pc' = "updateStatus"
    /\ NoFault /\ OperatorOnly /\ UNCHANGED <<retry, crVars, poll, recent, later>>

\* Faulty variant: the time is not looked at.
NotDueOnce(k) == cache[k].st.sync # 0 /\ cache[k].st.og = cache[k].gen

\* Is the next poll not due yet?  A copy older than the stored object has an older
\* lastSyncTime, from which the interval may have passed already.
NotDue(k) == cache[k].st.sync # 0 /\ cache[k].st.og = cache[k].gen /\ recent[k]

\* Faulty variant: the return after asking for a requeue is missing.
ReconcileSkipAndGoOn(k) ==
    /\ cache[k].exists /\ cache[k].spec.valid
    /\ NotDue(k)
    /\ FetchAndReturn(k)
    /\ later' = later \cup {k}
    /\ pc' = "list"
    /\ NoFault /\ OperatorOnly /\ UNCHANGED <<retry, crVars, poll, recent>>

\* Faulty variant: nothing is scheduled.
ReconcileSkipUnscheduled(k) ==
    /\ cache[k].exists /\ cache[k].spec.valid
    /\ NotDue(k)
    /\ FetchAndReturn(k)
    /\ NoFault /\ OperatorOnly /\ UNCHANGED <<pc, retry, crVars, poll, recent, later>>

ReconcileSkip(k) ==
    /\ cache[k].exists /\ cache[k].spec.valid
    /\ NotDue(k)
    /\ FetchAndReturn(k)
    /\ later' = later \cup {k}
    /\ NoFault /\ OperatorOnly /\ UNCHANGED <<pc, retry, crVars, poll, recent>>

ReconcilePoll(k) ==
    /\ cache[k].exists /\ cache[k].spec.valid
    /\ ~NotDue(k) \/ watch[k] # <<>>
    /\ Fetch(k, cache[k])
    /\ pc' = "list"
    /\ NoFault /\ OperatorOnly /\ UNCHANGED <<retry, crVars, poll, recent, later>>

Reconcile(k) ==
    ReconcileNothing(k) \/ ReconcileInvalid(k) \/ ReconcileSkip(k) \/ ReconcilePoll(k)

-----------------------------------------------------------------------------
(* The calls of the worker, one step each.                                 *)

Fail(reason) ==
    /\ Continue(ErrorStatus(mem, reason))
    /\ poll' = NoPoll
    /\ pc' = "updateStatus"

GoOn(p, step) ==
    /\ Continue(mem)
    /\ poll' = p
    /\ pc' = step

filterCollectors(s, listed) ==
    {i \in listed : /\ s.inactive \/ fleet[i] # "inactive"
                    /\ s.only = {} \/ i \in s.only}

Surviving(s) == filterCollectors(s, {i \in Ids : fleet[i] # "gone"})

ListCollectors ==
    /\ pc = "list"
    /\ \/ /\ LET found == Surviving(mem.spec)
             IN  GoOn([NoPoll EXCEPT !.seen = found, !.todo = found], "upsert")
          /\ NoFault
       \/ Fault("5xx") /\ Fail("ListCollectorsFailed")
    /\ OperatorOnly /\ UNCHANGED <<retry, crVars, recent, later>>

Claimed(i) == [poll EXCEPT !.todo = @ \ {i}, !.current = @ \cup {i}]

Conflicting(i) == [poll EXCEPT !.todo = @ \ {i}, !.conflicts = @ \cup {i}]

\* Get found nothing.  AlreadyExists means that the cache is behind: the collector
\* counts as claimed and the next poll looks at the owner.
CreateCollector(i) ==
    LET n == CRName[i]
        stored == IF crs[n].exists THEN crs[n] ELSE NewCollector(cur, i)
    IN  \/ CRWrite(n, stored) /\ GoOn(Claimed(i), "upsert") /\ NoFault
        \/ Fault("k8s") /\ Fail("UpsertFailed") /\ UNCHANGED crVars
        \/ Fault("k8sLost") /\ Fail("UpsertFailed") /\ CRWrite(n, stored)

\* setStaleAnnotation and clearStaleAnnotation: nothing to do if the copy c that was
\* read has it so already, and otherwise a merge patch, which fails when the CR is gone.
PatchStale(n, c, v, p, step) ==
    \/ c.stale = v /\ GoOn(p, step) /\ NoFault /\ UNCHANGED crVars
    \/ /\ c.stale # v /\ crs[n].exists
       /\ CRWrite(n, [crs[n] EXCEPT !.stale = v])
       /\ GoOn(p, step) /\ NoFault
    \/ c.stale # v /\ ~crs[n].exists /\ Fail("UpsertFailed") /\ NoFault /\ UNCHANGED crVars
    \/ c.stale # v /\ Fault("k8s") /\ Fail("UpsertFailed") /\ UNCHANGED crVars
    \/ /\ c.stale # v /\ crs[n].exists /\ Fault("k8sLost")
       /\ CRWrite(n, [crs[n] EXCEPT !.stale = v])
       /\ Fail("UpsertFailed")

\* One round of upsertCollectorCRs.
Upsert(i) ==
    LET c == crCache[CRName[i]] IN
    /\ pc = "upsert" /\ i \in poll.todo
    /\ \/ ~c.exists /\ CreateCollector(i)
       \/ /\ c.exists /\ collectorIsOwnedByDiscovery(c, cur) /\ c.id = i
          /\ PatchStale(CRName[i], c, FALSE, Claimed(i), "upsert")
       \/ /\ c.exists /\ ~(collectorIsOwnedByDiscovery(c, cur) /\ c.id = i)
          /\ GoOn(Conflicting(i), "upsert")
          /\ NoFault /\ UNCHANGED crVars
    /\ OperatorOnly /\ UNCHANGED <<retry, recent, later>>

\* List by label, and the ownership check at the head of the loop of processStale.
ListManaged ==
    /\ pc = "upsert" /\ poll.todo = {}
    /\ \/ /\ GoOn([poll EXCEPT !.items = [n \in Names |->
                      IF /\ crCache[n].exists /\ crCache[n].owner # ""
                         /\ LabelOf[crCache[n].owner] = LabelOf[cur]
                         /\ collectorIsOwnedByDiscovery(crCache[n], cur)
                      THEN crCache[n] ELSE NoObject]], "stale")
          /\ NoFault
       \/ Fault("k8s") /\ Fail("UpsertFailed")
    /\ OperatorOnly /\ UNCHANGED <<retry, crVars, recent, later>>

Kept(n) == [poll EXCEPT !.items[n] = NoObject, !.managed = @ \cup {n}]

Pruned(n) == [poll EXCEPT !.items[n] = NoObject]

\* One round of processStale, with the copy that List returned.  Delete names the CR
\* and nothing else; NotFound is fine.
ProcessStale(n) ==
    LET c == poll.items[n] IN
    /\ pc = "stale" /\ c.exists
    /\ \/ c.id \in poll.current /\ PatchStale(n, c, FALSE, Kept(n), "stale")
       \/ /\ c.id \notin poll.current /\ mem.spec.onRemoved = "Delete"
          /\ \/ CRWrite(n, Deleted(crs[n])) /\ GoOn(Pruned(n), "stale") /\ NoFault
             \/ Fault("k8s") /\ Fail("UpsertFailed") /\ UNCHANGED crVars
             \/ Fault("k8sLost") /\ Fail("UpsertFailed") /\ CRWrite(n, Deleted(crs[n]))
       \/ /\ c.id \notin poll.current /\ mem.spec.onRemoved = "Keep"
          /\ PatchStale(n, c, TRUE, [Kept(n) EXCEPT !.stale = @ \cup {c.id}], "stale")
    /\ OperatorOnly /\ UNCHANGED <<retry, recent, later>>

Stamp == recent' = [recent EXCEPT ![cur] = TRUE]

\* Faulty variant: the status is written as one of the discovery as it is now.
UpdateStatusRetried ==
    /\ pc = "stale" /\ poll.items = NoItems
    /\ obj[cur].exists
    /\ Store(cur, [obj[cur] EXCEPT !.st = [SuccessStatus(mem, poll).st EXCEPT !.og = obj[cur].gen]])
    /\ Return(FALSE) /\ later' = later \cup {cur} /\ Stamp
    /\ pc' = "idle" /\ poll' = NoPoll
    /\ NoFault /\ OperatorOnly /\ UNCHANGED <<cache, retry, crVars>>

\* updateStatusSuccess: after a conflict too Reconcile waits for a pollInterval.
UpdateStatusSuccess ==
    LET o == [obj[cur] EXCEPT !.st = SuccessStatus(mem, poll).st] IN
    /\ pc = "stale" /\ poll.items = NoItems
    /\ \/ WriteAndReturn(o, FALSE) /\ later' = later \cup {cur} /\ Stamp /\ NoFault
       \/ /\ ~fresh /\ obj[cur].exists
          /\ JustReturn(FALSE)
          /\ later' = later \cup {cur} /\ NoFault /\ UNCHANGED recent
       \/ ~fresh /\ ~obj[cur].exists /\ JustReturn(TRUE) /\ NoFault /\ UNCHANGED <<later, recent>>
       \/ Fault("k8s") /\ JustReturn(TRUE) /\ UNCHANGED <<later, recent>>
       \/ Fault("k8sLost") /\ WriteAndReturn(o, TRUE) /\ Stamp /\ UNCHANGED later
    /\ pc' = "idle" /\ poll' = NoPoll
    /\ OperatorOnly /\ UNCHANGED <<retry, crVars>>

\* updateStatusError: the failed poll stamps lastSyncTime; Reconcile returns an error,
\* or asks for another run 30 s later.
UpdateStatusError ==
    /\ pc = "updateStatus"
    /\ KubeWrite([obj[cur] EXCEPT !.st = mem.st], TRUE, TRUE)
    /\ recent' = [recent EXCEPT ![cur] = @ \/ (obj'[cur] # obj[cur])]
    /\ OperatorOnly /\ UNCHANGED <<crVars, poll, later>>

Worker ==
    \/ ListCollectors
    \/ \E i \in Ids : Upsert(i)
    \/ ListManaged
    \/ \E n \in Names : ProcessStale(n)
    \/ UpdateStatusSuccess
    \/ UpdateStatusError

-----------------------------------------------------------------------------
(* Time, the informers and the operator process.                           *)

\* Time passes and the cache of discoveries moves on while the worker is idle: a busy
\* worker looks at neither, so that later is as good as now.
Elapse(k) ==
    /\ cur = ""
    /\ recent[k] \/ k \in later
    /\ recent' = [recent EXCEPT ![k] = FALSE]
    /\ later' = later \ {k}
    /\ queue' = IF k \in later THEN queue \cup {k} ELSE queue
    /\ NotWorker /\ UNCHANGED <<obj, watch, cache, cur, mem, fresh, fleet, crVars, edits>>

Inform(k) ==
    /\ cur = ""
    /\ Deliver(k)
    /\ NotWorker /\ UNCHANGED <<fleet, crVars, recent, later, edits>>

InformCR(n) ==
    /\ crWatch[n] # <<>>
    /\ crCache' = [crCache EXCEPT ![n] = Head(crWatch[n])]
    /\ crWatch' = [crWatch EXCEPT ![n] = Tail(@)]
    /\ NotWorker /\ UNCHANGED <<kubeVars, crs, fleet, recent, later, edits>>

\* All that is on its way is delivered before the worker starts again: the CRs have one
\* informer.
CatchUp ==
    /\ cur = ""
    /\ crCache' = crs
    /\ crWatch' = [n \in Names |-> <<>>]
    /\ NotWorker /\ UNCHANGED <<kubeVars, crs, fleet, recent, later, edits>>

\* A crash counts as a fault.
Restart ==
    /\ faults < MaxFaults
    /\ faults' = faults + 1
    /\ KubeRestart
    /\ crCache' = crs /\ crWatch' = [n \in Names |-> <<>>]
    /\ poll' = NoPoll /\ later' = {}
    /\ pc' = "idle" /\ retry' = FALSE
    /\ UNCHANGED <<crs, fleet, recent, edits>>

User ==
    \/ \E k \in Keys :
          \/ \E s \in Specs : CreateDiscovery(k, s) \/ EditSpec(k, s)
          \/ DeleteDiscovery(k)
    \/ \E i \in Ids, p \in Presence : ChangeFleet(i, p)
    \/ \E n \in Names :
          \/ \E i \in Ids, k \in Others \cup {""} : CRName[i] = n /\ CreateCR(n, k, i)
          \/ DeleteCR(n) \/ TakeOver(n) \/ AddFinalizer(n) \/ RemoveFinalizer(n)

Next ==
    \/ User
    \/ \E k \in Keys : Reconcile(k) \/ Inform(k) \/ Elapse(k)
    \/ \E n \in Names : InformCR(n)
    \/ CatchUp
    \/ Worker
    \/ Restart

Spec == Init /\ [][Next]_vars

\* As for the other controllers; time passes, and the Collector controller ends the
\* deletions it has to.  An informer is not late by a pollInterval, a minute or more,
\* for ever: time and again it has caught up when a poll begins.
Fairness ==
    /\ WF_vars(Worker)
    /\ \A k \in Keys : SF_vars(Reconcile(k)) /\ SF_vars(Inform(k)) /\ SF_vars(Elapse(k))
    /\ SF_vars(CatchUp)
    /\ \A n \in Names : WF_vars(RemoveFinalizer(n))

FairSpec == Spec /\ Fairness

-----------------------------------------------------------------------------
(* Properties.                                                             *)

\* Every variable keeps its type, and an idle worker holds no copy.
TypeOK ==
    /\ obj \in [Keys -> Version]
    /\ cache \in [Keys -> Version]
    /\ watch \in [Keys -> Seq(Version)]
    /\ queue \subseteq Keys /\ later \subseteq Keys
    /\ fresh \in BOOLEAN
    /\ pc \in Steps
    /\ \/ pc = "idle" /\ cur = "" /\ mem = NoObject
       \/ pc # "idle" /\ cur \in Keys /\ mem \in Discovery
    /\ retry = FALSE
    /\ fleet \in [Ids -> Presence]
    /\ crs \in [Names -> CRVersion] /\ crCache \in [Names -> CRVersion]
    /\ crWatch \in [Names -> Seq(CRVersion)]
    /\ poll \in Poll
    /\ recent \in [Keys -> BOOLEAN]
    /\ edits \in 0..MaxEdits /\ faults \in 0..MaxFaults

\* "Discovery is purely poll-driven via RequeueAfter; no cross-resource watches": no
\* way out of Reconcile, whatever fails in it, leaves a discovery that nothing will
\* ever look at again.
PollScheduled ==
    \A k \in Keys :
        obj[k].exists => k \in queue \cup later \/ cur = k \/ watch[k] # <<>>

\* A status that is Synced and current by its observedGeneration is of the stored spec,
\* although the poll it reports took its spec from a cache and then made many calls:
\* nothing is stale where vanished collectors are deleted, and no conflict is over a
\* collector that was not asked for.
SyncedIsOfSpec ==
    \A k \in Keys :
        (obj[k].exists /\ obj[k].st.ready = "True" /\ obj[k].st.og = obj[k].gen) =>
            /\ obj[k].spec.valid
            /\ obj[k].st.stale # {} => obj[k].spec.onRemoved = "Keep"
            /\ obj[k].spec.only # {} => obj[k].st.conflicts \subseteq obj[k].spec.only

WorkerMoved == <<pc, poll>>' # <<pc, poll>>

\* A statement of the repository: processStale handles CRs "whose collector ID is not
\* in the current Fleet result": a CR it has read and now deletes or marks is not of a
\* collector that this poll has found, although Get, Create and List saw the CRs at
\* different times.
PresentIsNotPruned ==
    [][\A n \in Names :
        (/\ pc = "stale" /\ WorkerMoved
         /\ crs[n].exists /\ crs'[n] # crs[n]
         /\ poll.items[n].exists /\ crs[n].id = poll.items[n].id
         /\ ~crs'[n].exists \/ crs'[n].del # crs[n].del \/ crs'[n].stale)
        => crs[n].id \notin poll.seen]_vars

\* Discovery k has nothing left to do and reports what there is: every collector it
\* looks for has its CR or is reported as a conflict, and every CR of its own is of
\* such a collector or is kept as a stale one.
Mirrored(k) ==
    LET wanted == Surviving(obj[k].spec)
        mine == {n \in Names : crs[n].exists /\ crs[n].owner = k}
        gone == {n \in mine : crs[n].id \notin wanted}
    IN  /\ \A i \in wanted : crs[CRName[i]].exists
        /\ gone # {} => obj[k].spec.onRemoved = "Keep"
        /\ \A n \in mine : crs[n].stale = (n \in gone)
        /\ obj[k].st.ready = "True" /\ obj[k].st.og = obj[k].gen
        /\ obj[k].st.managed = mine
        /\ obj[k].st.stale = {crs[n].id : n \in gone}
        /\ obj[k].st.conflicts =
              {i \in wanted : crs[CRName[i]].owner # k \/ crs[CRName[i]].id # i}

\* Once nothing else changes, the CRs mirror Fleet and the statuses are right, whatever
\* polls failed half-way and however the caches lagged.
Converges == <>[](\A k \in Keys : obj[k].exists /\ obj[k].spec.valid => Mirrored(k))

=============================================================================
