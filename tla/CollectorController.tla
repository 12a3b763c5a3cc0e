------------------------- MODULE CollectorController -------------------------
(***************************************************************************)
(* The Collector reconciler (internal/controller/collector_controller.go): *)
(* it merges the attributes that ExternalAttributeSyncs, the Collector and *)
(* RemoteAttributePolicies claim for a collector, writes the difference to *)
(* Fleet and records in status.attributeOwners what it has written.        *)
(*                                                                         *)
(* The reconciler sees syncs and policies only through its cache, so syncs *)
(* and policies hold the cached versions, and a change to them comes with  *)
(* the requests its watch makes.  All objects are in one namespace.  Syncs *)
(* and policies are numbers, in the alphabetical order of their names; the *)
(* owner of a Collector's own layer is 0.  Timestamps, the display name    *)
(* and the mirrored type of a collector are left out.                      *)
(***************************************************************************)
EXTENDS Controller, Attributes

CONSTANTS
    Id,           \* Id[k]: spec.id of Collector k, which is immutable
    SpecAttrs,    \* attribute maps a user may write into spec.remoteAttributes
    Syncs,        \* names of ExternalAttributeSyncs
    Claims,       \* what a sync may claim: [usable, claims], see Sync
    Policies,     \* names of RemoteAttributePolicies
    PolicySpecs,  \* specs of policies: [priority, sel, attrs]
    Locals,       \* local attributes a collector may report
    OtherKeys,    \* keys that clients other than the operator write
    Deregisters,  \* may a collector leave Fleet again?
    MaxEdits,     \* bound on changes by users and by the other clients
    MaxCrashes    \* bound on restarts of the operator

VARIABLES
    syncs,      \* syncs[s]: the sync as the cache has it, or NoSync
    policies,   \* policies[p]: likewise
    fleet,      \* fleet[i]: collector i in Fleet, or Unregistered
    plan,       \* what reconcileNormal has computed: [ops, st]
    edits, crashes

vars == <<kubeVars, pc, retry, faults, syncs, policies, fleet, plan, edits, crashes>>

-----------------------------------------------------------------------------
(* Types.                                                                  *)

Ids == {Id[k] : k \in Keys}

Kinds == {"ExternalAttributeSync", "Collector", "RemoteAttributePolicy"}

Owner == {NoOwner} \cup [kind : Kinds, owner : Nat, value : Vals]

Reasons == {"", "Synced", "SyncFailed", "ValidationError", "NotRegistered", "DeleteFailed"}

\* msg is the answer that the condition message was made from.  The conditions
\* carry the observedGeneration og.
Status == [og : Nat, registered : BOOLEAN, local : Locals \cup {<<>>},
           owners : [Attrs -> Owner], ready : {"Unknown", "True", "False"},
           reason : Reasons, msg : FaultCode \cup {""}]

Collector == [exists : {TRUE}, attrs : SpecAttrs, gen : Nat, fin : BOOLEAN,
              del : BOOLEAN, st : Status]

Version == Collector \cup {NoObject}

NewStatus == [og |-> 0, registered |-> FALSE, local |-> <<>>,
              owners |-> [a \in Attrs |-> NoOwner], ready |-> "Unknown",
              reason |-> "", msg |-> ""]

\* claims is status.ownedKeys; usable is FALSE while the Truncated condition is true.
Sync == [usable : BOOLEAN, claims : [Ids -> {None} \cup {Entry(m) : m \in AttrMap}]]
NoSync == [usable |-> FALSE]
NoPolicy == [priority |-> 0]

Unregistered == [registered |-> FALSE]
FleetCollector == [registered : {TRUE}, local : Locals, remote : AttrMap]

NoPlan == [ops |-> {}]

Steps == {"idle", "addFinalizer", "get", "bulkUpdate", "updateStatus",
          "finalUpdate", "removeFinalizer"}

MaxInt32 == 2147483647

ASSUME CollectorAssumption ==
    /\ SpecAttrs \subseteq AttrMap
    /\ Syncs \subseteq Nat \ {0} /\ Policies \subseteq Nat \ {0}
    /\ Claims \subseteq Sync
    /\ \A s \in PolicySpecs : s.attrs \in AttrMap
                              /\ s.priority \in Int /\ s.priority <= MaxInt32
    /\ OtherKeys \subseteq Attrs
    /\ Deregisters \in BOOLEAN
    /\ {MaxEdits, MaxCrashes} \subseteq Nat

\* The keys of other clients are claimed by nobody else.
ASSUME OtherKeysAssumption ==
    \A a \in OtherKeys :
        /\ \A m \in SpecAttrs : m[a] = Absent
        /\ \A s \in PolicySpecs : s.attrs[a] = Absent
        /\ \A c \in Claims, i \in Ids : c.claims[i].entry => c.claims[i].attrs[a] = Absent

-----------------------------------------------------------------------------
(* The three layers.                                                       *)

Earlier(x, y) == x < y

externalSyncLayer(k) ==
    LET S == {s \in Syncs : syncs[s] # NoSync /\ syncs[s].usable
                            /\ syncs[s].claims[Id[k]].entry}
        AttrsOf(s) == syncs[s].claims[Id[k]].attrs
    IN  LayerOf("ExternalAttributeSync", S, Earlier, AttrsOf)

Outranks(p, q) ==
    \/ policies[p].priority > policies[q].priority
    \/ policies[p].priority = policies[q].priority /\ p < q

policyLayer(k, local) ==
    LET S == {p \in Policies : policies[p] # NoPolicy
                               /\ Match(policies[p].sel, Id[k], local)}
        AttrsOf(p) == policies[p].attrs
    IN  LayerOf("RemoteAttributePolicy", S, Outranks, AttrsOf)

collectorLayer(o) == [kind |-> "Collector", owner |-> 0, attrs |-> o.attrs]

\* Precedence: ExternalAttributeSync, Collector spec, policy.
MergedOwners(k, o, local) ==
    Merge(externalSyncLayer(k), collectorLayer(o), policyLayer(k, local))

-----------------------------------------------------------------------------
(* The statuses the code writes.                                           *)

SyncedStatus(o, owners, local) ==
    [og |-> o.gen, registered |-> TRUE, local |-> local, owners |-> owners,
     ready |-> "True", reason |-> "Synced", msg |-> ""]

NotRegisteredStatus(o) ==
    [o.st EXCEPT !.og = o.gen, !.registered = FALSE, !.ready = "False",
                 !.reason = "NotRegistered", !.msg = ""]

ErrorStatus(o, reason, code) ==
    [o.st EXCEPT !.og = o.gen, !.ready = "False", !.reason = reason, !.msg = code]

-----------------------------------------------------------------------------
Init ==
    /\ KubeInit([k \in Keys |-> NoObject])
    /\ syncs \in [Syncs -> {NoSync} \cup Claims]
    /\ policies \in [Policies -> {NoPolicy} \cup PolicySpecs]
    /\ fleet \in [Ids -> {Unregistered} \cup
                         [registered : {TRUE}, local : Locals, remote : {NoAttrs}]]
    /\ plan = NoPlan
    /\ pc = "idle" /\ retry = FALSE
    /\ edits = 0 /\ faults = 0 /\ crashes = 0

-----------------------------------------------------------------------------
(* Users, collectors and other clients of Fleet.                           *)

Edit == edits < MaxEdits /\ edits' = edits + 1

NotOperator == UNCHANGED <<pc, retry, plan, faults, crashes>>

UserOnly == NotOperator /\ UNCHANGED <<syncs, policies, fleet>>

CreateCollector(k, attrs) ==
    /\ Edit
    /\ ~obj[k].exists
    /\ UserWrite(k, [exists |-> TRUE, attrs |-> attrs, gen |-> 1, fin |-> FALSE,
                     del |-> FALSE, st |-> NewStatus])
    /\ UserOnly

EditSpec(k, attrs) ==
    /\ Edit
    /\ obj[k].exists
    /\ attrs # obj[k].attrs
    /\ UserWrite(k, [obj[k] EXCEPT !.attrs = attrs, !.gen = @ + 1])
    /\ UserOnly

DeleteCollector(k) ==
    /\ Edit
    /\ obj[k].exists
    /\ ~obj[k].del
    /\ UserWrite(k, IF obj[k].fin THEN [obj[k] EXCEPT !.del = TRUE, !.gen = @ + 1]
                                  ELSE NoObject)
    /\ UserOnly

\* Requests that a watch other than For() makes.
Enqueue(requests) ==
    /\ queue' = queue \cup requests
    /\ UNCHANGED <<obj, watch, cache, cur, mem, fresh>>

collectorsTouchedBySync(sync) ==
    {k \in Keys : sync # NoSync /\ cache[k].exists /\ sync.claims[Id[k]].entry}

\* collectorExternalSyncWatchPredicate: an update passes only if the entries differ.
SyncWatched(old, new) ==
    old = NoSync \/ new = NoSync \/ ~ownedKeyEntriesEqual(old.claims, new.claims)

\* A sync appears, goes, or claims something else.  The watch maps the old and the
\* new version.
ChangeSync(s, new) ==
    /\ Edit
    /\ new # syncs[s]
    /\ syncs' = [syncs EXCEPT ![s] = new]
    /\ Enqueue(IF SyncWatched(syncs[s], new)
               THEN collectorsTouchedBySync(syncs[s]) \cup collectorsTouchedBySync(new)
               ELSE {})
    /\ NotOperator /\ UNCHANGED <<policies, fleet>>

\* The watch matches the local attributes of the status, not those in Fleet.
collectorsMatchedByPolicy(policy) ==
    {k \in Keys : policy # NoPolicy /\ cache[k].exists
                  /\ Match(policy.sel, Id[k], cache[k].st.local)}

ChangePolicy(p, new) ==
    /\ Edit
    /\ new # policies[p]
    /\ policies' = [policies EXCEPT ![p] = new]
    /\ Enqueue(collectorsMatchedByPolicy(policies[p]) \cup collectorsMatchedByPolicy(new))
    /\ NotOperator /\ UNCHANGED <<syncs, fleet>>

\* A collector registers, or reports other local attributes.
Report(i, local) ==
    /\ Edit
    /\ fleet' = [fleet EXCEPT ![i] =
                    [registered |-> TRUE, local |-> local,
                     remote |-> IF @.registered THEN @.remote ELSE NoAttrs]]
    /\ fleet' # fleet
    /\ NotOperator /\ UNCHANGED <<kubeVars, syncs, policies>>

Deregister(i) ==
    /\ Deregisters
    /\ Edit
    /\ fleet[i].registered
    /\ fleet' = [fleet EXCEPT ![i] = Unregistered]
    /\ NotOperator /\ UNCHANGED <<kubeVars, syncs, policies>>

\* Another client of Fleet sets or removes one of its own attributes.
OtherWrite(i, a, v) ==
    /\ Edit
    /\ fleet[i].registered
    /\ v # fleet[i].remote[a]
    /\ fleet' = [fleet EXCEPT ![i].remote[a] = v]
    /\ NotOperator /\ UNCHANGED <<kubeVars, syncs, policies>>

-----------------------------------------------------------------------------
(* Reconcile, up to the first call.                                        *)

OperatorOnly == UNCHANGED <<syncs, policies, edits, crashes>>

\* NotFound, or being deleted with the finalizer already gone.
ReconcileNothing(k) ==
    /\ ~cache[k].exists \/ (cache[k].exists /\ cache[k].del /\ ~cache[k].fin)
    /\ FetchAndReturn(k)
    /\ NoFault /\ OperatorOnly /\ UNCHANGED <<pc, retry, fleet, plan>>

ReconcileFinalizer(k) ==
    /\ cache[k].exists /\ ~cache[k].del /\ ~cache[k].fin
    /\ Fetch(k, [cache[k] EXCEPT !.fin = TRUE])
    /\ pc' = "addFinalizer"
    /\ NoFault /\ OperatorOnly /\ UNCHANGED <<retry, fleet, plan>>

\* Faulty variant: does not wait for the finalizer to be stored.
ToSyncUnfinalized(k) == cache[k].exists /\ ~cache[k].del

\* There is no observedGeneration guard.
ToSync(k) == cache[k].exists /\ ~cache[k].del /\ cache[k].fin

ReconcileNormal(k) ==
    /\ ToSync(k)
    /\ Fetch(k, cache[k])
    /\ pc' = "get"
    /\ NoFault /\ OperatorOnly /\ UNCHANGED <<retry, fleet, plan>>

ReconcileDelete(k) ==
    /\ cache[k].exists /\ cache[k].del /\ cache[k].fin
    /\ Fetch(k, cache[k])
    /\ pc' = IF allOwnedKeys(cache[k].st.owners) = {} THEN "removeFinalizer" ELSE "finalUpdate"
    /\ NoFault /\ OperatorOnly /\ UNCHANGED <<retry, fleet, plan>>

Reconcile(k) ==
    \/ ReconcileNothing(k)
    \/ ReconcileFinalizer(k)
    \/ ReconcileNormal(k)
    \/ ReconcileDelete(k)

-----------------------------------------------------------------------------
(* Where a call leads.  A status that would not change is not written.     *)

WriteStatus(st, again) ==
    \/ /\ st # mem.st
       /\ Continue([mem EXCEPT !.st = st])
       /\ pc' = "updateStatus"
       /\ retry' = again
    \/ /\ st = mem.st
       /\ JustReturn(again)
       /\ pc' = "idle"
       /\ UNCHANGED retry

updateStatusError(reason, code) ==
    WriteStatus(ErrorStatus(mem, reason, code), shouldRetry(code, reason))

handleAPIError(code) ==
    \/ code = "400" /\ updateStatusError("ValidationError", code)
    \/ code = "429" /\ RequeueAfter
    \/ code \notin {"400", "429"} /\ updateStatusError("SyncFailed", code)

\* Faulty variant: no periodic resync after a success.
updateStatusSuccessOnce(st) == WriteStatus(st, FALSE)

\* Asks for another run after collectorPeriodicResyncAfter.
updateStatusSuccess(st) == WriteStatus(st, TRUE)

-----------------------------------------------------------------------------
(* The calls of the worker.                                                *)

\* GetCollector, and the layers merged and compared with what it returned.
GetCollector ==
    LET i == Id[cur] IN
    /\ pc = "get"
    /\ \/ /\ fleet[i].registered
          /\ LET owners == MergedOwners(cur, mem, fleet[i].local)
                 ops == Diff(Desired(owners), fleet[i].remote, allOwnedKeys(mem.st.owners))
                 st == SyncedStatus(mem, owners, fleet[i].local)
             IN  \/ /\ ops = {}
                    /\ updateStatusSuccess(st)
                    /\ UNCHANGED plan
                 \/ /\ ops # {}
                    /\ plan' = [ops |-> ops, st |-> st]
                    /\ Continue(mem)
                    /\ pc' = "bulkUpdate"
                    /\ UNCHANGED retry
          /\ NoFault
       \/ /\ ~fleet[i].registered
          /\ WriteStatus(NotRegisteredStatus(mem), TRUE)
          /\ NoFault /\ UNCHANGED plan
       \/ \E code \in FleetFault \ {"404"} :
             Fault(code) /\ handleAPIError(code) /\ UNCHANGED plan
    /\ OperatorOnly /\ UNCHANGED fleet

BulkEffect(i, ops) == fleet' = [fleet EXCEPT ![i].remote = Applied(ops, @)]

\* BulkUpdateCollectors in reconcileNormal.
BulkUpdate ==
    LET i == Id[cur] IN
    /\ pc = "bulkUpdate"
    /\ \/ /\ fleet[i].registered
          /\ BulkEffect(i, plan.ops)
          /\ updateStatusSuccess(plan.st)
          /\ NoFault
       \/ /\ ~fleet[i].registered
          /\ handleAPIError("404")
          /\ NoFault /\ UNCHANGED fleet
       \/ \E code \in FleetFault \ {"404"} :
             /\ Fault(code)
             /\ IF code = "lost" /\ fleet[i].registered
                THEN BulkEffect(i, plan.ops) ELSE UNCHANGED fleet
             /\ handleAPIError(code)
    /\ plan' = NoPlan
    /\ OperatorOnly

\* The REMOVE operations of reconcileDelete: their paths are not escaped.
removeOwned(owners) ==
    {[op |-> "REMOVE", path |-> [key |-> a, escaped |-> FALSE], value |-> ""] :
        a \in allOwnedKeys(owners)}

\* Faulty variant: any error of the call counts as "already gone".
FinalUpdateBestEffort ==
    LET i == Id[cur] IN
    /\ pc = "finalUpdate"
    /\ \/ fleet[i].registered /\ BulkEffect(i, removeOwned(mem.st.owners)) /\ NoFault
       \/ ~fleet[i].registered /\ NoFault /\ UNCHANGED fleet
       \/ \E code \in FleetFault \ {"404"} : Fault(code) /\ UNCHANGED fleet
    /\ Continue(mem)
    /\ pc' = "removeFinalizer"
    /\ OperatorOnly /\ UNCHANGED <<retry, plan>>

\* BulkUpdateCollectors in reconcileDelete; a 404 counts as done.
FinalUpdate ==
    LET i == Id[cur] IN
    /\ pc = "finalUpdate"
    /\ \/ /\ IF fleet[i].registered THEN BulkEffect(i, removeOwned(mem.st.owners))
                                    ELSE UNCHANGED fleet
          /\ Continue(mem)
          /\ pc' = "removeFinalizer"
          /\ NoFault /\ UNCHANGED retry
       \/ \E code \in FleetFault \ {"404"} :
             /\ Fault(code)
             /\ IF code = "lost" /\ fleet[i].registered
                THEN BulkEffect(i, removeOwned(mem.st.owners)) ELSE UNCHANGED fleet
             /\ updateStatusError("DeleteFailed", code)
    /\ OperatorOnly /\ UNCHANGED plan

CollectorWrite(o, requeue, onError) ==
    /\ KubeWrite(o, requeue, onError)
    /\ OperatorOnly /\ UNCHANGED <<fleet, plan>>

AddFinalizer ==
    /\ pc = "addFinalizer"
    /\ CollectorWrite(mem, FALSE, TRUE)

RemoveFinalizer ==
    /\ pc = "removeFinalizer"
    /\ CollectorWrite(NoObject, FALSE, TRUE)

UpdateStatus ==
    /\ pc = "updateStatus"
    /\ CollectorWrite([obj[cur] EXCEPT !.st = mem.st], retry, retry)

Worker ==
    \/ GetCollector \/ BulkUpdate \/ FinalUpdate
    \/ AddFinalizer \/ RemoveFinalizer \/ UpdateStatus

-----------------------------------------------------------------------------
(* The operator process.                                                   *)

Inform(k) ==
    /\ Deliver(k)
    /\ UNCHANGED <<pc, retry, faults, syncs, policies, fleet, plan, edits, crashes>>

Restart ==
    /\ crashes < MaxCrashes
    /\ crashes' = crashes + 1
    /\ KubeRestart
    /\ pc' = "idle" /\ retry' = FALSE /\ plan' = NoPlan
    /\ UNCHANGED <<faults, syncs, policies, fleet, edits>>

User ==
    \/ \E k \in Keys :
          \/ \E m \in SpecAttrs : CreateCollector(k, m) \/ EditSpec(k, m)
          \/ DeleteCollector(k)
    \/ \E s \in Syncs, new \in {NoSync} \cup Claims : ChangeSync(s, new)
    \/ \E p \in Policies, new \in {NoPolicy} \cup PolicySpecs : ChangePolicy(p, new)
    \/ \E i \in Ids :
          \/ \E local \in Locals : Report(i, local)
          \/ Deregister(i)
          \/ \E a \in OtherKeys, v \in Vals \cup {Absent} : OtherWrite(i, a, v)

Next ==
    \/ User
    \/ \E k \in Keys : Reconcile(k) \/ Inform(k)
    \/ Worker
    \/ Restart

Spec == Init /\ [][Next]_vars

\* As for the Pipeline controller.
Fairness ==
    /\ WF_vars(Worker)
    /\ \A k \in Keys : SF_vars(Reconcile(k)) /\ WF_vars(Inform(k))

FairSpec == Spec /\ Fairness

-----------------------------------------------------------------------------
(* Properties.                                                             *)

\* Every variable keeps its type; an idle worker holds no copy, and a plan is held
\* exactly while it waits to be sent.
TypeOK ==
    /\ obj \in [Keys -> Version]
    /\ cache \in [Keys -> Version]
    /\ watch \in [Keys -> Seq(Version)]
    /\ queue \subseteq Keys
    /\ fresh \in BOOLEAN
    /\ pc \in Steps
    /\ \/ pc = "idle" /\ cur = "" /\ mem = NoObject
       \/ pc # "idle" /\ cur \in Keys /\ mem \in Collector
    /\ retry \in BOOLEAN
    /\ syncs \in [Syncs -> {NoSync} \cup Claims]
    /\ policies \in [Policies -> {NoPolicy} \cup PolicySpecs]
    /\ fleet \in [Ids -> {Unregistered} \cup FleetCollector]
    /\ IF pc = "bulkUpdate" THEN plan.st \in Status ELSE plan = NoPlan
    /\ edits \in 0..MaxEdits
    /\ faults \in 0..MaxFaults
    /\ crashes \in 0..MaxCrashes

\* A collector is written to only for a Collector that is stored with the
\* finalizer, however stale the cache: otherwise nobody would clean up.
FinalizerBeforeFleet ==
    pc \in {"get", "bulkUpdate"} => obj[cur].exists /\ obj[cur].fin

\* Diff: keys that no layer claims "belong to some other writer (or to nobody)" and
\* "are left untouched".  No step of the operator changes a key of another client,
\* whatever the status has recorded over any number of reconciles and restarts.
OthersUntouched ==
    [][edits' = edits =>
        \A i \in Ids : fleet[i].registered =>
            /\ fleet'[i].registered
            /\ \A a \in OtherKeys : fleet'[i].remote[a] = fleet[i].remote[a]]_vars

\* reconcileDelete: when the finalizer of a Collector goes, every key its status
\* has recorded is gone from Fleet.
RecordedIsCleanedUp ==
    [][\A k \in Keys :
        (obj[k].exists /\ obj[k].fin /\ ~obj'[k].exists /\ fleet[Id[k]].registered)
        => \A a \in allOwnedKeys(obj[k].st.owners) : fleet[Id[k]].remote[a] = Absent]_vars

\* "AttributeOwnership records the owner and current value of one remote attribute
\* key": when a status with Ready=True is stored, Fleet holds every value it records
\* and none of the keys it has stopped recording.
RecordedIsWritten ==
    [][\A k \in Keys :
        LET old == obj[k].st.owners
            new == obj'[k].st.owners
        IN  (obj[k].exists /\ obj'[k].exists /\ obj'[k].st # obj[k].st
             /\ obj'[k].st.ready = "True")
            => /\ fleet[Id[k]].registered
               /\ \A a \in allOwnedKeys(old) \cup allOwnedKeys(new) :
                     fleet[Id[k]].remote[a] = new[a].value]_vars

\* What is wanted for Collector k as things are now.
Wanted(k) == Desired(MergedOwners(k, obj[k], fleet[Id[k]].local))

\* Once users, faults and crashes stop, a Collector being deleted goes away, and
\* every other one has its wanted attributes in Fleet and in its status, or says
\* that the collector has not registered.  The watches may miss a change (policies
\* are matched with the local attributes of the status); the periodic resync may not.
Converges ==
    <>[](\A k \in Keys : obj[k].exists =>
            /\ ~obj[k].del
            /\ IF fleet[Id[k]].registered
               THEN /\ obj[k].st.ready = "True"
                    /\ Desired(obj[k].st.owners) = Wanted(k)
                    /\ \A a \in Attrs :
                          Wanted(k)[a] \in {Absent, fleet[Id[k]].remote[a]}
               ELSE obj[k].st.reason = "NotRegistered")

\* collectorPeriodicResyncAfter "ensures stale remote attributes are eventually
\* removed": in the end Fleet holds only keys of other clients and wanted ones.
StaleKeysGo ==
    <>[](\A i \in Ids : fleet[i].registered =>
            \A a \in Attrs \ OtherKeys : fleet[i].remote[a] # Absent =>
                \E k \in Keys : Id[k] = i /\ obj[k].exists /\ Wanted(k)[a] # Absent)

=============================================================================
