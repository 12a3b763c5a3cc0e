---------------------------- MODULE ExternalSync ----------------------------
(***************************************************************************)
(* The ExternalAttributeSync reconciler                                    *)
(* (internal/controller/external_sync_controller.go): it asks an external  *)
(* source for records and publishes, in status.ownedKeys, which attributes *)
(* it claims for which collector.                                          *)
(*                                                                         *)
(* Reconciles of different syncs share nothing but a rate limiter, so one  *)
(* worker stands for the several there may be.  Requests that come back    *)
(* with the backoff go to the queue; timer holds those that wait for the   *)
(* next scheduled run.  Collectors and the Secret are what the cache has;  *)
(* a change to them comes with the requests its watch makes.               *)
(***************************************************************************)
EXTENDS Controller, Claims

CONSTANTS
    Specs,        \* specs a user may write, see Spec below
    Answers,      \* sequences of records the source may hold
    Collectors,   \* Collectors as they may be: [exists, local, remote]
    MaxEdits      \* bound on changes by users, collectors and the source

VARIABLES
    timer,        \* requests that wait for their schedule
    collectors,   \* collectors[i]: the Collector with spec.id i, or NoCollector
    secret,       \* the Secret: "ok", or "bad" (missing, or the factory rejects it)
    source,       \* what the source would answer
    answer,       \* what it has answered in the reconcile under way
    edits

world == <<collectors, secret, source>>

vars == <<kubeVars, pc, retry, faults, timer, world, answer, edits>>

-----------------------------------------------------------------------------
(* Types.                                                                  *)

Condition == {"", "True", "False"}

Reasons == {"", "Synced", "SourceFailed", "Stalled", "InvalidSchedule", "OwnedKeysExceeded"}

\* Ready and Synced are always set alike.  time is a clock of two values for
\* lastSyncTime: all that counts is whether a write changed it.
Status == [og : Nat, seen : Nat, applied : Nat, owned : Ownership, truncated : Condition,
           stalled : Condition, ready : Condition, reason : Reasons, time : BOOLEAN]

\* ref: no secretRef, one in the sync's namespace, or one in another namespace.
Sync == [exists : {TRUE}, spec : Specs, gen : Nat, st : Status]

Version == Sync \cup {NoObject}

NewStatus == [og |-> 0, seen |-> 0, applied |-> 0, owned |-> NoClaims, truncated |-> "",
              stalled |-> "", ready |-> "", reason |-> "", time |-> FALSE]

NoCollector == [exists |-> FALSE]

Steps == {"idle", "fetch", "project", "updateStatus"}

ASSUME ExternalSyncAssumption ==
    /\ \A s \in Specs :
          /\ s.sel.ids \subseteq Ids /\ s.mapping \in Mapping /\ s.allowEmpty \in BOOLEAN
          /\ s.schedule \in {"ok", "bad"} /\ s.ref \in {"", "own", "other"}
    /\ Answers \subseteq Seq(Record) /\ <<>> \in Answers
    /\ \A c \in Collectors : c.exists
    /\ "" \notin Ids /\ NoObject \notin Specs
    /\ MaxEdits \in Nat

NewSync(s) == [exists |-> TRUE, spec |-> s, gen |-> 1, st |-> NewStatus]

\* The operator starts; Collectors, Secret, source and syncs may have been there before.
Init ==
    /\ \E stored \in [Keys -> {NoObject} \cup {NewSync(s) : s \in Specs}] : KubeInit(stored)
    /\ pc = "idle" /\ retry = FALSE
    /\ timer = {}
    /\ collectors \in {[i \in Ids |-> c] : c \in {NoCollector} \cup Collectors}
    /\ secret = "ok"
    /\ source \in Answers
    /\ answer = <<>>
    /\ edits = 0 /\ faults = 0

-----------------------------------------------------------------------------
(* Users, collectors and the source.                                       *)

Edit == edits < MaxEdits /\ edits' = edits + 1

NotOperator == UNCHANGED <<pc, retry, faults, timer, answer>>

CreateSync(k, s) ==
    /\ Edit
    /\ ~obj[k].exists
    /\ UserWrite(k, NewSync(s))
    /\ NotOperator /\ UNCHANGED world

EditSpec(k, s) ==
    /\ Edit
    /\ obj[k].exists
    /\ s # obj[k].spec
    /\ UserWrite(k, [obj[k] EXCEPT !.spec = s, !.gen = @ + 1])
    /\ NotOperator /\ UNCHANGED world

\* There is no finalizer.
DeleteSync(k) ==
    /\ Edit
    /\ obj[k].exists
    /\ UserWrite(k, NoObject)
    /\ NotOperator /\ UNCHANGED world

Enqueue(requests) ==
    /\ queue' = queue \cup requests
    /\ UNCHANGED <<obj, watch, cache, cur, mem, fresh>>

\* Nobody tells the operator.
ChangeSource(records) ==
    /\ Edit
    /\ records # source
    /\ source' = records
    /\ NotOperator /\ UNCHANGED <<kubeVars, collectors, secret>>

syncsReferencingSecret == {k \in Keys : cache[k].exists /\ cache[k].spec.ref = "own"}

ChangeSecret(new) ==
    /\ Edit
    /\ new # secret
    /\ secret' = new
    /\ Enqueue(syncsReferencingSecret)
    /\ NotOperator /\ UNCHANGED <<collectors, source>>

mapCollectorToAffectedSyncs(c) ==
    {k \in Keys : cache[k].exists /\ Affected(cache[k].spec.sel, c)}

\* A Collector appears, goes, or has other attributes; an update maps both versions.
ChangeCollector(i, new) ==
    /\ Edit
    /\ new # collectors[i]
    /\ collectors' = [collectors EXCEPT ![i] = new]
    /\ Enqueue(mapCollectorToAffectedSyncs(collectors[i]) \cup mapCollectorToAffectedSyncs(new))
    /\ NotOperator /\ UNCHANGED <<secret, source>>

-----------------------------------------------------------------------------
(* The statuses the code writes.  An error and a stall always set          *)
(* lastSyncTime, whose resolution is a second: t.                          *)

ErrorStatus(o, reason, t) ==
    [o.st EXCEPT !.og = o.gen, !.ready = "False", !.reason = reason, !.time = t]

StalledStatus(o, t) ==
    [o.st EXCEPT !.og = o.gen, !.seen = 0, !.stalled = "True", !.ready = "False",
                 !.reason = "Stalled", !.time = t]

ExceededStatus(o, seen, applied) ==
    [o.st EXCEPT !.og = o.gen, !.seen = seen, !.applied = applied, !.owned = NoClaims,
                 !.truncated = "True", !.stalled = "False", !.ready = "False",
                 !.reason = "OwnedKeysExceeded"]

SyncedStatus(o, seen, applied, owned) ==
    [o.st EXCEPT !.og = o.gen, !.seen = seen, !.applied = applied, !.owned = owned,
                 !.truncated = "False", !.stalled = "False", !.ready = "True",
                 !.reason = "Synced"]

\* Faulty variant: conditions are not looked at.
statusUnchangedButConditions(o, seen, applied, owned) ==
    /\ o.st.og = o.gen /\ o.st.seen = seen /\ o.st.applied = applied
    /\ ownedKeyEntriesEqual(o.st.owned, owned)

externalSyncStatusUnchanged(o, seen, applied, owned) ==
    /\ o.st.og = o.gen /\ o.st.seen = seen /\ o.st.applied = applied
    /\ ownedKeyEntriesEqual(o.st.owned, owned)
    /\ o.st.truncated # "True" /\ o.st.stalled # "True"
    /\ o.st.ready = "True"

externalSyncCapExceededStatusUnchanged(o, seen, applied) ==
    /\ o.st.og = o.gen /\ o.st.seen = seen /\ o.st.applied = applied
    /\ o.st.owned = NoClaims
    /\ o.st.truncated = "True" /\ o.st.stalled # "True"
    /\ o.st.ready = "False" /\ o.st.reason = "OwnedKeysExceeded"

-----------------------------------------------------------------------------
(* Reconcile, up to the call to the source.                                *)

OperatorOnly == UNCHANGED <<world, edits>>

\* The secret cannot be read, or the factory cannot build a source from it.
secretErr(spec) ==
    \/ spec.ref = "other"
    \/ spec.ref = "own" /\ secret # "ok"

ReconcileNothing(k) ==
    /\ ~cache[k].exists
    /\ FetchAndReturn(k)
    /\ NoFault /\ OperatorOnly /\ UNCHANGED <<pc, retry, timer, answer>>

ReconcileError(k) ==
    /\ cache[k].exists
    /\ \E t \in BOOLEAN :
          \/ /\ cache[k].spec.schedule = "bad"
             /\ Fetch(k, [cache[k] EXCEPT !.st = ErrorStatus(cache[k], "InvalidSchedule", t)])
          \/ /\ cache[k].spec.schedule # "bad"
             /\ secretErr(cache[k].spec)
             /\ Fetch(k, [cache[k] EXCEPT !.st = ErrorStatus(cache[k], "SourceFailed", t)])
    /\ pc' = "updateStatus" /\ retry' = TRUE
    /\ NoFault /\ OperatorOnly /\ UNCHANGED <<timer, answer>>

ReconcileFetch(k) ==
    /\ cache[k].exists
    /\ cache[k].spec.schedule # "bad" /\ ~secretErr(cache[k].spec)
    /\ Fetch(k, cache[k])
    /\ pc' = "fetch"
    /\ NoFault /\ OperatorOnly /\ UNCHANGED <<retry, timer, answer>>

Reconcile(k) == ReconcileNothing(k) \/ ReconcileError(k) \/ ReconcileFetch(k)

-----------------------------------------------------------------------------
(* The calls of the worker.                                                *)

\* Go on to write st; again: Reconcile returns an error after the write.
ToWrite(st, again) ==
    /\ Continue([mem EXCEPT !.st = st])
    /\ pc' = "updateStatus" /\ retry' = again
    /\ UNCHANGED timer

\* Nothing to write until the next scheduled run.
NoOp ==
    /\ JustReturn(FALSE)
    /\ pc' = "idle"
    /\ timer' = timer \cup {cur}
    /\ UNCHANGED retry

FetchSource ==
    /\ pc = "fetch"
    /\ \/ /\ answer' = source
          /\ Continue(mem)
          /\ pc' = "project"
          /\ NoFault /\ UNCHANGED <<retry, timer>>
       \/ /\ Fault("5xx")
          /\ \E t \in BOOLEAN : ToWrite(ErrorStatus(mem, "SourceFailed", t), TRUE)
          /\ UNCHANGED answer
    /\ OperatorOnly

matchedCollectors(sel) ==
    {i \in Ids : collectors[i].exists /\ Match(sel, i, collectors[i].local)}

\* Faulty variant: no guard against an empty answer.
emptyGuardOff(o, records) == FALSE

emptyGuard(o, records) == ~o.spec.allowEmpty /\ records = <<>> /\ o.st.applied > 0

\* Without the Collectors there is nothing to report: retry.
ListFailed ==
    /\ JustReturn(TRUE)
    /\ pc' = "idle"
    /\ UNCHANGED <<retry, timer>>

\* List the Collectors, then decide what the answer means for them.
Project ==
    LET matched == matchedCollectors(mem.spec.sel)
        owned == projectRecords(answer, mem.spec.mapping, matched)
        seen == Len(answer)
        applied == recordsApplied(answer, mem.spec.mapping, matched)
    IN
    /\ pc = "project"
    /\ \/ Fault("k8s") /\ ListFailed
       \/ /\ NoFault
          /\ emptyGuard(mem, answer)
          /\ \E t \in BOOLEAN : ToWrite(StalledStatus(mem, t), FALSE)
       \/ /\ NoFault
          /\ ~emptyGuard(mem, answer)
          /\ ownedKeysExceeded(owned)
          /\ IF externalSyncCapExceededStatusUnchanged(mem, seen, applied)
             THEN NoOp
             ELSE ToWrite(ExceededStatus(mem, seen, applied), FALSE)
       \/ /\ NoFault
          /\ ~emptyGuard(mem, answer)
          /\ ~ownedKeysExceeded(owned)
          /\ IF externalSyncStatusUnchanged(mem, seen, applied, owned)
             THEN NoOp
             ELSE ToWrite(SyncedStatus(mem, seen, applied, owned), FALSE)
    /\ answer' = <<>>
    /\ OperatorOnly

\* A write that succeeds waits for the schedule, unless it reported an error; one that
\* fails, by a conflict or otherwise, is retried.  A request that is queued again
\* already needs no timer.
UpdateStatus ==
    /\ pc = "updateStatus"
    /\ KubeWrite([obj[cur] EXCEPT !.st = mem.st], retry, TRUE)
    /\ timer' = IF cur \in queue' THEN timer ELSE timer \cup {cur}
    /\ OperatorOnly /\ UNCHANGED answer

Worker == FetchSource \/ Project \/ UpdateStatus

-----------------------------------------------------------------------------
(* The operator process.                                                   *)

Inform(k) ==
    /\ Deliver(k)
    /\ UNCHANGED <<pc, retry, faults, timer, world, answer, edits>>

ScheduledRun(k) ==
    /\ k \in timer
    /\ timer' = timer \ {k}
    /\ Enqueue({k})
    /\ UNCHANGED <<pc, retry, faults, world, answer, edits>>

\* A crash counts as a fault.
Restart ==
    /\ faults < MaxFaults
    /\ faults' = faults + 1
    /\ KubeRestart
    /\ timer' = {}
    /\ pc' = "idle" /\ retry' = FALSE /\ answer' = <<>>
    /\ UNCHANGED <<world, edits>>

User ==
    \/ \E k \in Keys :
          \/ \E s \in Specs : CreateSync(k, s) \/ EditSpec(k, s)
          \/ DeleteSync(k)
    \/ \E records \in Answers : ChangeSource(records)
    \/ \E new \in {"bad", "ok"} : ChangeSecret(new)
    \/ \E i \in Ids, new \in {NoCollector} \cup Collectors : ChangeCollector(i, new)

Next ==
    \/ User
    \/ \E k \in Keys : Reconcile(k) \/ Inform(k) \/ ScheduledRun(k)
    \/ Worker
    \/ Restart

Spec == Init /\ [][Next]_vars

\* As for the other controllers, and timers go off.
Fairness ==
    /\ WF_vars(Worker)
    /\ \A k \in Keys : SF_vars(Reconcile(k)) /\ WF_vars(Inform(k)) /\ WF_vars(ScheduledRun(k))

FairSpec == Spec /\ Fairness

-----------------------------------------------------------------------------
(* Properties.                                                             *)

\* Every variable keeps its type; claims stay within the cap, and an answer is held
\* only while it is projected.
TypeOK ==
    /\ obj \in [Keys -> Version]
    /\ cache \in [Keys -> Version]
    /\ watch \in [Keys -> Seq(Version)]
    /\ queue \subseteq Keys
    /\ timer \subseteq Keys
    /\ fresh \in BOOLEAN
    /\ pc \in Steps
    /\ \/ pc = "idle" /\ cur = "" /\ mem = NoObject
       \/ pc # "idle" /\ cur \in Keys /\ mem \in Sync
    /\ retry \in BOOLEAN
    /\ collectors \in [Ids -> {NoCollector} \cup Collectors]
    /\ secret \in {"bad", "ok"}
    /\ {source, answer} \subseteq Answers
    /\ pc # "project" => answer = <<>>
    /\ \A k \in Keys : obj[k].exists => Cardinality(Claimed(obj[k].st.owned)) <= MaxOwned
    /\ edits \in 0..MaxEdits
    /\ faults \in 0..MaxFaults

HO == INSTANCE Handoff
        WITH spec <- [k \in Keys |-> IF obj[k].exists THEN obj[k].spec ELSE NoObject],
             claims <- [k \in Keys |-> IF obj[k].exists THEN obj[k].st.owned ELSE NoClaims],
             seen <- [k \in Keys |-> IF obj[k].exists THEN obj[k].st.seen ELSE 0],
             truncated <- [k \in Keys |-> obj[k].exists /\ obj[k].st.truncated = "True"]

\* However stale the cache, whatever fails and whenever the operator dies: what
\* status.ownedKeys says changes only as Handoff allows.  The guard against empty
\* answers reads recordsApplied from the cache, long before the write.
ImplementsHandoff == HO!HandoffSpec

\* No prompt request for k is on its way.
Quiet(k) == k \notin queue /\ cur # k /\ watch[k] = <<>>

\* "when a Collector CR appears or its localAttributes change, the matched-collector
\* set may shift, so re-fetch and re-project": a Ready sync that waits for its
\* schedule claims nothing for a Collector it does not select any more.
ClaimsAreSelected ==
    \A k \in Keys : (obj[k].exists /\ Quiet(k) /\ obj[k].st.ready = "True") =>
        Claimed(obj[k].st.owned) \subseteq matchedCollectors(obj[k].spec.sel)

\* What the status of sync o should say as things are now.
Settled(o) ==
    LET matched == matchedCollectors(o.spec.sel)
        owned == projectRecords(source, o.spec.mapping, matched)
    IN  \/ /\ o.spec.schedule = "bad" \/ secretErr(o.spec)
           /\ o.st.ready = "False" /\ o.st.reason \in {"InvalidSchedule", "SourceFailed"}
        \/ /\ emptyGuard(o, source)
           /\ o.st.stalled = "True" /\ o.st.reason = "Stalled"
        \/ /\ ownedKeysExceeded(owned)
           /\ o.st.truncated = "True" /\ o.st.reason = "OwnedKeysExceeded"
        \/ /\ ~ownedKeysExceeded(owned)
           /\ o.st.ready = "True" /\ o.st.truncated # "True" /\ o.st.stalled # "True"
           /\ o.st.owned = owned

\* Once users, source and faults leave it alone, every sync reports what is the case
\* and claims what the source says: an error, a stall or a truncation ends with its
\* cause.
Settles == <>[](\A k \in Keys : obj[k].exists => Settled(obj[k]))

=============================================================================
