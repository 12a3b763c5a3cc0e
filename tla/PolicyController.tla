-------------------------- MODULE PolicyController --------------------------
(***************************************************************************)
(* The RemoteAttributePolicy reconciler                                    *)
(* (internal/controller/policy_controller.go): it keeps, in the status of  *)
(* a policy, which Collectors of the namespace the policy selects.  There  *)
(* is no periodic resync: whether the status is right depends on the       *)
(* events that reach the controller, and a Collector's event reaches only  *)
(* the policies that an index finds for it.                                *)
(*                                                                         *)
(* Of the spec only the selector counts here.  Reconciles of different     *)
(* policies share nothing, so one worker stands for the several there may  *)
(* be.  Collectors are what the cache has.                                 *)
(***************************************************************************)
EXTENDS Controller, Attributes

CONSTANTS
    Ids,          \* collector IDs: numbers in their alphabetical order
    Selectors,    \* selectors a user may write
    Collectors,   \* Collectors as they may be: [exists, local, remote]
    MaxMatched,   \* maxMatchedIDs
    MaxEdits      \* bound on changes by users and collectors

VARIABLES
    collectors,   \* collectors[i]: the Collector with spec.id i, or NoCollector
    edits

vars == <<kubeVars, pc, retry, faults, collectors, edits>>

-----------------------------------------------------------------------------
(* Types.                                                                  *)

Reasons == {"", "Matched", "NoMatch", "ListFailed"}

Status == [og : Nat, ids : SUBSET Ids, count : Nat, truncated : {"", "True", "False"},
           ready : {"", "True", "False"}, reason : Reasons]

Policy == [exists : {TRUE}, sel : Selectors, gen : Nat, st : Status]

Version == Policy \cup {NoObject}

NewStatus == [og |-> 0, ids |-> {}, count |-> 0, truncated |-> "", ready |-> "", reason |-> ""]

NewPolicy(s) == [exists |-> TRUE, sel |-> s, gen |-> 1, st |-> NewStatus]

NoCollector == [exists |-> FALSE]

Steps == {"idle", "list", "updateStatus"}

ASSUME PolicyAssumption ==
    /\ Ids \subseteq Nat /\ IsFiniteSet(Ids)
    /\ \A c \in Collectors : c.exists
    /\ MaxMatched \in Nat /\ MaxEdits \in Nat

\* The operator starts; policies and Collectors may have been there before.
Init ==
    /\ \E stored \in [Keys -> {NoObject} \cup {NewPolicy(s) : s \in Selectors}] : KubeInit(stored)
    /\ collectors \in [Ids -> {NoCollector} \cup Collectors]
    /\ pc = "idle" /\ retry = FALSE
    /\ edits = 0 /\ faults = 0

-----------------------------------------------------------------------------
(* Users and Collectors.                                                   *)

Edit == edits < MaxEdits /\ edits' = edits + 1

NotOperator == UNCHANGED <<pc, retry, faults>>

CreatePolicy(k, s) ==
    /\ Edit
    /\ ~obj[k].exists
    /\ UserWrite(k, NewPolicy(s))
    /\ NotOperator /\ UNCHANGED collectors

\* s may be the selector the policy has: then something else in the spec changes.
EditSpec(k, s) ==
    /\ Edit
    /\ obj[k].exists
    /\ UserWrite(k, [obj[k] EXCEPT !.sel = s, !.gen = @ + 1])
    /\ NotOperator /\ UNCHANGED collectors

DeletePolicy(k) ==
    /\ Edit
    /\ obj[k].exists
    /\ UserWrite(k, NoObject)
    /\ NotOperator /\ UNCHANGED collectors

mapCollectorToAffectedPolicies(c) ==
    {k \in Keys : cache[k].exists /\ Affected(cache[k].sel, c)}

\* A Collector appears, goes, or has other attributes; an update maps both versions.
ChangeCollector(i, new) ==
    /\ Edit
    /\ new # collectors[i]
    /\ collectors' = [collectors EXCEPT ![i] = new]
    /\ queue' = queue \cup mapCollectorToAffectedPolicies(collectors[i])
                      \cup mapCollectorToAffectedPolicies(new)
    /\ NotOperator /\ UNCHANGED <<obj, watch, cache, cur, mem, fresh>>

-----------------------------------------------------------------------------
(* Reconcile.                                                              *)

OperatorOnly == UNCHANGED <<collectors, edits>>

ReconcileNothing(k) ==
    /\ ~cache[k].exists
    /\ FetchAndReturn(k)
    /\ NoFault /\ OperatorOnly /\ UNCHANGED <<pc, retry>>

ReconcileGet(k) ==
    /\ cache[k].exists
    /\ Fetch(k, cache[k])
    /\ pc' = "list"
    /\ NoFault /\ OperatorOnly /\ UNCHANGED retry

Reconcile(k) == ReconcileNothing(k) \/ ReconcileGet(k)

evaluatePolicySelector(sel) ==
    {i \in Ids : collectors[i].exists /\ Match(sel, i, collectors[i].local)}

\* The first MaxMatched of a sorted list.
capped(matched) == {i \in matched : Cardinality({j \in matched : j < i}) < MaxMatched}

truncates(matched) == Cardinality(matched) > MaxMatched

\* Faulty variant: only the number of matched Collectors is compared.
alreadyReconciledByCount(o, matched) ==
    o.st.og = o.gen /\ o.st.count = Cardinality(matched)

alreadyReconciled(o, matched) ==
    /\ o.st.og = o.gen
    /\ o.st.count = Cardinality(matched)
    /\ o.st.ids = capped(matched)
    /\ (o.st.truncated = "True") = truncates(matched)

MatchedStatus(o, matched) ==
    [og |-> o.gen, ids |-> capped(matched), count |-> Cardinality(matched),
     truncated |-> IF truncates(matched) THEN "True" ELSE "False",
     ready |-> IF matched # {} THEN "True" ELSE "False",
     reason |-> IF matched # {} THEN "Matched" ELSE "NoMatch"]

ErrorStatus(o) ==
    [o.st EXCEPT !.og = o.gen, !.ready = "False", !.reason = "ListFailed"]

ToWrite(st, again) ==
    /\ Continue([mem EXCEPT !.st = st])
    /\ pc' = "updateStatus" /\ retry' = again

\* Faulty variant: the no-op check forgets to return.
NoOpAndGoOn ==
    /\ JustReturn(FALSE)
    /\ pc' = "updateStatus"
    /\ NoFault /\ UNCHANGED retry

NoOp ==
    /\ JustReturn(FALSE)
    /\ pc' = "idle"
    /\ NoFault /\ UNCHANGED retry

\* List the Collectors and compare.
ListCollectors ==
    LET matched == evaluatePolicySelector(mem.sel) IN
    /\ pc = "list"
    /\ \/ alreadyReconciled(mem, matched) /\ NoOp
       \/ /\ ~alreadyReconciled(mem, matched)
          /\ ToWrite(MatchedStatus(mem, matched), FALSE)
          /\ NoFault
       \/ Fault("k8s") /\ ToWrite(ErrorStatus(mem), TRUE)
    /\ OperatorOnly

\* Faulty variant: a status write that fails is not retried.
UpdateStatusOnce ==
    /\ pc = "updateStatus"
    /\ KubeWrite([obj[cur] EXCEPT !.st = mem.st], retry, FALSE)
    /\ OperatorOnly

UpdateStatus ==
    /\ pc = "updateStatus"
    /\ KubeWrite([obj[cur] EXCEPT !.st = mem.st], retry, TRUE)
    /\ OperatorOnly

Worker == ListCollectors \/ UpdateStatus

-----------------------------------------------------------------------------
(* The operator process.                                                   *)

Inform(k) ==
    /\ Deliver(k)
    /\ UNCHANGED <<pc, retry, faults, collectors, edits>>

\* A crash counts as a fault.
Restart ==
    /\ faults < MaxFaults
    /\ faults' = faults + 1
    /\ KubeRestart
    /\ pc' = "idle" /\ retry' = FALSE
    /\ UNCHANGED <<collectors, edits>>

User ==
    \/ \E k \in Keys :
          \/ \E s \in Selectors : CreatePolicy(k, s) \/ EditSpec(k, s)
          \/ DeletePolicy(k)
    \/ \E i \in Ids, new \in {NoCollector} \cup Collectors : ChangeCollector(i, new)

Next ==
    \/ User
    \/ \E k \in Keys : Reconcile(k) \/ Inform(k)
    \/ Worker
    \/ Restart

Spec == Init /\ [][Next]_vars

\* As for the other controllers.
Fairness ==
    /\ WF_vars(Worker)
    /\ \A k \in Keys : SF_vars(Reconcile(k)) /\ WF_vars(Inform(k))

FairSpec == Spec /\ Fairness

-----------------------------------------------------------------------------
(* Properties.                                                             *)

\* Every variable keeps its type, and an idle worker holds no copy.
TypeOK ==
    /\ obj \in [Keys -> Version]
    /\ cache \in [Keys -> Version]
    /\ watch \in [Keys -> Seq(Version)]
    /\ queue \subseteq Keys
    /\ fresh \in BOOLEAN
    /\ pc \in Steps
    /\ \/ pc = "idle" /\ cur = "" /\ mem = NoObject
       \/ pc # "idle" /\ cur \in Keys /\ mem \in Policy
    /\ retry \in BOOLEAN
    /\ collectors \in [Ids -> {NoCollector} \cup Collectors]
    /\ edits \in 0..MaxEdits
    /\ faults \in 0..MaxFaults

\* Nothing is on its way that would make the controller look at policy k.
Quiet(k) == k \notin queue /\ cur # k /\ watch[k] = <<>>

\* Does the status of policy o say which Collectors it selects?
Current(o) ==
    LET matched == evaluatePolicySelector(o.sel)
    IN  o.st.og = o.gen /\ o.st.ids = capped(matched) /\ o.st.count = Cardinality(matched)

\* "when collectors come and go, the set of matched IDs may shift": no wake-up is
\* lost.  A policy that nobody is about to look at has a status that is right for its
\* spec and for the Collectors as they are, although the status write, the Collector
\* event and the policy's own events may come in any order.
MatchedIsCurrent == \A k \in Keys : obj[k].exists /\ Quiet(k) => Current(obj[k])

\* The controller comes to rest with right statuses: its own status writes wake it up,
\* but not for ever.
Settles == <>[](\A k \in Keys : Quiet(k) /\ (obj[k].exists => Current(obj[k])))

=============================================================================
