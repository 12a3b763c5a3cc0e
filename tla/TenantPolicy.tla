---------------------------- MODULE TenantPolicy ----------------------------
(***************************************************************************)
(* TenantPolicy objects: the reconciler that keeps their status            *)
(* (internal/controller/tenant_policy_controller.go), the webhook that     *)
(* admits them (api/v1alpha1/tenant_policy_webhook.go), and the decision   *)
(* the other webhooks take by them (internal/tenant/checker.go,            *)
(* api/v1alpha1/webhook_tenant.go).                                        *)
(*                                                                         *)
(* A decision is not atomic.  It lists the policies once or twice and gets *)
(* the namespace once for every policy with a selector, from caches that   *)
(* move on in between.  One request is decided at a time: decisions change *)
(* nothing that another one could see.  All requests are for one           *)
(* namespace; its labels are a model value that a selector accepts or not. *)
(***************************************************************************)
EXTENDS Controller, FiniteSets

CONSTANTS
    Usernames,   \* values of UserInfo.Username
    Accounts,    \* Accounts[u]: the <<namespace, name>> of which system:serviceaccount: makes u
    Groups,      \* values in UserInfo.Groups
    Matchers,    \* matchers of policies and of the other CRs
    Malformed,   \* the matchers that validateMatcherSyntax rejects
    TooLong,     \* the matchers of more than 200 characters
    Labels,      \* label sets of the namespace
    Specs,       \* specs an administrator may write: [subjects, required, sel]
    Requests,    \* admission requests: [user, groups, matchers, ids]
    MaxEdits     \* bound on changes by administrators

VARIABLES
    webhook,     \* is the webhook for TenantPolicies enabled?
    labels,      \* what Get of the namespace finds in the cache, or "absent"
    req,         \* the request being decided, or NoRequest
    step,        \* where its decision stands
    items,       \* items[k]: the listed policy k that is still to be looked at
    matched,     \* keys of the policies that Check has found to match
    allowed,     \* the union of their required matchers
    verdict,     \* of the last request: "admitted", "denied", "error"
    throughout,  \* the policies that have governed req at every moment so far
    known,       \* the policies for its user that have been cached at some moment
    labelled,    \* the labels the namespace has had at some moment
    edits

reqVars == <<req, step, items, matched, allowed, verdict>>

history == <<throughout, known, labelled>>

vars == <<kubeVars, pc, retry, faults, webhook, labels, reqVars, history, edits>>

-----------------------------------------------------------------------------
(* Types.                                                                  *)

Kinds == {"User", "Group", "ServiceAccount", "Other"}

Status == [og : Nat, bound : Nat, ready : {"", "True", "False"}]

Policy == [exists : {TRUE}, spec : Specs, gen : Nat, st : Status]

Version == Policy \cup {NoObject}

NewPolicy(s) ==
    [exists |-> TRUE, spec |-> s, gen |-> 1, st |-> [og |-> 0, bound |-> 0, ready |-> ""]]

NoRequest == [ids |-> FALSE]

NoItems == [k \in Keys |-> NoObject]

ASSUME TenantAssumption ==
    /\ \A s \in Specs :
          /\ s.required \subseteq Matchers /\ IsFiniteSet(s.subjects)
          /\ s.sel \in {"all", "bad"} \cup Labels
    /\ Requests \subseteq [user : Usernames, groups : SUBSET Groups,
                           matchers : SUBSET Matchers, ids : BOOLEAN]
    /\ DOMAIN Accounts = Usernames
    /\ NoRequest \notin Requests /\ NoObject \notin Specs
    /\ "all" \notin Labels /\ "bad" \notin Labels /\ "absent" \notin Labels
    /\ MaxEdits \in Nat

-----------------------------------------------------------------------------
(* The two validations of a TenantPolicy.                                  *)

validateSubjects(s) ==
    /\ s.subjects # {}
    /\ \A x \in s.subjects :
          /\ x.kind # "Other" /\ x.name # ""
          /\ (x.kind = "ServiceAccount") <=> (x.ns # "")

\* Faulty variant: the syntax of matchers is not checked.
validateRequiredLength(s) == s.required # {} /\ s.required \cap TooLong = {}

validateRequiredMatchers(s) ==
    s.required # {} /\ s.required \cap (TooLong \cup Malformed) = {}

validateNamespaceSelector(s) == s.sel # "bad"

\* What the webhook wants ...
validateTenantPolicy(s) ==
    validateSubjects(s) /\ validateRequiredMatchers(s) /\ validateNamespaceSelector(s)

\* ... and what the reconciler wants: neither kinds nor lengths.
validateTenantPolicySpec(s) ==
    /\ s.subjects # {}
    /\ s.required # {} /\ s.required \cap Malformed = {}
    /\ s.sel # "bad"

WantedStatus(o) ==
    [og |-> o.gen, bound |-> Cardinality(o.spec.subjects),
     ready |-> IF validateTenantPolicySpec(o.spec) THEN "True" ELSE "False"]

Reconciled(s) == [NewPolicy(s) EXCEPT !.st = WantedStatus(NewPolicy(s))]

\* The operator starts again with policies it has reconciled, or one that is new.
Init ==
    /\ webhook \in BOOLEAN
    /\ \E S \in SUBSET Keys, spec \in [Keys -> {s \in Specs : webhook => validateTenantPolicy(s)}] :
          \/ KubeInit([k \in Keys |-> IF k \in S THEN Reconciled(spec[k]) ELSE NoObject])
          \/ \E new \in S :
                KubeInit([k \in Keys |-> IF k = new THEN NewPolicy(spec[k]) ELSE NoObject])
    /\ labels \in Labels
    /\ req = NoRequest /\ step = "idle" /\ items = NoItems
    /\ matched = {} /\ allowed = {} /\ verdict = ""
    /\ throughout = {} /\ known = {} /\ labelled = {}
    /\ pc = "idle" /\ retry = FALSE
    /\ edits = 0 /\ faults = 0

-----------------------------------------------------------------------------
(* Administrators and the namespace.                                       *)

Edit == edits < MaxEdits /\ edits' = edits + 1

WritePolicy(k, o) ==
    /\ Edit
    /\ UserWrite(k, o)
    /\ UNCHANGED <<pc, retry, faults, webhook, labels, reqVars>>

CreatePolicy(k, s) ==
    /\ ~obj[k].exists
    /\ webhook => validateTenantPolicy(s)
    /\ WritePolicy(k, NewPolicy(s))

EditSpec(k, s) ==
    /\ obj[k].exists /\ s # obj[k].spec
    /\ webhook => validateTenantPolicy(s)
    /\ WritePolicy(k, [obj[k] EXCEPT !.spec = s, !.gen = @ + 1])

DeletePolicy(k) == obj[k].exists /\ WritePolicy(k, NoObject)

Relabel(l) ==
    /\ Edit
    /\ l # labels
    /\ labels' = l
    /\ UNCHANGED <<kubeVars, pc, retry, faults, webhook, reqVars>>

-----------------------------------------------------------------------------
(* The reconciler.                                                         *)

RequestsUntouched == UNCHANGED <<webhook, labels, reqVars, edits>>

\* The generation of the conditions is og as well.
conditionsAlreadyMatch(o) == o.st = WantedStatus(o)

\* NotFound, or nothing to write.
ReconcileNothing(k) ==
    /\ cache[k].exists => conditionsAlreadyMatch(cache[k])
    /\ FetchAndReturn(k)
    /\ NoFault /\ RequestsUntouched /\ UNCHANGED <<pc, retry>>

\* Faulty variant: the reconcile falls through to the write with no object.
ReconcileMissing(k) ==
    /\ cache[k].exists => ~conditionsAlreadyMatch(cache[k])
    /\ Fetch(k, cache[k])
    /\ pc' = "updateStatus"
    /\ NoFault /\ RequestsUntouched /\ UNCHANGED retry

ReconcileStatus(k) ==
    /\ cache[k].exists /\ ~conditionsAlreadyMatch(cache[k])
    /\ Fetch(k, [cache[k] EXCEPT !.st = WantedStatus(cache[k])])
    /\ pc' = "updateStatus"
    /\ NoFault /\ RequestsUntouched /\ UNCHANGED retry

Reconcile(k) == ReconcileNothing(k) \/ ReconcileStatus(k)

\* Faulty variant: a patch, which no conflict stops.
PatchStatus ==
    /\ pc = "updateStatus"
    /\ Store(cur, IF obj[cur].exists
                  THEN [obj[cur] EXCEPT !.st = [mem.st EXCEPT !.og = obj[cur].gen]]
                  ELSE NoObject)
    /\ Return(FALSE) /\ pc' = "idle"
    /\ NoFault /\ RequestsUntouched /\ UNCHANGED <<cache, retry>>

\* Faulty variant: a failed write is forgotten.
UpdateStatusOnce ==
    /\ pc = "updateStatus"
    /\ KubeWrite([obj[cur] EXCEPT !.st = mem.st], FALSE, FALSE)
    /\ RequestsUntouched

UpdateStatus ==
    /\ pc = "updateStatus"
    /\ KubeWrite([obj[cur] EXCEPT !.st = mem.st], FALSE, TRUE)
    /\ RequestsUntouched

-----------------------------------------------------------------------------
(* The decision on a request.                                              *)

subjectMatchesUser(subjects, q) ==
    \E x \in subjects :
        \/ x.kind = "User" /\ x.name # "" /\ q.user = x.name
        \/ x.kind = "Group" /\ x.name \in q.groups
        \/ x.kind = "ServiceAccount" /\ <<x.ns, x.name>> \in Accounts[q.user]

\* namespaceMatches: the selector matches, does not match, or cannot be evaluated.
Unknown(s) == s.sel = "bad" \/ (s.sel # "all" /\ labels = "absent")

Covers(s) == s.sel = "all" \/ s.sel = labels

\* What List returns, without the policies that are for other subjects.
Listed(q) ==
    [k \in Keys |-> IF cache[k].exists /\ subjectMatchesUser(cache[k].spec.subjects, q)
                    THEN cache[k] ELSE NoObject]

DecisionOnly == UNCHANGED <<kubeVars, pc, retry, webhook, labels, edits>>

Decide(v) ==
    /\ verdict' = v
    /\ step' = "respond" /\ items' = NoItems
    /\ matched' = {} /\ allowed' = {}
    /\ UNCHANGED req

\* A request comes in and Check lists the policies.
Receive(q) ==
    /\ step = "idle"
    /\ req' = q
    /\ \/ /\ step' = "check" /\ items' = Listed(q)
          /\ NoFault /\ UNCHANGED verdict
       \/ /\ Fault("k8s") /\ verdict' = "error"
          /\ step' = "respond" /\ UNCHANGED items
    /\ DecisionOnly /\ UNCHANGED <<matched, allowed>>

\* Get of the namespace for a policy with a selector fails.
GetFails(k) == items[k].spec.sel \notin {"all", "bad"} /\ Fault("k8s")

\* Faulty variant: a policy whose namespace is not found is taken not to apply.
CheckPolicyOpen(k) ==
    /\ step = "check" /\ items[k].exists
    /\ \/ /\ (GetFails(k) \/ (Unknown(items[k].spec) /\ NoFault))
          /\ items' = [items EXCEPT ![k] = NoObject]
          /\ UNCHANGED <<matched, allowed>>
       \/ /\ ~Unknown(items[k].spec)
          /\ items' = [items EXCEPT ![k] = NoObject]
          /\ matched' = IF Covers(items[k].spec) THEN matched \cup {k} ELSE matched
          /\ allowed' = IF Covers(items[k].spec)
                        THEN allowed \cup items[k].spec.required ELSE allowed
          /\ NoFault
    /\ DecisionOnly /\ UNCHANGED <<req, step, verdict>>

\* One round of the loop of Check.
CheckPolicy(k) ==
    /\ step = "check" /\ items[k].exists
    /\ \/ GetFails(k) /\ Decide("error")
       \/ Unknown(items[k].spec) /\ NoFault /\ Decide("error")
       \/ /\ ~Unknown(items[k].spec)
          /\ items' = [items EXCEPT ![k] = NoObject]
          /\ matched' = IF Covers(items[k].spec) THEN matched \cup {k} ELSE matched
          /\ allowed' = IF Covers(items[k].spec)
                        THEN allowed \cup items[k].spec.required ELSE allowed
          /\ NoFault /\ UNCHANGED <<req, step, verdict>>
    /\ DecisionOnly

\* Faulty variant: that no policy matches is not looked at.
EndCheckStrict ==
    /\ step = "check" /\ items = NoItems
    /\ Decide(IF req.matchers \cap allowed = {} THEN "denied" ELSE "admitted")
    /\ NoFault /\ DecisionOnly

\* The end of Check, and of runTenantChecks unless the request names collector IDs.
EndCheck ==
    /\ step = "check" /\ items = NoItems
    /\ \/ matched # {} /\ req.matchers \cap allowed = {} /\ Decide("denied")
       \/ /\ (matched = {} \/ req.matchers \cap allowed # {})
          /\ \/ ~req.ids /\ Decide("admitted")
             \/ /\ req.ids
                /\ step' = "list" /\ matched' = {} /\ allowed' = {}
                /\ UNCHANGED <<req, items, verdict>>
    /\ NoFault /\ DecisionOnly

\* Matches lists the policies again.
ListAgain ==
    /\ step = "list"
    /\ \/ /\ items' = Listed(req) /\ step' = "matches"
          /\ NoFault /\ UNCHANGED <<req, matched, allowed, verdict>>
       \/ Fault("k8s") /\ Decide("error")
    /\ DecisionOnly

\* One round of the loop of Matches.
MatchPolicy(k) ==
    /\ step = "matches" /\ items[k].exists
    /\ \/ GetFails(k) /\ Decide("error")
       \/ Unknown(items[k].spec) /\ NoFault /\ Decide("error")
       \/ /\ ~Unknown(items[k].spec) /\ Covers(items[k].spec)
          /\ NoFault /\ Decide("denied")
       \/ /\ ~Unknown(items[k].spec) /\ ~Covers(items[k].spec)
          /\ items' = [items EXCEPT ![k] = NoObject]
          /\ NoFault /\ UNCHANGED <<req, step, matched, allowed, verdict>>
    /\ DecisionOnly

EndMatches ==
    /\ step = "matches" /\ items = NoItems
    /\ Decide("admitted")
    /\ NoFault /\ DecisionOnly

Respond ==
    /\ step = "respond"
    /\ req' = NoRequest /\ step' = "idle" /\ verdict' = ""
    /\ NoFault /\ DecisionOnly /\ UNCHANGED <<items, matched, allowed>>

Decision ==
    \/ \E k \in Keys : CheckPolicy(k) \/ MatchPolicy(k)
    \/ EndCheck \/ ListAgain \/ EndMatches \/ Respond

-----------------------------------------------------------------------------
(* The informer and the operator process.                                  *)

Inform(k) ==
    /\ Deliver(k)
    /\ NoFault /\ RequestsUntouched /\ UNCHANGED <<pc, retry>>

\* A crash, which counts as a fault; a request that is not answered fails (failurePolicy).
Restart ==
    /\ faults < MaxFaults
    /\ faults' = faults + 1
    /\ KubeRestart
    /\ pc' = "idle" /\ retry' = FALSE
    /\ req' = NoRequest /\ step' = "idle" /\ items' = NoItems
    /\ matched' = {} /\ allowed' = {} /\ verdict' = ""
    /\ UNCHANGED <<webhook, labels, edits>>

Step ==
    \/ \E k \in Keys :
          \/ \E s \in Specs : CreatePolicy(k, s) \/ EditSpec(k, s)
          \/ DeletePolicy(k) \/ Reconcile(k) \/ Inform(k)
    \/ \E l \in Labels \cup {"absent"} : Relabel(l)
    \/ UpdateStatus
    \/ \E q \in Requests : Receive(q)
    \/ Decision
    \/ Restart

\* The cached policies for the user of q, each with the spec of its version.
Known(q) ==
    {<<k, cache[k].spec>> : k \in {j \in Keys :
        cache[j].exists /\ subjectMatchesUser(cache[j].spec.subjects, q)}}

Governing(q) == {p \in Known(q) : Covers(p[2])}

\* The history variables follow a request from its first look to its decision.
Follow ==
    \/ step' = "idle" /\ throughout' = {} /\ known' = {} /\ labelled' = {}
    \/ /\ step = "idle" /\ step' # "idle"
       /\ throughout' = Governing(req') /\ known' = Known(req') /\ labelled' = {labels}
    \/ /\ step # "idle" /\ step' \notin {"idle", "respond"}
       /\ throughout' = throughout \cap Governing(req)'
       /\ known' = known \cup Known(req)'
       /\ labelled' = labelled \cup {labels'}
    \/ step # "idle" /\ step' = "respond" /\ UNCHANGED history

Next == Step /\ Follow

Spec == Init /\ [][Next]_vars

\* The API server waits for the answer of a webhook, and requests keep coming in.
Fairness ==
    /\ WF_vars(UpdateStatus /\ Follow) /\ WF_vars(Decision /\ Follow)
    /\ \A k \in Keys : SF_vars(Reconcile(k) /\ Follow) /\ WF_vars(Inform(k) /\ Follow)

FairSpec == Spec /\ Fairness

-----------------------------------------------------------------------------
(* Properties.                                                             *)

\* Every variable keeps its type, and an idle worker holds no copy.
TypeOK ==
    /\ obj \in [Keys -> Version] /\ cache \in [Keys -> Version]
    /\ watch \in [Keys -> Seq(Version)]
    /\ queue \subseteq Keys /\ fresh \in BOOLEAN /\ retry = FALSE
    /\ \/ pc = "idle" /\ cur = "" /\ mem = NoObject
       \/ pc = "updateStatus" /\ cur \in Keys /\ mem \in Policy
    /\ webhook \in BOOLEAN /\ labels \in Labels \cup {"absent"}
    /\ \/ step = "idle" /\ req = NoRequest /\ items = NoItems /\ matched = {}
       \/ step \in {"check", "list", "matches", "respond"} /\ req \in Requests
    /\ items \in [Keys -> Version]
    /\ matched \subseteq Keys /\ allowed \subseteq Matchers
    /\ verdict \in {"", "admitted", "denied", "error"}
    /\ edits \in 0..MaxEdits /\ faults \in 0..MaxFaults

\* A status that is current by its observedGeneration is right: it says of the stored
\* spec what the reconciler makes of it, although it was computed from a cached copy.
StatusIsTrue ==
    \A k \in Keys :
        (obj[k].exists /\ obj[k].st.og = obj[k].gen) => obj[k].st = WantedStatus(obj[k])

\* "By the time this reconciler observes a TenantPolicy the API server has already
\* admitted it": with the webhook enabled the reconciler finds nothing to complain about.
WebhookIsStricter ==
    webhook => \A k \in Keys : obj[k].exists => obj[k].st.ready # "False"

\* The policies that a decision may go by: cached at some moment of the request, with
\* a selector that accepts what the namespace's labels were at some moment of it.
InForce == {p \in known : p[2].sel \in labelled \cup {"all"}}

\* "It returns an error when one or more policies match the user but none of their
\* required matchers appear in matchers": a request that a policy governs from its first
\* look to its last is admitted only with a matcher that some policy in force requires,
\* and without collector IDs, whatever changes between the looks.
GovernedIsScoped ==
    (verdict = "admitted" /\ throughout # {}) =>
        /\ ~req.ids
        /\ \E p \in InForce : req.matchers \cap p[2].required # {}

\* "Default-allow because no policy applies", and one required matcher will do: a request
\* is denied only if a policy in force while it was being decided requires none of its
\* matchers, or it names collector IDs and any policy was in force.
UngovernedIsAdmitted ==
    verdict = "denied" =>
        \E p \in InForce : req.ids \/ req.matchers \cap p[2].required = {}

\* Once the administrators are done, every status is that of its spec.
StatusSettles ==
    <>[](\A k \in Keys : obj[k].exists => obj[k].st = WantedStatus(obj[k]))

=============================================================================
