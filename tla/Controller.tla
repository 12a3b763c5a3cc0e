----------------------------- MODULE Controller -----------------------------
(***************************************************************************)
(* What the reconcilers share: a worker that is always about to make one   *)
(* call (pc), the ways a call to Fleet or to the API server may go wrong,  *)
(* the error classes of internal/controller/errors.go, and how a reconcile *)
(* ends with a write.                                                      *)
(***************************************************************************)
EXTENDS ApiServer

CONSTANTS
    Faults,      \* answers other than the expected one: a subset of FaultCode
    MaxFaults    \* bound on their number

VARIABLES
    pc,        \* the call the worker makes next
    retry,     \* will Reconcile return an error once the status is written?
    faults     \* how much of MaxFaults is used

\* "400" rejected, "404" not found, "429" rate limited, "4xx" any other permanent
\* answer, "5xx" a server or network failure with no effect, "lost" the call took
\* effect and the client timed out, "k8s" the API server failed the call,
\* "k8sLost" it made the write and the answer was lost.
FaultCode == {"400", "404", "429", "4xx", "5xx", "lost", "k8s", "k8sLost"}

FleetFault == {"400", "404", "429", "4xx", "5xx", "lost"}

ASSUME FaultsAssumption == Faults \subseteq FaultCode /\ MaxFaults \in Nat

\* The environment answers a call with code instead of what is expected.
Fault(code) ==
    /\ code \in Faults
    /\ faults < MaxFaults
    /\ faults' = faults + 1

NoFault == UNCHANGED faults

IsTransient(code) == code \in {"429", "5xx", "lost"}

shouldRetry(code, reason) == reason # "ValidationError" /\ IsTransient(code)

\* Faulty variant: the reconcile goes on after asking for a requeue.
RequeueAndGoOn ==
    /\ queue' = queue \cup {cur}
    /\ cur' = ""
    /\ UNCHANGED <<obj, watch, cache, mem, fresh, pc, retry>>

\* A 429 is answered with a fixed delay and no status write.
RequeueAfter ==
    /\ JustReturn(TRUE)
    /\ pc' = "idle"
    /\ UNCHANGED retry

\* A write of o to the API server that ends the reconcile.  If it succeeds Reconcile
\* asks for another run iff requeue; on a conflict it always does; on any other
\* failure, the object being gone included, iff onError.
KubeWrite(o, requeue, onError) ==
    /\ pc' = "idle"
    /\ \/ WriteAndReturn(o, requeue) /\ NoFault
       \/ ~fresh /\ JustReturn(obj[cur].exists \/ onError) /\ NoFault
       \/ Fault("k8s") /\ JustReturn(onError)
       \/ Fault("k8sLost") /\ WriteAndReturn(o, onError)
    /\ retry' = FALSE

=============================================================================
