------------------------------ MODULE ApiServer ------------------------------
(***************************************************************************)
(* What every reconciler of the operator runs against: the Kubernetes API  *)
(* server with its optimistic locking, the informer cache that Get reads   *)
(* from, the work queue, and a worker that takes requests off it.  None of *)
(* this is code of the repository; it is modelled from how the controllers *)
(* use client.Client, the For() watch and ctrl.Result.                     *)
(*                                                                         *)
(* One worker is modelled.  The policy and sync controllers start four     *)
(* (cmd/main.go), but the queue never gives one request to two workers,    *)
(* and their reconciles share nothing but what they read.                  *)
(*                                                                         *)
(* There is no resourceVersion counter.  The worker's copy of an object    *)
(* comes from the cache, and the API server accepts a write of that copy   *)
(* iff nobody has written the object since the version it was read at.     *)
(* That is one bit, fresh: TRUE when the copy is taken from a cache with   *)
(* no versions on their way to it, FALSE from the next write by anybody    *)
(* else on.                                                                *)
(***************************************************************************)
EXTENDS Integers, Sequences

CONSTANT Keys    \* namespaced names of the objects of one kind

ASSUME KeysAssumption == "" \notin Keys

VARIABLES
    obj,     \* obj[k]: the stored object, or NoObject
    watch,   \* watch[k]: versions written and not yet seen by the informer
    cache,   \* cache[k]: the version Get returns
    queue,   \* requests waiting in the work queue
    cur,     \* the request the worker is reconciling, "" when it is idle
    mem,     \* the worker's copy of the object, changed in place by the code
    fresh    \* does mem still carry the stored resourceVersion?

kubeVars == <<obj, watch, cache, queue, cur, mem, fresh>>

NoObject == [exists |-> FALSE]

KubeInit(stored) ==
    /\ obj = stored
    /\ cache = stored
    /\ watch = [k \in Keys |-> <<>>]
    /\ queue = {k \in Keys : stored[k].exists}
    /\ cur = ""
    /\ mem = NoObject
    /\ fresh = FALSE

-----------------------------------------------------------------------------
(* The API server.  A write that changes nothing makes no new version.     *)

Store(k, o) ==
    \/ o = obj[k] /\ UNCHANGED <<obj, watch>>
    \/ /\ o # obj[k]
       /\ obj' = [obj EXCEPT ![k] = o]
       /\ watch' = [watch EXCEPT ![k] = Append(@, o)]

\* A write by a user: it invalidates the copy the worker may hold.
UserWrite(k, o) ==
    /\ Store(k, o)
    /\ fresh' = (fresh /\ cur # k)
    /\ UNCHANGED <<cache, queue, cur, mem>>

\* The informer applies the oldest unseen version and enqueues a request.
Deliver(k) ==
    /\ watch[k] # <<>>
    /\ cache' = [cache EXCEPT ![k] = Head(watch[k])]
    /\ watch' = [watch EXCEPT ![k] = Tail(@)]
    /\ queue' = queue \cup {k}
    /\ UNCHANGED <<obj, cur, mem, fresh>>

-----------------------------------------------------------------------------
(* The worker.                                                             *)

\* Take request k and read its object from the cache; o is what the code makes
\* of the copy before its first call.
Fetch(k, o) ==
    /\ cur = ""
    /\ k \in queue
    /\ queue' = queue \ {k}
    /\ cur' = k
    /\ mem' = o
    /\ fresh' = (watch[k] = <<>>)
    /\ UNCHANGED <<obj, watch, cache>>

\* Take request k and return without a call.
FetchAndReturn(k) ==
    /\ cur = ""
    /\ k \in queue
    /\ queue' = queue \ {k}
    /\ UNCHANGED <<obj, watch, cache, cur, mem, fresh>>

\* Reconcile returns; requeue covers a returned error, Requeue and RequeueAfter,
\* which differ only in the delay before the request is taken again.
Return(requeue) ==
    /\ queue' = IF requeue THEN queue \cup {cur} ELSE queue
    /\ cur' = ""
    /\ mem' = NoObject
    /\ fresh' = FALSE

\* The worker goes on with its copy changed to o.
Continue(o) ==
    /\ mem' = o
    /\ UNCHANGED <<obj, watch, cache, queue, cur, fresh>>

\* Update or Status().Update of the object being reconciled, accepted.
WriteAndReturn(o, requeue) ==
    /\ fresh
    /\ Store(cur, o)
    /\ Return(requeue)
    /\ UNCHANGED cache

\* Reconcile returns and nothing was written.
JustReturn(requeue) ==
    /\ Return(requeue)
    /\ UNCHANGED <<obj, watch, cache>>

\* The operator process dies and starts again: the new informer lists the stored
\* objects and enqueues all of them.
KubeRestart ==
    /\ cache' = obj
    /\ watch' = [k \in Keys |-> <<>>]
    /\ queue' = {k \in Keys : obj[k].exists}
    /\ cur' = ""
    /\ mem' = NoObject
    /\ fresh' = FALSE
    /\ UNCHANGED obj

=============================================================================
