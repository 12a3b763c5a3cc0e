---------------------------- MODULE ControllerProofs ----------------------------
(***************************************************************************)
(* Lemmas that the proofs about the controllers share: what the API        *)
(* server, the informer and the worker do to the stored, undelivered and   *)
(* cached versions of any kind of object.                                  *)
(***************************************************************************)
EXTENDS Controller, WellFoundedInduction, TLAPS

-----------------------------------------------------------------------------
(* Arithmetic and sequences.                                               *)

\* A bounded counter that is below its bound can go up.
LEMMA OneMore ==
  ASSUME NEW max \in Nat, NEW n \in 0..max, n < max
  PROVE  n + 1 \in 0..max
  OBVIOUS

\* What Append leaves at the end.
LEMMA AppendFacts ==
  ASSUME NEW S, NEW s \in Seq(S), NEW x \in S
  PROVE  /\ Append(s, x) \in Seq(S)
         /\ Append(s, x)[Len(Append(s, x))] = x
         /\ Append(s, x) # <<>>
  OBVIOUS

\* The empty sequence is a sequence of anything.
LEMMA EmptyFacts ==
  ASSUME NEW S
  PROVE  <<>> \in Seq(S) /\ Len(<<>>) = 0
  OBVIOUS

\* Taking the head of a sequence leaves its last element where it was.
LEMMA TailFacts ==
  ASSUME NEW S, NEW s \in Seq(S), s # <<>>
  PROVE  /\ Head(s) \in S
         /\ Tail(s) \in Seq(S)
         /\ Tail(s) = <<>> => Head(s) = s[Len(s)]
         /\ Tail(s) # <<>> => Tail(s)[Len(Tail(s))] = s[Len(s)]
  <1>1. Len(s) \in Nat /\ Len(s) > 0 /\ Head(s) = s[1] /\ s[1] \in S
    OBVIOUS
  <1>2. Len(Tail(s)) = Len(s) - 1 /\ \A i \in 1..(Len(s) - 1) : Tail(s)[i] = s[i + 1]
    OBVIOUS
  <1>3. Tail(s) \in Seq(S)
    OBVIOUS
  <1>4. Tail(s) = <<>> => Len(s) = 1
    <2>1. Tail(s) = <<>> => Len(Tail(s)) = 0
      BY EmptyFacts
    <2> QED BY <1>1, <1>2, <2>1
  <1>5. Tail(s) # <<>> => Len(Tail(s)) \in 1..(Len(s) - 1)
    BY <1>1, <1>2, <1>3
  <1> QED BY <1>1, <1>2, <1>3, <1>4, <1>5

\* A set of naturals that is not empty has a least element.
LEMMA Least ==
  ASSUME NEW T, T \subseteq Nat, T # {}
  PROVE  \E x \in T : \A y \in T : x <= y
  <1> DEFINE R == OpToRel(<, Nat)
  <1>1. IsWellFoundedOn(R, Nat)
    BY NatLessThanWellFounded
  <1>2. \A x, y \in Nat : x < y => <<x, y>> \in R
    BY DEF OpToRel
  <1> HIDE DEF R
  <1>3. PICK x \in T : \A y \in T : ~ (<<y, x>> \in R)
    BY <1>1, WFMin
  <1>4. \A y \in T : x \in Nat /\ y \in Nat /\ ~(y < x)
    BY <1>2, <1>3
  <1>5. \A y \in T : x <= y
    BY <1>4
  <1> QED BY <1>5

\* A set of positions of a sequence that is not empty has a last one.
LEMMA Largest ==
  ASSUME NEW n \in Nat, NEW T, T \subseteq 1..n, T # {}
  PROVE  \E x \in T : \A y \in T : y <= x
  <1> DEFINE rest == {n - x : x \in T}
  <1>1. rest \subseteq Nat /\ rest # {}
    <2>1. \A x \in T : n - x \in Nat
      OBVIOUS
    <2>2. rest \subseteq Nat
      BY <2>1
    <2>3. PICK x \in T : TRUE
      OBVIOUS
    <2>4. n - x \in rest
      OBVIOUS
    <2> QED BY <2>2, <2>4
  <1>2. PICK z \in rest : \A w \in rest : z <= w
    <2> HIDE DEF rest
    <2> QED BY <1>1, Least
  <1>3. PICK x \in T : z = n - x
    OBVIOUS
  <1>4. \A y \in T : n - x <= n - y
    BY <1>2, <1>3
  <1>5. \A y \in T : y <= x
    BY <1>4
  <1> QED BY <1>5

-----------------------------------------------------------------------------
(* Stored, undelivered and cached versions.                                *)

\* The types of what is stored, on its way and cached, for versions in V.
Typed(V) ==
  /\ obj \in [Keys -> V]
  /\ cache \in [Keys -> V]
  /\ watch \in [Keys -> Seq(V)]

\* The newest version on its way to the cache is the stored one; if there is none
\* the cache has it.
Copies ==
  \A k \in Keys :
    /\ watch[k] = <<>> => cache[k] = obj[k]
    /\ watch[k] # <<>> => watch[k][Len(watch[k])] = obj[k]

\* The operator starts, or starts again: its informer has listed everything.
LEMMA ListedFacts ==
  ASSUME NEW V, obj' \in [Keys -> V], cache' = obj', watch' = [k \in Keys |-> <<>>]
  PROVE  Typed(V)' /\ Copies'
  <1>1. [k \in Keys |-> <<>>] \in [Keys -> Seq(V)]
    BY EmptyFacts
  <1> QED BY <1>1 DEF Typed, Copies

\* A write to the API server.
LEMMA StoreFacts ==
  ASSUME NEW V, Typed(V), Copies, NEW k \in Keys, NEW o \in V, Store(k, o), cache' = cache
  PROVE  /\ Typed(V)' /\ Copies'
         /\ obj'[k] = o
         /\ watch'[k] = <<>> => obj' = obj /\ watch' = watch
         /\ \A j \in Keys \ {k} : obj'[j] = obj[j] /\ watch'[j] = watch[j]
  <1>1. CASE o = obj[k] /\ UNCHANGED <<obj, watch>>
    BY <1>1 DEF Typed, Copies
  <1>2. CASE /\ obj' = [obj EXCEPT ![k] = o]
             /\ watch' = [watch EXCEPT ![k] = Append(watch[k], o)]
    <2>1. watch[k] \in Seq(V)
      BY DEF Typed
    <2>2. /\ Append(watch[k], o) \in Seq(V)
          /\ Append(watch[k], o)[Len(Append(watch[k], o))] = o
          /\ Append(watch[k], o) # <<>>
      BY <2>1, AppendFacts
    <2>3. obj'[k] = o /\ watch'[k] = Append(watch[k], o)
      BY <1>2 DEF Typed
    <2>4. \A j \in Keys \ {k} : obj'[j] = obj[j] /\ watch'[j] = watch[j]
      BY <1>2 DEF Typed
    <2>5. Typed(V)'
      BY <1>2, <2>2 DEF Typed
    <2>6. Copies'
      BY <2>2, <2>3, <2>4 DEF Copies
    <2> QED BY <2>2, <2>3, <2>4, <2>5, <2>6
  <1> QED BY <1>1, <1>2 DEF Store

\* The informer applies the oldest version.
LEMMA DeliverFacts ==
  ASSUME NEW V, Typed(V), Copies, NEW k \in Keys, Deliver(k)
  PROVE  /\ Typed(V)' /\ Copies'
         /\ cache'[k] = Head(watch[k]) /\ cache'[k] \in V
         /\ \A j \in Keys \ {k} : cache'[j] = cache[j] /\ watch'[j] = watch[j]
         /\ queue' = queue \cup {k}
         /\ UNCHANGED <<obj, cur, mem, fresh>>
  <1>1. watch[k] # <<>> /\ watch[k] \in Seq(V)
    BY DEF Deliver, Typed
  <1>2. /\ Head(watch[k]) \in V
        /\ Tail(watch[k]) \in Seq(V)
        /\ Tail(watch[k]) = <<>> => Head(watch[k]) = watch[k][Len(watch[k])]
        /\ Tail(watch[k]) # <<>> => Tail(watch[k])[Len(Tail(watch[k]))] = watch[k][Len(watch[k])]
    BY <1>1, TailFacts
  <1>3. /\ cache' = [cache EXCEPT ![k] = Head(watch[k])]
        /\ watch' = [watch EXCEPT ![k] = Tail(watch[k])]
        /\ queue' = queue \cup {k}
        /\ UNCHANGED <<obj, cur, mem, fresh>>
    BY DEF Deliver
  <1>4. cache'[k] = Head(watch[k]) /\ watch'[k] = Tail(watch[k])
    BY <1>3 DEF Typed
  <1>5. \A j \in Keys \ {k} : cache'[j] = cache[j] /\ watch'[j] = watch[j]
    BY <1>3 DEF Typed
  <1>6. Typed(V)'
    BY <1>2, <1>3 DEF Typed
  <1>7. Copies'
    <2> SUFFICES ASSUME NEW j \in Keys
                 PROVE  /\ watch'[j] = <<>> => cache'[j] = obj[j]
                        /\ watch'[j] # <<>> => watch'[j][Len(watch'[j])] = obj[j]
      BY <1>3 DEF Copies
    <2>1. CASE j = k
      BY <2>1, <1>1, <1>2, <1>4 DEF Copies
    <2>2. CASE j # k
      BY <2>2, <1>5 DEF Copies
    <2> QED BY <2>1, <2>2
  <1> QED BY <1>2, <1>3, <1>4, <1>5, <1>6, <1>7

-----------------------------------------------------------------------------
(* The worker.                                                             *)

\* The environment uses up its bound.
LEMMA FaultType ==
  ASSUME faults \in 0..MaxFaults, NEW code, Fault(code)
  PROVE  faults' \in 0..MaxFaults
  <1>1. faults < MaxFaults /\ faults' = faults + 1
    BY DEF Fault
  <1> QED BY <1>1, FaultsAssumption, OneMore

\* A write that ends the reconcile stores o on top of the version the worker has read,
\* or nothing; the request comes back if the write fails and errors are retried, or if
\* it succeeds and another run is asked for.
LEMMA KubeWriteSteps ==
  ASSUME faults \in 0..MaxFaults, NEW o, NEW requeue \in BOOLEAN, NEW onError \in BOOLEAN,
         KubeWrite(o, requeue, onError)
  PROVE  /\ pc' = "idle" /\ retry' = FALSE /\ cur' = "" /\ mem' = NoObject /\ fresh' = FALSE
         /\ cache' = cache
         /\ faults' \in 0..MaxFaults
         /\ \/ UNCHANGED <<obj, watch>>
            \/ fresh /\ Store(cur, o)
         /\ \/ queue' = queue \cup {cur}
            \/ queue' = queue /\ ~onError
            \/ queue' = queue /\ ~requeue /\ fresh /\ Store(cur, o)
  <1>1. pc' = "idle" /\ retry' = FALSE
    BY DEF KubeWrite
  <1>2. faults' \in 0..MaxFaults
    <2>1. CASE NoFault
      BY <2>1 DEF NoFault
    <2>2. CASE Fault("k8s") \/ Fault("k8sLost")
      BY <2>2, FaultType
    <2> QED BY <2>1, <2>2 DEF KubeWrite
  <1>3. ASSUME NEW again \in BOOLEAN, Return(again)
        PROVE  /\ cur' = "" /\ mem' = NoObject /\ fresh' = FALSE
               /\ queue' = queue \cup {cur} \/ (~again /\ queue' = queue)
    <2>1. cur' = "" /\ mem' = NoObject /\ fresh' = FALSE
      BY <1>3 DEF Return
    <2>2. CASE again
      BY <1>3, <2>1, <2>2 DEF Return
    <2>3. CASE ~again
      BY <1>3, <2>1, <2>3 DEF Return
    <2> QED BY <2>2, <2>3
  <1>4. CASE WriteAndReturn(o, requeue)
    BY <1>1, <1>2, <1>3, <1>4 DEF WriteAndReturn
  <1>5. CASE JustReturn(onError)
    BY <1>1, <1>2, <1>3, <1>5 DEF JustReturn
  <1>6. CASE WriteAndReturn(o, onError)
    BY <1>1, <1>2, <1>3, <1>6 DEF WriteAndReturn
  <1>7. CASE JustReturn(obj[cur].exists \/ onError)
    <2>1. CASE onError
      <3>1. (obj[cur].exists \/ onError) = onError
        BY <2>1
      <3> QED BY <1>5, <1>7, <3>1
    <2>2. CASE ~onError
      <3>1. CASE obj[cur].exists
        <4>1. (obj[cur].exists \/ onError) = TRUE
          BY <3>1
        <4> QED BY <1>1, <1>2, <1>3, <1>7, <4>1 DEF JustReturn
      <3>2. CASE ~obj[cur].exists
        <4>1. (obj[cur].exists \/ onError) = FALSE
          BY <2>2, <3>2
        <4> QED BY <1>1, <1>2, <1>3, <1>7, <2>2, <4>1 DEF JustReturn
      <3> QED BY <3>1, <3>2
    <2> QED BY <2>1, <2>2
  <1> QED BY <1>4, <1>5, <1>6, <1>7 DEF KubeWrite

=================================================================================
