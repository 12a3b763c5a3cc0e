----------------------- MODULE CollectorDiscoveryProofs -----------------------
(***************************************************************************)
(* Proofs about CollectorDiscovery, for any discoveries, collectors, CR    *)
(* names, faults and bounds: a discovery is always looked at again, and a  *)
(* status that claims to be current is of the stored spec.                 *)
(*                                                                         *)
(* The proof works on what a step does to three things: the discoveries,   *)
(* the Collector CRs (CRMoves) and the poll under way (PollMoves).         *)
(***************************************************************************)
EXTENDS CollectorDiscovery, ControllerProofs, TLAPS

-----------------------------------------------------------------------------
(* What the operators of the model return.                                 *)

LEMMA VersionType ==
  ASSUME NEW o \in Version
  PROVE  o.exists <=> o \in Discovery
  <1>1. o \in Discovery => o.exists
    BY DEF Discovery
  <1>2. o = NoObject => ~o.exists
    BY DEF NoObject
  <1> QED BY <1>1, <1>2 DEF Version

LEMMA CRVersionType ==
  ASSUME NEW o \in CRVersion
  PROVE  /\ o.exists <=> o \in Collector
         /\ ~o.exists <=> o = NoObject
  <1>1. o \in Collector => o.exists
    BY DEF Collector
  <1>2. o = NoObject => ~o.exists
    BY DEF NoObject
  <1> QED BY <1>1, <1>2 DEF CRVersion

LEMMA NewDiscoveryType ==
  ASSUME NEW s \in Specs
  PROVE  NewDiscovery(s) \in Discovery
  BY DEF NewDiscovery, Discovery, Status, Reasons

LEMMA EditedType ==
  ASSUME NEW o \in Discovery, NEW s \in Specs
  PROVE  [o EXCEPT !.spec = s, !.gen = @ + 1] \in Discovery
  <1>1. o.gen + 1 \in Nat
    BY DEF Discovery
  <1> QED BY <1>1 DEF Discovery

\* A discovery with another status.
LEMMA GraftType ==
  ASSUME NEW o \in Discovery, NEW st \in Status
  PROVE  [o EXCEPT !.st = st] \in Discovery
  BY DEF Discovery

LEMMA LaterType ==
  ASSUME NEW n \in 0..2
  PROVE  Later(n) \in 0..2
  BY DEF Later

LEMMA ErrorStatusType ==
  ASSUME NEW o \in Discovery, NEW reason \in Reasons
  PROVE  ErrorStatus(o, reason) \in Discovery
  <1>1. o.gen \in Nat /\ o.st \in Status
    BY DEF Discovery
  <1>2. Later(o.st.sync) \in 0..2
    BY <1>1, LaterType DEF Status
  <1> DEFINE t == [o.st EXCEPT !.og = o.gen, !.sync = Later(@), !.ready = "False", !.reason = reason]
  <1>3. t \in Status
    BY <1>1, <1>2 DEF Status
  <1>4. ErrorStatus(o, reason) = [o EXCEPT !.st = t]
    BY <1>1 DEF ErrorStatus, Discovery, Status
  <1> HIDE DEF t
  <1> QED BY <1>3, <1>4, GraftType

LEMMA SuccessStatusType ==
  ASSUME NEW o \in Discovery, NEW p \in Poll
  PROVE  SuccessStatus(o, p).st \in Status
  <1>1. o.gen \in Nat /\ o.st \in Status
    BY DEF Discovery
  <1>2. Later(o.st.sync) \in 0..2
    BY <1>1, LaterType DEF Status
  <1>3. p.managed \subseteq Names /\ p.stale \subseteq Ids /\ p.conflicts \subseteq Ids
    BY DEF Poll
  <1> DEFINE t == [og |-> o.gen, sync |-> Later(o.st.sync), ready |-> "True",
                   reason |-> "Synced", managed |-> p.managed, stale |-> p.stale,
                   conflicts |-> p.conflicts]
  <1>4. t \in Status
    BY <1>1, <1>2, <1>3 DEF Status, Reasons
  <1>5. SuccessStatus(o, p).st = t
    BY DEF SuccessStatus, Discovery
  <1> QED BY <1>4, <1>5

LEMMA NoItemsType ==
  NoItems \in [Names -> CRVersion] /\ \A n \in Names : ~NoItems[n].exists
  BY DEF NoItems, CRVersion, NoObject

LEMMA NewCollectorType ==
  ASSUME NEW k \in Keys \cup Others \cup {""}, NEW i \in Ids
  PROVE  /\ NewCollector(k, i) \in Collector
         /\ NewCollector(k, i).owner = k /\ NewCollector(k, i).id = i
         /\ NewCollector(k, i).exists
  BY DEF NewCollector, Collector

\* A merge patch of the annotation.
LEMMA PatchedType ==
  ASSUME NEW o \in Collector, NEW v \in BOOLEAN
  PROVE  [o EXCEPT !.stale = v] \in Collector
  BY DEF Collector

LEMMA FinalizedType ==
  ASSUME NEW o \in Collector
  PROVE  [o EXCEPT !.fin = TRUE] \in Collector
  BY DEF Collector

LEMMA TakenOverType ==
  ASSUME NEW o \in Collector
  PROVE  [o EXCEPT !.owner = ""] \in Collector
  BY DEF Collector

LEMMA DeletedType ==
  ASSUME NEW o \in CRVersion
  PROVE  Deleted(o) \in CRVersion
  <1>1. CASE o \in Collector /\ o.fin
    <2>1. [o EXCEPT !.del = TRUE] \in Collector
      BY <1>1 DEF Collector
    <2> QED BY <1>1, <2>1 DEF Deleted, CRVersion
  <1>2. CASE ~(o \in Collector /\ o.fin)
    <2>1. o.exists => o \in Collector
      BY CRVersionType
    <2> QED BY <1>2, <2>1 DEF Deleted, CRVersion
  <1> QED BY <1>1, <1>2

-----------------------------------------------------------------------------
(* The first invariant: types, the copies of a discovery, and who looks at *)
(* it next.                                                                *)

\* The worker holds a copy of the discovery it reconciles, and an idle one none.
WorkerType ==
  /\ queue \subseteq Keys /\ later \subseteq Keys
  /\ fresh \in BOOLEAN /\ retry = FALSE
  /\ pc \in Steps
  /\ \/ pc = "idle" /\ cur = "" /\ mem = NoObject
     \/ pc # "idle" /\ cur \in Keys /\ mem \in Discovery

CRType ==
  /\ crs \in [Names -> CRVersion] /\ crCache \in [Names -> CRVersion]
  /\ crWatch \in [Names -> Seq(CRVersion)]

WorldType ==
  /\ fleet \in [Ids -> Presence]
  /\ poll \in Poll
  /\ recent \in [Keys -> BOOLEAN]
  /\ edits \in 0..MaxEdits /\ faults \in 0..MaxFaults

\* A copy with the stored resourceVersion is one of a discovery that exists.
Held == pc # "idle" /\ fresh => obj[cur].exists

KInv == Typed(Version) /\ Copies /\ WorkerType /\ Held /\ PollScheduled

CInv == KInv /\ CRType /\ WorldType

LEMMA TypeParts ==
  TypeOK <=> Typed(Version) /\ WorkerType /\ CRType /\ WorldType
  BY DEF TypeOK, Typed, WorkerType, CRType, WorldType

\* Somebody looks at a discovery again if whoever would have done so still does, and
\* if what is new of it is on its way.
LEMMA StillScheduled ==
  ASSUME PollScheduled,
         \A k \in Keys : watch'[k] = <<>> =>
           k \in queue' \cup later' \/ (watch[k] = <<>> /\ obj'[k] = obj[k]),
         \A k \in Keys : k \in queue \cup later \/ cur = k =>
           k \in queue' \cup later' \/ cur' = k \/ ~obj'[k].exists \/ watch'[k] # <<>>
  PROVE  PollScheduled'
  BY DEF PollScheduled

-----------------------------------------------------------------------------
(* What a step may do to the Collector CRs.                                *)

CRInformed(n) ==
  /\ crWatch[n] # <<>>
  /\ crCache' = [crCache EXCEPT ![n] = Head(crWatch[n])]
  /\ crWatch' = [crWatch EXCEPT ![n] = Tail(crWatch[n])]
  /\ UNCHANGED crs

Relisted == UNCHANGED crs /\ crCache' = crs /\ crWatch' = [n \in Names |-> <<>>]

CRMoves ==
  \/ UNCHANGED crVars
  \/ \E n \in Names, o \in CRVersion : CRWrite(n, o)
  \/ \E n \in Names : CRInformed(n)
  \/ Relisted

LEMMA CRMovesType ==
  ASSUME CRType, CRMoves
  PROVE  CRType'
  <1>1. CASE UNCHANGED crVars
    BY <1>1 DEF crVars, CRType
  <1>2. ASSUME NEW n \in Names, NEW o \in CRVersion, CRWrite(n, o)
        PROVE  CRType'
    <2>1. crWatch[n] \in Seq(CRVersion)
      BY DEF CRType
    <2>2. Append(crWatch[n], o) \in Seq(CRVersion)
      BY <2>1, AppendFacts
    <2> QED BY <1>2, <2>2 DEF CRWrite, CRType
  <1>3. ASSUME NEW n \in Names, CRInformed(n)
        PROVE  CRType'
    <2>1. crWatch[n] \in Seq(CRVersion)
      BY DEF CRType
    <2>2. Head(crWatch[n]) \in CRVersion /\ Tail(crWatch[n]) \in Seq(CRVersion)
      BY <1>3, <2>1, TailFacts DEF CRInformed
    <2> QED BY <1>3, <2>2 DEF CRInformed, CRType
  <1>4. CASE Relisted
    <2>1. [n \in Names |-> <<>>] \in [Names -> Seq(CRVersion)]
      BY EmptyFacts
    <2> QED BY <1>4, <2>1 DEF Relisted, CRType
  <1> QED BY <1>1, <1>2, <1>3, <1>4 DEF CRMoves

\* setStaleAnnotation and clearStaleAnnotation.
LEMMA PatchStaleFacts ==
  ASSUME CRType, faults \in 0..MaxFaults, NEW n \in Names, NEW c, NEW v \in BOOLEAN, NEW p, NEW step,
         PatchStale(n, c, v, p, step)
  PROVE  /\ GoOn(p, step) \/ Fail("UpsertFailed")
         /\ faults' \in 0..MaxFaults
         /\ CRMoves
  <1>1. GoOn(p, step) \/ Fail("UpsertFailed")
    BY DEF PatchStale
  <1>2. faults' \in 0..MaxFaults
    <2>1. CASE NoFault
      BY <2>1 DEF NoFault
    <2>2. CASE Fault("k8s") \/ Fault("k8sLost")
      BY <2>2, FaultType
    <2> QED BY <2>1, <2>2 DEF PatchStale
  <1>3. CASE UNCHANGED crVars
    BY <1>1, <1>2, <1>3 DEF CRMoves, crVars
  <1>4. CASE crs[n].exists /\ CRWrite(n, [crs[n] EXCEPT !.stale = v])
    <2> DEFINE o == [crs[n] EXCEPT !.stale = v]
    <2>1. crs[n] \in Collector
      BY <1>4, CRVersionType DEF CRType
    <2>2. o \in CRVersion
      BY <2>1, PatchedType DEF CRVersion
    <2>3. CRMoves
      BY <1>4, <2>2 DEF CRMoves
    <2> QED BY <1>1, <1>2, <2>3
  <1> QED BY <1>3, <1>4 DEF PatchStale

\* Delete of a CR by name.
LEMMA DeleteMoves ==
  ASSUME CRType, NEW n \in Names, CRWrite(n, Deleted(crs[n]))
  PROVE  CRMoves
  <1>1. Deleted(crs[n]) \in CRVersion
    BY DeletedType DEF CRType
  <1> QED BY <1>1 DEF CRMoves


-----------------------------------------------------------------------------
(* What a call of the worker does to the poll.                             *)

\* What List shows of the CRs.
ListedItems ==
  [n \in Names |-> IF /\ crCache[n].exists /\ crCache[n].owner # ""
                      /\ LabelOf[crCache[n].owner] = LabelOf[cur]
                      /\ collectorIsOwnedByDiscovery(crCache[n], cur)
                   THEN crCache[n] ELSE NoObject]

Found(S) == [NoPoll EXCEPT !.seen = S, !.todo = S]

\* A round of processStale; only where vanished collectors are kept is one stale.
Processed(p, n) ==
  \/ p = Kept(n) \/ p = Pruned(n)
  \/ mem.spec.onRemoved = "Keep" /\ \E i \in Ids : p = [Kept(n) EXCEPT !.stale = @ \cup {i}]

PollMoves ==
  \/ poll' = NoPoll /\ pc' = "updateStatus"
  \/ pc = "list" /\ pc' = "upsert" /\ poll' = Found(Surviving(mem.spec))
  \/ /\ pc = "upsert" /\ pc' = "upsert"
     /\ \E i \in poll.todo : poll' \in {Claimed(i), Conflicting(i)}
  \/ /\ pc = "upsert" /\ pc' = "stale"
     /\ poll' = [poll EXCEPT !.items = ListedItems]
  \/ /\ pc = "stale" /\ pc' = "stale"
     /\ \E n \in Names : Processed(poll', n)

\* A poll looks for what the spec asks for.
LEMMA SurvivingFacts ==
  ASSUME NEW sp
  PROVE  /\ Surviving(sp) \subseteq Ids
         /\ sp.only # {} => Surviving(sp) \subseteq sp.only
  BY DEF Surviving, filterCollectors

\* What poll p has gathered is what a discovery with spec sp is to report.
OfSpec(p, sp) ==
  /\ sp.only # {} => p.todo \cup p.conflicts \subseteq sp.only
  /\ p.stale # {} => sp.onRemoved = "Keep"

\* In the course of a poll it is what the copy in use asks for.
PollOfSpec == pc \in {"upsert", "stale"} => OfSpec(poll, mem.spec)

LEMMA NoPollType == NoPoll \in Poll
  BY NoItemsType DEF NoPoll, Poll

LEMMA FoundFacts ==
  /\ Found(Surviving(mem.spec)) \in Poll
  /\ OfSpec(Found(Surviving(mem.spec)), mem.spec)
  <1> DEFINE S == Surviving(mem.spec)
  <1>1. S \subseteq Ids /\ (mem.spec.only # {} => S \subseteq mem.spec.only)
    BY SurvivingFacts
  <1> HIDE DEF S
  <1>2. Found(S) \in Poll /\ Found(S).todo = S /\ Found(S).conflicts = {} /\ Found(S).stale = {}
    BY <1>1, NoItemsType DEF Found, NoPoll, Poll
  <1> QED BY <1>1, <1>2 DEF OfSpec, S

LEMMA ClaimedFacts ==
  ASSUME poll \in Poll, NEW i \in poll.todo
  PROVE  /\ Claimed(i) \in Poll
         /\ OfSpec(poll, mem.spec) => OfSpec(Claimed(i), mem.spec)
  <1>1. /\ Claimed(i) \in Poll
        /\ Claimed(i).todo = poll.todo \ {i}
        /\ Claimed(i).conflicts = poll.conflicts /\ Claimed(i).stale = poll.stale
    BY DEF Claimed, Poll
  <1> QED BY <1>1 DEF OfSpec

LEMMA ConflictingFacts ==
  ASSUME poll \in Poll, NEW i \in poll.todo
  PROVE  /\ Conflicting(i) \in Poll
         /\ OfSpec(poll, mem.spec) => OfSpec(Conflicting(i), mem.spec)
  <1>1. /\ Conflicting(i) \in Poll
        /\ Conflicting(i).todo = poll.todo \ {i}
        /\ Conflicting(i).conflicts = poll.conflicts \cup {i}
        /\ Conflicting(i).stale = poll.stale
    BY DEF Conflicting, Poll
  <1> QED BY <1>1 DEF OfSpec

LEMMA GatheredFacts ==
  ASSUME poll \in Poll, CRType
  PROVE  /\ [poll EXCEPT !.items = ListedItems] \in Poll
         /\ OfSpec(poll, mem.spec) => OfSpec([poll EXCEPT !.items = ListedItems], mem.spec)
  <1> DEFINE q == ListedItems
             p == [poll EXCEPT !.items = q]
  <1>1. q \in [Names -> CRVersion]
    BY DEF ListedItems, CRType, CRVersion
  <1> HIDE DEF q
  <1>2. p \in Poll /\ p.todo = poll.todo /\ p.conflicts = poll.conflicts /\ p.stale = poll.stale
    BY <1>1 DEF Poll
  <1> QED BY <1>2 DEF OfSpec, q

\* A round of processStale.
LEMMA ProcessedFacts ==
  ASSUME poll \in Poll, NEW n \in Names, NEW p, Processed(p, n)
  PROVE  /\ p \in Poll
         /\ OfSpec(poll, mem.spec) => OfSpec(p, mem.spec)
  <1> DEFINE q == [poll.items EXCEPT ![n] = NoObject]
  <1>1. poll.items \in [Names -> CRVersion] /\ poll.managed \subseteq Names /\ poll.stale \subseteq Ids
    BY DEF Poll
  <1>2. q \in [Names -> CRVersion]
    BY <1>1 DEF CRVersion
  <1>3. PICK M \in SUBSET Names, S \in SUBSET Ids :
          /\ p = [poll EXCEPT !.items = q, !.managed = M, !.stale = S]
          /\ S = poll.stale \/ mem.spec.onRemoved = "Keep"
    <2>1. CASE p = Kept(n)
      <3>1. p = [poll EXCEPT !.items = q, !.managed = poll.managed \cup {n}, !.stale = poll.stale]
        BY <2>1 DEF Kept, Poll
      <3> QED BY <1>1, <3>1
    <2>2. CASE p = Pruned(n)
      <3>1. p = [poll EXCEPT !.items = q, !.managed = poll.managed, !.stale = poll.stale]
        BY <2>2 DEF Pruned, Poll
      <3> QED BY <1>1, <3>1
    <2>3. ASSUME NEW i \in Ids, mem.spec.onRemoved = "Keep", p = [Kept(n) EXCEPT !.stale = @ \cup {i}]
          PROVE  \E M \in SUBSET Names, S \in SUBSET Ids :
                   /\ p = [poll EXCEPT !.items = q, !.managed = M, !.stale = S]
                   /\ S = poll.stale \/ mem.spec.onRemoved = "Keep"
      <3>1. p = [poll EXCEPT !.items = q, !.managed = poll.managed \cup {n},
                             !.stale = poll.stale \cup {i}]
        BY <2>3 DEF Kept, Poll
      <3>2. poll.managed \cup {n} \in SUBSET Names /\ poll.stale \cup {i} \in SUBSET Ids
        BY <1>1
      <3> HIDE DEF q
      <3> QED BY <2>3, <3>1, <3>2
    <2> QED BY <2>1, <2>2, <2>3 DEF Processed
  <1> HIDE DEF q
  <1>4. p \in Poll /\ p.todo = poll.todo /\ p.conflicts = poll.conflicts /\ p.stale = S
    BY <1>2, <1>3 DEF Poll
  <1> QED BY <1>3, <1>4 DEF OfSpec

LEMMA PollMovesFacts ==
  ASSUME poll \in Poll, CRType, PollMoves
  PROVE  /\ poll' \in Poll
         /\ PollOfSpec /\ pc' \in {"upsert", "stale"} => OfSpec(poll', mem.spec)
  BY NoPollType, FoundFacts, ClaimedFacts, ConflictingFacts, GatheredFacts,
     ProcessedFacts DEF PollMoves, PollOfSpec

-----------------------------------------------------------------------------
(* The calls in the middle of a reconcile.                                 *)

\* The worker goes on with its copy, or with the status of a failure in it, and nothing
\* of the discoveries moves.
GoesOn ==
  /\ \/ Continue(mem) /\ pc' # "updateStatus"
     \/ \E reason \in Reasons : Continue(ErrorStatus(mem, reason)) /\ pc' = "updateStatus"
  /\ pc \in {"list", "upsert", "stale"} /\ pc' \in Steps /\ pc' # "idle"
  /\ faults' \in 0..MaxFaults
  /\ UNCHANGED <<retry, recent, later, fleet, edits>>

LEMMA ListCollectorsMoves ==
  ASSUME CInv, ListCollectors
  PROVE  GoesOn /\ UNCHANGED crVars /\ PollMoves
  <1>1. /\ pc = "list" /\ mem \in Discovery /\ faults \in 0..MaxFaults
        /\ UNCHANGED <<retry, recent, later, fleet, edits>> /\ UNCHANGED crVars
    BY DEF ListCollectors, OperatorOnly, CInv, KInv, WorkerType, WorldType
  <1>2. CASE Fault("5xx") /\ Fail("ListCollectorsFailed")
    <2>1. faults' \in 0..MaxFaults
      BY <1>1, <1>2, FaultType
    <2> QED BY <1>1, <1>2, <2>1 DEF Fail, PollMoves, GoesOn, Steps, Reasons
  <1>3. CASE /\ GoOn(Found(Surviving(mem.spec)), "upsert")
             /\ NoFault
    <2>1. Continue(mem) /\ poll' = Found(Surviving(mem.spec)) /\ pc' = "upsert"
      BY <1>3 DEF GoOn
    <2>2. faults' \in 0..MaxFaults
      BY <1>1, <1>3 DEF NoFault
    <2> QED BY <1>1, <2>1, <2>2 DEF GoesOn, PollMoves, Steps
  <1> QED BY <1>2, <1>3 DEF ListCollectors, Found

LEMMA UpsertMoves ==
  ASSUME CInv, NEW i \in Ids, Upsert(i)
  PROVE  GoesOn /\ CRMoves /\ PollMoves
  <1> DEFINE n == CRName[i]
             c == crCache[n]
  <1>1. /\ pc = "upsert" /\ i \in poll.todo /\ mem \in Discovery /\ cur \in Keys
        /\ faults \in 0..MaxFaults
        /\ UNCHANGED <<retry, recent, later, fleet, edits>>
    BY DEF Upsert, OperatorOnly, CInv, KInv, WorkerType, WorldType
  <1>2. n \in Names /\ CRType
    BY DiscoveryAssumption DEF CInv
  <1>3. ASSUME GoOn(Claimed(i), "upsert") \/ Fail("UpsertFailed"), faults' \in 0..MaxFaults
        PROVE  GoesOn /\ PollMoves
    <2>1. CASE GoOn(Claimed(i), "upsert")
      <3>1. Continue(mem) /\ poll' = Claimed(i) /\ pc' = "upsert"
        BY <2>1 DEF GoOn
      <3>2. PollMoves
        BY <1>1, <3>1 DEF PollMoves
      <3> QED BY <1>1, <1>3, <3>1, <3>2 DEF GoesOn, Steps
    <2>2. CASE Fail("UpsertFailed")
      BY <1>1, <1>3, <2>2 DEF Fail, PollMoves, GoesOn, Steps, Reasons
    <2> QED BY <1>3, <2>1, <2>2
  <1>4. CASE ~c.exists /\ CreateCollector(i)
    <2> DEFINE stored == IF crs[n].exists THEN crs[n] ELSE NewCollector(cur, i)
    <2>1. GoOn(Claimed(i), "upsert") \/ Fail("UpsertFailed")
      BY <1>4 DEF CreateCollector
    <2>2. faults' \in 0..MaxFaults
      <3>1. CASE NoFault
        BY <1>1, <3>1 DEF NoFault
      <3>2. CASE Fault("k8s") \/ Fault("k8sLost")
        BY <1>1, <3>2, FaultType
      <3> QED BY <1>4, <3>1, <3>2 DEF CreateCollector
    <2>3. CRMoves
      <3>1. CASE UNCHANGED crVars
        BY <3>1 DEF CRMoves
      <3>2. CASE CRWrite(n, stored)
        <4>1. CASE crs[n].exists
          <5>1. CRWrite(n, crs[n])
            BY <3>2, <4>1
          <5>2. UNCHANGED crVars
            BY <5>1 DEF CRWrite, crVars
          <5> QED BY <5>2 DEF CRMoves
        <4>2. CASE ~crs[n].exists
          <5>1. CRWrite(n, NewCollector(cur, i))
            BY <3>2, <4>2
          <5>2. NewCollector(cur, i) \in CRVersion
            BY <1>1, NewCollectorType DEF CRVersion
          <5> HIDE DEF n
          <5> QED BY <1>2, <5>1, <5>2 DEF CRMoves
        <4> QED BY <4>1, <4>2
      <3> QED BY <1>4, <3>1, <3>2 DEF CreateCollector
    <2> QED BY <1>3, <2>1, <2>2, <2>3
  <1>5. CASE PatchStale(n, c, FALSE, Claimed(i), "upsert")
    <2>1. /\ GoOn(Claimed(i), "upsert") \/ Fail("UpsertFailed")
          /\ faults' \in 0..MaxFaults /\ CRMoves
      <3> HIDE DEF n, c
      <3> QED BY <1>1, <1>2, <1>5, PatchStaleFacts
    <2> QED BY <1>3, <2>1
  <1>6. CASE /\ c.exists /\ ~(collectorIsOwnedByDiscovery(c, cur) /\ c.id = i)
             /\ GoOn(Conflicting(i), "upsert")
             /\ NoFault /\ UNCHANGED crVars
    <2>1. Continue(mem) /\ poll' = Conflicting(i) /\ pc' = "upsert"
      BY <1>6 DEF GoOn
    <2>2. PollMoves
      BY <1>1, <2>1 DEF PollMoves
    <2>3. faults' \in 0..MaxFaults
      BY <1>1, <1>6 DEF NoFault
    <2> QED BY <1>1, <1>6, <2>1, <2>2, <2>3 DEF GoesOn, Steps, CRMoves
  <1> QED BY <1>4, <1>5, <1>6 DEF Upsert

LEMMA ListManagedMoves ==
  ASSUME CInv, ListManaged
  PROVE  GoesOn /\ UNCHANGED crVars /\ PollMoves
  <1>1. /\ pc = "upsert" /\ poll.todo = {} /\ mem \in Discovery /\ faults \in 0..MaxFaults
        /\ UNCHANGED <<retry, recent, later, fleet, edits>> /\ UNCHANGED crVars
    BY DEF ListManaged, OperatorOnly, CInv, KInv, WorkerType, WorldType
  <1>2. CASE Fault("k8s") /\ Fail("UpsertFailed")
    <2>1. faults' \in 0..MaxFaults
      BY <1>1, <1>2, FaultType
    <2> QED BY <1>1, <1>2, <2>1 DEF Fail, PollMoves, GoesOn, Steps, Reasons
  <1>3. CASE GoOn([poll EXCEPT !.items = ListedItems], "stale") /\ NoFault
    <2>1. /\ Continue(mem)
          /\ poll' = [poll EXCEPT !.items = ListedItems] /\ pc' = "stale"
      BY <1>3 DEF GoOn
    <2>2. PollMoves
      BY <1>1, <2>1 DEF PollMoves
    <2>3. faults' \in 0..MaxFaults
      BY <1>1, <1>3 DEF NoFault
    <2> QED BY <1>1, <2>1, <2>2, <2>3 DEF GoesOn, Steps
  <1> QED BY <1>2, <1>3 DEF ListManaged, ListedItems

LEMMA ProcessStaleMoves ==
  ASSUME CInv, NEW n \in Names, ProcessStale(n)
  PROVE  GoesOn /\ CRMoves /\ PollMoves
  <1> DEFINE c == poll.items[n]
             stale == [Kept(n) EXCEPT !.stale = @ \cup {c.id}]
  <1>1. /\ pc = "stale" /\ c.exists /\ mem \in Discovery /\ faults \in 0..MaxFaults
        /\ UNCHANGED <<retry, recent, later, fleet, edits>> /\ CRType
    BY DEF ProcessStale, OperatorOnly, CInv, KInv, WorkerType, WorldType
  <1>2. c.id \in Ids
    <2>1. c \in CRVersion
      BY DEF CInv, WorldType, Poll
    <2>2. c \in Collector
      BY <1>1, <2>1, CRVersionType
    <2> QED BY <2>2 DEF Collector
  <1>3. /\ Processed(Kept(n), n) /\ Processed(Pruned(n), n)
        /\ mem.spec.onRemoved = "Keep" => Processed(stale, n)
    BY <1>2 DEF Processed
  <1>4. ASSUME NEW p, Processed(p, n), GoOn(p, "stale") \/ Fail("UpsertFailed"),
               faults' \in 0..MaxFaults
        PROVE  GoesOn /\ PollMoves
    <2>1. CASE GoOn(p, "stale")
      <3>1. Continue(mem) /\ poll' = p /\ pc' = "stale"
        BY <2>1 DEF GoOn
      <3>2. PollMoves
        BY <1>1, <1>4, <3>1 DEF PollMoves
      <3> QED BY <1>1, <1>4, <3>1, <3>2 DEF GoesOn, Steps
    <2>2. CASE Fail("UpsertFailed")
      BY <1>1, <1>4, <2>2 DEF Fail, PollMoves, GoesOn, Steps, Reasons
    <2> QED BY <1>4, <2>1, <2>2
  <1>5. CASE PatchStale(n, c, FALSE, Kept(n), "stale")
    <2>1. /\ GoOn(Kept(n), "stale") \/ Fail("UpsertFailed")
          /\ faults' \in 0..MaxFaults /\ CRMoves
      <3> HIDE DEF c
      <3> QED BY <1>1, <1>5, PatchStaleFacts
    <2> QED BY <1>3, <1>4, <2>1
  <1>6. CASE mem.spec.onRemoved = "Keep" /\ PatchStale(n, c, TRUE, stale, "stale")
    <2>1. /\ GoOn(stale, "stale") \/ Fail("UpsertFailed")
          /\ faults' \in 0..MaxFaults /\ CRMoves
      <3> HIDE DEF c, stale
      <3> QED BY <1>1, <1>6, PatchStaleFacts
    <2> HIDE DEF stale
    <2> QED BY <1>3, <1>4, <1>6, <2>1
  <1>7. CASE \/ CRWrite(n, Deleted(crs[n])) /\ GoOn(Pruned(n), "stale") /\ NoFault
             \/ Fault("k8s") /\ Fail("UpsertFailed") /\ UNCHANGED crVars
             \/ Fault("k8sLost") /\ Fail("UpsertFailed") /\ CRWrite(n, Deleted(crs[n]))
    <2>1. CRMoves
      <3>1. CASE UNCHANGED crVars
        BY <3>1 DEF CRMoves
      <3>2. CASE CRWrite(n, Deleted(crs[n]))
        BY <1>1, <3>2, DeleteMoves
      <3> QED BY <1>7, <3>1, <3>2
    <2>2. faults' \in 0..MaxFaults
      <3>1. CASE NoFault
        BY <1>1, <3>1 DEF NoFault
      <3>2. CASE Fault("k8s") \/ Fault("k8sLost")
        BY <1>1, <3>2, FaultType
      <3> QED BY <1>7, <3>1, <3>2
    <2> QED BY <1>3, <1>4, <1>7, <2>1, <2>2
  <1> QED BY <1>5, <1>6, <1>7 DEF ProcessStale


-----------------------------------------------------------------------------
(* The first invariant, step by step.                                      *)

LEMMA CInit == Init => CInv
  <1> SUFFICES ASSUME Init PROVE CInv
    OBVIOUS
  <1>1. PICK stored \in [Keys -> {NoObject} \cup {NewDiscovery(s) : s \in Specs}] : KubeInit(stored)
    BY DEF Init
  <1>2. stored \in [Keys -> Version]
    <2>1. \A k \in Keys : stored[k] = NoObject \/ \E s \in Specs : stored[k] = NewDiscovery(s)
      OBVIOUS
    <2>2. \A k \in Keys : stored[k] \in Version
      BY <2>1, NewDiscoveryType, VersionType DEF Version
    <2>3. stored = [k \in Keys |-> stored[k]]
      OBVIOUS
    <2> QED BY <2>2, <2>3, VersionType DEF Version
  <1>3. /\ obj = stored /\ cache = stored /\ watch = [k \in Keys |-> <<>>]
        /\ queue = {k \in Keys : stored[k].exists}
        /\ cur = "" /\ mem = NoObject /\ fresh = FALSE
    BY <1>1 DEF KubeInit
  <1>4. [k \in Keys |-> <<>>] \in [Keys -> Seq(Version)]
    BY EmptyFacts
  <1>5. Typed(Version) /\ Copies
    BY <1>2, <1>3, <1>4 DEF Typed, Copies
  <1>6. WorkerType /\ Held /\ PollScheduled
    BY <1>2, <1>3 DEF Init, WorkerType, Held, PollScheduled, Steps
  <1>7. CRType
    <2>1. [n \in Names |-> <<>>] \in [Names -> Seq(CRVersion)]
      BY EmptyFacts
    <2>2. {NoObject} \cup Leftovers \subseteq CRVersion
      BY DiscoveryAssumption DEF CRVersion
    <2>3. crs \in [Names -> CRVersion]
      BY <2>2 DEF Init
    <2> QED BY <2>1, <2>3 DEF Init, CRType
  <1>8. WorldType
    <2>1. 0 \in 0..MaxEdits /\ 0 \in 0..MaxFaults
      BY DiscoveryAssumption, FaultsAssumption
    <2>2. fleet \in [Ids -> Presence]
      BY DEF Init, Presence
    <2> QED BY <2>1, <2>2, NoPollType DEF Init, WorldType
  <1> QED BY <1>5, <1>6, <1>7, <1>8 DEF CInv, KInv

\* A step in the middle of a reconcile.
LEMMA GoesOnKeepsC ==
  ASSUME CInv, GoesOn, CRMoves, PollMoves
  PROVE  CInv'
  <1>0. mem \in Discovery
    BY DEF GoesOn, CInv, KInv, WorkerType
  <1>1. PICK o \in Discovery : Continue(o)
    BY <1>0, ErrorStatusType DEF GoesOn
  <1>2. mem' = o /\ UNCHANGED <<obj, watch, cache, queue, cur, fresh>>
    BY <1>1 DEF Continue
  <1>3. pc # "idle" /\ pc' \in Steps /\ pc' # "idle" /\ UNCHANGED <<retry, recent, later, fleet, edits>>
    BY DEF GoesOn
  <1>4. WorkerType' /\ Held'
    BY <1>2, <1>3 DEF CInv, KInv, WorkerType, Held
  <1>5. Typed(Version)' /\ Copies' /\ PollScheduled'
    BY <1>2, <1>3 DEF CInv, KInv, Typed, Copies, PollScheduled
  <1>6. CRType'
    BY CRMovesType DEF CInv
  <1>7. WorldType'
    <2>1. poll' \in Poll /\ faults' \in 0..MaxFaults
      BY PollMovesFacts DEF CInv, WorldType, GoesOn
    <2> QED BY <1>3, <2>1 DEF CInv, WorldType
  <1> QED BY <1>4, <1>5, <1>6, <1>7 DEF CInv, KInv

\* A write of a discovery by a user.
LEMMA WriteDiscoveryKeepsC ==
  ASSUME CInv, NEW k \in Keys, NEW o \in Version, WriteDiscovery(k, o)
  PROVE  CInv'
  <1>0. /\ Store(k, o) /\ fresh' = (fresh /\ cur # k)
        /\ UNCHANGED <<cache, queue, cur, mem, pc, retry, faults, poll, fleet, recent, later>>
        /\ UNCHANGED crVars
    BY DEF WriteDiscovery, UserWrite, NotWorker
  <1>1. /\ Typed(Version)' /\ Copies' /\ obj'[k] = o
        /\ watch'[k] = <<>> => obj' = obj /\ watch' = watch
        /\ \A j \in Keys \ {k} : obj'[j] = obj[j] /\ watch'[j] = watch[j]
    BY <1>0, StoreFacts DEF CInv, KInv
  <1>2. WorkerType'
    BY <1>0 DEF CInv, KInv, WorkerType
  <1>3. Held'
    BY <1>0, <1>1 DEF CInv, KInv, WorkerType, Held
  <1>4. PollScheduled'
    <2>1. PollScheduled
      BY DEF CInv, KInv
    <2>2. \A j \in Keys : watch'[j] = <<>> => watch[j] = <<>> /\ obj'[j] = obj[j]
      BY <1>1
    <2> QED BY <1>0, <2>1, <2>2, StillScheduled
  <1>5. edits' \in 0..MaxEdits
    <2>1. edits < MaxEdits /\ edits' = edits + 1
      BY DEF WriteDiscovery, Edit
    <2> QED BY <2>1, OneMore, DiscoveryAssumption DEF CInv, WorldType
  <1>6. CRType' /\ WorldType'
    BY <1>0, <1>5 DEF CInv, CRType, WorldType, crVars
  <1> QED BY <1>1, <1>2, <1>3, <1>4, <1>6 DEF CInv, KInv

LEMMA UserDiscoveryKeepsC ==
  ASSUME CInv, NEW k \in Keys,
         (\E s \in Specs : CreateDiscovery(k, s) \/ EditSpec(k, s)) \/ DeleteDiscovery(k)
  PROVE  CInv'
  <1>1. ASSUME NEW s \in Specs, CreateDiscovery(k, s)
        PROVE  CInv'
    BY <1>1, NewDiscoveryType, WriteDiscoveryKeepsC DEF CreateDiscovery, Version
  <1>2. ASSUME NEW s \in Specs, EditSpec(k, s)
        PROVE  CInv'
    <2>1. obj[k] \in Discovery
      BY <1>2, VersionType DEF EditSpec, CInv, KInv, Typed
    <2>2. [obj[k] EXCEPT !.spec = s, !.gen = @ + 1] \in Version
      BY <2>1, EditedType DEF Version
    <2> QED BY <1>2, <2>2, WriteDiscoveryKeepsC DEF EditSpec
  <1>3. CASE DeleteDiscovery(k)
    BY <1>3, WriteDiscoveryKeepsC DEF DeleteDiscovery, Version
  <1> QED BY <1>1, <1>2, <1>3

\* A step that leaves the discoveries and the worker alone.
LEMMA ElsewhereKeepsC ==
  ASSUME CInv, UNCHANGED kubeVars, UNCHANGED <<pc, retry, recent, later, poll, faults>>,
         CRMoves, fleet' \in [Ids -> Presence], edits' \in 0..MaxEdits
  PROVE  CInv'
  <1>1. UNCHANGED <<obj, watch, cache, queue, cur, mem, fresh>>
    BY DEF kubeVars
  <1>2. Typed(Version)' /\ Copies' /\ WorkerType' /\ Held' /\ PollScheduled'
    BY <1>1 DEF CInv, KInv, Typed, Copies, WorkerType, Held, PollScheduled
  <1>3. CRType'
    BY CRMovesType DEF CInv
  <1>4. WorldType'
    BY DEF CInv, WorldType
  <1> QED BY <1>2, <1>3, <1>4 DEF CInv, KInv

LEMMA EditType ==
  ASSUME CInv, Edit
  PROVE  edits' \in 0..MaxEdits
  <1>1. edits < MaxEdits /\ edits' = edits + 1
    BY DEF Edit
  <1> QED BY <1>1, OneMore, DiscoveryAssumption DEF CInv, WorldType

LEMMA ChangeFleetKeepsC ==
  ASSUME CInv, NEW i \in Ids, NEW p \in Presence, ChangeFleet(i, p)
  PROVE  CInv'
  <1>1. /\ UNCHANGED kubeVars /\ UNCHANGED <<pc, retry, recent, later, poll, faults>>
        /\ UNCHANGED crVars /\ fleet' = [fleet EXCEPT ![i] = p]
    BY DEF ChangeFleet, NotWorker
  <1>2. CRMoves
    BY <1>1 DEF CRMoves
  <1>3. fleet' \in [Ids -> Presence]
    BY <1>1 DEF CInv, WorldType
  <1>4. edits' \in 0..MaxEdits
    BY EditType DEF ChangeFleet
  <1> QED BY <1>1, <1>2, <1>3, <1>4, ElsewhereKeepsC

\* Users, other discoveries and the Collector controller.
LEMMA UserCRMoves ==
  ASSUME CInv, NEW n \in Names,
         \/ \E i \in Ids, k \in Others \cup {""} : CRName[i] = n /\ CreateCR(n, k, i)
         \/ DeleteCR(n) \/ TakeOver(n) \/ AddFinalizer(n) \/ RemoveFinalizer(n)
  PROVE  /\ CRMoves
         /\ UNCHANGED kubeVars /\ UNCHANGED <<pc, retry, recent, later, poll, faults, fleet>>
         /\ edits' \in 0..MaxEdits
  <1>0. CRType /\ crs[n] \in CRVersion /\ edits \in 0..MaxEdits
    BY DEF CInv, CRType, WorldType
  <1>1. ASSUME NEW o \in CRVersion, WriteCR(n, o)
        PROVE  /\ CRMoves
               /\ UNCHANGED kubeVars /\ UNCHANGED <<pc, retry, recent, later, poll, faults, fleet>>
               /\ edits' \in 0..MaxEdits
    <2>1. CRMoves
      BY <1>1 DEF WriteCR, CRMoves
    <2>2. edits' \in 0..MaxEdits
      BY <1>1, EditType DEF WriteCR
    <2> QED BY <1>1, <2>1, <2>2 DEF WriteCR, NotWorker
  <1>2. crs[n].exists => crs[n] \in Collector
    BY <1>0, CRVersionType
  <1>3. ASSUME NEW i \in Ids, NEW k \in Others \cup {""}
        PROVE  NewCollector(k, i) \in CRVersion
    BY NewCollectorType DEF CRVersion
  <1>4. TakeOver(n) => [crs[n] EXCEPT !.owner = ""] \in CRVersion
    BY <1>2, TakenOverType DEF TakeOver, CRVersion
  <1>5. AddFinalizer(n) => [crs[n] EXCEPT !.fin = TRUE] \in CRVersion
    BY <1>2, FinalizedType DEF AddFinalizer, CRVersion
  <1>6. CASE RemoveFinalizer(n)
    <2>1. CRMoves
      BY <1>6 DEF RemoveFinalizer, CRMoves, CRVersion
    <2> QED BY <1>0, <1>6, <2>1 DEF RemoveFinalizer, NotWorker
  <1>7. CASE \E i \in Ids, k \in Others \cup {""} : CRName[i] = n /\ CreateCR(n, k, i)
    BY <1>1, <1>3, <1>7 DEF CreateCR
  <1>8. CASE TakeOver(n)
    BY <1>1, <1>4, <1>8 DEF TakeOver
  <1>9. CASE AddFinalizer(n)
    BY <1>1, <1>5, <1>9 DEF AddFinalizer
  <1>10. CASE DeleteCR(n)
    BY <1>0, <1>1, <1>10, DeletedType DEF DeleteCR
  <1> QED BY <1>6, <1>7, <1>8, <1>9, <1>10

LEMMA ReconcileKeepsC ==
  ASSUME CInv, NEW k \in Keys, Reconcile(k)
  PROVE  CInv'
  <1>0. PollScheduled /\ k \in queue /\ cur = "" /\ pc = "idle"
    BY KeysAssumption DEF CInv, KInv, WorkerType, Reconcile, ReconcileNothing, ReconcileInvalid, ReconcileSkip,
              ReconcilePoll, Fetch, FetchAndReturn
  <1>1. CRType' /\ WorldType'
    BY DEF CInv, CRType, WorldType, crVars, Reconcile, ReconcileNothing, ReconcileInvalid,
           ReconcileSkip, ReconcilePoll, NoFault, OperatorOnly
  <1>2. ASSUME FetchAndReturn(k), later' \subseteq Keys, UNCHANGED <<pc, retry>>,
               \/ ~cache[k].exists /\ later' = later
               \/ later' = later \cup {k}
        PROVE  KInv'
    <2>1. queue' = queue \ {k} /\ UNCHANGED <<obj, watch, cache, cur, mem, fresh>>
      BY <1>2 DEF FetchAndReturn
    <2>2. Typed(Version)' /\ Copies' /\ WorkerType' /\ Held'
      BY <1>2, <2>1 DEF CInv, KInv, Typed, Copies, WorkerType, Held
    <2>3. k \in later' \/ ~obj'[k].exists \/ watch'[k] # <<>>
      BY <1>2, <2>1 DEF CInv, KInv, Copies
    <2>4. \A j \in Keys \ {k} : j \in queue \cup later => j \in queue' \cup later'
      BY <1>2, <2>1
    <2>5. PollScheduled'
      BY <1>0, <2>1, <2>3, <2>4, StillScheduled
    <2> QED BY <2>2, <2>5 DEF KInv
  <1>3. ASSUME NEW o \in Discovery, Fetch(k, o), cache[k].exists, UNCHANGED <<retry, later>>,
               pc' \in Steps, pc' # "idle"
        PROVE  KInv'
    <2>1. /\ queue' = queue \ {k} /\ cur' = k /\ mem' = o /\ fresh' = (watch[k] = <<>>)
          /\ UNCHANGED <<obj, watch, cache>>
      BY <1>3 DEF Fetch
    <2>2. Typed(Version)' /\ Copies' /\ WorkerType'
      BY <1>3, <2>1 DEF CInv, KInv, Typed, Copies, WorkerType
    <2>3. Held'
      BY <1>3, <2>1 DEF CInv, KInv, Copies, Held
    <2>4. PollScheduled'
      BY <1>0, <1>3, <2>1, StillScheduled, KeysAssumption
    <2> QED BY <2>2, <2>3, <2>4 DEF KInv
  <1>4. CASE ReconcileNothing(k)
    BY <1>1, <1>2, <1>4 DEF ReconcileNothing, CInv, KInv, WorkerType
  <1>5. CASE ReconcileSkip(k)
    BY <1>1, <1>2, <1>5 DEF ReconcileSkip, CInv, KInv, WorkerType
  <1>6. cache[k].exists => cache[k] \in Discovery
    BY VersionType DEF CInv, KInv, Typed
  <1>7. CASE ReconcileInvalid(k)
    <2>1. ErrorStatus(cache[k], "InvalidConfig") \in Discovery
      BY <1>6, <1>7, ErrorStatusType DEF ReconcileInvalid, Reasons
    <2> QED BY <1>1, <1>3, <1>7, <2>1 DEF ReconcileInvalid, CInv, Steps
  <1>8. CASE ReconcilePoll(k)
    BY <1>1, <1>3, <1>6, <1>8 DEF ReconcilePoll, CInv, Steps
  <1> QED BY <1>4, <1>5, <1>7, <1>8 DEF Reconcile

\* A write that ends the reconcile, of the status st on top of what is stored, or none.
LEMMA StatusWriteKeepsK ==
  ASSUME CInv, cur \in Keys, NEW st \in Status,
         UNCHANGED <<obj, watch>> \/ (fresh /\ Store(cur, [obj[cur] EXCEPT !.st = st])),
         pc # "idle",
         pc' = "idle", retry' = FALSE, cur' = "", mem' = NoObject, fresh' = FALSE, cache' = cache,
         queue' \subseteq Keys, later' \subseteq Keys,
         queue \subseteq queue', later \subseteq later',
         cur \in queue' \cup later' \/ ~obj'[cur].exists
  PROVE  KInv'
  <1> DEFINE o == [obj[cur] EXCEPT !.st = st]
  <1>0. Typed(Version) /\ Copies /\ PollScheduled
    BY DEF CInv, KInv
  <1>1. WorkerType' /\ Held'
    BY DEF WorkerType, Held, Steps
  <1>2. /\ Typed(Version)' /\ Copies'
        /\ \A k \in Keys : watch'[k] = <<>> => watch[k] = <<>> /\ obj'[k] = obj[k]
    <2>1. CASE UNCHANGED <<obj, watch>>
      BY <1>0, <2>1 DEF Typed, Copies
    <2>2. CASE fresh /\ Store(cur, o)
      <3>1. obj[cur] \in Discovery
        BY <2>2, VersionType DEF CInv, KInv, Typed, Held
      <3>2. o \in Version
        BY <3>1, GraftType DEF Version
      <3> HIDE DEF o
      <3>3. /\ Typed(Version)' /\ Copies'
            /\ watch'[cur] = <<>> => obj' = obj /\ watch' = watch
            /\ \A j \in Keys \ {cur} : obj'[j] = obj[j] /\ watch'[j] = watch[j]
        BY <1>0, <2>2, <3>2, StoreFacts
      <3> QED BY <3>3
    <2> QED BY <2>1, <2>2
  <1>3. PollScheduled'
    BY <1>0, <1>2, StillScheduled
  <1> QED BY <1>1, <1>2, <1>3 DEF KInv

LEMMA UpdateStatusErrorKeepsC ==
  ASSUME CInv, UpdateStatusError
  PROVE  CInv'
  <1> DEFINE o == [obj[cur] EXCEPT !.st = mem.st]
  <1>1. pc = "updateStatus" /\ cur \in Keys /\ mem \in Discovery /\ faults \in 0..MaxFaults
    BY DEF UpdateStatusError, CInv, KInv, WorkerType, WorldType
  <1>2. /\ KubeWrite(o, TRUE, TRUE) /\ UNCHANGED <<poll, later, fleet, edits>> /\ UNCHANGED crVars
        /\ recent' = [recent EXCEPT ![cur] = @ \/ (obj'[cur] # obj[cur])]
    BY DEF UpdateStatusError, OperatorOnly
  <1>3. /\ pc' = "idle" /\ retry' = FALSE /\ cur' = "" /\ mem' = NoObject /\ fresh' = FALSE
        /\ cache' = cache
        /\ faults' \in 0..MaxFaults
        /\ UNCHANGED <<obj, watch>> \/ (fresh /\ Store(cur, o))
        /\ queue' = queue \cup {cur}
    <2> HIDE DEF o
    <2> QED BY <1>1, <1>2, KubeWriteSteps
  <1>4. mem.st \in Status
    BY <1>1 DEF Discovery
  <1>5. queue \subseteq Keys /\ later \subseteq Keys
    BY DEF CInv, KInv, WorkerType
  <1>6. KInv'
    BY <1>1, <1>2, <1>3, <1>4, <1>5, StatusWriteKeepsK
  <1>7. recent' \in [Keys -> BOOLEAN]
    BY <1>2 DEF CInv, WorldType
  <1>8. CRType' /\ WorldType'
    BY <1>2, <1>3, <1>7 DEF CInv, CRType, WorldType, crVars
  <1> QED BY <1>6, <1>8 DEF CInv

LEMMA UpdateStatusSuccessWrites ==
  ASSUME UpdateStatusSuccess
  PROVE  /\ cur' = "" /\ mem' = NoObject /\ fresh' = FALSE /\ cache' = cache
         /\ \/ UNCHANGED <<obj, watch>>
            \/ fresh /\ Store(cur, [obj[cur] EXCEPT !.st = SuccessStatus(mem, poll).st])
         /\ \/ queue' = queue /\ later' = later \cup {cur}
            \/ queue' = queue \cup {cur} /\ later' = later
  <1> DEFINE o == [obj[cur] EXCEPT !.st = SuccessStatus(mem, poll).st]
  <1> HIDE DEF o
  <1>1. CASE WriteAndReturn(o, FALSE) /\ later' = later \cup {cur}
    BY <1>1 DEF WriteAndReturn, Return, o
  <1>2. CASE JustReturn(FALSE) /\ later' = later \cup {cur}
    BY <1>2 DEF JustReturn, Return
  <1>3. CASE JustReturn(TRUE) /\ UNCHANGED later
    BY <1>3 DEF JustReturn, Return
  <1>4. CASE WriteAndReturn(o, TRUE) /\ UNCHANGED later
    BY <1>4 DEF WriteAndReturn, Return, o
  <1> QED BY <1>1, <1>2, <1>3, <1>4 DEF UpdateStatusSuccess, o

LEMMA UpdateStatusSuccessKeepsC ==
  ASSUME CInv, UpdateStatusSuccess
  PROVE  CInv' /\ UNCHANGED crVars /\ pc' = "idle"
  <1> DEFINE st == SuccessStatus(mem, poll).st
             o == [obj[cur] EXCEPT !.st = st]
  <1>1. /\ pc = "stale" /\ cur \in Keys /\ mem \in Discovery /\ faults \in 0..MaxFaults
        /\ poll \in Poll
    BY DEF UpdateStatusSuccess, CInv, KInv, WorkerType, WorldType
  <1>2. pc' = "idle" /\ poll' = NoPoll /\ UNCHANGED <<retry, fleet, edits>> /\ UNCHANGED crVars
    BY DEF UpdateStatusSuccess, OperatorOnly
  <1>3. st \in Status
    BY <1>1, SuccessStatusType
  <1>4. queue \subseteq Keys /\ later \subseteq Keys /\ retry = FALSE
    BY DEF CInv, KInv, WorkerType
  <1>5. faults' \in 0..MaxFaults
    <2>1. CASE NoFault
      BY <1>1, <2>1 DEF NoFault
    <2>2. CASE Fault("k8s") \/ Fault("k8sLost")
      BY <1>1, <2>2, FaultType
    <2> QED BY <2>1, <2>2 DEF UpdateStatusSuccess
  <1>6. recent' \in [Keys -> BOOLEAN]
    BY <1>1 DEF UpdateStatusSuccess, Stamp, CInv, WorldType
  <1>7. /\ cur' = "" /\ mem' = NoObject /\ fresh' = FALSE /\ cache' = cache
        /\ UNCHANGED <<obj, watch>> \/ (fresh /\ Store(cur, o))
        /\ \/ queue' = queue /\ later' = later \cup {cur}
           \/ queue' = queue \cup {cur} /\ later' = later
    BY UpdateStatusSuccessWrites
  <1>8. KInv'
    <2> HIDE DEF st
    <2> QED BY <1>1, <1>2, <1>3, <1>4, <1>7, StatusWriteKeepsK
  <1>9. CRType' /\ WorldType'
    BY <1>2, <1>5, <1>6, NoPollType DEF CInv, CRType, WorldType, crVars
  <1> QED BY <1>2, <1>8, <1>9 DEF CInv

LEMMA ElapseKeepsC ==
  ASSUME CInv, NEW k \in Keys, Elapse(k)
  PROVE  CInv'
  <1>1. /\ recent' = [recent EXCEPT ![k] = FALSE] /\ later' = later \ {k}
        /\ queue' = IF k \in later THEN queue \cup {k} ELSE queue
        /\ UNCHANGED <<obj, watch, cache, cur, mem, fresh, pc, retry, faults, poll, fleet, edits>>
        /\ UNCHANGED crVars
    BY DEF Elapse, NotWorker
  <1>2. Typed(Version)' /\ Copies' /\ Held'
    BY <1>1 DEF CInv, KInv, Typed, Copies, Held
  <1>3. WorkerType'
    BY <1>1 DEF CInv, KInv, WorkerType
  <1>4. PollScheduled'
    BY <1>1, StillScheduled DEF CInv, KInv
  <1>5. CRType' /\ WorldType'
    BY <1>1 DEF CInv, CRType, WorldType, crVars
  <1> QED BY <1>2, <1>3, <1>4, <1>5 DEF CInv, KInv

LEMMA InformKeepsC ==
  ASSUME CInv, NEW k \in Keys, Inform(k)
  PROVE  CInv'
  <1>1. /\ Typed(Version)' /\ Copies' /\ queue' = queue \cup {k}
        /\ \A j \in Keys \ {k} : watch'[j] = watch[j]
        /\ UNCHANGED <<obj, cur, mem, fresh, pc, retry, faults, poll, fleet, recent, later, edits>>
        /\ UNCHANGED crVars
    BY DeliverFacts DEF Inform, NotWorker, CInv, KInv
  <1>2. WorkerType' /\ Held'
    BY <1>1 DEF CInv, KInv, WorkerType, Held
  <1>3. PollScheduled'
    BY <1>1, StillScheduled DEF CInv, KInv
  <1>4. CRType' /\ WorldType'
    BY <1>1 DEF CInv, CRType, WorldType, crVars
  <1> QED BY <1>1, <1>2, <1>3, <1>4 DEF CInv, KInv

LEMMA InformersKeepC ==
  ASSUME CInv, (\E n \in Names : InformCR(n)) \/ CatchUp
  PROVE  CInv' /\ CRMoves /\ UNCHANGED kubeVars /\ UNCHANGED <<pc, poll>>
  <1>1. /\ UNCHANGED kubeVars /\ UNCHANGED <<pc, retry, recent, later, poll, faults, fleet, edits>>
        /\ (\E n \in Names : CRInformed(n)) \/ Relisted
    BY DEF InformCR, CatchUp, NotWorker, CRInformed, Relisted
  <1>2. CRMoves
    BY <1>1 DEF CRMoves
  <1>3. CInv'
    BY <1>1, <1>2, ElsewhereKeepsC DEF CInv, WorldType
  <1> QED BY <1>1, <1>2, <1>3

LEMMA RestartKeepsC ==
  ASSUME CInv, Restart
  PROVE  CInv'
  <1>1. /\ obj' = obj /\ cache' = obj' /\ watch' = [k \in Keys |-> <<>>]
        /\ queue' = {k \in Keys : obj[k].exists} /\ cur' = "" /\ mem' = NoObject /\ fresh' = FALSE
        /\ pc' = "idle" /\ retry' = FALSE /\ poll' = NoPoll /\ later' = {}
        /\ UNCHANGED <<fleet, recent, edits>>
        /\ faults < MaxFaults /\ faults' = faults + 1
    BY DEF Restart, KubeRestart
  <1>2. Typed(Version)' /\ Copies'
    BY <1>1, ListedFacts DEF CInv, KInv, Typed
  <1>3. WorkerType' /\ Held' /\ PollScheduled'
    BY <1>1 DEF WorkerType, Held, PollScheduled, Steps
  <1>4. CRType'
    <2>1. CRMoves
      BY DEF Restart, Relisted, CRMoves
    <2> QED BY <2>1, CRMovesType DEF CInv
  <1>5. faults' \in 0..MaxFaults
    BY <1>1, OneMore, FaultsAssumption DEF CInv, WorldType
  <1>6. WorldType'
    BY <1>1, <1>5, NoPollType DEF CInv, WorldType
  <1> QED BY <1>2, <1>3, <1>4, <1>6 DEF CInv, KInv

LEMMA NextKeepsC ==
  ASSUME CInv, [Next]_vars
  PROVE  CInv'
  <1>1. CASE UNCHANGED vars
    <2>1. UNCHANGED kubeVars /\ UNCHANGED crVars
          /\ UNCHANGED <<pc, retry, recent, later, poll, faults, fleet, edits>>
      BY <1>1 DEF vars
    <2>2. CRMoves
      BY <2>1 DEF CRMoves
    <2> QED BY <2>1, <2>2, ElsewhereKeepsC DEF CInv, WorldType
  <1>2. CASE User
    <2>1. ASSUME NEW n \in Names,
                 \/ \E i \in Ids, k \in Others \cup {""} : CRName[i] = n /\ CreateCR(n, k, i)
                 \/ DeleteCR(n) \/ TakeOver(n) \/ AddFinalizer(n) \/ RemoveFinalizer(n)
          PROVE  CInv'
      BY <2>1, UserCRMoves, ElsewhereKeepsC DEF CInv, WorldType
    <2> QED BY <1>2, <2>1, UserDiscoveryKeepsC, ChangeFleetKeepsC DEF User
  <1>3. ASSUME NEW k \in Keys, Reconcile(k) \/ Inform(k) \/ Elapse(k)
        PROVE  CInv'
    BY <1>3, ReconcileKeepsC, InformKeepsC, ElapseKeepsC
  <1>4. CASE (\E n \in Names : InformCR(n)) \/ CatchUp
    BY <1>4, InformersKeepC
  <1>5. CASE Worker
    <2>1. CASE ListCollectors \/ ListManaged
      BY <2>1, ListCollectorsMoves, ListManagedMoves, GoesOnKeepsC DEF CRMoves
    <2>2. ASSUME NEW i \in Ids, Upsert(i)
          PROVE  CInv'
      BY <2>2, UpsertMoves, GoesOnKeepsC
    <2>3. ASSUME NEW n \in Names, ProcessStale(n)
          PROVE  CInv'
      BY <2>3, ProcessStaleMoves, GoesOnKeepsC
    <2> QED BY <1>5, <2>1, <2>2, <2>3, UpdateStatusSuccessKeepsC, UpdateStatusErrorKeepsC DEF Worker
  <1>6. CASE Restart
    BY <1>6, RestartKeepsC
  <1> QED BY <1>1, <1>2, <1>3, <1>4, <1>5, <1>6 DEF Next

\* The first invariant holds in every reachable state.
THEOREM Invariance == Spec => []CInv
  <1>1. Init => CInv
    BY CInit
  <1>2. CInv /\ [Next]_vars => CInv'
    BY NextKeepsC
  <1> QED BY <1>1, <1>2, PTL DEF Spec

\* TypeOK: every variable of the reconciler keeps its type, and an idle worker holds no
\* copy of a discovery.
THEOREM TypeCorrect == Spec => []TypeOK
  <1>1. CInv => TypeOK
    BY TypeParts DEF CInv, KInv
  <1> QED BY <1>1, Invariance, PTL

\* PollScheduled: whatever fails in Reconcile, and whatever copy of the discovery it
\* read, a discovery that exists is queued, waiting for its interval, being reconciled,
\* or has a version on its way that will wake the controller up.
THEOREM AlwaysPolledAgain == Spec => []PollScheduled
  <1>1. CInv => PollScheduled
    BY DEF CInv, KInv
  <1> QED BY <1>1, Invariance, PTL


-----------------------------------------------------------------------------
(* The second invariant: what a status says, and what the worker holds.    *)

\* What the status of discovery o claims is true of its spec, and it claims nothing of
\* a generation that does not exist yet.
Honest(o) ==
  o.exists =>
    /\ o.st.og <= o.gen
    /\ o.st.ready = "True" /\ o.st.og = o.gen =>
         /\ o.spec.valid
         /\ o.st.stale # {} => o.spec.onRemoved = "Keep"
         /\ o.spec.only # {} => o.st.conflicts \subseteq o.spec.only

\* A copy that the API server would accept has the stored spec; a failure is noted in
\* the copy before it is reported, and only a valid spec is polled for.
HeldCopy ==
  pc # "idle" =>
    /\ fresh => mem.spec = obj[cur].spec /\ mem.gen = obj[cur].gen
    /\ pc = "updateStatus" => mem.st.og = mem.gen /\ mem.st.ready = "False"
    /\ pc # "updateStatus" => mem.spec.valid

SInv == (\A k \in Keys : Honest(obj[k])) /\ HeldCopy /\ PollOfSpec

\* A discovery that is new or has just been edited claims nothing.
LEMMA NewIsHonest ==
  ASSUME NEW s
  PROVE  Honest(NewDiscovery(s))
  <1> DEFINE o == NewDiscovery(s)
  <1>1. o.gen = 1 /\ o.st.og = 0
    BY DEF NewDiscovery
  <1>2. o.st.og <= o.gen /\ o.st.og # o.gen
    BY <1>1
  <1> HIDE DEF o
  <1> QED BY <1>2 DEF Honest, o

LEMMA EditedIsHonest ==
  ASSUME NEW o \in Discovery, NEW s, Honest(o)
  PROVE  Honest([o EXCEPT !.spec = s, !.gen = @ + 1])
  <1> DEFINE e == [o EXCEPT !.spec = s, !.gen = @ + 1]
  <1>1. o.exists /\ o.gen \in Nat /\ o.st.og \in Nat
    BY DEF Discovery, Status
  <1>2. e.st = o.st /\ e.gen = o.gen + 1
    BY DEF Discovery
  <1>3. e.st.og <= e.gen /\ e.st.og # e.gen
    BY <1>1, <1>2 DEF Honest
  <1> HIDE DEF e
  <1> QED BY <1>3 DEF Honest, e

LEMMA ErrorStatusFacts ==
  ASSUME NEW o \in Discovery, NEW reason
  PROVE  /\ ErrorStatus(o, reason).spec = o.spec /\ ErrorStatus(o, reason).gen = o.gen
         /\ ErrorStatus(o, reason).st.og = o.gen /\ ErrorStatus(o, reason).st.ready = "False"
  BY DEF ErrorStatus, Discovery, Status

LEMMA SuccessStatusFacts ==
  ASSUME NEW o \in Discovery, NEW p
  PROVE  /\ SuccessStatus(o, p).st.og = o.gen
         /\ SuccessStatus(o, p).st.stale = p.stale
         /\ SuccessStatus(o, p).st.conflicts = p.conflicts
  BY DEF SuccessStatus, Discovery

\* A stored discovery with another status.
LEMMA GraftIsHonest ==
  ASSUME NEW o \in Discovery, NEW st \in Status, st.og = o.gen,
         st.ready = "True" =>
           /\ o.spec.valid
           /\ st.stale # {} => o.spec.onRemoved = "Keep"
           /\ o.spec.only # {} => st.conflicts \subseteq o.spec.only
  PROVE  Honest([o EXCEPT !.st = st])
  <1> DEFINE e == [o EXCEPT !.st = st]
  <1>1. e.st = st /\ e.gen = o.gen /\ e.spec = o.spec /\ o.gen \in Nat
    BY DEF Discovery
  <1> HIDE DEF e
  <1> QED BY <1>1 DEF Honest, e

LEMMA SInit == Init => SInv
  <1> SUFFICES ASSUME Init PROVE SInv
    OBVIOUS
  <1>1. PICK stored \in [Keys -> {NoObject} \cup {NewDiscovery(s) : s \in Specs}] : obj = stored
    BY DEF Init, KubeInit
  <1>2. \A k \in Keys : obj[k] = NoObject \/ \E s \in Specs : obj[k] = NewDiscovery(s)
    BY <1>1
  <1>3. \A k \in Keys : Honest(obj[k])
    <2>1. Honest(NoObject)
      BY DEF Honest, NoObject
    <2> QED BY <1>2, <2>1, NewIsHonest
  <1> QED BY <1>3 DEF Init, SInv, HeldCopy, PollOfSpec

\* A step in the middle of a reconcile.
LEMMA GoesOnKeepsS ==
  ASSUME CInv, SInv, GoesOn, PollMoves
  PROVE  SInv'
  <1>1. /\ mem \in Discovery /\ poll \in Poll /\ CRType
        /\ pc # "idle" /\ pc # "updateStatus"
    BY DEF GoesOn, CInv, KInv, WorkerType, WorldType
  <1>2. UNCHANGED <<obj, cur, fresh>>
    BY DEF GoesOn, Continue
  <1>3. CASE Continue(mem) /\ pc' # "updateStatus"
    <2>1. mem' = mem
      BY <1>3 DEF Continue
    <2>2. HeldCopy'
      BY <1>1, <1>2, <1>3, <2>1 DEF SInv, HeldCopy
    <2>3. PollOfSpec'
      BY <1>1, <2>1, PollMovesFacts DEF SInv, PollOfSpec
    <2> QED BY <1>2, <2>2, <2>3 DEF SInv
  <1>4. ASSUME NEW reason, Continue(ErrorStatus(mem, reason)), pc' = "updateStatus"
        PROVE  SInv'
    <2>1. mem' = ErrorStatus(mem, reason)
      BY <1>4 DEF Continue
    <2>2. HeldCopy'
      BY <1>1, <1>2, <1>4, <2>1, ErrorStatusFacts DEF SInv, HeldCopy
    <2> QED BY <1>2, <1>4, <2>2 DEF SInv, PollOfSpec
  <1> QED BY <1>3, <1>4 DEF GoesOn

\* A write of a discovery by a user: the copy of the worker is no longer accepted.
LEMMA WriteDiscoveryKeepsS ==
  ASSUME CInv, SInv, NEW k \in Keys, NEW o \in Version, Honest(o), WriteDiscovery(k, o)
  PROVE  SInv'
  <1>1. Store(k, o) /\ fresh' = (fresh /\ cur # k) /\ UNCHANGED <<cur, mem, pc, poll>>
    BY DEF WriteDiscovery, UserWrite, NotWorker
  <1>2. obj'[k] = o /\ \A j \in Keys \ {k} : obj'[j] = obj[j]
    <2>1. cache' = cache
      BY DEF WriteDiscovery, UserWrite
    <2> QED BY <1>1, <2>1, StoreFacts DEF CInv, KInv
  <1>3. \A j \in Keys : Honest(obj'[j])
    BY <1>2 DEF SInv
  <1>4. pc # "idle" => cur \in Keys
    BY DEF CInv, KInv, WorkerType
  <1>5. HeldCopy'
    BY <1>1, <1>2, <1>4 DEF SInv, HeldCopy
  <1> QED BY <1>1, <1>3, <1>5 DEF SInv, PollOfSpec

LEMMA UserDiscoveryKeepsS ==
  ASSUME CInv, SInv, NEW k \in Keys,
         (\E s \in Specs : CreateDiscovery(k, s) \/ EditSpec(k, s)) \/ DeleteDiscovery(k)
  PROVE  SInv'
  <1>1. ASSUME NEW s \in Specs, CreateDiscovery(k, s)
        PROVE  SInv'
    BY <1>1, NewDiscoveryType, NewIsHonest, WriteDiscoveryKeepsS DEF CreateDiscovery, Version
  <1>2. ASSUME NEW s \in Specs, EditSpec(k, s)
        PROVE  SInv'
    <2>1. obj[k] \in Discovery
      BY <1>2, VersionType DEF EditSpec, CInv, KInv, Typed
    <2>2. [obj[k] EXCEPT !.spec = s, !.gen = @ + 1] \in Version
      BY <2>1, EditedType DEF Version
    <2>3. Honest([obj[k] EXCEPT !.spec = s, !.gen = @ + 1])
      BY <2>1, EditedIsHonest DEF SInv
    <2> QED BY <1>2, <2>2, <2>3, WriteDiscoveryKeepsS DEF EditSpec
  <1>3. CASE DeleteDiscovery(k)
    BY <1>3, WriteDiscoveryKeepsS DEF DeleteDiscovery, Version, Honest, NoObject
  <1> QED BY <1>1, <1>2, <1>3

LEMMA ReconcileKeepsS ==
  ASSUME CInv, SInv, NEW k \in Keys, Reconcile(k)
  PROVE  SInv'
  <1>1. cur = "" /\ pc = "idle" /\ UNCHANGED obj
    BY KeysAssumption DEF CInv, KInv, WorkerType, Reconcile, ReconcileNothing, ReconcileInvalid,
              ReconcileSkip, ReconcilePoll, Fetch, FetchAndReturn
  <1>2. CASE ReconcileNothing(k) \/ ReconcileSkip(k)
    <2>1. pc' = "idle"
      BY <1>1, <1>2 DEF ReconcileNothing, ReconcileSkip
    <2> QED BY <1>1, <2>1 DEF SInv, HeldCopy, PollOfSpec
  <1>3. /\ cache[k].exists => cache[k] \in Discovery
        /\ watch[k] = <<>> => cache[k] = obj[k]
    BY VersionType DEF CInv, KInv, Typed, Copies
  <1>4. CASE ReconcileInvalid(k)
    <2> DEFINE e == ErrorStatus(cache[k], "InvalidConfig")
    <2>1. /\ cur' = k /\ mem' = e
          /\ fresh' = (watch[k] = <<>>) /\ pc' = "updateStatus" /\ cache[k].exists
      BY <1>4 DEF ReconcileInvalid, Fetch
    <2>2. /\ e.spec = cache[k].spec /\ e.gen = cache[k].gen
          /\ e.st.og = e.gen /\ e.st.ready = "False"
      BY <1>3, <2>1, ErrorStatusFacts
    <2> HIDE DEF e
    <2>3. HeldCopy'
      BY <1>1, <1>3, <2>1, <2>2 DEF HeldCopy
    <2> QED BY <1>1, <2>1, <2>3 DEF SInv, PollOfSpec
  <1>5. CASE ReconcilePoll(k)
    <2>1. /\ cur' = k /\ mem' = cache[k] /\ cache[k].spec.valid
          /\ fresh' = (watch[k] = <<>>) /\ pc' = "list"
      BY <1>5 DEF ReconcilePoll, Fetch
    <2>2. HeldCopy'
      BY <1>1, <1>3, <2>1 DEF HeldCopy
    <2> QED BY <1>1, <2>1, <2>2 DEF SInv, PollOfSpec
  <1> QED BY <1>2, <1>4, <1>5 DEF Reconcile

\* A status write on top of what is stored ends the reconcile.
LEMMA StatusWriteKeepsS ==
  ASSUME CInv, SInv, cur \in Keys, NEW o \in Version, Honest(o) \/ ~fresh,
         UNCHANGED <<obj, watch>> \/ (fresh /\ Store(cur, o)), pc' = "idle", cache' = cache
  PROVE  SInv'
  <1>1. CASE UNCHANGED obj
    BY <1>1 DEF SInv, HeldCopy, PollOfSpec
  <1>2. CASE fresh /\ Store(cur, o)
    <2>1. obj'[cur] = o /\ \A j \in Keys \ {cur} : obj'[j] = obj[j]
      BY <1>2, StoreFacts DEF CInv, KInv
    <2>2. \A j \in Keys : Honest(obj'[j])
      BY <1>2, <2>1 DEF SInv
    <2> QED BY <2>2 DEF SInv, HeldCopy, PollOfSpec
  <1> QED BY <1>1, <1>2

LEMMA UpdateStatusErrorKeepsS ==
  ASSUME CInv, SInv, UpdateStatusError
  PROVE  SInv'
  <1> DEFINE o == [obj[cur] EXCEPT !.st = mem.st]
  <1>1. pc = "updateStatus" /\ cur \in Keys /\ mem \in Discovery /\ faults \in 0..MaxFaults
    BY DEF UpdateStatusError, CInv, KInv, WorkerType, WorldType
  <1>2. pc' = "idle" /\ cache' = cache /\ (UNCHANGED <<obj, watch>> \/ (fresh /\ Store(cur, o)))
    <2> HIDE DEF o
    <2>1. KubeWrite(o, TRUE, TRUE)
      BY DEF UpdateStatusError, o
    <2> QED BY <1>1, <2>1, KubeWriteSteps
  <1>3. CASE fresh
    <2>1. obj[cur] \in Discovery /\ mem.st \in Status
      BY <1>1, <1>3, VersionType DEF CInv, KInv, Typed, Held, Discovery
    <2>2. mem.st.og = obj[cur].gen /\ mem.st.ready = "False"
      BY <1>1, <1>3 DEF SInv, HeldCopy
    <2>3. Honest(o) /\ o \in Version
      BY <2>1, <2>2, GraftIsHonest, GraftType DEF Version
    <2> HIDE DEF o
    <2> QED BY <1>1, <1>2, <2>3, StatusWriteKeepsS
  <1>4. CASE ~fresh
    BY <1>1, <1>2, <1>4, StatusWriteKeepsS DEF CInv, KInv, Typed
  <1> QED BY <1>3, <1>4

LEMMA UpdateStatusSuccessKeepsS ==
  ASSUME CInv, SInv, UpdateStatusSuccess
  PROVE  SInv'
  <1> DEFINE st == SuccessStatus(mem, poll).st
             o == [obj[cur] EXCEPT !.st = st]
  <1>1. pc = "stale" /\ cur \in Keys /\ mem \in Discovery /\ poll \in Poll
    BY DEF UpdateStatusSuccess, CInv, KInv, WorkerType, WorldType
  <1>2. pc' = "idle" /\ cache' = cache /\ (UNCHANGED <<obj, watch>> \/ (fresh /\ Store(cur, o)))
    BY UpdateStatusSuccessWrites DEF UpdateStatusSuccess
  <1>3. CASE fresh
    <2>1. obj[cur] \in Discovery
      BY <1>1, <1>3, VersionType DEF CInv, KInv, Typed, Held
    <2>2. st \in Status
      BY <1>1, SuccessStatusType
    <2>3. mem.spec = obj[cur].spec /\ mem.gen = obj[cur].gen /\ mem.spec.valid
      BY <1>1, <1>3 DEF SInv, HeldCopy
    <2>4. OfSpec(poll, obj[cur].spec)
      BY <1>1, <2>3 DEF SInv, PollOfSpec
    <2>5. st.og = obj[cur].gen /\ st.stale = poll.stale /\ st.conflicts = poll.conflicts
      BY <1>1, <2>3, SuccessStatusFacts
    <2> HIDE DEF st
    <2>6. Honest(o) /\ o \in Version
      BY <2>1, <2>2, <2>3, <2>4, <2>5, GraftIsHonest, GraftType DEF Version, OfSpec
    <2> HIDE DEF o
    <2> QED BY <1>1, <1>2, <2>6, StatusWriteKeepsS
  <1>4. CASE ~fresh
    BY <1>1, <1>2, <1>4, StatusWriteKeepsS DEF CInv, KInv, Typed
  <1> QED BY <1>3, <1>4

\* A step that leaves the discoveries, the worker and the poll alone.
LEMMA ElsewhereKeepsS ==
  ASSUME SInv, UNCHANGED <<obj, cur, mem, fresh, pc, poll>>
  PROVE  SInv'
  BY DEF SInv, HeldCopy, PollOfSpec

LEMMA NextKeepsS ==
  ASSUME CInv, SInv, [Next]_vars
  PROVE  SInv'
  <1>1. CASE UNCHANGED vars
    BY <1>1, ElsewhereKeepsS DEF vars, kubeVars
  <1>2. CASE User
    <2>1. ASSUME NEW n \in Names,
                 \/ \E i \in Ids, k \in Others \cup {""} : CRName[i] = n /\ CreateCR(n, k, i)
                 \/ DeleteCR(n) \/ TakeOver(n) \/ AddFinalizer(n) \/ RemoveFinalizer(n)
          PROVE  SInv'
      BY <2>1, UserCRMoves, ElsewhereKeepsS DEF kubeVars
    <2>2. ASSUME NEW i \in Ids, NEW p \in Presence, ChangeFleet(i, p)
          PROVE  SInv'
      BY <2>2, ElsewhereKeepsS DEF ChangeFleet, NotWorker, kubeVars
    <2> QED BY <1>2, <2>1, <2>2, UserDiscoveryKeepsS DEF User
  <1>3. ASSUME NEW k \in Keys, Reconcile(k) \/ Inform(k) \/ Elapse(k)
        PROVE  SInv'
    <2>1. CASE Inform(k) \/ Elapse(k)
      BY <2>1, ElsewhereKeepsS DEF Inform, Deliver, Elapse, NotWorker
    <2> QED BY <1>3, <2>1, ReconcileKeepsS
  <1>4. CASE (\E n \in Names : InformCR(n)) \/ CatchUp
    BY <1>4, InformersKeepC, ElsewhereKeepsS DEF kubeVars
  <1>5. CASE Worker
    <2>1. CASE ListCollectors \/ ListManaged
      BY <2>1, ListCollectorsMoves, ListManagedMoves, GoesOnKeepsS
    <2>2. ASSUME NEW i \in Ids, Upsert(i)
          PROVE  SInv'
      BY <2>2, UpsertMoves, GoesOnKeepsS
    <2>3. ASSUME NEW n \in Names, ProcessStale(n)
          PROVE  SInv'
      BY <2>3, ProcessStaleMoves, GoesOnKeepsS
    <2> QED BY <1>5, <2>1, <2>2, <2>3, UpdateStatusSuccessKeepsS, UpdateStatusErrorKeepsS DEF Worker
  <1>6. CASE Restart
    <2>1. UNCHANGED obj /\ pc' = "idle"
      BY <1>6 DEF Restart, KubeRestart
    <2> QED BY <2>1 DEF SInv, HeldCopy, PollOfSpec
  <1> QED BY <1>1, <1>2, <1>3, <1>4, <1>5, <1>6 DEF Next

\* SyncedIsOfSpec: a status that is Synced for the current generation is of the stored
\* spec, for any number of edits while the poll behind it was under way, however far
\* the caches of discoveries and of Collector CRs were behind, and whatever failed.
THEOREM StatusIsOfSpec == Spec => []SyncedIsOfSpec
  <1>1. Init => SInv
    BY SInit
  <1>2. CInv /\ SInv /\ [Next]_vars => SInv'
    BY NextKeepsS
  <1>3. SInv => SyncedIsOfSpec
    BY DEF SInv, Honest, SyncedIsOfSpec
  <1> QED BY <1>1, <1>2, <1>3, Invariance, PTL DEF Spec

================================================================================
