---------------------------- MODULE CollectorProofs ----------------------------
(***************************************************************************)
(* Proofs about CollectorController, for any number of Collectors, layers, *)
(* attribute keys and other clients, and for every bound.  A Collector     *)
(* whose keys other clients write never records such a key, a version that *)
(* carries the finalizer pins the stored one, and what the worker is about *)
(* to record or to let go of is what Fleet holds.                          *)
(***************************************************************************)
EXTENDS CollectorController, AttributesProofs, ControllerProofs

-----------------------------------------------------------------------------
(* The inductive invariant.                                                *)

\* Records no key of another client.
Honest(st) == \A a \in OtherKeys : st.owners[a] = NoOwner

HonestVersion == {o \in Version : o.exists => Honest(o.st)}

\* The versions that a Get may still return, now or after more deliveries.
Readable(k) == {cache[k]} \cup {watch[k][n] : n \in 1..Len(watch[k])}

\* A version with the finalizer that is not being deleted: as long as it can be
\* read the stored object has the finalizer too.
Pinned ==
  \A k \in Keys : \A o \in Readable(k) :
    (o.exists /\ o.fin /\ ~o.del) => (obj[k].exists /\ obj[k].fin)

WorkerType ==
  /\ queue \subseteq Keys
  /\ fresh \in BOOLEAN
  /\ pc \in Steps
  /\ \/ pc = "idle" /\ cur = "" /\ mem = NoObject
     \/ pc # "idle" /\ cur \in Keys /\ mem \in Collector /\ Honest(mem.st)
  /\ retry \in BOOLEAN

\* What the worker knows of its object at each call.
Role ==
  /\ FinalizerBeforeFleet
  /\ pc = "addFinalizer" => mem.fin
  /\ pc \in {"finalUpdate", "removeFinalizer"} => mem.del

\* A copy that carries the stored resourceVersion.
FreshCopy ==
  (fresh /\ pc # "idle") =>
    /\ watch[cur] = <<>>
    /\ obj[cur].exists
    /\ pc \in {"bulkUpdate", "get", "finalUpdate", "removeFinalizer"} => mem = obj[cur]
    /\ pc = "addFinalizer" => mem.st = obj[cur].st

\* The part about the objects and the worker.
KInv == Typed(HonestVersion) /\ Copies /\ Pinned /\ WorkerType /\ Role /\ FreshCopy

WorldType ==
  /\ syncs \in [Syncs -> {NoSync} \cup Claims]
  /\ policies \in [Policies -> {NoPolicy} \cup PolicySpecs]
  /\ fleet \in [Ids -> {Unregistered} \cup FleetCollector]

\* The operations that wait to be sent were computed from the attributes observed,
\* and nobody but other clients has changed the collector since.
Planned ==
  IF pc # "bulkUpdate" THEN plan = NoPlan
  ELSE /\ plan.st \in Status /\ Honest(plan.st)
       /\ \E observed \in AttrMap :
            /\ plan.ops = Diff(Desired(plan.st.owners), observed, allOwnedKeys(mem.st.owners))
            /\ ~Deregisters =>
                 /\ fleet[Id[cur]].registered
                 /\ \A a \in Attrs \ OtherKeys : fleet[Id[cur]].remote[a] = observed[a]

\* Collector c in Fleet holds what new records, and nothing else of what old records.
Holds(c, old, new) ==
  /\ c.registered
  /\ \A a \in allOwnedKeys(old) \cup allOwnedKeys(new) : c.remote[a] = new[a].value

\* A status that reports success is written after Fleet has what it records.
Recorded ==
  (pc = "updateStatus" /\ fresh /\ mem.st.ready = "True" /\ ~Deregisters) =>
    Holds(fleet[Id[cur]], obj[cur].st.owners, mem.st.owners)

\* The finalizer goes after Fleet has lost what is recorded.
Removed ==
  (pc = "removeFinalizer" /\ Special = {} /\ fleet[Id[cur]].registered) =>
    \A a \in allOwnedKeys(mem.st.owners) : fleet[Id[cur]].remote[a] = Absent

\* The part about Fleet.
FInv == WorldType /\ Planned /\ Recorded /\ Removed

Bounded == edits \in 0..MaxEdits /\ faults \in 0..MaxFaults /\ crashes \in 0..MaxCrashes

IInv == KInv /\ FInv /\ Bounded

-----------------------------------------------------------------------------
(* The layers.                                                             *)

\* The name that comes first.
LEMMA FirstSync ==
  ASSUME NEW T, T \subseteq Syncs, T # {}
  PROVE  First(T, Earlier) \in T
  <1>1. T \subseteq Nat
    BY CollectorAssumption
  <1>2. PICK x \in T : \A y \in T : x <= y
    BY <1>1, Least
  <1>3. \A y \in T : x = y \/ x < y
    BY <1>1, <1>2
  <1>4. \E z \in T : \A y \in T : z = y \/ Earlier(z, y)
    BY <1>3 DEF Earlier
  <1> QED BY <1>4 DEF First

\* The policy of the highest priority, and among those the name that comes first.
LEMMA FirstPolicy ==
  ASSUME NEW T, T \subseteq Policies, T # {},
         \A p \in T : policies[p] \in PolicySpecs
  PROVE  First(T, Outranks) \in T
  <1> DEFINE Rank(p) == MaxInt32 - policies[p].priority
             Ranks == {Rank(p) : p \in T}
  <1>1. \A p \in T : policies[p].priority \in Int /\ policies[p].priority <= MaxInt32
    BY CollectorAssumption
  <1>2. \A p \in T : Rank(p) \in Nat
    BY <1>1 DEF MaxInt32
  <1>3. PICK r \in Ranks : \A q \in Ranks : r <= q
    <2>1. Ranks \subseteq Nat /\ Ranks # {}
      BY <1>2
    <2> HIDE DEF Ranks
    <2> QED BY <2>1, Least
  <1> DEFINE best == {p \in T : Rank(p) = r}
  <1>4. best \subseteq Nat /\ best # {}
    BY <1>3, CollectorAssumption
  <1>5. PICK x \in best : \A y \in best : x <= y
    <2> HIDE DEF best
    <2> QED BY <1>4, Least
  <1>6. \A y \in T : x \in T /\ Rank(x) <= Rank(y) /\ (Rank(y) = Rank(x) => x <= y)
    BY <1>3, <1>5
  <1>7. \A y \in T : policies[x].priority > policies[y].priority
                       \/ (policies[x].priority = policies[y].priority /\ x <= y)
    BY <1>1, <1>6 DEF MaxInt32
  <1>8. \A y \in T : x = y \/ Outranks(x, y)
    <2>1. \A y \in T : x \in Nat /\ y \in Nat
      BY <1>6, CollectorAssumption
    <2> QED BY <1>7, <2>1 DEF Outranks
  <1>9. \E z \in T : \A y \in T : z = y \/ Outranks(z, y)
    BY <1>5, <1>8
  <1> QED BY <1>9 DEF First

\* What the layers have in common.
ProperLayer(layer) ==
  /\ layer.kind \in Kinds /\ layer.owner \in Nat
  /\ layer.attrs \in AttrMap
  /\ \A a \in OtherKeys : layer.attrs[a] = Absent

\* The claims of syncs, each of which is in the cache.
LEMMA SyncLayer ==
  ASSUME WorldType, NEW k \in Keys
  PROVE  ProperLayer(externalSyncLayer(k))
  <1> DEFINE S == {s \in Syncs : syncs[s] # NoSync /\ syncs[s].usable
                                 /\ syncs[s].claims[Id[k]].entry}
             AttrsOf(s) == syncs[s].claims[Id[k]].attrs
             claim(a) == {s \in S : AttrsOf(s)[a] # Absent}
             owner == IF S = {} THEN 0 ELSE First(S, Earlier)
             value(a) == IF claim(a) = {} THEN Absent ELSE AttrsOf(First(claim(a), Earlier))[a]
  <1>1. externalSyncLayer(k) = [kind |-> "ExternalAttributeSync", owner |-> owner,
                                attrs |-> [a \in Attrs |-> value(a)]]
    BY DEF externalSyncLayer, LayerOf
  <1>2. \A s \in S : AttrsOf(s) \in AttrMap /\ \A a \in OtherKeys : AttrsOf(s)[a] = Absent
    <2> SUFFICES ASSUME NEW s \in S
                 PROVE  AttrsOf(s) \in AttrMap /\ \A a \in OtherKeys : AttrsOf(s)[a] = Absent
      OBVIOUS
    <2>1. syncs[s] \in Claims /\ Id[k] \in Ids /\ syncs[s].claims[Id[k]].entry
      BY DEF WorldType, Ids
    <2>2. syncs[s].claims[Id[k]] \in {None} \cup {Entry(m) : m \in AttrMap}
      BY <2>1, CollectorAssumption DEF Sync
    <2>3. \E m \in AttrMap : syncs[s].claims[Id[k]] = Entry(m)
      BY <2>1, <2>2 DEF None
    <2> QED BY <2>1, <2>3, OtherKeysAssumption DEF Entry
  <1>3. owner \in Nat
    BY FirstSync, CollectorAssumption
  <1>4. \A a \in Attrs : claim(a) # {} => First(claim(a), Earlier) \in S
    BY FirstSync
  <1>5. \A a \in Attrs : value(a) \in Vals \cup {Absent}
    BY <1>2, <1>4 DEF AttrMap
  <1>6. \A a \in OtherKeys : value(a) = Absent
    BY <1>2
  <1> HIDE DEF value, owner
  <1> QED BY <1>1, <1>3, <1>5, <1>6, CollectorAssumption DEF ProperLayer, Kinds, AttrMap

\* The claims of policies that match.
LEMMA PolicyLayer ==
  ASSUME WorldType, NEW k \in Keys, NEW local
  PROVE  ProperLayer(policyLayer(k, local))
  <1> DEFINE S == {p \in Policies : policies[p] # NoPolicy /\ Match(policies[p].sel, Id[k], local)}
             AttrsOf(p) == policies[p].attrs
             claim(a) == {p \in S : AttrsOf(p)[a] # Absent}
             owner == IF S = {} THEN 0 ELSE First(S, Outranks)
             value(a) == IF claim(a) = {} THEN Absent ELSE AttrsOf(First(claim(a), Outranks))[a]
  <1>1. policyLayer(k, local) = [kind |-> "RemoteAttributePolicy", owner |-> owner,
                                 attrs |-> [a \in Attrs |-> value(a)]]
    BY DEF policyLayer, LayerOf
  <1>2. \A p \in S : policies[p] \in PolicySpecs
    BY DEF WorldType
  <1>3. \A p \in S : AttrsOf(p) \in AttrMap /\ \A a \in OtherKeys : AttrsOf(p)[a] = Absent
    BY <1>2, CollectorAssumption, OtherKeysAssumption
  <1>4. owner \in Nat
    BY <1>2, FirstPolicy, CollectorAssumption
  <1>5. \A a \in Attrs : claim(a) # {} => First(claim(a), Outranks) \in S
    BY <1>2, FirstPolicy
  <1>6. \A a \in Attrs : value(a) \in Vals \cup {Absent}
    BY <1>3, <1>5 DEF AttrMap
  <1>7. \A a \in OtherKeys : value(a) = Absent
    BY <1>3
  <1> HIDE DEF value, owner
  <1> QED BY <1>1, <1>4, <1>6, <1>7, CollectorAssumption DEF ProperLayer, Kinds, AttrMap

\* Merging makes owners of what the layers claim, and of nothing else.
LEMMA MergedType ==
  ASSUME WorldType, NEW k \in Keys, NEW o \in Collector, NEW local
  PROVE  LET owners == MergedOwners(k, o, local)
         IN  /\ owners \in [Attrs -> Owner]
             /\ \A a \in OtherKeys : owners[a] = NoOwner
  <1> DEFINE one == externalSyncLayer(k)
             two == collectorLayer(o)
             three == policyLayer(k, local)
  <1>1. ProperLayer(one) /\ ProperLayer(three)
    BY SyncLayer, PolicyLayer
  <1>2. ProperLayer(two)
    BY CollectorAssumption, OtherKeysAssumption DEF ProperLayer, collectorLayer, Collector, Kinds
  <1> HIDE DEF one, two, three
  <1>3. \A layer : ProperLayer(layer) =>
          /\ \A a \in Attrs : KeyOwnership(layer, a) \in Owner
          /\ \A a \in OtherKeys : KeyOwnership(layer, a) = NoOwner
    BY DEF ProperLayer, KeyOwnership, Owner, AttrMap
  <1>4. Merge(one, two, three) \in [Attrs -> Owner]
    BY <1>1, <1>2, <1>3 DEF Merge
  <1>5. \A a \in OtherKeys : Merge(one, two, three)[a] = NoOwner
    BY <1>1, <1>2, <1>3, CollectorAssumption DEF Merge
  <1> QED BY <1>4, <1>5 DEF MergedOwners, one, two, three

\* What owners stand for.
LEMMA DesiredFacts ==
  ASSUME NEW owners \in [Attrs -> Owner]
  PROVE  /\ Desired(owners) \in AttrMap
         /\ allOwnedKeys(owners) \in SUBSET Attrs
         /\ \A a \in Attrs : Desired(owners)[a] = owners[a].value
         /\ \A a \in Attrs : owners[a] = NoOwner <=> owners[a].value = Absent
  <1>1. NoOwner.value = Absent
    BY DEF NoOwner
  <1>2. \A w \in Owner : w = NoOwner \/ w.value \in Vals
    BY DEF Owner
  <1>3. \A w \in Owner : w.value \in Vals \cup {Absent} /\ (w = NoOwner <=> w.value = Absent)
    BY <1>1, <1>2, AttributesAssumption
  <1> QED BY <1>3 DEF Desired, allOwnedKeys, AttrMap


-----------------------------------------------------------------------------
(* What Fleet makes of the operations.                                     *)

\* Operations that set values or remove keys leave a map of attributes.
LEMMA AppliedType ==
  ASSUME NEW remote \in AttrMap, NEW ops,
         \A o \in ops : o.op = "REMOVE" \/ o.value \in Vals
  PROVE  Applied(ops, remote) \in AttrMap
  <1> SUFFICES ASSUME NEW a \in Attrs
               PROVE  Applied(ops, remote)[a] \in Vals \cup {Absent}
    BY DEF Applied, AttrMap
  <1>1. CASE Hits(ops, a) = {}
    BY <1>1 DEF Applied, Hits, AttrMap
  <1>2. CASE Hits(ops, a) # {}
    <2> DEFINE o == CHOOSE o \in Hits(ops, a) : TRUE
    <2>1. o \in Hits(ops, a)
      BY <1>2
    <2>2. o \in ops
      BY <2>1 DEF Hits
    <2>3. Applied(ops, remote)[a] = IF o.op = "REMOVE" THEN Absent ELSE o.value
      BY <1>2 DEF Applied, Hits
    <2> HIDE DEF o
    <2> QED BY <2>2, <2>3
  <1> QED BY <1>1, <1>2

\* The operations of Diff set values that are wanted.
LEMMA DiffType ==
  ASSUME NEW desired \in AttrMap, NEW observed, NEW owned \in SUBSET Attrs
  PROVE  \A o \in Diff(desired, observed, owned) : o.op = "REMOVE" \/ o.value \in Vals
  <1> DEFINE Add(a) == [op |-> "ADD", path |-> remoteAttrPath(a), value |-> desired[a]]
             Replace(a) == [op |-> "REPLACE", path |-> remoteAttrPath(a), value |-> desired[a]]
             Remove(a) == [op |-> "REMOVE", path |-> remoteAttrPath(a), value |-> ""]
  <1>1. \A a \in Attrs : desired[a] # Absent => desired[a] \in Vals
    BY DEF AttrMap
  <1>2. \A a : Add(a).value = desired[a] /\ Replace(a).value = desired[a] /\ Remove(a).op = "REMOVE"
    OBVIOUS
  <1>3. Diff(desired, observed, owned) =
          {Add(a) : a \in {b \in Attrs : desired[b] # Absent /\ observed[b] = Absent}}
          \cup {Replace(a) : a \in {b \in Attrs : desired[b] # Absent
                                                  /\ observed[b] \notin {Absent, desired[b]}}}
          \cup {Remove(a) : a \in {b \in owned : desired[b] = Absent /\ observed[b] # Absent}}
    BY DEF Diff
  <1> HIDE DEF Add, Replace, Remove
  <1> QED BY <1>1, <1>2, <1>3

\* Diff reaches no key that is neither wanted nor owned.
LEMMA DiffSpares ==
  ASSUME NEW desired, NEW observed, NEW owned \in SUBSET Attrs, NEW remote, NEW a \in Attrs,
         desired[a] = Absent, a \notin owned
  PROVE  Applied(Diff(desired, observed, owned), remote)[a] = remote[a]
  <1>1. Hits(Diff(desired, observed, owned), a) = {}
    BY DiffHits
  <1> QED BY <1>1 DEF Applied, Hits

\* Where the collector still has what was observed, a key that is wanted or owned
\* ends with the wanted value.
LEMMA DiffWrites ==
  ASSUME NEW owners \in [Attrs -> Owner], NEW observed \in AttrMap, NEW old \in [Attrs -> Owner],
         NEW remote, NEW a \in allOwnedKeys(old) \cup allOwnedKeys(owners),
         remote[a] = observed[a]
  PROVE  Applied(Diff(Desired(owners), observed, allOwnedKeys(old)), remote)[a] = owners[a].value
  <1> DEFINE desired == Desired(owners)
             owned == allOwnedKeys(old)
             ops == Diff(desired, observed, owned)
  <1>1. desired \in AttrMap /\ owned \in SUBSET Attrs /\ a \in Attrs
        /\ desired[a] = owners[a].value
    BY DesiredFacts DEF allOwnedKeys
  <1>2. desired[a] # Absent \/ a \in owned
    BY DesiredFacts DEF allOwnedKeys
  <1> HIDE DEF desired, owned
  <1>3. Applied(ops, observed)[a] = desired[a]
    BY <1>1, <1>2, DiffIsExact DEF Reconciled
  <1> HIDE DEF ops
  <1>4. Applied(ops, remote)[a] = Applied(ops, observed)[a]
    BY <1>1 DEF Applied
  <1> QED BY <1>1, <1>3, <1>4 DEF ops, desired, owned

\* If Diff finds nothing to do the collector has what is wanted.
LEMMA NothingToDo ==
  ASSUME NEW owners \in [Attrs -> Owner], NEW old \in [Attrs -> Owner], NEW c \in FleetCollector,
         Diff(Desired(owners), c.remote, allOwnedKeys(old)) = {}
  PROVE  Holds(c, old, owners)
  <1>1. c.registered /\ c.remote \in AttrMap
    BY DEF FleetCollector
  <1>2. \A a \in allOwnedKeys(old) \cup allOwnedKeys(owners) :
           Applied({}, c.remote)[a] = owners[a].value
    <2> DEFINE remote == c.remote
    <2>1. remote \in AttrMap
      BY <1>1
    <2> HIDE DEF remote
    <2>2. \A a \in allOwnedKeys(old) \cup allOwnedKeys(owners) :
            Applied(Diff(Desired(owners), remote, allOwnedKeys(old)), remote)[a] = owners[a].value
      BY <2>1, DiffWrites
    <2> QED BY <2>2 DEF remote
  <1>3. \A a \in Attrs : Applied({}, c.remote)[a] = c.remote[a]
    BY DEF Applied
  <1> QED BY <1>1, <1>2, <1>3 DEF Holds, allOwnedKeys

\* The final call removes what is recorded, if no path needs escaping, and nothing else
\* but what an unescaped path is read as.
LEMMA RemoveOwnedFacts ==
  ASSUME NEW owners, NEW remote
  PROVE  LET now == Applied(removeOwned(owners), remote)
         IN  /\ \A o \in removeOwned(owners) : o.op = "REMOVE"
             /\ Special = {} => \A a \in allOwnedKeys(owners) : now[a] = Absent
             /\ \A a \in Attrs \ allOwnedKeys(owners) :
                  (\A s \in Special : a \notin Misread[s]) => now[a] = remote[a]
  <1> DEFINE ops == removeOwned(owners)
             Remove(a) == [op |-> "REMOVE", path |-> [key |-> a, escaped |-> FALSE], value |-> ""]
  <1>1. ops = {Remove(a) : a \in allOwnedKeys(owners)}
    BY DEF removeOwned
  <1>2. \A a : Remove(a).op = "REMOVE" /\ Remove(a).path.key = a
    OBVIOUS
  <1> HIDE DEF Remove, ops
  <1>3. \A o \in ops : o.op = "REMOVE"
    BY <1>1, <1>2
  <1>4. ASSUME NEW a \in Attrs \ allOwnedKeys(owners), \A s \in Special : a \notin Misread[s]
        PROVE  Applied(ops, remote)[a] = remote[a]
    <2>1. Hits(ops, a) = {}
      BY <1>1, <1>2, <1>4 DEF Hits, Addresses
    <2> QED BY <2>1 DEF Applied, Hits
  <1>5. ASSUME Special = {}, NEW a \in allOwnedKeys(owners)
        PROVE  Applied(ops, remote)[a] = Absent
    <2>1. Remove(a) \in Hits(ops, a) /\ a \in Attrs
      BY <1>1, <1>2, <1>5 DEF Hits, Addresses, allOwnedKeys
    <2> DEFINE o == CHOOSE o \in Hits(ops, a) : TRUE
    <2>2. o \in Hits(ops, a)
      BY <2>1
    <2>3. o.op = "REMOVE"
      BY <1>3, <2>2 DEF Hits
    <2>4. Applied(ops, remote)[a] = IF o.op = "REMOVE" THEN Absent ELSE o.value
      BY <2>1 DEF Applied, Hits
    <2> QED BY <2>3, <2>4
  <1> QED BY <1>3, <1>4, <1>5 DEF ops


-----------------------------------------------------------------------------
(* Versions and statuses.                                                  *)

LEMMA BoundsType == MaxEdits \in Nat /\ MaxFaults \in Nat /\ MaxCrashes \in Nat
  BY CollectorAssumption, FaultsAssumption

\* Versions are Collectors or nothing.
LEMMA VersionFacts ==
  /\ NoObject \in HonestVersion /\ ~NoObject.exists /\ NoObject \notin Collector
  /\ \A o \in HonestVersion : o \in Version
  /\ \A o \in HonestVersion : o.exists => o \in Collector /\ Honest(o.st)
  /\ \A o \in HonestVersion : ~o.exists => o = NoObject
  /\ \A o \in Collector : o.exists
  /\ \A o \in Collector : Honest(o.st) => o \in HonestVersion
  <1>1. ~NoObject.exists
    BY DEF NoObject
  <1>2. \A o \in Collector : o.exists
    BY DEF Collector
  <1> QED BY <1>1, <1>2 DEF HonestVersion, Version

\* Fields of a Collector.
LEMMA FieldFacts ==
  ASSUME NEW o \in Collector
  PROVE  /\ o.st \in Status /\ o.gen \in Nat /\ o.attrs \in SpecAttrs
         /\ o.fin \in BOOLEAN /\ o.del \in BOOLEAN
  BY DEF Collector

\* Changes to a Collector: its status,
LEMMA WithStatus ==
  ASSUME NEW o \in Collector, NEW st \in Status
  PROVE  LET n == [o EXCEPT !.st = st]
         IN  n \in Collector /\ n.st = st /\ n.fin = o.fin /\ n.del = o.del
  BY DEF Collector

\* its attributes,
LEMMA WithAttrs ==
  ASSUME NEW o \in Collector, NEW m \in SpecAttrs
  PROVE  LET n == [o EXCEPT !.attrs = m, !.gen = @ + 1]
         IN  n \in Collector /\ n.st = o.st /\ n.fin = o.fin /\ n.del = o.del
  <1> DEFINE n == [o EXCEPT !.attrs = m, !.gen = @ + 1]
  <1>1. \A g \in Nat : [o EXCEPT !.attrs = m, !.gen = g] \in Collector
    BY DEF Collector
  <1>2. n = [o EXCEPT !.attrs = m, !.gen = o.gen + 1] /\ o.gen + 1 \in Nat
    BY FieldFacts
  <1>3. n.st = o.st /\ n.fin = o.fin /\ n.del = o.del
    BY DEF Collector
  <1>4. n \in Collector
    BY <1>1, <1>2
  <1> QED BY <1>3, <1>4

\* its finalizer,
LEMMA WithFinalizer ==
  ASSUME NEW o \in Collector
  PROVE  LET n == [o EXCEPT !.fin = TRUE]
         IN  n \in Collector /\ n.st = o.st /\ n.fin /\ n.del = o.del
  BY DEF Collector

\* and its deletion.
LEMMA WithDeletion ==
  ASSUME NEW o \in Collector
  PROVE  LET n == [o EXCEPT !.del = TRUE, !.gen = @ + 1]
         IN  n \in Collector /\ n.st = o.st /\ n.fin = o.fin /\ n.del
  <1> DEFINE n == [o EXCEPT !.del = TRUE, !.gen = @ + 1]
  <1>1. \A g \in Nat : [o EXCEPT !.del = TRUE, !.gen = g] \in Collector
    BY DEF Collector
  <1>2. n = [o EXCEPT !.del = TRUE, !.gen = o.gen + 1] /\ o.gen + 1 \in Nat
    BY FieldFacts
  <1>3. n.st = o.st /\ n.fin = o.fin /\ n.del
    BY DEF Collector
  <1>4. n \in Collector
    BY <1>1, <1>2
  <1> QED BY <1>3, <1>4

\* A new status records nothing.
LEMMA NewStatusFacts == NewStatus \in Status /\ Honest(NewStatus)
  <1>1. [a \in Attrs |-> NoOwner] \in [Attrs -> Owner]
    BY DEF Owner
  <1>2. NewStatus \in Status
    BY <1>1 DEF NewStatus, Status, Reasons
  <1>3. \A a \in OtherKeys : NewStatus.owners[a] = NoOwner
    BY CollectorAssumption DEF NewStatus
  <1> QED BY <1>2, <1>3 DEF Honest

\* The status after a success.
LEMMA SyncedFacts ==
  ASSUME NEW o \in Collector, NEW owners \in [Attrs -> Owner], NEW local \in Locals,
         \A a \in OtherKeys : owners[a] = NoOwner
  PROVE  LET st == SyncedStatus(o, owners, local)
         IN  st \in Status /\ Honest(st) /\ st.owners = owners /\ st.ready = "True"
  <1>1. o.gen \in Nat
    BY DEF Collector
  <1>2. SyncedStatus(o, owners, local) \in Status
    BY <1>1 DEF SyncedStatus, Status, Reasons
  <1>3. SyncedStatus(o, owners, local).owners = owners /\ SyncedStatus(o, owners, local).ready = "True"
    BY DEF SyncedStatus
  <1> QED BY <1>2, <1>3 DEF Honest

\* The statuses that report no success keep what was recorded.
LEMMA FailureFacts ==
  ASSUME NEW o \in Collector, Honest(o.st)
  PROVE  /\ LET st == NotRegisteredStatus(o)
            IN  st \in Status /\ Honest(st) /\ st.owners = o.st.owners /\ st.ready = "False"
         /\ \A reason \in Reasons, code \in FaultCode :
              LET st == ErrorStatus(o, reason, code)
              IN  st \in Status /\ Honest(st) /\ st.owners = o.st.owners /\ st.ready = "False"
  <1> DEFINE s == o.st
             g == o.gen
  <1>1. s \in Status /\ g \in Nat
    BY DEF Collector
  <1> DEFINE n == [s EXCEPT !.og = g, !.registered = FALSE, !.ready = "False",
                            !.reason = "NotRegistered", !.msg = ""]
             e(reason, code) == [s EXCEPT !.og = g, !.ready = "False", !.reason = reason,
                                          !.msg = code]
  <1>2. NotRegisteredStatus(o) = n
    BY DEF NotRegisteredStatus
  <1>3. \A reason, code : ErrorStatus(o, reason, code) = e(reason, code)
    BY DEF ErrorStatus
  <1>4. Honest(s)
    OBVIOUS
  <1> HIDE DEF s, g
  <1>5. n \in Status /\ n.owners = s.owners /\ n.ready = "False"
    BY <1>1 DEF Status, Reasons
  <1>6. \A reason \in Reasons, code \in FaultCode :
          e(reason, code) \in Status /\ e(reason, code).owners = s.owners
          /\ e(reason, code).ready = "False"
    BY <1>1 DEF Status
  <1> HIDE DEF n, e
  <1>7. Honest(n)
    BY <1>4, <1>5 DEF Honest
  <1>8. \A reason \in Reasons, code \in FaultCode : Honest(e(reason, code))
    BY <1>4, <1>6 DEF Honest
  <1> QED BY <1>2, <1>3, <1>5, <1>6, <1>7, <1>8 DEF s


-----------------------------------------------------------------------------
(* The steps of the API server, the informer and the worker that keep the  *)
(* part about objects.  The actions are instances of these.                *)

\* A write adds one readable version.
LEMMA StoreReadable ==
  ASSUME Typed(HonestVersion), NEW k \in Keys, NEW o \in HonestVersion, Store(k, o), cache' = cache
  PROVE  /\ Readable(k)' \subseteq Readable(k) \cup {o}
         /\ \A j \in Keys \ {k} : Readable(j)' = Readable(j)
  <1>1. watch[k] \in Seq(HonestVersion)
    BY DEF Typed
  <1>2. CASE UNCHANGED <<obj, watch>>
    BY <1>2 DEF Readable
  <1>3. CASE watch' = [watch EXCEPT ![k] = Append(watch[k], o)]
    <2>1. watch'[k] = Append(watch[k], o) /\ \A j \in Keys \ {k} : watch'[j] = watch[j]
      BY <1>3 DEF Typed
    <2>2. \A n \in 1..Len(watch'[k]) :
            watch'[k][n] = o \/ (n \in 1..Len(watch[k]) /\ watch'[k][n] = watch[k][n])
      BY <1>1, <2>1
    <2> QED BY <2>1, <2>2 DEF Readable
  <1> QED BY <1>2, <1>3 DEF Store

\* A delivery adds none.
LEMMA DeliverReadable ==
  ASSUME Typed(HonestVersion), NEW k \in Keys, Deliver(k)
  PROVE  \A j \in Keys : Readable(j)' \subseteq Readable(j)
  <1>1. watch[k] \in Seq(HonestVersion) /\ watch[k] # <<>>
    BY DEF Typed, Deliver
  <1>2. /\ cache'[k] = Head(watch[k]) /\ watch'[k] = Tail(watch[k])
        /\ \A j \in Keys \ {k} : cache'[j] = cache[j] /\ watch'[j] = watch[j]
    BY DEF Typed, Deliver
  <1>3. 1 \in 1..Len(watch[k]) /\ Head(watch[k]) = watch[k][1]
    BY <1>1
  <1>4. \A n \in 1..Len(Tail(watch[k])) :
          n + 1 \in 1..Len(watch[k]) /\ Tail(watch[k])[n] = watch[k][n + 1]
    BY <1>1
  <1>5. Readable(k)' \subseteq Readable(k)
    BY <1>2, <1>3, <1>4 DEF Readable
  <1>6. \A j \in Keys \ {k} : Readable(j)' = Readable(j)
    BY <1>2 DEF Readable
  <1> QED BY <1>5, <1>6

\* A user writes an object and does not take the finalizer away.
LEMMA UserWriteKeeps ==
  ASSUME KInv, NEW k \in Keys, NEW o \in HonestVersion, UserWrite(k, o), UNCHANGED <<pc, retry>>,
         (obj[k].exists /\ obj[k].fin) => (o.exists /\ o.fin)
  PROVE  KInv'
  <1>1. Typed(HonestVersion) /\ Copies /\ Store(k, o) /\ cache' = cache
    BY DEF KInv, UserWrite
  <1>2. /\ Typed(HonestVersion)' /\ Copies' /\ obj'[k] = o
        /\ \A j \in Keys \ {k} : obj'[j] = obj[j] /\ watch'[j] = watch[j]
    BY <1>1, StoreFacts
  <1>3. /\ Readable(k)' \subseteq Readable(k) \cup {o}
        /\ \A j \in Keys \ {k} : Readable(j)' = Readable(j)
    BY <1>1, StoreReadable
  <1>4. Pinned'
    BY <1>2, <1>3 DEF KInv, Pinned
  <1>5. WorkerType'
    BY DEF KInv, WorkerType, UserWrite
  <1>6. UNCHANGED <<cur, mem, pc>> /\ (pc # "idle" => cur \in Keys)
    BY DEF UserWrite, KInv, WorkerType
  <1>7. FinalizerBeforeFleet'
    BY <1>2, <1>6 DEF KInv, Role, FinalizerBeforeFleet
  <1>8. Role'
    BY <1>6, <1>7 DEF KInv, Role
  <1>9. FreshCopy'
    <2>1. fresh' => fresh /\ cur # k
      BY DEF UserWrite
    <2> QED BY <1>2, <1>6, <2>1 DEF KInv, FreshCopy
  <1> QED BY <1>2, <1>4, <1>5, <1>8, <1>9 DEF KInv

\* The informer applies a version.
LEMMA DeliverKeeps ==
  ASSUME KInv, NEW k \in Keys, Deliver(k), UNCHANGED <<pc, retry>>
  PROVE  KInv'
  <1>1. Typed(HonestVersion) /\ Copies
    BY DEF KInv
  <1>2. /\ Typed(HonestVersion)' /\ Copies' /\ queue' = queue \cup {k}
        /\ \A j \in Keys \ {k} : watch'[j] = watch[j]
        /\ UNCHANGED <<obj, cur, mem, fresh>>
    BY <1>1, DeliverFacts
  <1>3. Pinned'
    BY <1>1, <1>2, DeliverReadable DEF KInv, Pinned
  <1>4. WorkerType' /\ Role'
    BY <1>2 DEF KInv, WorkerType, Role, FinalizerBeforeFleet
  <1>5. watch[k] # <<>> /\ (pc # "idle" => cur \in Keys)
    BY DEF Deliver, KInv, WorkerType
  <1>6. FreshCopy'
    BY <1>2, <1>5 DEF KInv, FreshCopy
  <1> QED BY <1>2, <1>3, <1>4, <1>6 DEF KInv

\* Nothing happens to the objects; requests may come.
LEMMA EnqueueKeeps ==
  ASSUME KInv, queue' \subseteq Keys,
         UNCHANGED <<obj, watch, cache, cur, mem, fresh, pc, retry>>
  PROVE  KInv'
  <1>1. Typed(HonestVersion)' /\ Copies' /\ Pinned'
    BY DEF KInv, Typed, Copies, Pinned, Readable
  <1>2. WorkerType' /\ Role' /\ FreshCopy'
    BY DEF KInv, WorkerType, Role, FinalizerBeforeFleet, FreshCopy
  <1> QED BY <1>1, <1>2 DEF KInv

\* The operator starts again.
LEMMA RestartKeeps ==
  ASSUME KInv, KubeRestart, pc' = "idle", retry' = FALSE
  PROVE  KInv'
  <1>1. /\ obj' = obj /\ cache' = obj' /\ watch' = [k \in Keys |-> <<>>] /\ queue' \subseteq Keys
        /\ cur' = "" /\ mem' = NoObject /\ fresh' = FALSE
    BY DEF KubeRestart
  <1>2. obj' \in [Keys -> HonestVersion]
    BY <1>1 DEF KInv, Typed
  <1>3. Typed(HonestVersion)' /\ Copies'
    BY <1>1, <1>2, ListedFacts
  <1>4. \A k \in Keys : Readable(k)' = {obj'[k]}
    <2>1. \A k \in Keys : Len(watch'[k]) = 0 /\ cache'[k] = obj'[k]
      BY <1>1, EmptyFacts
    <2> QED BY <2>1 DEF Readable
  <1>5. Pinned'
    BY <1>4 DEF Pinned
  <1>6. WorkerType' /\ Role' /\ FreshCopy'
    BY <1>1 DEF WorkerType, Role, FinalizerBeforeFleet, FreshCopy, Steps
  <1> QED BY <1>3, <1>5, <1>6 DEF KInv

\* The worker lets go of its copy with nothing written.
LEMMA ReturnKeeps ==
  ASSUME KInv, NEW again, pc # "idle", JustReturn(again), pc' = "idle", retry' \in BOOLEAN
  PROVE  KInv'
  <1>1. /\ UNCHANGED <<obj, watch, cache>>
        /\ cur' = "" /\ mem' = NoObject /\ fresh' = FALSE
        /\ queue' = IF again THEN queue \cup {cur} ELSE queue
    BY DEF JustReturn, Return
  <1>2. queue' \subseteq Keys
    BY <1>1 DEF KInv, WorkerType
  <1>3. Typed(HonestVersion)' /\ Copies' /\ Pinned'
    BY <1>1 DEF KInv, Typed, Copies, Pinned, Readable
  <1>4. WorkerType' /\ Role' /\ FreshCopy'
    BY <1>1, <1>2 DEF WorkerType, Role, FinalizerBeforeFleet, FreshCopy, Steps
  <1> QED BY <1>3, <1>4 DEF KInv

\* The worker ends with a write, which takes no finalizer away from an object that is
\* not being deleted.
LEMMA WriteKeeps ==
  ASSUME KInv, Bounded, pc # "idle", NEW o, NEW requeue \in BOOLEAN, NEW onError \in BOOLEAN,
         KubeWrite(o, requeue, onError),
         fresh => /\ o \in HonestVersion
                  /\ (obj[cur].exists /\ obj[cur].fin /\ ~obj[cur].del) => (o.exists /\ o.fin)
  PROVE  KInv' /\ faults' \in 0..MaxFaults
  <1>1. /\ pc' = "idle" /\ retry' = FALSE /\ cur' = "" /\ mem' = NoObject /\ fresh' = FALSE
        /\ cache' = cache
        /\ faults' \in 0..MaxFaults
        /\ UNCHANGED <<obj, watch>> \/ (fresh /\ Store(cur, o))
        /\ queue' = queue \cup {cur} \/ queue' = queue
    BY KubeWriteSteps DEF Bounded
  <1>2. cur \in Keys /\ queue' \subseteq Keys
    BY <1>1 DEF KInv, WorkerType
  <1>3. WorkerType' /\ Role' /\ FreshCopy'
    BY <1>1, <1>2 DEF WorkerType, Role, FinalizerBeforeFleet, FreshCopy, Steps
  <1>4. CASE UNCHANGED <<obj, watch>>
    <2>1. Typed(HonestVersion)' /\ Copies' /\ Pinned'
      BY <1>1, <1>4 DEF KInv, Typed, Copies, Pinned, Readable
    <2> QED BY <1>1, <1>3, <2>1 DEF KInv
  <1>5. CASE fresh /\ Store(cur, o)
    <2>1. Typed(HonestVersion) /\ Copies /\ watch[cur] = <<>> /\ o \in HonestVersion
      BY <1>5 DEF KInv, FreshCopy
    <2> PICK k \in Keys : k = cur
      BY <1>2
    <2>2. Typed(HonestVersion)' /\ Copies' /\ obj'[k] = o /\ \A j \in Keys \ {k} : obj'[j] = obj[j]
      BY <1>1, <1>5, <2>1, StoreFacts
    <2>3. /\ Readable(k)' \subseteq Readable(k) \cup {o}
          /\ \A j \in Keys \ {k} : Readable(j)' = Readable(j)
      BY <1>1, <1>5, <2>1, StoreReadable
    <2>4. Readable(k) = {obj[k]}
      <3>1. Len(watch[k]) = 0 /\ cache[k] = obj[k]
        BY <2>1, EmptyFacts DEF Copies
      <3> QED BY <3>1 DEF Readable
    <2>5. Pinned'
      <3> SUFFICES ASSUME NEW j \in Keys, NEW x \in Readable(j)', x.exists, x.fin, ~x.del
                   PROVE  obj'[j].exists /\ obj'[j].fin
        BY DEF Pinned
      <3>1. CASE j = k
        <4>1. x = obj[k] \/ x = o
          BY <2>3, <2>4, <3>1
        <4> QED BY <1>5, <2>2, <3>1, <4>1
      <3>2. CASE j # k
        BY <2>2, <2>3, <3>2 DEF KInv, Pinned
      <3> QED BY <3>1, <3>2
    <2> QED BY <1>1, <1>3, <2>2, <2>5 DEF KInv
  <1> QED BY <1>1, <1>4, <1>5

\* The worker takes a request; o is its copy as it goes into the first call.
LEMMA FetchKeeps ==
  ASSUME KInv, NEW k \in Keys, NEW o \in Collector, Honest(o.st), Fetch(k, o), cache[k].exists,
         pc' \in {"addFinalizer", "get", "finalUpdate", "removeFinalizer"}, retry' \in BOOLEAN,
         pc' = "addFinalizer" => o.fin /\ o.st = cache[k].st,
         pc' = "get" => o = cache[k] /\ o.fin /\ ~o.del,
         pc' \in {"finalUpdate", "removeFinalizer"} => o = cache[k] /\ o.del
  PROVE  KInv'
  <1>1. /\ UNCHANGED <<obj, watch, cache>>
        /\ queue' = queue \ {k} /\ cur' = k /\ mem' = o /\ fresh' = (watch[k] = <<>>)
    BY DEF Fetch
  <1>2. Typed(HonestVersion)' /\ Copies' /\ Pinned'
    BY <1>1 DEF KInv, Typed, Copies, Pinned, Readable
  <1>3. WorkerType'
    <2>1. queue' \subseteq Keys /\ fresh' \in BOOLEAN /\ pc' \in Steps /\ pc' # "idle"
      BY <1>1 DEF KInv, WorkerType, Steps
    <2> QED BY <1>1, <2>1 DEF WorkerType
  <1>4. Role'
    <2>1. cache[k] \in Readable(k)
      BY DEF Readable
    <2>2. pc' = "get" => obj[k].exists /\ obj[k].fin
      BY <2>1 DEF KInv, Pinned
    <2> QED BY <1>1, <2>2 DEF Role, FinalizerBeforeFleet
  <1>5. FreshCopy'
    <2>1. watch[k] = <<>> => cache[k] = obj[k]
      BY DEF KInv, Copies
    <2> QED BY <1>1, <2>1 DEF FreshCopy
  <1> QED BY <1>2, <1>3, <1>4, <1>5 DEF KInv

\* The worker goes on with its copy changed to o.
LEMMA ContinueKeeps ==
  ASSUME KInv, pc # "idle", NEW o \in Collector, Honest(o.st), Continue(o), retry' \in BOOLEAN,
         \/ pc' = "bulkUpdate" /\ pc = "get" /\ o = mem
         \/ pc' = "removeFinalizer" /\ pc = "finalUpdate" /\ o = mem
         \/ pc' = "updateStatus"
  PROVE  KInv'
  <1>1. UNCHANGED <<obj, watch, cache, queue, cur, fresh>> /\ mem' = o
    BY DEF Continue
  <1>2. Typed(HonestVersion)' /\ Copies' /\ Pinned'
    BY <1>1 DEF KInv, Typed, Copies, Pinned, Readable
  <1>3. WorkerType'
    <2>1. pc' \in Steps /\ pc' # "idle"
      BY DEF Steps
    <2> QED BY <1>1, <2>1 DEF KInv, WorkerType
  <1>4. Role'
    BY <1>1 DEF KInv, Role, FinalizerBeforeFleet
  <1>5. FreshCopy'
    BY <1>1 DEF KInv, FreshCopy
  <1> QED BY <1>2, <1>3, <1>4, <1>5 DEF KInv


-----------------------------------------------------------------------------
(* The steps that keep the part about Fleet.                               *)

\* What users, collectors and other clients may do to Fleet.
Gentle ==
  \A i \in Ids :
    /\ ~Deregisters /\ fleet[i].registered => fleet'[i].registered
    /\ fleet[i].registered /\ fleet'[i].registered =>
         \A a \in Attrs \ OtherKeys : fleet'[i].remote[a] = fleet[i].remote[a]
    /\ ~fleet[i].registered /\ fleet'[i].registered =>
         \A a \in Attrs : fleet'[i].remote[a] = Absent

\* No unescaped path is read as that of a key of another client.
Apart == \A s \in Special : Misread[s] \cap OtherKeys = {}

\* What the operator may do to it.
Spares ==
  Apart => \A i \in Ids : fleet[i].registered =>
    /\ fleet'[i].registered
    /\ \A a \in OtherKeys : fleet'[i].remote[a] = fleet[i].remote[a]

\* Keys that a Collector records are not those of other clients.
LEMMA HonestKeys ==
  ASSUME NEW st, Honest(st)
  PROVE  allOwnedKeys(st.owners) \subseteq Attrs \ OtherKeys
  BY DEF Honest, allOwnedKeys

\* Collectors in Fleet.
LEMMA FleetFacts ==
  ASSUME WorldType, NEW i \in Ids
  PROVE  /\ fleet[i].registered \in BOOLEAN
         /\ fleet[i].registered => fleet[i] \in FleetCollector
         /\ fleet[i].registered => fleet[i].local \in Locals /\ fleet[i].remote \in AttrMap
  <1>1. fleet[i] = Unregistered \/ fleet[i] \in FleetCollector
    BY DEF WorldType
  <1>2. CASE fleet[i] = Unregistered
    <2>1. Unregistered.registered = FALSE
      BY DEF Unregistered
    <2> QED BY <1>2, <2>1
  <1>3. CASE fleet[i] \in FleetCollector
    BY <1>3 DEF FleetCollector
  <1> QED BY <1>1, <1>2, <1>3

\* The worker waits while the others act.
LEMMA OthersKeep ==
  ASSUME KInv, FInv, WorldType', Gentle, UNCHANGED <<pc, cur, mem, plan>>,
         fresh' /\ pc # "idle" => fresh /\ obj'[cur] = obj[cur]
  PROVE  FInv'
  <1>1. pc # "idle" => cur \in Keys /\ Id[cur] \in Ids /\ mem \in Collector /\ Honest(mem.st)
    BY DEF KInv, WorkerType, Ids
  <1>2. Planned'
    <2>1. CASE pc # "bulkUpdate"
      BY <2>1 DEF FInv, Planned
    <2>2. CASE pc = "bulkUpdate"
      <3>1. Id[cur] \in Ids
        BY <1>1, <2>2
      <3>2. /\ plan.st \in Status /\ Honest(plan.st)
            /\ \E observed \in AttrMap :
                 /\ plan.ops = Diff(Desired(plan.st.owners), observed, allOwnedKeys(mem.st.owners))
                 /\ ~Deregisters =>
                      /\ fleet[Id[cur]].registered
                      /\ \A a \in Attrs \ OtherKeys : fleet[Id[cur]].remote[a] = observed[a]
        BY <2>2 DEF FInv, Planned
      <3>3. ~Deregisters /\ fleet[Id[cur]].registered =>
              /\ fleet'[Id[cur]].registered
              /\ \A a \in Attrs \ OtherKeys : fleet'[Id[cur]].remote[a] = fleet[Id[cur]].remote[a]
        BY <3>1 DEF Gentle
      <3>4. \E observed \in AttrMap :
                 /\ plan.ops = Diff(Desired(plan.st.owners), observed, allOwnedKeys(mem.st.owners))
                 /\ ~Deregisters =>
                      /\ fleet'[Id[cur]].registered
                      /\ \A a \in Attrs \ OtherKeys : fleet'[Id[cur]].remote[a] = observed[a]
        BY <3>2, <3>3
      <3> QED BY <2>2, <3>2, <3>4 DEF Planned
    <2> QED BY <2>1, <2>2
  <1>3. Recorded'
    <2> SUFFICES ASSUME pc = "updateStatus", fresh', mem.st.ready = "True", ~Deregisters
                 PROVE  Holds(fleet'[Id[cur]], obj'[cur].st.owners, mem.st.owners)
      BY DEF Recorded
    <2>1. fresh /\ obj'[cur] = obj[cur] /\ Id[cur] \in Ids
      BY <1>1
    <2>2. Holds(fleet[Id[cur]], obj[cur].st.owners, mem.st.owners)
      BY <2>1 DEF FInv, Recorded
    <2>3. obj[cur] \in HonestVersion /\ obj[cur].exists
      BY <1>1, <2>1 DEF KInv, FreshCopy, Typed
    <2>4. allOwnedKeys(obj[cur].st.owners) \cup allOwnedKeys(mem.st.owners) \subseteq Attrs \ OtherKeys
      BY <1>1, <2>3, HonestKeys DEF HonestVersion
    <2>5. /\ fleet'[Id[cur]].registered
          /\ \A a \in Attrs \ OtherKeys : fleet'[Id[cur]].remote[a] = fleet[Id[cur]].remote[a]
      BY <2>1, <2>2 DEF Gentle, Holds
    <2> QED BY <2>1, <2>2, <2>4, <2>5 DEF Holds
  <1>4. Removed'
    <2> SUFFICES ASSUME pc = "removeFinalizer", Special = {}, fleet'[Id[cur]].registered,
                        NEW a \in allOwnedKeys(mem.st.owners)
                 PROVE  fleet'[Id[cur]].remote[a] = Absent
      BY DEF Removed
    <2>1. Id[cur] \in Ids /\ a \in Attrs \ OtherKeys
      BY <1>1, HonestKeys
    <2>2. fleet[Id[cur]].registered => fleet[Id[cur]].remote[a] = Absent
      BY DEF FInv, Removed
    <2> QED BY <2>1, <2>2 DEF Gentle
  <1> QED BY <1>2, <1>3, <1>4 DEF FInv

\* The worker has nothing to send and reports no success.
LEMMA PlainKeep ==
  ASSUME WorldType', plan' = NoPlan, pc' \in Steps \ {"bulkUpdate", "removeFinalizer"},
         pc' = "updateStatus" => mem'.st.ready = "False"
  PROVE  FInv'
  BY DEF FInv, Planned, Recorded, Removed

\* A call to Fleet that took effect.
LEMMA BulkFacts ==
  ASSUME WorldType, NEW i \in Ids, fleet[i].registered, NEW ops,
         \A o \in ops : o.op = "REMOVE" \/ o.value \in Vals,
         BulkEffect(i, ops)
  PROVE  /\ fleet' \in [Ids -> {Unregistered} \cup FleetCollector]
         /\ fleet'[i].registered
         /\ fleet'[i].remote = Applied(ops, fleet[i].remote)
         /\ \A j \in Ids \ {i} : fleet'[j] = fleet[j]
  <1> DEFINE c == fleet[i]
             n == [c EXCEPT !.remote = Applied(ops, c.remote)]
  <1>1. c \in FleetCollector /\ c.remote \in AttrMap
    BY FleetFacts
  <1>2. Applied(ops, c.remote) \in AttrMap
    BY <1>1, AppliedType
  <1>3. fleet' = [fleet EXCEPT ![i] = n]
    BY DEF BulkEffect
  <1> HIDE DEF c
  <1>4. n \in FleetCollector /\ n.registered /\ n.remote = Applied(ops, c.remote)
    BY <1>1, <1>2 DEF FleetCollector
  <1> HIDE DEF n
  <1>5. fleet'[i] = n /\ \A j \in Ids \ {i} : fleet'[j] = fleet[j]
    BY <1>3 DEF WorldType
  <1>6. fleet' \in [Ids -> {Unregistered} \cup FleetCollector]
    BY <1>3, <1>4 DEF WorldType
  <1> QED BY <1>4, <1>5, <1>6 DEF c


-----------------------------------------------------------------------------
(* Users, collectors and other clients.                                    *)

\* The bound on their steps.
LEMMA EditBound ==
  ASSUME Bounded, Edit
  PROVE  edits' \in 0..MaxEdits /\ edits' # edits
  <1>1. edits < MaxEdits /\ edits' = edits + 1
    BY DEF Edit
  <1>2. edits' # edits
    BY <1>1 DEF Bounded
  <1> QED BY <1>1, <1>2, BoundsType, OneMore DEF Bounded

LEMMA StillGentle == fleet' = fleet => Gentle
  BY DEF Gentle

\* What they may do to an object: one with the finalizer stays, and a status is the
\* operator's.
Harmless ==
  \A k \in Keys :
    /\ obj[k].exists /\ obj[k].fin => obj'[k].exists
    /\ obj[k].exists /\ obj'[k].exists => obj'[k].st = obj[k].st

LEMMA StillHarmless == obj' = obj => Harmless
  BY DEF Harmless

\* A user writes a Collector.
LEMMA UserStep ==
  ASSUME IInv, NEW k \in Keys, NEW o \in HonestVersion, UserWrite(k, o), Edit, UserOnly,
         (obj[k].exists /\ obj[k].fin) => (o.exists /\ o.fin),
         (obj[k].exists /\ o.exists) => o.st = obj[k].st
  PROVE  IInv' /\ Harmless
  <1>1. UNCHANGED <<pc, retry, plan, faults, crashes, syncs, policies, fleet>>
    BY DEF UserOnly, NotOperator
  <1>2. KInv'
    BY <1>1, UserWriteKeeps DEF IInv
  <1>3. WorldType' /\ Gentle
    BY <1>1, StillGentle DEF IInv, FInv, WorldType
  <1>4. UNCHANGED <<cur, mem>> /\ (fresh' => fresh /\ cur # k)
    BY DEF UserWrite
  <1>5. obj'[k] = o /\ \A j \in Keys \ {k} : obj'[j] = obj[j]
    <2>1. Typed(HonestVersion) /\ Copies /\ Store(k, o) /\ cache' = cache
      BY DEF IInv, KInv, UserWrite
    <2> QED BY <2>1, StoreFacts
  <1>6. FInv'
    <2>1. pc # "idle" => cur \in Keys
      BY DEF IInv, KInv, WorkerType
    <2> QED BY <1>1, <1>3, <1>4, <1>5, <2>1, OthersKeep DEF IInv
  <1>7. Bounded'
    BY <1>1, EditBound DEF IInv, Bounded
  <1>8. Harmless
    BY <1>5 DEF Harmless
  <1> QED BY <1>2, <1>6, <1>7, <1>8 DEF IInv

LEMMA CreateCollectorStep ==
  ASSUME IInv, NEW k \in Keys, NEW attrs \in SpecAttrs, CreateCollector(k, attrs)
  PROVE  IInv' /\ Harmless
  <1> DEFINE st == NewStatus
             o == [exists |-> TRUE, attrs |-> attrs, gen |-> 1, fin |-> FALSE, del |-> FALSE,
                   st |-> st]
  <1>1. st \in Status /\ Honest(st)
    BY NewStatusFacts
  <1>2. ~obj[k].exists /\ UserWrite(k, o) /\ Edit /\ UserOnly
    BY DEF CreateCollector
  <1> HIDE DEF st
  <1>3. o \in Collector /\ o.st = st
    BY <1>1 DEF Collector
  <1> HIDE DEF o
  <1>4. o \in HonestVersion
    BY <1>1, <1>3, VersionFacts
  <1> QED BY <1>2, <1>4, UserStep

LEMMA EditSpecStep ==
  ASSUME IInv, NEW k \in Keys, NEW attrs \in SpecAttrs, EditSpec(k, attrs)
  PROVE  IInv' /\ Harmless
  <1> DEFINE c == obj[k]
             o == [c EXCEPT !.attrs = attrs, !.gen = @ + 1]
  <1>1. UserWrite(k, o) /\ Edit /\ UserOnly /\ c.exists
    BY DEF EditSpec
  <1>2. c \in Collector /\ Honest(c.st)
    BY <1>1, VersionFacts DEF IInv, KInv, Typed
  <1> HIDE DEF c
  <1>3. o \in Collector /\ o.st = c.st /\ o.fin = c.fin
    BY <1>2, WithAttrs
  <1> HIDE DEF o
  <1>4. o \in HonestVersion /\ o.exists
    BY <1>2, <1>3, VersionFacts
  <1> QED BY <1>1, <1>3, <1>4, UserStep DEF c

LEMMA DeleteCollectorStep ==
  ASSUME IInv, NEW k \in Keys, DeleteCollector(k)
  PROVE  IInv' /\ Harmless
  <1> DEFINE c == obj[k]
             o == [c EXCEPT !.del = TRUE, !.gen = @ + 1]
  <1>1. /\ UserWrite(k, IF c.fin THEN o ELSE NoObject)
        /\ Edit /\ UserOnly /\ c.exists
    BY DEF DeleteCollector
  <1>2. c \in Collector /\ Honest(c.st)
    BY <1>1, VersionFacts DEF IInv, KInv, Typed
  <1> HIDE DEF c
  <1>3. o \in Collector /\ o.st = c.st /\ o.fin = c.fin
    BY <1>2, WithDeletion
  <1> HIDE DEF o
  <1>4. o \in HonestVersion /\ o.exists
    BY <1>2, <1>3, VersionFacts
  <1>5. CASE c.fin
    <2>1. UserWrite(k, o)
      BY <1>1, <1>5
    <2> QED BY <1>1, <1>3, <1>4, <1>5, <2>1, UserStep DEF c
  <1>6. CASE ~c.fin
    <2>1. UserWrite(k, NoObject) /\ NoObject \in HonestVersion /\ ~NoObject.exists
      BY <1>1, <1>6, VersionFacts
    <2> QED BY <1>1, <1>6, <2>1, UserStep DEF c
  <1> QED BY <1>5, <1>6

\* A sync or a policy changes: requests come.
LEMMA ChangeLayerStep ==
  ASSUME IInv, NEW requests, requests \subseteq Keys, Enqueue(requests), Edit, NotOperator,
         fleet' = fleet, WorldType'
  PROVE  IInv' /\ Harmless
  <1>1. /\ UNCHANGED <<obj, watch, cache, cur, mem, fresh, pc, retry, plan, faults, crashes>>
        /\ queue' = queue \cup requests
    BY DEF Enqueue, NotOperator
  <1>2. KInv'
    <2>1. queue' \subseteq Keys
      BY <1>1 DEF IInv, KInv, WorkerType
    <2> QED BY <1>1, <2>1, EnqueueKeeps DEF IInv
  <1>3. FInv'
    BY <1>1, StillGentle, OthersKeep DEF IInv
  <1>4. Bounded'
    BY <1>1, EditBound DEF IInv, Bounded
  <1> QED BY <1>1, <1>2, <1>3, <1>4, StillHarmless DEF IInv

LEMMA ChangeSyncStep ==
  ASSUME IInv, NEW s \in Syncs, NEW new \in {NoSync} \cup Claims, ChangeSync(s, new)
  PROVE  IInv' /\ Harmless
  <1> DEFINE requests == IF SyncWatched(syncs[s], new)
               THEN collectorsTouchedBySync(syncs[s]) \cup collectorsTouchedBySync(new)
               ELSE {}
  <1>1. /\ Enqueue(requests) /\ Edit /\ NotOperator /\ UNCHANGED <<policies, fleet>>
        /\ syncs' = [syncs EXCEPT ![s] = new]
    BY DEF ChangeSync
  <1>2. requests \subseteq Keys
    BY DEF collectorsTouchedBySync
  <1>3. WorldType'
    BY <1>1 DEF IInv, FInv, WorldType
  <1> HIDE DEF requests
  <1> QED BY <1>1, <1>2, <1>3, ChangeLayerStep

LEMMA ChangePolicyStep ==
  ASSUME IInv, NEW p \in Policies, NEW new \in {NoPolicy} \cup PolicySpecs, ChangePolicy(p, new)
  PROVE  IInv' /\ Harmless
  <1> DEFINE requests == collectorsMatchedByPolicy(policies[p]) \cup collectorsMatchedByPolicy(new)
  <1>1. /\ Enqueue(requests) /\ Edit /\ NotOperator /\ UNCHANGED <<syncs, fleet>>
        /\ policies' = [policies EXCEPT ![p] = new]
    BY DEF ChangePolicy
  <1>2. requests \subseteq Keys
    BY DEF collectorsMatchedByPolicy
  <1>3. WorldType'
    BY <1>1 DEF IInv, FInv, WorldType
  <1> HIDE DEF requests
  <1> QED BY <1>1, <1>2, <1>3, ChangeLayerStep

\* Something happens in Fleet.
LEMMA FleetStep ==
  ASSUME IInv, Edit, NotOperator, UNCHANGED <<kubeVars, syncs, policies>>, Gentle,
         fleet' \in [Ids -> {Unregistered} \cup FleetCollector]
  PROVE  IInv' /\ Harmless
  <1>1. UNCHANGED <<obj, watch, cache, queue, cur, mem, fresh, pc, retry, plan, faults, crashes>>
    BY DEF kubeVars, NotOperator
  <1>2. KInv'
    BY <1>1, EnqueueKeeps DEF IInv, KInv, WorkerType
  <1>3. WorldType'
    BY DEF IInv, FInv, WorldType
  <1>4. FInv'
    BY <1>1, <1>3, OthersKeep DEF IInv
  <1>5. Bounded'
    BY <1>1, EditBound DEF IInv, Bounded
  <1> QED BY <1>1, <1>2, <1>4, <1>5, StillHarmless DEF IInv

LEMMA ReportStep ==
  ASSUME IInv, NEW i \in Ids, NEW local \in Locals, Report(i, local)
  PROVE  IInv' /\ Harmless
  <1> DEFINE remote == IF fleet[i].registered THEN fleet[i].remote ELSE NoAttrs
             c == [registered |-> TRUE, local |-> local, remote |-> remote]
  <1>1. fleet' = [fleet EXCEPT ![i] = c]
    BY DEF Report
  <1>2. remote \in AttrMap /\ (~fleet[i].registered => remote = NoAttrs)
    <2>1. NoAttrs \in AttrMap
      BY DEF NoAttrs, AttrMap
    <2> QED BY <2>1, FleetFacts DEF IInv, FInv
  <1>3. fleet[i].registered => remote = fleet[i].remote
    OBVIOUS
  <1> HIDE DEF remote
  <1>4. c \in FleetCollector /\ c.registered /\ c.remote = remote
    BY <1>2 DEF FleetCollector
  <1> HIDE DEF c
  <1>5. fleet'[i] = c /\ \A j \in Ids \ {i} : fleet'[j] = fleet[j]
    BY <1>1 DEF IInv, FInv, WorldType
  <1>6. fleet' \in [Ids -> {Unregistered} \cup FleetCollector]
    BY <1>1, <1>4 DEF IInv, FInv, WorldType
  <1>7. Gentle
    <2>1. \A a \in Attrs : NoAttrs[a] = Absent
      BY DEF NoAttrs
    <2> QED BY <1>2, <1>3, <1>4, <1>5, <2>1 DEF Gentle
  <1> QED BY <1>6, <1>7, FleetStep DEF Report

LEMMA DeregisterStep ==
  ASSUME IInv, NEW i \in Ids, Deregister(i)
  PROVE  IInv' /\ Harmless
  <1>1. Deregisters /\ fleet' = [fleet EXCEPT ![i] = Unregistered]
    BY DEF Deregister
  <1>2. fleet'[i] = Unregistered /\ \A j \in Ids \ {i} : fleet'[j] = fleet[j]
    BY <1>1 DEF IInv, FInv, WorldType
  <1>3. fleet' \in [Ids -> {Unregistered} \cup FleetCollector]
    BY <1>1 DEF IInv, FInv, WorldType
  <1>4. ~Unregistered.registered
    BY DEF Unregistered
  <1>5. Gentle
    BY <1>1, <1>2, <1>4 DEF Gentle
  <1> QED BY <1>3, <1>5, FleetStep DEF Deregister

LEMMA OtherWriteStep ==
  ASSUME IInv, NEW i \in Ids, NEW a \in OtherKeys, NEW v \in Vals \cup {Absent},
         OtherWrite(i, a, v)
  PROVE  IInv' /\ Harmless
  <1> DEFINE c == fleet[i]
             remote == [c.remote EXCEPT ![a] = v]
             n == [c EXCEPT !.remote = remote]
  <1>1. fleet' = [fleet EXCEPT ![i] = n] /\ c.registered
    BY DEF OtherWrite
  <1>2. c \in FleetCollector /\ c.remote \in AttrMap
    BY <1>1, FleetFacts DEF IInv, FInv
  <1>3. remote \in AttrMap /\ \A b \in Attrs \ OtherKeys : remote[b] = c.remote[b]
    BY <1>2, CollectorAssumption DEF AttrMap
  <1> HIDE DEF remote, c
  <1>4. n \in FleetCollector /\ n.registered /\ n.remote = remote
    BY <1>2, <1>3 DEF FleetCollector
  <1> HIDE DEF n
  <1>5. fleet'[i] = n /\ \A j \in Ids \ {i} : fleet'[j] = fleet[j]
    BY <1>1 DEF IInv, FInv, WorldType
  <1>6. fleet' \in [Ids -> {Unregistered} \cup FleetCollector]
    BY <1>1, <1>4 DEF IInv, FInv, WorldType
  <1>7. Gentle
    BY <1>1, <1>3, <1>4, <1>5 DEF Gentle, c
  <1> QED BY <1>6, <1>7, FleetStep DEF OtherWrite


\* Whatever the users, the collectors and the other clients do.
LEMMA UserStepKeeps ==
  ASSUME IInv, User
  PROVE  IInv' /\ edits' # edits /\ Harmless
  <1>1. IInv' /\ Harmless
    BY CreateCollectorStep, EditSpecStep, DeleteCollectorStep, ChangeSyncStep, ChangePolicyStep,
       ReportStep, DeregisterStep, OtherWriteStep DEF User
  <1>2. Edit
    BY DEF User, CreateCollector, EditSpec, DeleteCollector, ChangeSync, ChangePolicy, Report,
           Deregister, OtherWrite
  <1> QED BY <1>1, <1>2, EditBound DEF IInv

-----------------------------------------------------------------------------
(* Reconcile, up to the first call.                                        *)

LEMMA StillSpares ==
  ASSUME WorldType, fleet' = fleet
  PROVE  Spares
  BY DEF Spares

\* The worker is idle until it takes a request.
LEMMA IdleFacts ==
  ASSUME IInv, cur = ""
  PROVE  pc = "idle" /\ mem = NoObject /\ plan = NoPlan
  <1>1. pc = "idle" /\ mem = NoObject
    BY KeysAssumption DEF IInv, KInv, WorkerType
  <1> QED BY <1>1 DEF IInv, FInv, Planned

\* It takes one.
LEMMA FetchStep ==
  ASSUME IInv, NEW k \in Keys, NEW o \in Collector, Honest(o.st), Fetch(k, o), cache[k].exists,
         NoFault, OperatorOnly, UNCHANGED <<retry, fleet, plan>>,
         pc' \in {"addFinalizer", "get", "finalUpdate", "removeFinalizer"},
         pc' = "addFinalizer" => o.fin /\ o.st = cache[k].st,
         pc' = "get" => o = cache[k] /\ o.fin /\ ~o.del,
         pc' \in {"finalUpdate", "removeFinalizer"} => o = cache[k] /\ o.del,
         pc' = "removeFinalizer" => allOwnedKeys(o.st.owners) = {}
  PROVE  IInv'
  <1>1. KInv'
    <2>1. retry' \in BOOLEAN
      BY DEF IInv, KInv, WorkerType
    <2> QED BY <2>1, FetchKeeps DEF IInv
  <1>2. plan' = NoPlan /\ mem' = o
    BY IdleFacts DEF Fetch
  <1>3. WorldType'
    BY DEF IInv, FInv, WorldType, OperatorOnly
  <1>4. Planned' /\ Recorded'
    BY <1>2 DEF Planned, Recorded
  <1>5. Removed'
    BY <1>2 DEF Removed
  <1>6. Bounded'
    BY DEF IInv, Bounded, NoFault, OperatorOnly
  <1> QED BY <1>1, <1>3, <1>4, <1>5, <1>6 DEF IInv, FInv

LEMMA ReconcileNothingStep ==
  ASSUME IInv, NEW k \in Keys, ReconcileNothing(k)
  PROVE  IInv'
  <1>1. /\ UNCHANGED <<obj, watch, cache, cur, mem, fresh, pc, retry, fleet, plan, faults,
                       syncs, policies, edits, crashes>>
        /\ queue' = queue \ {k}
    BY DEF ReconcileNothing, FetchAndReturn, NoFault, OperatorOnly
  <1>2. KInv'
    <2>1. queue' \subseteq Keys
      BY <1>1 DEF IInv, KInv, WorkerType
    <2> QED BY <1>1, <2>1, EnqueueKeeps DEF IInv
  <1>3. WorldType'
    BY <1>1 DEF IInv, FInv, WorldType
  <1>4. FInv'
    BY <1>1, <1>3, StillGentle, OthersKeep DEF IInv
  <1>5. Bounded'
    BY <1>1 DEF IInv, Bounded
  <1> QED BY <1>2, <1>4, <1>5 DEF IInv

LEMMA ReconcileStep ==
  ASSUME IInv, NEW k \in Keys, Reconcile(k)
  PROVE  IInv' /\ fleet' = fleet
  <1> DEFINE c == cache[k]
  <1>1. c.exists => c \in Collector /\ Honest(c.st)
    BY VersionFacts DEF IInv, KInv, Typed
  <1>2. CASE ReconcileNothing(k)
    BY <1>2, ReconcileNothingStep DEF ReconcileNothing
  <1>3. CASE ReconcileFinalizer(k)
    <2> DEFINE o == [c EXCEPT !.fin = TRUE]
    <2>1. /\ c.exists /\ Fetch(k, o) /\ pc' = "addFinalizer" /\ NoFault /\ OperatorOnly
          /\ UNCHANGED <<retry, fleet, plan>>
      BY <1>3 DEF ReconcileFinalizer
    <2> HIDE DEF c
    <2>2. o \in Collector /\ o.st = c.st /\ o.fin
      BY <1>1, <2>1, WithFinalizer
    <2> HIDE DEF o
    <2> QED BY <1>1, <2>1, <2>2, FetchStep DEF c
  <1>4. CASE ReconcileNormal(k)
    <2>1. /\ c.exists /\ ~c.del /\ c.fin /\ Fetch(k, c) /\ pc' = "get" /\ NoFault /\ OperatorOnly
          /\ UNCHANGED <<retry, fleet, plan>>
      BY <1>4 DEF ReconcileNormal, ToSync
    <2> QED BY <1>1, <2>1, FetchStep
  <1>5. CASE ReconcileDelete(k)
    <2>1. /\ c.exists /\ c.del /\ Fetch(k, c) /\ NoFault /\ OperatorOnly
          /\ UNCHANGED <<retry, fleet, plan>>
          /\ pc' = IF allOwnedKeys(c.st.owners) = {} THEN "removeFinalizer" ELSE "finalUpdate"
      BY <1>5 DEF ReconcileDelete
    <2>2. /\ pc' \in {"finalUpdate", "removeFinalizer"}
          /\ pc' = "removeFinalizer" => allOwnedKeys(c.st.owners) = {}
      BY <2>1
    <2> QED BY <1>1, <2>1, <2>2, FetchStep
  <1> QED BY <1>2, <1>3, <1>4, <1>5 DEF Reconcile

-----------------------------------------------------------------------------
(* The calls of the worker.                                                *)

\* The worker has a Collector that it may record something in.
LEMMA WorkerFacts ==
  ASSUME IInv, pc # "idle"
  PROVE  cur \in Keys /\ Id[cur] \in Ids /\ mem \in Collector /\ Honest(mem.st)
  BY DEF IInv, KInv, WorkerType, Ids

\* On to the status write, or back to the queue if it would change nothing.
LEMMA WriteStatusKeeps ==
  ASSUME IInv, pc # "idle", NEW st \in Status, Honest(st), NEW again \in BOOLEAN,
         WriteStatus(st, again)
  PROVE  /\ KInv'
         /\ obj' = obj
         /\ pc' \in {"updateStatus", "idle"}
         /\ pc' = "updateStatus" => mem'.st = st /\ cur' = cur /\ fresh' = fresh
  <1> DEFINE o == [mem EXCEPT !.st = st]
  <1>1. mem \in Collector
    BY WorkerFacts
  <1>2. o \in Collector /\ o.st = st
    BY <1>1, WithStatus
  <1>3. CASE Continue(o) /\ pc' = "updateStatus" /\ retry' = again
    <2> HIDE DEF o
    <2>1. KInv'
      BY <1>2, <1>3, ContinueKeeps DEF IInv
    <2> QED BY <1>2, <1>3, <2>1 DEF Continue
  <1>4. CASE JustReturn(again) /\ pc' = "idle" /\ UNCHANGED retry
    <2>1. KInv'
      BY <1>4, ReturnKeeps DEF IInv, KInv, WorkerType
    <2> QED BY <1>4, <2>1 DEF JustReturn
  <1> QED BY <1>3, <1>4 DEF WriteStatus

\* An error is reported, or waits.
LEMMA ErrorKeeps ==
  ASSUME IInv, pc # "idle", NEW code \in FaultCode, NEW reason \in Reasons,
         updateStatusError(reason, code)
  PROVE  /\ KInv' /\ obj' = obj
         /\ pc' \in {"updateStatus", "idle"}
         /\ pc' = "updateStatus" => mem'.st.ready = "False"
  <1> DEFINE st == ErrorStatus(mem, reason, code)
             again == shouldRetry(code, reason)
  <1>1. st \in Status /\ Honest(st) /\ st.ready = "False"
    BY WorkerFacts, FailureFacts
  <1>2. again \in BOOLEAN
    BY DEF shouldRetry, IsTransient
  <1>3. WriteStatus(st, again)
    BY DEF updateStatusError
  <1> HIDE DEF st, again
  <1> QED BY <1>1, <1>2, <1>3, WriteStatusKeeps

LEMMA HandleKeeps ==
  ASSUME IInv, pc # "idle", NEW code \in FaultCode, handleAPIError(code)
  PROVE  /\ KInv' /\ obj' = obj
         /\ pc' \in {"updateStatus", "idle"}
         /\ pc' = "updateStatus" => mem'.st.ready = "False"
  <1>1. "ValidationError" \in Reasons /\ "SyncFailed" \in Reasons
    BY DEF Reasons
  <1>2. CASE RequeueAfter
    <2>1. JustReturn(TRUE) /\ pc' = "idle" /\ UNCHANGED retry
      BY <1>2 DEF RequeueAfter
    <2>2. KInv'
      BY <2>1, ReturnKeeps DEF IInv, KInv, WorkerType
    <2> QED BY <2>1, <2>2 DEF JustReturn
  <1> QED BY <1>1, <1>2, ErrorKeeps DEF handleAPIError


\* The codes that the environment may answer with.
LEMMA CodeFacts == FleetFault \subseteq FaultCode
  BY DEF FleetFault, FaultCode

\* The call returned and the outcome is not a success.
LEMMA UnsuccessfulStep ==
  ASSUME IInv, KInv', OperatorOnly, faults' \in 0..MaxFaults, plan' = NoPlan,
         fleet' \in [Ids -> {Unregistered} \cup FleetCollector],
         pc' \in {"updateStatus", "idle"},
         pc' = "updateStatus" => mem'.st.ready = "False"
  PROVE  IInv'
  <1>1. WorldType'
    BY DEF IInv, FInv, WorldType, OperatorOnly
  <1>2. FInv'
    BY <1>1, PlainKeep DEF Steps
  <1>3. Bounded'
    BY DEF IInv, Bounded, OperatorOnly
  <1> QED BY <1>2, <1>3 DEF IInv

\* The call returned and what it found or wrote is to be recorded.
LEMMA SuccessfulStep ==
  ASSUME IInv, pc # "idle", NEW st \in Status, Honest(st), updateStatusSuccess(st),
         OperatorOnly, NoFault, plan' = NoPlan,
         fleet' \in [Ids -> {Unregistered} \cup FleetCollector],
         ~Deregisters /\ fresh => Holds(fleet'[Id[cur]], obj[cur].st.owners, st.owners)
  PROVE  IInv'
  <1>1. WriteStatus(st, TRUE)
    BY DEF updateStatusSuccess
  <1>2. /\ KInv' /\ obj' = obj
        /\ pc' \in {"updateStatus", "idle"}
        /\ pc' = "updateStatus" => mem'.st = st /\ cur' = cur /\ fresh' = fresh
    BY <1>1, WriteStatusKeeps
  <1>3. WorldType' /\ Bounded'
    BY DEF IInv, FInv, WorldType, OperatorOnly, Bounded, NoFault
  <1>4. Planned' /\ Removed'
    BY <1>2 DEF Planned, Removed
  <1>5. Recorded'
    BY <1>2 DEF Recorded
  <1> QED BY <1>2, <1>3, <1>4, <1>5 DEF IInv, FInv

\* GetCollector changes nothing in Fleet; what it plans is computed from what it saw.
LEMMA GetCollectorStep ==
  ASSUME IInv, GetCollector
  PROVE  IInv' /\ fleet' = fleet
  <1> DEFINE i == Id[cur]
             c == fleet[i]
             owners == MergedOwners(cur, mem, c.local)
             ops == Diff(Desired(owners), c.remote, allOwnedKeys(mem.st.owners))
             st == SyncedStatus(mem, owners, c.local)
  <1>1. pc = "get" /\ OperatorOnly /\ fleet' = fleet /\ pc # "idle"
    BY DEF GetCollector
  <1>2. /\ cur \in Keys /\ i \in Ids /\ mem \in Collector /\ Honest(mem.st)
        /\ WorldType /\ plan = NoPlan /\ faults \in 0..MaxFaults
        /\ fleet' \in [Ids -> {Unregistered} \cup FleetCollector]
    BY <1>1, WorkerFacts DEF IInv, FInv, Planned, Bounded, WorldType
  <1>3. ASSUME c.registered
        PROVE  /\ c \in FleetCollector /\ c.remote \in AttrMap
               /\ owners \in [Attrs -> Owner] /\ mem.st.owners \in [Attrs -> Owner]
               /\ st \in Status /\ Honest(st) /\ st.owners = owners /\ st.ready = "True"
    <2>1. c \in FleetCollector /\ c.remote \in AttrMap /\ c.local \in Locals
      BY <1>2, <1>3, FleetFacts
    <2> HIDE DEF c
    <2>2. owners \in [Attrs -> Owner] /\ \A a \in OtherKeys : owners[a] = NoOwner
      BY <1>2, MergedType
    <2> HIDE DEF owners
    <2>3. mem.st.owners \in [Attrs -> Owner]
      BY <1>2, FieldFacts DEF Status
    <2> QED BY <1>2, <2>1, <2>2, <2>3, SyncedFacts
  <1>4. fresh => obj[cur].st.owners = mem.st.owners
    BY <1>1 DEF IInv, KInv, FreshCopy
  <1>5. CASE c.registered /\ ops = {} /\ updateStatusSuccess(st) /\ UNCHANGED plan /\ NoFault
    <2>1. Holds(c, mem.st.owners, owners)
      <3> HIDE DEF c, owners
      <3> QED BY <1>3, <1>5, NothingToDo
    <2>2. fresh => Holds(fleet'[Id[cur]], obj[cur].st.owners, st.owners)
      BY <1>1, <1>3, <1>4, <1>5, <2>1
    <2> HIDE DEF st, c, owners, ops
    <2> QED BY <1>1, <1>2, <1>3, <1>5, <2>2, SuccessfulStep
  <1>6. CASE /\ c.registered /\ NoFault
             /\ plan' = [ops |-> ops, st |-> st]
             /\ Continue(mem) /\ pc' = "bulkUpdate" /\ UNCHANGED retry
    <2>1. KInv'
      <3>1. retry' \in BOOLEAN
        BY <1>6 DEF IInv, KInv, WorkerType
      <3> QED BY <1>1, <1>2, <1>6, <3>1, ContinueKeeps DEF IInv
    <2>2. mem' = mem /\ cur' = cur
      BY <1>6 DEF Continue
    <2>3. plan'.ops = ops /\ plan'.st = st
      BY <1>6
    <2>4. Planned'
      <3>1. /\ plan'.ops = Diff(Desired(plan'.st.owners), c.remote, allOwnedKeys(mem'.st.owners))
            /\ fleet'[Id[cur']].registered
            /\ \A a \in Attrs \ OtherKeys : fleet'[Id[cur']].remote[a] = c.remote[a]
        BY <1>1, <1>3, <1>6, <2>2, <2>3
      <3>2. plan'.st \in Status /\ Honest(plan'.st) /\ c.remote \in AttrMap
        BY <1>3, <1>6, <2>3
      <3> HIDE DEF c, ops, st, owners
      <3>3. Honest(plan.st)'
        BY <3>2 DEF Honest
      <3> QED BY <1>6, <3>1, <3>2, <3>3 DEF Planned
    <2>5. WorldType' /\ Bounded'
      BY <1>1, <1>6 DEF IInv, FInv, WorldType, Bounded, NoFault, OperatorOnly
    <2>6. Recorded' /\ Removed'
      BY <1>6 DEF Recorded, Removed
    <2> QED BY <1>1, <2>1, <2>4, <2>5, <2>6 DEF IInv, FInv
  <1>7. CASE WriteStatus(NotRegisteredStatus(mem), TRUE) /\ NoFault /\ UNCHANGED plan
    <2> DEFINE n == NotRegisteredStatus(mem)
    <2>1. n \in Status /\ Honest(n) /\ n.ready = "False"
      BY <1>2, FailureFacts
    <2>2. WriteStatus(n, TRUE)
      BY <1>7
    <2> HIDE DEF n
    <2>3. /\ KInv' /\ pc' \in {"updateStatus", "idle"}
          /\ pc' = "updateStatus" => mem'.st = n
      BY <1>1, <2>1, <2>2, WriteStatusKeeps
    <2>4. faults' \in 0..MaxFaults /\ plan' = NoPlan
      BY <1>2, <1>7 DEF NoFault
    <2> QED BY <1>1, <1>2, <2>1, <2>3, <2>4, UnsuccessfulStep
  <1>8. ASSUME NEW code \in FleetFault, Fault(code), handleAPIError(code), UNCHANGED plan
        PROVE  IInv'
    <2>1. faults' \in 0..MaxFaults /\ plan' = NoPlan
      BY <1>2, <1>8, FaultType
    <2>2. /\ KInv' /\ pc' \in {"updateStatus", "idle"}
          /\ pc' = "updateStatus" => mem'.st.ready = "False"
      BY <1>1, <1>8, CodeFacts, HandleKeeps
    <2> QED BY <1>1, <1>2, <2>1, <2>2, UnsuccessfulStep
  <1> QED BY <1>1, <1>5, <1>6, <1>7, <1>8 DEF GetCollector


\* The keys of other clients are out of reach of a plan.
LEMMA PlanSpares ==
  ASSUME IInv, pc = "bulkUpdate", fleet[Id[cur]].registered, BulkEffect(Id[cur], plan.ops)
  PROVE  /\ fleet' \in [Ids -> {Unregistered} \cup FleetCollector]
         /\ Spares
         /\ ~Deregisters => Holds(fleet'[Id[cur]], mem.st.owners, plan.st.owners)
  <1> DEFINE i == Id[cur]
             owners == plan.st.owners
             old == mem.st.owners
             remote == fleet[i].remote
  <1>1. cur \in Keys /\ i \in Ids /\ mem \in Collector /\ Honest(mem.st) /\ WorldType
    BY WorkerFacts DEF IInv, FInv
  <1>2. plan.st \in Status /\ Honest(plan.st)
    BY DEF IInv, FInv, Planned
  <1>3. PICK observed \in AttrMap :
          /\ plan.ops = Diff(Desired(owners), observed, allOwnedKeys(old))
          /\ ~Deregisters => \A a \in Attrs \ OtherKeys : remote[a] = observed[a]
    BY DEF IInv, FInv, Planned
  <1>4. owners \in [Attrs -> Owner] /\ old \in [Attrs -> Owner] /\ OtherKeys \subseteq Attrs
    BY <1>1, <1>2, FieldFacts, CollectorAssumption DEF Status
  <1>5. /\ \A a \in OtherKeys : owners[a] = NoOwner /\ old[a] = NoOwner
        /\ allOwnedKeys(old) \cup allOwnedKeys(owners) \subseteq Attrs \ OtherKeys
    BY <1>1, <1>2, HonestKeys DEF Honest
  <1> HIDE DEF owners, old
  <1>6. Desired(owners) \in AttrMap /\ allOwnedKeys(old) \in SUBSET Attrs
    BY <1>4, DesiredFacts
  <1>7. \A o \in plan.ops : o.op = "REMOVE" \/ o.value \in Vals
    BY <1>3, <1>6, DiffType
  <1>8. /\ fleet' \in [Ids -> {Unregistered} \cup FleetCollector]
        /\ fleet'[i].registered
        /\ fleet'[i].remote = Applied(plan.ops, remote)
        /\ \A j \in Ids \ {i} : fleet'[j] = fleet[j]
    BY <1>1, <1>7, BulkFacts
  <1>9. ASSUME NEW a \in OtherKeys
        PROVE  Applied(plan.ops, remote)[a] = remote[a]
    <2>1. Desired(owners)[a] = Absent /\ a \notin allOwnedKeys(old) /\ a \in Attrs
      BY <1>4, <1>5, DesiredFacts DEF allOwnedKeys
    <2> HIDE DEF remote
    <2> QED BY <1>3, <1>6, <2>1, DiffSpares
  <1>10. Spares
    BY <1>8, <1>9 DEF Spares
  <1>11. ASSUME ~Deregisters
         PROVE  Holds(fleet'[i], old, owners)
    <2>1. \A a \in allOwnedKeys(old) \cup allOwnedKeys(owners) : remote[a] = observed[a]
      BY <1>3, <1>5, <1>11
    <2> HIDE DEF remote
    <2>2. \A a \in allOwnedKeys(old) \cup allOwnedKeys(owners) :
            Applied(plan.ops, remote)[a] = owners[a].value
      BY <1>3, <1>4, <2>1, DiffWrites
    <2> HIDE DEF i
    <2> QED BY <1>8, <2>2 DEF Holds
  <1> QED BY <1>8, <1>10, <1>11 DEF owners, old

\* BulkUpdateCollectors in reconcileNormal.
LEMMA BulkUpdateStep ==
  ASSUME IInv, BulkUpdate
  PROVE  IInv' /\ Spares
  <1>1. pc = "bulkUpdate" /\ pc # "idle" /\ plan' = NoPlan /\ OperatorOnly
    BY DEF BulkUpdate
  <1>2. /\ WorldType /\ faults \in 0..MaxFaults
        /\ fleet \in [Ids -> {Unregistered} \cup FleetCollector]
        /\ plan.st \in Status /\ Honest(plan.st)
    BY <1>1 DEF IInv, FInv, Bounded, WorldType, Planned
  <1>3. CASE /\ fleet[Id[cur]].registered /\ BulkEffect(Id[cur], plan.ops)
             /\ updateStatusSuccess(plan.st) /\ NoFault
    <2>1. /\ fleet' \in [Ids -> {Unregistered} \cup FleetCollector]
          /\ Spares
          /\ ~Deregisters => Holds(fleet'[Id[cur]], mem.st.owners, plan.st.owners)
      BY <1>1, <1>3, PlanSpares
    <2>2. fresh => obj[cur].st.owners = mem.st.owners
      BY <1>1 DEF IInv, KInv, FreshCopy
    <2>3. ~Deregisters /\ fresh => Holds(fleet'[Id[cur]], obj[cur].st.owners, plan.st.owners)
      BY <2>1, <2>2
    <2>4. IInv'
      BY <1>1, <1>2, <1>3, <2>1, <2>3, SuccessfulStep
    <2> QED BY <2>1, <2>4
  <1>4. CASE handleAPIError("404") /\ NoFault /\ UNCHANGED fleet
    <2>1. "404" \in FaultCode
      BY DEF FaultCode
    <2>2. /\ KInv' /\ pc' \in {"updateStatus", "idle"}
          /\ pc' = "updateStatus" => mem'.st.ready = "False"
      BY <1>1, <1>4, <2>1, HandleKeeps
    <2>3. faults' \in 0..MaxFaults
      BY <1>2, <1>4 DEF NoFault
    <2>4. IInv'
      BY <1>1, <1>2, <1>4, <2>2, <2>3, UnsuccessfulStep
    <2> QED BY <1>2, <1>4, <2>4, StillSpares
  <1>5. ASSUME NEW code \in FleetFault, Fault(code), handleAPIError(code),
               \/ fleet[Id[cur]].registered /\ BulkEffect(Id[cur], plan.ops)
               \/ UNCHANGED fleet
        PROVE  IInv' /\ Spares
    <2>1. faults' \in 0..MaxFaults
      BY <1>2, <1>5, FaultType
    <2>2. /\ KInv' /\ pc' \in {"updateStatus", "idle"}
          /\ pc' = "updateStatus" => mem'.st.ready = "False"
      BY <1>1, <1>5, CodeFacts, HandleKeeps
    <2>3. fleet' \in [Ids -> {Unregistered} \cup FleetCollector] /\ Spares
      BY <1>1, <1>2, <1>5, PlanSpares, StillSpares
    <2> QED BY <1>1, <2>1, <2>2, <2>3, UnsuccessfulStep
  <1> QED BY <1>3, <1>4, <1>5 DEF BulkUpdate

\* The final call reaches nothing but what is recorded.
LEMMA FinalSpares ==
  ASSUME IInv, pc = "finalUpdate", fleet[Id[cur]].registered,
         BulkEffect(Id[cur], removeOwned(mem.st.owners))
  PROVE  /\ fleet' \in [Ids -> {Unregistered} \cup FleetCollector]
         /\ Spares
         /\ Special = {} => \A a \in allOwnedKeys(mem.st.owners) : fleet'[Id[cur]].remote[a] = Absent
  <1> DEFINE i == Id[cur]
             owners == mem.st.owners
             remote == fleet[i].remote
  <1>1. cur \in Keys /\ i \in Ids /\ mem \in Collector /\ Honest(mem.st) /\ WorldType
    BY WorkerFacts DEF IInv, FInv
  <1>2. OtherKeys \subseteq Attrs \ allOwnedKeys(owners)
    BY <1>1, HonestKeys, CollectorAssumption
  <1>3. /\ \A o \in removeOwned(owners) : o.op = "REMOVE"
        /\ Special = {} => \A a \in allOwnedKeys(owners) :
                              Applied(removeOwned(owners), remote)[a] = Absent
        /\ \A a \in Attrs \ allOwnedKeys(owners) :
             (\A s \in Special : a \notin Misread[s]) =>
               Applied(removeOwned(owners), remote)[a] = remote[a]
    <2> HIDE DEF owners, remote
    <2> QED BY RemoveOwnedFacts
  <1>4. /\ fleet' \in [Ids -> {Unregistered} \cup FleetCollector]
        /\ fleet'[i].registered
        /\ fleet'[i].remote = Applied(removeOwned(owners), remote)
        /\ \A j \in Ids \ {i} : fleet'[j] = fleet[j]
    BY <1>1, <1>3, BulkFacts
  <1>5. Spares
    <2> SUFFICES ASSUME Apart, NEW j \in Ids, fleet[j].registered
                 PROVE  /\ fleet'[j].registered
                        /\ \A a \in OtherKeys : fleet'[j].remote[a] = fleet[j].remote[a]
      BY DEF Spares
    <2> HIDE DEF owners, remote
    <2>1. \A a \in OtherKeys : Applied(removeOwned(owners), remote)[a] = remote[a]
      BY <1>2, <1>3 DEF Apart
    <2> QED BY <1>4, <2>1 DEF remote
  <1> QED BY <1>3, <1>4, <1>5

\* BulkUpdateCollectors in reconcileDelete.
LEMMA FinalUpdateStep ==
  ASSUME IInv, FinalUpdate
  PROVE  IInv' /\ Spares
  <1>1. pc = "finalUpdate" /\ pc # "idle" /\ OperatorOnly /\ plan' = plan
    BY DEF FinalUpdate
  <1>2. /\ WorldType /\ faults \in 0..MaxFaults /\ plan' = NoPlan
        /\ fleet \in [Ids -> {Unregistered} \cup FleetCollector]
        /\ cur \in Keys /\ Id[cur] \in Ids /\ mem \in Collector /\ Honest(mem.st)
    BY <1>1, WorkerFacts DEF IInv, FInv, Bounded, WorldType, Planned
  <1>3. CASE /\ \/ fleet[Id[cur]].registered /\ BulkEffect(Id[cur], removeOwned(mem.st.owners))
                \/ ~fleet[Id[cur]].registered /\ UNCHANGED fleet
             /\ Continue(mem) /\ pc' = "removeFinalizer" /\ NoFault /\ UNCHANGED retry
    <2>1. KInv'
      <3>1. retry' \in BOOLEAN
        BY <1>3 DEF IInv, KInv, WorkerType
      <3> QED BY <1>1, <1>2, <1>3, <3>1, ContinueKeeps DEF IInv
    <2>2. fleet' \in [Ids -> {Unregistered} \cup FleetCollector] /\ Spares
      BY <1>1, <1>2, <1>3, FinalSpares, StillSpares
    <2>3. WorldType' /\ Bounded'
      BY <1>1, <1>3, <2>2 DEF IInv, FInv, WorldType, Bounded, NoFault, OperatorOnly
    <2>4. Planned' /\ Recorded'
      BY <1>2, <1>3 DEF Planned, Recorded
    <2>5. Removed'
      <3>1. mem' = mem /\ cur' = cur
        BY <1>3 DEF Continue
      <3>2. Special = {} /\ fleet'[Id[cur]].registered =>
              \A a \in allOwnedKeys(mem.st.owners) : fleet'[Id[cur]].remote[a] = Absent
        BY <1>1, <1>3, FinalSpares
      <3> QED BY <3>1, <3>2 DEF Removed
    <2> QED BY <2>1, <2>2, <2>3, <2>4, <2>5 DEF IInv, FInv
  <1>4. ASSUME NEW code \in FleetFault, Fault(code), updateStatusError("DeleteFailed", code),
               \/ fleet[Id[cur]].registered /\ BulkEffect(Id[cur], removeOwned(mem.st.owners))
               \/ UNCHANGED fleet
        PROVE  IInv' /\ Spares
    <2>1. faults' \in 0..MaxFaults
      BY <1>2, <1>4, FaultType
    <2>2. "DeleteFailed" \in Reasons
      BY DEF Reasons
    <2>3. /\ KInv' /\ pc' \in {"updateStatus", "idle"}
          /\ pc' = "updateStatus" => mem'.st.ready = "False"
      BY <1>1, <1>4, <2>2, CodeFacts, ErrorKeeps
    <2>4. fleet' \in [Ids -> {Unregistered} \cup FleetCollector] /\ Spares
      BY <1>1, <1>2, <1>4, FinalSpares, StillSpares
    <2> QED BY <1>1, <1>2, <2>1, <2>3, <2>4, UnsuccessfulStep
  <1> QED BY <1>3, <1>4 DEF FinalUpdate


\* A write that ends the reconcile.
LEMMA WriteStep ==
  ASSUME IInv, pc \notin {"idle", "bulkUpdate"}, NEW o, NEW requeue \in BOOLEAN,
         NEW onError \in BOOLEAN, CollectorWrite(o, requeue, onError),
         fresh => /\ o \in HonestVersion
                  /\ (obj[cur].exists /\ obj[cur].fin /\ ~obj[cur].del) => (o.exists /\ o.fin)
  PROVE  /\ IInv' /\ fleet' = fleet
         /\ \A k \in Keys : obj'[k] = obj[k] \/ (k = cur /\ fresh /\ obj'[k] = o)
  <1>1. /\ KubeWrite(o, requeue, onError)
        /\ UNCHANGED <<syncs, policies, edits, crashes, fleet, plan>>
    BY DEF CollectorWrite, OperatorOnly
  <1>2. KInv' /\ faults' \in 0..MaxFaults
    BY <1>1, WriteKeeps DEF IInv
  <1>3. pc' = "idle" /\ cache' = cache
        /\ (UNCHANGED <<obj, watch>> \/ (fresh /\ Store(cur, o)))
    BY <1>1, KubeWriteSteps DEF IInv, Bounded
  <1>4. WorldType' /\ Bounded'
    BY <1>1, <1>2 DEF IInv, FInv, WorldType, Bounded
  <1>5. plan' = NoPlan
    BY <1>1 DEF IInv, FInv, Planned
  <1>6. FInv'
    BY <1>3, <1>4, <1>5, PlainKeep DEF Steps
  <1>7. CASE UNCHANGED <<obj, watch>>
    BY <1>1, <1>2, <1>4, <1>6, <1>7 DEF IInv
  <1>8. CASE fresh /\ Store(cur, o)
    <2>1. Typed(HonestVersion) /\ Copies /\ cur \in Keys /\ o \in HonestVersion
      BY <1>8 DEF IInv, KInv, WorkerType
    <2>2. obj'[cur] = o /\ \A j \in Keys \ {cur} : obj'[j] = obj[j]
      BY <1>3, <1>8, <2>1, StoreFacts
    <2> QED BY <1>1, <1>2, <1>4, <1>6, <1>8, <2>2 DEF IInv
  <1> QED BY <1>3, <1>7, <1>8

\* The finalizer is added on top of the version that was read.
LEMMA AddFinalizerStep ==
  ASSUME IInv, AddFinalizer
  PROVE  IInv' /\ fleet' = fleet /\ Harmless
  <1>1. pc = "addFinalizer" /\ CollectorWrite(mem, FALSE, TRUE)
    BY DEF AddFinalizer
  <1>2. mem \in Collector /\ Honest(mem.st) /\ mem.fin
    BY <1>1, WorkerFacts DEF IInv, KInv, Role
  <1>3. mem \in HonestVersion /\ mem.exists
    BY <1>2, VersionFacts
  <1>4. fresh => mem.st = obj[cur].st
    BY <1>1 DEF IInv, KInv, FreshCopy
  <1>5. /\ IInv' /\ fleet' = fleet
        /\ \A k \in Keys : obj'[k] = obj[k] \/ (k = cur /\ fresh /\ obj'[k] = mem)
    BY <1>1, <1>2, <1>3, WriteStep
  <1> QED BY <1>3, <1>4, <1>5 DEF Harmless

\* The object goes, on top of the version that was read.
LEMMA RemoveFinalizerStep ==
  ASSUME IInv, RemoveFinalizer
  PROVE  /\ IInv' /\ fleet' = fleet
         /\ \A k \in Keys : obj'[k] = obj[k] \/ (k = cur /\ fresh /\ obj'[k] = NoObject)
  <1>1. pc = "removeFinalizer" /\ CollectorWrite(NoObject, FALSE, TRUE)
    BY DEF RemoveFinalizer
  <1>2. fresh => NoObject \in HonestVersion /\ obj[cur].del
    BY <1>1, VersionFacts DEF IInv, KInv, FreshCopy, Role
  <1> QED BY <1>1, <1>2, WriteStep

\* The status is replaced in the version that was read.
LEMMA UpdateStatusStep ==
  ASSUME IInv, UpdateStatus
  PROVE  /\ IInv' /\ fleet' = fleet
         /\ \A k \in Keys : \/ obj'[k] = obj[k]
                            \/ /\ k = cur /\ fresh
                               /\ obj'[k].exists /\ obj'[k].st = mem.st
  <1> DEFINE c == obj[cur]
             st == mem.st
             o == [c EXCEPT !.st = st]
  <1>1. pc = "updateStatus" /\ CollectorWrite(o, retry, retry) /\ retry \in BOOLEAN
    BY DEF UpdateStatus, IInv, KInv, WorkerType
  <1>2. st \in Status /\ Honest(st)
    BY <1>1, WorkerFacts, FieldFacts
  <1>3. ASSUME fresh
        PROVE  c \in Collector
    BY <1>1, <1>3, WorkerFacts, VersionFacts DEF IInv, KInv, FreshCopy, Typed
  <1> HIDE DEF c, st
  <1>4. ASSUME fresh
        PROVE  o \in Collector /\ o.st = st /\ o.fin = c.fin
    BY <1>2, <1>3, <1>4, WithStatus
  <1> HIDE DEF o
  <1>5. ASSUME fresh
        PROVE  o \in HonestVersion /\ o.exists
    BY <1>2, <1>4, <1>5, VersionFacts
  <1>6. /\ IInv' /\ fleet' = fleet
        /\ \A k \in Keys : obj'[k] = obj[k] \/ (k = cur /\ fresh /\ obj'[k] = o)
    BY <1>1, <1>4, <1>5, WriteStep DEF c
  <1> QED BY <1>4, <1>5, <1>6 DEF st

-----------------------------------------------------------------------------
(* The operator process.                                                   *)

LEMMA InformStep ==
  ASSUME IInv, NEW k \in Keys, Inform(k)
  PROVE  IInv' /\ fleet' = fleet /\ obj' = obj
  <1>1. Deliver(k) /\ UNCHANGED <<pc, retry, faults, syncs, policies, fleet, plan, edits, crashes>>
    BY DEF Inform
  <1>2. UNCHANGED <<obj, cur, mem, fresh>>
    BY <1>1 DEF Deliver
  <1>3. KInv'
    BY <1>1, DeliverKeeps DEF IInv
  <1>4. WorldType' /\ Bounded'
    BY <1>1 DEF IInv, FInv, WorldType, Bounded
  <1>5. FInv'
    BY <1>1, <1>2, <1>4, StillGentle, OthersKeep DEF IInv
  <1> QED BY <1>1, <1>2, <1>3, <1>4, <1>5 DEF IInv

LEMMA RestartStep ==
  ASSUME IInv, Restart
  PROVE  IInv' /\ fleet' = fleet /\ obj' = obj
  <1>1. /\ KubeRestart /\ pc' = "idle" /\ retry' = FALSE /\ plan' = NoPlan
        /\ crashes < MaxCrashes /\ crashes' = crashes + 1
        /\ UNCHANGED <<faults, syncs, policies, fleet, edits>>
    BY DEF Restart
  <1>2. KInv'
    BY <1>1, RestartKeeps DEF IInv
  <1>3. Bounded'
    <2>1. crashes' \in 0..MaxCrashes
      BY <1>1, BoundsType, OneMore DEF IInv, Bounded
    <2> QED BY <1>1, <2>1 DEF IInv, Bounded
  <1>4. WorldType'
    BY <1>1 DEF IInv, FInv, WorldType
  <1>5. FInv'
    BY <1>1, <1>4, PlainKeep DEF Steps
  <1> QED BY <1>1, <1>2, <1>3, <1>5 DEF IInv, KubeRestart


LEMMA InitKeeps == Init => IInv
  <1> SUFFICES ASSUME Init
               PROVE  IInv
    OBVIOUS
  <1> DEFINE none == [k \in Keys |-> NoObject]
  <1>1. /\ obj = none /\ cache = none /\ watch = [k \in Keys |-> <<>>]
        /\ queue = {k \in Keys : none[k].exists}
        /\ cur = "" /\ mem = NoObject /\ fresh = FALSE
        /\ pc = "idle" /\ retry = FALSE /\ plan = NoPlan
        /\ edits = 0 /\ faults = 0 /\ crashes = 0
    BY DEF Init, KubeInit
  <1>2. none \in [Keys -> HonestVersion] /\ \A k \in Keys : none[k] = NoObject
    BY VersionFacts
  <1> HIDE DEF none
  <1>3. Typed(HonestVersion) /\ Copies
    <2>1. [k \in Keys |-> <<>>] \in [Keys -> Seq(HonestVersion)]
      BY EmptyFacts
    <2> QED BY <1>1, <1>2, <2>1 DEF Typed, Copies
  <1>4. Pinned
    <2>1. \A k \in Keys : Len(watch[k]) = 0 /\ cache[k] = NoObject
      BY <1>1, <1>2, EmptyFacts
    <2>2. ASSUME NEW k \in Keys
          PROVE  Readable(k) = {NoObject}
      <3>1. 1..Len(watch[k]) = {} /\ cache[k] = NoObject
        BY <2>1
      <3> QED BY <3>1 DEF Readable
    <2> QED BY <2>2, VersionFacts DEF Pinned
  <1>5. WorkerType /\ Role /\ FreshCopy
    BY <1>1 DEF WorkerType, Role, FinalizerBeforeFleet, FreshCopy, Steps
  <1>6. WorldType
    <2>1. NoAttrs \in AttrMap
      BY DEF NoAttrs, AttrMap
    <2>2. [registered : {TRUE}, local : Locals, remote : {NoAttrs}] \subseteq FleetCollector
      BY <2>1 DEF FleetCollector
    <2> QED BY <2>2 DEF Init, WorldType
  <1>7. Planned /\ Recorded /\ Removed
    BY <1>1 DEF Planned, Recorded, Removed
  <1>8. Bounded
    <2>1. 0 \in 0..MaxEdits /\ 0 \in 0..MaxFaults /\ 0 \in 0..MaxCrashes
      BY BoundsType
    <2> QED BY <1>1, <2>1 DEF Bounded
  <1> QED BY <1>3, <1>4, <1>5, <1>6, <1>7, <1>8 DEF IInv, KInv, FInv

LEMMA StutterKeeps ==
  ASSUME IInv, UNCHANGED vars
  PROVE  IInv'
  <1>1. UNCHANGED <<obj, watch, cache, queue, cur, mem, fresh, pc, retry, faults, syncs, policies,
                    fleet, plan, edits, crashes>>
    BY DEF vars, kubeVars
  <1>2. KInv'
    BY <1>1, EnqueueKeeps DEF IInv, KInv, WorkerType
  <1>3. WorldType' /\ Bounded'
    BY <1>1 DEF IInv, FInv, WorldType, Bounded
  <1>4. FInv'
    BY <1>1, <1>3, StillGentle, OthersKeep DEF IInv
  <1> QED BY <1>2, <1>3, <1>4 DEF IInv

\* The calls to Fleet leave the objects alone.
LEMMA CallsLeaveObjects ==
  ASSUME GetCollector \/ BulkUpdate \/ FinalUpdate
  PROVE  obj' = obj
  <1>1. \A st, again : WriteStatus(st, again) => obj' = obj
    BY DEF WriteStatus, Continue, JustReturn
  <1>2. \A code : handleAPIError(code) => obj' = obj
    BY <1>1 DEF handleAPIError, updateStatusError, RequeueAfter, JustReturn
  <1>3. \A o : Continue(o) => obj' = obj
    BY DEF Continue
  <1> QED BY <1>1, <1>2, <1>3 DEF GetCollector, BulkUpdate, FinalUpdate, updateStatusSuccess,
                                  updateStatusError

\* Every step keeps the invariant; the operator spares the keys of other clients; and
\* who changes an object, how and when.
LEMMA NextStep ==
  ASSUME IInv, Next
  PROVE  /\ IInv'
         /\ edits' = edits => Spares
         /\ \/ Harmless
            \/ /\ pc = "removeFinalizer"
               /\ \A k \in Keys : obj'[k] = obj[k] \/ (k = cur /\ fresh /\ obj'[k] = NoObject)
            \/ /\ pc = "updateStatus"
               /\ \A k \in Keys : \/ obj'[k] = obj[k]
                                  \/ k = cur /\ fresh /\ obj'[k].exists /\ obj'[k].st = mem.st
  <1>0. fleet' = fleet => Spares
    BY StillSpares DEF IInv, FInv
  <1>1. CASE User
    BY <1>1, UserStepKeeps
  <1>2. ASSUME NEW k \in Keys, Reconcile(k)
        PROVE  IInv' /\ Spares /\ Harmless
    <2>1. obj' = obj
      BY <1>2 DEF Reconcile, ReconcileNothing, ReconcileFinalizer, ReconcileNormal, ReconcileDelete,
                  Fetch, FetchAndReturn
    <2> QED BY <1>0, <1>2, <2>1, ReconcileStep, StillHarmless
  <1>3. ASSUME NEW k \in Keys, Inform(k)
        PROVE  IInv' /\ Spares /\ Harmless
    BY <1>0, <1>3, InformStep, StillHarmless
  <1>4. CASE GetCollector
    BY <1>0, <1>4, GetCollectorStep, CallsLeaveObjects, StillHarmless
  <1>5. CASE BulkUpdate
    BY <1>5, BulkUpdateStep, CallsLeaveObjects, StillHarmless
  <1>6. CASE FinalUpdate
    BY <1>6, FinalUpdateStep, CallsLeaveObjects, StillHarmless
  <1>7. CASE AddFinalizer
    BY <1>0, <1>7, AddFinalizerStep
  <1>8. CASE RemoveFinalizer
    BY <1>0, <1>8, RemoveFinalizerStep DEF RemoveFinalizer
  <1>9. CASE UpdateStatus
    BY <1>0, <1>9, UpdateStatusStep DEF UpdateStatus
  <1>10. CASE Restart
    BY <1>0, <1>10, RestartStep, StillHarmless
  <1> QED BY <1>1, <1>2, <1>3, <1>4, <1>5, <1>6, <1>7, <1>8, <1>9, <1>10 DEF Next, Worker

-----------------------------------------------------------------------------
(* The theorems.                                                           *)

\* The inductive invariant: the finalizer pins a Collector while it can be read, no
\* version records a key of another client, and what is about to be recorded or let go
\* of is what Fleet holds.
THEOREM Invariance == Spec => []IInv
  <1>1. IInv /\ [Next]_vars => IInv'
    BY NextStep, StutterKeeps
  <1> QED BY <1>1, InitKeeps, PTL DEF Spec

\* Every variable keeps its type; an idle worker holds no copy, and a plan is held
\* exactly while it waits to be sent.
THEOREM TypeCorrect == Spec => []TypeOK
  <1>1. IInv => TypeOK
    <2> SUFFICES ASSUME IInv
                 PROVE  TypeOK
      OBVIOUS
    <2>1. HonestVersion \subseteq Version
      BY VersionFacts
    <2>2. obj \in [Keys -> Version] /\ cache \in [Keys -> Version]
      BY <2>1 DEF IInv, KInv, Typed
    <2>3. watch \in [Keys -> Seq(Version)]
      <3>1. Seq(HonestVersion) \subseteq Seq(Version)
        BY <2>1
      <3> QED BY <3>1 DEF IInv, KInv, Typed
    <2>4. /\ queue \subseteq Keys /\ fresh \in BOOLEAN /\ pc \in Steps /\ retry \in BOOLEAN
          /\ \/ pc = "idle" /\ cur = "" /\ mem = NoObject
             \/ pc # "idle" /\ cur \in Keys /\ mem \in Collector
      BY DEF IInv, KInv, WorkerType
    <2>5. IF pc = "bulkUpdate" THEN plan.st \in Status ELSE plan = NoPlan
      BY DEF IInv, FInv, Planned
    <2> QED BY <2>2, <2>3, <2>4, <2>5 DEF IInv, FInv, WorldType, Bounded, TypeOK
  <1> QED BY <1>1, Invariance, PTL

\* The worker reads from and writes to a collector only for a Collector that is stored
\* with the finalizer, however stale its copy.
THEOREM FinalizerFirst == Spec => []FinalizerBeforeFleet
  <1>1. IInv => FinalizerBeforeFleet
    BY DEF IInv, KInv, Role
  <1> QED BY <1>1, Invariance, PTL

\* Where no unescaped path is read as that of a key of another client, and so wherever
\* Special is empty: no step of the operator changes a key of another client, whatever
\* has been recorded over any number of reconciles, lost answers and restarts.
THEOREM OthersKeepTheirKeys ==
  ASSUME \A s \in Special : Misread[s] \cap OtherKeys = {}
  PROVE  Spec => OthersUntouched
  <1>1. IInv /\ [Next]_vars =>
          (edits' = edits =>
            \A i \in Ids : fleet[i].registered =>
                /\ fleet'[i].registered
                /\ \A a \in OtherKeys : fleet'[i].remote[a] = fleet[i].remote[a])
    <2>1. IInv /\ Next => (edits' = edits => Spares)
      BY NextStep
    <2>2. UNCHANGED vars => fleet' = fleet
      BY DEF vars
    <2> QED BY <2>1, <2>2 DEF Spares, Apart
  <1> QED BY <1>1, Invariance, PTL DEF Spec, OthersUntouched

\* Where no key needs escaping: when the finalizer of a Collector goes, every key that
\* its status has recorded is gone from Fleet.
THEOREM DeletionCleansUp ==
  ASSUME Special = {}
  PROVE  Spec => RecordedIsCleanedUp
  <1>1. IInv /\ [Next]_vars =>
          \A k \in Keys :
            (obj[k].exists /\ obj[k].fin /\ ~obj'[k].exists /\ fleet[Id[k]].registered)
            => \A a \in allOwnedKeys(obj[k].st.owners) : fleet[Id[k]].remote[a] = Absent
    <2> SUFFICES ASSUME IInv, [Next]_vars, NEW k \in Keys, obj[k].exists, obj[k].fin,
                        ~obj'[k].exists, fleet[Id[k]].registered
                 PROVE  \A a \in allOwnedKeys(obj[k].st.owners) : fleet[Id[k]].remote[a] = Absent
      OBVIOUS
    <2>1. obj'[k] # obj[k]
      OBVIOUS
    <2>2. Next
      BY <2>1 DEF vars, kubeVars
    <2>3. pc = "removeFinalizer" /\ k = cur /\ fresh
      BY <2>1, <2>2, NextStep DEF Harmless
    <2>4. mem = obj[k]
      BY <2>3 DEF IInv, KInv, FreshCopy
    <2> QED BY <2>3, <2>4 DEF IInv, FInv, Removed
  <1> QED BY <1>1, Invariance, PTL DEF Spec, RecordedIsCleanedUp

\* Where collectors do not leave Fleet: when a status with Ready=True is stored, Fleet
\* holds every value it records and none of the keys it has stopped recording.
THEOREM StatusIsWritten ==
  ASSUME ~Deregisters
  PROVE  Spec => RecordedIsWritten
  <1>1. IInv /\ [Next]_vars =>
          \A k \in Keys :
            (obj[k].exists /\ obj'[k].exists /\ obj'[k].st # obj[k].st /\ obj'[k].st.ready = "True")
            => /\ fleet[Id[k]].registered
               /\ \A a \in allOwnedKeys(obj[k].st.owners) \cup allOwnedKeys(obj'[k].st.owners) :
                     fleet[Id[k]].remote[a] = obj'[k].st.owners[a].value
    <2> SUFFICES ASSUME IInv, [Next]_vars, NEW k \in Keys, obj[k].exists, obj'[k].exists,
                        obj'[k].st # obj[k].st, obj'[k].st.ready = "True"
                 PROVE  Holds(fleet[Id[k]], obj[k].st.owners, obj'[k].st.owners)
      BY DEF Holds
    <2>1. obj'[k] # obj[k]
      OBVIOUS
    <2>2. Next
      BY <2>1 DEF vars, kubeVars
    <2>3. pc = "updateStatus" /\ k = cur /\ fresh /\ obj'[k].st = mem.st
      BY <2>1, <2>2, NextStep, VersionFacts DEF Harmless
    <2> QED BY <2>3 DEF IInv, FInv, Recorded
  <1> QED BY <1>1, Invariance, PTL DEF Spec, RecordedIsWritten

================================================================================
