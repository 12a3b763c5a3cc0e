---------------------------- MODULE ExternalProofs ----------------------------
(***************************************************************************)
(* Proofs about ExternalSync, for any syncs, specs, answers, Collectors,   *)
(* faults and bounds: what status.ownedKeys says changes only as Handoff   *)
(* allows, and no change of a Collector is overlooked.                     *)
(***************************************************************************)
EXTENDS ExternalSync, AttributesProofs, ControllerProofs, FiniteSetTheorems, TLAPS

-----------------------------------------------------------------------------
(* What projectRecords returns.                                            *)

LEMMA MappedType ==
  ASSUME NEW r \in Record, NEW m \in Mapping
  PROVE  mappedAttrs(r, m) \in AttrMap
  <1> SUFFICES ASSUME NEW a \in Attrs
               PROVE  FieldString(r, m.fields[a]) \in Vals \cup {Absent}
    BY DEF mappedAttrs, AttrMap
  <1>1. m.fields[a] \in Fields \cup {""}
    BY DEF Mapping
  <1>2. CASE m.fields[a] = "" \/ r.fields[m.fields[a]] = Null
    BY <1>2 DEF FieldString
  <1>3. CASE m.fields[a] # "" /\ r.fields[m.fields[a]] # Null
    <2>1. r.fields[m.fields[a]] \in Vals \cup {Absent, Null}
      BY <1>1, <1>3 DEF Record
    <2> QED BY <1>3, <2>1 DEF FieldString
  <1> QED BY <1>2, <1>3

\* The records that count are finitely many.
LEMMA AppliedFinite ==
  ASSUME NEW records \in Seq(Record), NEW m, NEW matched
  PROVE  /\ appliedAt(records, m, matched) \subseteq 1..Len(records)
         /\ IsFiniteSet(appliedAt(records, m, matched))
         /\ recordsApplied(records, m, matched) \in Nat
         /\ appliedAt(records, m, matched) # {} => recordsApplied(records, m, matched) > 0
  <1> DEFINE at == appliedAt(records, m, matched)
  <1>1. at \subseteq 1..Len(records) /\ Len(records) \in Nat
    BY DEF appliedAt
  <1> HIDE DEF at
  <1>2. IsFiniteSet(1..Len(records))
    BY <1>1, FS_Interval
  <1>3. IsFiniteSet(at)
    BY <1>1, <1>2, FS_Subset
  <1>4. Cardinality(at) \in Nat /\ (Cardinality(at) = 0 <=> at = {})
    BY <1>3, FS_CardinalityType, FS_EmptySet
  <1>5. recordsApplied(records, m, matched) = Cardinality(at)
    BY DEF recordsApplied, at
  <1> QED BY <1>1, <1>3, <1>4, <1>5 DEF at

\* A claim is for the collector of some record that counts.
LEMMA ProjectedFrom ==
  ASSUME NEW records \in Seq(Record), NEW m \in Mapping, NEW matched, NEW i \in Ids
  PROVE  LET owned == projectRecords(records, m, matched)
             at == {n \in appliedAt(records, m, matched) : records[n].id = i}
         IN  /\ at = {} => owned[i] = None
             /\ at # {} => \E attrs \in AttrMap : owned[i] = Entry(attrs)
  <1> DEFINE at == {n \in appliedAt(records, m, matched) : records[n].id = i}
             last == CHOOSE n \in at : \A o \in at : o <= n
  <1>1. projectRecords(records, m, matched)[i]
          = IF at = {} THEN None ELSE Entry(mappedAttrs(records[last], m))
    BY DEF projectRecords
  <1>2. at # {} => last \in at
    <2>1. at \subseteq 1..Len(records) /\ Len(records) \in Nat
      BY AppliedFinite
    <2> HIDE DEF at
    <2>2. at # {} => \E n \in at : \A o \in at : o <= n
      BY <2>1, Largest
    <2> QED BY <2>2
  <1>3. at # {} => records[last] \in Record
    <2>1. at \subseteq 1..Len(records)
      BY AppliedFinite
    <2>2. \A n \in 1..Len(records) : records[n] \in Record
      OBVIOUS
    <2> HIDE DEF at, last
    <2> QED BY <1>2, <2>1, <2>2
  <1> HIDE DEF at, last
  <1>4. at # {} => mappedAttrs(records[last], m) \in AttrMap
    BY <1>3, MappedType
  <1>5. /\ at = {} => projectRecords(records, m, matched)[i] = None
        /\ at # {} => \E attrs \in AttrMap : projectRecords(records, m, matched)[i] = Entry(attrs)
    BY <1>1, <1>4
  <1> QED BY <1>5 DEF at

LEMMA ProjectedType ==
  ASSUME NEW records \in Seq(Record), NEW m \in Mapping, NEW matched
  PROVE  projectRecords(records, m, matched) \in Ownership
  <1> DEFINE owned == projectRecords(records, m, matched)
  <1>1. \A i \in Ids : owned[i] \in {None} \cup {Entry(attrs) : attrs \in AttrMap}
    BY ProjectedFrom
  <1>2. owned = [i \in Ids |-> owned[i]]
    BY DEF projectRecords
  <1> HIDE DEF owned
  <1>3. owned \in Ownership
    BY <1>1, <1>2 DEF Ownership
  <1> QED BY <1>3 DEF owned

\* Claims are for matched collectors; there are none unless a record counts; and
\* they can be counted.
LEMMA ProjectedClaims ==
  ASSUME NEW records \in Seq(Record), NEW m \in Mapping, NEW matched \in SUBSET Ids
  PROVE  LET owned == projectRecords(records, m, matched)
         IN  /\ Claimed(owned) \subseteq matched
             /\ owned # NoClaims => recordsApplied(records, m, matched) > 0
             /\ Cardinality(Claimed(owned)) \in Nat
  <1> DEFINE owned == projectRecords(records, m, matched)
             at == appliedAt(records, m, matched)
             idOf == [n \in at |-> records[n].id]
  <1>1. \A i \in Ids :
          /\ {n \in at : records[n].id = i} = {} => owned[i] = None
          /\ {n \in at : records[n].id = i} # {} => owned[i].entry
    <2> TAKE i \in Ids
    <2>1. /\ {n \in at : records[n].id = i} = {} => owned[i] = None
          /\ {n \in at : records[n].id = i} # {} => \E attrs \in AttrMap : owned[i] = Entry(attrs)
      BY ProjectedFrom
    <2> HIDE DEF owned, at
    <2>2. \A attrs \in AttrMap : Entry(attrs).entry
      BY DEF Entry
    <2> QED BY <2>1, <2>2
  <1>2. \A n \in at : records[n].id \in matched
    BY DEF appliedAt, applies
  <1>3. owned = [i \in Ids |-> owned[i]]
    BY DEF projectRecords
  <1>4. at # {} => recordsApplied(records, m, matched) > 0
    BY AppliedFinite
  <1>5. IsFiniteSet(at)
    BY AppliedFinite
  <1> HIDE DEF owned, at
  <1>6. Claimed(owned) = {i \in Ids : \E n \in at : records[n].id = i}
    <2>1. ~None.entry
      BY DEF None
    <2> QED BY <1>1, <2>1 DEF Claimed
  <1>7. Claimed(owned) \subseteq matched
    BY <1>2, <1>6
  <1>8. at = {} => owned = NoClaims
    BY <1>1, <1>3 DEF NoClaims
  <1>9. idOf \in Surjection(at, Claimed(owned))
    BY <1>2, <1>6 DEF Surjection
  <1>10. IsFiniteSet(Claimed(owned))
    <2> HIDE DEF idOf
    <2> QED BY <1>5, <1>9, FS_Surjection
  <1>11. Cardinality(Claimed(owned)) \in Nat
    BY <1>10, FS_CardinalityType
  <1> QED BY <1>4, <1>7, <1>8, <1>11 DEF owned

LEMMA NothingClaimed ==
  NoClaims \in Ownership /\ Claimed(NoClaims) = {} /\ Cardinality(Claimed(NoClaims)) = 0
  <1>1. NoClaims \in Ownership
    BY DEF NoClaims, Ownership
  <1>2. Claimed(NoClaims) = {}
    BY DEF NoClaims, Claimed, None
  <1> QED BY <1>1, <1>2, FS_EmptySet

LEMMA CapType == MaxOwned \in Nat
  BY ClaimsAssumption

LEMMA NothingBounded == Cardinality(Claimed(NoClaims)) <= MaxOwned
  BY CapType, NothingClaimed

-----------------------------------------------------------------------------
(* The first invariant: what a copy of a sync has to do with the stored    *)
(* one, and which status the worker may be about to write.                 *)

\* Claims are within the cap, and there are none unless a record applied.
Bounded(st) ==
  /\ Cardinality(Claimed(st.owned)) <= MaxOwned
  /\ st.owned # NoClaims => st.applied > 0

HonestVersion == {o \in Version : o.exists => Bounded(o.st)}

\* The statuses a reconcile of sync o may come to.
Failed(o, st) == \E reason \in Reasons, t \in BOOLEAN : st = ErrorStatus(o, reason, t)

Stalled(o, st) == ~o.spec.allowEmpty /\ \E t \in BOOLEAN : st = StalledStatus(o, t)

Exceeded(o, st) ==
  \E records \in Answers, matched \in SUBSET Ids :
    /\ ownedKeysExceeded(projectRecords(records, o.spec.mapping, matched))
    /\ st = ExceededStatus(o, Len(records), recordsApplied(records, o.spec.mapping, matched))

Projected(o, st) ==
  \E records \in Answers, matched \in SUBSET Ids :
    LET new == projectRecords(records, o.spec.mapping, matched) IN
    /\ records # <<>> \/ o.spec.allowEmpty \/ o.st.owned = NoClaims
    /\ ~ownedKeysExceeded(new)
    /\ st = SyncedStatus(o, Len(records), recordsApplied(records, o.spec.mapping, matched), new)

Outcome(o, st) == Failed(o, st) \/ Stalled(o, st) \/ Exceeded(o, st) \/ Projected(o, st)

\* A copy with the stored resourceVersion is the stored sync, and a status that is
\* about to be written follows from it.
Held ==
  fresh =>
    /\ pc \in {"fetch", "project"} => mem = obj[cur]
    /\ pc = "updateStatus" => /\ obj[cur].exists /\ mem.spec = obj[cur].spec
                              /\ Outcome(obj[cur], mem.st)

\* The worker holds a copy of the sync it reconciles, and an idle one none.
WorkerType ==
  /\ queue \subseteq Keys /\ timer \subseteq Keys
  /\ fresh \in BOOLEAN /\ retry \in BOOLEAN
  /\ pc \in Steps
  /\ \/ pc = "idle" /\ cur = "" /\ mem = NoObject
     \/ pc # "idle" /\ cur \in Keys /\ mem \in Sync

\* Collectors, Secret and source, and the answer the worker holds.
WorldType ==
  /\ collectors \in [Ids -> {NoCollector} \cup Collectors]
  /\ secret \in {"bad", "ok"}
  /\ source \in Answers /\ answer \in Answers
  /\ pc # "project" => answer = <<>>

CountType == edits \in 0..MaxEdits /\ faults \in 0..MaxFaults

CInv == Typed(HonestVersion) /\ Copies /\ Held /\ WorkerType /\ WorldType /\ CountType

-----------------------------------------------------------------------------
(* What the operators of the reconciler return.                            *)

LEMMA VersionType ==
  ASSUME NEW o \in Version
  PROVE  o.exists <=> o \in Sync
  <1>1. o \in Sync => o.exists
    BY DEF Sync
  <1>2. o = NoObject => ~o.exists
    BY DEF NoObject
  <1> QED BY <1>1, <1>2 DEF Version

\* What is known of a sync that is stored or cached.
LEMMA HonestType ==
  ASSUME NEW o \in HonestVersion
  PROVE  /\ o \in Version
         /\ o.exists <=> o \in Sync
         /\ o.exists => Bounded(o.st)
         /\ ~o.exists => o = NoObject
  <1>1. o \in Version
    BY DEF HonestVersion
  <1> QED BY <1>1, VersionType DEF HonestVersion, Version

LEMMA SpecType ==
  ASSUME NEW o \in Sync
  PROVE  /\ o.spec \in Specs /\ o.spec.mapping \in Mapping /\ o.spec.allowEmpty \in BOOLEAN
         /\ o.gen \in Nat /\ o.st \in Status
  <1>1. o.spec \in Specs /\ o.gen \in Nat /\ o.st \in Status
    BY DEF Sync
  <1> QED BY <1>1, ExternalSyncAssumption

LEMMA StatusParts ==
  ASSUME NEW st \in Status
  PROVE  /\ st.og \in Nat /\ st.seen \in Nat /\ st.applied \in Nat /\ st.owned \in Ownership
         /\ st.truncated \in Condition /\ st.stalled \in Condition /\ st.ready \in Condition
         /\ st.reason \in Reasons /\ st.time \in BOOLEAN
  BY DEF Status

LEMMA ErrorStatusFacts ==
  ASSUME NEW o \in Sync, NEW reason \in Reasons, NEW t \in BOOLEAN
  PROVE  LET st == ErrorStatus(o, reason, t)
         IN  /\ st \in Status
             /\ st.owned = o.st.owned /\ st.applied = o.st.applied
             /\ st.seen = o.st.seen /\ st.truncated = o.st.truncated
             /\ st.ready = "False"
  <1>1. o.st \in Status /\ o.gen \in Nat
    BY SpecType
  <1> QED BY <1>1 DEF ErrorStatus, Status, Condition

LEMMA StalledStatusFacts ==
  ASSUME NEW o \in Sync, NEW t \in BOOLEAN
  PROVE  LET st == StalledStatus(o, t)
         IN  /\ st \in Status
             /\ st.owned = o.st.owned /\ st.applied = o.st.applied
             /\ st.seen = 0 /\ st.truncated = o.st.truncated
             /\ st.ready = "False"
  <1>1. o.st \in Status /\ o.gen \in Nat
    BY SpecType
  <1> QED BY <1>1 DEF StalledStatus, Status, Condition, Reasons

LEMMA ExceededStatusFacts ==
  ASSUME NEW o \in Sync, NEW seen \in Nat, NEW applied \in Nat
  PROVE  LET st == ExceededStatus(o, seen, applied)
         IN  /\ st \in Status
             /\ st.owned = NoClaims /\ st.applied = applied
             /\ st.seen = seen /\ st.truncated = "True"
             /\ st.ready = "False"
  <1>1. o.st \in Status /\ o.gen \in Nat
    BY SpecType
  <1>2. NoClaims \in Ownership
    BY NothingClaimed
  <1> QED BY <1>1, <1>2 DEF ExceededStatus, Status, Condition, Reasons

LEMMA SyncedStatusFacts ==
  ASSUME NEW o \in Sync, NEW seen \in Nat, NEW applied \in Nat, NEW owned \in Ownership
  PROVE  LET st == SyncedStatus(o, seen, applied, owned)
         IN  /\ st \in Status
             /\ st.owned = owned /\ st.applied = applied
             /\ st.seen = seen /\ st.truncated = "False"
             /\ st.ready = "True"
  <1>1. o.st \in Status /\ o.gen \in Nat
    BY SpecType
  <1> QED BY <1>1 DEF SyncedStatus, Status, Condition, Reasons

\* A sync with another status.
LEMMA GraftType ==
  ASSUME NEW o \in Sync, NEW st \in Status
  PROVE  /\ [o EXCEPT !.st = st] \in Sync
         /\ [o EXCEPT !.st = st].exists
         /\ [o EXCEPT !.st = st].spec = o.spec
         /\ [o EXCEPT !.st = st].gen = o.gen
         /\ [o EXCEPT !.st = st].st = st
  BY DEF Sync

LEMMA AnswerType ==
  ASSUME NEW records \in Answers
  PROVE  records \in Seq(Record) /\ Len(records) \in Nat
  <1>1. Answers \subseteq Seq(Record)
    BY ExternalSyncAssumption
  <1>2. records \in Seq(Record)
    BY <1>1
  <1> QED BY <1>2

\* What a reconcile comes to is a status with claims within the cap.
LEMMA OutcomeType ==
  ASSUME NEW o \in Sync, Bounded(o.st), NEW st, Outcome(o, st)
  PROVE  st \in Status /\ Bounded(st)
  <1>1. CASE Failed(o, st)
    <2>1. PICK reason \in Reasons, t \in BOOLEAN : st = ErrorStatus(o, reason, t)
      BY <1>1 DEF Failed
    <2>2. st \in Status /\ st.owned = o.st.owned /\ st.applied = o.st.applied
      BY <2>1, ErrorStatusFacts
    <2> QED BY <2>2 DEF Bounded
  <1>2. CASE Stalled(o, st)
    <2>1. PICK t \in BOOLEAN : st = StalledStatus(o, t)
      BY <1>2 DEF Stalled
    <2>2. st \in Status /\ st.owned = o.st.owned /\ st.applied = o.st.applied
      BY <2>1, StalledStatusFacts
    <2> QED BY <2>2 DEF Bounded
  <1>3. CASE Exceeded(o, st)
    <2>1. PICK records \in Answers, matched \in SUBSET Ids :
            st = ExceededStatus(o, Len(records), recordsApplied(records, o.spec.mapping, matched))
      BY <1>3 DEF Exceeded
    <2>2. Len(records) \in Nat /\ recordsApplied(records, o.spec.mapping, matched) \in Nat
      BY AnswerType, AppliedFinite
    <2>3. st \in Status /\ st.owned = NoClaims
      BY <2>1, <2>2, ExceededStatusFacts
    <2>4. Cardinality(Claimed(st.owned)) <= MaxOwned
      BY <2>3, NothingBounded
    <2> QED BY <2>3, <2>4 DEF Bounded
  <1>4. CASE Projected(o, st)
    <2>1. PICK records \in Answers, matched \in SUBSET Ids :
            /\ ~ownedKeysExceeded(projectRecords(records, o.spec.mapping, matched))
            /\ st = SyncedStatus(o, Len(records), recordsApplied(records, o.spec.mapping, matched),
                                 projectRecords(records, o.spec.mapping, matched))
      BY <1>4 DEF Projected
    <2> DEFINE new == projectRecords(records, o.spec.mapping, matched)
               applied == recordsApplied(records, o.spec.mapping, matched)
    <2>2. records \in Seq(Record) /\ Len(records) \in Nat /\ o.spec.mapping \in Mapping
      BY AnswerType, SpecType
    <2>3. applied \in Nat
      BY <2>2, AppliedFinite
    <2>4. new \in Ownership
      BY <2>2, ProjectedType
    <2>5. /\ new # NoClaims => applied > 0
          /\ Cardinality(Claimed(new)) \in Nat
      BY <2>2, ProjectedClaims
    <2>6. ~(Cardinality(Claimed(new)) > MaxOwned)
      BY <2>1 DEF ownedKeysExceeded
    <2>7. st = SyncedStatus(o, Len(records), applied, new)
      BY <2>1
    <2> HIDE DEF new, applied
    <2>8. st \in Status /\ st.owned = new /\ st.applied = applied
      BY <2>2, <2>3, <2>4, <2>7, SyncedStatusFacts
    <2>9. Cardinality(Claimed(new)) <= MaxOwned
      BY <2>5, <2>6, CapType
    <2> QED BY <2>5, <2>8, <2>9 DEF Bounded
  <1> QED BY <1>1, <1>2, <1>3, <1>4 DEF Outcome

LEMMA NewSyncType ==
  ASSUME NEW s \in Specs
  PROVE  NewSync(s) \in Sync /\ NewSync(s) \in HonestVersion
  <1>1. NewStatus \in Status
    BY NothingClaimed DEF NewStatus, Status, Condition, Reasons
  <1>2. NewSync(s) \in Sync /\ NewSync(s).st = NewStatus
    BY <1>1 DEF NewSync, Sync
  <1>3. NewStatus.owned = NoClaims
    BY DEF NewStatus
  <1>4. Bounded(NewStatus)
    BY <1>3, NothingBounded DEF Bounded
  <1> QED BY <1>2, <1>4 DEF HonestVersion, Version

LEMMA EditedType ==
  ASSUME NEW o \in Sync, Bounded(o.st), NEW s \in Specs
  PROVE  /\ [o EXCEPT !.spec = s, !.gen = @ + 1] \in HonestVersion
         /\ [o EXCEPT !.spec = s, !.gen = @ + 1].exists
         /\ [o EXCEPT !.spec = s, !.gen = @ + 1].spec = s
         /\ [o EXCEPT !.spec = s, !.gen = @ + 1].st = o.st
  <1> DEFINE e == [o EXCEPT !.spec = s, !.gen = @ + 1]
  <1>1. o.gen + 1 \in Nat
    BY SpecType
  <1>2. e \in Sync /\ e.exists /\ e.spec = s /\ e.st = o.st
    BY <1>1 DEF Sync
  <1> HIDE DEF e
  <1>3. e \in HonestVersion
    BY <1>2 DEF HonestVersion, Version
  <1> QED BY <1>2, <1>3 DEF e

LEMMA GoneType == NoObject \in HonestVersion
  BY DEF HonestVersion, Version, NoObject

LEMMA BoundsType == MaxEdits \in Nat /\ MaxFaults \in Nat
  BY ExternalSyncAssumption, FaultsAssumption


-----------------------------------------------------------------------------
(* The first invariant is inductive.                                       *)

LEMMA CInit == Init => CInv
  <1> SUFFICES ASSUME Init PROVE CInv
    OBVIOUS
  <1>1. PICK stored \in [Keys -> {NoObject} \cup {NewSync(s) : s \in Specs}] : KubeInit(stored)
    BY DEF Init
  <1>2. stored \in [Keys -> HonestVersion]
    BY NewSyncType, GoneType
  <1>3. Typed(HonestVersion) /\ Copies
    <2>1. [k \in Keys |-> <<>>] \in [Keys -> Seq(HonestVersion)]
      BY EmptyFacts
    <2> QED BY <1>1, <1>2, <2>1 DEF KubeInit, Typed, Copies
  <1>4. Held /\ WorkerType
    BY <1>1 DEF KubeInit, Init, Held, WorkerType, Steps
  <1>5. WorldType
    <2>1. source \in Answers /\ answer = <<>> /\ <<>> \in Answers
      BY ExternalSyncAssumption DEF Init
    <2>2. collectors \in [Ids -> {NoCollector} \cup Collectors]
      BY DEF Init
    <2> QED BY <2>1, <2>2 DEF Init, WorldType
  <1>6. CountType
    BY BoundsType DEF Init, CountType
  <1> QED BY <1>3, <1>4, <1>5, <1>6 DEF CInv

\* What the worker holds stays right as long as it is not disturbed.
LEMMA HeldStays ==
  ASSUME Held, UNCHANGED <<pc, mem, cur>>, fresh' => fresh /\ obj'[cur] = obj[cur]
  PROVE  Held'
  BY DEF Held

LEMMA EditCounts ==
  ASSUME CountType, Edit, UNCHANGED faults
  PROVE  CountType'
  <1>1. edits \in 0..MaxEdits /\ edits < MaxEdits /\ edits' = edits + 1
    BY DEF Edit, CountType
  <1>2. edits' \in 0..MaxEdits
    BY <1>1, BoundsType, OneMore
  <1> QED BY <1>2 DEF CountType

\* A user's write.
LEMMA UserWriteKeeps ==
  ASSUME CInv, NEW k \in Keys, NEW o \in HonestVersion, UserWrite(k, o),
         Edit, NotOperator, UNCHANGED world
  PROVE  CInv'
  <1> USE DEF CInv
  <1>0. /\ Store(k, o)
        /\ UNCHANGED <<cache, queue, cur, mem, pc, retry, faults, timer, answer,
                       collectors, secret, source>>
    BY DEF UserWrite, NotOperator, world
  <1>1. /\ Typed(HonestVersion)' /\ Copies'
        /\ \A j \in Keys \ {k} : obj'[j] = obj[j]
    BY <1>0, StoreFacts
  <1>2. fresh' = (fresh /\ cur # k)
    BY DEF UserWrite
  <1>3. Held'
    <2>1. CASE pc = "idle"
      BY <1>0, <2>1 DEF Held
    <2>2. CASE pc # "idle"
      <3>1. cur \in Keys
        BY <2>2 DEF WorkerType
      <3>2. fresh' => fresh /\ obj'[cur] = obj[cur]
        BY <1>1, <1>2, <3>1
      <3> QED BY <1>0, <3>2, HeldStays
    <2> QED BY <2>1, <2>2
  <1>4. WorkerType' /\ WorldType'
    BY <1>0, <1>2 DEF WorkerType, WorldType
  <1>5. CountType'
    BY <1>0, EditCounts
  <1> QED BY <1>1, <1>3, <1>4, <1>5

\* A change outside the API server: no object moves, and requests may be added.
LEMMA WorldKeeps ==
  ASSUME CInv, UNCHANGED <<obj, watch, cache, cur, mem, fresh, pc, retry, timer, answer>>,
         queue' \subseteq Keys, WorldType', CountType'
  PROVE  CInv'
  <1>1. Typed(HonestVersion)' /\ Copies'
    BY DEF CInv, Typed, Copies
  <1>2. Held'
    BY DEF CInv, Held
  <1>3. WorkerType'
    BY DEF CInv, WorkerType
  <1> QED BY <1>1, <1>2, <1>3 DEF CInv

LEMMA UserKeeps ==
  ASSUME CInv, User
  PROVE  CInv'
  <1>0. /\ obj \in [Keys -> HonestVersion] /\ WorldType /\ CountType
        /\ queue \subseteq Keys
    BY DEF CInv, Typed, WorkerType
  <1>1. ASSUME NEW k \in Keys, NEW s \in Specs, CreateSync(k, s)
        PROVE  CInv'
    BY <1>1, NewSyncType, UserWriteKeeps DEF CreateSync
  <1>2. ASSUME NEW k \in Keys, NEW s \in Specs, EditSpec(k, s)
        PROVE  CInv'
    <2>1. obj[k] \in Sync /\ Bounded(obj[k].st)
      BY <1>0, <1>2, HonestType DEF EditSpec
    <2>2. [obj[k] EXCEPT !.spec = s, !.gen = @ + 1] \in HonestVersion
      BY <2>1, EditedType
    <2> QED BY <1>2, <2>2, UserWriteKeeps DEF EditSpec
  <1>3. ASSUME NEW k \in Keys, DeleteSync(k)
        PROVE  CInv'
    BY <1>3, GoneType, UserWriteKeeps DEF DeleteSync
  <1>4. ASSUME NEW records \in Answers, ChangeSource(records)
        PROVE  CInv'
    <2>1. /\ UNCHANGED <<obj, watch, cache, queue, cur, mem, fresh, pc, retry, faults, timer,
                         answer, collectors, secret>>
          /\ source' = records /\ Edit
      BY <1>4 DEF ChangeSource, NotOperator, kubeVars
    <2>2. WorldType' /\ CountType'
      BY <1>0, <2>1, EditCounts DEF WorldType
    <2> QED BY <1>0, <2>1, <2>2, WorldKeeps
  <1>5. ASSUME NEW new \in {"bad", "ok"}, ChangeSecret(new)
        PROVE  CInv'
    <2>1. /\ UNCHANGED <<obj, watch, cache, cur, mem, fresh, pc, retry, faults, timer,
                         answer, collectors, source>>
          /\ secret' = new /\ Edit /\ queue' = queue \cup syncsReferencingSecret
      BY <1>5 DEF ChangeSecret, NotOperator, Enqueue
    <2>2. queue' \subseteq Keys
      BY <1>0, <2>1 DEF syncsReferencingSecret
    <2>3. WorldType' /\ CountType'
      BY <1>0, <2>1, EditCounts DEF WorldType
    <2> QED BY <2>1, <2>2, <2>3, WorldKeeps
  <1>6. ASSUME NEW i \in Ids, NEW new \in {NoCollector} \cup Collectors, ChangeCollector(i, new)
        PROVE  CInv'
    <2>1. /\ UNCHANGED <<obj, watch, cache, cur, mem, fresh, pc, retry, faults, timer,
                         answer, secret, source>>
          /\ collectors' = [collectors EXCEPT ![i] = new] /\ Edit
          /\ queue' = queue \cup mapCollectorToAffectedSyncs(collectors[i])
                            \cup mapCollectorToAffectedSyncs(new)
      BY <1>6 DEF ChangeCollector, NotOperator, Enqueue
    <2>2. queue' \subseteq Keys
      BY <1>0, <2>1 DEF mapCollectorToAffectedSyncs
    <2>3. WorldType' /\ CountType'
      BY <1>0, <2>1, EditCounts DEF WorldType
    <2> QED BY <2>1, <2>2, <2>3, WorldKeeps
  <1> QED BY <1>1, <1>2, <1>3, <1>4, <1>5, <1>6 DEF User

LEMMA InformKeeps ==
  ASSUME CInv, NEW k \in Keys, Inform(k)
  PROVE  CInv'
  <1>1. /\ Typed(HonestVersion)' /\ Copies' /\ queue' = queue \cup {k}
        /\ UNCHANGED <<obj, cur, mem, fresh, pc, retry, faults, timer, collectors, secret,
                       source, answer, edits>>
    BY DeliverFacts DEF Inform, CInv, world
  <1>2. Held'
    BY <1>1 DEF CInv, Held
  <1>3. WorkerType' /\ WorldType' /\ CountType'
    BY <1>1 DEF CInv, WorkerType, WorldType, CountType
  <1> QED BY <1>1, <1>2, <1>3 DEF CInv

LEMMA ScheduledRunKeeps ==
  ASSUME CInv, NEW k \in Keys, ScheduledRun(k)
  PROVE  CInv'
  <1>1. /\ UNCHANGED <<obj, watch, cache, cur, mem, fresh, pc, retry, faults, collectors, secret,
                       source, answer, edits>>
        /\ queue' = queue \cup {k} /\ timer' \subseteq timer
    BY DEF ScheduledRun, Enqueue, world
  <1>2. Typed(HonestVersion)' /\ Copies'
    BY <1>1 DEF CInv, Typed, Copies
  <1>3. Held'
    BY <1>1 DEF CInv, Held
  <1>4. WorkerType' /\ WorldType' /\ CountType'
    BY <1>1 DEF CInv, WorkerType, WorldType, CountType
  <1> QED BY <1>2, <1>3, <1>4 DEF CInv

LEMMA RestartKeeps ==
  ASSUME CInv, Restart
  PROVE  CInv'
  <1>1. faults \in 0..MaxFaults /\ faults < MaxFaults /\ faults' = faults + 1
    BY DEF Restart, CInv, CountType
  <1>2. CountType'
    <2>1. faults' \in 0..MaxFaults
      BY <1>1, BoundsType, OneMore
    <2> QED BY <2>1 DEF Restart, CInv, CountType
  <1>3. Typed(HonestVersion)' /\ Copies'
    BY ListedFacts DEF Restart, KubeRestart, CInv, Typed
  <1>4. Held' /\ WorkerType'
    BY DEF Restart, KubeRestart, Held, WorkerType, Steps
  <1>5. WorldType'
    <2>1. <<>> \in Answers
      BY ExternalSyncAssumption
    <2> QED BY <2>1 DEF Restart, world, CInv, WorldType
  <1> QED BY <1>2, <1>3, <1>4, <1>5 DEF CInv


\* A request is taken off the queue; the copy is the cached version, or has an error
\* status made from it.
LEMMA ReconcileSteps ==
  ASSUME CInv, NEW k \in Keys, Reconcile(k)
  PROVE  /\ cur = "" /\ pc = "idle" /\ k \in queue /\ queue' = queue \ {k}
         /\ UNCHANGED <<obj, watch, cache, timer, collectors, secret, source, answer,
                        edits, faults>>
         /\ \/ ~cache[k].exists /\ UNCHANGED <<cur, mem, fresh, pc, retry>>
            \/ /\ cache[k] \in Sync /\ cur' = k /\ fresh' = (watch[k] = <<>>)
               /\ \/ pc' = "fetch" /\ mem' = cache[k] /\ retry' = retry
                  \/ /\ pc' = "updateStatus" /\ retry' = TRUE
                     /\ \E reason \in Reasons, t \in BOOLEAN :
                          mem' = [cache[k] EXCEPT !.st = ErrorStatus(cache[k], reason, t)]
  <1>1. cache[k] \in HonestVersion
    BY DEF CInv, Typed
  <1>2. cur = "" => pc = "idle"
    BY KeysAssumption DEF CInv, WorkerType
  <1>3. cache[k].exists => cache[k] \in Sync
    BY <1>1, HonestType
  <1>4. CASE ReconcileNothing(k)
    BY <1>2, <1>4 DEF ReconcileNothing, FetchAndReturn, NoFault, OperatorOnly, world
  <1>5. CASE ReconcileFetch(k)
    BY <1>2, <1>3, <1>5 DEF ReconcileFetch, Fetch, NoFault, OperatorOnly, world
  <1>6. CASE ReconcileError(k)
    <2>1. PICK reason \in {"InvalidSchedule", "SourceFailed"}, t \in BOOLEAN :
            Fetch(k, [cache[k] EXCEPT !.st = ErrorStatus(cache[k], reason, t)])
      BY <1>6 DEF ReconcileError
    <2>2. reason \in Reasons
      BY DEF Reasons
    <2>3. /\ cur = "" /\ k \in queue /\ queue' = queue \ {k} /\ cur' = k
          /\ mem' = [cache[k] EXCEPT !.st = ErrorStatus(cache[k], reason, t)]
          /\ fresh' = (watch[k] = <<>>) /\ UNCHANGED <<obj, watch, cache>>
      BY <2>1 DEF Fetch
    <2>4. /\ cache[k].exists /\ pc' = "updateStatus" /\ retry' = TRUE
          /\ UNCHANGED <<timer, collectors, secret, source, answer, edits, faults>>
      BY <1>6 DEF ReconcileError, NoFault, OperatorOnly, world
    <2> QED BY <1>2, <1>3, <2>2, <2>3, <2>4
  <1> QED BY <1>4, <1>5, <1>6 DEF Reconcile

LEMMA ReconcileKeeps ==
  ASSUME CInv, NEW k \in Keys, Reconcile(k)
  PROVE  CInv'
  <1>1. /\ cur = "" /\ pc = "idle" /\ queue' = queue \ {k}
        /\ UNCHANGED <<obj, watch, cache, timer, collectors, secret, source, answer,
                       edits, faults>>
    BY ReconcileSteps
  <1>2. Typed(HonestVersion)' /\ Copies'
    BY <1>1 DEF CInv, Typed, Copies
  <1>3. CountType'
    BY <1>1 DEF CInv, CountType
  <1>4. CASE UNCHANGED <<cur, mem, fresh, pc, retry>>
    <2>1. Held' /\ WorkerType' /\ WorldType'
      BY <1>1, <1>4 DEF CInv, Held, WorkerType, WorldType
    <2> QED BY <1>2, <1>3, <2>1 DEF CInv
  <1>5. CASE /\ cache[k] \in Sync /\ cur' = k /\ fresh' = (watch[k] = <<>>)
             /\ pc' = "fetch" /\ mem' = cache[k] /\ retry' = retry
    <2>1. Held'
      BY <1>1, <1>5 DEF CInv, Copies, Held
    <2>2. WorkerType' /\ WorldType'
      BY <1>1, <1>5 DEF CInv, WorkerType, WorldType, Steps
    <2> QED BY <1>2, <1>3, <2>1, <2>2 DEF CInv
  <1>6. CASE /\ cache[k] \in Sync /\ cur' = k /\ fresh' = (watch[k] = <<>>)
             /\ pc' = "updateStatus" /\ retry' = TRUE
             /\ \E reason \in Reasons, t \in BOOLEAN :
                  mem' = [cache[k] EXCEPT !.st = ErrorStatus(cache[k], reason, t)]
    <2>1. PICK reason \in Reasons, t \in BOOLEAN :
            mem' = [cache[k] EXCEPT !.st = ErrorStatus(cache[k], reason, t)]
      BY <1>6
    <2>2. ErrorStatus(cache[k], reason, t) \in Status
      BY <1>6, ErrorStatusFacts
    <2>3. /\ mem' \in Sync /\ mem'.spec = cache[k].spec
          /\ mem'.st = ErrorStatus(cache[k], reason, t)
      BY <1>6, <2>1, <2>2, GraftType
    <2>4. Outcome(cache[k], mem'.st)
      BY <2>3 DEF Outcome, Failed
    <2>5. cache[k].exists
      BY <1>6 DEF Sync
    <2>6. Held'
      <3>1. fresh' => cache[k] = obj'[cur']
        BY <1>1, <1>6 DEF CInv, Copies
      <3> QED BY <1>6, <2>3, <2>4, <2>5, <3>1 DEF Held
    <2>7. WorkerType' /\ WorldType'
      BY <1>1, <1>6, <2>3 DEF CInv, WorkerType, WorldType, Steps
    <2> QED BY <1>2, <1>3, <2>6, <2>7 DEF CInv
  <1> QED BY <1>4, <1>5, <1>6, ReconcileSteps

\* The worker goes on to a status write, with a status that follows from its copy.
LEMMA ToWriteKeeps ==
  ASSUME CInv, pc \in {"fetch", "project"}, NEW st \in Status, NEW again \in BOOLEAN,
         ToWrite(st, again), Outcome(mem, st), OperatorOnly,
         answer' = <<>>, faults' \in 0..MaxFaults
  PROVE  CInv'
  <1>1. cur \in Keys /\ mem \in Sync /\ timer \subseteq Keys
    BY DEF CInv, WorkerType
  <1>2. /\ UNCHANGED <<obj, watch, cache, queue, cur, fresh, timer, collectors, secret, source,
                       edits>>
        /\ mem' = [mem EXCEPT !.st = st] /\ pc' = "updateStatus" /\ retry' = again
    BY DEF ToWrite, Continue, OperatorOnly, world
  <1>3. mem' \in Sync /\ mem'.spec = mem.spec /\ mem'.st = st
    BY <1>1, <1>2, GraftType
  <1>4. Typed(HonestVersion)' /\ Copies'
    BY <1>2 DEF CInv, Typed, Copies
  <1>5. Held'
    <2>1. fresh => mem = obj[cur]
      BY DEF CInv, Held
    <2>2. mem.exists
      BY <1>1 DEF Sync
    <2> QED BY <1>2, <1>3, <2>1, <2>2 DEF Held
  <1>6. WorkerType'
    BY <1>1, <1>2, <1>3 DEF CInv, WorkerType, Steps
  <1>7. WorldType'
    <2>1. <<>> \in Answers
      BY ExternalSyncAssumption
    <2> QED BY <1>2, <2>1 DEF CInv, WorldType
  <1>8. CountType'
    BY <1>2 DEF CInv, CountType
  <1> QED BY <1>4, <1>5, <1>6, <1>7, <1>8 DEF CInv

\* The reconcile ends without a write.
LEMMA ReturnKeeps ==
  ASSUME CInv, pc # "idle", NEW again \in BOOLEAN, JustReturn(again), pc' = "idle",
         UNCHANGED retry, timer' \subseteq timer \cup {cur}, OperatorOnly,
         answer' = <<>>, faults' \in 0..MaxFaults
  PROVE  CInv'
  <1>1. cur \in Keys
    BY DEF CInv, WorkerType
  <1>2. /\ UNCHANGED <<obj, watch, cache, collectors, secret, source, edits>>
        /\ cur' = "" /\ mem' = NoObject /\ fresh' = FALSE
    BY DEF JustReturn, Return, OperatorOnly, world
  <1>3. queue' \subseteq queue \cup {cur}
    BY DEF JustReturn, Return
  <1>4. Typed(HonestVersion)' /\ Copies'
    BY <1>2 DEF CInv, Typed, Copies
  <1>5. Held'
    BY <1>2 DEF Held
  <1>6. WorkerType'
    BY <1>1, <1>2, <1>3 DEF CInv, WorkerType, Steps
  <1>7. WorldType'
    <2>1. <<>> \in Answers
      BY ExternalSyncAssumption
    <2> QED BY <1>2, <2>1 DEF CInv, WorldType
  <1>8. CountType'
    BY <1>2 DEF CInv, CountType
  <1> QED BY <1>4, <1>5, <1>6, <1>7, <1>8 DEF CInv

LEMMA FetchSourceKeeps ==
  ASSUME CInv, FetchSource
  PROVE  CInv'
  <1>1. pc = "fetch" /\ cur \in Keys /\ mem \in Sync /\ answer = <<>> /\ OperatorOnly
    BY DEF FetchSource, CInv, WorkerType, WorldType
  <1>2. CASE /\ answer' = source /\ Continue(mem) /\ pc' = "project"
             /\ NoFault /\ UNCHANGED <<retry, timer>>
    <2>1. /\ UNCHANGED <<obj, watch, cache, queue, cur, mem, fresh, timer, retry, collectors,
                         secret, source, edits, faults>>
          /\ answer' = source /\ pc' = "project"
      BY <1>1, <1>2 DEF Continue, NoFault, OperatorOnly, world
    <2>2. Typed(HonestVersion)' /\ Copies'
      BY <2>1 DEF CInv, Typed, Copies
    <2>3. Held'
      BY <1>1, <2>1 DEF CInv, Held
    <2>4. WorkerType' /\ WorldType' /\ CountType'
      BY <1>1, <2>1 DEF CInv, WorkerType, WorldType, CountType, Steps
    <2> QED BY <2>2, <2>3, <2>4 DEF CInv
  <1>3. CASE /\ Fault("5xx")
             /\ \E t \in BOOLEAN : ToWrite(ErrorStatus(mem, "SourceFailed", t), TRUE)
             /\ UNCHANGED answer
    <2>1. PICK t \in BOOLEAN : ToWrite(ErrorStatus(mem, "SourceFailed", t), TRUE)
      BY <1>3
    <2> DEFINE st == ErrorStatus(mem, "SourceFailed", t)
    <2>2. "SourceFailed" \in Reasons
      BY DEF Reasons
    <2>3. st \in Status
      BY <1>1, <2>2, ErrorStatusFacts
    <2>4. Outcome(mem, st)
      BY <2>2 DEF Outcome, Failed
    <2>5. faults' \in 0..MaxFaults
      BY <1>3, FaultType DEF CInv, CountType
    <2>6. ToWrite(st, TRUE)
      BY <2>1
    <2> HIDE DEF st
    <2> QED BY <1>1, <1>3, <2>3, <2>4, <2>5, <2>6, ToWriteKeeps
  <1> QED BY <1>2, <1>3 DEF FetchSource


\* What the worker makes of an answer: it gives up, has nothing to write, or has a
\* status to write that follows from its copy, the answer and the Collectors matched.
LEMMA ProjectSteps ==
  ASSUME CInv, Project
  PROVE  LET matched == matchedCollectors(mem.spec.sel)
             owned == projectRecords(answer, mem.spec.mapping, matched)
             seen == Len(answer)
             applied == recordsApplied(answer, mem.spec.mapping, matched)
         IN  /\ pc = "project" /\ cur \in Keys /\ mem \in Sync
             /\ answer' = <<>> /\ OperatorOnly /\ faults' \in 0..MaxFaults
             /\ matched \in SUBSET Ids
             /\ owned \in Ownership /\ seen \in Nat /\ applied \in Nat
             /\ Claimed(owned) \subseteq matched
             /\ \/ ListFailed
                \/ /\ emptyGuard(mem, answer)
                   /\ \E t \in BOOLEAN : ToWrite(StalledStatus(mem, t), FALSE)
                \/ /\ ~emptyGuard(mem, answer) /\ ownedKeysExceeded(owned)
                   /\ \/ externalSyncCapExceededStatusUnchanged(mem, seen, applied) /\ NoOp
                      \/ ToWrite(ExceededStatus(mem, seen, applied), FALSE)
                \/ /\ ~emptyGuard(mem, answer) /\ ~ownedKeysExceeded(owned)
                   /\ \/ externalSyncStatusUnchanged(mem, seen, applied, owned) /\ NoOp
                      \/ ToWrite(SyncedStatus(mem, seen, applied, owned), FALSE)
  <1> DEFINE matched == matchedCollectors(mem.spec.sel)
             owned == projectRecords(answer, mem.spec.mapping, matched)
             seen == Len(answer)
             applied == recordsApplied(answer, mem.spec.mapping, matched)
  <1>1. pc = "project" /\ cur \in Keys /\ mem \in Sync /\ answer \in Answers
    BY DEF Project, CInv, WorkerType, WorldType
  <1>2. answer \in Seq(Record) /\ seen \in Nat /\ mem.spec.mapping \in Mapping
    BY <1>1, AnswerType, SpecType
  <1>3. matched \in SUBSET Ids
    BY DEF matchedCollectors
  <1> HIDE DEF matched
  <1>4. owned \in Ownership
    BY <1>2, ProjectedType
  <1>5. applied \in Nat
    BY <1>2, AppliedFinite
  <1>6. Claimed(owned) \subseteq matched
    BY <1>2, <1>3, ProjectedClaims
  <1>7. faults' \in 0..MaxFaults
    <2>1. CASE NoFault
      BY <2>1 DEF NoFault, CInv, CountType
    <2>2. CASE Fault("k8s")
      BY <2>2, FaultType DEF CInv, CountType
    <2> QED BY <2>1, <2>2 DEF Project
  <1>8. answer' = <<>> /\ OperatorOnly
    BY DEF Project
  <1>9. \/ ListFailed
        \/ /\ emptyGuard(mem, answer)
           /\ \E t \in BOOLEAN : ToWrite(StalledStatus(mem, t), FALSE)
        \/ /\ ~emptyGuard(mem, answer) /\ ownedKeysExceeded(owned)
           /\ \/ externalSyncCapExceededStatusUnchanged(mem, seen, applied) /\ NoOp
              \/ ToWrite(ExceededStatus(mem, seen, applied), FALSE)
        \/ /\ ~emptyGuard(mem, answer) /\ ~ownedKeysExceeded(owned)
           /\ \/ externalSyncStatusUnchanged(mem, seen, applied, owned) /\ NoOp
              \/ ToWrite(SyncedStatus(mem, seen, applied, owned), FALSE)
    BY DEF Project, matched
  <1> QED BY <1>1, <1>2, <1>3, <1>4, <1>5, <1>6, <1>7, <1>8, <1>9 DEF matched

LEMMA ProjectKeeps ==
  ASSUME CInv, Project
  PROVE  CInv'
  <1> DEFINE matched == matchedCollectors(mem.spec.sel)
             owned == projectRecords(answer, mem.spec.mapping, matched)
             seen == Len(answer)
             applied == recordsApplied(answer, mem.spec.mapping, matched)
  <1>1. /\ pc = "project" /\ cur \in Keys /\ mem \in Sync
        /\ answer' = <<>> /\ OperatorOnly /\ faults' \in 0..MaxFaults
        /\ matched \in SUBSET Ids
        /\ owned \in Ownership /\ seen \in Nat /\ applied \in Nat
    BY ProjectSteps
  <1>2. answer \in Answers /\ mem.spec.allowEmpty \in BOOLEAN
    BY <1>1, SpecType DEF CInv, WorldType
  <1>3. CASE ListFailed
    <2>1. JustReturn(TRUE) /\ pc' = "idle" /\ UNCHANGED <<retry, timer>>
      BY <1>3 DEF ListFailed
    <2> QED BY <1>1, <2>1, ReturnKeeps
  <1>4. CASE NoOp
    <2>1. JustReturn(FALSE) /\ pc' = "idle" /\ timer' = timer \cup {cur} /\ UNCHANGED retry
      BY <1>4 DEF NoOp
    <2> QED BY <1>1, <2>1, ReturnKeeps
  <1>5. CASE /\ emptyGuard(mem, answer)
             /\ \E t \in BOOLEAN : ToWrite(StalledStatus(mem, t), FALSE)
    <2>1. PICK t \in BOOLEAN : ToWrite(StalledStatus(mem, t), FALSE)
      BY <1>5
    <2>2. ~mem.spec.allowEmpty
      BY <1>5 DEF emptyGuard
    <2>3. Outcome(mem, StalledStatus(mem, t))
      BY <2>2 DEF Outcome, Stalled
    <2>4. StalledStatus(mem, t) \in Status
      BY <1>1, StalledStatusFacts
    <2> QED BY <1>1, <2>1, <2>3, <2>4, ToWriteKeeps
  <1>6. CASE ownedKeysExceeded(owned) /\ ToWrite(ExceededStatus(mem, seen, applied), FALSE)
    <2>1. Exceeded(mem, ExceededStatus(mem, seen, applied))
      BY <1>1, <1>2, <1>6 DEF Exceeded
    <2> HIDE DEF seen, applied
    <2>2. Outcome(mem, ExceededStatus(mem, seen, applied))
      BY <2>1 DEF Outcome
    <2>3. ExceededStatus(mem, seen, applied) \in Status
      BY <1>1, ExceededStatusFacts
    <2> QED BY <1>1, <1>6, <2>2, <2>3, ToWriteKeeps
  <1>7. CASE /\ ~emptyGuard(mem, answer) /\ ~ownedKeysExceeded(owned)
             /\ ToWrite(SyncedStatus(mem, seen, applied, owned), FALSE)
    <2>1. CASE ~(answer # <<>> \/ mem.spec.allowEmpty \/ mem.st.owned = NoClaims)
      \* The guard looks at recordsApplied, which is not 0 where there are claims.  A
      \* copy that is behind is never written.
      <3>1. ~(mem.st.applied > 0)
        BY <1>7, <2>1 DEF emptyGuard
      <3>2. ~fresh
        <4>1. fresh => mem = obj[cur] /\ obj[cur] \in HonestVersion
          BY <1>1 DEF CInv, Held, Typed
        <4>2. fresh => Bounded(mem.st)
          BY <1>1, <4>1, HonestType DEF Sync
        <4> QED BY <2>1, <3>1, <4>2 DEF Bounded
      <3> DEFINE st == SyncedStatus(mem, seen, applied, owned)
      <3>3. st \in Status
        <4> HIDE DEF seen, applied, owned
        <4> QED BY <1>1, SyncedStatusFacts
      <3>4. /\ UNCHANGED <<obj, watch, cache, queue, cur, fresh, timer, collectors, secret, source,
                           edits>>
            /\ mem' = [mem EXCEPT !.st = st] /\ pc' = "updateStatus" /\ retry' = FALSE
        BY <1>1, <1>7 DEF ToWrite, Continue, OperatorOnly, world
      <3> HIDE DEF st
      <3>5. mem' \in Sync
        BY <1>1, <3>3, <3>4, GraftType
      <3>6. Typed(HonestVersion)' /\ Copies' /\ Held'
        BY <3>2, <3>4 DEF CInv, Typed, Copies, Held
      <3>7. WorkerType' /\ CountType'
        BY <1>1, <3>4, <3>5 DEF CInv, WorkerType, CountType, Steps
      <3>8. WorldType'
        <4>1. <<>> \in Answers
          BY ExternalSyncAssumption
        <4> QED BY <1>1, <3>4, <4>1 DEF CInv, WorldType
      <3> QED BY <3>6, <3>7, <3>8 DEF CInv
    <2>2. CASE answer # <<>> \/ mem.spec.allowEmpty \/ mem.st.owned = NoClaims
      <3>1. Projected(mem, SyncedStatus(mem, seen, applied, owned))
        BY <1>1, <1>2, <1>7, <2>2 DEF Projected
      <3> HIDE DEF seen, applied, owned
      <3>2. Outcome(mem, SyncedStatus(mem, seen, applied, owned))
        BY <3>1 DEF Outcome
      <3>3. SyncedStatus(mem, seen, applied, owned) \in Status
        BY <1>1, SyncedStatusFacts
      <3> QED BY <1>1, <1>7, <3>2, <3>3, ToWriteKeeps
    <2> QED BY <2>1, <2>2
  <1> QED BY <1>3, <1>4, <1>5, <1>6, <1>7, ProjectSteps

\* What a status write may do: store the worker's status on top of the stored sync,
\* or nothing; the request comes back if nothing was stored.
LEMMA UpdateStatusSteps ==
  ASSUME CInv, UpdateStatus
  PROVE  /\ pc = "updateStatus" /\ cur \in Keys /\ mem \in Sync
         /\ pc' = "idle" /\ retry' = FALSE /\ cur' = "" /\ mem' = NoObject /\ fresh' = FALSE
         /\ UNCHANGED <<cache, collectors, secret, source, answer, edits>>
         /\ timer' \subseteq timer \cup {cur}
         /\ faults' \in 0..MaxFaults
         /\ \/ UNCHANGED <<obj, watch>> /\ queue' = queue \cup {cur}
            \/ /\ fresh /\ Store(cur, [obj[cur] EXCEPT !.st = mem.st])
               /\ \/ queue' = queue \cup {cur}
                  \/ queue' = queue
  <1> DEFINE o == [obj[cur] EXCEPT !.st = mem.st]
  <1>1. /\ pc = "updateStatus" /\ cur \in Keys /\ mem \in Sync
        /\ retry \in BOOLEAN /\ faults \in 0..MaxFaults
    BY DEF UpdateStatus, CInv, WorkerType, CountType
  <1>2. KubeWrite(o, retry, TRUE) /\ UNCHANGED <<collectors, secret, source, answer, edits>>
    BY DEF UpdateStatus, OperatorOnly, world
  <1>3. timer' \subseteq timer \cup {cur}
    BY DEF UpdateStatus
  <1> HIDE DEF o
  <1>4. /\ pc' = "idle" /\ retry' = FALSE /\ cur' = "" /\ mem' = NoObject /\ fresh' = FALSE
        /\ cache' = cache /\ faults' \in 0..MaxFaults
        /\ UNCHANGED <<obj, watch>> \/ (fresh /\ Store(cur, o))
        /\ \/ queue' = queue \cup {cur}
           \/ queue' = queue /\ ~retry /\ fresh /\ Store(cur, o)
    BY <1>1, <1>2, KubeWriteSteps
  <1> QED BY <1>1, <1>2, <1>3, <1>4 DEF o

\* A write that is accepted stores an outcome of the stored sync itself.
LEMMA WrittenType ==
  ASSUME CInv, fresh, pc = "updateStatus", cur \in Keys
  PROVE  /\ obj[cur] \in Sync /\ Bounded(obj[cur].st) /\ mem.spec = obj[cur].spec
         /\ Outcome(obj[cur], mem.st) /\ mem.st \in Status
         /\ [obj[cur] EXCEPT !.st = mem.st] \in HonestVersion
         /\ [obj[cur] EXCEPT !.st = mem.st].exists
         /\ [obj[cur] EXCEPT !.st = mem.st].spec = obj[cur].spec
         /\ [obj[cur] EXCEPT !.st = mem.st].st = mem.st
  <1> DEFINE o == [obj[cur] EXCEPT !.st = mem.st]
  <1>1. obj[cur].exists /\ mem.spec = obj[cur].spec /\ Outcome(obj[cur], mem.st)
    BY DEF CInv, Held
  <1>2. obj[cur] \in Sync /\ Bounded(obj[cur].st)
    BY <1>1, HonestType DEF CInv, Typed
  <1>3. mem.st \in Status /\ Bounded(mem.st)
    BY <1>1, <1>2, OutcomeType
  <1>4. o \in Sync /\ o.exists /\ o.spec = obj[cur].spec /\ o.st = mem.st
    BY <1>2, <1>3, GraftType
  <1> HIDE DEF o
  <1>5. o \in HonestVersion
    BY <1>3, <1>4 DEF HonestVersion, Version
  <1> QED BY <1>1, <1>2, <1>3, <1>4, <1>5 DEF o

LEMMA UpdateStatusKeeps ==
  ASSUME CInv, UpdateStatus
  PROVE  CInv'
  <1> DEFINE o == [obj[cur] EXCEPT !.st = mem.st]
  <1>1. /\ pc = "updateStatus" /\ cur \in Keys /\ mem \in Sync
        /\ pc' = "idle" /\ retry' = FALSE /\ cur' = "" /\ mem' = NoObject /\ fresh' = FALSE
        /\ UNCHANGED <<cache, collectors, secret, source, answer, edits>>
        /\ timer' \subseteq timer \cup {cur}
        /\ faults' \in 0..MaxFaults
        /\ \/ UNCHANGED <<obj, watch>> /\ queue' = queue \cup {cur}
           \/ fresh /\ Store(cur, o) /\ (queue' = queue \cup {cur} \/ queue' = queue)
    BY UpdateStatusSteps
  <1>2. Typed(HonestVersion)' /\ Copies'
    <2>1. CASE UNCHANGED <<obj, watch>>
      BY <1>1, <2>1 DEF CInv, Typed, Copies
    <2>2. CASE fresh /\ Store(cur, o)
      <3>1. o \in HonestVersion
        BY <1>1, <2>2, WrittenType
      <3> HIDE DEF o
      <3> QED BY <1>1, <2>2, <3>1, StoreFacts DEF CInv
    <2> QED BY <1>1, <2>1, <2>2
  <1> HIDE DEF o
  <1>3. Held'
    BY <1>1 DEF Held
  <1>4. WorkerType'
    BY <1>1 DEF CInv, WorkerType, Steps
  <1>5. WorldType' /\ CountType'
    BY <1>1 DEF CInv, WorldType, CountType
  <1> QED BY <1>2, <1>3, <1>4, <1>5 DEF CInv

LEMMA NextKeeps ==
  ASSUME CInv, [Next]_vars
  PROVE  CInv'
  <1>1. CASE UNCHANGED vars
    <2>1. UNCHANGED <<obj, watch, cache, queue, cur, mem, fresh, pc, retry, faults, timer,
                      collectors, secret, source, answer, edits>>
      BY <1>1 DEF vars, kubeVars, world
    <2>2. Typed(HonestVersion)' /\ Copies' /\ Held'
      BY <2>1 DEF CInv, Typed, Copies, Held
    <2>3. WorkerType' /\ WorldType' /\ CountType'
      BY <2>1 DEF CInv, WorkerType, WorldType, CountType
    <2> QED BY <2>2, <2>3 DEF CInv
  <1>2. CASE Next
    BY <1>2, UserKeeps, ReconcileKeeps, InformKeeps, ScheduledRunKeeps, FetchSourceKeeps,
       ProjectKeeps, UpdateStatusKeeps, RestartKeeps
       DEF Next, Worker
  <1> QED BY <1>1, <1>2

\* Whatever fails and however stale the cache, a status about to be written on top of
\* the stored sync follows from that sync, from one answer of the source and from one
\* set of matched Collectors.
THEOREM Invariance == Spec => []CInv
  <1>1. Init => CInv
    BY CInit
  <1>2. CInv /\ [Next]_vars => CInv'
    BY NextKeeps
  <1> QED BY <1>1, <1>2, PTL DEF Spec

\* Every variable keeps its type, what a sync claims stays within the cap of the
\* code's maxOwnedKeys, and an answer is held only while it is projected.
THEOREM TypeCorrect == Spec => []TypeOK
  <1>1. CInv => TypeOK
    <2> SUFFICES ASSUME CInv PROVE TypeOK
      OBVIOUS
    <2>1. HonestVersion \subseteq Version
      BY DEF HonestVersion
    <2>2. obj \in [Keys -> Version] /\ cache \in [Keys -> Version]
      BY <2>1 DEF CInv, Typed
    <2>3. watch \in [Keys -> Seq(Version)]
      <3>1. \A k \in Keys : watch[k] \in Seq(Version)
        BY <2>1 DEF CInv, Typed
      <3> QED BY <3>1 DEF CInv, Typed
    <2>4. \A k \in Keys : obj[k].exists => Cardinality(Claimed(obj[k].st.owned)) <= MaxOwned
      BY DEF CInv, Typed, HonestVersion, Bounded
    <2>5. WorkerType /\ WorldType /\ CountType
      BY DEF CInv
    <2> QED BY <2>2, <2>3, <2>4, <2>5 DEF TypeOK, WorkerType, WorldType, CountType
  <1> QED BY <1>1, Invariance, PTL


-----------------------------------------------------------------------------
(* The refinement.  Handoff has its own copies of the operators of Claims, *)
(* which are the same.                                                     *)

LEMMA SameProjection ==
  ASSUME NEW records, NEW m, NEW matched
  PROVE  HO!projectRecords(records, m, matched) = projectRecords(records, m, matched)
  BY DEF HO!projectRecords, projectRecords, HO!appliedAt, appliedAt, HO!applies, applies,
         HO!mappedAttrs, mappedAttrs, HO!FieldString, FieldString, HO!hasAllRequired,
         hasAllRequired, HO!None, None, HO!Entry, Entry, HO!NoAttrs, NoAttrs,
         HO!Absent, Absent, HO!Null, Null

LEMMA SameCardinality ==
  ASSUME NEW S
  PROVE  HO!Cardinality(S) = Cardinality(S)
  BY DEF HO!Cardinality, Cardinality

LEMMA SameClaims ==
  ASSUME NEW owned
  PROVE  HO!Claimed(owned) = Claimed(owned) /\ HO!NoClaims = NoClaims
  BY DEF HO!Claimed, Claimed, HO!NoClaims, NoClaims, HO!None, None

\* What Handoff sees of the syncs.
SpecOf == [k \in Keys |-> IF obj[k].exists THEN obj[k].spec ELSE NoObject]
ClaimsOf == [k \in Keys |-> IF obj[k].exists THEN obj[k].st.owned ELSE NoClaims]
SeenOf == [k \in Keys |-> IF obj[k].exists THEN obj[k].st.seen ELSE 0]
TruncatedOf == [k \in Keys |-> obj[k].exists /\ obj[k].st.truncated = "True"]

LEMMA SeenUnchanged ==
  ASSUME obj' = obj
  PROVE  UNCHANGED HO!handoffVars
  BY DEF HO!handoffVars

\* Functions that differ in one entry.
LEMMA OneEntry ==
  ASSUME NEW S, NEW f, NEW g, f = [x \in S |-> f[x]], g = [x \in S |-> g[x]],
         NEW k \in S, \A j \in S \ {k} : g[j] = f[j]
  PROVE  g = [f EXCEPT ![k] = g[k]]
  OBVIOUS

\* A step that changes sync k only changes what is seen of k only.
LEMMA SeenOfOne ==
  ASSUME NEW k \in Keys, \A j \in Keys \ {k} : obj'[j] = obj[j]
  PROVE  /\ SpecOf' = [SpecOf EXCEPT ![k] = SpecOf'[k]]
         /\ ClaimsOf' = [ClaimsOf EXCEPT ![k] = ClaimsOf'[k]]
         /\ SeenOf' = [SeenOf EXCEPT ![k] = SeenOf'[k]]
         /\ TruncatedOf' = [TruncatedOf EXCEPT ![k] = TruncatedOf'[k]]
  <1>1. SpecOf' = [SpecOf EXCEPT ![k] = SpecOf'[k]]
    <2>1. /\ SpecOf = [j \in Keys |-> SpecOf[j]] /\ SpecOf' = [j \in Keys |-> SpecOf'[j]]
          /\ \A j \in Keys \ {k} : SpecOf'[j] = SpecOf[j]
      BY DEF SpecOf
    <2> QED BY <2>1, OneEntry
  <1>2. ClaimsOf' = [ClaimsOf EXCEPT ![k] = ClaimsOf'[k]]
    <2>1. /\ ClaimsOf = [j \in Keys |-> ClaimsOf[j]] /\ ClaimsOf' = [j \in Keys |-> ClaimsOf'[j]]
          /\ \A j \in Keys \ {k} : ClaimsOf'[j] = ClaimsOf[j]
      BY DEF ClaimsOf
    <2> QED BY <2>1, OneEntry
  <1>3. SeenOf' = [SeenOf EXCEPT ![k] = SeenOf'[k]]
    <2>1. /\ SeenOf = [j \in Keys |-> SeenOf[j]] /\ SeenOf' = [j \in Keys |-> SeenOf'[j]]
          /\ \A j \in Keys \ {k} : SeenOf'[j] = SeenOf[j]
      BY DEF SeenOf
    <2> QED BY <2>1, OneEntry
  <1>4. TruncatedOf' = [TruncatedOf EXCEPT ![k] = TruncatedOf'[k]]
    <2>1. /\ TruncatedOf = [j \in Keys |-> TruncatedOf[j]] /\ TruncatedOf' = [j \in Keys |-> TruncatedOf'[j]]
          /\ \A j \in Keys \ {k} : TruncatedOf'[j] = TruncatedOf[j]
      BY DEF TruncatedOf
    <2> QED BY <2>1, OneEntry
  <1> QED BY <1>1, <1>2, <1>3, <1>4

\* An entry that is set to what it was.
LEMMA Same ==
  ASSUME NEW f, NEW S, f = [x \in S |-> f[x]], NEW k \in S
  PROVE  [f EXCEPT ![k] = f[k]] = f
  OBVIOUS

LEMMA SeenFunctions ==
  /\ SpecOf = [k \in Keys |-> SpecOf[k]]
  /\ ClaimsOf = [k \in Keys |-> ClaimsOf[k]]
  /\ SeenOf = [k \in Keys |-> SeenOf[k]]
  /\ TruncatedOf = [k \in Keys |-> TruncatedOf[k]]
  BY DEF SpecOf, ClaimsOf, SeenOf, TruncatedOf

LEMMA SeenOfExisting ==
  ASSUME NEW k \in Keys, obj[k].exists
  PROVE  /\ SpecOf[k] = obj[k].spec /\ ClaimsOf[k] = obj[k].st.owned
         /\ SeenOf[k] = obj[k].st.seen /\ TruncatedOf[k] = (obj[k].st.truncated = "True")
  BY DEF SpecOf, ClaimsOf, SeenOf, TruncatedOf

LEMMA SeenOfGone ==
  ASSUME NEW k \in Keys, ~obj[k].exists
  PROVE  /\ SpecOf[k] = NoObject /\ ClaimsOf[k] = NoClaims
         /\ SeenOf[k] = 0 /\ TruncatedOf[k] = FALSE
  BY DEF SpecOf, ClaimsOf, SeenOf, TruncatedOf

LEMMA SeenOfExistingNext ==
  ASSUME NEW k \in Keys, obj'[k].exists
  PROVE  /\ SpecOf'[k] = obj'[k].spec /\ ClaimsOf'[k] = obj'[k].st.owned
         /\ SeenOf'[k] = obj'[k].st.seen /\ TruncatedOf'[k] = (obj'[k].st.truncated = "True")
  BY DEF SpecOf, ClaimsOf, SeenOf, TruncatedOf

LEMMA SeenOfGoneNext ==
  ASSUME NEW k \in Keys, ~obj'[k].exists
  PROVE  /\ SpecOf'[k] = NoObject /\ ClaimsOf'[k] = NoClaims
         /\ SeenOf'[k] = 0 /\ TruncatedOf'[k] = FALSE
  BY DEF SpecOf, ClaimsOf, SeenOf, TruncatedOf

\* The steps of Handoff in these terms.
LEMMA HandoffSteps ==
  ASSUME NEW k \in Keys
  PROVE  /\ \A s \in Specs : (/\ SpecOf' = [SpecOf EXCEPT ![k] = s]
                              /\ UNCHANGED <<ClaimsOf, SeenOf, TruncatedOf>>) => HO!Write(k, s)
         /\ (/\ SpecOf' = [SpecOf EXCEPT ![k] = NoObject]
             /\ ClaimsOf' = [ClaimsOf EXCEPT ![k] = NoClaims]
             /\ SeenOf' = [SeenOf EXCEPT ![k] = 0]
             /\ TruncatedOf' = [TruncatedOf EXCEPT ![k] = FALSE]) => HO!Delete(k)
         /\ (/\ SpecOf[k] # NoObject /\ ~SpecOf[k].allowEmpty
             /\ SeenOf' = [SeenOf EXCEPT ![k] = 0]
             /\ UNCHANGED <<SpecOf, ClaimsOf, TruncatedOf>>) => HO!Stall(k)
  <1>1. \A s \in Specs : s # NoObject
    BY ExternalSyncAssumption
  <1>2. ASSUME NEW s \in Specs, SpecOf' = [SpecOf EXCEPT ![k] = s],
               UNCHANGED <<ClaimsOf, SeenOf, TruncatedOf>>
        PROVE  HO!Write(k, s)
    BY <1>1, <1>2 DEF HO!Write, HO!Gone, NoObject, SpecOf, ClaimsOf, SeenOf, TruncatedOf
  <1>3. ASSUME SpecOf' = [SpecOf EXCEPT ![k] = NoObject],
               ClaimsOf' = [ClaimsOf EXCEPT ![k] = NoClaims],
               SeenOf' = [SeenOf EXCEPT ![k] = 0],
               TruncatedOf' = [TruncatedOf EXCEPT ![k] = FALSE]
        PROVE  HO!Delete(k)
    BY <1>3, SameClaims DEF HO!Delete, HO!Gone, NoObject, SpecOf, ClaimsOf, SeenOf, TruncatedOf
  <1>4. ASSUME SpecOf[k] # NoObject, ~SpecOf[k].allowEmpty,
               SeenOf' = [SeenOf EXCEPT ![k] = 0],
               UNCHANGED <<SpecOf, ClaimsOf, TruncatedOf>>
        PROVE  HO!Stall(k)
    BY <1>4 DEF HO!Stall, HO!Exists, HO!Gone, NoObject, SpecOf, ClaimsOf, SeenOf, TruncatedOf
  <1> QED BY <1>2, <1>3, <1>4

LEMMA HandoffPublish ==
  ASSUME NEW k \in Keys, SpecOf[k] # NoObject,
         NEW records \in Answers, NEW matched \in SUBSET Ids, NEW new,
         new = projectRecords(records, SpecOf[k].mapping, matched),
         records # <<>> \/ SpecOf[k].allowEmpty \/ ClaimsOf[k] = NoClaims,
         Cardinality(Claimed(new)) <= MaxOwned,
         ClaimsOf' = [ClaimsOf EXCEPT ![k] = new],
         SeenOf' = [SeenOf EXCEPT ![k] = Len(records)],
         TruncatedOf' = [TruncatedOf EXCEPT ![k] = FALSE],
         UNCHANGED SpecOf
  PROVE  HO!Publish(k)
  <1>1. HO!projectRecords(records, SpecOf[k].mapping, matched) = new
    BY SameProjection
  <1>2. HO!Cardinality(HO!Claimed(new)) = Cardinality(Claimed(new)) /\ HO!NoClaims = NoClaims
    BY SameClaims, SameCardinality
  <1>3. \E r \in Answers, m \in SUBSET Ids :
          LET p == HO!projectRecords(r, SpecOf[k].mapping, m) IN
          /\ r # <<>> \/ SpecOf[k].allowEmpty \/ ClaimsOf[k] = HO!NoClaims
          /\ HO!Cardinality(HO!Claimed(p)) <= MaxOwned
          /\ ClaimsOf' = [ClaimsOf EXCEPT ![k] = p]
          /\ SeenOf' = [SeenOf EXCEPT ![k] = Len(r)]
    <2> WITNESS records \in Answers, matched \in SUBSET Ids
    <2> QED BY <1>1, <1>2
  <1> QED BY <1>3
          DEF HO!Publish, HO!Exists, HO!Gone, NoObject, SpecOf, ClaimsOf, SeenOf, TruncatedOf

LEMMA HandoffFailClosed ==
  ASSUME NEW k \in Keys, SpecOf[k] # NoObject,
         NEW records \in Answers, NEW matched \in SUBSET Ids, NEW new,
         new = projectRecords(records, SpecOf[k].mapping, matched),
         Cardinality(Claimed(new)) > MaxOwned,
         ClaimsOf' = [ClaimsOf EXCEPT ![k] = NoClaims],
         SeenOf' = [SeenOf EXCEPT ![k] = Len(records)],
         TruncatedOf' = [TruncatedOf EXCEPT ![k] = TRUE],
         UNCHANGED SpecOf
  PROVE  HO!FailClosed(k)
  <1>1. HO!projectRecords(records, SpecOf[k].mapping, matched) = new
    BY SameProjection
  <1>2. HO!Cardinality(HO!Claimed(new)) = Cardinality(Claimed(new)) /\ HO!NoClaims = NoClaims
    BY SameClaims, SameCardinality
  <1>3. \E r \in Answers, m \in SUBSET Ids :
          /\ HO!Cardinality(HO!Claimed(HO!projectRecords(r, SpecOf[k].mapping, m))) > MaxOwned
          /\ SeenOf' = [SeenOf EXCEPT ![k] = Len(r)]
    <2> WITNESS records \in Answers, matched \in SUBSET Ids
    <2> QED BY <1>1, <1>2
  <1> QED BY <1>2, <1>3
          DEF HO!FailClosed, HO!Exists, HO!Gone, NoObject, SpecOf, ClaimsOf, SeenOf, TruncatedOf


LEMMA SeenStays ==
  ASSUME NEW k \in Keys, \A j \in Keys \ {k} : obj'[j] = obj[j]
  PROVE  /\ SpecOf'[k] = SpecOf[k] => SpecOf' = SpecOf
         /\ ClaimsOf'[k] = ClaimsOf[k] => ClaimsOf' = ClaimsOf
         /\ SeenOf'[k] = SeenOf[k] => SeenOf' = SeenOf
         /\ TruncatedOf'[k] = TruncatedOf[k] => TruncatedOf' = TruncatedOf
  BY SeenOfOne, SeenFunctions, Same

\* A user's write of o over sync k changes that sync only.
LEMMA UserWriteEffect ==
  ASSUME CInv, NEW k \in Keys, NEW o \in HonestVersion, UserWrite(k, o)
  PROVE  obj'[k] = o /\ \A j \in Keys \ {k} : obj'[j] = obj[j]
  BY StoreFacts DEF CInv, UserWrite

LEMMA NewSyncFacts ==
  ASSUME NEW s
  PROVE  /\ NewSync(s).exists /\ NewSync(s).spec = s /\ NewSync(s).st.owned = NoClaims
         /\ NewSync(s).st.seen = 0 /\ NewSync(s).st.truncated = ""
  <1>1. NewSync(s).exists /\ NewSync(s).spec = s /\ NewSync(s).st = NewStatus
    BY DEF NewSync
  <1>2. NewStatus.owned = NoClaims /\ NewStatus.seen = 0 /\ NewStatus.truncated = ""
    BY DEF NewStatus
  <1> QED BY <1>1, <1>2

LEMMA CreateHands ==
  ASSUME CInv, NEW k \in Keys, NEW s \in Specs, CreateSync(k, s)
  PROVE  HO!Write(k, s)
  <1>1. obj'[k] = NewSync(s) /\ \A j \in Keys \ {k} : obj'[j] = obj[j]
    BY NewSyncType, UserWriteEffect DEF CreateSync
  <1>2. /\ obj'[k].exists /\ obj'[k].spec = s /\ obj'[k].st.owned = NoClaims
        /\ obj'[k].st.seen = 0 /\ obj'[k].st.truncated = ""
    <2>1. /\ NewSync(s).exists /\ NewSync(s).spec = s /\ NewSync(s).st.owned = NoClaims
          /\ NewSync(s).st.seen = 0 /\ NewSync(s).st.truncated = ""
      BY NewSyncFacts
    <2> QED BY <1>1, <2>1
  <1>3. ~obj[k].exists
    BY DEF CreateSync
  <1>4. SpecOf' = [SpecOf EXCEPT ![k] = s]
    BY <1>1, <1>2, SeenOfOne, SeenOfExistingNext
  <1>5. UNCHANGED <<ClaimsOf, SeenOf, TruncatedOf>>
    <2>1. ClaimsOf'[k] = ClaimsOf[k] /\ SeenOf'[k] = SeenOf[k]
      BY <1>2, <1>3, SeenOfGone, SeenOfExistingNext
    <2>2. TruncatedOf'[k] = TruncatedOf[k]
      <3>1. TruncatedOf'[k] = (obj'[k].st.truncated = "True") /\ TruncatedOf[k] = FALSE
        BY <1>2, <1>3, SeenOfGone, SeenOfExistingNext
      <3>2. ~(obj'[k].st.truncated = "True")
        BY <1>2
      <3> QED BY <3>1, <3>2
    <2> QED BY <1>1, <2>1, <2>2, SeenStays
  <1> QED BY <1>4, <1>5, HandoffSteps

LEMMA EditHands ==
  ASSUME CInv, NEW k \in Keys, NEW s \in Specs, EditSpec(k, s)
  PROVE  HO!Write(k, s)
  <1> DEFINE o == [obj[k] EXCEPT !.spec = s, !.gen = @ + 1]
  <1>1. obj[k].exists /\ UserWrite(k, o)
    BY DEF EditSpec
  <1>2. obj[k] \in Sync /\ Bounded(obj[k].st)
    BY <1>1, HonestType DEF CInv, Typed
  <1>3. o \in HonestVersion /\ o.exists /\ o.spec = s /\ o.st = obj[k].st
    BY <1>2, EditedType
  <1> HIDE DEF o
  <1>4. obj'[k] = o /\ \A j \in Keys \ {k} : obj'[j] = obj[j]
    BY <1>1, <1>3, UserWriteEffect
  <1>5. SpecOf' = [SpecOf EXCEPT ![k] = s]
    BY <1>3, <1>4, SeenOfOne, SeenOfExistingNext
  <1>6. UNCHANGED <<ClaimsOf, SeenOf, TruncatedOf>>
    <2>1. /\ ClaimsOf'[k] = ClaimsOf[k] /\ SeenOf'[k] = SeenOf[k]
          /\ TruncatedOf'[k] = TruncatedOf[k]
      BY <1>1, <1>3, <1>4, SeenOfExisting, SeenOfExistingNext
    <2> QED BY <1>4, <2>1, SeenStays
  <1> QED BY <1>5, <1>6, HandoffSteps

LEMMA DeleteHands ==
  ASSUME CInv, NEW k \in Keys, DeleteSync(k)
  PROVE  HO!Delete(k)
  <1>1. obj'[k] = NoObject /\ \A j \in Keys \ {k} : obj'[j] = obj[j]
    BY GoneType, UserWriteEffect DEF DeleteSync
  <1>2. ~obj'[k].exists
    BY <1>1 DEF NoObject
  <1>3. /\ SpecOf' = [SpecOf EXCEPT ![k] = NoObject]
        /\ ClaimsOf' = [ClaimsOf EXCEPT ![k] = NoClaims]
        /\ SeenOf' = [SeenOf EXCEPT ![k] = 0]
        /\ TruncatedOf' = [TruncatedOf EXCEPT ![k] = FALSE]
    BY <1>1, <1>2, SeenOfOne, SeenOfGoneNext
  <1> QED BY <1>3, HandoffSteps

\* A status that is written: an error shows nothing, a stall only that there were no
\* records, and the others publish or withdraw what one answer says.
LEMMA OutcomeHands ==
  ASSUME NEW k \in Keys, obj[k] \in Sync, NEW st, Outcome(obj[k], st),
         obj'[k].exists, obj'[k].spec = obj[k].spec, obj'[k].st = st,
         \A j \in Keys \ {k} : obj'[j] = obj[j]
  PROVE  \/ HO!Publish(k) \/ HO!FailClosed(k) \/ HO!Stall(k)
         \/ UNCHANGED <<SpecOf, ClaimsOf, SeenOf, TruncatedOf>>
  <1>1. obj[k].exists /\ obj[k].spec \in Specs /\ obj[k].spec.mapping \in Mapping
    BY SpecType DEF Sync
  <1>2. /\ SpecOf[k] = obj[k].spec /\ ClaimsOf[k] = obj[k].st.owned
        /\ SeenOf[k] = obj[k].st.seen /\ TruncatedOf[k] = (obj[k].st.truncated = "True")
    BY <1>1, SeenOfExisting
  <1>3. /\ SpecOf'[k] = obj[k].spec /\ ClaimsOf'[k] = st.owned
        /\ SeenOf'[k] = st.seen /\ TruncatedOf'[k] = (st.truncated = "True")
    BY SeenOfExistingNext
  <1>4. SpecOf' = SpecOf
    BY <1>2, <1>3, SeenStays
  <1>5. SpecOf[k] # NoObject
    BY <1>1, <1>2, ExternalSyncAssumption
  <1>6. CASE Failed(obj[k], st)
    <2>1. /\ st.owned = obj[k].st.owned /\ st.seen = obj[k].st.seen
          /\ st.truncated = obj[k].st.truncated
      BY <1>6, ErrorStatusFacts DEF Failed
    <2>2. /\ ClaimsOf'[k] = ClaimsOf[k] /\ SeenOf'[k] = SeenOf[k]
          /\ TruncatedOf'[k] = TruncatedOf[k]
      BY <1>2, <1>3, <2>1
    <2> QED BY <1>4, <2>2, SeenStays
  <1>7. CASE Stalled(obj[k], st)
    <2>1. /\ st.owned = obj[k].st.owned /\ st.seen = 0
          /\ st.truncated = obj[k].st.truncated /\ ~obj[k].spec.allowEmpty
      BY <1>7, StalledStatusFacts DEF Stalled
    <2>2. ClaimsOf'[k] = ClaimsOf[k] /\ SeenOf'[k] = 0 /\ TruncatedOf'[k] = TruncatedOf[k]
      BY <1>2, <1>3, <2>1
    <2>3. SeenOf' = [SeenOf EXCEPT ![k] = 0]
      BY <2>2, SeenOfOne
    <2>4. UNCHANGED <<ClaimsOf, TruncatedOf>>
      BY <2>2, SeenStays
    <2> QED BY <1>2, <1>4, <1>5, <2>1, <2>3, <2>4, HandoffSteps
  <1>8. CASE Exceeded(obj[k], st)
    <2>1. PICK records \in Answers, matched \in SUBSET Ids :
            /\ ownedKeysExceeded(projectRecords(records, obj[k].spec.mapping, matched))
            /\ st = ExceededStatus(obj[k], Len(records),
                                   recordsApplied(records, obj[k].spec.mapping, matched))
      BY <1>8 DEF Exceeded
    <2>2. Len(records) \in Nat /\ recordsApplied(records, obj[k].spec.mapping, matched) \in Nat
      BY AnswerType, AppliedFinite
    <2>3. st.owned = NoClaims /\ st.seen = Len(records) /\ st.truncated = "True"
      BY <2>1, <2>2, ExceededStatusFacts
    <2>4. TruncatedOf'[k] = TRUE
      BY <1>3, <2>3
    <2>5. /\ ClaimsOf' = [ClaimsOf EXCEPT ![k] = NoClaims]
          /\ SeenOf' = [SeenOf EXCEPT ![k] = Len(records)]
          /\ TruncatedOf' = [TruncatedOf EXCEPT ![k] = TRUE]
      BY <1>3, <2>3, <2>4, SeenOfOne
    <2>6. Cardinality(Claimed(projectRecords(records, SpecOf[k].mapping, matched))) > MaxOwned
      BY <1>2, <2>1 DEF ownedKeysExceeded
    <2>7. HO!FailClosed(k)
      BY <1>4, <1>5, <2>5, <2>6, HandoffFailClosed
    <2> QED BY <2>7
  <1>9. CASE Projected(obj[k], st)
    <2>1. PICK records \in Answers, matched \in SUBSET Ids :
            /\ records # <<>> \/ obj[k].spec.allowEmpty \/ obj[k].st.owned = NoClaims
            /\ ~ownedKeysExceeded(projectRecords(records, obj[k].spec.mapping, matched))
            /\ st = SyncedStatus(obj[k], Len(records),
                                 recordsApplied(records, obj[k].spec.mapping, matched),
                                 projectRecords(records, obj[k].spec.mapping, matched))
      BY <1>9 DEF Projected
    <2> DEFINE new == projectRecords(records, obj[k].spec.mapping, matched)
               applied == recordsApplied(records, obj[k].spec.mapping, matched)
    <2>2. records \in Seq(Record) /\ Len(records) \in Nat
      BY AnswerType
    <2>3. applied \in Nat
      BY <2>2, AppliedFinite
    <2>4. new \in Ownership
      BY <1>1, <2>2, ProjectedType
    <2>5. Cardinality(Claimed(new)) \in Nat
      BY <1>1, <2>2, ProjectedClaims
    <2>6. ~(Cardinality(Claimed(new)) > MaxOwned)
      BY <2>1 DEF ownedKeysExceeded
    <2>7. st = SyncedStatus(obj[k], Len(records), applied, new)
      BY <2>1
    <2>8. new = projectRecords(records, SpecOf[k].mapping, matched)
      BY <1>2
    <2> HIDE DEF new, applied
    <2>9. st.owned = new /\ st.seen = Len(records) /\ st.truncated = "False"
      BY <2>2, <2>3, <2>4, <2>7, SyncedStatusFacts
    <2>10. Cardinality(Claimed(new)) <= MaxOwned
      BY <2>5, <2>6, CapType
    <2>11. TruncatedOf'[k] = FALSE
      BY <1>3, <2>9
    <2>12. /\ ClaimsOf' = [ClaimsOf EXCEPT ![k] = new]
           /\ SeenOf' = [SeenOf EXCEPT ![k] = Len(records)]
           /\ TruncatedOf' = [TruncatedOf EXCEPT ![k] = FALSE]
      BY <1>3, <2>9, <2>11, SeenOfOne
    <2>13. records # <<>> \/ SpecOf[k].allowEmpty \/ ClaimsOf[k] = NoClaims
      BY <1>2, <2>1
    <2>14. HO!Publish(k)
      BY <1>4, <1>5, <2>8, <2>10, <2>12, <2>13, HandoffPublish
    <2> QED BY <2>14
  <1> QED BY <1>6, <1>7, <1>8, <1>9 DEF Outcome

LEMMA UpdateStatusHands ==
  ASSUME CInv, UpdateStatus
  PROVE  HO!HandoffNext \/ UNCHANGED HO!handoffVars
  <1> DEFINE o == [obj[cur] EXCEPT !.st = mem.st]
  <1>1. /\ pc = "updateStatus" /\ cur \in Keys
        /\ UNCHANGED <<obj, watch>> \/ (fresh /\ Store(cur, o))
    BY UpdateStatusSteps
  <1>2. CASE obj' = obj
    BY <1>2, SeenUnchanged
  <1>3. CASE fresh /\ Store(cur, o)
    <2>1. /\ obj[cur] \in Sync /\ Outcome(obj[cur], mem.st)
          /\ o \in HonestVersion /\ o.exists /\ o.spec = obj[cur].spec /\ o.st = mem.st
      BY <1>1, <1>3, WrittenType
    <2> HIDE DEF o
    <2>2. cache' = cache
      BY UpdateStatusSteps
    <2>3. obj'[cur] = o /\ \A j \in Keys \ {cur} : obj'[j] = obj[j]
      BY <1>1, <1>3, <2>1, <2>2, StoreFacts DEF CInv
    <2>4. PICK k \in Keys : k = cur
      BY <1>1
    <2>5. \/ HO!Publish(k) \/ HO!FailClosed(k) \/ HO!Stall(k)
          \/ UNCHANGED <<SpecOf, ClaimsOf, SeenOf, TruncatedOf>>
      BY <2>1, <2>3, <2>4, OutcomeHands
    <2>6. CASE HO!Publish(k) \/ HO!FailClosed(k) \/ HO!Stall(k)
      BY <2>6 DEF HO!HandoffNext
    <2>7. CASE UNCHANGED <<SpecOf, ClaimsOf, SeenOf, TruncatedOf>>
      BY <2>7 DEF HO!handoffVars, SpecOf, ClaimsOf, SeenOf, TruncatedOf
    <2> QED BY <2>5, <2>6, <2>7
  <1> QED BY <1>1, <1>2, <1>3

LEMMA NextHands ==
  ASSUME CInv, [Next]_vars
  PROVE  HO!HandoffNext \/ UNCHANGED HO!handoffVars
  <1>1. CASE UNCHANGED vars
    BY <1>1, SeenUnchanged DEF vars, kubeVars
  <1>2. CASE User
    <2>1. ASSUME NEW k \in Keys, NEW s \in Specs, CreateSync(k, s) \/ EditSpec(k, s)
          PROVE  HO!HandoffNext
      BY <2>1, CreateHands, EditHands DEF HO!HandoffNext
    <2>2. ASSUME NEW k \in Keys, DeleteSync(k)
          PROVE  HO!HandoffNext
      BY <2>2, DeleteHands DEF HO!HandoffNext
    <2>3. ASSUME NEW records \in Answers, ChangeSource(records)
          PROVE  obj' = obj
      BY <2>3 DEF ChangeSource, kubeVars
    <2>4. ASSUME NEW new \in {"bad", "ok"}, ChangeSecret(new)
          PROVE  obj' = obj
      BY <2>4 DEF ChangeSecret, Enqueue
    <2>5. ASSUME NEW i \in Ids, NEW new \in {NoCollector} \cup Collectors, ChangeCollector(i, new)
          PROVE  obj' = obj
      BY <2>5 DEF ChangeCollector, Enqueue
    <2> QED BY <1>2, <2>1, <2>2, <2>3, <2>4, <2>5, SeenUnchanged DEF User
  <1>3. ASSUME NEW k \in Keys, Reconcile(k) \/ Inform(k) \/ ScheduledRun(k)
        PROVE  obj' = obj
    BY <1>3, ReconcileSteps DEF Inform, Deliver, ScheduledRun, Enqueue
  <1>4. CASE FetchSource
    BY <1>4, SeenUnchanged DEF FetchSource, Continue, ToWrite
  <1>5. CASE Project
    <2>1. obj' = obj
      BY <1>5 DEF Project, Continue, ToWrite, NoOp, ListFailed, JustReturn
    <2> QED BY <2>1, SeenUnchanged
  <1>6. CASE Restart
    BY <1>6, SeenUnchanged DEF Restart, KubeRestart
  <1> QED BY <1>1, <1>2, <1>3, <1>4, <1>5, <1>6, UpdateStatusHands, SeenUnchanged DEF Next, Worker

LEMMA InitHands == Init => HO!HandoffInit
  <1> SUFFICES ASSUME Init PROVE HO!HandoffInit
    OBVIOUS
  <1>1. PICK stored \in [Keys -> {NoObject} \cup {NewSync(s) : s \in Specs}] : KubeInit(stored)
    BY DEF Init
  <1>2. obj = stored
    BY <1>1 DEF KubeInit
  <1>3. \A k \in Keys : obj[k] = NoObject \/ \E s \in Specs : obj[k] = NewSync(s)
    BY <1>2
  <1>4. ASSUME NEW k \in Keys, obj[k] = NoObject
        PROVE  ~obj[k].exists
    BY <1>4 DEF NoObject
  <1>5. ASSUME NEW k \in Keys, NEW s \in Specs, obj[k] = NewSync(s)
        PROVE  /\ obj[k].exists /\ obj[k].spec = s /\ obj[k].st.owned = NoClaims
               /\ obj[k].st.seen = 0 /\ obj[k].st.truncated # "True"
    BY <1>5, NewSyncFacts
  <1>6. \A k \in Keys : /\ SpecOf[k] \in {NoObject} \cup Specs
                        /\ ClaimsOf[k] = NoClaims /\ SeenOf[k] = 0
                        /\ ~TruncatedOf[k] /\ TruncatedOf[k] \in BOOLEAN
    <2> TAKE k \in Keys
    <2>1. CASE obj[k] = NoObject
      BY <1>4, <2>1, SeenOfGone
    <2>2. CASE obj[k] # NoObject
      <3>1. PICK s \in Specs : obj[k] = NewSync(s)
        BY <1>3, <2>2
      <3> QED BY <1>5, <3>1, SeenOfExisting
    <2> QED BY <2>1, <2>2
  <1>7. SpecOf \in [Keys -> {NoObject} \cup Specs]
    BY <1>6, SeenFunctions
  <1>8. /\ ClaimsOf = [k \in Keys |-> NoClaims] /\ SeenOf = [k \in Keys |-> 0]
        /\ TruncatedOf = [k \in Keys |-> FALSE]
    <2>1. ClaimsOf = [k \in Keys |-> NoClaims]
      BY <1>6, SeenFunctions
    <2>2. SeenOf = [k \in Keys |-> 0]
      BY <1>6, SeenFunctions
    <2>3. TruncatedOf = [k \in Keys |-> FALSE]
      <3>1. \A k \in Keys : TruncatedOf[k] = FALSE
        BY <1>6
      <3> QED BY <3>1, SeenFunctions
    <2> QED BY <2>1, <2>2, <2>3
  <1> QED BY <1>7, <1>8, SameClaims
          DEF HO!HandoffInit, HO!Gone, NoObject, SpecOf, ClaimsOf, SeenOf, TruncatedOf

\* The reconciler implements Handoff: however stale the cache, whatever fails and
\* whenever the operator dies, what status.ownedKeys says is the projection of one
\* whole answer under the current spec, an empty answer withdraws nothing unless
\* allowEmptyResults says so, and too many claims withdraw all of them, visibly.
THEOREM HandoffIsImplemented == Spec => ImplementsHandoff
  <1>1. Init => HO!HandoffInit
    BY InitHands
  <1>2. CInv /\ [Next]_vars => [HO!HandoffNext]_(HO!handoffVars)
    BY NextHands
  <1> QED BY <1>1, <1>2, Invariance, PTL DEF Spec, ImplementsHandoff, HO!HandoffSpec


-----------------------------------------------------------------------------
(* The second invariant: no wake-up is lost, provided the index finds the  *)
(* syncs that select a Collector.                                          *)

\* A selector that matches a Collector is found for it.
IndexFinds ==
  \A s \in Specs, i \in Ids, c \in Collectors : Match(s.sel, i, c.local) => Affected(s.sel, c)

\* Every collector o claims is one it selects.
Selected(o) == Claimed(o.st.owned) \subseteq matchedCollectors(o.spec.sel)

\* Unless another run is due, the worker looks at the version the cache has.
Looked == pc \in {"fetch", "project"} /\ cur \notin queue => mem = cache[cur]

\* Unless another run is due, the claims about to be written are for Collectors that
\* are selected as things are, and the index knows the selector they come from.
Found ==
  pc = "updateStatus" /\ cur \notin queue /\ mem.st.ready = "True" =>
    Selected(mem) /\ cache[cur].exists /\ cache[cur].spec.sel = mem.spec.sel

WInv == CInv /\ Looked /\ Found /\ ClaimsAreSelected

\* The syncs that ClaimsAreSelected is about.
Settling(k) == obj[k].exists /\ Quiet(k) /\ obj[k].st.ready = "True"

\* A sync that nothing happens to.
LEMMA OthersStay ==
  ASSUME WInv, UNCHANGED collectors, NEW j \in Keys, obj'[j] = obj[j], Settling(j)
  PROVE  Selected(obj[j])'
  <1>1. Selected(obj[j])
    BY DEF WInv, ClaimsAreSelected, Settling, Selected
  <1> QED BY <1>1 DEF Selected, matchedCollectors

\* To show that every sync that settles has its claims right.
LEMMA AllSelected ==
  ASSUME \A j \in Keys : (obj'[j].exists /\ Quiet(j)' /\ obj'[j].st.ready = "True") =>
           Selected(obj[j])'
  PROVE  ClaimsAreSelected'
  BY DEF ClaimsAreSelected, Selected

LEMMA WInit == Init => WInv
  <1> SUFFICES ASSUME Init PROVE WInv
    OBVIOUS
  <1>1. PICK stored : KubeInit(stored)
    BY DEF Init
  <1>2. Looked /\ Found
    BY DEF Init, Looked, Found
  <1>3. ClaimsAreSelected
    BY <1>1 DEF KubeInit, ClaimsAreSelected, Quiet
  <1> QED BY <1>2, <1>3, CInit DEF WInv

\* Steps that leave objects, caches, Collectors and the worker alone, and add
\* requests at most.
LEMMA RequestsWake ==
  ASSUME WInv, CInv', UNCHANGED <<obj, watch, cache, cur, mem, pc, collectors>>,
         queue \subseteq queue'
  PROVE  WInv'
  <1>1. Looked'
    BY DEF WInv, Looked
  <1>2. Found'
    BY DEF WInv, Found, Selected, matchedCollectors
  <1>3. ClaimsAreSelected'
    BY DEF WInv, ClaimsAreSelected, Quiet, matchedCollectors
  <1> QED BY <1>1, <1>2, <1>3 DEF WInv

\* A user's write is on its way to the cache, or there was nothing to write.
LEMMA UserWriteWakes ==
  ASSUME WInv, NEW k \in Keys, NEW o \in HonestVersion, UserWrite(k, o),
         Edit, NotOperator, UNCHANGED world
  PROVE  WInv'
  <1>0. CInv /\ CInv'
    BY UserWriteKeeps DEF WInv
  <1>1. Store(k, o) /\ UNCHANGED <<cache, queue, cur, mem, pc, retry, collectors>>
    BY DEF UserWrite, NotOperator, world
  <1>2. /\ watch'[k] = <<>> => obj' = obj /\ watch' = watch
        /\ \A j \in Keys \ {k} : obj'[j] = obj[j] /\ watch'[j] = watch[j]
    BY <1>0, <1>1, StoreFacts DEF CInv
  <1>3. Looked'
    BY <1>1 DEF WInv, Looked
  <1>4. Found'
    BY <1>1 DEF WInv, Found, Selected, matchedCollectors
  <1>5. ClaimsAreSelected'
    <2> SUFFICES ASSUME NEW j \in Keys, obj'[j].exists, Quiet(j)', obj'[j].st.ready = "True"
                 PROVE  Selected(obj[j])'
      BY AllSelected
    <2>1. obj'[j] = obj[j] /\ Quiet(j)
      BY <1>1, <1>2 DEF Quiet
    <2> QED BY <1>1, <2>1, OthersStay DEF Settling
  <1> QED BY <1>0, <1>3, <1>4, <1>5 DEF WInv

\* A Collector's event reaches every sync that selects it.
LEMMA SelectionStays ==
  ASSUME IndexFinds, CInv, NEW i \in Ids, NEW new \in {NoCollector} \cup Collectors,
         ChangeCollector(i, new), NEW k \in Keys, k \notin queue',
         cache[k] \in Sync
  PROVE  matchedCollectors(cache[k].spec.sel) \subseteq matchedCollectors(cache[k].spec.sel)'
  <1> DEFINE sel == cache[k].spec.sel
  <1>1. collectors' = [collectors EXCEPT ![i] = new] /\ cache' = cache
    BY DEF ChangeCollector, Enqueue
  <1>2. cache[k].exists /\ cache[k].spec \in Specs
    BY DEF Sync
  <1>3. ~Affected(sel, collectors[i])
    BY <1>2 DEF ChangeCollector, Enqueue, mapCollectorToAffectedSyncs
  <1>4. collectors \in [Ids -> {NoCollector} \cup Collectors]
    BY DEF CInv, WorldType
  <1>5. ~(collectors[i].exists /\ Match(sel, i, collectors[i].local))
    <2>1. CASE collectors[i] = NoCollector
      BY <2>1 DEF NoCollector
    <2>2. CASE collectors[i] \in Collectors
      BY <1>2, <1>3, <2>2 DEF IndexFinds
    <2> QED BY <1>4, <2>1, <2>2
  <1>6. \A j \in Ids \ {i} : collectors'[j] = collectors[j]
    BY <1>1, <1>4
  <1> HIDE DEF sel
  <1>7. {j \in Ids : collectors[j].exists /\ Match(sel, j, collectors[j].local)}
          \subseteq {j \in Ids : collectors'[j].exists /\ Match(sel, j, collectors'[j].local)}
    BY <1>5, <1>6
  <1> QED BY <1>1, <1>7 DEF matchedCollectors, sel

LEMMA ChangeCollectorWakes ==
  ASSUME IndexFinds, WInv, NEW i \in Ids, NEW new \in {NoCollector} \cup Collectors,
         ChangeCollector(i, new)
  PROVE  WInv'
  <1>0. CInv /\ Copies
    BY DEF WInv, CInv
  <1>1. CInv'
    BY <1>0, UserKeeps DEF User
  <1>2. UNCHANGED <<obj, watch, cache, cur, mem, fresh, pc, retry>> /\ queue \subseteq queue'
    BY DEF ChangeCollector, Enqueue, NotOperator
  <1>3. Looked'
    BY <1>2 DEF WInv, Looked
  <1>4. Found'
    <2> SUFFICES ASSUME pc = "updateStatus", cur \notin queue', mem.st.ready = "True"
                 PROVE  Selected(mem)' /\ cache[cur].exists /\ cache[cur].spec.sel = mem.spec.sel
      BY <1>2 DEF Found
    <2>1. Selected(mem) /\ cache[cur].exists /\ cache[cur].spec.sel = mem.spec.sel
      BY <1>2 DEF WInv, Found
    <2>2. cur \in Keys
      BY <1>0 DEF CInv, WorkerType
    <2>3. cache[cur] \in Sync
      BY <1>0, <2>1, <2>2, HonestType DEF CInv, Typed
    <2>4. PICK k \in Keys : k = cur
      BY <2>2
    <2>5. matchedCollectors(cache[k].spec.sel) \subseteq matchedCollectors(cache[k].spec.sel)'
      BY <1>0, <2>3, <2>4, SelectionStays
    <2>6. matchedCollectors(mem.spec.sel) \subseteq matchedCollectors(mem.spec.sel)'
      BY <1>2, <2>1, <2>4, <2>5 DEF matchedCollectors
    <2> QED BY <1>2, <2>1, <2>6 DEF Selected
  <1>5. ClaimsAreSelected'
    <2> SUFFICES ASSUME NEW k \in Keys, obj'[k].exists, Quiet(k)', obj'[k].st.ready = "True"
                 PROVE  Selected(obj[k])'
      BY AllSelected
    <2>1. Quiet(k) /\ k \notin queue' /\ watch[k] = <<>>
      BY <1>2 DEF Quiet
    <2>2. cache[k] = obj[k]
      BY <1>0, <2>1 DEF Copies
    <2>3. obj[k] \in Sync
      BY <1>0, <1>2, HonestType DEF CInv, Typed
    <2>4. Selected(obj[k])
      BY <1>2, <2>1 DEF WInv, ClaimsAreSelected, Selected
    <2>5. matchedCollectors(cache[k].spec.sel) \subseteq matchedCollectors(cache[k].spec.sel)'
      BY <1>0, <2>1, <2>2, <2>3, SelectionStays
    <2> QED BY <1>2, <2>2, <2>4, <2>5 DEF Selected, matchedCollectors
  <1> QED BY <1>1, <1>3, <1>4, <1>5 DEF WInv

LEMMA UserWakes ==
  ASSUME IndexFinds, WInv, User
  PROVE  WInv'
  <1>0. obj \in [Keys -> HonestVersion] /\ CInv
    BY DEF WInv, CInv, Typed
  <1>00. CInv'
    BY <1>0, UserKeeps
  <1>1. ASSUME NEW k \in Keys, NEW s \in Specs, CreateSync(k, s)
        PROVE  WInv'
    BY <1>1, NewSyncType, UserWriteWakes DEF CreateSync
  <1>2. ASSUME NEW k \in Keys, NEW s \in Specs, EditSpec(k, s)
        PROVE  WInv'
    <2>1. obj[k] \in Sync /\ Bounded(obj[k].st)
      BY <1>0, <1>2, HonestType DEF EditSpec
    <2>2. [obj[k] EXCEPT !.spec = s, !.gen = @ + 1] \in HonestVersion
      BY <2>1, EditedType
    <2> QED BY <1>2, <2>2, UserWriteWakes DEF EditSpec
  <1>3. ASSUME NEW k \in Keys, DeleteSync(k)
        PROVE  WInv'
    BY <1>3, GoneType, UserWriteWakes DEF DeleteSync
  <1>4. ASSUME NEW records \in Answers, ChangeSource(records)
        PROVE  WInv'
    <2>1. UNCHANGED <<obj, watch, cache, queue, cur, mem, pc, collectors>>
      BY <1>4 DEF ChangeSource, NotOperator, kubeVars
    <2> QED BY <1>00, <2>1, RequestsWake
  <1>5. ASSUME NEW new \in {"bad", "ok"}, ChangeSecret(new)
        PROVE  WInv'
    <2>1. UNCHANGED <<obj, watch, cache, cur, mem, pc, collectors>> /\ queue \subseteq queue'
      BY <1>5 DEF ChangeSecret, NotOperator, Enqueue
    <2> QED BY <1>00, <2>1, RequestsWake
  <1> QED BY <1>1, <1>2, <1>3, <1>4, <1>5, ChangeCollectorWakes DEF User

LEMMA ReconcileWakes ==
  ASSUME WInv, NEW k \in Keys, Reconcile(k)
  PROVE  WInv'
  <1>0. CInv /\ Copies
    BY DEF WInv, CInv
  <1>1. CInv'
    BY <1>0, ReconcileKeeps
  <1>2. /\ cur = "" /\ pc = "idle" /\ queue' = queue \ {k}
        /\ UNCHANGED <<obj, watch, cache, collectors>>
        /\ \/ ~cache[k].exists /\ UNCHANGED <<cur, mem, fresh, pc, retry>>
           \/ /\ cache[k] \in Sync /\ cur' = k
              /\ \/ pc' = "fetch" /\ mem' = cache[k]
                 \/ /\ pc' = "updateStatus"
                    /\ \E reason \in Reasons, t \in BOOLEAN :
                         mem' = [cache[k] EXCEPT !.st = ErrorStatus(cache[k], reason, t)]
    BY <1>0, ReconcileSteps
  <1>3. Looked'
    BY <1>2 DEF Looked
  <1>4. Found'
    <2> SUFFICES ASSUME pc' = "updateStatus" PROVE mem'.st.ready # "True"
      BY DEF Found
    <2>1. cache[k] \in Sync
      BY <1>2
    <2>2. PICK reason \in Reasons, t \in BOOLEAN :
            mem' = [cache[k] EXCEPT !.st = ErrorStatus(cache[k], reason, t)]
      BY <1>2
    <2>3. /\ ErrorStatus(cache[k], reason, t) \in Status
          /\ ErrorStatus(cache[k], reason, t).ready = "False"
      BY <2>1, ErrorStatusFacts
    <2>4. mem'.st = ErrorStatus(cache[k], reason, t)
      BY <2>1, <2>2, <2>3, GraftType
    <2>5. mem'.st.ready = "False"
      BY <2>3, <2>4
    <2> QED BY <2>5
  <1>5. ClaimsAreSelected'
    <2> SUFFICES ASSUME NEW j \in Keys, obj'[j].exists, Quiet(j)', obj'[j].st.ready = "True"
                 PROVE  Selected(obj[j])'
      BY AllSelected
    <2>1. j # k
      BY <1>0, <1>2 DEF Quiet, Copies
    <2>2. Quiet(j)
      BY <1>2, <2>1, KeysAssumption DEF Quiet
    <2> QED BY <1>2, <2>2, OthersStay DEF Settling
  <1> QED BY <1>1, <1>3, <1>4, <1>5 DEF WInv

LEMMA InformWakes ==
  ASSUME WInv, NEW k \in Keys, Inform(k)
  PROVE  WInv'
  <1>0. CInv
    BY DEF WInv
  <1>1. CInv'
    BY <1>0, InformKeeps
  <1>2. /\ queue' = queue \cup {k}
        /\ \A j \in Keys \ {k} : cache'[j] = cache[j] /\ watch'[j] = watch[j]
        /\ UNCHANGED <<obj, cur, mem, pc, collectors>>
    BY <1>0, DeliverFacts DEF Inform, CInv, world
  <1>3. pc # "idle" => cur \in Keys
    BY <1>0 DEF CInv, WorkerType
  <1>4. Looked'
    BY <1>2, <1>3 DEF WInv, Looked
  <1>5. Found'
    BY <1>2, <1>3 DEF WInv, Found, Selected, matchedCollectors
  <1>6. ClaimsAreSelected'
    <2> SUFFICES ASSUME NEW j \in Keys, obj'[j].exists, Quiet(j)', obj'[j].st.ready = "True"
                 PROVE  Selected(obj[j])'
      BY AllSelected
    <2>1. Quiet(j)
      BY <1>2 DEF Quiet
    <2> QED BY <1>2, <2>1, OthersStay DEF Settling
  <1> QED BY <1>1, <1>4, <1>5, <1>6 DEF WInv


LEMMA FetchSourceWakes ==
  ASSUME WInv, FetchSource
  PROVE  WInv'
  <1>0. CInv /\ pc = "fetch" /\ cur \in Keys /\ mem \in Sync
    BY DEF WInv, CInv, WorkerType, FetchSource
  <1>1. CInv'
    BY <1>0, FetchSourceKeeps
  <1>2. UNCHANGED <<obj, watch, cache, queue, cur, collectors>>
    BY DEF FetchSource, Continue, ToWrite, OperatorOnly, world
  <1>3. ClaimsAreSelected'
    <2> SUFFICES ASSUME NEW j \in Keys, obj'[j].exists, Quiet(j)', obj'[j].st.ready = "True"
                 PROVE  Selected(obj[j])'
      BY AllSelected
    <2>1. Quiet(j)
      BY <1>2 DEF Quiet
    <2> QED BY <1>2, <2>1, OthersStay DEF Settling
  <1>4. CASE Continue(mem) /\ pc' = "project"
    <2>1. mem' = mem /\ pc' = "project"
      BY <1>4 DEF Continue
    <2>2. Looked' /\ Found'
      BY <1>0, <1>2, <2>1 DEF WInv, Looked, Found
    <2> QED BY <1>1, <1>3, <2>2 DEF WInv
  <1>5. ASSUME NEW t \in BOOLEAN, ToWrite(ErrorStatus(mem, "SourceFailed", t), TRUE)
        PROVE  WInv'
    <2>1. mem' = [mem EXCEPT !.st = ErrorStatus(mem, "SourceFailed", t)] /\ pc' = "updateStatus"
      BY <1>5 DEF ToWrite, Continue
    <2>2. "SourceFailed" \in Reasons
      BY DEF Reasons
    <2>3. /\ ErrorStatus(mem, "SourceFailed", t) \in Status
          /\ ErrorStatus(mem, "SourceFailed", t).ready = "False"
      BY <1>0, <2>2, ErrorStatusFacts
    <2>4. mem'.st = ErrorStatus(mem, "SourceFailed", t)
      BY <1>0, <2>1, <2>3, GraftType
    <2>5. mem'.st.ready # "True"
      BY <2>3, <2>4
    <2>6. Looked' /\ Found'
      BY <2>1, <2>5 DEF Looked, Found
    <2> QED BY <1>1, <1>3, <2>6 DEF WInv
  <1> QED BY <1>4, <1>5 DEF FetchSource

\* Claims that are written are for the Collectors matched when they were computed;
\* claims that are left alone are the same.
LEMMA ProjectWakes ==
  ASSUME WInv, Project
  PROVE  WInv'
  <1> DEFINE matched == matchedCollectors(mem.spec.sel)
             owned == projectRecords(answer, mem.spec.mapping, matched)
             seen == Len(answer)
             applied == recordsApplied(answer, mem.spec.mapping, matched)
  <1>0. CInv /\ Copies
    BY DEF WInv, CInv
  <1>1. CInv'
    BY <1>0, ProjectKeeps
  <1>2. /\ pc = "project" /\ cur \in Keys /\ mem \in Sync /\ OperatorOnly
        /\ owned \in Ownership /\ seen \in Nat /\ applied \in Nat
        /\ Claimed(owned) \subseteq matched
    BY <1>0, ProjectSteps
  <1>3. UNCHANGED <<obj, watch, cache, collectors>>
    <2>1. UNCHANGED collectors
      BY <1>2 DEF OperatorOnly, world
    <2>2. UNCHANGED <<obj, watch, cache>>
      BY DEF Project, NoOp, ListFailed, JustReturn, ToWrite, Continue
    <2> QED BY <2>1, <2>2
  <1>4. cur \notin queue => mem = cache[cur]
    BY <1>2 DEF WInv, Looked
  <1>5. ASSUME NEW again \in BOOLEAN, JustReturn(again), pc' = "idle",
               ~again /\ mem.st.ready = "True" => Selected(mem)
        PROVE  WInv'
    <2>1. cur' = "" /\ queue \subseteq queue' /\ (again => cur \in queue')
      BY <1>5 DEF JustReturn, Return
    <2>2. Looked' /\ Found'
      BY <1>5 DEF Looked, Found
    <2>3. ClaimsAreSelected'
      <3> SUFFICES ASSUME NEW j \in Keys, obj'[j].exists, Quiet(j)', obj'[j].st.ready = "True"
                   PROVE  Selected(obj[j])'
        BY AllSelected
      <3>1. CASE j # cur
        <4>1. Quiet(j)
          BY <1>3, <2>1, <3>1 DEF Quiet
        <4> QED BY <1>3, <4>1, OthersStay DEF Settling
      <3>2. CASE j = cur
        <4>1. ~again /\ j \notin queue /\ watch[j] = <<>>
          BY <1>3, <2>1, <3>2 DEF Quiet
        <4>2. mem = obj[j]
          BY <1>0, <1>4, <3>2, <4>1 DEF Copies
        <4>3. Selected(obj[j])
          BY <1>3, <1>5, <4>1, <4>2
        <4> QED BY <1>3, <4>3 DEF Selected, matchedCollectors
      <3> QED BY <3>1, <3>2
    <2> QED BY <1>1, <2>2, <2>3 DEF WInv
  <1>6. ASSUME NEW st \in Status, ToWrite(st, FALSE),
               st.ready = "True" => Claimed(st.owned) \subseteq matched
        PROVE  WInv'
    <2>1. mem' = [mem EXCEPT !.st = st] /\ pc' = "updateStatus" /\ UNCHANGED <<queue, cur>>
      BY <1>6 DEF ToWrite, Continue
    <2>2. mem'.spec = mem.spec /\ mem'.st = st
      BY <1>2, <1>6, <2>1, GraftType
    <2>3. Looked'
      BY <2>1 DEF Looked
    <2>4. Found'
      <3> SUFFICES ASSUME cur \notin queue, st.ready = "True"
                   PROVE  Selected(mem)' /\ cache[cur].exists /\ cache[cur].spec.sel = mem'.spec.sel
        BY <1>3, <2>1, <2>2 DEF Found
      <3>1. cache[cur].exists /\ cache[cur].spec.sel = mem'.spec.sel
        BY <1>2, <1>4, <2>2 DEF Sync
      <3>2. Selected(mem)'
        BY <1>3, <1>6, <2>2 DEF Selected, matchedCollectors
      <3> QED BY <3>1, <3>2
    <2>5. ClaimsAreSelected'
      <3> SUFFICES ASSUME NEW j \in Keys, obj'[j].exists, Quiet(j)', obj'[j].st.ready = "True"
                   PROVE  Selected(obj[j])'
        BY AllSelected
      <3>1. Quiet(j)
        BY <1>3, <2>1 DEF Quiet
      <3> QED BY <1>3, <3>1, OthersStay DEF Settling
    <2> QED BY <1>1, <2>3, <2>4, <2>5 DEF WInv
  <1>7. CASE ListFailed
    <2>1. JustReturn(TRUE) /\ pc' = "idle"
      BY <1>7 DEF ListFailed
    <2> QED BY <1>5, <2>1
  <1>8. CASE \E t \in BOOLEAN : ToWrite(StalledStatus(mem, t), FALSE)
    <2>1. PICK t \in BOOLEAN : ToWrite(StalledStatus(mem, t), FALSE)
      BY <1>8
    <2>2. StalledStatus(mem, t) \in Status /\ StalledStatus(mem, t).ready # "True"
      BY <1>2, StalledStatusFacts
    <2> QED BY <1>6, <2>1, <2>2
  <1>9. CASE externalSyncCapExceededStatusUnchanged(mem, seen, applied) /\ NoOp
    <2>1. JustReturn(FALSE) /\ pc' = "idle"
      BY <1>9 DEF NoOp
    <2>2. mem.st.ready # "True"
      BY <1>9 DEF externalSyncCapExceededStatusUnchanged
    <2> QED BY <1>5, <2>1, <2>2
  <1>10. CASE ToWrite(ExceededStatus(mem, seen, applied), FALSE)
    <2> HIDE DEF seen, applied, matched
    <2>1. /\ ExceededStatus(mem, seen, applied) \in Status
          /\ ExceededStatus(mem, seen, applied).ready # "True"
      BY <1>2, ExceededStatusFacts
    <2> QED BY <1>6, <1>10, <2>1
  <1>11. CASE externalSyncStatusUnchanged(mem, seen, applied, owned) /\ NoOp
    <2>1. JustReturn(FALSE) /\ pc' = "idle"
      BY <1>11 DEF NoOp
    <2>2. mem.st.owned \in Ownership
      BY <1>2, SpecType, StatusParts
    <2>3. DOMAIN mem.st.owned = Ids
      BY <2>2 DEF Ownership
    <2> HIDE DEF seen, applied, owned
    <2>4. \A i \in Ids : mem.st.owned[i].entry = owned[i].entry
      BY <1>11, <2>3 DEF externalSyncStatusUnchanged, ownedKeyEntriesEqual
    <2>5. Claimed(mem.st.owned) = Claimed(owned)
      BY <2>4 DEF Claimed
    <2>6. Selected(mem)
      BY <1>2, <2>5 DEF Selected
    <2> QED BY <1>5, <2>1, <2>6
  <1>12. CASE ToWrite(SyncedStatus(mem, seen, applied, owned), FALSE)
    <2> HIDE DEF seen, applied, owned
    <2>1. /\ SyncedStatus(mem, seen, applied, owned) \in Status
          /\ SyncedStatus(mem, seen, applied, owned).owned = owned
      BY <1>2, SyncedStatusFacts
    <2> QED BY <1>2, <1>6, <1>12, <2>1
  <1> QED BY <1>0, <1>7, <1>8, <1>9, <1>10, <1>11, <1>12, ProjectSteps

\* A write that changes the status wakes the controller up again; one that changes
\* nothing leaves claims that are right.
LEMMA UpdateStatusWakes ==
  ASSUME WInv, UpdateStatus
  PROVE  WInv'
  <1> DEFINE o == [obj[cur] EXCEPT !.st = mem.st]
  <1>0. CInv
    BY DEF WInv
  <1>1. CInv'
    BY <1>0, UpdateStatusKeeps
  <1>2. /\ pc = "updateStatus" /\ cur \in Keys /\ mem \in Sync
        /\ pc' = "idle" /\ cur' = ""
        /\ UNCHANGED <<cache, collectors>>
        /\ \/ UNCHANGED <<obj, watch>> /\ queue' = queue \cup {cur}
           \/ /\ fresh /\ Store(cur, o)
              /\ \/ queue' = queue \cup {cur}
                 \/ queue' = queue
    BY <1>0, UpdateStatusSteps
  <1>3. Looked' /\ Found'
    BY <1>2 DEF Looked, Found
  <1>4. CASE UNCHANGED <<obj, watch>> /\ queue' = queue \cup {cur}
    <2>1. ClaimsAreSelected'
      <3> SUFFICES ASSUME NEW j \in Keys, obj'[j].exists, Quiet(j)', obj'[j].st.ready = "True"
                   PROVE  Selected(obj[j])'
        BY AllSelected
      <3>1. Quiet(j)
        BY <1>2, <1>4 DEF Quiet
      <3> QED BY <1>2, <1>4, <3>1, OthersStay DEF Settling
    <2> QED BY <1>1, <1>3, <2>1 DEF WInv
  <1>5. CASE /\ fresh /\ Store(cur, o)
             /\ queue' = queue \cup {cur} \/ queue' = queue
    <2>1. /\ mem.spec = obj[cur].spec
          /\ o \in HonestVersion /\ o.spec = obj[cur].spec /\ o.st = mem.st
      BY <1>0, <1>2, <1>5, WrittenType
    <2> HIDE DEF o
    <2>2. /\ obj'[cur] = o
          /\ \A j \in Keys \ {cur} : obj'[j] = obj[j] /\ watch'[j] = watch[j]
      BY <1>0, <1>2, <1>5, <2>1, StoreFacts DEF CInv
    <2>3. ClaimsAreSelected'
      <3> SUFFICES ASSUME NEW j \in Keys, obj'[j].exists, Quiet(j)', obj'[j].st.ready = "True"
                   PROVE  Selected(obj[j])'
        BY AllSelected
      <3>1. CASE j # cur
        <4>1. Quiet(j)
          BY <1>2, <1>5, <2>2, <3>1 DEF Quiet
        <4> QED BY <1>2, <2>2, <3>1, <4>1, OthersStay DEF Settling
      <3>2. CASE j = cur
        <4>1. cur \notin queue
          BY <1>5, <3>2 DEF Quiet
        <4>2. obj'[j].st = mem.st /\ obj'[j].spec = mem.spec
          BY <2>1, <2>2, <3>2
        <4>3. Selected(mem)
          BY <1>2, <4>1, <4>2 DEF WInv, Found
        <4> QED BY <1>2, <4>2, <4>3 DEF Selected, matchedCollectors
      <3> QED BY <3>1, <3>2
    <2> QED BY <1>1, <1>3, <2>3 DEF WInv
  <1> QED BY <1>2, <1>4, <1>5

LEMMA RestartWakes ==
  ASSUME WInv, Restart
  PROVE  WInv'
  <1>1. CInv'
    BY RestartKeeps DEF WInv
  <1>2. pc' = "idle" /\ queue' = {k \in Keys : obj[k].exists} /\ obj' = obj
    BY DEF Restart, KubeRestart
  <1>3. Looked' /\ Found' /\ ClaimsAreSelected'
    BY <1>2 DEF Looked, Found, ClaimsAreSelected, Quiet
  <1> QED BY <1>1, <1>3 DEF WInv

LEMMA NextWakes ==
  ASSUME IndexFinds, WInv, [Next]_vars
  PROVE  WInv'
  <1>0. CInv'
    BY NextKeeps DEF WInv
  <1>1. CASE UNCHANGED vars
    <2>1. UNCHANGED <<obj, watch, cache, queue, cur, mem, pc, collectors>>
      BY <1>1 DEF vars, kubeVars, world
    <2> QED BY <1>0, <2>1, RequestsWake
  <1>2. ASSUME NEW k \in Keys, ScheduledRun(k)
        PROVE  WInv'
    <2>1. UNCHANGED <<obj, watch, cache, cur, mem, pc, collectors>> /\ queue \subseteq queue'
      BY <1>2 DEF ScheduledRun, Enqueue, world
    <2> QED BY <1>0, <2>1, RequestsWake
  <1>3. CASE Next
    BY <1>2, <1>3, UserWakes, ReconcileWakes, InformWakes, FetchSourceWakes, ProjectWakes,
       UpdateStatusWakes, RestartWakes DEF Next, Worker
  <1> QED BY <1>1, <1>3

LEMMA ServedAreFound ==
  ASSUME \A s \in Specs : Served(s.sel)
  PROVE  IndexFinds
  <1>1. \A c \in Collectors : c.exists
    BY ExternalSyncAssumption
  <1> QED BY <1>1, IndexFindsServed DEF IndexFinds

\* No change of a Collector is overlooked, if every selector is one the index serves:
\* a Ready sync that only its schedule will wake claims nothing for a Collector that
\* it does not select any more.  (IDs besides matchers break it: see Served.)
THEOREM NoClaimOutlivesSelection ==
  ASSUME \A s \in Specs : Served(s.sel)
  PROVE  Spec => []ClaimsAreSelected
  <1>1. Init => WInv
    BY WInit
  <1>2. WInv /\ [Next]_vars => WInv'
    BY NextWakes, ServedAreFound
  <1>3. WInv => ClaimsAreSelected
    BY DEF WInv
  <1> QED BY <1>1, <1>2, <1>3, PTL DEF Spec


================================================================================
