------------------------------- MODULE Claims -------------------------------
(***************************************************************************)
(* How the records of an external source become the claims of an           *)
(* ExternalAttributeSync: projectRecords and ownedKeysToStatus of          *)
(* internal/controller/external_sync_controller.go.                        *)
(*                                                                         *)
(* A record is [id, fields]: id is the value of the mapping's              *)
(* collectorIDField, "" if there is none, and fields[f] a value, Absent,   *)
(* or Null for a field that is present and has no string form.  A mapping  *)
(* is [fields, required]: fields[a] is the source field of attribute a, "" *)
(* if the attribute is not mapped.                                         *)
(***************************************************************************)
EXTENDS Attributes

CONSTANTS
    Ids,         \* collector IDs
    Fields,      \* fields of a record
    MaxOwned     \* maxOwnedKeys

Null == "<null>"

ASSUME ClaimsAssumption == MaxOwned \in Nat /\ Null \notin Vals /\ "" \notin Fields

Record == [id : Ids \cup {""}, fields : [Fields -> Vals \cup {Absent, Null}]]

Mapping == [fields : [Attrs -> Fields \cup {""}], required : SUBSET Fields]

Ownership == [Ids -> {None} \cup {Entry(m) : m \in AttrMap}]

NoClaims == [i \in Ids |-> None]

Claimed(owned) == {i \in Ids : owned[i].entry}

-----------------------------------------------------------------------------

hasAllRequired(record, required) == \A f \in required : record.fields[f] # Absent

\* Values without a string form are skipped, like missing ones.
FieldString(record, f) ==
    IF f = "" \/ record.fields[f] = Null THEN Absent ELSE record.fields[f]

mappedAttrs(record, mapping) == [a \in Attrs |-> FieldString(record, mapping.fields[a])]

\* Which records count.
applies(record, mapping, matched) ==
    /\ record.id \in matched
    /\ hasAllRequired(record, mapping.required)
    /\ mappedAttrs(record, mapping) # NoAttrs

appliedAt(records, mapping, matched) ==
    {n \in DOMAIN records : applies(records[n], mapping, matched)}

recordsApplied(records, mapping, matched) == Cardinality(appliedAt(records, mapping, matched))

\* The last record of a collector wins.
projectRecords(records, mapping, matched) ==
    [i \in Ids |->
        LET at == {n \in appliedAt(records, mapping, matched) : records[n].id = i} IN
        IF at = {} THEN None
        ELSE Entry(mappedAttrs(records[CHOOSE n \in at : \A o \in at : o <= n], mapping))]

\* Faulty variant: off by one.
ownedKeysExceededByTwo(owned) == Cardinality(Claimed(owned)) > MaxOwned + 1

ownedKeysExceeded(owned) == Cardinality(Claimed(owned)) > MaxOwned

=============================================================================
