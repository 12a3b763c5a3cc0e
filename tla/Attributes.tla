----------------------------- MODULE Attributes -----------------------------
(***************************************************************************)
(* The pure helpers of internal/controller/attributes: Merge and Diff of   *)
(* attribute maps, selectors and the keys they are indexed by, and what    *)
(* Fleet does with the operations Diff returns.                            *)
(*                                                                         *)
(* An attribute map gives every key a value or Absent; "" is a value.  A   *)
(* Go slice whose order is fixed by sorting is a set here.  A matcher is   *)
(* [key, op, vals]: for = and != vals holds the one value, for =~ and !~   *)
(* the values the regular expression matches.                              *)
(***************************************************************************)
EXTENDS Integers, Sequences, FiniteSets

CONSTANTS
    Attrs,      \* attribute keys
    Vals,       \* attribute values
    Special,    \* keys with a "/" or "~", which a path has to escape
    Misread     \* Misread[a]: the keys that an unescaped path of a in Special addresses

Absent == "<absent>"

ASSUME AttributesAssumption ==
    /\ Absent \notin Vals
    /\ Special \subseteq Attrs /\ Misread \in [Special -> SUBSET Attrs]

AttrMap == [Attrs -> Vals \cup {Absent}]

NoAttrs == [a \in Attrs |-> Absent]

-----------------------------------------------------------------------------
(* merge.go.  A layer is [kind, owner, attrs].                             *)

NoOwner == [kind |-> "", owner |-> 0, value |-> Absent]

KeyOwnership(layer, a) ==
    IF layer.attrs[a] = Absent THEN NoOwner
    ELSE [kind |-> layer.kind, owner |-> layer.owner, value |-> layer.attrs[a]]

\* The owner of every key, NoOwner where no layer claims it: the first layer wins.
Merge(first, second, third) ==
    [a \in Attrs |->
        IF first.attrs[a] # Absent THEN KeyOwnership(first, a)
        ELSE IF second.attrs[a] # Absent THEN KeyOwnership(second, a)
        ELSE KeyOwnership(third, a)]

\* The desired map that Merge returns beside the owners.
Desired(owners) == [a \in Attrs |-> owners[a].value]

allOwnedKeys(owners) == {a \in Attrs : owners[a] # NoOwner}

-----------------------------------------------------------------------------
(* diff.go.                                                                *)

remoteAttrPath(a) == [key |-> a, escaped |-> TRUE]

\* Faulty variant: every observed key that is not desired is removed.
DiffEverything(desired, observed, previouslyOwned) ==
    {[op |-> "ADD", path |-> remoteAttrPath(a), value |-> desired[a]] :
        a \in {b \in Attrs : desired[b] # Absent /\ observed[b] = Absent}}
    \cup
    {[op |-> "REPLACE", path |-> remoteAttrPath(a), value |-> desired[a]] :
        a \in {b \in Attrs : desired[b] # Absent /\ observed[b] \notin {Absent, desired[b]}}}
    \cup
    {[op |-> "REMOVE", path |-> remoteAttrPath(a), value |-> ""] :
        a \in {b \in Attrs : desired[b] = Absent /\ observed[b] # Absent}}

\* Faulty variant: a key that is present is not looked at again.
DiffNoReplace(desired, observed, previouslyOwned) ==
    {[op |-> "ADD", path |-> remoteAttrPath(a), value |-> desired[a]] :
        a \in {b \in Attrs : desired[b] # Absent /\ observed[b] = Absent}}
    \cup
    {[op |-> "REMOVE", path |-> remoteAttrPath(a), value |-> ""] :
        a \in {b \in previouslyOwned : desired[b] = Absent /\ observed[b] # Absent}}

Diff(desired, observed, previouslyOwned) ==
    {[op |-> "ADD", path |-> remoteAttrPath(a), value |-> desired[a]] :
        a \in {b \in Attrs : desired[b] # Absent /\ observed[b] = Absent}}
    \cup
    {[op |-> "REPLACE", path |-> remoteAttrPath(a), value |-> desired[a]] :
        a \in {b \in Attrs : desired[b] # Absent /\ observed[b] \notin {Absent, desired[b]}}}
    \cup
    {[op |-> "REMOVE", path |-> remoteAttrPath(a), value |-> ""] :
        a \in {b \in previouslyOwned : desired[b] = Absent /\ observed[b] # Absent}}

-----------------------------------------------------------------------------
(* BulkUpdateCollectors, as far as the operator relies on it: all or       *)
(* nothing, ADD and REPLACE set, REMOVE of what is not there does nothing. *)

\* Does path address key a?  Without escaping the path of "x~1y" is read as that of
\* "x/y", and the path of "x/y" as one to nothing.
Addresses(path, a) ==
    IF path.escaped \/ path.key \notin Special THEN a = path.key ELSE a \in Misread[path.key]

Applied(ops, remote) ==
    [a \in Attrs |->
        LET hits == {o \in ops : Addresses(o.path, a)} IN
        IF hits = {} THEN remote[a]
        ELSE LET o == CHOOSE o \in hits : TRUE
             IN  IF o.op = "REMOVE" THEN Absent ELSE o.value]

-----------------------------------------------------------------------------
(* match.go.  A selector is [ids, matchers].                               *)

matchOne(m, id, local) ==
    LET got == CASE m.key = "collector.id" -> id
                 [] m.key # "collector.id" /\ m.key \in DOMAIN local -> local[m.key]
                 [] OTHER -> ""
    IN  /\ m.op \in {"=", "!=", "=~", "!~"}    \* otherwise it did not parse
        /\ (got \in m.vals) <=> (m.op \in {"=", "=~"})

Match(sel, id, local) ==
    \/ id \in sel.ids
    \/ sel.matchers # {} /\ \A m \in sel.matchers : matchOne(m, id, local)

-----------------------------------------------------------------------------
(* matcher_keys.go, and the index by which a Collector event finds the     *)
(* policies and syncs that may select that Collector.                      *)

HasNegationKey == "__has_negation__"
CollectorIDsOnlyKey == "__collector_ids_only__"

MatcherKeys(matchers) ==
    {m.key : m \in matchers}
    \cup {HasNegationKey : m \in {n \in matchers : n.op \in {"!=", "!~"}}}

\* Faulty variant: no bucket for selectors without matchers.
indexKeysMatchersOnly(sel) == MatcherKeys(sel.matchers)

indexKeys(sel) ==
    MatcherKeys(sel.matchers)
    \cup (IF sel.matchers = {} /\ sel.ids # {} THEN {CollectorIDsOnlyKey} ELSE {})

\* The buckets that are looked up for a Collector c = [exists, local, remote]: local
\* is status.localAttributes, remote the set of keys of spec.remoteAttributes.
collectorKeys(c) ==
    c.remote \cup DOMAIN c.local \cup {"collector.id", HasNegationKey, CollectorIDsOnlyKey}

Affected(sel, c) == c.exists /\ indexKeys(sel) \cap collectorKeys(c) # {}

-----------------------------------------------------------------------------
(* How the layers of one kind become one: externalSyncLayerForCollector    *)
(* and policyLayerForCollector differ in which claims S they gather, in    *)
(* the order Before and in the attributes AttrsOf of a claim.              *)

First(S, Before(_, _)) == CHOOSE x \in S : \A y \in S : x = y \/ Before(x, y)

LayerOf(kind, S, Before(_, _), AttrsOf(_)) ==
    [kind |-> kind,
     owner |-> IF S = {} THEN 0 ELSE First(S, Before),
     attrs |-> [a \in Attrs |->
                  LET claim == {x \in S : AttrsOf(x)[a] # Absent} IN
                  IF claim = {} THEN Absent ELSE AttrsOf(First(claim, Before))[a]]]

-----------------------------------------------------------------------------
(* status.ownedKeys of an ExternalAttributeSync: claims[i] is the entry    *)
(* for collector i, None if it has none.                                   *)

None == [entry |-> FALSE]

Entry(attrs) == [entry |-> TRUE, attrs |-> attrs]

KeysOf(attrs) == {a \in Attrs : attrs[a] # Absent}

\* Looking up a key that is not there gives "".
Lookup(attrs, a) == IF attrs[a] = Absent THEN "" ELSE attrs[a]

ownedKeyEntriesEqual(old, new) ==
    \A i \in DOMAIN old :
        /\ old[i].entry = new[i].entry
        /\ old[i].entry =>
            /\ Cardinality(KeysOf(old[i].attrs)) = Cardinality(KeysOf(new[i].attrs))
            /\ \A a \in KeysOf(old[i].attrs) : Lookup(new[i].attrs, a) = old[i].attrs[a]

=============================================================================
