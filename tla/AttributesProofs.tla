-------------------------- MODULE AttributesProofs --------------------------
(***************************************************************************)
(* What the attribute algorithms compute, for every set of keys and values *)
(* and whatever Fleet holds, and which selectors the index serves.         *)
(***************************************************************************)
EXTENDS Attributes, TLAPS

\* What Diff promises: wanted keys get their value, owned keys that are no longer
\* wanted go, and every other key stays as it is.
Reconciled(desired, observed, owned) ==
    [a \in Attrs |->
        IF desired[a] # Absent THEN desired[a]
        ELSE IF a \in owned THEN Absent
        ELSE observed[a]]

-----------------------------------------------------------------------------

\* The operations that address a key.
Hits(ops, a) == {o \in ops : Addresses(o.path, a)}

\* The operations of Diff that address a key: none if the key is as it should be,
\* otherwise exactly one.
LEMMA DiffHits ==
    ASSUME NEW desired, NEW observed, NEW owned \in SUBSET Attrs, NEW a \in Attrs
    PROVE  LET hits == Hits(Diff(desired, observed, owned), a)
           IN  /\ desired[a] # Absent /\ observed[a] = Absent
                  => hits = {[op |-> "ADD", path |-> remoteAttrPath(a), value |-> desired[a]]}
               /\ desired[a] # Absent /\ observed[a] \notin {Absent, desired[a]}
                  => hits = {[op |-> "REPLACE", path |-> remoteAttrPath(a), value |-> desired[a]]}
               /\ desired[a] = Absent /\ observed[a] # Absent /\ a \in owned
                  => hits = {[op |-> "REMOVE", path |-> remoteAttrPath(a), value |-> ""]}
               /\ \/ desired[a] # Absent /\ observed[a] = desired[a]
                  \/ desired[a] = Absent /\ (observed[a] = Absent \/ a \notin owned)
                  => hits = {}
<1> DEFINE ops == Diff(desired, observed, owned)
           Add(b) == [op |-> "ADD", path |-> remoteAttrPath(b), value |-> desired[b]]
           Rep(b) == [op |-> "REPLACE", path |-> remoteAttrPath(b), value |-> desired[b]]
           Rem(b) == [op |-> "REMOVE", path |-> remoteAttrPath(b), value |-> ""]
           ToAdd == {b \in Attrs : desired[b] # Absent /\ observed[b] = Absent}
           ToRep == {b \in Attrs : desired[b] # Absent /\ observed[b] \notin {Absent, desired[b]}}
           ToRem == {b \in owned : desired[b] = Absent /\ observed[b] # Absent}
<1>1. ops = {Add(b) : b \in ToAdd} \cup {Rep(b) : b \in ToRep} \cup {Rem(b) : b \in ToRem}
    BY DEF Diff
<1>2. ASSUME NEW b
      PROVE  /\ Addresses(Add(b).path, a) <=> b = a
             /\ Addresses(Rep(b).path, a) <=> b = a
             /\ Addresses(Rem(b).path, a) <=> b = a
    BY DEF Addresses, remoteAttrPath
<1>3. /\ a \in ToAdd <=> desired[a] # Absent /\ observed[a] = Absent
      /\ a \in ToRep <=> desired[a] # Absent /\ observed[a] \notin {Absent, desired[a]}
      /\ a \in ToRem <=> a \in owned /\ desired[a] = Absent /\ observed[a] # Absent
    OBVIOUS
<1> HIDE DEF ops, Add, Rep, Rem, ToAdd, ToRep, ToRem
<1>4. ASSUME NEW o
      PROVE  o \in Hits(ops, a) <=> \/ a \in ToAdd /\ o = Add(a)
                                    \/ a \in ToRep /\ o = Rep(a)
                                    \/ a \in ToRem /\ o = Rem(a)
    <2>1. o \in Hits(ops, a) <=> o \in ops /\ Addresses(o.path, a)
        BY Zenon DEF Hits
    <2>2. o \in ops <=> \/ \E b \in ToAdd : o = Add(b)
                        \/ \E b \in ToRep : o = Rep(b)
                        \/ \E b \in ToRem : o = Rem(b)
        BY <1>1, Zenon
    <2> QED BY <1>2, <2>1, <2>2, Zenon
<1>5. /\ a \in ToAdd /\ a \notin ToRep /\ a \notin ToRem => Hits(ops, a) = {Add(a)}
      /\ a \notin ToAdd /\ a \in ToRep /\ a \notin ToRem => Hits(ops, a) = {Rep(a)}
      /\ a \notin ToAdd /\ a \notin ToRep /\ a \in ToRem => Hits(ops, a) = {Rem(a)}
      /\ a \notin ToAdd /\ a \notin ToRep /\ a \notin ToRem => Hits(ops, a) = {}
    BY <1>4, Zenon
<1>6. /\ desired[a] # Absent /\ observed[a] = Absent => Hits(ops, a) = {Add(a)}
      /\ desired[a] # Absent /\ observed[a] \notin {Absent, desired[a]} => Hits(ops, a) = {Rep(a)}
      /\ desired[a] = Absent /\ observed[a] # Absent /\ a \in owned => Hits(ops, a) = {Rem(a)}
      /\ \/ desired[a] # Absent /\ observed[a] = desired[a]
         \/ desired[a] = Absent /\ (observed[a] = Absent \/ a \notin owned)
         => Hits(ops, a) = {}
    BY <1>3, <1>5
<1> QED
    BY <1>6, Zenon DEF ops, Add, Rep, Rem

\* Applying the operations of Diff leads exactly to what is promised: in particular
\* keys that are neither wanted nor owned keep the value another writer gave them.
THEOREM DiffIsExact ==
    ASSUME NEW desired \in AttrMap, NEW observed \in AttrMap, NEW owned \in SUBSET Attrs
    PROVE  Applied(Diff(desired, observed, owned), observed)
           = Reconciled(desired, observed, owned)
<1> SUFFICES ASSUME NEW a \in Attrs
             PROVE  Applied(Diff(desired, observed, owned), observed)[a]
                    = Reconciled(desired, observed, owned)[a]
    BY DEF Applied, Reconciled
<1> DEFINE hits == Hits(Diff(desired, observed, owned), a)
<1>1. Applied(Diff(desired, observed, owned), observed)[a]
      = IF hits = {} THEN observed[a]
        ELSE LET o == CHOOSE o \in hits : TRUE
             IN  IF o.op = "REMOVE" THEN Absent ELSE o.value
    BY DEF Applied, Hits
<1>2. \A x : hits = {x} => (CHOOSE o \in hits : TRUE) = x /\ hits # {}
    OBVIOUS
<1> HIDE DEF hits
<1>3. Reconciled(desired, observed, owned)[a]
      = IF desired[a] # Absent THEN desired[a]
        ELSE IF a \in owned THEN Absent ELSE observed[a]
    BY DEF Reconciled
<1>4. CASE desired[a] # Absent /\ observed[a] = Absent
    <2> DEFINE x == [op |-> "ADD", path |-> remoteAttrPath(a), value |-> desired[a]]
    <2>1. hits = {x}
        BY <1>4, DiffHits, Zenon DEF hits
    <2>2. x.op = "ADD" /\ x.value = desired[a]
        OBVIOUS
    <2> HIDE DEF x
    <2> QED BY <1>1, <1>2, <1>3, <1>4, <2>1, <2>2
<1>5. CASE desired[a] # Absent /\ observed[a] \notin {Absent, desired[a]}
    <2> DEFINE x == [op |-> "REPLACE", path |-> remoteAttrPath(a), value |-> desired[a]]
    <2>1. hits = {x}
        BY <1>5, DiffHits, Zenon DEF hits
    <2>2. x.op = "REPLACE" /\ x.value = desired[a]
        OBVIOUS
    <2> HIDE DEF x
    <2> QED BY <1>1, <1>2, <1>3, <1>5, <2>1, <2>2
<1>6. CASE desired[a] = Absent /\ observed[a] # Absent /\ a \in owned
    <2> DEFINE x == [op |-> "REMOVE", path |-> remoteAttrPath(a), value |-> ""]
    <2>1. hits = {x}
        BY <1>6, DiffHits, Zenon DEF hits
    <2>2. x.op = "REMOVE" /\ x.value = ""
        OBVIOUS
    <2> HIDE DEF x
    <2> QED BY <1>1, <1>2, <1>3, <1>6, <2>1, <2>2
<1>7. CASE \/ desired[a] # Absent /\ observed[a] = desired[a]
           \/ desired[a] = Absent /\ (observed[a] = Absent \/ a \notin owned)
    <2>1. hits = {}
        BY <1>7, DiffHits, Zenon DEF hits
    <2> QED BY <1>1, <1>3, <1>7, <2>1
<1> QED BY <1>4, <1>5, <1>6, <1>7

\* A second pass over the result finds nothing to do: reconciling is idempotent.
THEOREM DiffIsIdempotent ==
    ASSUME NEW desired \in AttrMap, NEW observed \in AttrMap, NEW owned \in SUBSET Attrs
    PROVE  Diff(desired, Applied(Diff(desired, observed, owned), observed), owned) = {}
<1> DEFINE now == Reconciled(desired, observed, owned)
<1>1. \A a \in Attrs : /\ desired[a] # Absent => now[a] = desired[a]
                       /\ desired[a] = Absent /\ a \in owned => now[a] = Absent
    BY DEF Reconciled
<1> HIDE DEF now
<1>2. /\ {b \in Attrs : desired[b] # Absent /\ now[b] = Absent} = {}
      /\ {b \in Attrs : desired[b] # Absent /\ now[b] \notin {Absent, desired[b]}} = {}
      /\ {b \in owned : desired[b] = Absent /\ now[b] # Absent} = {}
    BY <1>1
<1>3. Diff(desired, now, owned) = {}
    BY <1>2, Zenon DEF Diff
<1> QED BY <1>3, DiffIsExact DEF now

-----------------------------------------------------------------------------

\* The selectors the index is made for: IDs or matchers but not both, and no
\* matcher that a missing key satisfies, unless it is a negation.
Served(sel) ==
    /\ sel.ids = {} \/ sel.matchers = {}
    /\ \A m \in sel.matchers : m.op \in {"=", "=~"} => "" \notin m.vals

\* A Collector's event finds every policy or sync of such a selector that matches it,
\* through a key, the collector ID or one of the two synthetic buckets.
THEOREM IndexFindsServed ==
    ASSUME NEW sel, Served(sel), NEW id, NEW c, c.exists, Match(sel, id, c.local)
    PROVE  Affected(sel, c)
<1>1. CASE id \in sel.ids
    <2>1. CollectorIDsOnlyKey \in indexKeys(sel)
        BY <1>1 DEF Served, indexKeys
    <2> QED BY <2>1 DEF Affected, collectorKeys
<1>2. CASE sel.matchers # {} /\ \A m \in sel.matchers : matchOne(m, id, c.local)
    <2>1. PICK m \in sel.matchers : TRUE
        BY <1>2
    <2>2. CASE m.op \in {"!=", "!~"}
        <3>1. HasNegationKey \in MatcherKeys(sel.matchers)
            BY <2>1, <2>2 DEF MatcherKeys
        <3> QED BY <3>1 DEF Affected, indexKeys, collectorKeys
    <2>3. CASE m.op \notin {"!=", "!~"}
        <3>1. m.key = "collector.id" \/ m.key \in DOMAIN c.local
            <4> SUFFICES ASSUME m.key # "collector.id", m.key \notin DOMAIN c.local PROVE FALSE
                OBVIOUS
            <4>1. m.op \in {"=", "!=", "=~", "!~"} /\ ("" \in m.vals <=> m.op \in {"=", "=~"})
                BY <1>2, <2>1 DEF matchOne
            <4> QED BY <2>1, <2>3, <4>1 DEF Served
        <3>2. m.key \in indexKeys(sel)
            BY <2>1 DEF indexKeys, MatcherKeys
        <3> QED BY <3>1, <3>2 DEF Affected, collectorKeys
    <2> QED BY <2>2, <2>3
<1> QED BY <1>1, <1>2 DEF Match

=============================================================================
