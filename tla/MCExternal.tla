----------------------------- MODULE MCExternal -----------------------------
(* Instances of ExternalSync for TLC. *)
EXTENDS ExternalSync

NothingMisread == [a \in Special |-> {}]

R(i, v, w) == [id |-> i, fields |-> [f \in Fields |-> IF f = "f" THEN v ELSE w]]

\* No record; two records of one collector, the later one incomplete; two collectors,
\* and a record without a usable value.
SomeAnswers == {<<>>, <<R("c", "1", "1"), R("c", "2", Absent)>>,
                <<R("c", "1", "1"), R("d", "2", Null), R("d", Null, "1")>>}

Plain == [fields |-> [a \in Attrs |-> "f"], required |-> {}]
Strict == [fields |-> [a \in Attrs |-> "f"], required |-> {"g"}]

ById == [ids |-> {"c"}, matchers |-> {}]
NotDev == [ids |-> {}, matchers |-> {[key |-> "env", op |-> "!=", vals |-> {"dev"}]}]

S(sel, mapping, allowEmpty, schedule, ref) ==
    [sel |-> sel, mapping |-> mapping, allowEmpty |-> allowEmpty, schedule |-> schedule,
     ref |-> ref]

SomeSpecs == {S(ById, Plain, FALSE, "ok", ""), S(NotDev, Strict, TRUE, "ok", "own"),
              S(ById, Plain, FALSE, "bad", "other")}

Local(v) == [exists |-> TRUE, local |-> [env |-> v], remote |-> {}]

SomeCollectors == {Local("dev"), [exists |-> TRUE, local |-> <<>>, remote |-> {}]}

=============================================================================
