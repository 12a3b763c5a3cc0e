----------------------------- MODULE MCPipeline -----------------------------
(* Instances of PipelineController for TLC. *)
EXTENDS PipelineController

OneNamespace == [k \in Keys |-> "ns"]

Sp(c, b, g, p) == [contents |-> c, base |-> b, grafana |-> g, paused |-> p]
An(s, i, r) == [scope |-> s, id |-> i, readOnly |-> r, by |-> "", stale |-> FALSE]

\* Contents, name, source and pause change through the spec.
AllSpecs == {Sp("c1", "b1", FALSE, FALSE), Sp("c2", "b2", FALSE, FALSE),
             Sp("bad", "b2", FALSE, FALSE), Sp("c1", "b1", TRUE, FALSE),
             Sp("c2", "b1", FALSE, TRUE)}

PlainSpecs == {Sp("c1", "b1", FALSE, FALSE), Sp("c2", "b1", FALSE, FALSE)}

\* Mode, scope and Fleet ID change through annotations.
ModeAnnots == {An("", 0, FALSE), An("", 0, TRUE), An("", 1, TRUE), An("namespace", 0, FALSE)}

NoAnnots == {An("", 0, FALSE)}

NoNames == {}

OneForeign == {<<"", "b1">>}

=============================================================================
