------------------------ MODULE MCPipelineDiscovery -------------------------
(* Instances of PipelineDiscovery for TLC. *)
EXTENDS PipelineDiscovery

OneNamespace == [k \in Keys |-> "ns"]

OneName == [b \in Bases |-> "p"]

On == {[contents |-> "on", base |-> "b", grafana |-> FALSE, paused |-> FALSE]}

NoAnnots == {}
NoNames == {}

DSp(sel, removed, valid) ==
    [sel |-> sel, mode |-> "ReadOnly", onRemoved |-> removed, valid |-> valid]
ReadOnlySpecs ==
    {DSp({"on"}, "Keep", TRUE), DSp({}, "Delete", TRUE), DSp({}, "Delete", FALSE)}

=============================================================================
