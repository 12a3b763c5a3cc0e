------------------------ MODULE MCCollectorDiscovery ------------------------
(* Instances of CollectorDiscovery for TLC. *)
EXTENDS CollectorDiscovery

\* Same-named discoveries of two namespaces.
OneLabel == [k \in Keys \cup Others |-> "d"]

\* Hashed names collide, or do not.
SameName == [i \in Ids |-> "n1"]

OwnName == [i \in Ids |-> IF i = 1 THEN "n1" ELSE "n2"]

\* CRs of an earlier installation: one marked stale, one of another discovery.
OldCRs == {[NewCollector(k, 1) EXCEPT !.stale = (k \in Keys)] : k \in Keys \cup Others}

\* The same, of a discovery, with the finalizer of the Collector controller.
FinalizedCRs == {[NewCollector(k, 1) EXCEPT !.fin = TRUE] : k \in Keys}

Sp(only, inactive, removed, valid) ==
    [only |-> only, inactive |-> inactive, onRemoved |-> removed, valid |-> valid]

SomeSpecs ==
    {Sp({}, FALSE, "Delete", TRUE), Sp({1}, TRUE, "Keep", TRUE), Sp({}, TRUE, "Keep", FALSE)}

=============================================================================
