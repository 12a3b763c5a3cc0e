------------------------------ MODULE MCPolicy ------------------------------
(* Instances of PolicyController for TLC. *)
EXTENDS PolicyController

NothingMisread == [a \in Special |-> {}]

Env(op, v) == [key |-> "env", op |-> op, vals |-> {v}]

ById == [ids |-> {1, 2}, matchers |-> {}]
Prod == [ids |-> {}, matchers |-> {Env("=", "prod")}]
NotProd == [ids |-> {}, matchers |-> {Env("!=", "prod")}]

\* The three shapes that the index knows.
KnownShapes == {ById, Prod, NotProd}

C(local) == [exists |-> TRUE, local |-> local, remote |-> {}]

SomeCollectors == {C(<<>>), C([env |-> "prod"])}

=============================================================================
