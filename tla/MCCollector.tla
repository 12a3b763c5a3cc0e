----------------------------- MODULE MCCollector -----------------------------
(* Instances of CollectorController for TLC. *)
EXTENDS CollectorController

OwnId == [k \in Keys |-> k]

M(f) == [a \in Attrs |-> IF a \in DOMAIN f THEN f[a] ELSE Absent]

Prod == [env |-> "prod"]
Dev == [env |-> "dev"]

SomeSpecs == {NoAttrs, M([a |-> "1", b |-> "1"])}

OneSpec == {NoAttrs, M([a |-> "1"])}

\* A claim of a for every collector, one of b instead, and a truncated sync.  The
\* watch cannot tell the first two apart.
SomeClaims ==
    {[usable |-> TRUE, claims |-> [i \in Ids |-> Entry(M([a |-> ""]))]],
     [usable |-> TRUE, claims |-> [i \in Ids |-> Entry(M([b |-> ""]))]],
     [usable |-> FALSE, claims |-> [i \in Ids |-> None]]}

NoClaims == {}

\* "a" stands for a key like "x/y", whose unescaped path is one to nothing.
NothingMisread == [a \in Special |-> {}]

EnvIsProd == [ids |-> {}, matchers |-> {[key |-> "env", op |-> "=", vals |-> {"prod"}]}]

OnePolicySpec == {[priority |-> 0, sel |-> EnvIsProd, attrs |-> M([b |-> "1"])]}

NoPolicySpecs == {}

BothLocals == {Prod, Dev}
ProdOnly == {Prod}

=============================================================================
