------------------------------ MODULE Handoff ------------------------------
(***************************************************************************)
(* What an ExternalAttributeSync promises to the Collector controller,     *)
(* which treats status.ownedKeys as authoritative:                         *)
(*                                                                         *)
(*  - what is published is the projection of one whole answer of the       *)
(*    source under the current spec, never a part of it or a mixture;      *)
(*  - an answer without records does not withdraw a claim unless           *)
(*    allowEmptyResults says so;                                           *)
(*  - too many claims withdraw all of them, visibly.                       *)
(*                                                                         *)
(* Nothing is said of caches, retries or when the source is asked.         *)
(***************************************************************************)
EXTENDS Claims

CONSTANTS
    Keys,      \* names of the syncs
    Specs,     \* specs a user may write
    Answers    \* sequences of records the source may answer with

VARIABLES
    spec,        \* spec[k]: the user's spec, Gone if there is no such sync
    claims,      \* claims[k]: status.ownedKeys
    seen,        \* seen[k]: status.recordsSeen
    truncated    \* truncated[k]: is the Truncated condition true?

handoffVars == <<spec, claims, seen, truncated>>

Gone == [exists |-> FALSE]

Exists(k) == spec[k] # Gone

HandoffInit ==
    /\ spec \in [Keys -> {Gone} \cup Specs]
    /\ claims = [k \in Keys |-> NoClaims]
    /\ seen = [k \in Keys |-> 0]
    /\ truncated = [k \in Keys |-> FALSE]

Write(k, s) ==
    /\ s # Gone
    /\ spec' = [spec EXCEPT ![k] = s]
    /\ UNCHANGED <<claims, seen, truncated>>

Delete(k) ==
    /\ spec' = [spec EXCEPT ![k] = Gone]
    /\ claims' = [claims EXCEPT ![k] = NoClaims]
    /\ seen' = [seen EXCEPT ![k] = 0]
    /\ truncated' = [truncated EXCEPT ![k] = FALSE]

\* The length of the answer is published with its projection.
Publish(k) ==
    /\ Exists(k)
    /\ \E records \in Answers, matched \in SUBSET Ids :
          LET new == projectRecords(records, spec[k].mapping, matched) IN
          /\ records # <<>> \/ spec[k].allowEmpty \/ claims[k] = NoClaims
          /\ Cardinality(Claimed(new)) <= MaxOwned
          /\ claims' = [claims EXCEPT ![k] = new]
          /\ seen' = [seen EXCEPT ![k] = Len(records)]
    /\ truncated' = [truncated EXCEPT ![k] = FALSE]
    /\ UNCHANGED spec

FailClosed(k) ==
    /\ Exists(k)
    /\ \E records \in Answers, matched \in SUBSET Ids :
          /\ Cardinality(Claimed(projectRecords(records, spec[k].mapping, matched))) > MaxOwned
          /\ seen' = [seen EXCEPT ![k] = Len(records)]
    /\ claims' = [claims EXCEPT ![k] = NoClaims]
    /\ truncated' = [truncated EXCEPT ![k] = TRUE]
    /\ UNCHANGED spec

\* An answer without records that is not believed: what was published stays.
Stall(k) ==
    /\ Exists(k) /\ ~spec[k].allowEmpty
    /\ seen' = [seen EXCEPT ![k] = 0]
    /\ UNCHANGED <<spec, claims, truncated>>

HandoffNext ==
    \E k \in Keys :
        \/ \E s \in Specs : Write(k, s)
        \/ Delete(k) \/ Publish(k) \/ FailClosed(k) \/ Stall(k)

HandoffSpec == HandoffInit /\ [][HandoffNext]_handoffVars

=============================================================================
