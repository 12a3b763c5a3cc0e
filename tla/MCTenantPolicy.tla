-------------------------- MODULE MCTenantPolicy --------------------------
(* Instances of TenantPolicy for TLC. *)
EXTENDS TenantPolicy

Su(kind, ns, name) == [kind |-> kind, ns |-> ns, name |-> name]

AllUsers == {"u", "system:serviceaccount:ns:u"}

Spelled == [n \in AllUsers |-> IF n = "u" THEN {} ELSE {<<"ns", "u">>}]

\* Policies that overlap in subjects and matchers, the first with the account spelled as
\* a user; the last two only without a webhook.
SomeSpecs ==
    {[subjects |-> {Su("User", "", "u"), Su("User", "", "system:serviceaccount:ns:u")},
      required |-> {"m1"}, sel |-> "all"],
     [subjects |-> {Su("Group", "", "g"), Su("ServiceAccount", "ns", "u")},
      required |-> {"m1", "m2"}, sel |-> "x"],
     [subjects |-> {Su("Group", "", "g")}, required |-> {"m3", "bad"}, sel |-> "y"],
     [subjects |-> {Su("Group", "", "g")}, required |-> {"m1"}, sel |-> "bad"]}

SomeRequests ==
    {[user |-> "u", groups |-> {"g"}, matchers |-> {"m2"}, ids |-> FALSE],
     [user |-> "u", groups |-> {"g"}, matchers |-> {"m2"}, ids |-> TRUE],
     [user |-> "system:serviceaccount:ns:u", groups |-> {}, matchers |-> {"m1"}, ids |-> TRUE]}

=============================================================================
