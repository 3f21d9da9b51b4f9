---------------------------- MODULE MCUrlGroups ----------------------------
(* Three URLs in groups of up to three: a group can be split twice, once    *)
(* into unequal halves; one client at a time.  Two URLs with two clients:   *)
(* a group put back by one client is taken by the other.                    *)
EXTENDS UrlGroups

CONSTANTS u1, u2, u3, c1, c2

Urls3 == {u1, u2, u3}
Urls2 == {u1, u2}
Clients1 == {c1}
Clients2 == {c1, c2}

\* Every URL has an address of its own.
OwnAddress3 == [u \in Urls3 |-> u]
OwnAddress2 == [u \in Urls2 |-> u]

FirstHigher2 == [u \in Urls2 |-> IF u = u1 THEN 1 ELSE 0]
FirstHigher3 == [u \in Urls3 |-> IF u = u2 THEN 1 ELSE 0]

OneMalicious == {u1}
Symmetry == Permutations(Clients2)

Setup(plugins, terminate) == [plugins |-> plugins, terminate |-> terminate]

\* Divide and conquer for all URLs, or another plugin for each.
Setups3 ==
    {Setup(plugins, FALSE) : plugins \in
        {[u \in Urls3 |-> "dac"],
         [u \in Urls3 |-> IF u = u2 THEN "bulk" ELSE IF u = u3 THEN "seq" ELSE "dac"]}}

\* Groups that are split, and QueueMonitor with groups that are not.
Setups2 == {Setup([u \in Urls2 |-> "dac"], FALSE),
            Setup([u \in Urls2 |-> IF u = u1 THEN "seq" ELSE "bulk"], TRUE)}
=============================================================================
