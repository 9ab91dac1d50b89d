----------------------------- MODULE MCHashTree -----------------------------
(* Instances of HashTree for TLC. *)
EXTENDS HashTree, TLC

CONSTANTS n1, n2, n3

\* One download from one seeder.
MCSingle == {{<<n1, n2>>}}

\* A node that is served by a seeder serves another one in turn (from either
\* end, for the symmetry); two seeders serve one node.
MCSwarms == {{<<n1, n2>>, <<n2, n3>>}, {<<n3, n2>>, <<n2, n1>>},
             {<<n1, n2>>, <<n3, n2>>}}

MCSymmetry == Permutations({n1, n3})
=============================================================================
