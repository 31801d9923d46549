----------------------------- MODULE MCGovernance -----------------------------
(* Instances of Governance for TLC.                                        *)
EXTENDS GovernanceInvariant, TLC

CONSTANTS u1, u2, c1, c2

OneUser == {u1}
TwoUsers == {u1, u2}
OneCR == {c1}
TwoCRs == {c1, c2}

(* u1 edits everything; a second user is known but may edit nothing.       *)
AllByU1 == {u1} \X CRs

(* No two requests differ, and no two change requests either.              *)
Symmetry == Permutations(Requests) \cup Permutations(CRs)
===============================================================================
