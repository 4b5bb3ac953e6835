---------------------------- MODULE MCOrgMembers ----------------------------
(* Instances of OrgMembers for TLC. *)
EXTENDS OrgMembers, TLC

Symmetry == Permutations(Users) \cup Permutations(Workers)
=============================================================================
