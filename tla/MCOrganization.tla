--------------------------- MODULE MCOrganization ---------------------------
(* Values of the constants of Organization for TLC. *)
EXTENDS Organization, TLC

MCScopeSets == {{"member:list"}, {"invitation:revoke"}}
MCGiven == {"ADMIN", "MEMBER"}

\* The permission matrix does not depend on a behaviour.
ASSUME MatrixIsNested == RolesAreNested

Symmetry == Permutations(Requests) \cup Permutations(Users \ {Founder})
=============================================================================
