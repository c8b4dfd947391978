-------------------------- MODULE MCDepartmentWork --------------------------
(* DepartmentWork with the symmetry of its calls.                           *)
EXTENDS DepartmentWork, TLC

CallSymmetry == Permutations(Calls)
=============================================================================
