--------------------------- MODULE MCAccessTickets ---------------------------
(***************************************************************************)
(* Instance of AccessTickets: one file, of a tenant with or without a      *)
(* policy row, a caller of its tenant, one of another tenant and one       *)
(* without the scope.                                                      *)
(***************************************************************************)
EXTENDS AccessTickets, TLC

CONSTANTS c1, c2, c3, f1, t1, t2

MCCallerTenant == (c1 :> t1) @@ (c2 :> t2) @@ (c3 :> t1)
MCFileTenant == (f1 :> t1)
Symmetry == Permutations(Requests)
==============================================================================
