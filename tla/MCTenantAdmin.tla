---------------------------- MODULE MCTenantAdmin ----------------------------
(***************************************************************************)
(* Instance of TenantAdmin: a super admin, one of governance for another   *)
(* tenant and one who may only read, with patches that loosen, tighten and *)
(* touch other columns.                                                    *)
(***************************************************************************)
EXTENDS TenantAdmin, TLC

CONSTANTS t1, t2, n1, n2, c1, c2, png, pdf

MCAdmins == {[roles |-> {"super"}, scopes |-> {}],
             [roles |-> {"governance", "readonly"}, scopes |-> {t2}],
             [roles |-> {"readonly"}, scopes |-> {AllTenants}]}

MCDefaultPolicy == [limit |-> 2, types |-> {png, pdf}, auto |-> FALSE, level |-> "PRIVATE"]

Same == [limit |-> Nil, types |-> Nil, auto |-> Nil, level |-> Nil, reason |-> FALSE]
MCPolicyPatches ==
    {Same,
     [Same EXCEPT !.limit = 0, !.reason = TRUE],
     [Same EXCEPT !.limit = 3],
     [Same EXCEPT !.limit = 4, !.level = "PUBLIC"],
     [Same EXCEPT !.types = {png}, !.reason = TRUE],
     [Same EXCEPT !.types = {}, !.auto = TRUE],
     [Same EXCEPT !.auto = FALSE]}

NoChange == [status |-> Nil, name |-> Nil, contact |-> Nil, reason |-> FALSE]
MCTenantPatches ==
    {[NoChange EXCEPT !.name = n2],
     [NoChange EXCEPT !.contact = c2],
     [NoChange EXCEPT !.status = "DELETED", !.reason = TRUE],
     [NoChange EXCEPT !.status = "SUSPENDED"],
     [NoChange EXCEPT !.status = "ACTIVE", !.contact = c1]}

Symmetry == Permutations(Requests)
==============================================================================
