---------------------------- MODULE MCAdminQueries ----------------------------
(***************************************************************************)
(* Instance of AdminQueries: an admin of all tenants and one of one tenant;*)
(* rows created at the same time and at different times.                   *)
(***************************************************************************)
EXTENDS AdminQueries

CONSTANTS t1, t2, t3

MCAdmins == {[roles |-> {"readonly"}, scopes |-> {}],
             [roles |-> {"readonly", "governance"}, scopes |-> {t1}]}

MCKeys == {[at |-> 1, id |-> 1, tenant |-> t1],
           [at |-> 2, id |-> 2, tenant |-> t1],
           [at |-> 2, id |-> 3, tenant |-> t2],
           [at |-> 1, id |-> 4, tenant |-> t3]}
==============================================================================
