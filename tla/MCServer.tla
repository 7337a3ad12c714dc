------------------------------- MODULE MCServer -------------------------------
(***************************************************************************)
(* Server with the smallest pool that two transactions can fill: two       *)
(* clients, one background re-hash and one readiness probe share two       *)
(* connections, one email, a right and a wrong password.                   *)
(***************************************************************************)
EXTENDS Server
=============================================================================
