----------------------------- MODULE MCSpaSession -----------------------------
(* One tab, a parent and a student; see the cfgs.                          *)
EXTENDS SpaSession
=============================================================================
