---------------------------- MODULE MCAdminSession ----------------------------
(* One tab, a parent, a student and an admin.                              *)
EXTENDS AdminSession, TLC

(* Forms and logouts are interchangeable, for the temporal property too:   *)
(* neither it nor a fairness condition names one.  Calls and refreshes,    *)
(* which they do name, are kept apart.                                     *)
Symmetry == Permutations(Logout) \union Permutations(Form)
=============================================================================
