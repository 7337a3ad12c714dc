----------------------------- MODULE MCRedemption -----------------------------
(* One student, two courses and three invitations: two open the same        *)
(* place, the third the same student's place in the other course.          *)
EXTENDS Redemption, TLC

CONSTANTS i1, i2, i3, e1, c1, c2

InvitationEmail == i1 :> e1 @@ i2 :> e1 @@ i3 :> e1
InvitationCourse == i1 :> c1 @@ i2 :> c1 @@ i3 :> c2
=============================================================================
