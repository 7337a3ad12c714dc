------------------------------ MODULE Admissions ------------------------------
(***************************************************************************)
(* What invitations promise, in single steps: a valid invitation admits    *)
(* its student to its course once, and becoming used, the student's        *)
(* account and the place in the course are one event.                      *)
(***************************************************************************)
CONSTANTS Invitation, Email, Course, EmailOf, CourseOf, Null

VARIABLES
    used,      \* invitations that admitted somebody
    role,      \* the role of the account with an email, or Null
    place      \* <<email, course>> -> the invitation that opened it, or Null

admissionVars == <<used, role, place>>

Init ==
    /\ used = {}
    /\ role = [e \in Email |-> Null]
    /\ place = [ec \in Email \X Course |-> Null]

(* Somebody signs up as a parent. *)
SignUp(e) ==
    /\ role[e] = Null
    /\ role' = [role EXCEPT ![e] = "PARENT"]
    /\ UNCHANGED <<used, place>>

Admit(i) ==
    LET e == EmailOf[i]
        ec == <<e, CourseOf[i]>>
    IN  /\ i \notin used
        /\ role[e] \in {Null, "STUDENT"}
        /\ place[ec] = Null
        /\ used' = used \union {i}
        /\ role' = [role EXCEPT ![e] = "STUDENT"]
        /\ place' = [place EXCEPT ![ec] = i]

Next ==
    \/ \E e \in Email : SignUp(e)
    \/ \E i \in Invitation : Admit(i)

Spec == Init /\ [][Next]_admissionVars
=============================================================================
