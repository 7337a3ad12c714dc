------------------------------ MODULE Redemption ------------------------------
(***************************************************************************)
(* Redeeming an invitation: InvitationsService.redeem over the             *)
(* invitations, users and enrolments tables, one Postgres transaction per  *)
(* request with reads on other connections in between, racing with other   *)
(* redemptions and with parents signing up under the same email.           *)
(*                                                                         *)
(* An invitation, its plaintext token and its hash are one element of      *)
(* Invitation; an account is its (normalised) email.  An inserted but      *)
(* uncommitted key of a unique index makes another insert of that key      *)
(* wait, like a row lock does: keyHolder and placeHolder are the two       *)
(* indexes' holders, rowHolder the lock of the invitation's row.           *)
(* A statement that fails aborts its transaction: nothing it wrote         *)
(* survives, whatever the code answers.                                    *)
(***************************************************************************)
EXTENDS Naturals, FiniteSets

CONSTANTS
    Invitation, Email, Course,
    EmailOf,      \* [Invitation -> Email]   invitations.student_email
    CourseOf,     \* [Invitation -> Course]  the purchase's course
    Proc,         \* requests that can be in flight at once
    Null

ASSUME MapAssumption ==
    /\ EmailOf \in [Invitation -> Email]
    /\ CourseOf \in [Invitation -> Course]

ASSUME NullAssumption ==
    Null \notin Invitation \union Course \union Proc \union {"STUDENT", "PARENT"}

VARIABLES
    status,     \* invitation -> "none" (no such row), "ISSUED" or "REDEEMED"
    expired,    \* invitations whose expires_at has passed
    role,       \* users: email -> role, or Null when no account has it
    place,      \* enrolments: <<email, course>> -> source invitation, or Null
    tokens,     \* access tokens signed: they are stateless and stay valid
    rowHolder, keyHolder, placeHolder,
    pc, inv,    \* request: stage, invitation presented (its email for a signup)
    valid,      \* request: not expired at BEGIN, which is what now() compares
    reply       \* request: the answer to its last redemption

data == <<status, expired, role, place, tokens>>
holders == <<rowHolder, keyHolder, placeHolder>>
vars == <<data, holders, pc, inv, valid, reply>>

Place == Email \X Course
PlaceOf(i) == <<EmailOf[i], CourseOf[i]>>

Init ==
    /\ status = [i \in Invitation |-> "none"]
    /\ expired = {}
    /\ role = [e \in Email |-> Null]
    /\ place = [ec \in Place |-> Null]
    /\ tokens = {}
    /\ rowHolder = [i \in Invitation |-> Null]
    /\ keyHolder = [e \in Email |-> Null]
    /\ placeHolder = [ec \in Place |-> Null]
    /\ pc = [p \in Proc |-> "idle"]
    /\ inv = [p \in Proc |-> Null]
    /\ valid = [p \in Proc |-> FALSE]
    /\ reply = [p \in Proc |-> "none"]

(* issueToken: the user's id and role, signed. *)
TokenFor(e, r) == [email |-> e, role |-> r, state |-> "valid"]

GoTo(p, stage) == pc' = [pc EXCEPT ![p] = stage]

Without(holder, p) ==
    [k \in DOMAIN holder |-> IF holder[k] = p THEN Null ELSE holder[k]]

Release(p) ==
    /\ rowHolder' = Without(rowHolder, p)
    /\ keyHolder' = Without(keyHolder, p)
    /\ placeHolder' = Without(placeHolder, p)

(* The transaction ends and the request is answered. *)
Finish(p, r) ==
    /\ Release(p)
    /\ GoTo(p, "idle")
    /\ reply' = [reply EXCEPT ![p] = r]
    /\ valid' = [valid EXCEPT ![p] = FALSE]
    /\ UNCHANGED inv

(* The handler throws: rollback. *)
Reject(p, code) ==
    /\ Finish(p, code)
    /\ UNCHANGED data

-----------------------------------------------------------------------------
(* issueWithinTransaction, as PurchasesService commits it.  A random token *)
(* presented before, by somebody who guessed, is not the one generated.    *)
Issue(i) ==
    /\ status[i] = "none"
    /\ \A p \in Proc : inv[p] # i
    /\ status' = [status EXCEPT ![i] = "ISSUED"]
    /\ UNCHANGED <<expired, role, place, tokens, holders, pc, inv, valid, reply>>

(* Time passes an invitation's expires_at; no row changes. *)
Expire(i) ==
    /\ status[i] # "none"
    /\ i \notin expired
    /\ expired' = expired \union {i}
    /\ UNCHANGED <<status, role, place, tokens, holders, pc, inv, valid, reply>>

(* A mutant: an existing account is overwritten. *)
BugSignUpUpserts(e) ==
    /\ keyHolder[e] = Null
    /\ role' = [role EXCEPT ![e] = "PARENT"]
    /\ tokens' = tokens \union {TokenFor(e, "PARENT")}
    /\ UNCHANGED <<status, expired, place, holders, pc, inv, valid, reply>>

(* AuthService.signup's insert of a parent, a transaction of its own that  *)
(* waits for an uncommitted user with the same email.                      *)
SignUp(e) ==
    /\ role[e] = Null
    /\ keyHolder[e] = Null
    /\ role' = [role EXCEPT ![e] = "PARENT"]
    /\ tokens' = tokens \union {TokenFor(e, "PARENT")}
    /\ UNCHANGED <<status, expired, place, holders, pc, inv, valid, reply>>

-----------------------------------------------------------------------------
(* POST /invitations/redeem. *)

Redeem(p, i) ==
    /\ pc[p] = "idle"
    /\ GoTo(p, "redeem")
    /\ inv' = [inv EXCEPT ![p] = i]
    /\ valid' = [valid EXCEPT ![p] = i \notin expired]
    /\ reply' = [reply EXCEPT ![p] = "none"]
    /\ UNCHANGED <<data, holders>>

(* A mutant: the status is read before the lock is waited for. *)
BugRedeemUnlocked(p) ==
    /\ pc[p] = "redeem"
    /\ status[inv[p]] = "ISSUED" /\ valid[p]
    /\ GoTo(p, "lookup")
    /\ UNCHANGED <<data, holders, inv, valid, reply>>

(* atomicRedeem's UPDATE waits for the row and then tests its WHERE. *)
AtomicRedeem(p) ==
    /\ pc[p] = "redeem"
    /\ rowHolder[inv[p]] = Null
    /\ status[inv[p]] = "ISSUED" /\ valid[p]
    /\ rowHolder' = [rowHolder EXCEPT ![inv[p]] = p]
    /\ GoTo(p, "lookup")
    /\ UNCHANGED <<data, keyHolder, placeHolder, inv, valid, reply>>

(* A mutant: a locked row is skipped instead of waited for. *)
BugSkipsLocked(p) ==
    /\ pc[p] = "redeem"
    /\ rowHolder[inv[p]] # Null \/ ~(status[inv[p]] = "ISSUED" /\ valid[p])
    /\ GoTo(p, "disambiguate")
    /\ UNCHANGED <<data, holders, inv, valid, reply>>

RedeemMatchesNothing(p) ==
    /\ pc[p] = "redeem"
    /\ rowHolder[inv[p]] = Null
    /\ ~(status[inv[p]] = "ISSUED" /\ valid[p])
    /\ GoTo(p, "disambiguate")
    /\ UNCHANGED <<data, holders, inv, valid, reply>>

(* resolveOrThrow's second read, outside the transaction. *)
Disambiguate(p) ==
    /\ pc[p] = "disambiguate"
    /\ Reject(p, CASE status[inv[p]] = "none"     -> "NOT_FOUND"
                   [] status[inv[p]] = "REDEEMED" -> "ALREADY_REDEEMED"
                   [] OTHER                       -> "EXPIRED")

(* usersRepository.findByEmail, outside the transaction.  With no account: *)
(* assertNewAccountFieldsPresent, then the password is hashed.             *)
FindNobody(p) ==
    /\ pc[p] = "lookup"
    /\ role[EmailOf[inv[p]]] = Null
    /\ \/ GoTo(p, "insertUser") /\ UNCHANGED <<data, holders, inv, valid, reply>>
       \/ Reject(p, "VALIDATION_FAILED")

(* With an account, redeemForExistingUser: a student with the right        *)
(* password goes on, everybody else is refused.                            *)
FindExisting(p) ==
    /\ pc[p] = "lookup"
    /\ role[EmailOf[inv[p]]] # Null
    /\ \/ /\ role[EmailOf[inv[p]]] = "STUDENT"
          /\ GoTo(p, "enrolExisting")
          /\ UNCHANGED <<data, holders, inv, valid, reply>>
       \/ Reject(p, "EMAIL_CONFLICT")

(* insertStudentUser: the unique email decides between racers. *)
InsertUser(p) ==
    LET e == EmailOf[inv[p]] IN
    /\ pc[p] = "insertUser"
    /\ keyHolder[e] = Null
    /\ \/ /\ role[e] = Null
          /\ keyHolder' = [keyHolder EXCEPT ![e] = p]
          /\ GoTo(p, "enrolNew")
          /\ UNCHANGED <<data, rowHolder, placeHolder, inv, valid, reply>>
       \/ /\ role[e] # Null
          /\ Reject(p, "EMAIL_CONFLICT")

(* A mutant: the new account's enrolment is left to a later step. *)
BugEnrolLater(p) ==
    /\ pc[p] \in {"enrolNew", "enrolExisting"}
    /\ GoTo(p, "commit")
    /\ UNCHANGED <<data, holders, inv, valid, reply>>

(* enrolmentsRepository.insertWithinTransaction. *)
Enrol(p) ==
    LET ec == PlaceOf(inv[p]) IN
    /\ pc[p] \in {"enrolNew", "enrolExisting"}
    /\ placeHolder[ec] = Null
    /\ place[ec] = Null
    /\ placeHolder' = [placeHolder EXCEPT ![ec] = p]
    /\ GoTo(p, "commit")
    /\ UNCHANGED <<data, rowHolder, keyHolder, inv, valid, reply>>

(* A mutant: the conflict is with a row that is not committed yet. *)
BugConflictNotAwaited(p) ==
    LET ec == PlaceOf(inv[p]) IN
    /\ pc[p] = "enrolExisting"
    /\ place[ec] # Null \/ placeHolder[ec] # Null
    /\ GoTo(p, "commitAborted")
    /\ UNCHANGED <<data, holders, inv, valid, reply>>

(* The student has the place already: the unique violation is caught and   *)
(* the handler goes on, in a transaction Postgres has aborted.             *)
EnrolDuplicate(p) ==
    /\ pc[p] = "enrolExisting"
    /\ placeHolder[PlaceOf(inv[p])] = Null
    /\ place[PlaceOf(inv[p])] # Null
    /\ GoTo(p, "commitAborted")
    /\ UNCHANGED <<data, holders, inv, valid, reply>>

(* A mutant: the enrolment names the request, not the invitation. *)
BugCommitSource(p) ==
    /\ pc[p] = "commit"
    /\ status' = [i \in Invitation |->
                    IF rowHolder[i] = p THEN "REDEEMED" ELSE status[i]]
    /\ role' = [e \in Email |-> IF keyHolder[e] = p THEN "STUDENT" ELSE role[e]]
    /\ place' = [ec \in Place |-> IF placeHolder[ec] = p THEN p ELSE place[ec]]
    /\ tokens' = tokens \union {TokenFor(EmailOf[inv[p]], "STUDENT")}
    /\ Finish(p, "ok")
    /\ UNCHANGED expired

(* COMMIT, then the access token is issued: what the transaction wrote is  *)
(* what it holds.                                                          *)
Commit(p) ==
    /\ pc[p] = "commit"
    /\ status' = [i \in Invitation |->
                    IF rowHolder[i] = p THEN "REDEEMED" ELSE status[i]]
    /\ role' = [e \in Email |-> IF keyHolder[e] = p THEN "STUDENT" ELSE role[e]]
    /\ place' = [ec \in Place |->
                   IF placeHolder[ec] = p THEN inv[p] ELSE place[ec]]
    /\ tokens' = tokens \union {TokenFor(EmailOf[inv[p]], "STUDENT")}
    /\ Finish(p, "ok")
    /\ UNCHANGED expired

(* COMMIT of an aborted transaction is a rollback that reports no error:   *)
(* the handler answers with an access token all the same.                  *)
CommitAborted(p) ==
    /\ pc[p] = "commitAborted"
    /\ Finish(p, "ok")
    /\ tokens' = tokens \union {TokenFor(EmailOf[inv[p]], "STUDENT")}
    /\ UNCHANGED <<status, expired, role, place>>

(* A mutant: a failed request keeps its transaction open. *)
BugFailKeepsOpen(p) ==
    /\ pc[p] # "idle"
    /\ GoTo(p, "idle")
    /\ reply' = [reply EXCEPT ![p] = "error"]
    /\ UNCHANGED <<data, holders, inv, valid>>

(* A query fails, or the process dies: Postgres rolls the transaction back. *)
Fail(p) ==
    /\ pc[p] # "idle"
    /\ Reject(p, "error")

Crash ==
    /\ rowHolder' = [i \in Invitation |-> Null]
    /\ keyHolder' = [e \in Email |-> Null]
    /\ placeHolder' = [ec \in Place |-> Null]
    /\ pc' = [p \in Proc |-> "idle"]
    /\ inv' = [p \in Proc |-> Null]
    /\ valid' = [p \in Proc |-> FALSE]
    /\ reply' = [p \in Proc |-> "none"]
    /\ UNCHANGED data

-----------------------------------------------------------------------------
(* Steps that wait for another transaction, and steps that never wait. *)
Granted(p) ==
    AtomicRedeem(p) \/ RedeemMatchesNothing(p) \/ InsertUser(p)
    \/ Enrol(p) \/ EnrolDuplicate(p)

Proceed(p) ==
    Disambiguate(p) \/ FindNobody(p) \/ FindExisting(p)
    \/ Commit(p) \/ CommitAborted(p)

Next ==
    \/ \E p \in Proc : \/ \E i \in Invitation : Redeem(p, i)
                       \/ Granted(p) \/ Proceed(p) \/ Fail(p)
    \/ \E i \in Invitation : Issue(i) \/ Expire(i)
    \/ \E e \in Email : SignUp(e)
    \/ Crash

Spec == Init /\ [][Next]_vars

-----------------------------------------------------------------------------
(* Correctness. *)

(* The requests that follow with a token. *)
LMS == INSTANCE LessonAccess

(* A request without a token is not one with a token. *)
ASSUME TokenAssumption == Null \notin LMS!Token

(* Every variable has its type. *)
TypeOK ==
    /\ status \in [Invitation -> {"none", "ISSUED", "REDEEMED"}]
    /\ expired \subseteq Invitation
    /\ role \in [Email -> {"STUDENT", "PARENT", Null}]
    /\ place \in [Place -> Invitation \union {Null}]
    /\ tokens \subseteq LMS!Token
    /\ rowHolder \in [Invitation -> Proc \union {Null}]
    /\ keyHolder \in [Email -> Proc \union {Null}]
    /\ placeHolder \in [Place -> Proc \union {Null}]
    /\ pc \in [Proc -> {"idle", "redeem", "disambiguate", "lookup", "insertUser",
                        "enrolNew", "enrolExisting", "commit", "commitAborted"}]
    /\ inv \in [Proc -> Invitation \union {Null}]
    /\ valid \in [Proc -> BOOLEAN]
    /\ reply \in [Proc -> {"none", "ok", "error", "NOT_FOUND", "ALREADY_REDEEMED",
                           "EXPIRED", "VALIDATION_FAILED", "EMAIL_CONFLICT"}]

(* Redemption is all or nothing, whatever fails between its statements: an *)
(* invitation is REDEEMED exactly when it opened a place, and a place      *)
(* belongs to a student's account (redeemInTransaction, ADR 0006).         *)
AllOrNothing ==
    /\ \A i \in Invitation : status[i] = "REDEEMED" <=> place[PlaceOf(i)] = i
    /\ \A e \in Email, c \in Course :
          place[<<e, c>>] # Null => role[e] = "STUDENT"

(* Whoever is logged in by a redemption can open the course's lessons,     *)
(* also when the invitation was a duplicate.                               *)
LoginOpensCourse ==
    \A p \in Proc : reply[p] = "ok" =>
        LET token == TokenFor(EmailOf[inv[p]], "STUDENT") IN
        /\ CourseOf[inv[p]] \in LMS!MyCourses(token)
        /\ LMS!ListLessons(token, CourseOf[inv[p]]) = "lessons"
        /\ LMS!GetLesson(token, CourseOf[inv[p]]) = "lesson"

(* The guards believe a token's role for as long as it lasts and never ask *)
(* the users table (RolesGuard): no token names an account that is not     *)
(* there, because its redemption was rolled back, or has another role.     *)
TokensAreTrue == \A t \in tokens : role[t.email] = t.role

(* The answer to a refused redemption is true when it is given, although   *)
(* it rests on a second read outside the transaction: EXPIRED is said only *)
(* of an expired invitation that was not redeemed before its answer.       *)
RefusalIsTrue ==
    [][\A p \in Proc : reply[p] = "none" =>
          /\ reply'[p] = "EXPIRED" => status[inv[p]] = "ISSUED" /\ inv[p] \in expired
          /\ reply'[p] = "EMAIL_CONFLICT" => role[EmailOf[inv[p]]] # Null]_vars

(* Redemption implements single-step admissions. *)
A == INSTANCE Admissions WITH used <- {i \in Invitation : status[i] = "REDEEMED"}

ImplementsAdmissions == A!Spec

(* Every redemption is answered, unless the process dies. *)
EveryRedemptionAnswered == \A p \in Proc : pc[p] # "idle" ~> pc[p] = "idle"

(* Documented, and refuted: a student who is logged in by a redemption has *)
(* used the invitation up (redeemForExistingUser, the comment in the       *)
(* catch).                                                                 *)
LoginImpliesRedeemed ==
    \A p \in Proc : reply[p] = "ok" => status[inv[p]] = "REDEEMED"
=============================================================================
