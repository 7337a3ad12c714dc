------------------------------ MODULE Onboarding ------------------------------
(***************************************************************************)
(* A student's tab that opens an invitation's link (OnboardPage), composed *)
(* with Redemption.  The page is built from a preview that reads the       *)
(* invitation and then the account, in no transaction, and it is not       *)
(* looked at again until the student submits the form it chose: with the   *)
(* new account's fields, or with a password only.                          *)
(***************************************************************************)
EXTENDS Redemption

CONSTANTS
    Link,       \* the invitation this tab was opened with
    ApiLinks    \* the invitations other clients present

ASSUME LinkAssumption == Link \in Invitation /\ ApiLinks \subseteq Invitation

(* What the tab shows, or how far its preview is, and the request its form *)
(* awaits.  A request the tab no longer awaits is as good as another's.    *)
VARIABLE page

onboardingVars == <<vars, page>>

At(view) == [at |-> view, request |-> Null]
Submitting(view, p) == [at |-> view, request |-> p]

OnboardingInit ==
    /\ Init
    /\ page = At("loading")

Show(view) ==
    /\ page' = At(view)
    /\ UNCHANGED vars

-----------------------------------------------------------------------------
(* The page is loaded, or loaded again: a promise it had is gone. *)
OpenLink == Show("loading")

(* getMetaByToken's first read: the invitation with its purchase. *)
ReadInvitation ==
    /\ page.at = "loading"
    /\ Show(CASE status[Link] = "none"     -> "invalid"
              [] status[Link] = "ISSUED"   -> "readIssued"
              [] status[Link] = "REDEEMED" -> "readRedeemed")

(* A mutant: whoever has an account is sent to the student's form. *)
BugAnyAccountHasForm ==
    /\ page.at \in {"readIssued", "readRedeemed"}
    /\ Show(IF page.at = "readRedeemed" THEN "used"
            ELSE IF Link \in expired THEN "expired"
            ELSE IF role[EmailOf[Link]] # Null THEN "existing" ELSE "new")

(* Its second read, the account, and the page it makes of both; expiresAt  *)
(* is compared with the browser's clock when the answer is rendered.       *)
ReadAccount ==
    /\ page.at \in {"readIssued", "readRedeemed"}
    /\ Show(IF page.at = "readRedeemed" THEN "used"
            ELSE IF Link \in expired THEN "expired"
            ELSE IF role[EmailOf[Link]] = "STUDENT" THEN "existing" ELSE "new")

(* Any failure of the preview reads "invalid or has expired". *)
PreviewFails ==
    /\ page.at \in {"loading", "readIssued", "readRedeemed"}
    /\ Show("invalid")

-----------------------------------------------------------------------------
(* NewAccountForm and ExistingAccountForm: onSubmit, once at a time. *)
SubmitForm(p) ==
    /\ page.at \in {"new", "existing"}
    /\ page.request = Null
    /\ Redeem(p, Link)
    /\ page' = Submitting(page.at, p)

(* A request of another client; a slot whose answer is awaited is taken. *)
ApiRedeem(p, i) ==
    /\ page.request # p
    /\ Redeem(p, i)
    /\ UNCHANGED page

(* onRedeemSuccess goes to the lessons; handleRedeemError keeps the form. *)
FormAnswered ==
    /\ page.request # Null
    /\ pc[page.request] = "idle"
    /\ Show(IF reply[page.request] = "ok" THEN "lms" ELSE page.at)

(* The connection is lost: the form may be sent again. *)
FormLosesAnswer ==
    /\ page.request # Null
    /\ Show(page.at)

(* What the new account's form sends has passed the server's own schema;   *)
(* the other form sends no name at all.                                    *)
FieldsAsSent(p) ==
    /\ page = Submitting("new", p) => reply'[p] # "VALIDATION_FAILED"
    /\ page = Submitting("existing", p) => pc'[p] # "insertUser"

ProceedAsSent(p) == Proceed(p) /\ FieldsAsSent(p)

ServerStep ==
    /\ \/ \E p \in Proc : Granted(p) \/ ProceedAsSent(p) \/ Fail(p)
       \/ \E i \in Invitation : Issue(i) \/ Expire(i)
       \/ \E e \in Email : SignUp(e)
       \/ Crash
    /\ UNCHANGED page

OnboardingNext ==
    \/ ServerStep
    \/ OpenLink \/ ReadInvitation \/ ReadAccount \/ PreviewFails
    \/ \E p \in Proc : SubmitForm(p) \/ \E i \in ApiLinks : ApiRedeem(p, i)
    \/ FormAnswered \/ FormLosesAnswer

OnboardingSpec == OnboardingInit /\ [][OnboardingNext]_onboardingVars

(* Continuations run and Postgres grants locks in FIFO order; nothing is   *)
(* assumed of the student or of the network.                               *)
OnboardingFairSpec ==
    /\ OnboardingSpec
    /\ \A p \in Proc :
          /\ WF_onboardingVars(ProceedAsSent(p) /\ UNCHANGED page)
          /\ SF_onboardingVars(Granted(p) /\ UNCHANGED page)

-----------------------------------------------------------------------------
(* Correctness. *)

(* Every variable has its type. *)
OnboardingTypeOK ==
    /\ TypeOK
    /\ page \in [at : {"loading", "readIssued", "readRedeemed", "invalid",
                       "used", "expired", "new", "existing", "lms"},
                 request : Proc \union {Null}]

(* What the page says stays true for as long as it is shown, although the  *)
(* preview was put together from two reads: who is told to log in has an   *)
(* account and the course, and who is asked for a password only is never   *)
(* refused for the fields that form does not have (getMetaByToken,         *)
(* OnboardPage, assertNewAccountFieldsPresent).                            *)
PageIsTrue ==
    /\ page.at \in {"used", "lms"} =>
          CourseOf[Link] \in LMS!MyCourses(TokenFor(EmailOf[Link], "STUDENT"))
    /\ page.at = "used" => status[Link] = "REDEEMED"
    /\ page.at = "expired" => Link \in expired
    /\ page.at = "existing" => role[EmailOf[Link]] = "STUDENT"
    /\ page.request # Null => reply[page.request] # "VALIDATION_FAILED"
=============================================================================
