------------------------------- MODULE Checkout -------------------------------
(***************************************************************************)
(* One tab of a parent's browser that buys through CheckoutPage, composed  *)
(* with Purchases; other parents call the API.                             *)
(*                                                                         *)
(* A page is mounted when the tab arrives at it, and a form generates its  *)
(* idempotency key then.  An answer is handled by the mount that asked,    *)
(* also when the tab shows another page by now.  The body may change under *)
(* one mount: the email is an input, and the router gives CheckoutPage no  *)
(* React key, so that a new course in the address keeps the mount.         *)
(***************************************************************************)
EXTENDS Purchases

CONSTANTS
    Shopper,
    ApiCalls    \* what other clients send: a set of <<parent, key, body>>

ASSUME ShopperAssumption == Shopper \in Parent

ASSUME ApiCallsAssumption == ApiCalls \subseteq (Parent \ {Shopper}) \X Key \X Body

VARIABLES
    page,           \* what the tab shows
    awaited,        \* requests with a promise in this tab
    lastPurchase,   \* sessionStorage: [id, full] or Null; a replay is not full
    flash,          \* sessionStorage: the item of the 409, or Null
    generated,      \* idempotency keys of all mounts
    hurried         \* history: a form was mounted while a request was underway

tab == <<page, awaited, lastPurchase, flash, generated, hurried>>
checkoutVars == <<vars, tab>>

CoursePage(notice) == [at |-> "course", enrolled |-> notice]
Form(k, p) == [at |-> "form", key |-> k, submitting |-> p]
SuccessPage(bought) == [at |-> "success", shown |-> bought]

CheckoutInit ==
    /\ Init
    /\ page = CoursePage(Null)
    /\ awaited = {}
    /\ lastPurchase = Null
    /\ flash = Null
    /\ generated = {}
    /\ hurried = FALSE

-----------------------------------------------------------------------------
(* CourseDetailPage: the flash is consumed by the course it names. *)
MountCourse ==
    /\ \/ page' = CoursePage(flash) /\ flash' = Null
       \/ page' = CoursePage(Null) /\ UNCHANGED flash
    /\ UNCHANGED <<lastPurchase, generated, hurried>>

Underway == \E p \in Proc : req[p].pc # "idle" /\ req[p].parent = Shopper

(* generateUuid: which unused key it is does not matter. *)
FreshKey == CHOOSE k \in Key : k \notin generated

MountForm ==
    /\ Key \ generated # {}
    /\ page' = Form(FreshKey, Null)
    /\ generated' = generated \union {FreshKey}
    /\ hurried' = (hurried \/ Underway)
    /\ UNCHANGED <<lastPurchase, flash>>

MountSuccess ==
    /\ page' = SuccessPage(lastPurchase)
    /\ UNCHANGED <<lastPurchase, flash, generated, hurried>>

MountPage == MountCourse \/ MountForm \/ MountSuccess

(* CheckoutSuccessPage reads purchase.invitation, which a replay's body    *)
(* lacks: the TypeError takes the whole React tree down.                   *)
Broken == page.at = "success" /\ page.shown # Null /\ ~page.shown.full

(* A link or the back button. *)
Navigate ==
    /\ ~Broken
    /\ MountPage
    /\ UNCHANGED <<vars, awaited>>

(* A reload, or an address typed: the promises are gone, the session       *)
(* storage is not.                                                         *)
Load ==
    /\ MountPage
    /\ awaited' = {}
    /\ UNCHANGED vars

(* onSubmit; the button is disabled while submitting. *)
SubmitForm(p, b) ==
    /\ page.at = "form"
    /\ page.submitting = Null
    /\ p \notin awaited
    /\ Submit(p, Shopper, page.key, b)
    /\ page' = Form(page.key, p)
    /\ awaited' = awaited \union {p}
    /\ UNCHANGED <<lastPurchase, flash, generated, hurried>>

(* The finally of onSubmit reaches the mount that asked, if it is there. *)
Settle(p) ==
    IF page.at = "form" /\ page.submitting = p THEN Form(page.key, Null) ELSE page

(* An answer is handled once. *)
Answered(p, codes) ==
    /\ p \in awaited
    /\ req[p].pc = "idle"
    /\ reply[p] \in codes
    /\ awaited' = awaited \ {p}
    /\ UNCHANGED vars

(* The purchase is kept for the success page, and the tab goes there from  *)
(* wherever it is; a success page that is there already is not mounted     *)
(* again.                                                                  *)
Succeeded(p) ==
    /\ Answered(p, {"created", "replayed"})
    /\ lastPurchase' = [id |-> req[p].id, full |-> reply[p] = "created"]
    /\ page' = IF page.at = "success" THEN page ELSE SuccessPage(lastPurchase')
    /\ UNCHANGED <<flash, generated, hurried>>

(* A mutant: any conflict is taken for an enrolment. *)
BugAnyConflict(p) ==
    /\ Answered(p, {"DUPLICATE_PURCHASE", "BODY_MISMATCH"})
    /\ IF page.at = "course" \/ Broken
       THEN flash' = ItemAt(p) /\ UNCHANGED page
       ELSE flash' = Null /\ page' = CoursePage(ItemAt(p))
    /\ UNCHANGED <<lastPurchase, generated, hurried>>

(* PURCHASE_ALREADY_EXISTS_FOR_STUDENT: the course page is shown with a    *)
(* flash, which stays in the storage if no course page is mounted for it.   *)
AlreadyEnrolled(p) ==
    /\ Answered(p, {"DUPLICATE_PURCHASE"})
    /\ IF page.at = "course" \/ Broken
       THEN flash' = ItemAt(p) /\ UNCHANGED page
       ELSE flash' = Null /\ page' = CoursePage(ItemAt(p))
    /\ UNCHANGED <<lastPurchase, generated, hurried>>

(* Any other error is shown on the form, which keeps its key. *)
Refused(p) ==
    /\ Answered(p, {"BODY_MISMATCH", "INTERNAL_ERROR", "error"})
    /\ page' = Settle(p)
    /\ UNCHANGED <<lastPurchase, flash, generated, hurried>>

(* The connection is lost: fetch rejects, and the server may go on. *)
LosesAnswer(p) ==
    /\ p \in awaited
    /\ awaited' = awaited \ {p}
    /\ page' = Settle(p)
    /\ UNCHANGED <<vars, lastPurchase, flash, generated, hurried>>

-----------------------------------------------------------------------------
ServerStep ==
    /\ \/ \E p \in Proc : Step(p)
       \/ \E p \in Proc \ awaited, call \in ApiCalls :
             Submit(p, call[1], call[2], call[3])
       \/ Crash
    /\ UNCHANGED tab

CheckoutNext ==
    \/ ServerStep
    \/ Navigate
    \/ Load
    \/ \E p \in Proc :
          \/ \E b \in Body : SubmitForm(p, b)
          \/ Succeeded(p) \/ AlreadyEnrolled(p) \/ Refused(p) \/ LosesAnswer(p)

CheckoutSpec == CheckoutInit /\ [][CheckoutNext]_checkoutVars

-----------------------------------------------------------------------------
(* Correctness. *)

(* LAST_PURCHASE_STORAGE_KEY: createPurchase's answer, or the replay's.    *)
Stash == [id : Id, full : BOOLEAN] \union {Null}

(* CHECKOUT_FLASH_STORAGE_KEY: the code writes nothing else there, so that *)
(* parseCheckoutFlash never has to discard an entry.                       *)
ICheckoutFlash == Item \union {Null}

(* Every variable has its type. *)
CheckoutTypeOK ==
    /\ TypeOK
    /\ page \in [at : {"course"}, enrolled : Item \union {Null}]
                \union [at : {"form"}, key : Key, submitting : Proc \union {Null}]
                \union [at : {"success"}, shown : Stash]
    /\ awaited \subseteq Proc
    /\ lastPurchase \in Stash
    /\ flash \in ICheckoutFlash
    /\ generated \subseteq Key
    /\ hurried \in BOOLEAN

(* listForParent: the rows that have an invitation; DataIntegrityError     *)
(* when one has none.                                                      *)
listForParent(par) ==
    LET rows == {n \in Id : Bought(n) /\ purchase[n].parent = par} IN
    IF rows \subseteq invited THEN rows ELSE {"DataIntegrityError"}

StudentsPanel == {purchase[n].item : n \in listForParent(Shopper)}

(* What the tab says of a purchase, now or after the next reload, agrees   *)
(* with the panel of the parent's students, although it comes from an      *)
(* earlier answer, perhaps to another mount (CheckoutPage.onSubmit,        *)
(* consumeAlreadyEnrolledFlashFor).                                        *)
PageAgreesWithPanel ==
    /\ flash # Null => flash \in StudentsPanel
    /\ page.at = "course" /\ page.enrolled # Null => page.enrolled \in StudentsPanel
    /\ lastPurchase # Null => lastPurchase.id \in listForParent(Shopper)
    /\ page.at = "success" /\ page.shown # Null =>
          page.shown.id \in listForParent(Shopper)

(* A parent who opens no new form while a request is underway buys an item *)
(* once, however answers are lost, retried on the form or cut off: the key *)
(* of the mount covers the overlaps, the duplicate guard the rest.         *)
CarefulShopperBuysOnce ==
    ~hurried =>
        \A m, n \in Id :
            Bought(m) /\ Bought(n)
            /\ purchase[m].parent = Shopper /\ purchase[n].parent = Shopper
            /\ purchase[m].item = purchase[n].item
            => m = n

(* Documented, and refuted: the success page renders the link of the most  *)
(* recent purchase, also after a reload (CheckoutSuccessPage), whose       *)
(* answer may be an idempotent replay (CheckoutPage).                      *)
SuccessShowsLink == ~Broken
=============================================================================
