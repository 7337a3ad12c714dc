--------------------------- MODULE Checkout_proofs ---------------------------
(***************************************************************************)
(* What the tab does to the server is what the requests of Purchases do;   *)
(* what the tab shows agrees with the server's tables; and a shopper who   *)
(* opens no new form while a request is underway buys an item once.  All   *)
(* for every value of the constants.                                       *)
(*                                                                         *)
(* The last is about a guard that reads before the transaction begins.     *)
(* GuardHolds is what remains of its answer: a row that appeared since is  *)
(* of the request's own key, because OneKeyUnderway, and then the index on *)
(* the key stops the request.                                              *)
(***************************************************************************)
EXTENDS Checkout, Purchases_proofs

(* A request of the form or of another client is a request Purchases knows. *)
LEMMA ServerStepSimulated ==
    ASSUME ServerStep
    PROVE  Next
  <1>1. CASE \E p \in Proc : Step(p)
    BY <1>1 DEF Next
  <1>2. CASE \E p \in Proc \ awaited, call \in ApiCalls :
               Submit(p, call[1], call[2], call[3])
    <2>1. PICK p \in Proc \ awaited, call \in ApiCalls :
             Submit(p, call[1], call[2], call[3])
      BY <1>2
    <2>2. call[1] \in Parent /\ call[2] \in Key /\ call[3] \in Body
      BY ApiCallsAssumption
    <2> QED
      BY <2>1, <2>2 DEF Next
  <1>3. CASE Crash
    BY <1>3 DEF Next
  <1> QED
    BY <1>1, <1>2, <1>3 DEF ServerStep

(* The form's key is a key. *)
FormKey == page.at = "form" => page.key \in Key

LEMMA FormKeyInitially == CheckoutInit => FormKey
  BY DEF CheckoutInit, FormKey, CoursePage

LEMMA FormKeyKept ==
    ASSUME FormKey, [CheckoutNext]_checkoutVars
    PROVE  FormKey'
  <1>1. CASE MountPage
    <2>1. CASE MountCourse
      BY <2>1 DEF MountCourse, CoursePage, FormKey
    <2>2. CASE MountForm
      <3>1. FreshKey \in Key
        BY <2>2 DEF MountForm, FreshKey
      <3> QED
        BY <2>2, <3>1 DEF MountForm, Form, FormKey
    <2>3. CASE MountSuccess
      BY <2>3 DEF MountSuccess, SuccessPage, FormKey
    <2> QED
      BY <1>1, <2>1, <2>2, <2>3 DEF MountPage
  <1>2. CASE UNCHANGED page
    BY <1>2 DEF FormKey
  <1>3. ASSUME NEW p \in Proc, NEW b \in Body, SubmitForm(p, b)
        PROVE  FormKey'
    BY <1>3 DEF SubmitForm, Form, FormKey
  <1>4. ASSUME NEW p \in Proc, Succeeded(p)
        PROVE  FormKey'
    BY <1>4 DEF Succeeded, SuccessPage, FormKey
  <1>5. ASSUME NEW p \in Proc, AlreadyEnrolled(p)
        PROVE  FormKey'
    BY <1>5 DEF AlreadyEnrolled, CoursePage, FormKey
  <1>6. ASSUME NEW p \in Proc, page' = Settle(p)
        PROVE  FormKey'
    BY <1>6 DEF Settle, Form, FormKey
  <1> QED
    BY <1>1, <1>2, <1>3, <1>4, <1>5, <1>6
    DEF CheckoutNext, Navigate, Load, ServerStep, Refused, LosesAnswer, checkoutVars, tab

LEMMA StepSimulated ==
    ASSUME FormKey, [CheckoutNext]_checkoutVars
    PROVE  [Next]_vars
  <1>1. CASE ServerStep
    BY <1>1, ServerStepSimulated
  <1>2. CASE Navigate \/ Load
    BY <1>2 DEF Navigate, Load
  <1>3. ASSUME NEW p \in Proc, NEW b \in Body, SubmitForm(p, b)
        PROVE  Next
    <2>1. page.key \in Key /\ Submit(p, Shopper, page.key, b)
      BY <1>3 DEF SubmitForm, FormKey
    <2> QED
      BY <2>1, ShopperAssumption DEF Next
  <1>4. ASSUME NEW p \in Proc,
               Succeeded(p) \/ AlreadyEnrolled(p) \/ Refused(p) \/ LosesAnswer(p)
        PROVE  UNCHANGED vars
    BY <1>4 DEF Succeeded, AlreadyEnrolled, Refused, LosesAnswer, Answered
  <1>5. CASE UNCHANGED checkoutVars
    BY <1>5 DEF checkoutVars
  <1> QED
    BY <1>1, <1>2, <1>3, <1>4, <1>5 DEF CheckoutNext

(* Whatever the tab does, the server sees requests as Purchases describes  *)
(* them: what holds of Purchases holds behind the page.                    *)
THEOREM CheckoutRefines == CheckoutSpec => Spec
  <1>1. CheckoutInit => Init /\ FormKey
    BY FormKeyInitially DEF CheckoutInit
  <1>2. FormKey /\ [CheckoutNext]_checkoutVars => FormKey' /\ [Next]_vars
    BY FormKeyKept, StepSimulated
  <1> QED
    BY <1>1, <1>2, PTL DEF CheckoutSpec, Spec

(* A key that a mount generates buys once, whatever becomes of the page,   *)
(* its answers and the form's retries (CheckoutPage, ADR 0006).            *)
THEOREM MountBuysOnce == CheckoutSpec => []OnePurchasePerKey
  BY CheckoutRefines, KeyBuysOnce

-----------------------------------------------------------------------------
(* The tab and the tables. *)

OurRows == {n \in Id : Bought(n) /\ purchase[n].parent = Shopper}

OurItems == {purchase[n].item : n \in OurRows}

StashOf(rows) == [id : rows, full : BOOLEAN] \union {Null}

PagesOf(rows, items) ==
    [at : {"course"}, enrolled : items \union {Null}]
    \union [at : {"form"}, key : Key, submitting : Proc \union {Null}]
    \union [at : {"success"}, shown : StashOf(rows)]

(* The tab has its type, and names rows and items of the shopper only. *)
TabIsTrue ==
    /\ page \in PagesOf(OurRows, OurItems)
    /\ lastPurchase \in StashOf(OurRows)
    /\ flash \in OurItems \union {Null}
    /\ awaited \subseteq Proc /\ generated \subseteq Key /\ hurried \in BOOLEAN

(* A promise of the tab is for a request of the shopper, as long as a      *)
(* crash has not made an end of it.                                        *)
AwaitedIsOurs ==
    \A p \in awaited : req[p].pc # "idle" \/ reply[p] # "none" => req[p].parent = Shopper

LEMMA StepData ==
    ASSUME TypeOK, NEW p \in Proc, Step(p)
    PROVE  /\ req[p].pc # "idle"
           /\ \A q \in Proc : /\ req'[q].parent = req[q].parent /\ req'[q].key = req[q].key
                              /\ req'[q].body = req[q].body
                              /\ q # p => req'[q] = req[q] /\ reply'[q] = reply[q]
  <1>1. req[p].pc # "idle"
    BY DEF Step, Replay, BodyMismatch, Miss, GuardRefuses, GuardPasses, InsertPurchase,
           InsertViolatesKey, Store, Commit, Enqueue, Fail
  <1>2. UNCHANGED reply \/ \E r : reply' = [reply EXCEPT ![p] = r]
    BY DEF Step, Replay, BodyMismatch, Miss, GuardRefuses, GuardPasses, InsertPurchase,
           InsertViolatesKey, Store, Commit, Enqueue, Fail, Reject, Answer
  <1>3. \/ \E stage : req' = [req EXCEPT ![p].pc = stage]
        \/ \E n : req' = [req EXCEPT ![p].pc = "idle", ![p].id = n]
        \/ \E n : req' = [req EXCEPT ![p].id = n, ![p].pc = "store"]
    BY DEF Step, Replay, BodyMismatch, Miss, GuardRefuses, GuardPasses, InsertPurchase,
           InsertViolatesKey, Store, Commit, Enqueue, Fail, Reject, Answer, GoTo
  <1>4. ASSUME NEW n, \/ req' = [req EXCEPT ![p].pc = "idle", ![p].id = n]
                      \/ req' = [req EXCEPT ![p].id = n, ![p].pc = "store"]
        PROVE  /\ req'[p].parent = req[p].parent /\ req'[p].key = req[p].key
               /\ req'[p].body = req[p].body
               /\ \A q \in Proc \ {p} : req'[q] = req[q]
    <2>1. /\ \/ req'[p] = [req[p] EXCEPT !.pc = "idle", !.id = n]
             \/ req'[p] = [req[p] EXCEPT !.id = n, !.pc = "store"]
          /\ \A q \in Proc \ {p} : req'[q] = req[q]
      BY <1>4 DEF TypeOK
    <2> QED
      BY <2>1 DEF TypeOK
  <1>5. /\ req'[p].parent = req[p].parent /\ req'[p].key = req[p].key
        /\ req'[p].body = req[p].body
        /\ \A q \in Proc \ {p} : req'[q] = req[q]
    BY <1>3, <1>4, Moved
  <1>6. \A q \in Proc \ {p} : reply'[q] = reply[q]
    BY <1>2 DEF TypeOK
  <1> QED
    BY <1>1, <1>5, <1>6

LEMMA AwaitedStep ==
    ASSUME TypeOK, AwaitedIsOurs, awaited \subseteq Proc, [CheckoutNext]_checkoutVars
    PROVE  AwaitedIsOurs'
  <1>1. ASSUME awaited' \subseteq awaited, UNCHANGED <<req, reply>>
        PROVE  AwaitedIsOurs'
    BY <1>1 DEF AwaitedIsOurs
  <1>2. ASSUME NEW p \in Proc, Step(p), UNCHANGED awaited
        PROVE  AwaitedIsOurs'
    BY <1>2, StepData DEF AwaitedIsOurs
  <1>3. ASSUME NEW p \in Proc, NEW par, NEW k, NEW b, Submit(p, par, k, b)
        PROVE  /\ req'[p].parent = par /\ req'[p].key = k /\ req'[p].pc = "lookup"
               /\ \A q \in Proc \ {p} : req'[q] = req[q] /\ reply'[q] = reply[q]
    BY <1>3 DEF Submit, TypeOK
  <1>4. ASSUME NEW p \in Proc \ awaited, NEW par, NEW k, NEW b, Submit(p, par, k, b),
               UNCHANGED awaited
        PROVE  AwaitedIsOurs'
    BY <1>3, <1>4 DEF AwaitedIsOurs
  <1>5. ASSUME Crash, UNCHANGED awaited
        PROVE  AwaitedIsOurs'
    BY <1>5 DEF Crash, Idle, AwaitedIsOurs
  <1>6. CASE ServerStep
    BY <1>2, <1>4, <1>5, <1>6 DEF ServerStep, tab
  <1>7. ASSUME NEW p \in Proc, NEW b \in Body, SubmitForm(p, b)
        PROVE  AwaitedIsOurs'
    <2>1. Submit(p, Shopper, page.key, b) /\ awaited' = awaited \union {p}
      BY <1>7 DEF SubmitForm
    <2> QED
      BY <1>3, <2>1 DEF AwaitedIsOurs
  <1>8. ASSUME NEW p \in Proc,
               Succeeded(p) \/ AlreadyEnrolled(p) \/ Refused(p) \/ LosesAnswer(p)
        PROVE  awaited' \subseteq awaited /\ UNCHANGED <<req, reply>>
    BY <1>8 DEF Succeeded, AlreadyEnrolled, Refused, LosesAnswer, Answered, vars
  <1>9. Navigate \/ Load => awaited' \subseteq awaited /\ UNCHANGED <<req, reply>>
    BY DEF Navigate, Load, vars
  <1>10. UNCHANGED checkoutVars => awaited' \subseteq awaited /\ UNCHANGED <<req, reply>>
    BY DEF checkoutVars, vars, tab
  <1> QED
    BY <1>1, <1>6, <1>7, <1>8, <1>9, <1>10 DEF CheckoutNext

LEMMA RowsGrow ==
    ASSUME IInv, TablesGrow
    PROVE  OurRows \subseteq OurRows' /\ OurItems \subseteq OurItems'
  BY DEF OurRows, OurItems, TablesGrow, Bought

LEMMA PagesGrow ==
    ASSUME NEW rows, NEW moreRows, NEW items, NEW moreItems,
           rows \subseteq moreRows, items \subseteq moreItems
    PROVE  /\ StashOf(rows) \subseteq StashOf(moreRows)
           /\ PagesOf(rows, items) \subseteq PagesOf(moreRows, moreItems)
  <1>1. StashOf(rows) \subseteq StashOf(moreRows)
    BY DEF StashOf
  <1> QED
    BY <1>1 DEF PagesOf

LEMMA TabStep ==
    ASSUME IInv, AnswersKnow, TabIsTrue, AwaitedIsOurs, TablesGrow,
           [CheckoutNext]_checkoutVars
    PROVE  TabIsTrue'
  <1> DEFINE R == OurRows'
             I == OurItems'
             Goal == /\ page' \in PagesOf(R, I)
                     /\ lastPurchase' \in StashOf(R)
                     /\ flash' \in I \union {Null}
                     /\ awaited' \subseteq Proc /\ generated' \subseteq Key
                     /\ hurried' \in BOOLEAN
  <1>1. /\ OurRows \subseteq R /\ OurItems \subseteq I
        /\ page \in PagesOf(R, I)
        /\ lastPurchase \in StashOf(R)
        /\ flash \in I \union {Null}
        /\ awaited \subseteq Proc /\ generated \subseteq Key /\ hurried \in BOOLEAN
    <2>1. OurRows \subseteq R /\ OurItems \subseteq I
      BY RowsGrow
    <2> HIDE DEF R, I
    <2> QED
      BY <2>1, PagesGrow DEF TabIsTrue
  <1> HIDE DEF R, I
  <1>2. /\ \A x \in I \union {Null} : CoursePage(x) \in PagesOf(R, I)
        /\ \A k \in Key, x \in Proc \union {Null} : Form(k, x) \in PagesOf(R, I)
        /\ \A x \in StashOf(R) : SuccessPage(x) \in PagesOf(R, I)
    BY DEF CoursePage, Form, SuccessPage, PagesOf
  <1>3. page.at = "form" => page.key \in Key
    BY <1>1 DEF PagesOf
  <1>4. ASSUME MountPage, awaited' \subseteq awaited PROVE Goal
    <2>1. CASE MountCourse
      BY <1>1, <1>2, <1>4, <2>1 DEF MountCourse
    <2>2. CASE MountForm
      <3>1. FreshKey \in Key
        BY <2>2 DEF MountForm, FreshKey
      <3>2. (hurried \/ Underway) \in BOOLEAN
        BY <1>1 DEF Underway
      <3> QED
        BY <1>1, <1>2, <1>4, <2>2, <3>1, <3>2 DEF MountForm
    <2>3. CASE MountSuccess
      BY <1>1, <1>2, <1>4, <2>3 DEF MountSuccess
    <2> QED
      BY <1>4, <2>1, <2>2, <2>3 DEF MountPage
  <1>5. ASSUME NEW p \in Proc, NEW b \in Body, SubmitForm(p, b)
        PROVE  Goal
    BY <1>1, <1>2, <1>3, <1>5 DEF SubmitForm
  <1>6. ASSUME NEW p \in Proc, NEW codes, Answered(p, codes), "none" \notin codes
        PROVE  /\ req[p].parent = Shopper /\ reply[p] \in codes /\ AnswerKnown(p)
               /\ awaited' \subseteq Proc
    BY <1>1, <1>6 DEF Answered, AwaitedIsOurs, AnswersKnow
  <1>7. ASSUME NEW p \in Proc, Succeeded(p)
        PROVE  Goal
    <2>1. Answered(p, {"created", "replayed"})
      BY <1>7 DEF Succeeded
    <2>2. req[p].parent = Shopper /\ reply[p] \in {"created", "replayed"} /\ AnswerKnown(p)
      BY <1>6, <2>1
    <2>3. req[p].id \in Id /\ Bought(req[p].id) /\ purchase[req[p].id].parent = Shopper
      BY <2>2 DEF AnswerKnown, RowAt
    <2>4. req[p].id \in R
      BY <1>1, <2>3 DEF OurRows
    <2>5. [id |-> req[p].id, full |-> reply[p] = "created"] \in StashOf(R)
      BY <2>4 DEF StashOf
    <2> QED
      BY <1>1, <1>2, <1>6, <1>7, <2>1, <2>5 DEF Succeeded
  <1>8. ASSUME NEW p \in Proc, AlreadyEnrolled(p)
        PROVE  Goal
    <2>1. Answered(p, {"DUPLICATE_PURCHASE"})
      BY <1>8 DEF AlreadyEnrolled
    <2>2. ItemAt(p) \in OurItems
      BY <1>6, <2>1 DEF AnswerKnown, OurItems, OurRows
    <2> QED
      BY <1>1, <1>2, <1>6, <1>8, <2>1, <2>2 DEF AlreadyEnrolled
  <1>9. ASSUME NEW p \in Proc, Refused(p) \/ LosesAnswer(p)
        PROVE  Goal
    BY <1>1, <1>2, <1>3, <1>9 DEF Refused, LosesAnswer, Answered, Settle
  <1>10. UNCHANGED tab => Goal
    BY <1>1 DEF tab
  <1>11. Goal => TabIsTrue'
    BY DEF TabIsTrue, R, I
  <1>12. Navigate \/ Load => MountPage /\ awaited' \subseteq awaited
    BY DEF Navigate, Load
  <1> HIDE DEF Goal
  <1>13. UNCHANGED checkoutVars \/ ServerStep => UNCHANGED tab
    BY DEF checkoutVars, ServerStep
  <1> QED
    BY <1>4, <1>5, <1>7, <1>8, <1>9, <1>10, <1>11, <1>12, <1>13 DEF CheckoutNext

-----------------------------------------------------------------------------
(* The careful shopper. *)

UnderwayFor(p) == req[p].pc # "idle" /\ req[p].parent = Shopper

Guarded == {"insert", "store", "commit"}

(* All requests underway have the key of one form, the form shown if one   *)
(* is.                                                                     *)
OneKeyUnderway ==
    \A p, q \in Proc : UnderwayFor(p) =>
        /\ page.at = "form" => req[p].key = page.key
        /\ UnderwayFor(q) => req[p].key = req[q].key

(* The guard said there is no such purchase: there is none but the key's.  *)
GuardHolds ==
    \A p \in Proc : UnderwayFor(p) /\ req[p].pc \in Guarded =>
        \A n \in OurRows : purchase[n].item = ItemAt(p) => purchase[n].key = req[p].key

BuysOnce == \A m, n \in OurRows : purchase[m].item = purchase[n].item => m = n

CarefulInv == ~hurried => OneKeyUnderway /\ GuardHolds /\ BuysOnce

(* What the requests do to a shopper's own. *)
LEMMA RequestKeepsCareful ==
    ASSUME IInv, NEW p \in Proc, Step(p), OneKeyUnderway, GuardHolds, BuysOnce, UNCHANGED page
    PROVE  OneKeyUnderway' /\ GuardHolds' /\ BuysOnce'
  <1>0. TypeOK
    BY DEF IInv
  <1>1. /\ req[p].pc # "idle"
        /\ \A q \in Proc : /\ req'[q].parent = req[q].parent /\ req'[q].key = req[q].key
                           /\ ItemAt(q)' = ItemAt(q)
                           /\ q # p => req'[q] = req[q]
    BY <1>0, StepData DEF ItemAt
  <1>2. \A q \in Proc : UnderwayFor(q)' => UnderwayFor(q)
    BY <1>1 DEF UnderwayFor
  <1>3. OneKeyUnderway'
    BY <1>1, <1>2 DEF OneKeyUnderway
  <1>4. CASE Commit(p)
    <2> DEFINE id == req[p].id
    <2>1. /\ req[p].pc = "commit" /\ purchase' = [purchase EXCEPT ![id] = RowAt(p)]
          /\ req' = [req EXCEPT ![p].pc = "enqueue"]
      BY <1>4 DEF Commit, GoTo, RowAt
    <2>2. id \in Id /\ ~Bought(id) /\ ~KeyTaken(SlotOf(p))
      BY <2>1 DEF IInv, KeyHeld, Open
    <2>3. /\ purchase'[id] = RowAt(p) /\ \A n \in Id \ {id} : purchase'[n] = purchase[n]
      BY <1>0, <2>1, <2>2 DEF TypeOK
    <2> HIDE DEF id
    <2>4. \A n \in Id : Bought(n)' => n = id \/ Bought(n)
      BY <2>3 DEF Bought
    <2>5. /\ id \in OurRows' => UnderwayFor(p) /\ purchase'[id].key = req[p].key
                                /\ purchase'[id].item = ItemAt(p)
          /\ \A n \in OurRows' \ {id} : n \in OurRows /\ purchase'[n] = purchase[n]
      BY <1>1, <2>3, <2>4 DEF OurRows, UnderwayFor, RowAt
    <2>6. req'[p].pc \notin Guarded
      <3>1. req'[p].pc = "enqueue"
        BY <1>0, <2>1, Moved
      <3> QED
        BY <3>1 DEF Guarded
    <2>7. GuardHolds'
      <3> SUFFICES ASSUME NEW q \in Proc, UnderwayFor(q)', req'[q].pc \in Guarded,
                          NEW n \in OurRows', purchase'[n].item = ItemAt(q)'
                   PROVE  purchase'[n].key = req'[q].key
        BY DEF GuardHolds
      <3>1. q # p /\ UnderwayFor(q) /\ req'[q] = req[q] /\ ItemAt(q)' = ItemAt(q)
        BY <1>1, <1>2, <2>6
      <3>2. CASE n = id
        BY <2>5, <3>1, <3>2 DEF OneKeyUnderway
      <3>3. CASE n # id
        BY <2>5, <3>1, <3>3 DEF GuardHolds
      <3> QED
        BY <3>2, <3>3
    <2>8. ASSUME NEW n \in OurRows' \ {id}, id \in OurRows'
          PROVE  purchase'[n].item # purchase'[id].item
      <3>1. n \in OurRows /\ purchase'[n] = purchase[n] /\ UnderwayFor(p)
        BY <2>5, <2>8
      <3>2. purchase[n].item = ItemAt(p) => purchase[n].key = req[p].key
        BY <2>1, <3>1 DEF GuardHolds, Guarded
      <3>3. purchase[n].parent = req[p].parent /\ n \in Id /\ Bought(n)
        BY <3>1 DEF OurRows, UnderwayFor
      <3>4. purchase[n].key # req[p].key
        BY <2>2, <3>3 DEF KeyTaken, SlotOf
      <3> QED
        BY <2>5, <2>8, <3>1, <3>2, <3>4
    <2>9. BuysOnce'
      BY <2>5, <2>8 DEF BuysOnce
    <2> QED
      BY <1>3, <2>7, <2>9
  <1>5. CASE ~Commit(p)
    <2>1. UNCHANGED tables
      BY <1>5 DEF Step, Replay, BodyMismatch, Miss, GuardRefuses, GuardPasses, InsertPurchase,
                  InsertViolatesKey, Store, Enqueue, Fail, Reject
    <2>2. OurRows' = OurRows /\ purchase' = purchase
      BY <2>1 DEF OurRows, Bought, tables
    <2>3. BuysOnce'
      BY <2>2 DEF BuysOnce
    <2>4. req'[p].pc \in Guarded => req[p].pc \in Guarded \/ GuardPasses(p)
      <3>1. req'[p].pc \in Guarded => GuardPasses(p) \/ InsertPurchase(p) \/ Store(p)
        <4>1. ASSUME NEW code, Answer(p, code) PROVE req'[p].pc = "idle"
          BY <1>0, <4>1, Moved DEF Answer, GoTo
        <4>2. Miss(p) => req'[p].pc = "guard"
          BY <1>0, Moved DEF Miss, GoTo
        <4>3. Replay(p) => req'[p].pc = "idle"
          BY <1>0 DEF Replay, TypeOK
        <4> QED
          BY <1>5, <4>1, <4>2, <4>3
          DEF Step, BodyMismatch, GuardRefuses, InsertViolatesKey, Enqueue, Fail, Reject, Guarded
      <3> QED
        BY <3>1 DEF InsertPurchase, Store, Guarded
    <2>5. GuardHolds'
      <3> SUFFICES ASSUME NEW q \in Proc, UnderwayFor(q)', req'[q].pc \in Guarded,
                          NEW n \in OurRows, purchase[n].item = ItemAt(q)
                   PROVE  purchase[n].key = req[q].key
        BY <1>1, <2>2 DEF GuardHolds
      <3>1. UnderwayFor(q)
        BY <1>2
      <3>2. CASE req[q].pc \in Guarded
        BY <3>1, <3>2 DEF GuardHolds
      <3>3. CASE req[q].pc \notin Guarded
        <4>1. q = p /\ GuardPasses(p)
          BY <1>1, <2>4, <3>3
        <4>2. ~AlreadyBought(Shopper, ItemAt(p))
          BY <3>1, <4>1 DEF GuardPasses, UnderwayFor
        <4>3. n \in invited /\ purchase[n].parent = Shopper
          BY DEF OurRows, IInv, PurchaseIsWhole
        <4> QED
          BY <4>1, <4>2, <4>3 DEF AlreadyBought
      <3> QED
        BY <3>2, <3>3
    <2> QED
      BY <1>3, <2>3, <2>5
  <1> QED
    BY <1>4, <1>5

LEMMA CarefulStep ==
    ASSUME IInv, TabIsTrue, CarefulInv, [CheckoutNext]_checkoutVars
    PROVE  CarefulInv'
  <1> SUFFICES ASSUME ~hurried' PROVE OneKeyUnderway' /\ GuardHolds' /\ BuysOnce'
    BY DEF CarefulInv
  <1> DEFINE Goal == OneKeyUnderway' /\ GuardHolds' /\ BuysOnce'
  <1>1. ~hurried /\ OneKeyUnderway /\ GuardHolds /\ BuysOnce
    <2>1. hurried' = hurried \/ hurried' = (hurried \/ Underway)
      BY DEF CheckoutNext, Navigate, Load, MountPage, MountCourse, MountForm, MountSuccess,
             SubmitForm, Succeeded, AlreadyEnrolled, Refused, LosesAnswer, ServerStep,
             checkoutVars, tab
    <2>2. hurried => hurried'
      BY <2>1
    <2> QED
      BY <2>2 DEF CarefulInv
  <1>2. UNCHANGED tables => OurRows' = OurRows /\ purchase' = purchase
    BY DEF OurRows, Bought, tables
  <1>3. ASSUME UNCHANGED tables,
               \A q \in Proc : UnderwayFor(q)' =>
                  \/ /\ UnderwayFor(q) /\ req'[q] = req[q]
                     /\ page'.at = "form" => page.at = "form" /\ page'.key = page.key
                  \/ /\ page.at = "form" /\ page'.at = "form" /\ page'.key = page.key
                     /\ req'[q].key = page.key /\ req'[q].pc = "lookup"
        PROVE  Goal
    <2>1. OneKeyUnderway'
      BY <1>1, <1>3 DEF OneKeyUnderway
    <2>2. GuardHolds'
      BY <1>1, <1>2, <1>3 DEF GuardHolds, ItemAt, Guarded
    <2>3. BuysOnce'
      BY <1>1, <1>2, <1>3 DEF BuysOnce
    <2> QED
      BY <2>1, <2>2, <2>3
  <1>4. ASSUME UNCHANGED vars,
               page'.at = "form" => page.at = "form" /\ page'.key = page.key
        PROVE  Goal
    BY <1>3, <1>4 DEF vars, UnderwayFor
  <1>5. ASSUME UNCHANGED vars, MountPage
        PROVE  Goal
    <2>1. CASE MountForm
      <3>1. ~Underway
        BY <2>1 DEF MountForm
      <3>2. \A q \in Proc : ~UnderwayFor(q)'
        BY <1>5, <3>1 DEF vars, Underway, UnderwayFor
      <3> QED
        BY <1>3, <1>5, <3>2 DEF vars
    <2>2. CASE MountCourse \/ MountSuccess
      BY <1>4, <1>5, <2>2 DEF MountCourse, MountSuccess, CoursePage, SuccessPage
    <2> QED
      BY <1>5, <2>1, <2>2 DEF MountPage
  <1>6. ASSUME NEW p \in Proc, NEW par, NEW k, NEW b, Submit(p, par, k, b)
        PROVE  /\ UNCHANGED tables
               /\ req'[p].parent = par /\ req'[p].key = k /\ req'[p].pc = "lookup"
               /\ \A q \in Proc \ {p} : req'[q] = req[q]
    BY <1>6 DEF Submit, IInv, TypeOK
  <1>7. ASSUME NEW p \in Proc, NEW b \in Body, SubmitForm(p, b)
        PROVE  Goal
    <2>1. /\ page.at = "form" /\ page'.at = "form" /\ page'.key = page.key
          /\ Submit(p, Shopper, page.key, b)
      BY <1>7 DEF SubmitForm, Form
    <2> QED
      BY <1>3, <1>6, <2>1 DEF UnderwayFor
  <1>8. ASSUME NEW p \in Proc, NEW call \in ApiCalls, Submit(p, call[1], call[2], call[3]),
               UNCHANGED page
        PROVE  Goal
    <2>1. call[1] # Shopper
      BY ApiCallsAssumption
    <2> QED
      BY <1>3, <1>6, <1>8, <2>1 DEF UnderwayFor
  <1>9. ASSUME Crash
        PROVE  Goal
    BY <1>3, <1>9 DEF Crash, Idle, UnderwayFor
  <1>10. CASE ServerStep
    BY <1>1, <1>8, <1>9, <1>10, RequestKeepsCareful DEF ServerStep, tab
  <1>11. ASSUME NEW p \in Proc, Succeeded(p) \/ AlreadyEnrolled(p)
         PROVE  Goal
    <2>1. UNCHANGED vars /\ (page' = page \/ page'.at # "form")
      BY <1>11 DEF Succeeded, AlreadyEnrolled, Answered, SuccessPage, CoursePage
    <2> QED
      BY <1>4, <2>1
  <1>12. ASSUME NEW p \in Proc, Refused(p) \/ LosesAnswer(p)
         PROVE  Goal
    <2>1. UNCHANGED vars /\ page' = Settle(p)
      BY <1>12 DEF Refused, LosesAnswer, Answered
    <2>2. page'.at = "form" => page.at = "form" /\ page'.key = page.key
      BY <2>1 DEF Settle, Form
    <2> QED
      BY <1>4, <2>1, <2>2
  <1>13. CASE UNCHANGED checkoutVars
    BY <1>4, <1>13 DEF checkoutVars, tab
  <1> QED
    BY <1>5, <1>7, <1>10, <1>11, <1>12, <1>13 DEF CheckoutNext, Navigate, Load

-----------------------------------------------------------------------------
CheckoutInv == TabIsTrue /\ AwaitedIsOurs /\ CarefulInv

LEMMA CheckoutInductive == CheckoutSpec => [](IInv /\ CheckoutInv)
  <1>1. CheckoutInit => CheckoutInv
    <2>1. CheckoutInit => TabIsTrue
      <3>1. CoursePage(Null) \in PagesOf(OurRows, OurItems) /\ Null \in StashOf(OurRows)
        BY DEF CoursePage, PagesOf, StashOf
      <3> QED
        BY <3>1 DEF CheckoutInit, TabIsTrue
    <2>2. CheckoutInit => AwaitedIsOurs
      BY DEF CheckoutInit, AwaitedIsOurs
    <2>3. CheckoutInit => OneKeyUnderway /\ GuardHolds
      BY DEF CheckoutInit, Init, Idle, OneKeyUnderway, GuardHolds, UnderwayFor
    <2>4. CheckoutInit => BuysOnce
      BY DEF CheckoutInit, Init, BuysOnce, OurRows, Bought
    <2> QED
      BY <2>1, <2>2, <2>3, <2>4 DEF CheckoutInv, CarefulInv
  <1>2. /\ IInv /\ AnswersKnow /\ CheckoutInv /\ [Next]_vars
        /\ [CheckoutNext]_checkoutVars
        => CheckoutInv'
    BY Growing, TabStep, AwaitedStep, CarefulStep DEF CheckoutInv, IInv, TabIsTrue
  <1>3. CheckoutSpec => [][Next]_vars /\ [](IInv /\ AnswersKnow)
    BY CheckoutRefines, AnswersAlways, PTL DEF Spec
  <1> QED
    BY <1>1, <1>2, <1>3, PTL DEF CheckoutSpec

(* What listForParent answers, since a purchase has its invitation. *)
LEMMA PanelIsOurs ==
    ASSUME IInv
    PROVE  listForParent(Shopper) = OurRows /\ StudentsPanel = OurItems
  <1>1. OurRows \subseteq invited
    BY DEF IInv, PurchaseIsWhole, OurRows
  <1>2. listForParent(Shopper) = OurRows
    BY <1>1 DEF listForParent, OurRows
  <1> QED
    BY <1>2 DEF StudentsPanel, OurItems

(* Every variable of the tab and the server has its type, whichever mount  *)
(* an answer reaches.                                                      *)
THEOREM CheckoutTypeCorrect == CheckoutSpec => []CheckoutTypeOK
  <1>1. IInv /\ CheckoutInv => CheckoutTypeOK
    <2> SUFFICES ASSUME IInv, CheckoutInv PROVE CheckoutTypeOK
      OBVIOUS
    <2>1. OurRows \subseteq Id /\ OurItems \subseteq Item
      BY DEF OurRows, OurItems, IInv, TypeOK, Bought, Row
    <2>2. page \in PagesOf(Id, Item) /\ lastPurchase \in StashOf(Id)
      BY <2>1, PagesGrow DEF CheckoutInv, TabIsTrue
    <2> QED
      BY <2>1, <2>2 DEF CheckoutTypeOK, CheckoutInv, TabIsTrue, PagesOf, StashOf, Stash,
                        ICheckoutFlash, IInv
  <1> QED
    BY <1>1, CheckoutInductive, PTL

(* What the tab shows or keeps of a purchase is in the parent's panel, in  *)
(* whatever order answers, mounts and reloads come (CheckoutPage.onSubmit, *)
(* consumeAlreadyEnrolledFlashFor, PurchasesService.listForParent).        *)
THEOREM ThePageAgrees == CheckoutSpec => []PageAgreesWithPanel
  <1>1. IInv /\ CheckoutInv => PageAgreesWithPanel
    <2> SUFFICES ASSUME IInv, CheckoutInv PROVE PageAgreesWithPanel
      OBVIOUS
    <2>1. TabIsTrue
      BY DEF CheckoutInv
    <2>2. /\ flash # Null => flash \in OurItems
          /\ lastPurchase # Null => lastPurchase.id \in OurRows
      BY <2>1 DEF TabIsTrue, StashOf
    <2>3. page.at = "course" /\ page.enrolled # Null => page.enrolled \in OurItems
      BY <2>1 DEF TabIsTrue, PagesOf
    <2>4. page.at = "success" /\ page.shown # Null => page.shown.id \in OurRows
      BY <2>1 DEF TabIsTrue, PagesOf, StashOf
    <2> QED
      BY <2>2, <2>3, <2>4, PanelIsOurs DEF PageAgreesWithPanel
  <1> QED
    BY <1>1, CheckoutInductive, PTL

(* The duplicate guard reads before the transaction begins, and nothing in *)
(* the database keeps an item from being bought twice: that a parent who   *)
(* opens no form while a request is underway buys it once is due to the    *)
(* key of the mount (CheckoutPage, assertNoDuplicatePurchaseByParent).     *)
THEOREM CarefulShopperIsSafe == CheckoutSpec => []CarefulShopperBuysOnce
  <1>1. CheckoutInv => CarefulShopperBuysOnce
    BY DEF CheckoutInv, CarefulInv, BuysOnce, OurRows, CarefulShopperBuysOnce
  <1> QED
    BY <1>1, CheckoutInductive, PTL
=============================================================================
