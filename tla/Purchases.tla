------------------------------ MODULE Purchases ------------------------------
(***************************************************************************)
(* Buying a course: POST /purchases through IdempotencyInterceptor and     *)
(* PurchasesService.createPurchase.  The purchase, its invitation and the  *)
(* stored replay are written by one Postgres transaction; the lookup of a  *)
(* replay and the duplicate guard read before it, on other connections;    *)
(* the invitation's email job is enqueued in Redis after it.               *)
(*                                                                         *)
(* A purchase and its invitation share an id.  A body stands for its hash; *)
(* ItemOf is what the DTO makes of it: a course and a normalised student   *)
(* email.  Two bodies may differ in hash and name the same item.           *)
(***************************************************************************)
EXTENDS Naturals, FiniteSets

CONSTANTS
    Parent, Key, Body, Item,
    ItemOf,       \* [Body -> Item]
    Id,           \* ids of purchases; the model stops buying when they run out
    Proc,         \* requests that can be in flight at once
    Null

ASSUME ItemAssumption == ItemOf \in [Body -> Item]

ASSUME NullAssumption ==
    /\ Null \notin Id \union Key \union Item \union Proc \union Body
    /\ Null \notin [parent : Parent, key : Key, item : Item]
    /\ Null \notin [body : Body, id : Id]

VARIABLES
    purchase,   \* purchases: id -> [parent, key, item], or Null
    invited,    \* invitations: the purchases that have theirs
    stored,     \* idempotency_keys: <<parent, key>> -> [body, id], or Null
    queue,      \* jobs ever added to the invitation-email queue
    keyHolder,  \* index (parent_user_id, idempotency_key): uncommitted insert
    req,        \* request: [pc, parent, key, body, id]
    reply       \* request: the answer, kept until its slot is used again

tables == <<purchase, invited, stored>>
vars == <<tables, queue, keyHolder, req, reply>>

Slot == Parent \X Key
SlotOf(p) == <<req[p].parent, req[p].key>>
ItemAt(p) == ItemOf[req[p].body]

Idle == [pc |-> "idle", parent |-> Null, key |-> Null, body |-> Null, id |-> Null]

Init ==
    /\ purchase = [n \in Id |-> Null]
    /\ invited = {}
    /\ stored = [s \in Slot |-> Null]
    /\ queue = {}
    /\ keyHolder = [s \in Slot |-> Null]
    /\ req = [p \in Proc |-> Idle]
    /\ reply = [p \in Proc |-> "none"]

GoTo(p, stage) == req' = [req EXCEPT ![p].pc = stage]

Release(p) ==
    keyHolder' = [s \in Slot |-> IF keyHolder[s] = p THEN Null ELSE keyHolder[s]]

Answer(p, r) ==
    /\ GoTo(p, "idle")
    /\ reply' = [reply EXCEPT ![p] = r]

(* An exception leaves the handler: rollback, and an error answer. *)
Reject(p, code) ==
    /\ Answer(p, code)
    /\ Release(p)
    /\ UNCHANGED <<tables, queue>>

Bought(id) == purchase[id] # Null

(* Ids neither committed nor taken by a transaction in flight. *)
FreeIds ==
    {n \in Id : ~Bought(n)} \ {req[p].id : p \in {q \in Proc : req[q].pc # "idle"}}

-----------------------------------------------------------------------------
(* IdempotencyInterceptor. *)

(* A request with a well-formed key arrives. *)
Submit(p, par, k, b) ==
    /\ req[p].pc = "idle"
    /\ req' = [req EXCEPT ![p] = [pc |-> "lookup", parent |-> par, key |-> k,
                                  body |-> b, id |-> Null]]
    /\ reply' = [reply EXCEPT ![p] = "none"]
    /\ UNCHANGED <<tables, queue, keyHolder>>

(* A mutant: the stored body's hash is not compared. *)
BugReplayAnyBody(p) ==
    /\ req[p].pc = "lookup"
    /\ stored[SlotOf(p)] # Null
    /\ reply' = [reply EXCEPT ![p] = "replayed"]
    /\ req' = [req EXCEPT ![p].pc = "idle", ![p].id = stored[SlotOf(p)].id]
    /\ UNCHANGED <<tables, queue, keyHolder>>

(* The stored answer, which names the purchase, is sent again. *)
Replay(p) ==
    /\ req[p].pc = "lookup"
    /\ stored[SlotOf(p)] # Null
    /\ stored[SlotOf(p)].body = req[p].body
    /\ reply' = [reply EXCEPT ![p] = "replayed"]
    /\ req' = [req EXCEPT ![p].pc = "idle", ![p].id = stored[SlotOf(p)].id]
    /\ UNCHANGED <<tables, queue, keyHolder>>

BodyMismatch(p) ==
    /\ req[p].pc = "lookup"
    /\ stored[SlotOf(p)] # Null
    /\ stored[SlotOf(p)].body # req[p].body
    /\ Reject(p, "BODY_MISMATCH")

Miss(p) ==
    /\ req[p].pc = "lookup"
    /\ stored[SlotOf(p)] = Null
    /\ GoTo(p, "guard")
    /\ UNCHANGED <<tables, queue, keyHolder, reply>>

-----------------------------------------------------------------------------
(* PurchasesService.createPurchase. *)

(* A mutant: the guard looks for a status nothing has. *)
BugAlreadyBoughtNever(par, item) == FALSE

(* existsCompletedForParentCourseAndStudent: the join needs the invitation. *)
AlreadyBought(par, item) ==
    \E n \in invited : purchase[n].parent = par /\ purchase[n].item = item

(* assertNoDuplicatePurchaseByParent, before the transaction begins. *)
GuardRefuses(p) ==
    /\ req[p].pc = "guard"
    /\ AlreadyBought(req[p].parent, ItemAt(p))
    /\ Reject(p, "DUPLICATE_PURCHASE")

GuardPasses(p) ==
    /\ req[p].pc = "guard"
    /\ ~AlreadyBought(req[p].parent, ItemAt(p))
    /\ GoTo(p, "insert")
    /\ UNCHANGED <<tables, queue, keyHolder, reply>>

KeyTaken(s) ==
    \E n \in Id : Bought(n) /\ purchase[n].parent = s[1] /\ purchase[n].key = s[2]

(* A mutant: the key's index is on committed rows only, or deferred. *)
BugInsertUnlocked(p) ==
    /\ req[p].pc = "insert"
    /\ ~KeyTaken(SlotOf(p))
    /\ \E n \in FreeIds : req' = [req EXCEPT ![p].id = n, ![p].pc = "store"]
    /\ keyHolder' = [keyHolder EXCEPT ![SlotOf(p)] = p]
    /\ UNCHANGED <<tables, queue, reply>>

(* BEGIN and purchasesRepository.insertWithinTransaction.  An uncommitted  *)
(* purchase with the same key makes the insert wait.                       *)
InsertPurchase(p) ==
    /\ req[p].pc = "insert"
    /\ keyHolder[SlotOf(p)] = Null
    /\ ~KeyTaken(SlotOf(p))
    /\ \E n \in FreeIds : req' = [req EXCEPT ![p].id = n, ![p].pc = "store"]
    /\ keyHolder' = [keyHolder EXCEPT ![SlotOf(p)] = p]
    /\ UNCHANGED <<tables, queue, reply>>

(* A racer with the same key has committed: the purchases index raises     *)
(* 23505, nobody translates it, and HttpExceptionFilter answers 500.       *)
InsertViolatesKey(p) ==
    /\ req[p].pc = "insert"
    /\ keyHolder[SlotOf(p)] = Null
    /\ KeyTaken(SlotOf(p))
    /\ Reject(p, "INTERNAL_ERROR")

(* A mutant: the job is added inside the transaction. *)
BugStoreEnqueues(p) ==
    /\ req[p].pc = "store"
    /\ GoTo(p, "commit")
    /\ queue' = queue \union {req[p].id}
    /\ UNCHANGED <<tables, keyHolder, reply>>

(* issueWithinTransaction and persistWithinTransaction; their rows show    *)
(* with the commit.  persistWithinTransaction's handling of a unique       *)
(* violation has no action: PersistUncontended says it is never needed.    *)
Store(p) ==
    /\ req[p].pc = "store"
    /\ GoTo(p, "commit")
    /\ UNCHANGED <<tables, queue, keyHolder, reply>>

(* A mutant: the replay is stored by a transaction of its own, later. *)
BugCommitWithoutReplay(p) ==
    /\ req[p].pc = "commit"
    /\ purchase' = [purchase EXCEPT ![req[p].id] =
                      [parent |-> req[p].parent, key |-> req[p].key, item |-> ItemAt(p)]]
    /\ invited' = invited \union {req[p].id}
    /\ Release(p)
    /\ GoTo(p, "enqueue")
    /\ UNCHANGED <<stored, queue, reply>>

(* A mutant: the row keeps the id of the body. *)
BugCommitKeepsBody(p) ==
    /\ req[p].pc = "commit"
    /\ purchase' = [purchase EXCEPT ![req[p].id] =
                      [parent |-> req[p].parent, key |-> req[p].key,
                       item |-> req[p].body]]
    /\ invited' = invited \union {req[p].id}
    /\ stored' = [stored EXCEPT ![SlotOf(p)] = [body |-> req[p].body, id |-> req[p].id]]
    /\ Release(p)
    /\ GoTo(p, "enqueue")
    /\ UNCHANGED <<queue, reply>>

Commit(p) ==
    /\ req[p].pc = "commit"
    /\ purchase' = [purchase EXCEPT ![req[p].id] =
                      [parent |-> req[p].parent, key |-> req[p].key, item |-> ItemAt(p)]]
    /\ invited' = invited \union {req[p].id}
    /\ stored' = [stored EXCEPT ![SlotOf(p)] = [body |-> req[p].body, id |-> req[p].id]]
    /\ Release(p)
    /\ GoTo(p, "enqueue")
    /\ UNCHANGED <<queue, reply>>

(* enqueueInvitationEmail, whose errors are logged and swallowed; the      *)
(* answer is 201 either way.                                               *)
Enqueue(p) ==
    /\ req[p].pc = "enqueue"
    /\ \/ queue' = queue \union {req[p].id}
       \/ UNCHANGED queue
    /\ Answer(p, "created")
    /\ UNCHANGED <<tables, keyHolder>>

(* A query fails (an unknown course, a lost connection): rollback. *)
Fail(p) ==
    /\ req[p].pc \notin {"idle", "enqueue"}
    /\ Reject(p, "error")

(* The process dies: its transactions are rolled back, and a purchase      *)
(* between its commit and its enqueue stays without a job.                 *)
Crash ==
    /\ req' = [p \in Proc |-> Idle]
    /\ reply' = [p \in Proc |-> "none"]
    /\ keyHolder' = [s \in Slot |-> Null]
    /\ UNCHANGED <<tables, queue>>

-----------------------------------------------------------------------------
Step(p) ==
    \/ Replay(p) \/ BodyMismatch(p) \/ Miss(p)
    \/ GuardRefuses(p) \/ GuardPasses(p)
    \/ InsertPurchase(p) \/ InsertViolatesKey(p)
    \/ Store(p) \/ Commit(p) \/ Enqueue(p) \/ Fail(p)

Next ==
    \/ \E p \in Proc :
          \/ \E par \in Parent, k \in Key, b \in Body : Submit(p, par, k, b)
          \/ Step(p)
    \/ Crash

Spec == Init /\ [][Next]_vars

-----------------------------------------------------------------------------
(* Correctness. *)

Row == [parent : Parent, key : Key, item : Item]

(* Every variable has its type. *)
TypeOK ==
    /\ purchase \in [Id -> Row \union {Null}]
    /\ invited \subseteq Id
    /\ stored \in [Slot -> [body : Body, id : Id] \union {Null}]
    /\ queue \subseteq Id
    /\ keyHolder \in [Slot -> Proc \union {Null}]
    /\ req \in [Proc -> [pc : {"idle", "lookup", "guard", "insert", "store",
                               "commit", "enqueue"},
                         parent : Parent \union {Null}, key : Key \union {Null},
                         body : Body \union {Null}, id : Id \union {Null}]]
    /\ reply \in [Proc -> {"none", "replayed", "created", "error", "BODY_MISMATCH",
                           "DUPLICATE_PURCHASE", "INTERNAL_ERROR"}]

(* However often a request is retried, overlapped or cut off by a crash,   *)
(* its key buys once (ADR 0006).                                           *)
OnePurchasePerKey ==
    \A m, n \in Id :
        Bought(m) /\ Bought(n)
        /\ purchase[m].parent = purchase[n].parent /\ purchase[m].key = purchase[n].key
        => m = n

(* Purchase, invitation and replay exist together or not at all: what      *)
(* listForParent relies on, and what makes a retry find its purchase.      *)
PurchaseIsWhole ==
    /\ \A n \in Id : Bought(n) <=> n \in invited
    /\ \A n \in invited :
          LET entry == stored[<<purchase[n].parent, purchase[n].key>>] IN
          /\ entry # Null
          /\ entry.id = n
          /\ ItemOf[entry.body] = purchase[n].item
    /\ \A s \in Slot : stored[s] # Null => Bought(stored[s].id)

(* A job never points at a row that was rolled back (createPurchase).      *)
JobsAreCommitted == queue \subseteq invited

(* Every answer that speaks of a purchase speaks of one that exists:       *)
(* created and replayed of the requested item under the request's key,     *)
(* the refusals of another purchase that explains them.                    *)
AnswersAreTrue ==
    \A p \in Proc :
        LET r == req[p] IN
        /\ reply[p] \in {"created", "replayed"} =>
              /\ Bought(r.id)
              /\ purchase[r.id] = [parent |-> r.parent, key |-> r.key,
                                   item |-> ItemOf[r.body]]
        /\ reply[p] = "BODY_MISMATCH" => stored[SlotOf(p)].body # r.body
        /\ reply[p] = "DUPLICATE_PURCHASE" =>
              \E n \in Id : Bought(n) /\ purchase[n].parent = r.parent
                                      /\ purchase[n].item = ItemOf[r.body]
        /\ reply[p] = "INTERNAL_ERROR" => KeyTaken(SlotOf(p))

(* When the replay is inserted, no committed or uncommitted replay is in   *)
(* its way: the index on purchases has decided before, so the branch of    *)
(* persistWithinTransaction that answers KEY_REUSED is never taken.        *)
PersistUncontended ==
    \A p, q \in Proc :
        req[p].pc \in {"store", "commit"} =>
            /\ stored[SlotOf(p)] = Null
            /\ p # q /\ req[q].pc \in {"store", "commit"} => SlotOf(q) # SlotOf(p)

(* The row of a purchase with its invitation, which has its id, and its    *)
(* replay.                                                                 *)
OrderOf(n) ==
    [id |-> n, parent |-> purchase[n].parent, key |-> purchase[n].key,
     item |-> purchase[n].item, invitations |-> {n} \cap invited,
     replay |-> stored[<<purchase[n].parent, purchase[n].key>>]]

O == INSTANCE Orders WITH
        orders <- {OrderOf(n) : n \in {m \in Id : Bought(m)}},
        jobs <- queue

(* However its statements interleave, fail or are cut off, buying is one   *)
(* step that adds a whole order under a new key; no later step changes or  *)
(* removes it, and a job is for an order (createPurchase).                 *)
ImplementsOrders == O!Spec
=============================================================================
