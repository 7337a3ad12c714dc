---------------------------- MODULE ConnectionPool ----------------------------
(***************************************************************************)
(* The backend's pool of Postgres connections, and what its handlers do    *)
(* with it.  buildPostgresOptions gives the pool neither a size nor a      *)
(* timeout, so it is pg's default: a fixed number of connections, one      *)
(* queue for those who wait, and no limit to how long.                     *)
(*                                                                         *)
(* A handler awaits one thing at a time.  Seen from the pool it is one of  *)
(*   "query"      statements that wait for nobody, with or without a       *)
(*                transaction around them: every read, issueRefreshToken   *)
(*   "contained"  a transaction whose statements all use its manager:      *)
(*                purchase, logout, the insert of a user                   *)
(*   "nesting"    a transaction that on its way reads through a repository *)
(*                without the manager, hence on a second connection:       *)
(*                rotation and redemption.                                 *)
(* A transaction's statements may wait for rows (or unique keys) another   *)
(* one holds.  The rows are numbered in the order transactions lock them:  *)
(* a spent token before the family's active one, an invitation before its  *)
(* student's email before the place.                                       *)
(***************************************************************************)
EXTENDS Naturals, Sequences, FiniteSets

CONSTANTS
    Connection,   \* the pool
    Request,      \* handlers and background tasks that can be underway
    LastRow,
    Null

ASSUME PoolAssumption ==
    /\ IsFiniteSet(Connection) /\ Connection # {}
    /\ LastRow \in Nat \ {0}
    /\ Null \notin Request

VARIABLES
    owner,      \* connection -> the request that has it, or Null
    inTx,       \* connections on which a BEGIN is open
    pending,    \* requests waiting for a connection, first come first served
    stage,      \* request -> what it awaits
    kind, want, \* request -> its kind, the row its next statement locks
    rowHolder   \* row -> the transaction that holds it, or Null

poolVars == <<owner, inTx, pending, stage, kind, want, rowHolder>>

Row == 1..LastRow
Kind == {"query", "contained", "nesting"}

Init ==
    /\ owner = [c \in Connection |-> Null]
    /\ inTx = {}
    /\ pending = <<>>
    /\ stage = [r \in Request |-> "idle"]
    /\ kind = [r \in Request |-> "query"]
    /\ want = [r \in Request |-> LastRow]
    /\ rowHolder = [x \in Row |-> Null]

Free == {c \in Connection : owner[c] = Null}

To(r, s) == stage' = [stage EXCEPT ![r] = s]

(* A mutant: a transaction that ends without COMMIT or ROLLBACK. *)
BugLetGoKeepsRows(r) ==
    /\ owner' = [c \in Connection |-> IF owner[c] = r THEN Null ELSE owner[c]]
    /\ inTx' = {c \in inTx : owner[c] # r}
    /\ To(r, "idle")
    /\ kind' = [kind EXCEPT ![r] = "query"]
    /\ want' = [want EXCEPT ![r] = LastRow]
    /\ UNCHANGED rowHolder

(* The connections and rows of r go back. *)
LetGo(r) ==
    /\ owner' = [c \in Connection |-> IF owner[c] = r THEN Null ELSE owner[c]]
    /\ inTx' = {c \in inTx : owner[c] # r}
    /\ rowHolder' = [x \in Row |-> IF rowHolder[x] = r THEN Null ELSE rowHolder[x]]
    /\ To(r, "idle")
    /\ kind' = [kind EXCEPT ![r] = "query"]
    /\ want' = [want EXCEPT ![r] = LastRow]

-----------------------------------------------------------------------------
(* A query or dataSource.transaction asks for a connection. *)
Ask(r, k, x) ==
    /\ stage[r] = "idle"
    /\ To(r, "connect")
    /\ kind' = [kind EXCEPT ![r] = k]
    /\ want' = [want EXCEPT ![r] = x]
    /\ pending' = Append(pending, r)
    /\ UNCHANGED <<owner, inTx, rowHolder>>

(* The first in the queue gets a connection: its first one, to run its     *)
(* query or to BEGIN, or the second one of a nesting transaction.          *)
Connect(r) ==
    /\ pending # <<>> /\ r = Head(pending)
    /\ \E c \in Free :
        /\ owner' = [owner EXCEPT ![c] = r]
        /\ inTx' = IF stage[r] = "connect" /\ kind[r] # "query"
                   THEN inTx \union {c} ELSE inTx
    /\ pending' = Tail(pending)
    /\ To(r, IF stage[r] = "outside" THEN "read"
             ELSE IF kind[r] = "query" THEN "query" ELSE "lock")
    /\ UNCHANGED <<kind, want, rowHolder>>

(* A statement that locks a row has waited for it, and locks it unless its *)
(* WHERE rejects it.  What comes next is another row, the read outside, or *)
(* the end.                                                                *)
LockRow(r) ==
    /\ stage[r] = "lock"
    /\ rowHolder[want[r]] = Null
    /\ \/ rowHolder' = [rowHolder EXCEPT ![want[r]] = r]
       \/ UNCHANGED rowHolder
    /\ \/ \E x \in Row : /\ x > want[r]
                         /\ want' = [want EXCEPT ![r] = x]
                         /\ UNCHANGED <<stage, pending>>
       \/ /\ kind[r] = "nesting"
          /\ To(r, "outside")
          /\ pending' = Append(pending, r)
          /\ UNCHANGED want
       \/ To(r, "commit") /\ UNCHANGED <<want, pending>>
    /\ UNCHANGED <<owner, inTx, kind>>

(* The read outside is done and its connection goes back; the transaction  *)
(* goes on with its manager only.                                          *)
ReadOutside(r) ==
    /\ stage[r] = "read"
    /\ owner' = [c \in Connection |->
                   IF owner[c] = r /\ c \notin inTx THEN Null ELSE owner[c]]
    /\ kind' = [kind EXCEPT ![r] = "contained"]
    /\ \/ To(r, "commit") /\ UNCHANGED want
       \/ \E x \in Row : /\ x > want[r]
                         /\ want' = [want EXCEPT ![r] = x]
                         /\ To(r, "lock")
    /\ UNCHANGED <<inTx, pending, rowHolder>>

(* A single query has its result, a transaction is committed. *)
Return(r) ==
    /\ stage[r] \in {"query", "commit"}
    /\ LetGo(r)
    /\ UNCHANGED pending

(* A statement fails, or the connection r was to get does: the transaction *)
(* is rolled back and the handler throws.  Who waits in the queue, without *)
(* a timeout, does not fail.                                               *)
Fail(r) ==
    /\ \/ stage[r] \in {"query", "lock", "read", "commit"} /\ UNCHANGED pending
       \/ /\ pending # <<>> /\ r = Head(pending) /\ Free # {}
          /\ pending' = Tail(pending)
    /\ LetGo(r)

Crash ==
    /\ owner' = [c \in Connection |-> Null]
    /\ inTx' = {}
    /\ pending' = <<>>
    /\ stage' = [r \in Request |-> "idle"]
    /\ kind' = [r \in Request |-> "query"]
    /\ want' = [r \in Request |-> LastRow]
    /\ rowHolder' = [x \in Row |-> Null]

Serve(r) == Connect(r) \/ ReadOutside(r) \/ Return(r)

PoolStep(r) ==
    \/ \E k \in Kind, x \in Row : Ask(r, k, x)
    \/ Serve(r) \/ LockRow(r) \/ Fail(r)

Next == (\E r \in Request : PoolStep(r)) \/ Crash

Spec == Init /\ [][Next]_poolVars

-----------------------------------------------------------------------------
(* Correctness. *)

(* Every variable has its type. *)
PoolTypeOK ==
    /\ owner \in [Connection -> Request \union {Null}]
    /\ inTx \subseteq Connection
    /\ pending \in Seq(Request)
    /\ stage \in [Request -> {"idle", "connect", "query", "lock", "outside",
                              "read", "commit"}]
    /\ kind \in [Request -> Kind]
    /\ want \in [Request -> Row]
    /\ rowHolder \in [Row -> Request \union {Null}]

(* Requests that have a connection and need nobody's leave to go on. *)
CanGoOn(r) ==
    \/ stage[r] \in {"query", "read", "commit"}
    \/ stage[r] = "lock" /\ rowHolder[want[r]] = Null

(* Somebody is waiting, and nothing can happen but new arrivals. *)
Wedged ==
    /\ \E r \in Request : stage[r] # "idle"
    /\ pending = <<>> \/ Free = {}
    /\ \A r \in Request : ~CanGoOn(r)

(* The handlers block each other for one reason only: every connection is  *)
(* held by a transaction of its own and one of these waits for a second    *)
(* one (buildRotationPayload's findById, redeemInTransaction's             *)
(* findByEmail).  Row locks alone never do it, and neither do purchases,   *)
(* logouts and single queries, however many there are.                     *)
WedgeExplained ==
    Wedged =>
        /\ \A c \in Connection : c \in inTx /\ owner[c] # Null
        /\ \A c, d \in Connection : owner[c] = owner[d] => c = d
        /\ \E r \in Request : stage[r] = "outside" /\ kind[r] = "nesting"

(* Fewer transactions have a connection than there are connections. *)
Uncrowded == inTx # Connection

PoolFairness ==
    \A r \in Request : WF_poolVars(Serve(r)) /\ SF_poolVars(LockRow(r))
=============================================================================
