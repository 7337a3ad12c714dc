---------------------------- MODULE RefreshTokens ----------------------------
(***************************************************************************)
(* Refresh-token rotation of the MES backend: AuthService.ts over          *)
(* RefreshTokensRepository.ts, with the Postgres behaviour they rely on    *)
(* (READ COMMITTED, row locks, rollback) and the in-memory grace cache.    *)
(*                                                                         *)
(* A raw token, its SHA-256 hash and its row share one identity, an        *)
(* element of Token: 256 random bits do not collide.  A family is named    *)
(* by the token its login issued.  A request in flight is an element of    *)
(* Proc; pc says which await it is parked at.  What a transaction has      *)
(* written but not committed is visible to nobody else, so it is kept in   *)
(* the request's own variables (succ, succExp, targets) until it commits.  *)
(***************************************************************************)
EXTENDS Integers, FiniteSets

CONSTANTS
    Token,          \* raw tokens / rows of refresh_tokens
    Proc,           \* HTTP requests that can be in flight at once
    Agent,          \* user_agent values
    Null,           \* SQL NULL, a missing Map entry, a free lock
    Grace,          \* REFRESH_REUSE_GRACE_SECONDS, in clock ticks
    TTL,            \* REFRESH_TOKEN_TTL_DAYS
    RetainExpired,  \* REFRESH_TOKEN_GRACE_DAYS
    RetainRevoked,  \* REFRESH_TOKEN_FORENSIC_DAYS
    MaxTime         \* bound on the clock

ASSUME NullAssumption ==
    Null \notin Token \union Proc \union Agent \union Int

ASSUME TimeAssumption ==
    /\ {Grace, TTL, RetainExpired, RetainRevoked} \subseteq Nat
    /\ MaxTime \in Nat

(* The grace window is seconds, the retention of revoked rows is days.     *)
ASSUME WindowAssumption == Grace <= RetainRevoked

VARIABLES
    rows,     \* the committed table
    lock,     \* row lock: the request whose transaction holds it, or Null
    cache,    \* graceCache: old token -> successor, its expiry, when set
    clock,
    sent,     \* tokens some response has carried to a client
    pc, tok, ua, begin,        \* request: stage, token, user agent, BEGIN time
    succ, succExp, targets,    \* request: uncommitted or remembered values
    reply                      \* request: the answer to its last request

table == <<rows, lock>>
request == <<pc, tok, ua, begin, succ, succExp, targets, reply>>
vars == <<rows, lock, cache, clock, sent, request>>

Stages == {"idle", "lock", "evaluate", "write", "commit", "respond", "grace",
           "revokeFamily", "lockFamily", "logout"}

Lasting == {"REUSED", "loggedOut"}

Row == [state      : {"unissued", "live", "deleted"},
        family     : Token \union {Null},
        agent      : Agent \union {Null},
        expiresAt  : Nat,
        revokedAt  : Nat \union {Null},
        replacedBy : Token \union {Null}]

CacheEntry == [succ : Token, exp : Nat, at : Nat]

Absent(state) == [state |-> state, family |-> Null, agent |-> Null,
                  expiresAt |-> 0, revokedAt |-> Null, replacedBy |-> Null]

(* The values insertNew writes. *)
NewRow(family, agent, expiresAt) ==
    [state |-> "live", family |-> family, agent |-> agent,
     expiresAt |-> expiresAt, revokedAt |-> Null, replacedBy |-> Null]

Live(t) == rows[t].state = "live"
Active(t) == Live(t) /\ rows[t].revokedAt = Null
SameFamily(s, t) == rows[s].family = rows[t].family

(* generateRawToken: a token no row and no open transaction has. *)
Fresh == {n \in Token : rows[n].state = "unissued" /\ \A q \in Proc : succ[q] # n}

Init ==
    /\ rows = [t \in Token |-> Absent("unissued")]
    /\ lock = [t \in Token |-> Null]
    /\ cache = [t \in Token |-> Null]
    /\ clock = 0
    /\ sent = {}
    /\ pc = [p \in Proc |-> "idle"]
    /\ tok = [p \in Proc |-> Null]
    /\ ua = [p \in Proc |-> Null]
    /\ begin = [p \in Proc |-> 0]
    /\ succ = [p \in Proc |-> Null]
    /\ succExp = [p \in Proc |-> 0]
    /\ targets = [p \in Proc |-> {}]
    /\ reply = [p \in Proc |-> "none"]

-----------------------------------------------------------------------------
(* Steps every request is made of. *)

GoTo(p, stage) == pc' = [pc EXCEPT ![p] = stage]

(* The locks p's transaction holds are released by COMMIT and ROLLBACK. *)
LocksWithout(p) == [t \in Token |-> IF lock[t] = p THEN Null ELSE lock[t]]

(* A request arrives: its BEGIN time is what NOW() means in its updates. *)
Accept(p, stage, t, a) ==
    /\ pc[p] = "idle"
    /\ GoTo(p, stage)
    /\ tok' = [tok EXCEPT ![p] = t]
    /\ ua' = [ua EXCEPT ![p] = a]
    /\ begin' = [begin EXCEPT ![p] = clock]
    /\ reply' = [reply EXCEPT ![p] = "none"]

(* The transaction ends, its locks go, and the handler answers r.  The     *)
(* answer and its token stay on record when later states are judged by it. *)
Finish(p, r) ==
    /\ GoTo(p, "idle")
    /\ lock' = LocksWithout(p)
    /\ tok' = [tok EXCEPT ![p] = IF r \in Lasting THEN @ ELSE Null]
    /\ ua' = [ua EXCEPT ![p] = Null]
    /\ begin' = [begin EXCEPT ![p] = 0]
    /\ succ' = [succ EXCEPT ![p] = Null]
    /\ succExp' = [succExp EXCEPT ![p] = 0]
    /\ targets' = [targets EXCEPT ![p] = {}]
    /\ reply' = [reply EXCEPT ![p] = IF r \in Lasting THEN r ELSE "none"]

-----------------------------------------------------------------------------
(* issueRefreshToken, called by login and signup: a new family. *)

Login(p, a) ==
    /\ Accept(p, "respond", Null, a)
    /\ \E n \in Fresh :
        /\ rows' = [rows EXCEPT ![n] = NewRow(n, a, clock + TTL)]
        /\ succ' = [succ EXCEPT ![p] = n]
        /\ succExp' = [succExp EXCEPT ![p] = clock + TTL]
    /\ UNCHANGED <<lock, cache, clock, sent, targets>>

(* refresh: the transaction begins and waits in SELECT ... FOR UPDATE. *)
Refresh(p, t, a) ==
    /\ t \in sent
    /\ Accept(p, "lock", t, a)
    /\ UNCHANGED <<table, cache, clock, sent, succ, succExp, targets>>

(* A mutant: the SELECT without its lock. *)
BugAcquireWithoutLock(p) ==
    /\ pc[p] = "lock"
    /\ GoTo(p, "evaluate")
    /\ UNCHANGED <<table, cache, clock, sent, tok, ua, begin, succ, succExp,
                   targets, reply>>

(* selectForUpdate returns: the row is locked, or there is none. *)
AcquireLock(p) ==
    /\ pc[p] = "lock"
    /\ Live(tok[p]) => lock[tok[p]] = Null
    /\ lock' = IF Live(tok[p]) THEN [lock EXCEPT ![tok[p]] = p] ELSE lock
    /\ GoTo(p, "evaluate")
    /\ UNCHANGED <<rows, cache, clock, sent, tok, ua, begin, succ, succExp,
                   targets, reply>>

(* executeRotationTransaction once the SELECT has returned, up to its next *)
(* await: `now` is read here, after any wait for the lock.                 *)
Expired(t) == rows[t].expiresAt <= clock

EvaluateMissing(p) ==
    /\ pc[p] = "evaluate"
    /\ ~Live(tok[p])
    /\ Finish(p, "INVALID")
    /\ UNCHANGED <<rows, cache, clock, sent>>

EvaluateExpired(p) ==
    /\ pc[p] = "evaluate"
    /\ Live(tok[p]) /\ Expired(tok[p])
    /\ Finish(p, "EXPIRED")
    /\ UNCHANGED <<rows, cache, clock, sent>>

EvaluateActive(p) ==
    /\ pc[p] = "evaluate"
    /\ Active(tok[p]) /\ ~Expired(tok[p])
    /\ GoTo(p, "write")
    /\ UNCHANGED <<table, cache, clock, sent, tok, ua, begin, succ, succExp,
                   targets, reply>>

(* handleRevokedToken: cached, inside the window, same user agent. *)
GraceApplies(p) ==
    /\ cache[tok[p]] # Null
    /\ clock - rows[tok[p]].revokedAt < Grace
    /\ rows[tok[p]].agent = ua[p]

EvaluateGrace(p) ==
    /\ pc[p] = "evaluate"
    /\ Live(tok[p]) /\ ~Active(tok[p]) /\ ~Expired(tok[p])
    /\ GraceApplies(p)
    /\ succ' = [succ EXCEPT ![p] = cache[tok[p]].succ]
    /\ succExp' = [succExp EXCEPT ![p] = cache[tok[p]].exp]
    /\ GoTo(p, "grace")
    /\ UNCHANGED <<table, cache, clock, sent, tok, ua, begin, targets, reply>>

EvaluateTheft(p) ==
    /\ pc[p] = "evaluate"
    /\ Live(tok[p]) /\ ~Active(tok[p]) /\ ~Expired(tok[p])
    /\ ~GraceApplies(p)
    /\ GoTo(p, "revokeFamily")
    /\ UNCHANGED <<table, cache, clock, sent, tok, ua, begin, succ, succExp,
                   targets, reply>>

(* A mutant: the cookie is set before the commit. *)
BugWriteSends(p) ==
    /\ pc[p] = "write"
    /\ lock[tok[p]] \in {Null, p}
    /\ lock' = [lock EXCEPT ![tok[p]] = p]
    /\ \E n \in Fresh : succ' = [succ EXCEPT ![p] = n]
    /\ succExp' = [succExp EXCEPT ![p] = clock + TTL]
    /\ sent' = sent \union {succ'[p]}
    /\ GoTo(p, "commit")
    /\ UNCHANGED <<rows, clock, cache, tok, ua, begin, targets, reply>>

(* buildRotationPayload: insertNew and revokeRow.  The UPDATE takes the     *)
(* old row's lock, which the SELECT already holds; both writes stay in the *)
(* transaction, whose next await is usersService.findById.                 *)
WriteRotation(p) ==
    /\ pc[p] = "write"
    /\ lock[tok[p]] \in {Null, p}
    /\ lock' = [lock EXCEPT ![tok[p]] = p]
    /\ \E n \in Fresh : succ' = [succ EXCEPT ![p] = n]
    /\ succExp' = [succExp EXCEPT ![p] = clock + TTL]
    /\ GoTo(p, "commit")
    /\ UNCHANGED <<rows, cache, clock, sent, tok, ua, begin, targets, reply>>

(* A mutant: the successor starts a family of its own. *)
BugCommitNewFamily(p) ==
    /\ pc[p] = "commit"
    /\ rows' = [rows EXCEPT ![succ[p]] = NewRow(succ[p], ua[p], succExp[p]),
                            ![tok[p]].revokedAt = begin[p],
                            ![tok[p]].replacedBy = succ[p]]
    /\ lock' = LocksWithout(p)
    /\ GoTo(p, "respond")
    /\ UNCHANGED <<cache, clock, sent, tok, ua, begin, succ, succExp,
                   targets, reply>>

(* COMMIT: the successor appears and the old row is revoked together.      *)
(* revoked_at is NOW(), the time of BEGIN; the WHERE keeps an earlier one. *)
CommitRotation(p) ==
    /\ pc[p] = "commit"
    /\ rows' = [t \in Token |->
                  IF t = succ[p]
                  THEN NewRow(rows[tok[p]].family, ua[p], succExp[p])
                  ELSE IF t = tok[p] /\ Active(t)
                  THEN [rows[t] EXCEPT !.revokedAt = begin[p],
                                       !.replacedBy = succ[p]]
                  ELSE rows[t]]
    /\ lock' = LocksWithout(p)
    /\ GoTo(p, "respond")
    /\ UNCHANGED <<cache, clock, sent, tok, ua, begin, succ, succExp,
                   targets, reply>>

(* A mutant: the grace entry's expiry is computed anew. *)
BugRespondSlides(p) ==
    /\ pc[p] = "respond"
    /\ cache' = IF tok[p] = Null THEN cache
                ELSE [cache EXCEPT ![tok[p]] =
                        [succ |-> succ[p], exp |-> clock + TTL, at |-> clock]]
    /\ sent' = sent \union {succ[p]}
    /\ Finish(p, "ok")
    /\ UNCHANGED <<rows, clock>>

(* The transaction's promise resolved: setGraceEntry, then the controller  *)
(* sets the cookie.  A login has no old token and no grace entry.          *)
Respond(p) ==
    /\ pc[p] = "respond"
    /\ cache' = IF tok[p] = Null THEN cache
                ELSE [cache EXCEPT ![tok[p]] =
                        [succ |-> succ[p], exp |-> succExp[p], at |-> clock]]
    /\ sent' = sent \union {succ[p]}
    /\ Finish(p, "ok")
    /\ UNCHANGED <<rows, clock>>

(* The grace path returns the cached successor; nothing was written. *)
RespondGrace(p) ==
    /\ pc[p] = "grace"
    /\ sent' = sent \union {succ[p]}
    /\ Finish(p, "ok")
    /\ UNCHANGED <<rows, cache, clock>>

(* A mutant: the UPDATE without its revoked_at IS NULL. *)
BugRevokeWholeFamily(p) ==
    /\ pc[p] = "revokeFamily"
    /\ targets' = [targets EXCEPT ![p] =
                     {r \in Token : Live(r) /\ SameFamily(r, tok[p])}]
    /\ GoTo(p, "lockFamily")
    /\ UNCHANGED <<table, cache, clock, sent, tok, ua, begin, succ, succExp,
                   reply>>

(* Theft path, revokeFamily on the transaction's manager.  The UPDATE works *)
(* on the rows active when it starts and locks them one by one; what it     *)
(* writes is never seen, because handleRevokedToken throws afterwards and   *)
(* dataSource.transaction rolls back.                                       *)
RevokeFamily(p) ==
    /\ pc[p] = "revokeFamily"
    /\ targets' = [targets EXCEPT ![p] =
                     {r \in Token : Active(r) /\ SameFamily(r, tok[p])}]
    /\ GoTo(p, "lockFamily")
    /\ UNCHANGED <<table, cache, clock, sent, tok, ua, begin, succ, succExp,
                   reply>>

LockFamilyRow(p, r) ==
    /\ pc[p] = "lockFamily"
    /\ r \in targets[p]
    /\ lock[r] \in {Null, p}
    /\ lock' = [lock EXCEPT ![r] = p]
    /\ targets' = [targets EXCEPT ![p] = @ \ {r}]
    /\ UNCHANGED <<rows, cache, clock, sent, pc, tok, ua, begin, succ, succExp,
                   reply>>

RejectReuse(p) ==
    /\ pc[p] = "lockFamily"
    /\ targets[p] = {}
    /\ Finish(p, "REUSED")
    /\ UNCHANGED <<rows, cache, clock, sent>>

-----------------------------------------------------------------------------
(* logout: an unlocked read, an early return, then an UPDATE of its own. *)

Logout(p, t) ==
    /\ t \in sent
    /\ \/ /\ ~Active(t)
          /\ pc[p] = "idle"
          /\ tok' = [tok EXCEPT ![p] = t]
          /\ reply' = [reply EXCEPT ![p] = "loggedOut"]
          /\ UNCHANGED <<pc, ua, begin>>
       \/ /\ Active(t)
          /\ Accept(p, "logout", t, Null)
    /\ UNCHANGED <<table, cache, clock, sent, succ, succExp, targets>>

(* Mutants: a locked row is skipped; the UPDATE overwrites revoked_at. *)
BugLogoutSkipsLocked(p) ==
    /\ pc[p] = "logout"
    /\ rows' = IF Active(tok[p]) /\ lock[tok[p]] = Null
               THEN [rows EXCEPT ![tok[p]].revokedAt = begin[p]]
               ELSE rows
    /\ Finish(p, "loggedOut")
    /\ UNCHANGED <<cache, clock, sent>>

BugLogoutOverwrites(p) ==
    /\ pc[p] = "logout"
    /\ Live(tok[p]) => lock[tok[p]] = Null
    /\ rows' = IF Live(tok[p])
               THEN [rows EXCEPT ![tok[p]].revokedAt = begin[p]]
               ELSE rows
    /\ Finish(p, "loggedOut")
    /\ UNCHANGED <<cache, clock, sent>>

(* revokeRowForLogout waits for the row lock and applies its WHERE to the  *)
(* row as it then is; that no row matched is not noticed.                  *)
RevokeForLogout(p) ==
    /\ pc[p] = "logout"
    /\ Live(tok[p]) => lock[tok[p]] = Null
    /\ rows' = IF Active(tok[p])
               THEN [rows EXCEPT ![tok[p]].revokedAt = begin[p]]
               ELSE rows
    /\ Finish(p, "loggedOut")
    /\ UNCHANGED <<cache, clock, sent>>

-----------------------------------------------------------------------------
(* Cleanup job, timers, failures, time. *)

(* A mutant: the second pass takes every revoked row. *)
BugAllRevoked == {t \in Token : Live(t) /\ rows[t].revokedAt # Null}

(* The rows deleteExpiredAndStaleRevoked selects, in its two passes. *)
PastExpiry == {t \in Token : Live(t) /\ rows[t].expiresAt < clock - RetainExpired}
StaleRevoked == {t \in Token : /\ Live(t)
                               /\ rows[t].revokedAt # Null
                               /\ rows[t].revokedAt < clock - RetainRevoked}

(* deleteExpiredAndStaleRevoked: its two DELETEs are one transaction with  *)
(* one NOW() and appear together at its commit, so they are one step, which*)
(* waits for locked rows.  Left out are the locks its rows have until then:*)
(* they can delay a request and close no cycle, since a request that waits *)
(* with a row of its own has presented that row unexpired, days before     *)
(* either pass would take it.  The foreign key sets replaced_by_id of the  *)
(* rows that pointed to a deleted one to NULL.                             *)
Cleanup ==
    LET gone == PastExpiry \union StaleRevoked
        cut == {t \in Token : Live(t) /\ rows[t].replacedBy \in gone}
    IN  /\ gone # {}
        /\ \A t \in gone \union cut : lock[t] = Null
        /\ rows' = [t \in Token |->
                      IF t \in gone THEN Absent("deleted")
                      ELSE IF t \in cut THEN [rows[t] EXCEPT !.replacedBy = Null]
                      ELSE rows[t]]
        /\ UNCHANGED <<lock, cache, clock, sent, request>>

(* The setTimeout of setGraceEntry; an event loop may run it late. *)
EvictGrace(t) ==
    /\ cache[t] # Null
    /\ clock >= cache[t].at + Grace
    /\ cache' = [cache EXCEPT ![t] = Null]
    /\ UNCHANGED <<table, clock, sent, request>>

(* A mutant: the failed transaction is neither rolled back nor released. *)
BugFailKeepsLocks(p) ==
    /\ pc[p] \in Stages \ {"idle", "evaluate", "respond"}
    /\ GoTo(p, "idle")
    /\ succ' = [succ EXCEPT ![p] = Null]
    /\ targets' = [targets EXCEPT ![p] = {}]
    /\ UNCHANGED <<table, cache, clock, sent, tok, ua, begin, succExp, reply>>

(* A query of the open transaction fails: rollback, and a 5xx answer. *)
Fail(p) ==
    /\ pc[p] \in Stages \ {"idle", "evaluate", "respond"}
    /\ Finish(p, "error")
    /\ UNCHANGED <<rows, cache, clock, sent>>

(* The process dies: open transactions are rolled back by Postgres, the    *)
(* grace cache and the requests in flight are gone.                        *)
Crash ==
    /\ lock' = [t \in Token |-> Null]
    /\ cache' = [t \in Token |-> Null]
    /\ pc' = [p \in Proc |-> "idle"]
    /\ tok' = [p \in Proc |-> Null]
    /\ ua' = [p \in Proc |-> Null]
    /\ begin' = [p \in Proc |-> 0]
    /\ succ' = [p \in Proc |-> Null]
    /\ succExp' = [p \in Proc |-> 0]
    /\ targets' = [p \in Proc |-> {}]
    /\ reply' = [p \in Proc |-> "none"]
    /\ UNCHANGED <<rows, clock, sent>>

Tick ==
    /\ clock < MaxTime
    /\ clock' = clock + 1
    /\ UNCHANGED <<table, cache, sent, request>>

-----------------------------------------------------------------------------
(* The requests clients make, and the steps the server then takes. *)
Arrive(p) ==
    \/ \E a \in Agent : Login(p, a)
    \/ \E t \in Token, a \in Agent : Refresh(p, t, a)
    \/ \E t \in Token : Logout(p, t)

(* Steps that wait for a row lock, and steps that never wait. *)
Granted(p) ==
    \/ AcquireLock(p)
    \/ \E r \in Token : LockFamilyRow(p, r)
    \/ RevokeForLogout(p)

Proceed(p) ==
    \/ EvaluateMissing(p) \/ EvaluateExpired(p) \/ EvaluateActive(p)
    \/ EvaluateGrace(p) \/ EvaluateTheft(p)
    \/ WriteRotation(p) \/ CommitRotation(p)
    \/ Respond(p) \/ RespondGrace(p)
    \/ RevokeFamily(p) \/ RejectReuse(p)

Next ==
    \/ \E p \in Proc : Arrive(p) \/ Granted(p) \/ Proceed(p) \/ Fail(p)
    \/ \E t \in Token : EvictGrace(t)
    \/ Cleanup
    \/ Crash
    \/ Tick

Spec == Init /\ [][Next]_vars

(* Node runs the continuations of resolved promises, so a request that can *)
(* proceed does.  Postgres grants row locks in FIFO order, so a request    *)
(* whose lock is free again and again gets it: strong fairness.            *)
FairSpec ==
    /\ Spec
    /\ \A p \in Proc : WF_vars(Proceed(p)) /\ SF_vars(Granted(p))

-----------------------------------------------------------------------------
(* Correctness. *)

(* Every variable has its type. *)
TypeOK ==
    /\ rows \in [Token -> Row]
    /\ lock \in [Token -> Proc \union {Null}]
    /\ cache \in [Token -> CacheEntry \union {Null}]
    /\ clock \in Nat
    /\ sent \subseteq Token
    /\ pc \in [Proc -> Stages]
    /\ tok \in [Proc -> Token \union {Null}]
    /\ ua \in [Proc -> Agent \union {Null}]
    /\ begin \in [Proc -> Nat]
    /\ succ \in [Proc -> Token \union {Null}]
    /\ succExp \in [Proc -> Nat]
    /\ targets \in [Proc -> SUBSET Token]
    /\ reply \in [Proc -> Lasting \union {"none"}]

(* However refreshes, logouts, retries and crashes interleave, a family    *)
(* never has two tokens that are accepted: the FOR UPDATE of the rotation  *)
(* (AuthService.executeRotationTransaction) makes one of two concurrent    *)
(* refreshes find the token revoked.                                       *)
OneActivePerFamily ==
    \A s, t \in Token : Active(s) /\ Active(t) /\ SameFamily(s, t) => s = t

(* replaced_by_id links a family into chains: no token succeeds two, a     *)
(* successor is of the same family and never expires before the token it   *)
(* replaced, and an accepted token has no successor.                       *)
ChainsLinear ==
    \A s, t \in Token :
        /\ Live(s) /\ Live(t) /\ rows[s].replacedBy = rows[t].replacedBy
             => s = t \/ rows[s].replacedBy = Null
        /\ Live(s) /\ rows[s].replacedBy = t
             => /\ Live(t)
                /\ SameFamily(s, t)
                /\ rows[s].expiresAt <= rows[t].expiresAt
                /\ rows[s].revokedAt # Null

(* The grace cache never lies about the table: an entry exists only for a  *)
(* token that a committed rotation revoked, and repeats that rotation's    *)
(* successor and its original expiry, so a retry can neither receive a     *)
(* token that was rolled back nor slide the session forward.               *)
GraceFaithful ==
    \A t \in Token : cache[t] # Null /\ Live(t) =>
        /\ rows[t].replacedBy = cache[t].succ
        /\ rows[cache[t].succ].expiresAt = cache[t].exp

(* No phantom cookie: a token that left the server in a response has a     *)
(* committed row, whatever failed or crashed since (commit before          *)
(* Set-Cookie).                                                            *)
SentIsDurable == \A t \in sent : rows[t].state # "unissued"

(* When logout has answered, the token it was called with is dead, also    *)
(* when a rotation, a retry or the cleanup job ran between its unlocked    *)
(* read and its update.                                                    *)
LogoutEffective ==
    \A p \in Proc : reply[p] = "loggedOut" => ~Active(tok[p])

(* p waits for a row lock that q's transaction holds. *)
WaitsFor(p, q) ==
    /\ p # q
    /\ \/ pc[p] \in {"lock", "logout", "write"} /\ lock[tok[p]] = q
       \/ pc[p] = "lockFamily" /\ \E r \in targets[p] : lock[r] = q

(* The comment in handleRevokedToken fears that two requests of a family   *)
(* hold a row each and wait for the other's.  It cannot happen: a request  *)
(* that waits while it holds a lock waits for a row that a rotation or the *)
(* same kind of request reached later in the chain, so waiting has no      *)
(* cycle of two or of three requests.                                      *)
NoWaitCycle ==
    \A p, q, r \in Proc :
        /\ ~(WaitsFor(p, q) /\ WaitsFor(q, p))
        /\ ~(WaitsFor(p, q) /\ WaitsFor(q, r) /\ WaitsFor(r, p))

(* A refresh with t may still be granted: by rotation, or as a retry.      *)
Grantable(t) ==
    /\ Live(t) /\ ~Expired(t)
    /\ Active(t) \/ clock - rows[t].revokedAt < Grace

(* A row's history is final: once revoked, no later step of anybody clears *)
(* or overwrites revoked_at or the link to the successor.  Only the cleanup*)
(* job removes a row, and whichever of its two retention windows ends      *)
(* first, never one that a refresh could still be granted with.  In        *)
(* particular the ON DELETE SET NULL of the cleanup never cuts a chain in a*)
(* row that it keeps.                                                      *)
RevocationFinal ==
    [][\A t \in Token : Live(t) =>
          /\ rows'[t].state = "deleted" => ~Grantable(t)
          /\ ~Active(t) => rows'[t] = rows[t] \/ rows'[t].state = "deleted"]_rows

(* The session view of the table: Sessions.tla's variables. *)
CurrentOf(f) ==
    IF \E t \in Token : Active(t) /\ rows[t].family = f
    THEN CHOOSE t \in Token : Active(t) /\ rows[t].family = f
    ELSE Null

SpentTokens == {t \in Token : rows[t].state # "unissued" /\ ~Active(t)}

S == INSTANCE Sessions WITH current <- [f \in Token |-> CurrentOf(f)],
                            spent <- SpentTokens

(* Rotation implements single-chain sessions: each committed step starts,  *)
(* advances or ends sessions, everything else leaves them alone.           *)
ImplementsSessions == S!Spec

(* The model has run out of tokens for a rotation that needs one: an end   *)
(* of the instance, not of the program.                                    *)
OutOfTokens == Fresh = {} /\ \E q \in Proc : pc[q] = "write"

(* Every refresh, login and logout is answered: nobody waits for a row     *)
(* lock for ever, unless the process dies.                                 *)
EveryRequestAnswered ==
    \A p \in Proc : pc[p] # "idle" ~> pc[p] = "idle" \/ OutOfTokens

(* Documented, and refuted: after REFRESH_TOKEN_REUSED the family is dead  *)
(* (ADR 0007 section 5).                                                   *)
ReuseKillsFamily ==
    \A p \in Proc, t \in Token :
        reply[p] = "REUSED" /\ Active(t) => ~SameFamily(t, tok[p])
=============================================================================
