----------------------------- MODULE Credentials ------------------------------
(***************************************************************************)
(* Signup, login and the re-hash of a password in the background           *)
(* (AuthService, UsersRepository), each of whose queries needs a           *)
(* connection of the pool.  Between two queries a handler hashes or        *)
(* verifies and holds none, so everything it has read may have changed.    *)
(*                                                                         *)
(* An account is its normalised email; its hash is the password it was     *)
(* made from and whether argon2's parameters have changed since.           *)
(***************************************************************************)
EXTENDS ConnectionPool

CONSTANTS
    Client,    \* requests to the API
    Task,      \* re-hashes that can be underway
    Email, Password

ASSUME RoleAssumption ==
    /\ Client \subseteq Request /\ Task \subseteq Request
    /\ Client \intersect Task = {}
    /\ Null \notin [password : Password, outdated : BOOLEAN]

VARIABLES
    accounts,  \* users: email -> hash, or Null
    job        \* request -> what its handler is at

credentialVars == <<accounts, job>>

Hash == [password : Password, outdated : BOOLEAN]

NoJob == [work |-> "none"]

(* owner says whether the account was the caller's when the request came   *)
(* in, which the code does not know.                                       *)
Job == [work : {"signupFind", "signupInsert", "loginFind", "issue", "rehash"},
        email : Email, password : Password, owner : BOOLEAN]

Transaction == [work : {"contained", "nesting"}]

CredentialsInit ==
    /\ accounts \in [Email -> Hash \union {Null}]
    /\ job = [r \in Client \union Task |-> NoJob]

Owns(e, w) == accounts[e] # Null /\ accounts[e].password = w

(* The handler of r turns to w, or to its end. *)
TurnsTo(r, w) == job' = [job EXCEPT ![r].work = w]
Ends(r) == job' = [job EXCEPT ![r] = NoJob]

-----------------------------------------------------------------------------
(* POST /auth/signup and /auth/login begin with findByEmail. *)
Comes(r, w, e, pw) ==
    /\ job[r] = NoJob
    /\ Ask(r, "query", LastRow)
    /\ job' = [job EXCEPT ![r] = [work |-> w, email |-> e, password |-> pw,
                                 owner |-> Owns(e, pw)]]
    /\ UNCHANGED accounts

Signup(r, e, pw) == Comes(r, "signupFind", e, pw)
Login(r, e, pw) == Comes(r, "loginFind", e, pw)

(* After a query a handler hashes, verifies, or does neither, and asks for *)
(* the connection of its next one.                                         *)
Queries(r) ==
    /\ \/ /\ job[r].work \in {"issue", "rehash"}
          /\ Ask(r, "query", LastRow)
       \/ /\ job[r].work = "signupInsert"
          /\ \E x \in Row : Ask(r, "contained", x)
    /\ UNCHANGED credentialVars

(* The query r is at has its result. *)
Has(r, w) == job[r].work = w /\ Return(r)

SignupFindsNobody(r) ==
    /\ Has(r, "signupFind")
    /\ accounts[job[r].email] = Null
    /\ TurnsTo(r, "signupInsert")
    /\ UNCHANGED accounts

(* A mutant: the password is stored as it came. *)
BugInsertsPlain(r) ==
    /\ Has(r, "signupInsert")
    /\ accounts[job[r].email] = Null
    /\ accounts' = [accounts EXCEPT ![job[r].email] = job[r].password]
    /\ TurnsTo(r, "issue")

SignupInserts(r) ==
    /\ Has(r, "signupInsert")
    /\ accounts[job[r].email] = Null
    /\ accounts' = [accounts EXCEPT ![job[r].email] =
                      [password |-> job[r].password, outdated |-> FALSE]]
    /\ TurnsTo(r, "issue")

(* A mutant: whoever loses the race for the email is logged in. *)
BugTakenLogsIn(r) ==
    /\ Has(r, "signupInsert")
    /\ accounts[job[r].email] # Null
    /\ TurnsTo(r, "issue")
    /\ UNCHANGED accounts

(* EMAIL_TAKEN, from the read or from the unique index. *)
SignupTaken(r) ==
    /\ Has(r, "signupFind") \/ Has(r, "signupInsert")
    /\ accounts[job[r].email] # Null
    /\ Ends(r)
    /\ UNCHANGED accounts

(* A mutant: the re-hash is scheduled before the password is verified. *)
BugRehashesFirst(r) ==
    /\ Has(r, "loginFind")
    /\ ~Owns(job[r].email, job[r].password)
    /\ \E t \in Task :
        /\ job[t] = NoJob
        /\ job' = [job EXCEPT ![r] = NoJob, ![t] = [job[r] EXCEPT !.work = "rehash"]]
    /\ UNCHANGED accounts

(* AUTH_INVALID_CREDENTIALS, after a verification in any case. *)
LoginRefused(r) ==
    /\ Has(r, "loginFind")
    /\ ~Owns(job[r].email, job[r].password)
    /\ Ends(r)
    /\ UNCHANGED accounts

(* rehashIfNeeded is not awaited: it becomes a task beside the login, or   *)
(* fails.                                                                  *)
LoginMatches(r) ==
    /\ Has(r, "loginFind")
    /\ Owns(job[r].email, job[r].password)
    /\ \/ TurnsTo(r, "issue")
       \/ /\ accounts[job[r].email].outdated
          /\ \E t \in Task :
              /\ job[t] = NoJob
              /\ job' = [job EXCEPT ![r].work = "issue",
                                    ![t] = [job[r] EXCEPT !.work = "rehash"]]
    /\ UNCHANGED accounts

(* updatePasswordHash. *)
Rehashed(t) ==
    /\ Has(t, "rehash")
    /\ accounts' = [accounts EXCEPT ![job[t].email] =
                      [password |-> job[t].password, outdated |-> FALSE]]
    /\ Ends(t)

(* issueRefreshToken: the answer carries both tokens. *)
Issued(r) ==
    /\ Has(r, "issue")
    /\ Ends(r)
    /\ UNCHANGED accounts

-----------------------------------------------------------------------------
(* The handlers of other modules, as far as the pool and the accounts see  *)
(* them: a redemption is a nesting transaction whose commit may create a   *)
(* student's account.                                                      *)
Transacts(r, k, x) ==
    /\ job[r] = NoJob
    /\ k # "query"
    /\ Ask(r, k, x)
    /\ job' = [job EXCEPT ![r] = [work |-> k]]
    /\ UNCHANGED accounts

Commits(r) ==
    /\ Has(r, "contained") \/ Has(r, "nesting")
    /\ \/ UNCHANGED accounts
       \/ /\ job[r].work = "nesting"
          /\ \E e \in Email, w \in Password :
              /\ accounts[e] = Null
              /\ accounts' = [accounts EXCEPT ![e] =
                                [password |-> w, outdated |-> FALSE]]
    /\ Ends(r)

(* A query fails: the handler answers INTERNAL_ERROR, the task gives up. *)
Fails(r) ==
    /\ Fail(r)
    /\ Ends(r)
    /\ UNCHANGED accounts

(* The pool, or another transaction's end, lets a handler go on. *)
Served(r) ==
    /\ Connect(r) \/ ReadOutside(r)
    /\ UNCHANGED credentialVars

Locks(r) ==
    /\ LockRow(r)
    /\ UNCHANGED credentialVars

Answers(r) ==
    \/ SignupFindsNobody(r) \/ SignupInserts(r) \/ SignupTaken(r)
    \/ LoginRefused(r) \/ LoginMatches(r) \/ Issued(r) \/ Commits(r)

Arrives(r) ==
    \/ \E e \in Email, w \in Password : Signup(r, e, w) \/ Login(r, e, w)
    \/ \E k \in Kind, x \in Row : Transacts(r, k, x)

CredentialsNext ==
    \/ \E r \in Client : Arrives(r) \/ Answers(r)
    \/ \E t \in Task : Rehashed(t)
    \/ \E r \in Client \union Task :
          Queries(r) \/ Served(r) \/ Locks(r) \/ Fails(r)

CredentialsCrash ==
    /\ job' = [r \in Client \union Task |-> NoJob]
    /\ UNCHANGED accounts

-----------------------------------------------------------------------------
(* Correctness. *)

(* Every variable has its type. *)
CredentialsTypeOK ==
    /\ accounts \in [Email -> Hash \union {Null}]
    /\ job \in [Client \union Task -> Job \union Transaction \union {NoJob}]

(* Tokens are issued to whoever has the account's password and to nobody   *)
(* else, although the password was compared with a row read earlier, a     *)
(* re-hash may replace the row at any time, and two signups, or a signup   *)
(* and a redemption, may have found the email free together.               *)
TokensToTheOwner ==
    [][\A r \in Client : Issued(r) => Owns(job[r].email, job[r].password)]_<<credentialVars, poolVars>>

(* Whoever had the account when the request came in is not refused: not    *)
(* while re-hashes of it are underway, and not after a signup that was cut *)
(* off between the insert of the user and its tokens.                      *)
OwnerIsNotRefused ==
    [][\A r \in Client : LoginRefused(r) => ~job[r].owner]_<<credentialVars, poolVars>>
=============================================================================
