------------------------------ MODULE SpaSession ------------------------------
(***************************************************************************)
(* The session of one browser tab of the web SPA: authStore, apiClient's   *)
(* silent refresh, the boot sequence, login, redemption and logout, whose  *)
(* responses arrive in any order.  (AdminSession has the admin SPA.)       *)
(*                                                                         *)
(* An access token, a refresh cookie and the user metadata are abstracted  *)
(* to the user they belong to.  A request is sent with the cookie of that  *)
(* moment; a response sets or clears the cookie when it arrives, in the    *)
(* same step as the continuation that awaits it.  What the server answers  *)
(* is open (RefreshTokens.tla says what it can be).                        *)
(***************************************************************************)
EXTENDS Naturals, FiniteSets

CONSTANTS
    User,
    Student,    \* users an invitation can log in
    Parent,     \* users who have signed themselves up
    Call,       \* apiRequest calls that can be under way at once
    Flight,     \* POST /auth/refresh requests that can be under way at once
    Logout,     \* handleLogout runs that can be under way at once
    Form,       \* logins and signups that can await /auth/me at once: a form's
                \* `submitting` goes with its page, the request does not
    Null

ASSUME RoleAssumption ==
    /\ Student \subseteq User /\ Parent \subseteq User
    /\ Student \cap Parent = {}

ASSUME NullAssumption ==
    Null \notin User \union Flight /\ "landed" \notin User \union {Null}

VARIABLES
    cookie,       \* whose refresh cookie the browser has
    memoryToken, storedUser, isLoggingOut,    \* authStore
    boot,         \* useAuthBootstrap: "refresh", "me" or "ready"
    inFlightRefresh,                          \* apiClient
    sentAs,       \* refresh under way -> the cookie it carries, "landed" if none
    call,         \* apiRequest: [pc, the refresh it waits for]
    logout,       \* handleLogout: "idle", "first" or "second" attempt
    login,        \* LoginPage, SignupPage: whose /auth/me a form awaits, or Null
    signedOut,    \* a logout finished and nobody logged in since (history)
    crossed       \* since the page was loaded, somebody was logged in beside
                  \* a session or a login of somebody else (history)

store == <<memoryToken, storedUser, isLoggingOut>>
history == <<signedOut, crossed>>
vars == <<cookie, store, boot, inFlightRefresh, sentAs, call, logout, login, history>>

NoCall == [pc |-> "idle", flight |-> Null]

(* authStore.getState() is not null: pages and header show a session. *)
Visible == memoryToken # Null /\ storedUser # Null

InTheAir == {r \in Flight : sentAs[r] # "landed"}

Init ==
    /\ cookie \in User \union {Null}
    /\ memoryToken = Null /\ storedUser = Null /\ isLoggingOut = FALSE
    /\ boot = "refresh"
    /\ inFlightRefresh = Null
    /\ sentAs = [r \in Flight |-> "landed"]
    /\ call = [c \in Call |-> NoCall]
    /\ logout = [l \in Logout |-> "idle"]
    /\ login = [f \in Form |-> Null]
    /\ signedOut = FALSE
    /\ crossed = FALSE

-----------------------------------------------------------------------------
(* authStore. *)

(* A mutant: the user's metadata survives. *)
BugClear == memoryToken' = Null /\ UNCHANGED storedUser

clear == memoryToken' = Null /\ storedUser' = Null

setState(u) ==
    /\ memoryToken' = u
    /\ storedUser' = u
    /\ isLoggingOut' = FALSE
    /\ signedOut' = FALSE

-----------------------------------------------------------------------------
(* useAuthBootstrap; the app shows nothing else until it is ready. *)

BootRefreshArrives ==
    /\ boot = "refresh"
    /\ \/ cookie # Null /\ memoryToken' = cookie /\ boot' = "me"
       \/ boot' = "ready" /\ UNCHANGED memoryToken
    /\ UNCHANGED <<cookie, storedUser, isLoggingOut, inFlightRefresh, sentAs,
                   call, logout, login, history>>

BootMeArrives ==
    /\ boot = "me"
    /\ boot' = "ready"
    /\ \/ storedUser' = memoryToken /\ signedOut' = FALSE /\ UNCHANGED memoryToken
       \/ clear /\ UNCHANGED signedOut
    /\ UNCHANGED <<cookie, isLoggingOut, inFlightRefresh, sentAs, call, logout, login,
                   crossed>>

(* The page is reloaded: the scripts start over, responses go nowhere. *)
Reload ==
    /\ boot = "ready"
    /\ boot' = "refresh"
    /\ clear
    /\ isLoggingOut' = FALSE
    /\ inFlightRefresh' = Null
    /\ sentAs' = [r \in Flight |-> "landed"]
    /\ call' = [c \in Call |-> NoCall]
    /\ logout' = [l \in Logout |-> "idle"]
    /\ login' = [f \in Form |-> Null]
    /\ crossed' = FALSE
    /\ UNCHANGED <<cookie, signedOut>>

-----------------------------------------------------------------------------
(* LoginPage, SignupPage and OnboardPage. *)

(* What u's login finds of somebody else: a session that was not ended, a  *)
(* refresh that was sent before, or a login that still awaits /auth/me.    *)
Beside(u) ==
    \/ Visible /\ {memoryToken, storedUser} # {u}
    \/ \E r \in InTheAir : sentAs[r] \notin {u, Null}
    \/ \E f \in Form : login[f] \notin {u, Null}

(* The server has let u in: a cookie, and a form goes on to ask /auth/me.  *)
LetIn(u) ==
    /\ \E f \in Form : login[f] = Null /\ login' = [login EXCEPT ![f] = u]
    /\ cookie' = u
    /\ crossed' = (crossed \/ Beside(u))
    /\ UNCHANGED store

(* /auth/login answers: a cookie, or a 401 that clears the store. *)
LoginArrives(u) ==
    /\ boot = "ready"
    /\ \/ LetIn(u)
       \/ clear /\ UNCHANGED <<cookie, login, isLoggingOut, crossed>>
    /\ UNCHANGED <<boot, inFlightRefresh, sentAs, call, logout, signedOut>>

(* /auth/signup answers: a cookie, or the form shows an error. *)
SignupArrives(u) ==
    /\ boot = "ready"
    /\ LetIn(u)
    /\ UNCHANGED <<boot, inFlightRefresh, sentAs, call, logout, signedOut>>

(* /auth/me answers: setState, also from a page that is no longer there,   *)
(* or the form shows an error.                                             *)
LoginMeArrives(f) ==
    /\ login[f] # Null
    /\ login' = [login EXCEPT ![f] = Null]
    /\ \/ setState(login[f])
       \/ clear /\ UNCHANGED <<isLoggingOut, signedOut>>
       \/ UNCHANGED <<store, signedOut>>
    /\ UNCHANGED <<cookie, boot, inFlightRefresh, sentAs, call, logout, crossed>>

(* onRedeemSuccess: redemption issues an access token and no cookie. *)
RedeemArrives(s) ==
    /\ boot = "ready"
    /\ setState(s)
    /\ crossed' = (crossed \/ Beside(s) \/ cookie \notin {s, Null})
    /\ UNCHANGED <<cookie, boot, inFlightRefresh, sentAs, call, logout, login>>

-----------------------------------------------------------------------------
(* apiClient. *)

CallSend(c) ==
    /\ call[c].pc = "idle"
    /\ Visible
    /\ call' = [call EXCEPT ![c].pc = "sent"]
    /\ UNCHANGED <<cookie, store, boot, inFlightRefresh, sentAs, logout, login, history>>

(* Any answer but a 401 settles the call or its retry. *)
CallSettles(c) ==
    /\ call[c].pc \in {"sent", "retry"}
    /\ call' = [call EXCEPT ![c] = NoCall]
    /\ UNCHANGED <<cookie, store, boot, inFlightRefresh, sentAs, logout, login, history>>

(* A mutant: the retry is an apiRequest of its own, and starts over. *)
BugRejectedStartsOver(c) ==
    /\ call[c].pc \in {"sent", "retry"}
    /\ IF call[c].pc = "sent"
         THEN call' = [call EXCEPT ![c] = NoCall] /\ clear
         ELSE call' = [call EXCEPT ![c].pc = "sent"] /\ UNCHANGED <<memoryToken, storedUser>>
    /\ UNCHANGED <<cookie, isLoggingOut, boot, inFlightRefresh, sentAs, logout, login,
                   history>>

(* A 401 that is not an expiry, or any 401 of a retry: clear and /login. *)
CallRejected(c) ==
    /\ call[c].pc \in {"sent", "retry"}
    /\ call' = [call EXCEPT ![c] = NoCall]
    /\ clear
    /\ UNCHANGED <<cookie, isLoggingOut, boot, inFlightRefresh, sentAs, logout, login,
                   history>>

(* A mutant: every expiry sends a refresh of its own. *)
BugRefreshUnshared(c) ==
    /\ call[c].pc = "sent"
    /\ \E r \in Flight \ InTheAir :
          /\ call' = [call EXCEPT ![c].pc = "waiting", ![c].flight = r]
          /\ sentAs' = [sentAs EXCEPT ![r] = cookie]
          /\ inFlightRefresh' = r
    /\ UNCHANGED <<cookie, store, boot, logout, login, history>>

(* AUTH_TOKEN_EXPIRED: join the refresh in flight, or send one. *)
CallExpired(c) ==
    /\ call[c].pc = "sent"
    /\ \/ /\ inFlightRefresh # Null
          /\ call' = [call EXCEPT ![c].pc = "waiting", ![c].flight = inFlightRefresh]
          /\ UNCHANGED <<inFlightRefresh, sentAs>>
       \/ /\ inFlightRefresh = Null
          /\ \E r \in Flight \ InTheAir :
                /\ call' = [call EXCEPT ![c].pc = "waiting", ![c].flight = r]
                /\ sentAs' = [sentAs EXCEPT ![r] = cookie]
                /\ inFlightRefresh' = r
    /\ UNCHANGED <<cookie, store, boot, logout, login, history>>

(* The refresh's promise settles: its `finally`, then its waiters. *)
Land(r, next) ==
    /\ sentAs' = [sentAs EXCEPT ![r] = "landed"]
    /\ inFlightRefresh' = Null
    /\ call' = [c \in Call |-> IF call[c].flight = r THEN next ELSE call[c]]

Rejected == NoCall

Retry == [pc |-> "retry", flight |-> Null]

(* A new cookie and token.  During a logout the token is dropped and the   *)
(* waiting calls fail; otherwise each is retried with the new token.       *)
RefreshArrives(r) ==
    LET u == sentAs[r] IN
        /\ r \in InTheAir /\ u # Null
        /\ cookie' = u
        /\ \/ isLoggingOut /\ Land(r, Rejected) /\ UNCHANGED memoryToken
           \/ ~isLoggingOut /\ memoryToken' = u /\ Land(r, Retry)
        /\ UNCHANGED <<storedUser, isLoggingOut, boot, logout, login, history>>

(* A mutant: the waiters are forgotten. *)
BugRefreshFails(r) ==
    /\ r \in InTheAir
    /\ sentAs' = [sentAs EXCEPT ![r] = "landed"]
    /\ inFlightRefresh' = Null
    /\ clear
    /\ UNCHANGED <<cookie, isLoggingOut, boot, call, logout, login, history>>

(* The server refuses (clear and /login), or the network fails (no clear). *)
RefreshFails(r) ==
    /\ r \in InTheAir
    /\ Land(r, Rejected)
    /\ clear \/ UNCHANGED <<memoryToken, storedUser>>
    /\ UNCHANGED <<cookie, isLoggingOut, boot, logout, login, history>>

-----------------------------------------------------------------------------
(* App.handleLogout and postLogoutWithRetry. *)

LogoutClick(l) ==
    /\ Visible
    /\ logout[l] = "idle"
    /\ logout' = [logout EXCEPT ![l] = "first"]
    /\ isLoggingOut' = TRUE
    /\ UNCHANGED <<cookie, memoryToken, storedUser, boot, inFlightRefresh, sentAs,
                   call, login, history>>

(* The `finally` of handleLogout. *)
LogoutDone(l) ==
    /\ logout' = [logout EXCEPT ![l] = "idle"]
    /\ clear
    /\ isLoggingOut' = FALSE
    /\ signedOut' = TRUE
    /\ UNCHANGED <<boot, inFlightRefresh, sentAs, call, login, crossed>>

(* An answer.  Only a 200 clears the cookie; postLogout takes any answer   *)
(* for a success, a 403, 429 or 500 too.                                   *)
LogoutArrives(l) ==
    /\ logout[l] # "idle"
    /\ cookie' = Null \/ UNCHANGED cookie
    /\ LogoutDone(l)

(* An error or the timeout: one more attempt, then on as if it had worked. *)
LogoutFails(l) ==
    \/ /\ logout[l] = "first"
       /\ logout' = [logout EXCEPT ![l] = "second"]
       /\ UNCHANGED <<cookie, store, boot, inFlightRefresh, sentAs, call, login, history>>
    \/ /\ logout[l] = "second"
       /\ LogoutDone(l)
       /\ UNCHANGED cookie

-----------------------------------------------------------------------------
(* What arrives from the network for a call, its refresh or a logout. *)
CallAnswered(c) == CallSettles(c) \/ CallRejected(c) \/ CallExpired(c)
RefreshAnswered(r) == RefreshArrives(r) \/ RefreshFails(r)

Next ==
    \/ BootRefreshArrives \/ BootMeArrives \/ Reload
    \/ \E u \in User : LoginArrives(u)
    \/ \E u \in Parent : SignupArrives(u)
    \/ \E f \in Form : LoginMeArrives(f)
    \/ \E s \in Student : RedeemArrives(s)
    \/ \E c \in Call : CallSend(c) \/ CallAnswered(c)
    \/ \E r \in Flight : RefreshAnswered(r)
    \/ \E l \in Logout : LogoutClick(l) \/ LogoutArrives(l) \/ LogoutFails(l)

Spec == Init /\ [][Next]_vars

(* A request is answered or fails: the browser gives up on a dead network. *)
FairSpec ==
    /\ Spec
    /\ \A c \in Call : WF_vars(CallAnswered(c))
    /\ \A r \in Flight : WF_vars(RefreshAnswered(r))

-----------------------------------------------------------------------------
(* Correctness. *)

(* Every variable has its type, and a call waits exactly while the refresh *)
(* it joined is in the air: no settled refresh forgets a waiter.           *)
TypeOK ==
    /\ login \in [Form -> User \union {Null}]
    /\ {cookie, memoryToken, storedUser} \subseteq User \union {Null}
    /\ {isLoggingOut, signedOut, crossed} \subseteq BOOLEAN
    /\ boot \in {"refresh", "me", "ready"}
    /\ inFlightRefresh \in InTheAir \union {Null}
    /\ sentAs \in [Flight -> User \union {Null, "landed"}]
    /\ call \in [Call -> [pc : {"idle", "sent", "waiting", "retry"},
                          flight : Flight \union {Null}]]
    /\ \A c \in Call : IF call[c].pc = "waiting" THEN call[c].flight \in InTheAir
                                                 ELSE call[c].flight = Null
    /\ logout \in [Logout -> {"idle", "first", "second"}]

(* However many calls meet an expired token, one refresh carries a cookie  *)
(* at a time: two would make the server see its token reused.              *)
SingleFlight == Cardinality(InTheAir) <= 1

(* After a logout, and until somebody logs in, no late response makes the  *)
(* session visible again (authStore.isLoggingOut).                         *)
HiddenAfterLogout == signedOut => ~Visible

(* The page calls the API as the user it shows, and so it stays after the  *)
(* next silent refresh, unless somebody was logged in beside somebody else:*)
(* without a logout, over a refresh in the air, while another login awaits *)
(* its /auth/me (the two may settle in either order), or by a redemption,  *)
(* which leaves the browser the cookie it finds.                           *)
ShownUserIsCaller ==
    ~crossed /\ Visible => /\ memoryToken = storedUser
                           /\ cookie \in {storedUser, Null}
                           /\ \A r \in InTheAir : sentAs[r] \in {storedUser, Null}

(* Every call settles: a retry never refreshes again (the recursion bound  *)
(* of apiClient), and no call waits for a refresh that is gone.            *)
EveryCallSettles == \A c \in Call : call[c].pc # "idle" ~> call[c].pc = "idle"

(* Documented, and refuted: a call is not retried when logout completed    *)
(* while its refresh was in flight (apiClient, the guard before the retry).*)
NoRetryAfterLogout ==
    [][\A c \in Call : call[c].pc = "waiting" /\ call'[c].pc = "retry"
          => ~signedOut]_vars
=============================================================================
