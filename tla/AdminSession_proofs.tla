-------------------------- MODULE AdminSession_proofs --------------------------
(***************************************************************************)
(* For any users, calls, refreshes and logouts: the safety properties of   *)
(* SpaSession, and that a tab which goes from one SPA to the other is a    *)
(* session of SpaSession too, so that they hold of the admin SPA.          *)
(*                                                                         *)
(* ShownUserIsCaller is not inductive.  A login that waits for /auth/me is *)
(* not shown yet, but the browser has its cookie, and if several wait they *)
(* are the same user's (LoginsKnown); and a boot must find nothing under   *)
(* way from before the reload (BootIsAlone).                               *)
(***************************************************************************)
EXTENDS AdminSession, FiniteSetTheorems, TLAPS

(* The refresh that is in the air is the one that calls join. *)
OneFlight == \A r \in InTheAir : r = inFlightRefresh

(* After a logout a late refresh may bring a token, but no user. *)
NobodyStored == signedOut => storedUser = Null

StoredHasToken == storedUser # Null => memoryToken # Null

(* While the SPA boots nothing else is under way. *)
BootIsAlone == boot # "ready" =>
    /\ storedUser = Null /\ InTheAir = {}
    /\ \A f \in Form : login[f] = Null
    /\ \A c \in Call : call[c] = NoCall
    /\ \A l \in Logout : logout[l] = "idle"
    /\ boot = "me" => cookie \in {memoryToken, Null}

(* The browser holds and sends no cookie but u's. *)
Belongs(u) == cookie \in {u, Null} /\ \A r \in InTheAir : sentAs[r] \in {u, Null}

LoginsKnown == ~crossed => \A f \in Form : login[f] # Null =>
    /\ Belongs(login[f])
    /\ \A g \in Form : login[g] \in {login[f], Null}

IInv == /\ TypeOK /\ OneFlight /\ NobodyStored /\ StoredHasToken
        /\ BootIsAlone /\ LoginsKnown /\ ShownUserIsCaller

-----------------------------------------------------------------------------
USE RoleAssumption, NullAssumption

(* How the calls stand with a refresh in the air or none.                  *)
CallsKnow == /\ call \in [Call -> [pc : {"idle", "sent", "waiting", "retry"},
                                   flight : Flight \union {Null}]]
             /\ \A c \in Call : IF call[c].pc = "waiting" THEN call[c].flight \in InTheAir
                                                          ELSE call[c].flight = Null

FlightsKnow == /\ inFlightRefresh \in InTheAir \union {Null}
               /\ sentAs \in [Flight -> User \union {Null, "landed"}]
               /\ OneFlight

LEMMA AirKept == UNCHANGED sentAs => InTheAir' = InTheAir
  BY DEF InTheAir

LEMMA CallBecomes ==
    ASSUME CallsKnow, NEW c \in Call, UNCHANGED sentAs,
           \/ call' = [call EXCEPT ![c] = NoCall]
           \/ call[c].pc = "idle" /\ call' = [call EXCEPT ![c].pc = "sent"]
           \/ call' = call
    PROVE  CallsKnow'
  BY AirKept DEF CallsKnow, NoCall

LEMMA FlightLands ==
    ASSUME CallsKnow, FlightsKnow, NEW r \in InTheAir,
           NEW next \in {Rejected, Retry}, Land(r, next)
    PROVE  CallsKnow' /\ FlightsKnow' /\ InTheAir' = {}
<1>1. r \in Flight /\ \A q \in InTheAir : q = r
  BY DEF FlightsKnow, OneFlight, InTheAir
<1>2. sentAs' = [sentAs EXCEPT ![r] = "landed"] /\ inFlightRefresh' = Null
  BY DEF Land
<1>3. InTheAir' = {} /\ sentAs' \in [Flight -> User \union {Null, "landed"}]
  BY <1>1, <1>2 DEF InTheAir, FlightsKnow
<1>4. FlightsKnow'
  BY <1>2, <1>3 DEF FlightsKnow, OneFlight
<1>5. \A c \in Call : /\ call'[c] \in {next, call[c]}
                      /\ call[c].flight = r => call'[c] = next
  BY DEF Land
<1>6. \A c \in Call : call[c].flight # r => call[c].pc # "waiting"
  BY <1>1 DEF CallsKnow
<1>7. /\ next \in [pc : {"idle", "sent", "waiting", "retry"}, flight : Flight \union {Null}]
      /\ next.pc # "waiting" /\ next.flight = Null
  BY DEF Rejected, Retry, NoCall
<1>8. \A c \in Call : /\ call'[c].pc # "waiting" /\ call'[c].flight = Null
                      /\ call'[c] \in [pc : {"idle", "sent", "waiting", "retry"},
                                       flight : Flight \union {Null}]
  BY <1>5, <1>6, <1>7 DEF CallsKnow
<1>9. call' \in [Call -> [pc : {"idle", "sent", "waiting", "retry"},
                          flight : Flight \union {Null}]]
  BY <1>8 DEF Land
<1>10. QED
  BY <1>3, <1>4, <1>8, <1>9 DEF CallsKnow

LEMMA WaitingRecord ==
    ASSUME NEW P, NEW F, NEW x \in [pc : P, flight : F], NEW r \in F, "waiting" \in P,
           NEW y, y = [x EXCEPT !.pc = "waiting", !.flight = r]
    PROVE  y \in [pc : P, flight : F] /\ y.pc = "waiting" /\ y.flight = r
  OBVIOUS

(* A call joins a refresh or sends one. *)
LEMMA CallWaits ==
    ASSUME CallsKnow, NEW c \in Call, NEW r \in Flight, r \in InTheAir',
           InTheAir \subseteq InTheAir',
           call' = [call EXCEPT ![c].pc = "waiting", ![c].flight = r]
    PROVE  CallsKnow'
<1> DEFINE P == {"idle", "sent", "waiting", "retry"}
           F == Flight \union {Null}
<1>1. /\ call \in [Call -> [pc : P, flight : F]] /\ call[c] \in [pc : P, flight : F]
      /\ "waiting" \in P /\ r \in F
  BY DEF CallsKnow
<1>2. call' = [call EXCEPT ![c] = [call[c] EXCEPT !.pc = "waiting", !.flight = r]]
  BY <1>1
<1> HIDE DEF P, F
<1>3. /\ call'[c] = [call[c] EXCEPT !.pc = "waiting", !.flight = r]
      /\ \A d \in Call : d # c => call'[d] = call[d]
  BY <1>1, <1>2
<1>4. call'[c] \in [pc : P, flight : F] /\ call'[c].pc = "waiting" /\ call'[c].flight = r
  BY <1>1, <1>3, WaitingRecord
<1>5. call' \in [Call -> [pc : P, flight : F]]
  BY <1>1, <1>2, <1>4
<1>6. QED
  BY <1>3, <1>4, <1>5 DEF CallsKnow, P, F

LEMMA FlightJoined ==
    ASSUME CallsKnow, FlightsKnow, cookie \in User \union {Null},
           NEW c \in Call, CallExpired(c)
    PROVE  /\ CallsKnow' /\ FlightsKnow'
           /\ \A r \in InTheAir' : \/ sentAs'[r] = cookie
                                   \/ r \in InTheAir /\ sentAs'[r] = sentAs[r]
<1>1. ASSUME inFlightRefresh # Null, UNCHANGED <<inFlightRefresh, sentAs>>,
             call' = [call EXCEPT ![c].pc = "waiting", ![c].flight = inFlightRefresh]
      PROVE  /\ CallsKnow' /\ FlightsKnow' /\ InTheAir' = InTheAir
  <2>1. inFlightRefresh \in InTheAir /\ inFlightRefresh \in Flight /\ InTheAir' = InTheAir
    BY <1>1, AirKept DEF FlightsKnow, InTheAir
  <2>2. CallsKnow'
    BY <1>1, <2>1, CallWaits
  <2>3. QED
    BY <1>1, <2>1, <2>2 DEF FlightsKnow, OneFlight
<1>2. ASSUME inFlightRefresh = Null, NEW r \in Flight \ InTheAir, inFlightRefresh' = r,
             call' = [call EXCEPT ![c].pc = "waiting", ![c].flight = r],
             sentAs' = [sentAs EXCEPT ![r] = cookie]
      PROVE  /\ CallsKnow' /\ FlightsKnow'
             /\ \A q \in InTheAir' : sentAs'[q] = cookie
  <2>1. InTheAir = {}
    BY <1>2 DEF FlightsKnow, OneFlight, InTheAir
  <2>2. /\ InTheAir' = {r} /\ sentAs'[r] = cookie
        /\ sentAs' \in [Flight -> User \union {Null, "landed"}]
    BY <1>2, <2>1 DEF FlightsKnow, InTheAir
  <2>3. CallsKnow'
    BY <1>2, <2>1, <2>2, CallWaits
  <2>4. QED
    BY <1>2, <2>2, <2>3 DEF FlightsKnow, OneFlight
<1>3. CASE inFlightRefresh # Null
  BY <1>1, <1>3 DEF CallExpired
<1>4. CASE inFlightRefresh = Null
  <2>1. PICK s \in Flight \ InTheAir :
          /\ inFlightRefresh' = s
          /\ call' = [call EXCEPT ![c].pc = "waiting", ![c].flight = s]
          /\ sentAs' = [sentAs EXCEPT ![s] = cookie]
    BY <1>4 DEF CallExpired
  <2>2. CallsKnow' /\ FlightsKnow' /\ \A q \in InTheAir' : sentAs'[q] = cookie
    BY <1>2, <1>4, <2>1
  <2>3. QED
    BY <2>2
<1>5. QED
  BY <1>3, <1>4

-----------------------------------------------------------------------------
(* What is settled at once: types of the scalars, who is stored, the boot. *)

Scalars == /\ {cookie, memoryToken, storedUser} \subseteq User \union {Null}
           /\ {isLoggingOut, signedOut, crossed} \subseteq BOOLEAN
           /\ boot \in {"refresh", "me", "ready"}
           /\ logout \in [Logout -> {"idle", "first", "second"}]
           /\ login \in [Form -> User \union {Null}]

LEMMA TypeParts == TypeOK /\ OneFlight <=> Scalars /\ FlightsKnow /\ CallsKnow
  BY DEF TypeOK, Scalars, FlightsKnow, CallsKnow

LEMMA TypeStep == TypeOK /\ OneFlight /\ [Next]_vars => TypeOK' /\ OneFlight'
<1> SUFFICES ASSUME TypeOK /\ OneFlight, [Next]_vars PROVE TypeOK' /\ OneFlight'
  OBVIOUS
<1>1. Scalars /\ FlightsKnow /\ CallsKnow
  BY TypeParts
<1> USE <1>1
<1> DEFINE Goal == Scalars' /\ FlightsKnow' /\ CallsKnow'
<1>2. UNCHANGED <<inFlightRefresh, sentAs>> => FlightsKnow'
  BY AirKept DEF FlightsKnow, OneFlight
<1>3. UNCHANGED <<call, sentAs>> => CallsKnow'
  BY AirKept DEF CallsKnow
<1>4. UNCHANGED vars => Goal
  BY <1>2, <1>3 DEF vars, store, history, Scalars
<1>5. BootRefreshArrives \/ BootMeArrives => Goal
  BY <1>2, <1>3 DEF BootRefreshArrives, BootMeArrives, clear, history, Scalars
<1>6. ASSUME Reload PROVE Goal
  <2>1. Scalars'
    BY <1>6 DEF Reload, clear, Scalars
  <2>2. /\ sentAs' = [r \in Flight |-> "landed"] /\ inFlightRefresh' = Null
        /\ call' = [c \in Call |-> NoCall]
    BY <1>6 DEF Reload
  <2>3. InTheAir' = {}
    BY <2>2 DEF InTheAir
  <2>4. FlightsKnow'
    BY <2>2, <2>3 DEF FlightsKnow, OneFlight
  <2>5. CallsKnow'
    BY <2>2, <2>3 DEF CallsKnow, NoCall
  <2>6. QED
    BY <2>1, <2>4, <2>5
<1>7. ASSUME NEW u \in User, LoginArrives(u) \/ SignupArrives(u) \/ RedeemArrives(u)
      PROVE  Goal
  <2>1. Beside(u) \in BOOLEAN /\ (crossed \/ Beside(u)) \in BOOLEAN
        /\ (crossed \/ Beside(u) \/ cookie \notin {u, Null}) \in BOOLEAN
    BY DEF Beside
  <2>2. Scalars'
    BY <1>7, <2>1 DEF LoginArrives, SignupArrives, LetIn, RedeemArrives, setState, clear, store,
                     Scalars
  <2>3. UNCHANGED <<inFlightRefresh, sentAs, call>>
    BY <1>7 DEF LoginArrives, SignupArrives, RedeemArrives
  <2>4. QED
    BY <1>2, <1>3, <2>2, <2>3
<1>8. ASSUME NEW f \in Form, LoginMeArrives(f) PROVE Goal
  BY <1>2, <1>3, <1>8 DEF LoginMeArrives, setState, clear, store, Scalars
<1>9. ASSUME NEW c \in Call, CallSend(c) \/ CallSettles(c) \/ CallRejected(c) PROVE Goal
  <2>1. Scalars' /\ UNCHANGED <<inFlightRefresh, sentAs>>
    BY <1>9 DEF CallSend, CallSettles, CallRejected, clear, store, history, Scalars
  <2>2. CallsKnow'
    BY <1>9, <2>1, CallBecomes DEF CallSend, CallSettles, CallRejected
  <2>3. QED
    BY <1>2, <2>1, <2>2
<1>10. ASSUME NEW c \in Call, CallExpired(c) PROVE Goal
  <2>1. Scalars'
    BY <1>10 DEF CallExpired, store, history, Scalars
  <2>2. QED
    BY <1>10, <2>1, FlightJoined DEF Scalars
<1>11. ASSUME NEW r \in Flight, RefreshArrives(r) \/ RefreshFails(r) PROVE Goal
  <2>1. r \in InTheAir /\ (Land(r, Rejected) \/ Land(r, Retry))
    BY <1>11 DEF RefreshArrives, RefreshFails
  <2>2. sentAs[r] # "landed" /\ sentAs[r] \in User \union {Null}
    BY <2>1 DEF InTheAir, FlightsKnow
  <2>3. Scalars'
    BY <1>11, <2>2 DEF RefreshArrives, RefreshFails, clear, history, Scalars
  <2>4. CallsKnow' /\ FlightsKnow'
    BY <2>1, FlightLands
  <2>5. QED
    BY <2>3, <2>4
<1>12. ASSUME NEW l \in Logout, LogoutClick(l) \/ LogoutArrives(l) \/ LogoutFails(l) PROVE Goal
  <2>1. Scalars' /\ UNCHANGED <<inFlightRefresh, sentAs, call>>
    BY <1>12 DEF LogoutClick, LogoutArrives, LogoutFails, LogoutDone, clear, store, history, Scalars
  <2>2. QED
    BY <1>2, <1>3, <2>1
<1>13. Goal => TypeOK' /\ OneFlight'
  BY DEF TypeOK, OneFlight, Scalars, FlightsKnow, CallsKnow
<1> HIDE DEF Goal
<1>14. QED
  BY <1>4, <1>5, <1>6, <1>7, <1>8, <1>9, <1>10, <1>11, <1>12, <1>13
  DEF Next, CallAnswered, RefreshAnswered

-----------------------------------------------------------------------------
LEMMA StoreStep == IInv /\ [Next]_vars => NobodyStored' /\ StoredHasToken'
<1> SUFFICES ASSUME IInv, [Next]_vars PROVE NobodyStored' /\ StoredHasToken'
  OBVIOUS
<1>0. /\ TypeOK
      /\ signedOut => storedUser = Null
      /\ storedUser # Null => memoryToken # Null
      /\ boot # "ready" => storedUser = Null
  BY DEF IInv, NobodyStored, StoredHasToken, BootIsAlone
<1> DEFINE Goal == /\ signedOut' => storedUser' = Null
                   /\ storedUser' # Null => memoryToken' # Null
<1>1. UNCHANGED store /\ signedOut' = signedOut => Goal
  BY <1>0 DEF store
<1>2. clear => Goal
  BY DEF clear
<1>3. ASSUME NEW u \in User, setState(u) PROVE Goal
  BY <1>3 DEF setState
<1>4. UNCHANGED vars => Goal
  BY <1>1 DEF vars, history
<1>5. BootRefreshArrives \/ BootMeArrives \/ Reload => Goal
  BY <1>0, <1>2 DEF BootRefreshArrives, BootMeArrives, Reload, history
<1>6. \A u \in User : LoginArrives(u) \/ SignupArrives(u) \/ RedeemArrives(u) => Goal
  BY <1>1, <1>2, <1>3 DEF LoginArrives, SignupArrives, LetIn, RedeemArrives
<1>7. ASSUME NEW f \in Form, LoginMeArrives(f) PROVE Goal
  <2>1. login[f] \in User
    BY <1>0, <1>7 DEF LoginMeArrives, TypeOK
  <2>2. QED
    BY <1>1, <1>2, <1>3, <1>7, <2>1 DEF LoginMeArrives
<1>8. \A c \in Call : CallSend(c) \/ CallSettles(c) \/ CallRejected(c) \/ CallExpired(c) => Goal
  BY <1>1, <1>2 DEF CallSend, CallSettles, CallRejected, CallExpired, history
<1>9. \A r \in Flight : RefreshArrives(r) \/ RefreshFails(r) => Goal
  BY <1>0, <1>2 DEF RefreshArrives, RefreshFails, history
<1>10. \A l \in Logout : LogoutClick(l) \/ LogoutArrives(l) \/ LogoutFails(l) => Goal
  BY <1>0, <1>1, <1>2 DEF LogoutClick, LogoutArrives, LogoutFails, LogoutDone, history
<1>11. Goal => NobodyStored' /\ StoredHasToken'
  BY DEF NobodyStored, StoredHasToken
<1> HIDE DEF Goal
<1>12. QED
  BY <1>4, <1>5, <1>6, <1>7, <1>8, <1>9, <1>10, <1>11
  DEF Next, CallAnswered, RefreshAnswered

LEMMA BootStep == IInv /\ [Next]_vars => BootIsAlone'
<1> SUFFICES ASSUME IInv, [Next]_vars PROVE BootIsAlone'
  OBVIOUS
<1>0. TypeOK /\ BootIsAlone
  BY DEF IInv
<1>1. boot' = "ready" => BootIsAlone'
  BY DEF BootIsAlone
<1>2. UNCHANGED vars => BootIsAlone'
  BY <1>0, AirKept DEF vars, store, BootIsAlone
<1>3. BootRefreshArrives => BootIsAlone'
  BY <1>0, AirKept DEF BootRefreshArrives, BootIsAlone
<1>4. BootMeArrives => BootIsAlone'
  BY <1>1 DEF BootMeArrives
<1>5. ASSUME Reload PROVE BootIsAlone'
  <2>1. InTheAir' = {}
    BY <1>5 DEF Reload, InTheAir
  <2>2. QED
    BY <1>5, <2>1 DEF Reload, clear, BootIsAlone
<1>6. \A u \in User : LoginArrives(u) \/ SignupArrives(u) \/ RedeemArrives(u) => BootIsAlone'
  BY <1>1 DEF LoginArrives, SignupArrives, RedeemArrives
<1>7. ASSUME boot' = boot, boot = "ready" PROVE BootIsAlone'
  BY <1>1, <1>7
<1>8. \A f \in Form : LoginMeArrives(f) => BootIsAlone'
  BY <1>0, <1>7 DEF LoginMeArrives, TypeOK, BootIsAlone
<1>9. \A c \in Call : CallSend(c) \/ CallSettles(c) \/ CallRejected(c) \/ CallExpired(c) => BootIsAlone'
  <2>1. boot # "ready" => ~Visible /\ \A c \in Call : call[c].pc = "idle"
    BY <1>0 DEF BootIsAlone, Visible, NoCall
  <2>2. QED
    BY <1>7, <2>1 DEF CallSend, CallSettles, CallRejected, CallExpired
<1>10. \A r \in Flight : RefreshArrives(r) \/ RefreshFails(r) => BootIsAlone'
  BY <1>0, <1>7 DEF RefreshArrives, RefreshFails, BootIsAlone
<1>11. \A l \in Logout : LogoutClick(l) \/ LogoutArrives(l) \/ LogoutFails(l) => BootIsAlone'
  <2>1. boot # "ready" => ~Visible /\ \A l \in Logout : logout[l] = "idle"
    BY <1>0 DEF BootIsAlone, Visible
  <2>2. QED
    BY <1>7, <2>1 DEF LogoutClick, LogoutArrives, LogoutFails, LogoutDone
<1>12. QED
  BY <1>2, <1>3, <1>4, <1>5, <1>6, <1>8, <1>9, <1>10, <1>11
  DEF Next, CallAnswered, RefreshAnswered

-----------------------------------------------------------------------------
(* The cookies, the token and the user stored agree. *)
LEMMA CallerStep == IInv /\ [Next]_vars => LoginsKnown' /\ ShownUserIsCaller'
<1> SUFFICES ASSUME IInv, [Next]_vars PROVE LoginsKnown' /\ ShownUserIsCaller'
  OBVIOUS
<1>0. /\ TypeOK /\ OneFlight
      /\ boot # "ready" => /\ storedUser = Null /\ InTheAir = {}
                           /\ \A f \in Form : login[f] = Null
      /\ boot = "me" => cookie \in {memoryToken, Null}
      /\ storedUser # Null => memoryToken # Null
      /\ ~crossed => \A f \in Form : login[f] # Null =>
             Belongs(login[f]) /\ \A g \in Form : login[g] \in {login[f], Null}
      /\ ~crossed /\ storedUser # Null => memoryToken = storedUser /\ Belongs(storedUser)
  BY DEF IInv, BootIsAlone, StoredHasToken, LoginsKnown, ShownUserIsCaller, Belongs, Visible
<1>1. /\ cookie \in User \union {Null} /\ login \in [Form -> User \union {Null}]
      /\ \A r \in InTheAir : r \in Flight /\ sentAs[r] \in User \union {Null}
      /\ boot \in {"refresh", "me", "ready"}
  BY <1>0 DEF TypeOK, InTheAir
<1> DEFINE BelongsNext(u) == /\ cookie' \in {u, Null}
                             /\ \A r \in InTheAir' : sentAs'[r] \in {u, Null}
           Keeps == \A u \in User : Belongs(u) => BelongsNext(u)
           LoginGoal == ~crossed' => \A f \in Form : login'[f] # Null =>
                            /\ BelongsNext(login'[f])
                            /\ \A g \in Form : login'[g] \in {login'[f], Null}
           ShownGoal == ~crossed' /\ storedUser' # Null /\ memoryToken' # Null =>
                            memoryToken' = storedUser' /\ BelongsNext(storedUser')
           Goal == LoginGoal /\ ShownGoal
<1>2. UNCHANGED sentAs /\ cookie' \in {cookie, Null} => Keeps
  BY AirKept DEF Belongs
<1>3. storedUser \in User \union {Null} /\ memoryToken \in User \union {Null}
  BY <1>0 DEF TypeOK
<1>4. ASSUME Keeps, \A f \in Form : login'[f] \in {login[f], Null}, crossed' = crossed,
             clear \/ UNCHANGED <<memoryToken, storedUser>>
      PROVE  Goal
  <2>1. LoginGoal
    BY <1>0, <1>1, <1>4
  <2>2. ShownGoal
    BY <1>0, <1>3, <1>4 DEF clear
  <2>3. QED
    BY <2>1, <2>2
<1>5. UNCHANGED vars => Goal
  BY <1>2, <1>4 DEF vars, store, history
<1>6. BootRefreshArrives => Goal
  BY <1>0 DEF BootRefreshArrives
<1>7. BootMeArrives => Goal
  <2>1. BootMeArrives => /\ InTheAir' = {} /\ UNCHANGED cookie
                         /\ \A f \in Form : login'[f] = Null
                         /\ \/ clear
                            \/ storedUser' = memoryToken /\ memoryToken' = memoryToken
    BY <1>0, AirKept DEF BootMeArrives
  <2>2. QED
    BY <1>0, <2>1 DEF BootMeArrives, clear
<1>8. Reload => Goal
  BY DEF Reload, clear
<1>9. ASSUME NEW u \in User, ~Beside(u), cookie' = u, UNCHANGED sentAs PROVE BelongsNext(u)
  BY <1>9, AirKept DEF Beside
<1>10. ASSUME NEW u \in User, LetIn(u), UNCHANGED sentAs
       PROVE  Goal
  <2>1. PICK f \in Form : login' = [login EXCEPT ![f] = u]
    BY <1>10 DEF LetIn
  <2>2. cookie' = u /\ crossed' = (crossed \/ Beside(u)) /\ UNCHANGED store
    BY <1>10 DEF LetIn
  <2>3. ~crossed' => /\ BelongsNext(u) /\ \A g \in Form : login[g] \in {u, Null}
                     /\ storedUser # Null => storedUser = u /\ memoryToken = u
    BY <1>0, <1>9, <1>10, <2>2 DEF Beside, Visible
  <2>4. ~crossed' => \A g \in Form : login'[g] \in {u, Null}
    BY <1>1, <2>1, <2>3
  <2>5. LoginGoal
    BY <2>3, <2>4
  <2>6. ShownGoal
    BY <2>2, <2>3 DEF store
  <2>7. QED
    BY <2>5, <2>6
<1>11. ASSUME NEW u \in User, LoginArrives(u) \/ SignupArrives(u) PROVE Goal
  <2>1. CASE LetIn(u) /\ UNCHANGED sentAs
    BY <1>10, <2>1
  <2>2. CASE clear /\ UNCHANGED <<cookie, login, crossed, sentAs>>
    BY <1>2, <1>4, <2>2
  <2>3. QED
    BY <1>11, <2>1, <2>2 DEF LoginArrives, SignupArrives
<1>12. ASSUME NEW s \in User, RedeemArrives(s) PROVE Goal
  <2>1. UNCHANGED <<cookie, login, sentAs>> /\ memoryToken' = s /\ storedUser' = s
    BY <1>12 DEF RedeemArrives, setState
  <2>2. ~crossed' => ~crossed /\ ~Beside(s) /\ cookie \in {s, Null}
    BY <1>12 DEF RedeemArrives
  <2>3. ~crossed' => BelongsNext(s)
    BY <2>1, <2>2, AirKept DEF Beside
  <2>4. LoginGoal
    BY <1>0, <1>1, <1>2, <2>1, <2>2
  <2>5. QED
    BY <2>1, <2>3, <2>4
<1>13. ASSUME NEW f \in Form, LoginMeArrives(f) PROVE Goal
  <2>1. /\ login[f] \in User /\ UNCHANGED <<cookie, sentAs, crossed>>
        /\ \A g \in Form : login'[g] \in {login[g], Null}
        /\ \/ clear \/ UNCHANGED <<memoryToken, storedUser>>
           \/ memoryToken' = login[f] /\ storedUser' = login[f]
    BY <1>1, <1>13 DEF LoginMeArrives, setState, store
  <2>2. Keeps
    BY <1>2, <2>1
  <2>3. CASE memoryToken' = login[f] /\ storedUser' = login[f]
    <3>1. ~crossed' => BelongsNext(login[f])
      BY <1>0, <2>1, <2>2
    <3>2. LoginGoal
      BY <1>0, <1>1, <2>1, <2>2
    <3>3. QED
      BY <2>1, <2>3, <3>1, <3>2
  <2>4. QED
    BY <1>4, <2>1, <2>2, <2>3
<1>14. ASSUME NEW c \in Call, CallSend(c) \/ CallSettles(c) \/ CallRejected(c) PROVE Goal
  BY <1>2, <1>4, <1>14 DEF CallSend, CallSettles, CallRejected, store, history
<1>15. FlightsKnow /\ CallsKnow
  BY <1>0 DEF TypeOK, FlightsKnow, CallsKnow
<1>16. ASSUME NEW c \in Call, CallExpired(c) PROVE Goal
  <2>1. UNCHANGED <<cookie, memoryToken, storedUser, login, crossed>>
    BY <1>16 DEF CallExpired, store, history
  <2>2. Keeps
    BY <1>1, <1>15, <1>16, <2>1, FlightJoined DEF Belongs
  <2>3. QED
    BY <1>4, <2>1, <2>2
<1>17. ASSUME NEW r \in Flight, RefreshArrives(r) \/ RefreshFails(r) PROVE Goal
  <2>1. /\ r \in InTheAir /\ (Land(r, Rejected) \/ Land(r, Retry))
        /\ UNCHANGED <<login, crossed>>
    BY <1>17 DEF RefreshArrives, RefreshFails, history
  <2>2. InTheAir' = {}
    BY <1>15, <2>1, FlightLands
  <2>3. cookie' \in {cookie, sentAs[r]}
    BY <1>17 DEF RefreshArrives, RefreshFails
  <2>4. Keeps
    BY <2>1, <2>2, <2>3 DEF Belongs
  <2>5. CASE clear \/ UNCHANGED <<memoryToken, storedUser>>
    BY <1>4, <2>1, <2>4, <2>5
  <2>6. CASE memoryToken' = sentAs[r] /\ sentAs[r] # Null /\ UNCHANGED storedUser
    <3>1. ~crossed /\ storedUser # Null => sentAs[r] = storedUser
      BY <1>0, <2>1, <2>6 DEF Belongs
    <3>2. LoginGoal
      BY <1>0, <1>1, <2>1, <2>4
    <3>3. ShownGoal
      BY <1>0, <1>3, <2>1, <2>4, <2>6, <3>1
    <3>4. QED
      BY <3>2, <3>3
  <2>7. QED
    BY <1>17, <2>5, <2>6 DEF RefreshArrives, RefreshFails
<1>18. ASSUME NEW l \in Logout, LogoutClick(l) \/ LogoutArrives(l) \/ LogoutFails(l) PROVE Goal
  <2>1. /\ cookie' \in {cookie, Null} /\ UNCHANGED <<sentAs, login, crossed>>
        /\ clear \/ UNCHANGED <<memoryToken, storedUser>>
    BY <1>18 DEF LogoutClick, LogoutArrives, LogoutFails, LogoutDone, store, history
  <2>2. QED
    BY <1>2, <1>4, <2>1
<1>19. Goal => LoginsKnown' /\ ShownUserIsCaller'
  BY DEF LoginsKnown, ShownUserIsCaller, Belongs, Visible
<1> HIDE DEF Goal
<1>20. QED
  BY <1>5, <1>6, <1>7, <1>8, <1>11, <1>12, <1>13, <1>14, <1>16, <1>17, <1>18, <1>19
  DEF Next, CallAnswered, RefreshAnswered

LEMMA Inductive == Spec => []IInv
<1>1. Init => IInv
  <2>1. Init => InTheAir = {}
    BY DEF Init, InTheAir
  <2>2. Init => Scalars
    BY DEF Init, Scalars
  <2>3. Init => FlightsKnow
    BY <2>1 DEF Init, FlightsKnow, OneFlight
  <2>4. Init => CallsKnow
    BY <2>1 DEF Init, CallsKnow, NoCall
  <2>5. QED
    BY <2>1, <2>2, <2>3, <2>4, TypeParts DEF Init, IInv, OneFlight, NobodyStored, StoredHasToken, BootIsAlone,
                      LoginsKnown, ShownUserIsCaller, Visible
<1>2. IInv /\ [Next]_vars => IInv'
  BY TypeStep, StoreStep, BootStep, CallerStep DEF IInv
<1>3. QED
  BY <1>1, <1>2, PTL DEF Spec

-----------------------------------------------------------------------------
(* Every state has its type and no settled refresh forgets a waiting call, *)
(* whatever arrives in which order (apiClient, useAuthBootstrap).          *)
THEOREM TypeCorrect == Spec => []TypeOK
<1>1. IInv => TypeOK
  BY DEF IInv
<1>2. QED
  BY <1>1, Inductive, PTL

(* However many calls meet an expired token, apiClient has one refresh in  *)
(* the air, which they share.                                              *)
THEOREM OneRefreshAtATime == Spec => []SingleFlight
<1>1. IInv => SingleFlight
  <2>1. IInv => InTheAir = {} \/ InTheAir = {inFlightRefresh}
    BY DEF IInv, OneFlight
  <2>2. Cardinality({}) = 0 /\ Cardinality({inFlightRefresh}) = 1
    BY FS_EmptySet, FS_Singleton
  <2>3. QED
    BY <2>1, <2>2 DEF SingleFlight
<1>2. QED
  BY <1>1, Inductive, PTL

(* After a logout, and until somebody logs in, no late answer makes a      *)
(* session visible: authStore.isLoggingOut guards the window before the    *)
(* store is cleared, and the missing user metadata the time after it.      *)
THEOREM LoggedOutStaysHidden == Spec => []HiddenAfterLogout
<1>1. IInv => HiddenAfterLogout
  BY DEF IInv, NobodyStored, HiddenAfterLogout, Visible
<1>2. QED
  BY <1>1, Inductive, PTL

(* Unless somebody was logged in beside somebody else, which Beside says   *)
(* in full, the page calls the API as the user it shows: through every     *)
(* order of login, /auth/me, refresh, redemption and logout answers, also  *)
(* of several logins at once.                                              *)
THEOREM ThePageShowsTheCaller == Spec => []ShownUserIsCaller
<1>1. IInv => ShownUserIsCaller
  BY DEF IInv
<1>2. QED
  BY <1>1, Inductive, PTL

-----------------------------------------------------------------------------
LEMMA InAdminIsNext == InAdmin => Next
  BY DEF InAdmin, Next, AdminBoot, AdminLoginArrives, AdminCallSend, AdminCallAnswered,
         AdminRefreshAnswered, AdminLogoutClick, AdminLogoutAnswered,
         AdminLoginMeArrives, LoginMeArrives, store

(* A tab that goes from one SPA to the other, and the admin SPA's copies   *)
(* of the session code with its stricter login, RequireAdmin and its       *)
(* log-out button behind it, are a session of SpaSession: the four         *)
(* theorems above hold of them.                                            *)
THEOREM BothSpasAreASession == BrowserSpec => Spec
<1>1. BrowserInit => Init
  BY DEF BrowserInit
<1>2. [BrowserNext]_browserVars => [Next]_vars
  BY InAdminIsNext DEF BrowserNext, OpenOther, Next, browserVars
<1>3. QED
  BY <1>1, <1>2, PTL DEF BrowserSpec, Spec
=============================================================================
