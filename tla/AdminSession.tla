----------------------------- MODULE AdminSession -----------------------------
(***************************************************************************)
(* The admin SPA, and a browser tab that goes from one SPA to the other.   *)
(* The admin SPA has its own copy of the session code, which SpaSession    *)
(* models; what differs is its login page, which turns away users who are  *)
(* no admins, and RequireAdmin, which stands before its pages.  The SPAs   *)
(* share nothing but the refresh cookie: it belongs to the API's host.     *)
(***************************************************************************)
EXTENDS SpaSession

CONSTANT Admin      \* users with the role ADMIN

ASSUME AdminAssumption == Admin \subseteq User /\ Admin \cap (Student \union Parent) = {}

VARIABLE app        \* the SPA in the tab

browserVars == <<vars, app>>

BrowserInit == Init /\ app \in {"web", "admin"}

(* RequireAdmin: the pages, and the layout with its log-out button. *)
MaySeePages == Visible /\ storedUser \in Admin

-----------------------------------------------------------------------------
(* The admin SPA's copies. *)

AdminBoot == BootRefreshArrives \/ BootMeArrives

AdminLoginArrives(u) == LoginArrives(u)

(* /auth/me answers.  Of somebody who is no admin the store learns         *)
(* nothing; the cookie of that login stays.                                *)
AdminLoginMeArrives(f) ==
    /\ login[f] # Null
    /\ login' = [login EXCEPT ![f] = Null]
    /\ \/ login[f] \in Admin /\ setState(login[f])
       \/ login[f] \notin Admin /\ UNCHANGED <<store, signedOut>>
       \/ clear /\ UNCHANGED <<isLoggingOut, signedOut>>
       \/ UNCHANGED <<store, signedOut>>
    /\ UNCHANGED <<cookie, boot, inFlightRefresh, sentAs, call, logout, crossed>>

AdminCallSend(c) == MaySeePages /\ CallSend(c)

AdminCallAnswered(c) == CallAnswered(c)

AdminRefreshAnswered(r) == RefreshAnswered(r)

(* AdminLayout.handleLogout. *)
AdminLogoutClick(l) == MaySeePages /\ LogoutClick(l)

AdminLogoutAnswered(l) == LogoutArrives(l) \/ LogoutFails(l)

InAdmin ==
    \/ AdminBoot \/ Reload
    \/ \E u \in User : AdminLoginArrives(u)
    \/ \E f \in Form : AdminLoginMeArrives(f)
    \/ \E c \in Call : AdminCallSend(c) \/ AdminCallAnswered(c)
    \/ \E r \in Flight : AdminRefreshAnswered(r)
    \/ \E l \in Logout : AdminLogoutClick(l) \/ AdminLogoutAnswered(l)

(* The user opens the other SPA in the tab, which starts it. *)
OpenOther ==
    /\ Reload
    /\ app' = IF app = "web" THEN "admin" ELSE "web"

BrowserNext ==
    \/ app = "web" /\ Next /\ UNCHANGED app
    \/ app = "admin" /\ InAdmin /\ UNCHANGED app
    \/ OpenOther

BrowserSpec == BrowserInit /\ [][BrowserNext]_browserVars

FairBrowserSpec ==
    /\ BrowserSpec
    /\ \A c \in Call : WF_browserVars(CallAnswered(c) /\ UNCHANGED app)
    /\ \A r \in Flight : WF_browserVars(RefreshAnswered(r) /\ UNCHANGED app)
=============================================================================
