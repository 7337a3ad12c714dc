-------------------------------- MODULE Server --------------------------------
(***************************************************************************)
(* One backend process: the handlers of Credentials, the transactions of   *)
(* the other modules and the readiness probe share one pool.               *)
(***************************************************************************)
EXTENDS Credentials, Readiness

ASSUME ServerAssumption ==
    /\ Request = Client \union Task \union Probe
    /\ Probe \intersect (Client \union Task) = {}

vars == <<poolVars, credentialVars, ping>>

ServerInit == Init /\ CredentialsInit /\ ReadinessInit

ServerNext ==
    \/ CredentialsNext /\ UNCHANGED ping
    \/ ReadinessNext /\ UNCHANGED credentialVars
    \/ Crash /\ CredentialsCrash /\ ReadinessCrash

(* Every query and computation ends, Postgres serves row locks in turn,   *)
(* the deadline's timer fires and the orchestrator keeps probing.          *)
Proceeds(r) ==
    /\ \/ Queries(r) \/ Served(r)
       \/ r \in Client /\ Answers(r)
       \/ r \in Task /\ Rehashed(r)
    /\ UNCHANGED ping

Pings(p) ==
    /\ PingConnects(p) \/ PingEnds(p)
    /\ UNCHANGED credentialVars

Fairness ==
    /\ \A r \in Client \union Task :
        /\ WF_vars(Proceeds(r))
        /\ SF_vars(Locks(r) /\ UNCHANGED ping)
    /\ \A p \in Probe :
        /\ WF_vars(Pings(p))
        /\ WF_vars((Ready(p) \/ PingTimesOut(p)) /\ UNCHANGED credentialVars)

ServerSpec == ServerInit /\ [][ServerNext]_vars /\ Fairness

-----------------------------------------------------------------------------
(* Correctness. *)

(* Every variable has its type. *)
ServerTypeOK == PoolTypeOK /\ CredentialsTypeOK /\ ReadinessTypeOK

(* As long as the transactions do not fill the pool for good, every        *)
(* request is answered and every re-hash ends.                             *)
EverybodyAnswered ==
    []<>Uncrowded =>
        \A r \in Client \union Task : job[r] # NoJob ~> job[r] = NoJob

(* Nothing in the process ends a wedge, but the readiness probe tells: it  *)
(* is answered 503, although Postgres is reachable, and the next one waits *)
(* in the same queue.                                                      *)
WedgeIsReported == Wedged ~> (\E p \in Probe : ping[p] = "overdue") \/ ~Wedged
=============================================================================
