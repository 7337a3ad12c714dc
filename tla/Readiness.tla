------------------------------ MODULE Readiness -------------------------------
(***************************************************************************)
(* GET /health/ready (HealthController): a ping of Postgres against a      *)
(* deadline, beside one of Redis that needs nothing from the pool.  The    *)
(* ping of Postgres is a query like any other and takes its place in the   *)
(* queue.  Its deadline ends the answer, with 503, not the query: an       *)
(* overdue ping stays in the queue and runs when its turn comes.           *)
(***************************************************************************)
EXTENDS ConnectionPool

CONSTANT Probe    \* readiness requests that can be underway

ASSUME ProbeAssumption == Probe \subseteq Request

VARIABLE ping     \* probe -> "none", "awaited" or "overdue" (answered 503)

ReadinessInit == ping = [p \in Probe |-> "none"]

Ready(p) ==
    /\ ping[p] = "none"
    /\ Ask(p, "query", LastRow)
    /\ ping' = [ping EXCEPT ![p] = "awaited"]

(* In time the answer is 200, or 503 if the query failed or Redis did not  *)
(* answer; nobody hears of an overdue ping.                                *)
PingEnds(p) ==
    /\ Return(p) \/ Fail(p)
    /\ ping' = [ping EXCEPT ![p] = "none"]

(* A mutant: the deadline is the query's, not the answer's. *)
BugDeadlineFromConnect(p) ==
    /\ ping[p] = "awaited" /\ stage[p] = "query"
    /\ ping' = [ping EXCEPT ![p] = "overdue"]
    /\ UNCHANGED poolVars

(* DB_PING_TIMEOUT_MS. *)
PingTimesOut(p) ==
    /\ ping[p] = "awaited"
    /\ ping' = [ping EXCEPT ![p] = "overdue"]
    /\ UNCHANGED poolVars

PingConnects(p) ==
    /\ Connect(p)
    /\ UNCHANGED ping

ReadinessNext ==
    \E p \in Probe : Ready(p) \/ PingConnects(p) \/ PingEnds(p) \/ PingTimesOut(p)

ReadinessCrash == ping' = [p \in Probe |-> "none"]

(* Every variable has its type. *)
ReadinessTypeOK == ping \in [Probe -> {"none", "awaited", "overdue"}]
=============================================================================
