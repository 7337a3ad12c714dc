--------------------------- MODULE InvitationEmail ---------------------------
(***************************************************************************)
(* The invitation-email queue: InvitationEmailProcessor run by BullMQ      *)
(* workers.  The processor reads email_sent_at, sends, and marks the       *)
(* invitation, three steps with awaits between them.  BullMQ hands a job   *)
(* to one worker at a time as long as that worker renews its lock; a job   *)
(* whose lock expired goes back to the queue although the worker that had  *)
(* it may only be slow.                                                    *)
(*                                                                         *)
(* A job is its invitation (the jobId is derived from it) and is added     *)
(* once, by the purchase's commit.  The invitation's row exists whenever   *)
(* its job does (Purchases!JobsAreCommitted) and is never deleted, so the  *)
(* processor's answer to a missing row is left out.                        *)
(***************************************************************************)
EXTENDS Naturals

CONSTANTS
    Invitation,
    Worker,       \* concurrency slots of the worker
    MaxAttempts,  \* attempts, INVITATION_EMAIL_ATTEMPTS
    MaxStalled,   \* maxStalledCount
    MaxFailures,  \* bound: failed attempts, an operator's retries included
    Null

ASSUME BoundAssumption ==
    /\ MaxAttempts \in Nat \ {0}
    /\ MaxStalled \in Nat
    /\ MaxFailures \in Nat /\ MaxFailures >= MaxAttempts

ASSUME NullAssumption == Null \notin Worker \union Invitation

VARIABLES
    job,      \* invitation -> [state, owner, failures, stalls]
    sentAt,   \* invitations whose email_sent_at is set
    sends,    \* invitation -> how often the email went out
    pc, doing, \* worker slot: its stage and the job it has
    \* Kept for the properties only: no guard reads it.
    unrecorded \* invitation -> attempts that ended with email_sent_at unset

vars == <<job, sentAt, sends, pc, doing, unrecorded>>

Init ==
    /\ job = [i \in Invitation |->
                [state |-> "none", owner |-> Null, failures |-> 0, stalls |-> 0]]
    /\ sentAt = {}
    /\ sends = [i \in Invitation |-> 0]
    /\ pc = [w \in Worker |-> "idle"]
    /\ doing = [w \in Worker |-> Null]
    /\ unrecorded = [i \in Invitation |-> 0]

GoTo(w, stage) == pc' = [pc EXCEPT ![w] = stage]

Drop(w) ==
    /\ GoTo(w, "idle")
    /\ doing' = [doing EXCEPT ![w] = Null]

Owns(w) == job[doing[w]].owner = w

(* An attempt at the job ends without having completed it: counted unless  *)
(* the invitation is marked by now.                                        *)
AttemptEnds(i) ==
    unrecorded' = IF i \in sentAt' THEN unrecorded ELSE [unrecorded EXCEPT ![i] = @ + 1]

-----------------------------------------------------------------------------
(* The queue. *)

(* enqueueInvitationEmail. *)
Enqueue(i) ==
    /\ job[i].state = "none"
    /\ job' = [job EXCEPT ![i].state = "waiting"]
    /\ UNCHANGED <<sentAt, sends, pc, doing, unrecorded>>

(* A free slot takes a job and its lock. *)
Take(w, i) ==
    /\ pc[w] = "idle"
    /\ job[i].state = "waiting"
    /\ job' = [job EXCEPT ![i].state = "active", ![i].owner = w]
    /\ GoTo(w, "load")
    /\ doing' = [doing EXCEPT ![w] = i]
    /\ UNCHANGED <<sentAt, sends, unrecorded>>

(* The lock of an active job expired and the stalled-jobs check finds it:  *)
(* back to the queue, or failed once it has stalled more than MaxStalled.  *)
Stalled(i) ==
    /\ job[i].state = "active"
    /\ job' = [job EXCEPT
                 ![i].owner = Null,
                 ![i].stalls = IF @ < MaxStalled + 1 THEN @ + 1 ELSE @,
                 ![i].state = IF job[i].stalls < MaxStalled THEN "waiting" ELSE "failed"]
    /\ UNCHANGED <<sentAt, sends, pc, doing>>
    /\ AttemptEnds(i)

(* A mutant: only jobs with attempts left are woken. *)
BugBackoffOver(i) ==
    /\ job[i].state = "delayed"
    /\ job[i].failures < MaxAttempts - 1
    /\ job' = [job EXCEPT ![i].state = "waiting"]
    /\ UNCHANGED <<sentAt, sends, pc, doing, unrecorded>>

(* The exponential backoff of a failed attempt is over. *)
BackoffOver(i) ==
    /\ job[i].state = "delayed"
    /\ job' = [job EXCEPT ![i].state = "waiting"]
    /\ UNCHANGED <<sentAt, sends, pc, doing, unrecorded>>

(* An operator retries a failed job on the Bull Board (bound: not one that *)
(* stalled too often, and MaxFailures).                                    *)
OperatorRetries(i) ==
    /\ job[i].state = "failed"
    /\ job[i].failures < MaxFailures
    /\ job[i].stalls <= MaxStalled
    /\ job' = [job EXCEPT ![i].state = "waiting"]
    /\ UNCHANGED <<sentAt, sends, pc, doing, unrecorded>>

-----------------------------------------------------------------------------
(* InvitationEmailProcessor.process. *)

(* A mutant: email_sent_at is not looked at before the send. *)
BugLoadUnchecked(w) ==
    /\ pc[w] = "load"
    /\ GoTo(w, "send")
    /\ UNCHANGED <<job, sentAt, sends, doing, unrecorded>>

(* The invitation is read; one that is already marked is skipped.          *)
Load(w) ==
    /\ pc[w] = "load"
    /\ GoTo(w, IF doing[w] \in sentAt THEN "return" ELSE "send")
    /\ UNCHANGED <<job, sentAt, sends, doing, unrecorded>>

(* A mutant: the job returns before it has sent anything. *)
BugSendSkipped(w) ==
    /\ pc[w] = "send"
    /\ GoTo(w, "return")
    /\ UNCHANGED <<job, sentAt, sends, doing, unrecorded>>

(* The email goes out (a log line in this version). *)
Send(w) ==
    /\ pc[w] = "send"
    /\ sends' = [sends EXCEPT ![doing[w]] = @ + 1]
    /\ GoTo(w, "mark")
    /\ UNCHANGED <<job, sentAt, doing, unrecorded>>

(* markEmailSent; zero affected rows are no error. *)
Mark(w) ==
    /\ pc[w] = "mark"
    /\ sentAt' = sentAt \union {doing[w]}
    /\ GoTo(w, "return")
    /\ UNCHANGED <<job, sends, doing, unrecorded>>

(* A mutant: a completed job keeps its lock. *)
BugReturnKeepsLock(w) ==
    /\ pc[w] = "return"
    /\ job' = IF Owns(w) THEN [job EXCEPT ![doing[w]].state = "completed"] ELSE job
    /\ Drop(w)
    /\ UNCHANGED <<sentAt, sends, unrecorded>>

(* process returns; a worker that lost its lock cannot complete the job. *)
Return(w) ==
    /\ pc[w] = "return"
    /\ job' = IF Owns(w)
                THEN [job EXCEPT ![doing[w]].state = "completed", ![doing[w]].owner = Null]
                ELSE job
    /\ Drop(w)
    /\ UNCHANGED <<sentAt, sends, unrecorded>>

(* process throws: another attempt after the backoff, or the job has       *)
(* failed.  A worker that lost its lock changes nothing: its attempt ended *)
(* with the stall.                                                         *)
FailAttempt(w) ==
    LET i == doing[w] IN
    /\ Drop(w)
    /\ IF Owns(w)
         THEN /\ job' = [job EXCEPT
                           ![i].owner = Null,
                           ![i].failures = @ + 1,
                           ![i].state = IF job[i].failures + 1 < MaxAttempts
                                          THEN "delayed" ELSE "failed"]
              /\ AttemptEnds(i)
         ELSE UNCHANGED <<job, unrecorded>>
    /\ UNCHANGED sends

(* The read or the UPDATE fails.                                           *)
Throw(w) ==
    /\ pc[w] \in {"load", "mark"}
    /\ UNCHANGED sentAt
    /\ FailAttempt(w)

(* The UPDATE, a transaction of its own, commits and its answer is lost.   *)
MarkAnswerLost(w) ==
    /\ pc[w] = "mark"
    /\ sentAt' = sentAt \union {doing[w]}
    /\ FailAttempt(w)

(* The process dies with its workers; Redis keeps the jobs active. *)
Crash ==
    /\ \E w \in Worker : pc[w] # "idle"
    /\ pc' = [w \in Worker |-> "idle"]
    /\ doing' = [w \in Worker |-> Null]
    /\ UNCHANGED <<job, sentAt, sends, unrecorded>>

-----------------------------------------------------------------------------
Process(w) == Load(w) \/ Send(w) \/ Mark(w) \/ Return(w)

Next ==
    \/ \E i \in Invitation :
          \/ Enqueue(i) \/ Stalled(i) \/ BackoffOver(i) \/ OperatorRetries(i)
          \/ \E w \in Worker : Take(w, i)
    \/ \E w \in Worker : Process(w) \/ Throw(w) \/ MarkAnswerLost(w)
    \/ Crash

Spec == Init /\ [][Next]_vars

(* Workers run, a free one takes a waiting job, delays end, and the        *)
(* stalled-jobs check runs on its interval.                                *)
FairSpec ==
    /\ Spec
    /\ \A w \in Worker : WF_vars(Process(w))
    /\ \A i \in Invitation : /\ WF_vars(\E w \in Worker : Take(w, i))
                             /\ WF_vars(BackoffOver(i)) /\ WF_vars(Stalled(i))

-----------------------------------------------------------------------------
(* Correctness. *)

(* Every variable has its type, a job is locked exactly while it is        *)
(* active, and a slot is busy exactly while it has a job.                  *)
TypeOK ==
    /\ job \in [Invitation ->
           [state : {"none", "waiting", "active", "delayed", "completed", "failed"},
            owner : Worker \union {Null},
            failures : 0..MaxFailures, stalls : 0..(MaxStalled + 1)]]
    /\ \A i \in Invitation : job[i].owner # Null <=> job[i].state = "active"
    /\ sentAt \subseteq Invitation
    /\ sends \in [Invitation -> Nat]
    /\ pc \in [Worker -> {"idle", "load", "send", "mark", "return"}]
    /\ doing \in [Worker -> Invitation \union {Null}]
    /\ \A w \in Worker : pc[w] = "idle" <=> doing[w] = Null
    /\ unrecorded \in [Invitation -> Nat]

(* A job that is completed has delivered its email, and an invitation that *)
(* is marked was sent: no crash, retry or skip loses an email silently.    *)
CompletedMeansDelivered ==
    \A i \in Invitation :
        /\ job[i].state = "completed" => i \in sentAt
        /\ i \in sentAt => sends[i] > 0

(* Once email_sent_at is set the email is not sent for any new reason: a   *)
(* further email is the price of an attempt that ended, by a stall, a      *)
(* crash or a failed UPDATE, before the mark was there.  An UPDATE whose   *)
(* answer was lost, a completion lost with its lock, a stall or an         *)
(* operator's retry after the mark cost nothing.  The stronger             *)
(* sends[i] <= 1, "the email was sent exactly once" of the comment at      *)
(* InvitationEmailProcessor.ts:74-75, is false.                            *)
DuplicatesExplained ==
    \A i \in Invitation : sends[i] <= 1 + unrecorded[i]

(* Every job ends, delivered or visibly failed, despite crashes.           *)
EveryJobSettles ==
    \A i \in Invitation :
        job[i].state # "none" ~> job[i].state \in {"completed", "failed"}
=============================================================================
