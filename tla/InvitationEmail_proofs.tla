------------------------ MODULE InvitationEmail_proofs ------------------------
(***************************************************************************)
(* For any number of jobs and workers and any bounds on attempts and       *)
(* stalls: the safety properties of InvitationEmail.                       *)
(*                                                                         *)
(* DuplicatesExplained is not inductive: a worker that has found its       *)
(* invitation unmarked will send whatever happens to the job meanwhile.    *)
(* BudgetInv counts the workers that still may send with the emails sent.  *)
(* Before the mark an attempt is owed only while a worker owns the job;    *)
(* after it none is, because a worker that then loads its job returns:     *)
(* here, and nowhere else, the check of email_sent_at is needed.           *)
(***************************************************************************)
EXTENDS InvitationEmail, FiniteSetTheorems, TLAPS

JobRecord == [state : {"none", "waiting", "active", "delayed", "completed", "failed"},
              owner : Worker \union {Null},
              failures : 0..MaxFailures, stalls : 0..(MaxStalled + 1)]

(* A job that may run again is within its bounds. *)
RetriesLeft == \A i \in Invitation :
    /\ job[i].state \notin {"failed", "completed"} => job[i].failures < MaxFailures
    /\ job[i].state # "failed" => job[i].stalls <= MaxStalled

(* What a worker past its send, or its skip, knows of its email. *)
WorkersKnow == \A w \in Worker :
    /\ pc[w] = "mark" => sends[doing[w]] > 0
    /\ pc[w] = "return" => doing[w] \in sentAt

(* The workers that have not yet sent and still may. *)
MaySend(i) == {w \in Worker : /\ doing[w] = i
                              /\ pc[w] = "send" \/ (pc[w] = "load" /\ i \notin sentAt)}

(* The one email that no ended attempt pays for. *)
Owed(i) == IF i \in sentAt \/ job[i].state = "active" THEN 1 ELSE 0

BudgetInv == \A i \in Invitation :
    /\ IsFiniteSet(MaySend(i))
    /\ sends[i] + Cardinality(MaySend(i)) <= unrecorded[i] + Owed(i)

IInv == TypeOK /\ RetriesLeft /\ WorkersKnow /\ CompletedMeansDelivered /\ BudgetInv

-----------------------------------------------------------------------------
USE BoundAssumption, NullAssumption

(* One job takes these values and the others keep theirs.                  *)
JobBecomes(i, state, owner, failures, stalls) ==
    /\ i \in Invitation
    /\ job' \in [Invitation -> JobRecord]
    /\ job'[i].state = state /\ job'[i].owner = owner
    /\ job'[i].failures = failures /\ job'[i].stalls = stalls
    /\ \A j \in Invitation : j # i => job'[j] = job[j]

(* One worker moves to a stage, with a job or without. *)
WorkerBecomes(w, stage, i) ==
    /\ pc' \in [Worker -> {"idle", "load", "send", "mark", "return"}]
    /\ doing' \in [Worker -> Invitation \union {Null}]
    /\ pc'[w] = stage /\ doing'[w] = i
    /\ \A v \in Worker : v # w => pc'[v] = pc[v] /\ doing'[v] = doing[v]

LEMMA JobTyped ==
    ASSUME TypeOK, NEW i \in Invitation
    PROVE  /\ job \in [Invitation -> JobRecord] /\ job[i] \in JobRecord
           /\ job[i].state \in {"none", "waiting", "active", "delayed", "completed", "failed"}
           /\ job[i].owner \in Worker \union {Null}
           /\ job[i].failures \in 0..MaxFailures /\ job[i].stalls \in 0..(MaxStalled + 1)
  BY DEF TypeOK, JobRecord

LEMMA QueueMoves ==
    ASSUME TypeOK, RetriesLeft, NEW i \in Invitation
    PROVE  /\ Enqueue(i) \/ BackoffOver(i) \/ OperatorRetries(i) =>
                JobBecomes(i, "waiting", job[i].owner, job[i].failures, job[i].stalls)
           /\ \A w \in Worker : Take(w, i) =>
                JobBecomes(i, "active", w, job[i].failures, job[i].stalls)
           /\ Stalled(i) =>
                JobBecomes(i, IF job[i].stalls < MaxStalled THEN "waiting" ELSE "failed",
                           Null, job[i].failures, job[i].stalls + 1)
<1>1. /\ job \in [Invitation -> JobRecord] /\ job[i] \in JobRecord
      /\ job[i].state = "active" => job[i].stalls <= MaxStalled
  BY JobTyped DEF RetriesLeft
<1>2. Enqueue(i) \/ BackoffOver(i) \/ OperatorRetries(i) => job' = [job EXCEPT ![i].state = "waiting"]
  BY DEF Enqueue, BackoffOver, OperatorRetries
<1>3. job' = [job EXCEPT ![i].state = "waiting"] =>
        JobBecomes(i, "waiting", job[i].owner, job[i].failures, job[i].stalls)
  BY <1>1 DEF JobBecomes, JobRecord
<1>4. ASSUME NEW w \in Worker, Take(w, i)
      PROVE  JobBecomes(i, "active", w, job[i].failures, job[i].stalls)
  BY <1>1, <1>4 DEF Take, JobBecomes, JobRecord
<1>5. ASSUME Stalled(i)
      PROVE  JobBecomes(i, IF job[i].stalls < MaxStalled THEN "waiting" ELSE "failed",
                        Null, job[i].failures, job[i].stalls + 1)
  BY <1>1, <1>5 DEF Stalled, JobBecomes, JobRecord
<1>6. QED
  BY <1>2, <1>3, <1>4, <1>5

LEMMA WorkerJob ==
    ASSUME TypeOK, NEW w \in Worker, pc[w] # "idle"
    PROVE  /\ doing[w] \in Invitation
           /\ Owns(w) => job[doing[w]].state = "active"
  BY DEF TypeOK, Owns

LEMMA WorkerMoves ==
    ASSUME TypeOK, RetriesLeft, NEW w \in Worker, pc[w] # "idle"
    PROVE  /\ Return(w) => IF Owns(w)
                THEN JobBecomes(doing[w], "completed", Null, job[doing[w]].failures,
                                job[doing[w]].stalls)
                ELSE job' = job
           /\ FailAttempt(w) => IF Owns(w)
                THEN JobBecomes(doing[w], IF job[doing[w]].failures + 1 < MaxAttempts
                                          THEN "delayed" ELSE "failed",
                                Null, job[doing[w]].failures + 1, job[doing[w]].stalls)
                ELSE job' = job
<1> DEFINE i == doing[w]
<1>1. /\ i \in Invitation /\ job \in [Invitation -> JobRecord] /\ job[i] \in JobRecord
      /\ Owns(w) => job[i].failures < MaxFailures
  BY JobTyped, WorkerJob DEF RetriesLeft
<1>2. Return(w) /\ Owns(w) => job' = [job EXCEPT ![i].state = "completed", ![i].owner = Null]
  BY DEF Return
<1>3. FailAttempt(w) /\ Owns(w) =>
        job' = [job EXCEPT ![i].owner = Null,
                           ![i].failures = @ + 1,
                           ![i].state = IF job[i].failures + 1 < MaxAttempts
                                        THEN "delayed" ELSE "failed"]
  BY DEF FailAttempt
<1>4. (Return(w) \/ FailAttempt(w)) /\ ~Owns(w) => job' = job
  BY DEF Return, FailAttempt
<1> HIDE DEF i
<1>5. job' = [job EXCEPT ![i].state = "completed", ![i].owner = Null] =>
        JobBecomes(i, "completed", Null, job[i].failures, job[i].stalls)
  <2> HAVE job' = [job EXCEPT ![i].state = "completed", ![i].owner = Null]
  <2>1. job'[i] = [job[i] EXCEPT !.state = "completed", !.owner = Null]
    BY <1>1
  <2>2. /\ job'[i].state = "completed" /\ job'[i].owner = Null
        /\ job'[i].failures = job[i].failures /\ job'[i].stalls = job[i].stalls
        /\ job'[i] \in JobRecord
    BY <1>1, <2>1 DEF JobRecord
  <2>3. QED
    BY <1>1, <2>2 DEF JobBecomes
<1>6. ASSUME Owns(w), NEW s \in {"delayed", "failed"},
             job' = [job EXCEPT ![i].owner = Null, ![i].failures = @ + 1, ![i].state = s]
      PROVE  JobBecomes(i, s, Null, job[i].failures + 1, job[i].stalls)
  <2>1. job[i].failures + 1 \in 0..MaxFailures
    BY <1>1, <1>6 DEF JobRecord
  <2>2. job'[i] = [job[i] EXCEPT !.owner = Null, !.failures = @ + 1, !.state = s]
    BY <1>1, <1>6
  <2>3. /\ job'[i].state = s /\ job'[i].owner = Null
        /\ job'[i].failures = job[i].failures + 1 /\ job'[i].stalls = job[i].stalls
        /\ job'[i] \in JobRecord
    BY <1>1, <2>1, <2>2 DEF JobRecord
  <2>4. QED
    BY <1>1, <1>6, <2>3 DEF JobBecomes
<1>7. QED
  BY <1>2, <1>3, <1>4, <1>5, <1>6 DEF i

LEMMA WorkerSteps ==
    ASSUME TypeOK, NEW w \in Worker
    PROVE  /\ \A i \in Invitation : Take(w, i) => WorkerBecomes(w, "load", i)
           /\ Load(w) => WorkerBecomes(w, IF doing[w] \in sentAt THEN "return" ELSE "send", doing[w])
           /\ Send(w) => WorkerBecomes(w, "mark", doing[w])
           /\ Mark(w) => WorkerBecomes(w, "return", doing[w])
           /\ Return(w) \/ FailAttempt(w) => WorkerBecomes(w, "idle", Null)
<1>1. Return(w) \/ FailAttempt(w) => Drop(w)
  BY DEF Return, FailAttempt
<1>2. Drop(w) => WorkerBecomes(w, "idle", Null)
  BY DEF TypeOK, WorkerBecomes, Drop, GoTo
<1>3. QED
  BY <1>1, <1>2 DEF TypeOK, WorkerBecomes, Take, Load, Send, Mark, GoTo

(* How an attempt that ends is counted. *)
LEMMA AttemptCounted ==
    ASSUME TypeOK, NEW i \in Invitation, AttemptEnds(i)
    PROVE  /\ unrecorded' \in [Invitation -> Nat]
           /\ \A j \in Invitation : j # i => unrecorded'[j] = unrecorded[j]
           /\ \/ i \in sentAt' /\ unrecorded'[i] = unrecorded[i]
              \/ unrecorded'[i] = unrecorded[i] + 1
  BY DEF TypeOK, AttemptEnds

LEMMA FailureSteps ==
    ASSUME TypeOK, NEW w \in Worker, Throw(w) \/ MarkAnswerLost(w)
    PROVE  /\ FailAttempt(w) /\ UNCHANGED sends /\ pc[w] # "idle" /\ doing[w] \in Invitation
           /\ sentAt' = sentAt \/ (pc[w] = "mark" /\ sentAt' = sentAt \union {doing[w]})
           /\ IF Owns(w) THEN AttemptEnds(doing[w]) ELSE UNCHANGED unrecorded
<1>1. FailAttempt(w) /\ pc[w] \in {"load", "mark"}
  BY DEF Throw, MarkAnswerLost
<1>2. sentAt' = sentAt \/ (pc[w] = "mark" /\ sentAt' = sentAt \union {doing[w]})
  BY DEF Throw, MarkAnswerLost
<1>3. UNCHANGED sends /\ IF Owns(w) THEN AttemptEnds(doing[w]) ELSE UNCHANGED unrecorded
  BY <1>1 DEF FailAttempt
<1>4. QED
  BY <1>1, <1>2, <1>3, WorkerJob

LEMMA TypeStep == IInv /\ [Next]_vars => TypeOK' /\ RetriesLeft'
<1> SUFFICES ASSUME IInv, [Next]_vars PROVE TypeOK' /\ RetriesLeft'
  OBVIOUS
<1>0. TypeOK /\ RetriesLeft
  BY DEF IInv
<1> USE <1>0
<1> DEFINE JobOK == /\ job' \in [Invitation -> JobRecord]
                    /\ \A i \in Invitation : job'[i].owner # Null <=> job'[i].state = "active"
                    /\ RetriesLeft'
           WorkerOK == /\ pc' \in [Worker -> {"idle", "load", "send", "mark", "return"}]
                       /\ doing' \in [Worker -> Invitation \union {Null}]
                       /\ \A w \in Worker : pc'[w] = "idle" <=> doing'[w] = Null
           CountOK == unrecorded' \in [Invitation -> Nat]
<1>1. /\ UNCHANGED job => JobOK
      /\ UNCHANGED <<pc, doing>> => WorkerOK
      /\ UNCHANGED unrecorded => CountOK
  BY DEF TypeOK, RetriesLeft, JobRecord
<1>2. ASSUME NEW i, NEW s, NEW o, NEW f, NEW t, JobBecomes(i, s, o, f, t),
             o # Null <=> s = "active",
             s \notin {"failed", "completed"} => f < MaxFailures,
             s # "failed" => t <= MaxStalled
      PROVE  JobOK
  BY <1>2 DEF JobBecomes, TypeOK, RetriesLeft
<1>3. ASSUME NEW w \in Worker, NEW s, NEW i, WorkerBecomes(w, s, i), s = "idle" <=> i = Null
      PROVE  WorkerOK
  BY <1>3 DEF WorkerBecomes, TypeOK
<1>4. ASSUME NEW i \in Invitation, Enqueue(i) \/ BackoffOver(i) \/ OperatorRetries(i) \/ Stalled(i)
      PROVE  JobOK /\ UNCHANGED <<sentAt, sends, pc, doing>> /\ CountOK
  <2>1. UNCHANGED <<sentAt, sends, pc, doing>> /\ CountOK
    BY <1>4, <1>1, AttemptCounted DEF Enqueue, BackoffOver, OperatorRetries, Stalled
  <2>2. ASSUME Enqueue(i) \/ BackoffOver(i) \/ OperatorRetries(i) PROVE JobOK
    <3>1. /\ job[i].state \in {"none", "delayed", "failed"}
          /\ job[i].failures < MaxFailures /\ job[i].stalls <= MaxStalled
      BY <2>2 DEF Enqueue, BackoffOver, OperatorRetries, RetriesLeft
    <3>2. job[i].owner = Null
      BY <3>1 DEF TypeOK
    <3>3. QED
      BY <1>2, <2>2, <3>1, <3>2, QueueMoves
  <2>3. ASSUME Stalled(i) PROVE JobOK
    <3>1. job[i].state = "active" /\ job[i].failures < MaxFailures /\ job[i].stalls \in Nat
      BY <2>3, JobTyped DEF Stalled, RetriesLeft
    <3>2. QED
      BY <1>2, <2>3, <3>1, QueueMoves
  <2>4. QED
    BY <1>4, <2>1, <2>2, <2>3
<1>5. ASSUME NEW w \in Worker, NEW i \in Invitation, Take(w, i)
      PROVE  JobOK /\ WorkerOK /\ UNCHANGED <<sentAt, sends, unrecorded>>
  <2>1. /\ job[i].state = "waiting" /\ job[i].failures < MaxFailures
        /\ job[i].stalls <= MaxStalled /\ UNCHANGED <<sentAt, sends, unrecorded>>
    BY <1>5 DEF Take, RetriesLeft
  <2>2. w # Null /\ i # Null
    OBVIOUS
  <2>3. JobOK
    BY <1>2, <1>5, <2>1, <2>2, QueueMoves
  <2>4. WorkerOK
    BY <1>3, <1>5, <2>2, WorkerSteps
  <2>5. QED
    BY <2>1, <2>3, <2>4
<1>6. ASSUME NEW w \in Worker, Load(w) \/ Send(w) \/ Mark(w)
      PROVE  /\ UNCHANGED <<job, unrecorded>> /\ WorkerOK
             /\ sentAt' \subseteq Invitation /\ sends' \in [Invitation -> Nat]
  <2>1. doing[w] \in Invitation /\ doing[w] # Null
    BY <1>6, WorkerJob DEF Load, Send, Mark
  <2>2. UNCHANGED <<job, unrecorded>> /\ sentAt' \subseteq Invitation /\ sends' \in [Invitation -> Nat]
    BY <1>6, <2>1 DEF Load, Send, Mark, TypeOK
  <2>3. WorkerOK
    BY <1>3, <1>6, <2>1, WorkerSteps
  <2>4. QED
    BY <2>2, <2>3
<1>7. ASSUME NEW w \in Worker, Return(w) \/ Throw(w) \/ MarkAnswerLost(w)
      PROVE  JobOK /\ WorkerOK /\ sentAt' \subseteq Invitation /\ UNCHANGED sends /\ CountOK
  <2>1. /\ pc[w] # "idle" /\ UNCHANGED sends /\ sentAt' \subseteq Invitation
        /\ Return(w) \/ FailAttempt(w)
    BY <1>7, FailureSteps DEF Return, TypeOK
  <2>2. WorkerOK
    BY <1>3, <2>1, WorkerSteps
  <2>3. CountOK
    BY <1>7, <1>1, FailureSteps, AttemptCounted DEF Return
  <2>4. CASE ~Owns(w)
    BY <1>1, <2>1, <2>2, <2>3, <2>4, WorkerMoves
  <2>5. CASE Owns(w)
    <3>1. /\ doing[w] \in Invitation /\ job[doing[w]].state = "active"
          /\ job[doing[w]].failures \in Nat /\ job[doing[w]].stalls <= MaxStalled
      BY <2>1, <2>5, WorkerJob, JobTyped DEF RetriesLeft
    <3>2. JobOK
      BY <1>2, <2>1, <2>5, <3>1, WorkerMoves
    <3>3. QED
      BY <2>1, <2>2, <2>3, <3>2
  <2>6. QED
    BY <2>4, <2>5
<1>8. Crash => UNCHANGED <<job, sentAt, sends, unrecorded>> /\ WorkerOK
  BY DEF Crash
<1>9. JobOK /\ WorkerOK /\ sentAt' \subseteq Invitation /\ sends' \in [Invitation -> Nat]
        /\ CountOK => TypeOK' /\ RetriesLeft'
  BY DEF TypeOK, JobRecord
<1>10. sentAt \subseteq Invitation /\ sends \in [Invitation -> Nat]
  BY DEF TypeOK
<1> HIDE DEF JobOK, WorkerOK, CountOK
<1>11. UNCHANGED vars => UNCHANGED <<job, sentAt, sends, pc, doing, unrecorded>>
  BY DEF vars
<1>12. QED
  BY <1>1, <1>4, <1>5, <1>6, <1>7, <1>8, <1>9, <1>10, <1>11 DEF Next, Process

LEMMA KnowStep == IInv /\ [Next]_vars => WorkersKnow' /\ CompletedMeansDelivered'
<1> SUFFICES ASSUME IInv, [Next]_vars PROVE WorkersKnow' /\ CompletedMeansDelivered'
  OBVIOUS
<1>0. TypeOK /\ RetriesLeft /\ WorkersKnow /\ CompletedMeansDelivered
  BY DEF IInv
<1> USE <1>0
<1> DEFINE Goal == WorkersKnow' /\ CompletedMeansDelivered'
<1>1. ASSUME \A i \in Invitation : job'[i].state = "completed" => job[i].state = "completed",
             UNCHANGED <<sentAt, sends>>,
             \A w \in Worker : pc'[w] \in {"mark", "return"} => pc'[w] = pc[w] /\ doing'[w] = doing[w]
      PROVE  Goal
  BY <1>1 DEF WorkersKnow, CompletedMeansDelivered
<1>2. ASSUME NEW i \in Invitation, Enqueue(i) \/ BackoffOver(i) \/ OperatorRetries(i) \/ Stalled(i)
      PROVE  Goal
  <2>1. UNCHANGED <<sentAt, sends, pc, doing>>
    BY <1>2 DEF Enqueue, BackoffOver, OperatorRetries, Stalled
  <2>2. \A j \in Invitation : job'[j].state = "completed" => job[j].state = "completed"
    BY <1>2, QueueMoves DEF JobBecomes
  <2>3. QED
    BY <1>1, <2>1, <2>2
<1>3. ASSUME NEW w \in Worker, NEW i \in Invitation, Take(w, i) PROVE Goal
  <2>1. UNCHANGED <<sentAt, sends>>
    BY <1>3 DEF Take
  <2>2. \A j \in Invitation : job'[j].state = "completed" => job[j].state = "completed"
    BY <1>3, QueueMoves DEF JobBecomes
  <2>3. \A v \in Worker : pc'[v] \in {"mark", "return"} => pc'[v] = pc[v] /\ doing'[v] = doing[v]
    BY <1>3, WorkerSteps DEF WorkerBecomes
  <2>4. QED
    BY <1>1, <2>1, <2>2, <2>3
<1>4. ASSUME NEW w \in Worker, Load(w) PROVE Goal
  <2>1. /\ UNCHANGED <<job, sentAt, sends>>
        /\ WorkerBecomes(w, IF doing[w] \in sentAt THEN "return" ELSE "send", doing[w])
    BY <1>4, WorkerSteps DEF Load
  <2>2. QED
    BY <2>1 DEF WorkersKnow, CompletedMeansDelivered, WorkerBecomes
<1>5. ASSUME NEW w \in Worker, Send(w) PROVE Goal
  <2>1. /\ UNCHANGED <<job, sentAt>> /\ WorkerBecomes(w, "mark", doing[w])
        /\ pc[w] # "idle" /\ sends' = [sends EXCEPT ![doing[w]] = @ + 1]
    BY <1>5, WorkerSteps DEF Send
  <2>2. doing[w] \in Invitation
    BY <2>1, WorkerJob
  <2>3. /\ \A i \in Invitation : sends[i] > 0 => sends'[i] > 0
        /\ sends'[doing[w]] > 0
    BY <2>1, <2>2 DEF TypeOK
  <2>4. \A v \in Worker : pc[v] = "mark" => doing[v] \in Invitation
    BY WorkerJob
  <2>5. QED
    BY <2>1, <2>3, <2>4 DEF WorkersKnow, CompletedMeansDelivered, WorkerBecomes
<1>6. ASSUME NEW w \in Worker, Mark(w) PROVE Goal
  <2>1. /\ UNCHANGED <<job, sends>> /\ WorkerBecomes(w, "return", doing[w])
        /\ sentAt' = sentAt \union {doing[w]} /\ sends[doing[w]] > 0
    BY <1>6, WorkerSteps DEF Mark, WorkersKnow
  <2>2. QED
    BY <2>1 DEF WorkersKnow, CompletedMeansDelivered, WorkerBecomes
<1>7. ASSUME NEW w \in Worker, Return(w) \/ Throw(w) \/ MarkAnswerLost(w) PROVE Goal
  <2>1. /\ UNCHANGED sends /\ WorkerBecomes(w, "idle", Null) /\ pc[w] # "idle"
        /\ Return(w) => doing[w] \in sentAt
        /\ Return(w) \/ FailAttempt(w)
    BY <1>7, WorkerSteps, FailureSteps DEF Return, WorkersKnow
  <2>2. sentAt' = sentAt \/ (sends[doing[w]] > 0 /\ sentAt' = sentAt \union {doing[w]})
    BY <1>7, FailureSteps DEF Return, WorkersKnow
  <2>3. \A j \in Invitation :
          job'[j].state = "completed" => job[j].state = "completed" \/ j \in sentAt
    BY <2>1, WorkerMoves DEF JobBecomes
  <2>4. QED
    BY <2>1, <2>2, <2>3 DEF WorkersKnow, CompletedMeansDelivered, WorkerBecomes
<1>8. Crash => Goal
  BY <1>1 DEF Crash
<1>9. UNCHANGED vars => Goal
  BY <1>1 DEF vars
<1>10. QED
  BY <1>2, <1>3, <1>4, <1>5, <1>6, <1>7, <1>8, <1>9 DEF Next, Process

Weight(i) == unrecorded[i] + Owed(i)

LEMMA BudgetStep == IInv /\ [Next]_vars => BudgetInv'
<1> SUFFICES ASSUME IInv, [Next]_vars PROVE BudgetInv'
  OBVIOUS
<1>0. TypeOK /\ RetriesLeft /\ WorkersKnow /\ BudgetInv
  BY DEF IInv
<1> USE <1>0
<1> DEFINE Goal(i) == /\ IsFiniteSet(MaySend(i)')
                      /\ sends'[i] + Cardinality(MaySend(i)') <= Weight(i)'
           Kept(i) == Weight(i)' \in Nat /\ Weight(i) <= Weight(i)'
<1>1. /\ \A i \in Invitation : Weight(i) \in Nat /\ sends[i] \in Nat /\ unrecorded[i] \in Nat
      /\ \A i \in Invitation : /\ IsFiniteSet(MaySend(i)) /\ Cardinality(MaySend(i)) \in Nat
                               /\ sends[i] + Cardinality(MaySend(i)) <= Weight(i)
  BY FS_CardinalityType DEF Weight, Owed, BudgetInv, TypeOK
<1>2. ASSUME NEW i \in Invitation, MaySend(i)' \subseteq MaySend(i), sends'[i] = sends[i], Kept(i)
      PROVE  Goal(i)
  <2>1. /\ IsFiniteSet(MaySend(i)') /\ Cardinality(MaySend(i)') \in Nat
        /\ Cardinality(MaySend(i)') <= Cardinality(MaySend(i))
    BY <1>1, <1>2, FS_Subset, FS_CardinalityType
  <2>2. QED
    BY <1>1, <1>2, <2>1
<1>3. ASSUME UNCHANGED <<job, unrecorded>>, sentAt \subseteq sentAt'
      PROVE  \A i \in Invitation : Kept(i)
  BY <1>1, <1>3 DEF Weight, Owed
(* One job changes: its email is still owed, or its attempt was counted.   *)
<1>4. ASSUME NEW i \in Invitation, sentAt \subseteq sentAt',
             \A j \in Invitation : j # i => job'[j] = job[j] /\ unrecorded'[j] = unrecorded[j],
             \/ /\ unrecorded'[i] = unrecorded[i]
                /\ i \in sentAt' \/ job[i].state # "active" \/ job'[i].state = "active"
             \/ unrecorded'[i] = unrecorded[i] + 1
      PROVE  \A j \in Invitation : Kept(j)
  <2>1. Kept(i)
    BY <1>1, <1>4 DEF Weight, Owed
  <2>2. \A j \in Invitation : j # i => Kept(j)
    BY <1>1, <1>4 DEF Weight, Owed
  <2>3. QED
    BY <2>1, <2>2
<1>5. ASSUME UNCHANGED <<pc, doing>>, sentAt \subseteq sentAt'
      PROVE  \A i \in Invitation : MaySend(i)' \subseteq MaySend(i)
  BY <1>5 DEF MaySend
<1>6. ASSUME NEW w \in Worker, NEW s, NEW i, WorkerBecomes(w, s, i), sentAt \subseteq sentAt',
             s # "load", s = "send" => pc[w] = "load" /\ doing[w] \notin sentAt /\ i = doing[w]
      PROVE  \A j \in Invitation : MaySend(j)' \subseteq MaySend(j)
  BY <1>6 DEF WorkerBecomes, MaySend
<1>7. ASSUME NEW i \in Invitation, Enqueue(i) \/ BackoffOver(i) \/ OperatorRetries(i) \/ Stalled(i)
      PROVE  \A j \in Invitation : Goal(j)
  <2>1. UNCHANGED <<sentAt, sends, pc, doing>>
    BY <1>7 DEF Enqueue, BackoffOver, OperatorRetries, Stalled
  <2>2. \A j \in Invitation : j # i => job'[j] = job[j]
    BY <1>7, QueueMoves DEF JobBecomes
  <2>3. CASE Stalled(i)
    <3>1. AttemptEnds(i)
      BY <2>3 DEF Stalled
    <3>2. \A j \in Invitation : Kept(j)
      BY <1>4, <2>1, <2>2, <3>1, AttemptCounted
    <3>3. QED
      BY <1>2, <1>5, <2>1, <3>2
  <2>4. CASE Enqueue(i) \/ BackoffOver(i) \/ OperatorRetries(i)
    <3>1. UNCHANGED unrecorded /\ job[i].state # "active"
      BY <2>4 DEF Enqueue, BackoffOver, OperatorRetries
    <3>2. \A j \in Invitation : Kept(j)
      BY <1>4, <2>1, <2>2, <3>1
    <3>3. QED
      BY <1>2, <1>5, <2>1, <3>2
  <2>5. QED
    BY <1>7, <2>3, <2>4
<1>8. ASSUME NEW w \in Worker, NEW i \in Invitation, Take(w, i)
      PROVE  \A j \in Invitation : Goal(j)
  <2>1. /\ UNCHANGED <<sentAt, sends, unrecorded>> /\ pc[w] = "idle" /\ job[i].state = "waiting"
        /\ WorkerBecomes(w, "load", i)
        /\ JobBecomes(i, "active", w, job[i].failures, job[i].stalls)
    BY <1>8, QueueMoves, WorkerSteps DEF Take
  <2>2. \A j \in Invitation : Kept(j)
    BY <1>4, <2>1 DEF JobBecomes
  <2>3. \A j \in Invitation : j # i => MaySend(j)' = MaySend(j)
    BY <2>1 DEF WorkerBecomes, MaySend
  <2>4. CASE i \in sentAt
    <3>1. MaySend(i)' \subseteq MaySend(i)
      BY <2>1, <2>4 DEF WorkerBecomes, MaySend
    <3>2. QED
      BY <1>2, <2>1, <2>2, <2>3, <3>1
  <2>5. CASE i \notin sentAt
    <3>1. w \notin MaySend(i) /\ MaySend(i)' = MaySend(i) \union {w}
      BY <2>1, <2>5 DEF WorkerBecomes, MaySend
    <3>2. IsFiniteSet(MaySend(i)') /\ Cardinality(MaySend(i)') = Cardinality(MaySend(i)) + 1
      BY <1>1, <3>1, FS_AddElement
    <3>3. Weight(i)' = Weight(i) + 1
      BY <1>1, <2>1, <2>5 DEF JobBecomes, Weight, Owed
    <3>4. Goal(i)
      BY <1>1, <2>1, <3>2, <3>3
    <3>5. ASSUME NEW j \in Invitation, j # i PROVE Goal(j)
      BY <1>2, <2>1, <2>2, <2>3, <3>5
    <3> HIDE DEF Goal
    <3>6. QED
      BY <3>4, <3>5
  <2>6. QED
    BY <2>4, <2>5
<1>9. ASSUME NEW w \in Worker, Load(w) \/ Mark(w)
      PROVE  \A j \in Invitation : Goal(j)
  <2>1. UNCHANGED <<job, sends, unrecorded>> /\ sentAt \subseteq sentAt'
    BY <1>9 DEF Load, Mark
  <2>2. \A j \in Invitation : MaySend(j)' \subseteq MaySend(j)
    <3>1. CASE Load(w) /\ doing[w] \in sentAt
      BY <1>6, <2>1, <3>1, WorkerSteps
    <3>2. CASE Load(w) /\ doing[w] \notin sentAt
      BY <1>6, <2>1, <3>2, WorkerSteps DEF Load
    <3>3. CASE Mark(w)
      BY <1>6, <2>1, <3>3, WorkerSteps
    <3>4. QED
      BY <1>9, <3>1, <3>2, <3>3
  <2>3. QED
    BY <1>2, <1>3, <2>1, <2>2
<1>10. ASSUME NEW w \in Worker, Return(w) \/ Throw(w) \/ MarkAnswerLost(w)
       PROVE  \A j \in Invitation : Goal(j)
  <2>1. /\ UNCHANGED sends /\ pc[w] # "idle" /\ sentAt \subseteq sentAt'
        /\ Return(w) \/ FailAttempt(w)
        /\ WorkerBecomes(w, "idle", Null)
    BY <1>10, FailureSteps, WorkerSteps DEF Return
  <2>2. \A j \in Invitation : MaySend(j)' \subseteq MaySend(j)
    BY <1>6, <2>1
  <2>3. doing[w] \in Invitation
    BY <2>1, WorkerJob
  <2>4. \A j \in Invitation : Kept(j)
    <3>1. CASE ~Owns(w)
      <4>1. UNCHANGED <<job, unrecorded>>
        BY <1>10, <2>1, <3>1, WorkerMoves, FailureSteps DEF Return
      <4>2. QED
        BY <1>3, <2>1, <4>1
    <3>2. CASE Owns(w)
      <4>1. \A j \in Invitation : j # doing[w] => job'[j] = job[j]
        BY <2>1, <3>2, WorkerMoves DEF JobBecomes
      <4>2. CASE Return(w)
        <5>1. UNCHANGED unrecorded /\ doing[w] \in sentAt'
          BY <2>1, <4>2 DEF Return, WorkersKnow
        <5>2. QED
          BY <1>4, <2>1, <2>3, <4>1, <5>1
      <4>3. CASE Throw(w) \/ MarkAnswerLost(w)
        <5>1. AttemptEnds(doing[w])
          BY <3>2, <4>3, FailureSteps
        <5>2. QED
          BY <1>4, <2>1, <2>3, <4>1, <5>1, AttemptCounted
      <4>4. QED
        BY <1>10, <4>2, <4>3
    <3>3. QED
      BY <3>1, <3>2
  <2>5. QED
    BY <1>2, <2>1, <2>2, <2>4
<1>11. ASSUME NEW w \in Worker, Send(w)
       PROVE  \A j \in Invitation : Goal(j)
  <2>1. /\ UNCHANGED <<job, sentAt, unrecorded>> /\ WorkerBecomes(w, "mark", doing[w])
        /\ pc[w] = "send" /\ sends' = [sends EXCEPT ![doing[w]] = @ + 1]
    BY <1>11, WorkerSteps DEF Send
  <2>2. doing[w] \in Invitation
    BY <2>1, WorkerJob
  <2>3. /\ w \in MaySend(doing[w]) /\ MaySend(doing[w])' = MaySend(doing[w]) \ {w}
        /\ \A j \in Invitation : j # doing[w] => MaySend(j)' = MaySend(j)
    BY <2>1 DEF WorkerBecomes, MaySend
  <2>4. /\ sends'[doing[w]] = sends[doing[w]] + 1
        /\ \A j \in Invitation : j # doing[w] => sends'[j] = sends[j]
    BY <2>1, <2>2 DEF TypeOK
  <2>5. Goal(doing[w])
    <3> DEFINE S == MaySend(doing[w])
               T == MaySend(doing[w])'
    <3>1. /\ IsFiniteSet(T) /\ Cardinality(T) = Cardinality(S) - 1
      BY <1>1, <2>2, <2>3, FS_RemoveElement
    <3>2. Weight(doing[w])' = Weight(doing[w])
      BY <2>1 DEF WorkerBecomes, Weight, Owed
    <3>3. QED
      BY <1>1, <2>2, <2>4, <3>1, <3>2
  <2>6. ASSUME NEW j \in Invitation, j # doing[w] PROVE Goal(j)
    BY <1>2, <1>3, <2>1, <2>3, <2>4, <2>6
  <2> HIDE DEF Goal
  <2>7. QED
    BY <2>5, <2>6
<1>12. Crash => \A j \in Invitation : Goal(j)
  <2> SUFFICES ASSUME Crash PROVE \A j \in Invitation : Goal(j)
    OBVIOUS
  <2>1. UNCHANGED <<job, sentAt, sends, unrecorded>>
    BY DEF Crash
  <2>2. \A j \in Invitation : MaySend(j)' \subseteq MaySend(j)
    BY DEF Crash, MaySend
  <2>3. QED
    BY <1>2, <1>3, <2>1, <2>2
<1>13. UNCHANGED vars => \A j \in Invitation : Goal(j)
  <2> SUFFICES ASSUME UNCHANGED vars PROVE \A j \in Invitation : Goal(j)
    OBVIOUS
  <2>1. UNCHANGED <<job, sentAt, sends, unrecorded, pc, doing>>
    BY DEF vars
  <2>2. QED
    BY <1>2, <1>3, <1>5, <2>1
<1>14. (\A j \in Invitation : Goal(j)) => BudgetInv'
  BY DEF BudgetInv, Weight
<1> HIDE DEF Goal
<1>15. QED
  BY <1>7, <1>8, <1>9, <1>10, <1>11, <1>12, <1>13, <1>14 DEF Next, Process

LEMMA Inductive == Spec => []IInv
<1>1. Init => IInv
  <2>1. Init => TypeOK /\ RetriesLeft /\ WorkersKnow /\ CompletedMeansDelivered
    BY DEF Init, TypeOK, RetriesLeft, WorkersKnow, CompletedMeansDelivered
  <2>2. ASSUME Init, NEW i \in Invitation PROVE MaySend(i) = {}
    BY <2>2 DEF Init, MaySend
  <2>3. ASSUME Init, NEW i \in Invitation
        PROVE  /\ sends[i] = 0 /\ unrecorded[i] = 0 /\ Owed(i) = 0
               /\ IsFiniteSet(MaySend(i)) /\ Cardinality(MaySend(i)) = 0
    BY <2>2, <2>3, FS_EmptySet DEF Init, Owed
  <2>4. QED
    BY <2>1, <2>3 DEF IInv, BudgetInv
<1>2. IInv /\ [Next]_vars => IInv'
  BY TypeStep, KnowStep, BudgetStep DEF IInv
<1>3. QED
  BY <1>1, <1>2, PTL DEF Spec

-----------------------------------------------------------------------------
(* A job is locked exactly while it is active and never outlives its       *)
(* bounds, in every interleaving of slow workers, the stalled-jobs check   *)
(* and the operator's retries.                                             *)
THEOREM TypeCorrect == Spec => []TypeOK
<1>1. IInv => TypeOK
  BY DEF IInv
<1>2. QED
  BY <1>1, Inductive, PTL

(* No email is lost silently: a job that InvitationEmailProcessor.process  *)
(* completed, after a send or after finding email_sent_at set, has sent    *)
(* its email, whatever crashed, stalled or was retried before.             *)
THEOREM NoEmailIsLost == Spec => []CompletedMeansDelivered
<1>1. IInv => CompletedMeansDelivered
  BY DEF IInv
<1>2. QED
  BY <1>1, Inductive, PTL

(* An invitation is emailed again only at the price of an attempt that     *)
(* ended with email_sent_at unset.  However workers overlap on one job,    *)
(* and whatever is crashed, stalled, answered too late or retried once the *)
(* processor has marked the invitation, nobody who takes the job after the *)
(* mark sends: the check at the head of process sees to it.                *)
THEOREM DuplicatesHaveACause == Spec => []DuplicatesExplained
<1>1. ASSUME IInv, NEW i \in Invitation
      PROVE  sends[i] <= 1 + unrecorded[i]
  <2>1. sends[i] \in Nat /\ unrecorded[i] \in Nat /\ Owed(i) \in 0..1
    BY <1>1 DEF IInv, TypeOK, Owed
  <2>2. /\ Cardinality(MaySend(i)) \in Nat
        /\ sends[i] + Cardinality(MaySend(i)) <= unrecorded[i] + Owed(i)
    BY <1>1, FS_CardinalityType DEF IInv, BudgetInv
  <2>3. QED
    BY <2>1, <2>2
<1>2. IInv => DuplicatesExplained
  BY <1>1 DEF DuplicatesExplained
<1>3. QED
  BY <1>2, Inductive, PTL
=============================================================================
