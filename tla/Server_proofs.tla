---------------------------- MODULE Server_proofs -----------------------------
(* What the handlers of Server do to the pool is what ConnectionPool says, *)
(* and what they do to the accounts lets nobody else in: proved for every  *)
(* value of the constants.                                                 *)
EXTENDS Server, ConnectionPool_proofs

LEMMA CredentialsStepSimulated ==
    ASSUME CredentialsNext
    PROVE  [Next]_poolVars
  <1>1. ASSUME NEW r \in Client, Arrives(r)
        PROVE  PoolStep(r)
    <2>1. LastRow \in Row
      BY PoolAssumption DEF Row
    <2>2. ASSUME NEW e \in Email, NEW pw \in Password, Signup(r, e, pw) \/ Login(r, e, pw)
          PROVE  Ask(r, "query", LastRow)
      BY <2>2 DEF Signup, Login, Comes
    <2>3. ASSUME NEW k \in Kind, NEW x \in Row, Transacts(r, k, x)
          PROVE  Ask(r, k, x)
      BY <2>3 DEF Transacts
    <2> QED
      BY <1>1, <2>1, <2>2, <2>3 DEF Arrives, PoolStep, Kind
  <1>2. ASSUME NEW r \in Client, Answers(r)
        PROVE  PoolStep(r)
    BY <1>2 DEF Answers, SignupFindsNobody, SignupInserts, SignupTaken, LoginRefused,
      LoginMatches, Issued, Commits, Has, PoolStep, Serve
  <1>3. ASSUME NEW t \in Task, Rehashed(t)
        PROVE  PoolStep(t)
    BY <1>3 DEF Rehashed, Has, PoolStep, Serve
  <1>4. ASSUME NEW r \in Client \union Task, Queries(r)
        PROVE  PoolStep(r)
    <2>1. LastRow \in Row
      BY PoolAssumption DEF Row
    <2> QED
      BY <1>4, <2>1 DEF Queries, PoolStep, Kind
  <1>5. ASSUME NEW r \in Client \union Task, Served(r) \/ Locks(r) \/ Fails(r)
        PROVE  PoolStep(r)
    BY <1>5 DEF Served, Locks, Fails, PoolStep, Serve
  <1> QED
    BY <1>1, <1>2, <1>3, <1>4, <1>5, RoleAssumption DEF CredentialsNext, Next

LEMMA ReadinessStepSimulated ==
    ASSUME ReadinessNext
    PROVE  [Next]_poolVars
  <1>1. LastRow \in Row
    BY PoolAssumption DEF Row
  <1>2. ASSUME NEW p \in Probe,
               Ready(p) \/ PingConnects(p) \/ PingEnds(p)
        PROVE  PoolStep(p)
    BY <1>1, <1>2 DEF Ready, PingConnects, PingEnds, PoolStep, Serve, Kind
  <1>3. ASSUME NEW p \in Probe, PingTimesOut(p)
        PROVE  UNCHANGED poolVars
    BY <1>3 DEF PingTimesOut
  <1> QED
    BY <1>2, <1>3, ProbeAssumption DEF ReadinessNext, Next

(* Whatever the handlers are at, the pool sees requests as ConnectionPool  *)
(* describes them.                                                         *)
THEOREM ServerRefinesPool == ServerSpec => Spec
  <1>1. ServerInit => Init
    BY DEF ServerInit
  <1>2. [ServerNext]_vars => [Next]_poolVars
    BY CredentialsStepSimulated, ReadinessStepSimulated DEF ServerNext, Next, vars
  <1> QED
    BY <1>1, <1>2, PTL DEF ServerSpec, Spec

(* The handlers of a server block each other only by filling the pool with *)
(* transactions of which one needs a second connection.                    *)
THEOREM ServerWedgeHasOneCause == ServerSpec => []WedgeExplained
  BY ServerRefinesPool, WedgeHasOneCause

-----------------------------------------------------------------------------
(* A handler that is about to issue tokens, or to replace a hash, has      *)
(* compared the password, and what was true of it stays true.              *)
Trusted(j) == j.work \in {"issue", "rehash"} \/ j.owner

OwnersInv ==
    /\ CredentialsTypeOK
    /\ \A r \in Client \union Task :
          job[r] \in Job /\ Trusted(job[r]) => Owns(job[r].email, job[r].password)

LEMMA OwnersInitially == ServerInit => OwnersInv
  <1>1. NoJob \notin Job
    BY DEF NoJob, Job
  <1> QED
    BY <1>1 DEF ServerInit, CredentialsInit, OwnersInv, CredentialsTypeOK

(* No step takes an account from its owner. *)
LEMMA OwnersStay ==
    ASSUME OwnersInv, [ServerNext]_vars
    PROVE  /\ accounts' \in [Email -> Hash \union {Null}]
           /\ \A e \in Email, pw \in Password : Owns(e, pw) => Owns(e, pw)'
  <1> DEFINE Fine == /\ accounts' \in [Email -> Hash \union {Null}]
                     /\ \A e \in Email, pw \in Password : Owns(e, pw) => Owns(e, pw)'
  <1>1. ASSUME UNCHANGED accounts
        PROVE  Fine
    BY <1>1 DEF OwnersInv, CredentialsTypeOK, Owns
  <1>2. ASSUME NEW e \in Email, NEW pw \in Password,
               accounts[e] = Null \/ Owns(e, pw),
               accounts' = [accounts EXCEPT ![e] = [password |-> pw, outdated |-> FALSE]]
        PROVE  Fine
    <2>1. [password |-> pw, outdated |-> FALSE] \in Hash
      BY DEF Hash
    <2>2. \A f \in Email : accounts'[f] = IF f = e THEN [password |-> pw, outdated |-> FALSE]
                                          ELSE accounts[f]
      BY <1>2 DEF OwnersInv, CredentialsTypeOK
    <2>3. accounts' \in [Email -> Hash \union {Null}]
      BY <1>2, <2>1 DEF OwnersInv, CredentialsTypeOK
    <2>4. [password |-> pw, outdated |-> FALSE] # Null
      BY <2>1, RoleAssumption DEF Hash
    <2>5. ASSUME NEW f \in Email, NEW q \in Password, Owns(f, q)
          PROVE  Owns(f, q)'
      BY <1>2, <2>2, <2>4, <2>5 DEF Owns
    <2> QED
      BY <2>3, <2>5
  <1>3. ASSUME NEW r \in Client, SignupInserts(r)
        PROVE  Fine
    <2>1. job[r] \in Job
      BY <1>3 DEF SignupInserts, Has, OwnersInv, CredentialsTypeOK, Transaction, NoJob
    <2> QED
      BY <1>2, <1>3, <2>1 DEF SignupInserts, Job
  <1>4. ASSUME NEW t \in Task, Rehashed(t)
        PROVE  Fine
    <2>1. job[t] \in Job
      BY <1>4 DEF Rehashed, Has, OwnersInv, CredentialsTypeOK, Transaction, NoJob
    <2>2. Owns(job[t].email, job[t].password)
      BY <1>4, <2>1 DEF Rehashed, Has, OwnersInv, Trusted
    <2> QED
      BY <1>2, <1>4, <2>1, <2>2 DEF Rehashed, Job
  <1>5. ASSUME NEW r \in Client, Commits(r)
        PROVE  Fine
    BY <1>1, <1>2, <1>5 DEF Commits
  <1> QED
    BY <1>1, <1>3, <1>4, <1>5
    DEF ServerNext, CredentialsNext, Arrives, Answers, Signup, Login, Comes, Transacts,
      Queries, Served, Locks, Fails, SignupFindsNobody, SignupTaken, LoginRefused,
      LoginMatches, Issued, CredentialsCrash, credentialVars, vars

(* A record of work is one of the three kinds by its work. *)
LEMMA JobKinds ==
    ASSUME CredentialsTypeOK, NEW r \in Client \union Task
    PROVE  /\ job[r].work \in {"signupFind", "signupInsert", "loginFind", "issue", "rehash"}
                => job[r] \in Job
           /\ job[r] \in Job \union Transaction \union {NoJob}
  BY DEF CredentialsTypeOK, Job, Transaction, NoJob

LEMMA NotJobs == NoJob \notin Job /\ \A k : [work |-> k] \notin Job
  BY DEF NoJob, Job

LEMMA OwnersKept ==
    ASSUME OwnersInv, [ServerNext]_vars
    PROVE  OwnersInv'
  <1> DEFINE After(e, pw) == accounts'[e] # Null /\ accounts'[e].password = pw
             R == Client \union Task
             Any == Job \union Transaction \union {NoJob}
             Fine(r, j) == /\ j \in Any
                           /\ j \in Job /\ Trusted(j) => After(j.email, j.password)
  <1>1. /\ accounts' \in [Email -> Hash \union {Null}]
        /\ \A e \in Email, pw \in Password : Owns(e, pw) => After(e, pw)
    BY OwnersStay DEF Owns
  <1>2. \A r \in R : Fine(r, job[r])
    BY <1>1 DEF OwnersInv, CredentialsTypeOK, Job
  <1>3. ASSUME NEW r \in R, NEW j, Fine(r, j), job' = [job EXCEPT ![r] = j]
        PROVE  OwnersInv'
    BY <1>1, <1>2, <1>3 DEF OwnersInv, CredentialsTypeOK, Owns
  <1>4. ASSUME UNCHANGED job
        PROVE  OwnersInv'
    BY <1>1, <1>2, <1>4 DEF OwnersInv, CredentialsTypeOK, Owns
  <1>5. ASSUME NEW r \in R, Ends(r)
        PROVE  OwnersInv'
    <2>1. Fine(r, NoJob)
      BY NotJobs
    <2> QED
      BY <1>3, <1>5, <2>1 DEF Ends
  <1>6. ASSUME NEW r \in R, NEW w \in {"signupInsert", "issue"}, job[r] \in Job, TurnsTo(r, w),
               w = "issue" => After(job[r].email, job[r].password)
        PROVE  OwnersInv'
    <2> DEFINE j == [job[r] EXCEPT !.work = w]
    <2>1. /\ j \in Job
          /\ j.work = w /\ j.email = job[r].email /\ j.password = job[r].password
          /\ j.owner = job[r].owner
      BY <1>6 DEF Job
    <2>2. Fine(r, j)
      BY <1>2, <1>6, <2>1 DEF Trusted
    <2> QED
      BY <1>3, <1>6, <2>2 DEF TurnsTo, OwnersInv, CredentialsTypeOK
  <1>7. ASSUME NEW r \in Client, Arrives(r)
        PROVE  OwnersInv'
    <2>1. ASSUME NEW e \in Email, NEW pw \in Password, NEW w \in {"signupFind", "loginFind"},
                 Comes(r, w, e, pw)
          PROVE  OwnersInv'
      <3> DEFINE j == [work |-> w, email |-> e, password |-> pw, owner |-> Owns(e, pw)]
      <3>1. Owns(e, pw) \in BOOLEAN
        BY DEF Owns
      <3>2. j \in Job
        BY <3>1 DEF Job
      <3>3. Trusted(j) => After(e, pw)
        BY <1>1 DEF Trusted
      <3> QED
        BY <1>3, <2>1, <3>2, <3>3 DEF Comes
    <2>2. ASSUME NEW k \in Kind, NEW x \in Row, Transacts(r, k, x)
          PROVE  OwnersInv'
      <3>1. Fine(r, [work |-> k])
        BY <2>2, NotJobs DEF Transacts, Transaction, Kind
      <3> QED
        BY <1>3, <2>2, <3>1 DEF Transacts
    <2> QED
      BY <1>7, <2>1, <2>2 DEF Arrives, Signup, Login
  <1>8. ASSUME NEW r \in Client, SignupFindsNobody(r)
        PROVE  OwnersInv'
    BY <1>6, <1>8, JobKinds DEF SignupFindsNobody, Has, OwnersInv
  <1>9. ASSUME NEW r \in Client, SignupInserts(r)
        PROVE  OwnersInv'
    <2>1. job[r] \in Job
      BY <1>9, JobKinds DEF SignupInserts, Has, OwnersInv
    <2>2. accounts'[job[r].email] = [password |-> job[r].password, outdated |-> FALSE]
      BY <1>9, <2>1 DEF SignupInserts, OwnersInv, CredentialsTypeOK, Job
    <2>3. [password |-> job[r].password, outdated |-> FALSE] # Null
      <3>1. job[r].password \in Password
        BY <2>1 DEF Job
      <3>2. [password |-> job[r].password, outdated |-> FALSE]
              \in [password : Password, outdated : BOOLEAN]
        BY <3>1
      <3> QED
        BY <3>2, RoleAssumption
    <2>4. After(job[r].email, job[r].password)
      BY <2>2, <2>3
    <2> QED
      BY <1>6, <1>9, <2>1, <2>4 DEF SignupInserts
  <1>10. ASSUME NEW r \in Client, LoginMatches(r)
        PROVE  OwnersInv'
    <2>1. job[r] \in Job /\ Owns(job[r].email, job[r].password)
      BY <1>10, JobKinds DEF LoginMatches, Has, OwnersInv
    <2>2. After(job[r].email, job[r].password)
      BY <1>1, <2>1 DEF Job
    <2>3. ASSUME NEW t \in Task, job[t] = NoJob,
                 job' = [job EXCEPT ![r].work = "issue",
                                    ![t] = [job[r] EXCEPT !.work = "rehash"]]
          PROVE  OwnersInv'
      <3> DEFINE j == [job[r] EXCEPT !.work = "issue"]
                 k == [job[r] EXCEPT !.work = "rehash"]
      <3>1. /\ j \in Job /\ j.email = job[r].email /\ j.password = job[r].password
            /\ k \in Job /\ k.email = job[r].email /\ k.password = job[r].password
        BY <2>1 DEF Job
      <3>2. r # t
        BY RoleAssumption
      <3>3. job' = [[job EXCEPT ![r] = j] EXCEPT ![t] = k]
        BY <2>3, <3>2 DEF OwnersInv, CredentialsTypeOK
      <3>4. \A q \in R : job'[q] = IF q = t THEN k ELSE IF q = r THEN j ELSE job[q]
        BY <3>3 DEF OwnersInv, CredentialsTypeOK
      <3>5. job' \in [R -> Any]
        BY <3>1, <3>3 DEF OwnersInv, CredentialsTypeOK
      <3> QED
        BY <1>1, <1>2, <2>2, <3>1, <3>4, <3>5 DEF OwnersInv, CredentialsTypeOK, Owns
    <2> QED
      BY <1>6, <1>10, <2>1, <2>2, <2>3 DEF LoginMatches
  <1>11. ASSUME CredentialsCrash
         PROVE  OwnersInv'
    BY <1>1, <1>11, NotJobs DEF CredentialsCrash, OwnersInv, CredentialsTypeOK
  <1>12. ASSUME NEW r \in Client, Answers(r)
         PROVE  OwnersInv'
    BY <1>5, <1>8, <1>9, <1>10, <1>12
    DEF Answers, SignupTaken, LoginRefused, Issued, Commits
  <1>13. ASSUME CredentialsNext
         PROVE  OwnersInv'
    BY <1>4, <1>5, <1>7, <1>12, <1>13
    DEF CredentialsNext, Rehashed, Queries, Served, Locks, Fails, credentialVars
  <1> QED
    BY <1>4, <1>11, <1>13 DEF ServerNext, credentialVars, vars

(* Tokens go to whoever has the account's password and to nobody else,     *)
(* whatever re-hashes, redemptions and other signups do between the        *)
(* comparison and the answer (AuthService.signup, login, rehashIfNeeded).  *)
THEOREM OnlyTheOwnerGetsIn == ServerSpec => TokensToTheOwner
  <1>1. ServerInit => OwnersInv
    BY OwnersInitially
  <1>2. OwnersInv /\ [ServerNext]_vars => OwnersInv'
    BY OwnersKept
  <1>3. ASSUME OwnersInv, [ServerNext]_vars
        PROVE  [\A r \in Client : Issued(r) => Owns(job[r].email, job[r].password)]_<<credentialVars, poolVars>>
    BY <1>3, JobKinds DEF Issued, Has, OwnersInv, Trusted
  <1> QED
    BY <1>1, <1>2, <1>3, PTL DEF ServerSpec, TokensToTheOwner

(* Whoever had an account is let in, although a re-hash of it may be       *)
(* underway and its signup may have been cut off before the tokens.        *)
THEOREM TheOwnerGetsIn == ServerSpec => OwnerIsNotRefused
  <1>1. ServerInit => OwnersInv
    BY OwnersInitially
  <1>2. OwnersInv /\ [ServerNext]_vars => OwnersInv'
    BY OwnersKept
  <1>3. ASSUME OwnersInv, [ServerNext]_vars
        PROVE  [\A r \in Client : LoginRefused(r) => ~job[r].owner]_<<credentialVars, poolVars>>
    BY <1>3, JobKinds DEF LoginRefused, Has, OwnersInv, Trusted
  <1> QED
    BY <1>1, <1>2, <1>3, PTL DEF ServerSpec, OwnerIsNotRefused

-----------------------------------------------------------------------------
LEMMA PingsKept ==
    ASSUME ReadinessTypeOK, [ServerNext]_vars
    PROVE  ReadinessTypeOK'
  <1>1. ASSUME NEW p \in Probe, NEW s \in {"none", "awaited", "overdue"},
               ping' = [ping EXCEPT ![p] = s]
        PROVE  ReadinessTypeOK'
    BY <1>1 DEF ReadinessTypeOK
  <1>2. CASE ReadinessNext
    BY <1>1, <1>2 DEF ReadinessNext, Ready, PingConnects, PingEnds, PingTimesOut,
      ReadinessTypeOK
  <1> QED
    BY <1>2 DEF ServerNext, ReadinessCrash, ReadinessTypeOK, vars

(* Every variable of the server has its type: no handler, probe or task,   *)
(* wherever a query fails or the process dies, leaves the pool, the        *)
(* accounts or a request's work in a state the code does not know.         *)
THEOREM ServerTypeCorrect == ServerSpec => []ServerTypeOK
  <1>1. ServerInit => IInv /\ OwnersInv /\ ReadinessTypeOK
    BY InitInv, OwnersInitially DEF ServerInit, ReadinessInit, ReadinessTypeOK
  <1>2. [ServerNext]_vars => [Next]_poolVars
    BY CredentialsStepSimulated, ReadinessStepSimulated DEF ServerNext, Next, vars
  <1>3. IInv /\ [Next]_poolVars => IInv'
    BY StepInv
  <1>4. IInv /\ OwnersInv /\ ReadinessTypeOK /\ [ServerNext]_vars
        => IInv' /\ OwnersInv' /\ ReadinessTypeOK'
    BY <1>2, <1>3, OwnersKept, PingsKept
  <1>5. IInv /\ OwnersInv /\ ReadinessTypeOK => ServerTypeOK
    BY DEF IInv, OwnersInv, ServerTypeOK
  <1> QED
    BY <1>1, <1>4, <1>5, PTL DEF ServerSpec
=============================================================================
