--------------------------- MODULE Redemption_proofs ---------------------------
(***************************************************************************)
(* For any invitations, emails, courses and number of requests: the types  *)
(* and the safety properties of Redemption, that it implements Admissions, *)
(* and that the onboarding page's composition with it keeps both and only  *)
(* shows what is true.                                                     *)
(*                                                                         *)
(* The invariants rest on what an open transaction holds.  HeldInv says    *)
(* whose each uncommitted key and locked row is, and that what the request *)
(* read outside its transaction (the account, its role, that the place is  *)
(* free) still holds when it commits.                                      *)
(***************************************************************************)
EXTENDS Onboarding, TLAPS

(* Stages in which the invitation's row is locked. *)
Holding == {"lookup", "insertUser", "enrolNew", "enrolExisting", "commit",
            "commitAborted"}

(* What a request knows of its invitation: one that matched nothing will   *)
(* not be found to have been valid, since a token presented is never the   *)
(* one generated later.                                                    *)
RequestKnown == \A p \in Proc :
    /\ pc[p] # "idle" => inv[p] \in Invitation /\ (valid[p] \/ inv[p] \in expired)
    /\ pc[p] = "disambiguate" => status[inv[p]] # "ISSUED" \/ ~valid[p]

RowHeld == \A p \in Proc :
    /\ pc[p] \in Holding => rowHolder[inv[p]] = p /\ status[inv[p]] = "ISSUED"
    /\ \A i \in Invitation : rowHolder[i] = p => pc[p] \in Holding /\ i = inv[p]

(* An uncommitted account: the email is still nobody's. *)
KeyHeld == \A p \in Proc :
    /\ pc[p] = "enrolNew" => keyHolder[EmailOf[inv[p]]] = p
    /\ \A e \in Email : keyHolder[e] = p =>
          pc[p] \in {"enrolNew", "commit"} /\ e = EmailOf[inv[p]] /\ role[e] = Null

(* An uncommitted enrolment: the place is still free. *)
PlaceHeld == \A p \in Proc :
    /\ pc[p] = "commit" => placeHolder[PlaceOf(inv[p])] = p
    /\ \A ec \in Place : placeHolder[ec] = p =>
          pc[p] = "commit" /\ ec = PlaceOf(inv[p]) /\ place[ec] = Null

(* Who enrols is a student, or becomes one by the same commit. *)
StudentKnown == \A p \in Proc :
    /\ pc[p] \in {"enrolExisting", "commitAborted"} => role[EmailOf[inv[p]]] = "STUDENT"
    /\ pc[p] = "commit" =>
          role[EmailOf[inv[p]]] = "STUDENT" \/ keyHolder[EmailOf[inv[p]]] = p
    /\ pc[p] = "commitAborted" => place[PlaceOf(inv[p])] # Null

HeldInv == RequestKnown /\ RowHeld /\ KeyHeld /\ PlaceHeld /\ StudentKnown

(* Who was logged in is a student and has the place. *)
AnsweredInv == \A p \in Proc : reply[p] = "ok" =>
    /\ inv[p] \in Invitation
    /\ role[EmailOf[inv[p]]] = "STUDENT"
    /\ place[PlaceOf(inv[p])] # Null

IInv == TypeOK /\ HeldInv /\ AnsweredInv /\ AllOrNothing /\ TokensAreTrue

-----------------------------------------------------------------------------
USE MapAssumption, NullAssumption

LEMMA InitIInv == Init => IInv
  BY DEF Init, IInv, TypeOK, HeldInv, RequestKnown, RowHeld, KeyHeld, PlaceHeld,
         StudentKnown, AnsweredInv, AllOrNothing, TokensAreTrue, Holding, Place, PlaceOf

LEMMA PlaceTyped ==
    /\ \A i \in Invitation : EmailOf[i] \in Email /\ CourseOf[i] \in Course /\ PlaceOf(i) \in Place
    /\ \A e \in Email, c \in Course : <<e, c>> \in Place
    /\ \A i \in Invitation, e \in Email, c \in Course :
          PlaceOf(i) = <<e, c>> <=> EmailOf[i] = e /\ CourseOf[i] = c
  BY DEF Place, PlaceOf

Reply == {"none", "ok", "error", "NOT_FOUND", "ALREADY_REDEEMED", "EXPIRED",
          "VALIDATION_FAILED", "EMAIL_CONFLICT"}

(* A transaction's end frees what it held and nothing else.                *)
LEMMA Released ==
    ASSUME TypeOK, NEW p \in Proc, Release(p)
    PROVE  /\ rowHolder' \in [Invitation -> Proc \union {Null}]
           /\ keyHolder' \in [Email -> Proc \union {Null}]
           /\ placeHolder' \in [Place -> Proc \union {Null}]
           /\ \A i \in Invitation : rowHolder'[i] = IF rowHolder[i] = p THEN Null ELSE rowHolder[i]
           /\ \A e \in Email : keyHolder'[e] = IF keyHolder[e] = p THEN Null ELSE keyHolder[e]
           /\ \A ec \in Place : placeHolder'[ec] = IF placeHolder[ec] = p THEN Null ELSE placeHolder[ec]
<1>1. /\ DOMAIN rowHolder = Invitation /\ DOMAIN keyHolder = Email /\ DOMAIN placeHolder = Place
      /\ \A i \in Invitation : rowHolder[i] \in Proc \union {Null}
      /\ \A e \in Email : keyHolder[e] \in Proc \union {Null}
      /\ \A ec \in Place : placeHolder[ec] \in Proc \union {Null}
  BY DEF TypeOK
<1>2. QED
  BY <1>1 DEF Release, Without

(* A request's end: of the others nothing changes.                         *)
LEMMA Ended ==
    ASSUME TypeOK, NEW p \in Proc, NEW r \in Reply, Finish(p, r)
    PROVE  /\ Release(p)
           /\ pc' = [pc EXCEPT ![p] = "idle"] /\ inv' = inv
           /\ reply' = [reply EXCEPT ![p] = r]
           /\ valid' = [valid EXCEPT ![p] = FALSE]
           /\ reply' \in [Proc -> Reply] /\ valid' \in [Proc -> BOOLEAN]
  BY DEF Finish, GoTo, TypeOK, Reply

LEMMA RejectType ==
    ASSUME TypeOK, NEW p \in Proc, NEW r \in Reply, Reject(p, r)
    PROVE  TypeOK'
<1>1. UNCHANGED data /\ Finish(p, r)
  BY DEF Reject
<1>2. /\ Release(p) /\ pc' = [pc EXCEPT ![p] = "idle"] /\ inv' = inv
      /\ reply' \in [Proc -> Reply] /\ valid' \in [Proc -> BOOLEAN]
  BY <1>1, Ended
<1>3. /\ rowHolder' \in [Invitation -> Proc \union {Null}]
      /\ keyHolder' \in [Email -> Proc \union {Null}]
      /\ placeHolder' \in [Place -> Proc \union {Null}]
  BY <1>2, Released
<1>4. QED
  BY <1>1, <1>2, <1>3 DEF TypeOK, data, Reply

(* A token signed for an email of the instance is well formed. *)
LEMMA TokenTyped ==
    ASSUME NEW e \in Email, NEW r \in {"STUDENT", "PARENT"}
    PROVE  /\ TokenFor(e, r) \in LMS!Token
           /\ TokenFor(e, r).email = e /\ TokenFor(e, r).role = r
           /\ TokenFor(e, r).state = "valid"
  BY DEF TokenFor, LMS!Token

LEMMA TypeStep == IInv /\ [Next]_vars => TypeOK'
<1> SUFFICES ASSUME IInv, [Next]_vars PROVE TypeOK'
  OBVIOUS
<1>0. TypeOK /\ RequestKnown
  BY DEF IInv, HeldInv
<1> USE <1>0 DEF GoTo, data, holders
<1>1. ASSUME NEW p \in Proc, NEW i \in Invitation, Redeem(p, i) PROVE TypeOK'
  BY <1>1 DEF Redeem, TypeOK
<1>2. ASSUME NEW p \in Proc, AtomicRedeem(p) \/ RedeemMatchesNothing(p) PROVE TypeOK'
  BY <1>2 DEF AtomicRedeem, RedeemMatchesNothing, RequestKnown, TypeOK
<1>3. ASSUME NEW p \in Proc, InsertUser(p) PROVE TypeOK'
  <2>1. CASE Reject(p, "EMAIL_CONFLICT")
    BY <2>1, RejectType DEF Reply
  <2>2. CASE ~Reject(p, "EMAIL_CONFLICT")
    <3>1. EmailOf[inv[p]] \in Email
      BY <1>3, PlaceTyped DEF InsertUser, RequestKnown
    <3>2. QED
      BY <1>3, <2>2, <3>1 DEF InsertUser, TypeOK
  <2>3. QED
    BY <2>1, <2>2
<1>4. ASSUME NEW p \in Proc, Enrol(p) PROVE TypeOK'
  <2>1. PlaceOf(inv[p]) \in Place
    BY <1>4, PlaceTyped DEF Enrol, RequestKnown
  <2>2. QED
    BY <1>4, <2>1 DEF Enrol, TypeOK
<1>5. ASSUME NEW p \in Proc, Disambiguate(p) PROVE TypeOK'
  <2>1. \E r \in Reply : Reject(p, r)
    BY <1>5 DEF Disambiguate, Reply
  <2>2. QED
    BY <2>1, RejectType
<1>6. ASSUME NEW p \in Proc, FindNobody(p) \/ FindExisting(p) \/ EnrolDuplicate(p) \/ Fail(p)
      PROVE TypeOK'
  <2>1. CASE \E r \in Reply : Reject(p, r)
    BY <2>1, RejectType
  <2>2. CASE ~ \E r \in Reply : Reject(p, r)
    BY <1>6, <2>2 DEF FindNobody, FindExisting, EnrolDuplicate, Fail, TypeOK, Reply
  <2>3. QED
    BY <2>1, <2>2
<1>7. ASSUME NEW p \in Proc, Commit(p) \/ CommitAborted(p) PROVE TypeOK'
  <2>1. inv[p] \in Invitation /\ EmailOf[inv[p]] \in Email
    BY <1>7, PlaceTyped DEF Commit, CommitAborted, RequestKnown
  <2>2. TokenFor(EmailOf[inv[p]], "STUDENT") \in LMS!Token
    BY <2>1, TokenTyped
  <2>3. Finish(p, "ok") /\ "ok" \in Reply /\ expired' = expired
        /\ tokens' = tokens \union {TokenFor(EmailOf[inv[p]], "STUDENT")}
    BY <1>7 DEF Commit, CommitAborted, Reply
  <2>4. /\ Release(p) /\ pc' = [pc EXCEPT ![p] = "idle"] /\ inv' = inv
        /\ reply' \in [Proc -> Reply] /\ valid' \in [Proc -> BOOLEAN]
    BY <2>3, Ended
  <2>5. /\ status' \in [Invitation -> {"none", "ISSUED", "REDEEMED"}]
        /\ role' \in [Email -> {"STUDENT", "PARENT", Null}]
        /\ place' \in [Place -> Invitation \union {Null}]
    BY <1>7, <2>1 DEF Commit, CommitAborted, TypeOK
  <2>6. QED
    BY <2>2, <2>3, <2>4, <2>5, Released DEF TypeOK, Reply
<1>8. ASSUME NEW i \in Invitation, Issue(i) \/ Expire(i) PROVE TypeOK'
  BY <1>8 DEF Issue, Expire, TypeOK
<1>9. ASSUME NEW e \in Email, SignUp(e) PROVE TypeOK'
  BY <1>9, TokenTyped DEF SignUp, TypeOK
<1>10. Crash => TypeOK'
  BY DEF Crash, TypeOK
<1>11. UNCHANGED vars => TypeOK'
  BY DEF vars, TypeOK
<1>12. QED
  BY <1>1, <1>2, <1>3, <1>4, <1>5, <1>6, <1>7, <1>8, <1>9, <1>10, <1>11 DEF Next, Granted, Proceed

(* What COMMIT writes, of a transaction that reached it.                   *)
LEMMA CommitWrites ==
    ASSUME IInv, NEW p \in Proc, Commit(p)
    PROVE  LET i == inv[p] IN
           /\ i \in Invitation /\ EmailOf[i] \in Email /\ PlaceOf(i) \in Place
           /\ status[i] = "ISSUED" /\ place[PlaceOf(i)] = Null
           /\ role[EmailOf[i]] \in {Null, "STUDENT"}
           /\ status' = [status EXCEPT ![i] = "REDEEMED"]
           /\ role' = [role EXCEPT ![EmailOf[i]] = "STUDENT"]
           /\ place' = [place EXCEPT ![PlaceOf(i)] = i]
           /\ tokens' = tokens \union {TokenFor(EmailOf[i], "STUDENT")}
<1> DEFINE i == inv[p]
<1>0. TypeOK /\ RequestKnown /\ RowHeld /\ KeyHeld /\ PlaceHeld /\ StudentKnown /\ pc[p] = "commit"
  BY DEF IInv, HeldInv, Commit
<1>1. i \in Invitation /\ EmailOf[i] \in Email /\ PlaceOf(i) \in Place
  BY <1>0, PlaceTyped DEF RequestKnown
<1>2. status[i] = "ISSUED" /\ \A j \in Invitation : rowHolder[j] = p <=> j = i
  BY <1>0, <1>1 DEF RowHeld, Holding
<1>3. place[PlaceOf(i)] = Null /\ \A ec \in Place : placeHolder[ec] = p <=> ec = PlaceOf(i)
  BY <1>0, <1>1 DEF PlaceHeld
<1>4. /\ \A e \in Email : keyHolder[e] = p => e = EmailOf[i] /\ role[e] = Null
      /\ keyHolder[EmailOf[i]] = p \/ role[EmailOf[i]] = "STUDENT"
  BY <1>0, <1>1 DEF KeyHeld, StudentKnown
<1>5. status' = [status EXCEPT ![i] = "REDEEMED"]
  <2>1. status' = [j \in Invitation |-> IF rowHolder[j] = p THEN "REDEEMED" ELSE status[j]]
    BY DEF Commit
  <2>2. status \in [Invitation -> {"none", "ISSUED", "REDEEMED"}]
    BY <1>0 DEF TypeOK
  <2> HIDE DEF i
  <2>3. QED
    BY <1>1, <1>2, <2>1, <2>2
<1>6. role' = [role EXCEPT ![EmailOf[i]] = "STUDENT"]
  BY <1>0, <1>1, <1>4 DEF Commit, TypeOK
<1>7. place' = [place EXCEPT ![PlaceOf(i)] = i]
  BY <1>0, <1>1, <1>3 DEF Commit, TypeOK
<1>8. QED
  BY <1>1, <1>2, <1>3, <1>4, <1>5, <1>6, <1>7 DEF Commit

(* What is left of a request that has ended, and of the others.            *)
FreedBy(p) ==
    /\ pc'[p] = "idle" /\ inv' = inv
    /\ \A q \in Proc : q # p => pc'[q] = pc[q] /\ valid'[q] = valid[q]
    /\ \A i \in Invitation : rowHolder'[i] = IF rowHolder[i] = p THEN Null ELSE rowHolder[i]
    /\ \A e \in Email : keyHolder'[e] = IF keyHolder[e] = p THEN Null ELSE keyHolder[e]
    /\ \A ec \in Place : placeHolder'[ec] = IF placeHolder[ec] = p THEN Null ELSE placeHolder[ec]

LEMMA EndFrees ==
    ASSUME TypeOK, NEW p \in Proc, NEW r \in Reply, Finish(p, r)
    PROVE  FreedBy(p)
<1>1. /\ Release(p) /\ pc' = [pc EXCEPT ![p] = "idle"] /\ inv' = inv
      /\ valid' = [valid EXCEPT ![p] = FALSE]
  BY Ended
<1>2. DOMAIN pc = Proc /\ DOMAIN valid = Proc
  BY DEF TypeOK
<1>3. QED
  BY <1>1, <1>2, Released DEF FreedBy

LEMMA RejectHeld ==
    ASSUME TypeOK, HeldInv, NEW p \in Proc, NEW r \in Reply, Reject(p, r)
    PROVE  HeldInv'
<1>1. UNCHANGED data /\ FreedBy(p)
  BY EndFrees DEF Reject
<1>2. QED
  BY <1>1, PlaceTyped DEF FreedBy, data, HeldInv, RequestKnown, RowHeld, KeyHeld, PlaceHeld,
                          StudentKnown, Holding

LEMMA HeldStep == IInv /\ [Next]_vars => HeldInv'
<1> SUFFICES ASSUME IInv, [Next]_vars PROVE HeldInv'
  OBVIOUS
<1>0. TypeOK /\ HeldInv
  BY DEF IInv
<1> USE <1>0, PlaceTyped DEF HeldInv, RequestKnown, RowHeld, KeyHeld, PlaceHeld, StudentKnown,
                 Holding, GoTo, data, holders
<1>1. ASSUME NEW p \in Proc, NEW i \in Invitation, Redeem(p, i) PROVE HeldInv'
  <2>0. /\ DOMAIN pc = Proc /\ DOMAIN inv = Proc /\ DOMAIN valid = Proc
    BY DEF TypeOK
  <2>1. /\ pc[p] = "idle" /\ pc'[p] = "redeem" /\ inv'[p] = i
        /\ \A q \in Proc : q # p => pc'[q] = pc[q] /\ inv'[q] = inv[q] /\ valid'[q] = valid[q]
        /\ UNCHANGED <<data, holders>>
    BY <2>0, <1>1 DEF Redeem
  <2>2. valid'[p] \/ i \in expired
    <3>1. valid'[p] = (i \notin expired)
      BY <2>0, <1>1 DEF Redeem
    <3>2. QED
      BY <3>1
  <2>6. RequestKnown' /\ RowHeld'
    <3>1. RequestKnown'
      BY <2>1, <2>2
    <3>2. RowHeld'
      BY <2>1
    <3>3. QED
      BY <3>1, <3>2
  <2>3. KeyHeld' /\ PlaceHeld'
    BY <2>1
  <2>4. StudentKnown'
    BY <2>1
  <2>5. QED
    BY <2>6, <2>3, <2>4
<1>2. ASSUME NEW p \in Proc, AtomicRedeem(p) PROVE HeldInv'
  BY <1>2 DEF AtomicRedeem, TypeOK
<1>3. ASSUME NEW p \in Proc, RedeemMatchesNothing(p) PROVE HeldInv'
  BY <1>3 DEF RedeemMatchesNothing, TypeOK
<1>4. ASSUME NEW p \in Proc, NEW r \in Reply, Reject(p, r) PROVE HeldInv'
  BY <1>4, RejectHeld
<1>5. ASSUME NEW p \in Proc, InsertUser(p) PROVE HeldInv'
  <2>1. CASE ~Reject(p, "EMAIL_CONFLICT")
    BY <1>5, <2>1 DEF InsertUser, TypeOK
  <2>2. QED
    BY <1>4, <2>1 DEF Reply
<1>6. ASSUME NEW p \in Proc, Enrol(p) PROVE HeldInv'
  BY <1>6 DEF Enrol, TypeOK
<1>7. ASSUME NEW p \in Proc, EnrolDuplicate(p) PROVE HeldInv'
  BY <1>7 DEF EnrolDuplicate, TypeOK
<1>8. ASSUME NEW p \in Proc, Disambiguate(p) PROVE HeldInv'
  <2>1. \E r \in Reply : Reject(p, r)
    BY <1>8 DEF Disambiguate, Reply
  <2>2. QED
    BY <1>4, <2>1
<1>9. ASSUME NEW p \in Proc, FindNobody(p) \/ FindExisting(p) \/ Fail(p) PROVE HeldInv'
  <2>1. CASE ~ \E r \in Reply : Reject(p, r)
    BY <1>9, <2>1 DEF FindNobody, FindExisting, Fail, TypeOK, Reply
  <2>2. QED
    BY <1>4, <2>1
<1>10. ASSUME NEW p \in Proc, Commit(p) PROVE HeldInv'
  <2>1. /\ Finish(p, "ok") /\ "ok" \in Reply /\ expired' = expired /\ pc[p] = "commit"
    BY <1>10 DEF Commit, Reply
  <2>2. FreedBy(p)
    BY <2>1, EndFrees
  <2>3. QED
    <3> DEFINE i == inv[p]
    <3>1. /\ i \in Invitation /\ place[PlaceOf(i)] = Null /\ PlaceOf(i) \in Place
          /\ status'[i] = "REDEEMED" /\ \A j \in Invitation : j # i => status'[j] = status[j]
          /\ \A e \in Email : role'[e] = IF e = EmailOf[i] THEN "STUDENT" ELSE role[e]
          /\ \A ec \in Place : place'[ec] = IF ec = PlaceOf(i) THEN i ELSE place[ec]
      BY <1>10, CommitWrites DEF TypeOK
    <3> HIDE DEF i
    <3>2. \A q \in Proc : q # p /\ pc[q] \in Holding => inv[q] # i
      BY <2>1 DEF i
    <3>3. \A q \in Proc : q # p => placeHolder[PlaceOf(i)] # q /\ keyHolder[EmailOf[i]] # q
      BY <2>1, <3>1 DEF i
    <3>4. RequestKnown'
      BY <2>1, <2>2, <3>1, <3>2 DEF FreedBy
    <3>5. RowHeld'
      BY <2>1, <2>2, <3>1, <3>2 DEF FreedBy
    <3>6. KeyHeld'
      BY <2>1, <2>2, <3>1, <3>3 DEF FreedBy
    <3>7. PlaceHeld'
      BY <2>1, <2>2, <3>1, <3>3 DEF FreedBy
    <3>8. StudentKnown'
      BY <2>1, <2>2, <3>1, <3>3, NullAssumption DEF FreedBy
    <3>9. QED
      BY <3>4, <3>5, <3>6, <3>7, <3>8
<1>11. ASSUME NEW p \in Proc, CommitAborted(p) PROVE HeldInv'
  <2>1. /\ Finish(p, "ok") /\ "ok" \in Reply /\ UNCHANGED <<status, expired, role, place>>
    BY <1>11 DEF CommitAborted, Reply
  <2>2. FreedBy(p)
    BY <2>1, EndFrees
  <2>3. QED
    BY <2>1, <2>2 DEF FreedBy
<1>12. ASSUME NEW i \in Invitation, Issue(i) PROVE HeldInv'
  BY <1>12 DEF Issue, TypeOK
<1>13. ASSUME NEW i \in Invitation, Expire(i) PROVE HeldInv'
  BY <1>13 DEF Expire
<1>14. ASSUME NEW e \in Email, SignUp(e) PROVE HeldInv'
  BY <1>14 DEF SignUp, TypeOK
<1>15. Crash => HeldInv'
  BY DEF Crash
<1>16. UNCHANGED vars => HeldInv'
  BY DEF vars
<1>17. QED
  BY <1>1, <1>2, <1>3, <1>5, <1>6, <1>7, <1>8, <1>9, <1>10, <1>11, <1>12, <1>13, <1>14,
     <1>15, <1>16 DEF Next, Granted, Proceed

-----------------------------------------------------------------------------
(* What is committed and what was answered.                                *)

(* Accounts keep their role, places their invitation; only a commit admits *)
(* and only a commit and a signup make accounts.                           *)
LEMMA DataSteps ==
    ASSUME IInv, [Next]_vars
    PROVE  \/ UNCHANGED <<role, place, tokens>> /\ \A i \in Invitation :
                 status'[i] = status[i] \/ (status[i] = "none" /\ status'[i] = "ISSUED")
           \/ \E e \in Email : SignUp(e)
           \/ \E p \in Proc : Commit(p) \/ CommitAborted(p)
<1>0. TypeOK
  BY DEF IInv
<1>1. ASSUME NEW p \in Proc, NEW i \in Invitation, Redeem(p, i) PROVE UNCHANGED data
  BY <1>1 DEF Redeem
<1>2. ASSUME NEW p \in Proc, Granted(p) PROVE UNCHANGED data
  BY <1>2 DEF Granted, AtomicRedeem, RedeemMatchesNothing, InsertUser, Enrol, EnrolDuplicate,
              Reject, data
<1>3. ASSUME NEW p \in Proc, Disambiguate(p) \/ FindNobody(p) \/ FindExisting(p) \/ Fail(p)
      PROVE  UNCHANGED data
  BY <1>3 DEF Disambiguate, FindNobody, FindExisting, Fail, Reject, data
<1>4. ASSUME NEW i \in Invitation, Issue(i) \/ Expire(i)
      PROVE  UNCHANGED <<role, place, tokens>> /\ \A j \in Invitation :
                 status'[j] = status[j] \/ (status[j] = "none" /\ status'[j] = "ISSUED")
  BY <1>0, <1>4 DEF Issue, Expire, TypeOK
<1>5. Crash \/ UNCHANGED vars => UNCHANGED data
  BY DEF Crash, vars
<1>6. QED
  BY <1>1, <1>2, <1>3, <1>4, <1>5 DEF Next, Proceed, data

LEMMA WholeStep ==
    ASSUME IInv, [Next]_vars
    PROVE  AllOrNothing' /\ TokensAreTrue'
<1>0. TypeOK /\ AllOrNothing /\ TokensAreTrue
  BY DEF IInv
<1>1. CASE UNCHANGED <<role, place, tokens>> /\ \A i \in Invitation :
                 status'[i] = status[i] \/ (status[i] = "none" /\ status'[i] = "ISSUED")
  BY <1>0, <1>1 DEF AllOrNothing, TokensAreTrue
<1>2. ASSUME NEW e \in Email, SignUp(e) PROVE AllOrNothing' /\ TokensAreTrue'
  <2>1. /\ role[e] = Null /\ role'[e] = "PARENT" /\ \A f \in Email : f # e => role'[f] = role[f]
        /\ tokens' = tokens \union {TokenFor(e, "PARENT")} /\ UNCHANGED <<status, place>>
    BY <1>0, <1>2 DEF SignUp, TypeOK
  <2>2. AllOrNothing'
    BY <1>0, <2>1, PlaceTyped DEF AllOrNothing
  <2>3. TokensAreTrue'
    BY <1>0, <2>1, TokenTyped DEF TokensAreTrue, TypeOK, LMS!Token
  <2>4. QED
    BY <2>2, <2>3
<1>3. ASSUME NEW p \in Proc, Commit(p) PROVE AllOrNothing' /\ TokensAreTrue'
  <2> DEFINE i == inv[p]
  <2>1. /\ i \in Invitation /\ place[PlaceOf(i)] = Null /\ status[i] = "ISSUED"
        /\ EmailOf[i] \in Email /\ role[EmailOf[i]] \in {Null, "STUDENT"}
        /\ tokens' = tokens \union {TokenFor(EmailOf[i], "STUDENT")}
        /\ \A j \in Invitation : status'[j] = IF j = i THEN "REDEEMED" ELSE status[j]
        /\ \A e \in Email : role'[e] = IF e = EmailOf[i] THEN "STUDENT" ELSE role[e]
        /\ \A ec \in Place : place'[ec] = IF ec = PlaceOf(i) THEN i ELSE place[ec]
    BY <1>0, <1>3, CommitWrites DEF TypeOK
  <2> HIDE DEF i
  <2>2. AllOrNothing'
    BY <1>0, <2>1, PlaceTyped DEF AllOrNothing
  <2>3. TokensAreTrue'
    <3>1. ASSUME NEW t \in tokens PROVE t.email \in Email /\ role[t.email] = t.role /\ t.role # Null
      BY <1>0, <3>1 DEF TokensAreTrue, TypeOK, LMS!Token
    <3>2. ASSUME NEW t \in tokens PROVE role'[t.email] = t.role
      BY <2>1, <3>1
    <3>3. QED
      BY <2>1, <3>2, TokenTyped DEF TokensAreTrue
  <2>4. QED
    BY <2>2, <2>3
<1>4. ASSUME NEW p \in Proc, CommitAborted(p) PROVE AllOrNothing' /\ TokensAreTrue'
  <2>1. /\ inv[p] \in Invitation /\ EmailOf[inv[p]] \in Email /\ role[EmailOf[inv[p]]] = "STUDENT"
        /\ tokens' = tokens \union {TokenFor(EmailOf[inv[p]], "STUDENT")}
        /\ UNCHANGED <<status, role, place>>
    BY <1>4, PlaceTyped DEF CommitAborted, IInv, HeldInv, RequestKnown, StudentKnown
  <2>2. QED
    BY <1>0, <2>1, TokenTyped DEF AllOrNothing, TokensAreTrue
<1>5. QED
  BY <1>1, <1>2, <1>3, <1>4, DataSteps

(* Who was answered "ok" stays what the answer made of him.                *)
LEMMA AnswerStep ==
    ASSUME IInv, [Next]_vars
    PROVE  AnsweredInv'
<1>0. TypeOK /\ AnsweredInv /\ RequestKnown /\ StudentKnown
  BY DEF IInv, HeldInv
<1> DEFINE Admitted(i) == /\ i \in Invitation
                          /\ role'[EmailOf[i]] = "STUDENT"
                          /\ place'[PlaceOf(i)] # Null
<1>1. ASSUME NEW q \in Proc, reply'[q] = "ok"
      PROVE  \/ reply[q] = "ok" /\ inv'[q] = inv[q]
             \/ inv'[q] = inv[q] /\ (Commit(q) \/ CommitAborted(q))
  <2> DEFINE Stays == reply[q] = "ok" /\ inv'[q] = inv[q]
  <2>1. ASSUME NEW p \in Proc, NEW i \in Invitation, Redeem(p, i) PROVE Stays
    BY <1>0, <1>1, <2>1 DEF Redeem, TypeOK
  <2>2. ASSUME NEW p \in Proc, NEW r \in Reply, r # "ok", Reject(p, r) PROVE Stays
    <3>1. inv' = inv /\ reply' = [reply EXCEPT ![p] = r]
      BY <1>0, <2>2, Ended DEF Reject
    <3>2. QED
      BY <1>0, <1>1, <2>2, <3>1 DEF TypeOK
  <2>3. ASSUME NEW p \in Proc, AtomicRedeem(p) \/ RedeemMatchesNothing(p) \/ InsertUser(p)
                               \/ Enrol(p) \/ EnrolDuplicate(p) \/ Disambiguate(p)
                               \/ FindNobody(p) \/ FindExisting(p) \/ Fail(p)
        PROVE  UNCHANGED <<reply, inv>> \/ \E r \in Reply \ {"ok"} : Reject(p, r)
    BY <2>3 DEF AtomicRedeem, RedeemMatchesNothing, InsertUser, Enrol, EnrolDuplicate,
                Disambiguate, FindNobody, FindExisting, Fail, Reply
  <2>4. ASSUME NEW p \in Proc, Commit(p) \/ CommitAborted(p)
        PROVE  inv'[q] = inv[q] /\ (Stays \/ p = q)
    <3>1. inv' = inv /\ reply' = [reply EXCEPT ![p] = "ok"]
      BY <2>4 DEF Commit, CommitAborted, Finish
    <3>2. QED
      BY <1>0, <1>1, <3>1 DEF TypeOK
  <2>5. Crash => FALSE
    BY <1>1 DEF Crash
  <2>6. (\E i \in Invitation : Issue(i) \/ Expire(i)) \/ (\E e \in Email : SignUp(e))
        \/ UNCHANGED vars => UNCHANGED <<reply, inv>>
    BY DEF Issue, Expire, SignUp, vars
  <2>7. QED
    BY <1>1, <2>1, <2>2, <2>3, <2>4, <2>5, <2>6 DEF Next, Granted, Proceed
<1>2. ASSUME NEW i \in Invitation, role[EmailOf[i]] = "STUDENT", place[PlaceOf(i)] # Null
      PROVE  Admitted(i)
  <2>1. ASSUME NEW e \in Email, SignUp(e) PROVE Admitted(i)
    BY <1>0, <1>2, <2>1, PlaceTyped DEF SignUp, TypeOK
  <2>2. ASSUME NEW p \in Proc, Commit(p) PROVE Admitted(i)
    BY <1>0, <1>2, <2>2, PlaceTyped, CommitWrites DEF TypeOK
  <2>3. ASSUME NEW p \in Proc, CommitAborted(p) PROVE Admitted(i)
    BY <1>2, <2>3 DEF CommitAborted
  <2>4. QED
    BY <1>2, <2>1, <2>2, <2>3, DataSteps
<1>3. ASSUME NEW p \in Proc, Commit(p) PROVE Admitted(inv[p])
  BY <1>0, <1>3, PlaceTyped, CommitWrites DEF TypeOK
<1>4. ASSUME NEW p \in Proc, CommitAborted(p) PROVE Admitted(inv[p])
  BY <1>0, <1>4 DEF CommitAborted, RequestKnown, StudentKnown
<1>5. QED
  BY <1>0, <1>1, <1>2, <1>3, <1>4 DEF AnsweredInv

LEMMA Inductive == Spec => []IInv
<1>1. IInv /\ [Next]_vars => IInv'
  BY TypeStep, HeldStep, WholeStep, AnswerStep DEF IInv
<1>2. QED
  BY InitIInv, <1>1, PTL DEF Spec

(* Every variable keeps its type. *)
THEOREM TypeCorrect == Spec => []TypeOK
<1>1. IInv => TypeOK
  BY DEF IInv
<1>2. QED
  BY <1>1, Inductive, PTL

(* Whatever races and fails between its statements, an invitation is used  *)
(* exactly when it opened a place, for a student (redeemInTransaction).    *)
THEOREM RedemptionIsWhole == Spec => []AllOrNothing
<1>1. IInv => AllOrNothing
  BY DEF IInv
<1>2. QED
  BY <1>1, Inductive, PTL

(* An access token never outlives a rollback, nor names a role its account *)
(* does not have, although the guards never look (issueToken, RolesGuard). *)
THEOREM TokensNameAccounts == Spec => []TokensAreTrue
<1>1. IInv => TokensAreTrue
  BY DEF IInv
<1>2. QED
  BY <1>1, Inductive, PTL

(* With the account and the place, every guard and check lets the student  *)
(* through to the lessons of the course.                                   *)
LEMMA StudentGetsIn ==
    ASSUME NEW i \in Invitation, place[PlaceOf(i)] # Null
    PROVE  LET token == TokenFor(EmailOf[i], "STUDENT") IN
           /\ CourseOf[i] \in LMS!MyCourses(token)
           /\ LMS!ListLessons(token, CourseOf[i]) = "lessons"
           /\ LMS!GetLesson(token, CourseOf[i]) = "lesson"
<1> DEFINE token == TokenFor(EmailOf[i], "STUDENT")
<1>1. /\ token \in LMS!Token /\ token.email = EmailOf[i]
      /\ token.role = "STUDENT" /\ token.state = "valid"
  BY PlaceTyped, TokenTyped
<1>2. token # Null /\ CourseOf[i] \in Course /\ CourseOf[i] # Null
  BY <1>1, PlaceTyped, TokenAssumption
<1> HIDE DEF token
<1>3. LMS!Guards(token, {"STUDENT"}) = "pass"
  BY <1>1, <1>2 DEF LMS!Guards, LMS!Authentication, LMS!Authorisation
<1>4. LMS!Enrolled(token.email, CourseOf[i])
  BY <1>1 DEF LMS!Enrolled, PlaceOf
<1>5. QED
  BY <1>2, <1>3, <1>4 DEF token, LMS!MyCourses, LMS!ListLessons, LMS!GetLesson, LMS!Enrolled,
     LMS!findLessonById, LMS!findLessonsForCourse, LMS!findEnrolledCoursesForUser

(* Whoever a redemption logged in can open the course, for as long as the  *)
(* answer is remembered and whatever others do (redeemForExistingUser).    *)
THEOREM LoginOpensTheCourse == Spec => []LoginOpensCourse
<1>1. IInv => LoginOpensCourse
  BY StudentGetsIn DEF IInv, AnsweredInv, LoginOpensCourse
<1>2. QED
  BY <1>1, Inductive, PTL

-----------------------------------------------------------------------------
(* Answers, and Admissions.                                                *)

(* A refusal is true when it is given, though it rests on a second read    *)
(* outside the transaction (resolveOrThrow, insertStudentUser).            *)
THEOREM RefusalsAreTrue == Spec => RefusalIsTrue
<1> DEFINE True(p) ==
        /\ reply'[p] = "EXPIRED" => status[inv[p]] = "ISSUED" /\ inv[p] \in expired
        /\ reply'[p] = "EMAIL_CONFLICT" => role[EmailOf[inv[p]]] # Null
<1>1. ASSUME IInv, [Next]_vars, NEW q \in Proc, reply[q] = "none"
      PROVE  True(q)
  <2>0. TypeOK /\ RequestKnown
    BY <1>1 DEF IInv, HeldInv
  <2>1. ASSUME reply'[q] \in {"none", "ok", "error"} PROVE True(q)
    BY <2>1
  <2>2. CASE reply' = reply
    BY <1>1, <2>1, <2>2
  <2>3. ASSUME NEW p \in Proc, NEW r \in Reply, Finish(p, r)
        PROVE  reply'[q] = IF q = p THEN r ELSE "none"
    BY <1>1, <2>0, <2>3, Ended DEF TypeOK
  <2>4. ASSUME NEW p \in Proc, NEW i \in Invitation, Redeem(p, i) PROVE reply'[q] = "none"
    BY <1>1, <2>0, <2>4 DEF Redeem, TypeOK
  <2>5. ASSUME NEW p \in Proc, Disambiguate(p) PROVE True(q)
    <3>1. PICK r \in Reply : /\ Finish(p, r)
                             /\ r # "EMAIL_CONFLICT"
                             /\ r = "EXPIRED" => status[inv[p]] \notin {"none", "REDEEMED"}
      BY <2>5 DEF Disambiguate, Reject, Reply
    <3>2. r = "EXPIRED" => status[inv[p]] = "ISSUED" /\ inv[p] \in expired
      BY <2>0, <2>5, <3>1 DEF Disambiguate, RequestKnown, TypeOK
    <3>3. QED
      BY <2>3, <3>1, <3>2
  <2>6. ASSUME NEW p \in Proc, InsertUser(p) \/ FindExisting(p) PROVE True(q)
    <3>1. \/ reply' = reply
          \/ Finish(p, "EMAIL_CONFLICT") /\ role[EmailOf[inv[p]]] # Null
      BY <2>6 DEF InsertUser, FindExisting, Reject
    <3>2. QED
      BY <2>2, <2>3, <3>1 DEF Reply
  <2>7. ASSUME NEW p \in Proc, FindNobody(p) \/ Fail(p) \/ Commit(p) \/ CommitAborted(p)
        PROVE  True(q)
    <3>1. reply' = reply \/ \E r \in {"VALIDATION_FAILED", "ok", "error"} : Finish(p, r)
      BY <2>7 DEF FindNobody, Fail, Commit, CommitAborted, Reject
    <3>2. QED
      BY <2>2, <2>3, <3>1 DEF Reply
  <2>8. ASSUME NEW p \in Proc, AtomicRedeem(p) \/ RedeemMatchesNothing(p) \/ Enrol(p)
                               \/ EnrolDuplicate(p)
        PROVE  reply' = reply
    BY <2>8 DEF AtomicRedeem, RedeemMatchesNothing, Enrol, EnrolDuplicate
  <2>9. (\E i \in Invitation : Issue(i) \/ Expire(i)) \/ (\E e \in Email : SignUp(e))
        \/ UNCHANGED vars => reply' = reply
    BY DEF Issue, Expire, SignUp, vars
  <2>10. Crash => reply'[q] = "none"
    BY DEF Crash
  <2>11. QED
    BY <1>1, <2>1, <2>2, <2>4, <2>5, <2>6, <2>7, <2>8, <2>9, <2>10
       DEF Next, Granted, Proceed
<1>2. IInv /\ [Next]_vars => [\A p \in Proc : reply[p] = "none" => True(p)]_vars
  BY <1>1
<1>3. QED
  BY <1>2, Inductive, PTL DEF Spec, RefusalIsTrue

LEMMA StepAdmits == IInv /\ [Next]_vars => [A!Next]_(A!admissionVars)
<1> SUFFICES ASSUME IInv, [Next]_vars PROVE [A!Next]_(A!admissionVars)
  OBVIOUS
<1> DEFINE used == {i \in Invitation : status[i] = "REDEEMED"}
<1>0. TypeOK
  BY DEF IInv
<1>1. ASSUME UNCHANGED <<role, place, tokens>>, \A i \in Invitation :
               status'[i] = status[i] \/ (status[i] = "none" /\ status'[i] = "ISSUED")
      PROVE  UNCHANGED A!admissionVars
  BY <1>1 DEF A!admissionVars
<1>2. ASSUME NEW e \in Email, SignUp(e) PROVE A!Next
  BY <1>2 DEF SignUp, A!SignUp, A!Next
<1>3. ASSUME NEW p \in Proc, Commit(p) PROVE A!Next
  <2>1. PICK j \in Invitation :
              /\ status[j] = "ISSUED" /\ place[PlaceOf(j)] = Null
              /\ role[EmailOf[j]] \in {Null, "STUDENT"}
              /\ status' = [status EXCEPT ![j] = "REDEEMED"]
              /\ role' = [role EXCEPT ![EmailOf[j]] = "STUDENT"]
              /\ place' = [place EXCEPT ![PlaceOf(j)] = j]
    BY <1>3, CommitWrites
  <2>2. used' = used \union {j} /\ j \notin used
    BY <1>0, <2>1 DEF TypeOK
  <2>3. A!Admit(j)
    BY <2>1, <2>2 DEF A!Admit, PlaceOf
  <2>4. QED
    BY <2>3 DEF A!Next
<1>4. ASSUME NEW p \in Proc, CommitAborted(p) PROVE UNCHANGED A!admissionVars
  BY <1>4 DEF CommitAborted, A!admissionVars
<1>5. QED
  BY <1>1, <1>2, <1>3, <1>4, DataSteps

(* Redemption's many statements and other people's in between amount to    *)
(* single steps that admit a student once (redeemInTransaction).           *)
THEOREM RedemptionAdmits == Spec => ImplementsAdmissions
<1>1. Init => A!Init
  BY DEF Init, A!Init, Place
<1>2. IInv /\ [Next]_vars => IInv'
  BY TypeStep, HeldStep, WholeStep, AnswerStep DEF IInv
<1>3. QED
  BY <1>1, <1>2, InitIInv, StepAdmits, PTL DEF Spec, ImplementsAdmissions, A!Spec

-----------------------------------------------------------------------------
(* The onboarding page: whatever the tab does is a request somebody could  *)
(* have made, so that Redemption's theorems hold with it.                  *)

USE LinkAssumption

LEMMA PageStepIsServerStep == [OnboardingNext]_onboardingVars => [Next]_vars
<1> SUFFICES ASSUME [OnboardingNext]_onboardingVars PROVE [Next]_vars
  OBVIOUS
<1>1. ASSUME ServerStep PROVE Next
  BY <1>1 DEF ServerStep, ProceedAsSent, Next
<1>2. ASSUME NEW p \in Proc, SubmitForm(p) PROVE Next
  BY <1>2 DEF SubmitForm, Next
<1>3. ASSUME NEW p \in Proc, NEW i \in ApiLinks, ApiRedeem(p, i) PROVE Next
  BY <1>3 DEF ApiRedeem, Next
<1>4. OpenLink \/ ReadInvitation \/ ReadAccount \/ PreviewFails \/ FormAnswered
      \/ FormLosesAnswer \/ UNCHANGED onboardingVars => UNCHANGED vars
  BY DEF OpenLink, ReadInvitation, ReadAccount, PreviewFails, FormAnswered, FormLosesAnswer,
         Show, onboardingVars
<1>5. QED
  BY <1>1, <1>2, <1>3, <1>4 DEF OnboardingNext

LEMMA OnboardingInductive == OnboardingSpec => []IInv
<1>1. OnboardingSpec => Spec
  BY PageStepIsServerStep, PTL DEF OnboardingSpec, OnboardingInit, Spec
<1>2. QED
  BY <1>1, Inductive, PTL

View == {"loading", "readIssued", "readRedeemed", "invalid", "used", "expired", "new",
         "existing", "lms"}

PageType == page \in [at : View, request : Proc \union {Null}]

LEMMA PageTypeStep ==
    ASSUME TypeOK, PageType, [OnboardingNext]_onboardingVars
    PROVE  PageType'
<1> USE DEF PageType, View, Show, At, Submitting
<1>1. ASSUME NEW p \in Proc, SubmitForm(p) PROVE PageType'
  BY <1>1 DEF SubmitForm
<1>2. ReadInvitation => PageType'
  BY DEF ReadInvitation, TypeOK
<1>3. FormAnswered \/ FormLosesAnswer => PageType'
  BY DEF FormAnswered, FormLosesAnswer
<1>4. OpenLink \/ ReadAccount \/ PreviewFails => PageType'
  BY DEF OpenLink, ReadAccount, PreviewFails
<1>5. ServerStep \/ UNCHANGED onboardingVars \/ (\E p \in Proc, i \in ApiLinks : ApiRedeem(p, i))
      => UNCHANGED page
  BY DEF ServerStep, onboardingVars, ApiRedeem
<1>6. QED
  BY <1>1, <1>2, <1>3, <1>4, <1>5 DEF OnboardingNext

(* Every variable of the composition keeps its type. *)
THEOREM OnboardingTypeCorrect == OnboardingSpec => []OnboardingTypeOK
<1>1. OnboardingInit => PageType
  BY DEF OnboardingInit, PageType, At, View
<1>2. IInv /\ PageType /\ [OnboardingNext]_onboardingVars => PageType'
  BY PageTypeStep DEF IInv
<1>3. IInv /\ PageType => OnboardingTypeOK
  BY DEF IInv, PageType, View, OnboardingTypeOK
<1>4. QED
  BY <1>1, <1>2, <1>3, OnboardingInductive, PTL DEF OnboardingSpec

(* What the page was built from is final, and a request it awaits presents *)
(* its link, unless the process died since.                                *)
PageInv ==
    /\ page.at \in {"used", "lms"} => place[PlaceOf(Link)] # Null
    /\ page.at \in {"used", "readRedeemed"} => status[Link] = "REDEEMED"
    /\ page.at = "expired" => Link \in expired
    /\ page.at = "existing" => role[EmailOf[Link]] = "STUDENT"
    /\ page.request # Null =>
          /\ page.at \in {"new", "existing"}
          /\ reply[page.request] # "VALIDATION_FAILED"
          /\ \/ inv[page.request] = Link
             \/ pc[page.request] = "idle" /\ reply[page.request] = "none"

LEMMA FactsAreFinal ==
    ASSUME IInv, [Next]_vars, NEW i \in Invitation
    PROVE  /\ place[PlaceOf(i)] # Null => place'[PlaceOf(i)] # Null
           /\ status[i] = "REDEEMED" => status'[i] = "REDEEMED"
           /\ i \in expired => i \in expired'
           /\ role[EmailOf[i]] = "STUDENT" => role'[EmailOf[i]] = "STUDENT"
<1> DEFINE Final == /\ place[PlaceOf(i)] # Null => place'[PlaceOf(i)] # Null
                    /\ status[i] = "REDEEMED" => status'[i] = "REDEEMED"
                    /\ role[EmailOf[i]] = "STUDENT" => role'[EmailOf[i]] = "STUDENT"
<1>0. TypeOK
  BY DEF IInv
<1>1. Final
  <2>1. ASSUME NEW e \in Email, SignUp(e) PROVE Final
    BY <1>0, <2>1, PlaceTyped DEF SignUp, TypeOK
  <2>2. ASSUME NEW p \in Proc, Commit(p) PROVE Final
    BY <1>0, <2>2, PlaceTyped, CommitWrites DEF TypeOK
  <2>3. ASSUME NEW p \in Proc, CommitAborted(p) PROVE Final
    BY <2>3 DEF CommitAborted
  <2>4. QED
    BY <2>1, <2>2, <2>3, DataSteps
<1>2. expired \subseteq expired'
  BY DEF Next, vars, data, Granted, Proceed, Redeem, AtomicRedeem, RedeemMatchesNothing, InsertUser,
         Enrol, EnrolDuplicate, Disambiguate, FindNobody, FindExisting, Commit, CommitAborted,
         Fail, Reject, Issue, Expire, SignUp, Crash
<1>3. QED
  BY <1>1, <1>2

(* How an awaited request moves; nobody else presents anything in its name.*)
LEMMA AwaitedStep ==
    ASSUME IInv, PageType, PageInv, NEW p \in Proc, page.request = p,
           ServerStep \/ \E q \in Proc, i \in ApiLinks : ApiRedeem(q, i)
    PROVE  /\ reply'[p] # "VALIDATION_FAILED"
           /\ \/ inv'[p] = Link
              \/ pc'[p] = "idle" /\ reply'[p] = "none"
<1> DEFINE Stays == inv'[p] = inv[p] /\ pc'[p] = pc[p] /\ reply'[p] = reply[p]
           Goes == inv'[p] = inv[p] /\ pc[p] # "idle" /\ reply'[p] # "VALIDATION_FAILED"
<1>0. TypeOK /\ RequestKnown /\ p # Null
  BY DEF IInv, HeldInv
<1>1. ASSUME NEW q \in Proc, NEW i \in ApiLinks, ApiRedeem(q, i) PROVE Stays
  BY <1>0, <1>1 DEF ApiRedeem, Redeem, TypeOK, GoTo
<1>2. ASSUME NEW q \in Proc, Granted(q) PROVE Stays \/ Goes
  <2>1. ASSUME Reject(q, "EMAIL_CONFLICT"), pc[q] # "idle" PROVE Stays \/ Goes
    <3>1. /\ pc' = [pc EXCEPT ![q] = "idle"] /\ inv' = inv
          /\ reply' = [reply EXCEPT ![q] = "EMAIL_CONFLICT"]
      BY <1>0, <2>1, Ended DEF Reject, Reply
    <3>2. QED
      BY <1>0, <2>1, <3>1 DEF TypeOK
  <2>2. CASE ~Reject(q, "EMAIL_CONFLICT")
    <3>1. /\ pc[q] # "idle" /\ reply' = reply /\ inv' = inv
          /\ \A r \in Proc : r # q => pc'[r] = pc[r]
      BY <1>0, <1>2, <2>2 DEF Granted, AtomicRedeem, RedeemMatchesNothing, InsertUser, Enrol,
                              EnrolDuplicate, GoTo, TypeOK
    <3>2. QED
      BY <3>1 DEF PageInv
  <2>3. QED
    BY <1>2, <2>1, <2>2 DEF Granted, AtomicRedeem, RedeemMatchesNothing, InsertUser, Enrol,
                            EnrolDuplicate
<1>3. ASSUME NEW q \in Proc, ProceedAsSent(q) \/ Fail(q) PROVE Stays \/ Goes
  <2>1. pc[q] # "idle"
    BY <1>3 DEF ProceedAsSent, Proceed, Disambiguate, FindNobody, FindExisting, Commit,
                CommitAborted, Fail
  <2>2. ASSUME NEW r \in Reply, Finish(q, r), r # "VALIDATION_FAILED" PROVE Stays \/ Goes
    <3>1. /\ pc' = [pc EXCEPT ![q] = "idle"] /\ inv' = inv
          /\ reply' = [reply EXCEPT ![q] = r]
      BY <1>0, <2>2, Ended
    <3>2. QED
      BY <1>0, <2>1, <2>2, <3>1 DEF TypeOK
  <2>4. ASSUME FindNobody(q), FieldsAsSent(q) PROVE Stays \/ Goes
    <3>1. CASE Reject(q, "VALIDATION_FAILED")
      <4>1. /\ pc' = [pc EXCEPT ![q] = "idle"] /\ inv' = inv
            /\ reply' = [reply EXCEPT ![q] = "VALIDATION_FAILED"]
        BY <1>0, <3>1, Ended DEF Reject, Reply
      <4>2. q # p
        <5>1. ASSUME q = p PROVE FALSE
          <6>1. page.at \in {"new", "existing"} /\ inv[p] = Link
            BY <1>0, <2>1, <5>1 DEF PageInv
          <6>2. page.at # "existing"
            BY <2>4, <5>1, <6>1 DEF FindNobody, PageInv
          <6>3. page = Submitting("new", p)
            BY <6>1, <6>2 DEF PageType, Submitting
          <6>4. QED
            BY <1>0, <2>4, <4>1, <5>1, <6>3 DEF FieldsAsSent, TypeOK
        <5>2. QED
          BY <5>1
      <4>3. QED
        BY <1>0, <4>1, <4>2 DEF TypeOK
    <3>2. CASE ~Reject(q, "VALIDATION_FAILED")
      <4>1. GoTo(q, "insertUser") /\ UNCHANGED <<inv, reply>>
        BY <2>4, <3>2 DEF FindNobody
      <4>2. QED
        BY <1>0, <2>1, <4>1 DEF GoTo, TypeOK, PageInv
    <3>3. QED
      BY <3>1, <3>2
  <2>5. ASSUME FindExisting(q) PROVE Stays \/ Goes
    <3>1. CASE GoTo(q, "enrolExisting") /\ UNCHANGED <<inv, reply>>
      BY <1>0, <2>1, <3>1 DEF GoTo, TypeOK, PageInv
    <3>2. CASE Finish(q, "EMAIL_CONFLICT")
      BY <2>2, <3>2 DEF Reply
    <3>3. QED
      BY <2>5, <3>1, <3>2 DEF FindExisting, Reject
  <2>6. ASSUME Disambiguate(q) \/ Commit(q) \/ CommitAborted(q) \/ Fail(q) PROVE Stays \/ Goes
    <3>1. \E r \in Reply \ {"VALIDATION_FAILED"} : Finish(q, r)
      BY <2>6 DEF Disambiguate, Commit, CommitAborted, Fail, Reject, Reply
    <3>2. QED
      BY <2>2, <3>1
  <2>7. QED
    BY <1>3, <2>4, <2>5, <2>6 DEF ProceedAsSent, Proceed
<1>4. (\E i \in Invitation : Issue(i) \/ Expire(i)) \/ (\E e \in Email : SignUp(e)) => Stays
  BY DEF Issue, Expire, SignUp
<1>5. Crash => pc'[p] = "idle" /\ reply'[p] = "none"
  BY DEF Crash
<1>6. Stays \/ Goes \/ (pc'[p] = "idle" /\ reply'[p] = "none")
  BY <1>1, <1>2, <1>3, <1>4, <1>5 DEF ServerStep
<1>7. QED
  BY <1>0, <1>6 DEF PageInv

LEMMA PageStep ==
    ASSUME IInv, IInv', PageType, PageInv, [OnboardingNext]_onboardingVars
    PROVE  PageInv'
<1>0. TypeOK /\ RequestKnown /\ Link \in Invitation
  BY DEF IInv, HeldInv
<1>1. [Next]_vars
  BY PageStepIsServerStep
<1>2. /\ place[PlaceOf(Link)] # Null => place'[PlaceOf(Link)] # Null
      /\ status[Link] = "REDEEMED" => status'[Link] = "REDEEMED"
      /\ Link \in expired => Link \in expired'
      /\ role[EmailOf[Link]] = "STUDENT" => role'[EmailOf[Link]] = "STUDENT"
  BY <1>0, <1>1, FactsAreFinal
<1> USE DEF PageInv, Show, At, Submitting
<1>3. ASSUME UNCHANGED page, ServerStep \/ \E q \in Proc, i \in ApiLinks : ApiRedeem(q, i)
      PROVE  PageInv'
  <2>1. ASSUME page.request # Null
        PROVE  /\ reply'[page.request] # "VALIDATION_FAILED"
               /\ inv'[page.request] = Link
                  \/ (pc'[page.request] = "idle" /\ reply'[page.request] = "none")
    <3>1. PICK p \in Proc : page.request = p
      BY <2>1 DEF PageType
    <3>2. QED
      BY <1>3, <3>1, AwaitedStep
  <2>2. QED
    BY <1>2, <1>3, <2>1
<1>4. ASSUME NEW p \in Proc, SubmitForm(p) PROVE PageInv'
  <2>1. /\ page.at \in {"new", "existing"} /\ page' = [at |-> page.at, request |-> p]
        /\ inv'[p] = Link /\ reply'[p] = "none"
    BY <1>0, <1>4 DEF SubmitForm, Redeem, TypeOK
  <2>2. page'.at = page.at /\ page'.request = p
    BY <2>1
  <2>3. QED
    BY <1>2, <2>1, <2>2
<1>5. ASSUME NEW view, Show(view) PROVE page'.at = view /\ page'.request = Null /\ UNCHANGED vars
  BY <1>5
<1>6. OpenLink \/ PreviewFails => PageInv'
  BY <1>5 DEF OpenLink, PreviewFails
<1>7. ASSUME ReadInvitation PROVE PageInv'
  <2>1. PICK view \in {"invalid", "readIssued", "readRedeemed"} :
            /\ Show(view)
            /\ view = "readRedeemed" => status[Link] = "REDEEMED"
    BY <1>0, <1>7 DEF ReadInvitation, TypeOK
  <2>2. page'.at = view /\ page'.request = Null /\ status' = status
    BY <1>5, <2>1 DEF vars, data
  <2>3. QED
    BY <2>1, <2>2
<1>8. ASSUME ReadAccount PROVE PageInv'
  <2>1. PICK view \in {"used", "expired", "existing", "new"} :
            /\ Show(view)
            /\ view = "used" => status[Link] = "REDEEMED"
            /\ view = "expired" => Link \in expired
            /\ view = "existing" => role[EmailOf[Link]] = "STUDENT"
    BY <1>8 DEF ReadAccount
  <2>2. /\ page'.at = view /\ page'.request = Null
        /\ status' = status /\ expired' = expired /\ role' = role /\ place' = place
    BY <1>5, <2>1 DEF vars, data
  <2>3. view = "used" => place[PlaceOf(Link)] # Null
    BY <1>0, <2>1 DEF IInv, AllOrNothing
  <2>4. QED
    BY <2>1, <2>2, <2>3
<1>9. ASSUME FormAnswered PROVE PageInv'
  <2>1. PICK p \in Proc : page.request = p
    BY <1>9 DEF FormAnswered, PageType
  <2>2. CASE reply[p] = "ok"
    <3>1. place[PlaceOf(Link)] # Null
      BY <1>9, <2>1, <2>2 DEF FormAnswered, IInv, AnsweredInv
    <3>2. page'.at = "lms" /\ page'.request = Null /\ place' = place
      BY <1>5, <1>9, <2>1, <2>2 DEF FormAnswered, vars, data
    <3>3. QED
      BY <3>1, <3>2
  <2>3. CASE reply[p] # "ok"
    <3>1. /\ page.at \in {"new", "existing"}
          /\ page'.at = page.at /\ page'.request = Null
      BY <1>5, <1>9, <2>1, <2>3 DEF FormAnswered
    <3>2. QED
      BY <1>2, <3>1
  <2>4. QED
    BY <2>2, <2>3
<1>10. ASSUME FormLosesAnswer PROVE PageInv'
  <2>1. page'.at = page.at /\ page'.request = Null
    BY <1>5, <1>10 DEF FormLosesAnswer
  <2>2. QED
    BY <1>2, <2>1
<1>11. CASE UNCHANGED onboardingVars
  BY <1>11 DEF onboardingVars, vars, data
<1>12. ServerStep \/ (\E q \in Proc, i \in ApiLinks : ApiRedeem(q, i)) => UNCHANGED page
  BY DEF ServerStep, ApiRedeem
<1>13. QED
  BY <1>3, <1>4, <1>6, <1>7, <1>8, <1>9, <1>10, <1>11, <1>12 DEF OnboardingNext

(* However long the page is looked at and whoever redeems meanwhile, what  *)
(* its two unlocked reads made it say is true (getMetaByToken,             *)
(* OnboardPage).                                                           *)
THEOREM ThePageIsTrue == OnboardingSpec => []PageIsTrue
<1>1. OnboardingInit => PageType /\ PageInv
  BY DEF OnboardingInit, PageType, PageInv, At, View
<1>2. IInv /\ IInv' /\ PageType /\ PageInv /\ [OnboardingNext]_onboardingVars
        => PageType' /\ PageInv'
  BY PageTypeStep, PageStep DEF IInv
<1>3. PageInv => PageIsTrue
  <2>1. place[PlaceOf(Link)] # Null =>
          CourseOf[Link] \in LMS!MyCourses(TokenFor(EmailOf[Link], "STUDENT"))
    BY StudentGetsIn
  <2>2. QED
    BY <2>1 DEF PageInv, PageIsTrue
<1>4. QED
  BY <1>1, <1>2, <1>3, OnboardingInductive, PTL DEF OnboardingSpec
====
