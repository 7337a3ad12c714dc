------------------------- MODULE RefreshTokens_proofs -------------------------
(***************************************************************************)
(* For any number of tokens, requests and user agents and any time         *)
(* constants with Grace <= RetainRevoked, every safety property of         *)
(* RefreshTokens, and that rotation implements Sessions.                   *)
(*                                                                         *)
(* The invariants are inductive only with facts about what a request holds *)
(* at each stage.  DataInv says which tokens exist; LockInv that a         *)
(* rotation between its SELECT ... FOR UPDATE and its COMMIT owns the row  *)
(* it is about to revoke and a successor nobody else has.  On those two    *)
(* rest ChainInv (the order of a family's links and times), and on it      *)
(* CacheInv (the grace cache), LogoutInv and WaitInv (who waits for whom). *)
(***************************************************************************)
EXTENDS RefreshTokens, TLAPS

Issued(t) == rows[t].state # "unissued"

(* Stages in which a request works on a token a client presented. *)
Presented == {"lock", "evaluate", "write", "commit", "grace", "revokeFamily",
              "lockFamily", "logout"}

TokIssued == \A p \in Proc : pc[p] \in Presented =>
                tok[p] \in Token /\ Issued(tok[p])

SuccIssued == \A p \in Proc : pc[p] \in {"respond", "grace"} =>
                succ[p] \in Token /\ Issued(succ[p])

CacheIssued == \A t \in Token : cache[t] # Null => Issued(cache[t].succ)

DataInv == TypeOK /\ TokIssued /\ SuccIssued /\ CacheIssued /\ SentIsDurable

(* A request past the SELECT owns the row; until it commits the row is     *)
(* still accepted.                                                         *)
LockHeld == \A p \in Proc :
    /\ pc[p] = "evaluate" /\ Live(tok[p]) => lock[tok[p]] = p
    /\ pc[p] \in {"write", "commit"} => lock[tok[p]] = p /\ Active(tok[p])

(* The successor of an open rotation is its own and not in the table. *)
SuccFresh == \A p \in Proc : pc[p] = "commit" =>
    /\ succ[p] \in Token
    /\ ~Issued(succ[p])
    /\ \A q \in Proc : q # p /\ pc[q] = "commit" => succ[q] # succ[p]

(* A family's first token has been issued. *)
FamilyIssued == \A t \in Token : Live(t) =>
    rows[t].family \in Token /\ Issued(rows[t].family)

LockInv == LockHeld /\ SuccFresh /\ FamilyIssued /\ OneActivePerFamily

IInv == DataInv /\ LockInv

-----------------------------------------------------------------------------
USE NullAssumption, TimeAssumption DEF Stages, Lasting, Row, CacheEntry, Presented

LEMMA InitIInv == Init => IInv
  BY DEF Init, IInv, DataInv, LockInv, TypeOK, TokIssued, SuccIssued,
         CacheIssued, SentIsDurable, LockHeld, SuccFresh, FamilyIssued,
         OneActivePerFamily, Absent, Active, Live, Issued, SameFamily
LEMMA DataStep == IInv /\ [Next]_vars => DataInv'
<1> SUFFICES ASSUME IInv, [Next]_vars PROVE DataInv'
  OBVIOUS
<1> USE DEF IInv, DataInv, TypeOK, TokIssued, SuccIssued, CacheIssued, SentIsDurable, Issued, Live, Active, GoTo, Finish, Accept, LocksWithout, LockInv, SuccFresh, Fresh, NewRow, Absent, request, table
<1>1. ASSUME NEW p \in Proc, NEW a \in Agent, Login(p, a) PROVE DataInv'
  BY <1>1 DEF Login
<1>2. ASSUME NEW p \in Proc, NEW t \in Token, NEW a \in Agent, Refresh(p, t, a) PROVE DataInv'
  BY <1>2 DEF Refresh
<1>3. ASSUME NEW p \in Proc, AcquireLock(p) PROVE DataInv'
  BY <1>3 DEF AcquireLock
<1>4. ASSUME NEW p \in Proc, EvaluateMissing(p) PROVE DataInv'
  BY <1>4 DEF EvaluateMissing
<1>5. ASSUME NEW p \in Proc, EvaluateExpired(p) PROVE DataInv'
  BY <1>5 DEF EvaluateExpired
<1>6. ASSUME NEW p \in Proc, EvaluateActive(p) PROVE DataInv'
  BY <1>6 DEF EvaluateActive
<1>7. ASSUME NEW p \in Proc, EvaluateGrace(p) PROVE DataInv'
  <2>1. tok[p] \in Token /\ Issued(tok[p])
    BY <1>7 DEF EvaluateGrace
  <2>2. cache[tok[p]] \in CacheEntry /\ Issued(cache[tok[p]].succ)
    BY <1>7, <2>1 DEF EvaluateGrace, GraceApplies
  <2>3. cache[tok[p]].succ \in Token /\ cache[tok[p]].exp \in Nat
    BY <2>2
  <2>4. TypeOK'
    BY <1>7, <2>3 DEF EvaluateGrace
  <2>5. TokIssued' /\ CacheIssued' /\ SentIsDurable'
    BY <1>7 DEF EvaluateGrace
  <2>6. SuccIssued'
    BY <1>7, <2>2, <2>3 DEF EvaluateGrace
  <2>7. QED
    BY <2>4, <2>5, <2>6
<1>8. ASSUME NEW p \in Proc, EvaluateTheft(p) PROVE DataInv'
  BY <1>8 DEF EvaluateTheft
<1>9. ASSUME NEW p \in Proc, WriteRotation(p) PROVE DataInv'
  BY <1>9 DEF WriteRotation
<1>10. ASSUME NEW p \in Proc, CommitRotation(p) PROVE DataInv'
  <2>1. tok[p] \in Token /\ succ[p] \in Token
    BY <1>10 DEF CommitRotation
  <2>2. rows' \in [Token -> Row]
    <3>1. NewRow(rows[tok[p]].family, ua[p], succExp[p]) \in Row
      BY <2>1
    <3>2. ASSUME NEW t \in Token
          PROVE [rows[t] EXCEPT !.revokedAt = begin[p],
                                !.replacedBy = succ[p]] \in Row
      <4>1. rows[t] \in Row /\ begin[p] \in Nat
        BY <2>1
      <4> HIDE DEF IInv, DataInv, TypeOK
      <4>2. QED
        BY <2>1, <4>1
    <3>3. QED
      BY <1>10, <3>1, <3>2 DEF CommitRotation
  <2>3. ASSUME NEW t \in Token
        PROVE (Issued(t) \/ t = succ[p]) => rows'[t].state # "unissued"
    <3>1. CASE t = succ[p]
      BY <1>10, <2>1, <3>1 DEF CommitRotation
    <3>2. CASE t # succ[p] /\ t = tok[p] /\ Active(t)
      <4>1. /\ rows'[t] = [rows[t] EXCEPT !.revokedAt = begin[p],
                                         !.replacedBy = succ[p]]
            /\ rows[t] \in Row
        BY <1>10, <2>1, <3>2 DEF CommitRotation
      <4>2. rows'[t].state = rows[t].state
        BY <4>1
      <4>3. QED
        BY <3>2, <4>2
    <3>3. CASE t # succ[p] /\ ~(t = tok[p] /\ Active(t))
      BY <1>10, <2>1, <3>3 DEF CommitRotation
    <3>4. QED
      BY <3>1, <3>2, <3>3
  <2>4. TypeOK'
    BY <1>10, <2>2 DEF CommitRotation
  <2>5. TokIssued'
    <3>1. ASSUME NEW q \in Proc, pc'[q] \in Presented
          PROVE tok[q] \in Token /\ Issued(tok[q])
      BY <1>10, <3>1 DEF CommitRotation
    <3>2. QED
      BY <1>10, <2>3, <3>1 DEF CommitRotation
  <2>6. SuccIssued'
    <3>1. ASSUME NEW q \in Proc, pc'[q] \in {"respond", "grace"}
          PROVE succ[q] \in Token /\ (Issued(succ[q]) \/ succ[q] = succ[p])
      BY <1>10, <2>1, <3>1 DEF CommitRotation
    <3>2. QED
      BY <1>10, <2>3, <3>1 DEF CommitRotation
  <2>7. CacheIssued'
    <3>1. ASSUME NEW t \in Token, cache[t] # Null
          PROVE cache[t].succ \in Token /\ Issued(cache[t].succ)
      BY <3>1
    <3>2. QED
      BY <1>10, <2>3, <3>1 DEF CommitRotation
  <2>8. SentIsDurable'
    BY <1>10, <2>3 DEF CommitRotation
  <2>9. QED
    BY <2>4, <2>5, <2>6, <2>7, <2>8
<1>11. ASSUME NEW p \in Proc, Respond(p) PROVE DataInv'
  BY <1>11 DEF Respond
<1>12. ASSUME NEW p \in Proc, RespondGrace(p) PROVE DataInv'
  BY <1>12 DEF RespondGrace
<1>13. ASSUME NEW p \in Proc, RevokeFamily(p) PROVE DataInv'
  BY <1>13 DEF RevokeFamily
<1>14. ASSUME NEW p \in Proc, NEW r \in Token, LockFamilyRow(p, r) PROVE DataInv'
  BY <1>14 DEF LockFamilyRow
<1>15. ASSUME NEW p \in Proc, RejectReuse(p) PROVE DataInv'
  BY <1>15 DEF RejectReuse
<1>16. ASSUME NEW p \in Proc, NEW t \in Token, Logout(p, t) PROVE DataInv'
  <2>1. CASE Active(t)
    <3>1. /\ tok' = [tok EXCEPT ![p] = t]
          /\ pc' = [pc EXCEPT ![p] = "logout"]
          /\ ua' = [ua EXCEPT ![p] = Null]
          /\ begin' = [begin EXCEPT ![p] = clock]
          /\ reply' = [reply EXCEPT ![p] = "none"]
          /\ UNCHANGED <<rows, lock, cache, clock, sent, succ, succExp,
                         targets>>
      BY <1>16, <2>1 DEF Logout
    <3>2. TypeOK'
      BY <3>1
    <3>3. TokIssued' /\ SuccIssued'
      BY <2>1, <3>1
    <3>4. CacheIssued' /\ SentIsDurable'
      BY <3>1
    <3>5. QED
      BY <3>2, <3>3, <3>4
  <2>2. CASE ~Active(t)
    <3>1. /\ tok' = [tok EXCEPT ![p] = t]
          /\ reply' = [reply EXCEPT ![p] = "loggedOut"]
          /\ pc[p] = "idle"
          /\ UNCHANGED <<pc, ua, begin, rows, lock, cache, clock, sent, succ,
                         succExp, targets>>
      BY <1>16, <2>2 DEF Logout
    <3>2. TypeOK'
      BY <3>1
    <3>3. TokIssued' /\ SuccIssued' /\ CacheIssued' /\ SentIsDurable'
      BY <3>1
    <3>4. QED
      BY <3>2, <3>3
  <2>3. QED
    BY <2>1, <2>2
<1>17. ASSUME NEW p \in Proc, RevokeForLogout(p) PROVE DataInv'
  <2>1. tok[p] \in Token
    BY <1>17 DEF RevokeForLogout
  <2>2. rows' \in [Token -> Row]
    <3>1. rows[tok[p]] \in Row /\ begin[p] \in Nat
      BY <2>1
    <3> HIDE DEF IInv, DataInv, TypeOK
    <3>2. [rows[tok[p]] EXCEPT !.revokedAt = begin[p]] \in Row
      BY <3>1
    <3>3. QED
      BY <1>17, <2>1, <3>2 DEF RevokeForLogout, IInv, DataInv, TypeOK
  <2>3. TypeOK'
    BY <1>17, <2>2 DEF RevokeForLogout
  <2>4. TokIssued' /\ SuccIssued'
    BY <1>17 DEF RevokeForLogout
  <2>5. CacheIssued' /\ SentIsDurable'
    BY <1>17 DEF RevokeForLogout
  <2>6. QED
    BY <2>3, <2>4, <2>5
<1>18. ASSUME NEW p \in Proc, Fail(p) PROVE DataInv'
  BY <1>18 DEF Fail
<1>19. ASSUME NEW t \in Token, EvictGrace(t) PROVE DataInv'
  BY <1>19 DEF EvictGrace
<1>20. ASSUME Cleanup PROVE DataInv'
  <2>1. TypeOK'
    BY <1>20 DEF Cleanup
  <2>2. TokIssued'
    BY <1>20 DEF Cleanup
  <2>3. SuccIssued'
    BY <1>20 DEF Cleanup
  <2>4. CacheIssued'
    BY <1>20 DEF Cleanup
  <2>5. SentIsDurable'
    BY <1>20 DEF Cleanup
  <2>6. QED
    BY <2>1, <2>2, <2>3, <2>4, <2>5
<1>21. ASSUME Crash PROVE DataInv'
  BY <1>21 DEF Crash
<1>22. ASSUME Tick PROVE DataInv'
  BY <1>22 DEF Tick
<1>23. CASE UNCHANGED vars
  BY <1>23 DEF vars, table, request
<1>24. QED
  BY <1>1, <1>2, <1>3, <1>4, <1>5, <1>6, <1>7, <1>8, <1>9, <1>10, <1>11, <1>12, <1>13, <1>14, <1>15, <1>16, <1>17, <1>18, <1>19, <1>20, <1>21, <1>22, <1>23 DEF Next, Arrive, Granted, Proceed

LEMMA LockStep == IInv /\ [Next]_vars => LockInv'
<1> SUFFICES ASSUME IInv, [Next]_vars PROVE LockInv'
  OBVIOUS
<1> USE DEF IInv, DataInv, LockInv, TypeOK, TokIssued, SuccIssued, SentIsDurable, LockHeld, SuccFresh, FamilyIssued, OneActivePerFamily, SameFamily, Issued, Live, Active, GoTo, Finish, Accept, LocksWithout, Fresh, NewRow, Absent, request, table
<1>1. ASSUME NEW p \in Proc, NEW a \in Agent, Login(p, a) PROVE LockInv'
  BY <1>1 DEF Login
<1>2. ASSUME NEW p \in Proc, NEW t \in Token, NEW a \in Agent, Refresh(p, t, a) PROVE LockInv'
  BY <1>2 DEF Refresh
<1>3. ASSUME NEW p \in Proc, AcquireLock(p) PROVE LockInv'
  BY <1>3 DEF AcquireLock
<1>4. ASSUME NEW p \in Proc, EvaluateMissing(p) PROVE LockInv'
  BY <1>4 DEF EvaluateMissing
<1>5. ASSUME NEW p \in Proc, EvaluateExpired(p) PROVE LockInv'
  BY <1>5 DEF EvaluateExpired
<1>6. ASSUME NEW p \in Proc, EvaluateActive(p) PROVE LockInv'
  BY <1>6 DEF EvaluateActive
<1>7. ASSUME NEW p \in Proc, EvaluateGrace(p) PROVE LockInv'
  BY <1>7 DEF EvaluateGrace
<1>8. ASSUME NEW p \in Proc, EvaluateTheft(p) PROVE LockInv'
  BY <1>8 DEF EvaluateTheft
<1>9. ASSUME NEW p \in Proc, WriteRotation(p) PROVE LockInv'
  BY <1>9 DEF WriteRotation
<1>10. ASSUME NEW p \in Proc, CommitRotation(p) PROVE LockInv'
  <2> DEFINE old == tok[p]
             new == succ[p]
  <2>1. /\ old \in Token /\ new \in Token /\ old # new
        /\ ~Issued(new) /\ Active(old) /\ lock[old] = p
    BY <1>10 DEF CommitRotation
  <2>2. /\ rows'[new] = NewRow(rows[old].family, ua[p], succExp[p])
        /\ rows'[old] = [rows[old] EXCEPT !.revokedAt = begin[p],
                                         !.replacedBy = new]
        /\ \A t \in Token : t # old /\ t # new => rows'[t] = rows[t]
    BY <1>10, <2>1 DEF CommitRotation
  <2>3. rows[old] \in Row /\ begin[p] \in Nat
    BY <2>1
  <2>4. /\ rows'[new].state = "live" /\ rows'[new].revokedAt = Null
        /\ rows'[new].family = rows[old].family
        /\ rows'[old].state = "live" /\ rows'[old].revokedAt # Null
        /\ rows'[old].family = rows[old].family
    <3> HIDE DEF IInv, DataInv, LockInv, TypeOK, TokIssued, SuccIssued, SentIsDurable, LockHeld, SuccFresh, FamilyIssued, OneActivePerFamily
    <3>1. rows[old].state = "live"
      BY <2>1
    <3>2. rows'[old].state = "live" /\ rows'[old].revokedAt = begin[p]
          /\ rows'[old].family = rows[old].family
      BY <2>2, <2>3, <3>1
    <3>3. QED
      BY <2>2, <2>3, <3>2
  <2>5. /\ \A t \in Token : lock'[t] = IF lock[t] = p THEN Null ELSE lock[t]
        /\ pc'[p] = "respond" /\ tok' = tok /\ succ' = succ
        /\ \A q \in Proc : q # p => pc'[q] = pc[q]
    <3>1. pc \in [Proc -> Stages] /\ lock \in [Token -> Proc \union {Null}]
      OBVIOUS
    <3> HIDE DEF IInv, DataInv, LockInv, TypeOK, TokIssued, SuccIssued, SentIsDurable, LockHeld, SuccFresh, FamilyIssued, OneActivePerFamily
    <3>2. pc' = [pc EXCEPT ![p] = "respond"]
      BY <1>10 DEF CommitRotation
    <3>3. lock' = [t \in Token |-> IF lock[t] = p THEN Null ELSE lock[t]]
      BY <1>10 DEF CommitRotation
    <3>4. UNCHANGED <<tok, succ>>
      BY <1>10 DEF CommitRotation
    <3>5. QED
      BY <3>1, <3>2, <3>3, <3>4
  <2>6. LockHeld'
    <3>1. ASSUME NEW q \in Proc, pc'[q] \in {"evaluate", "write", "commit"}
          PROVE /\ q # p /\ pc[q] = pc'[q] /\ tok[q] \in Token
                /\ tok[q] # new
      BY <2>1, <2>5, <3>1
    <3>2. ASSUME NEW q \in Proc, pc'[q] = "evaluate", Live(tok[q])'
          PROVE lock'[tok[q]] = q
      BY <2>1, <2>2, <2>4, <2>5, <3>1, <3>2
    <3>3. ASSUME NEW q \in Proc, pc'[q] \in {"write", "commit"}
          PROVE lock'[tok[q]] = q /\ Active(tok[q])'
      BY <2>1, <2>2, <2>5, <3>1, <3>3
    <3>4. QED
      BY <2>5, <3>2, <3>3
  <2>7. SuccFresh'
    <3>1. ASSUME NEW q \in Proc, pc'[q] = "commit"
          PROVE q # p /\ pc[q] = "commit" /\ succ[q] # new
      <4>1. pc[p] = "commit"
        BY <1>10 DEF CommitRotation
      <4>2. q # p /\ pc[q] = "commit"
        BY <2>5, <3>1
      <4>3. QED
        BY <4>1, <4>2
    <3>2. QED
      BY <2>1, <2>2, <2>5, <3>1
  <2>8. FamilyIssued'
    <3>1. ASSUME NEW t \in Token PROVE Issued(t) => Issued(t)'
      BY <2>2, <2>4
    <3>2. ASSUME NEW t \in Token, Live(t)'
          PROVE \E s \in Token : Live(s) /\ rows'[t].family = rows[s].family
      <4>1. CASE t = new \/ t = old
        BY <2>1, <2>4, <4>1
      <4>2. CASE t # new /\ t # old
        BY <2>2, <3>2, <4>2
      <4>3. QED
        BY <4>1, <4>2
    <3>3. QED
      BY <3>1, <3>2
  <2>9. OneActivePerFamily'
    <3>1. ASSUME NEW t \in Token, Active(t)'
          PROVE /\ t # old
                /\ t = new \/ (Active(t) /\ rows'[t].family = rows[t].family)
      BY <2>2, <2>4, <3>1
    <3>2. ASSUME NEW s \in Token, NEW t \in Token, Active(s)', Active(t)',
                 SameFamily(s, t)'
          PROVE s = t
      BY <2>1, <2>4, <3>1, <3>2
    <3>3. QED
      BY <3>2
  <2>10. QED
    BY <2>6, <2>7, <2>8, <2>9
<1>11. ASSUME NEW p \in Proc, Respond(p) PROVE LockInv'
  BY <1>11 DEF Respond
<1>12. ASSUME NEW p \in Proc, RespondGrace(p) PROVE LockInv'
  BY <1>12 DEF RespondGrace
<1>13. ASSUME NEW p \in Proc, RevokeFamily(p) PROVE LockInv'
  BY <1>13 DEF RevokeFamily
<1>14. ASSUME NEW p \in Proc, NEW r \in Token, LockFamilyRow(p, r) PROVE LockInv'
  BY <1>14 DEF LockFamilyRow
<1>15. ASSUME NEW p \in Proc, RejectReuse(p) PROVE LockInv'
  BY <1>15 DEF RejectReuse
<1>16. ASSUME NEW p \in Proc, NEW t \in Token, Logout(p, t) PROVE LockInv'
  BY <1>16 DEF Logout
<1>17. ASSUME NEW p \in Proc, RevokeForLogout(p) PROVE LockInv'
  BY <1>17 DEF RevokeForLogout
<1>18. ASSUME NEW p \in Proc, Fail(p) PROVE LockInv'
  BY <1>18 DEF Fail
<1>19. ASSUME NEW t \in Token, EvictGrace(t) PROVE LockInv'
  BY <1>19 DEF EvictGrace
<1>20. ASSUME Cleanup PROVE LockInv'
  <2> DEFINE gone == PastExpiry \union StaleRevoked
             cut == {t \in Token : Live(t) /\ rows[t].replacedBy \in gone}
  <2>1. /\ \A t \in gone \union cut : lock[t] = Null
        /\ \A t \in Token :
              /\ t \in gone => rows'[t] = Absent("deleted")
              /\ t \notin gone /\ t \in cut =>
                    rows'[t] = [rows[t] EXCEPT !.replacedBy = Null]
              /\ t \notin gone /\ t \notin cut => rows'[t] = rows[t]
        /\ UNCHANGED <<lock, pc, tok, succ>>
    BY <1>20 DEF Cleanup
  <2>2. gone \subseteq Token /\ \A t \in gone : Live(t)
    BY DEF PastExpiry, StaleRevoked
  <2> HIDE DEF gone, cut
  <2>3. ASSUME NEW t \in Token, t \notin gone
        PROVE /\ rows'[t].state = rows[t].state
              /\ rows'[t].family = rows[t].family
              /\ rows'[t].revokedAt = rows[t].revokedAt
    <3>1. rows[t] \in Row
      OBVIOUS
    <3> HIDE DEF IInv, DataInv, LockInv, TypeOK, TokIssued, SuccIssued, SentIsDurable, LockHeld, SuccFresh, FamilyIssued, OneActivePerFamily
    <3>2. CASE t \in cut
      BY <2>1, <2>3, <3>1, <3>2
    <3>3. CASE t \notin cut
      BY <2>1, <2>3, <3>3
    <3>4. QED
      BY <3>2, <3>3
  <2>4. ASSUME NEW t \in gone
        PROVE /\ t \in Token /\ Issued(t) /\ rows'[t].state = "deleted"
              /\ lock[t] = Null
    <3> HIDE DEF IInv, DataInv, LockInv, TypeOK, TokIssued, SuccIssued, SentIsDurable, LockHeld, SuccFresh, FamilyIssued, OneActivePerFamily
    <3>1. t \in Token /\ Live(t)
      BY <2>2, <2>4
    <3>2. rows'[t] = Absent("deleted") /\ lock[t] = Null
      BY <2>1, <2>4, <3>1
    <3>3. QED
      BY <3>1, <3>2
  <2>5. LockHeld'
    BY <2>1, <2>3, <2>4
  <2>6. SuccFresh'
    BY <2>1, <2>3, <2>4
  <2>7. FamilyIssued'
    BY <2>1, <2>3, <2>4
  <2>8. OneActivePerFamily'
    BY <2>1, <2>3, <2>4
  <2>9. QED
    BY <2>5, <2>6, <2>7, <2>8
<1>21. ASSUME Crash PROVE LockInv'
  BY <1>21 DEF Crash
<1>22. ASSUME Tick PROVE LockInv'
  BY <1>22 DEF Tick
<1>23. CASE UNCHANGED vars
  BY <1>23 DEF vars, table, request
<1>24. QED
  BY <1>1, <1>2, <1>3, <1>4, <1>5, <1>6, <1>7, <1>8, <1>9, <1>10, <1>11, <1>12, <1>13, <1>14, <1>15, <1>16, <1>17, <1>18, <1>19, <1>20, <1>21, <1>22, <1>23 DEF Next, Arrive, Granted, Proceed
-----------------------------------------------------------------------------
(* The inductive invariant holds throughout. *)
LEMMA Inductive == Spec => []IInv
<1>1. IInv /\ [Next]_vars => IInv'
  BY DataStep, LockStep DEF IInv
<1>2. QED
  BY InitIInv, <1>1, PTL DEF Spec

(* Every variable keeps its type. *)
THEOREM TypeCorrect == Spec => []TypeOK
<1>1. IInv => TypeOK
  BY DEF IInv, DataInv
<1>2. QED
  BY Inductive, <1>1, PTL

(* No response ever carries a token whose row was not committed, whatever  *)
(* fails, crashes or is cleaned up: commit comes before Set-Cookie.        *)
THEOREM NoPhantomCookie == Spec => []SentIsDurable
<1>1. IInv => SentIsDurable
  BY DEF IInv, DataInv
<1>2. QED
  BY Inductive, <1>1, PTL

(* A family never has two accepted tokens, however many refreshes and      *)
(* logouts of however many clients race for its rows.                      *)
THEOREM SingleActiveToken == Spec => []OneActivePerFamily
<1>1. IInv => OneActivePerFamily
  BY DEF IInv, LockInv
<1>2. QED
  BY Inductive, <1>1, PTL

-----------------------------------------------------------------------------
(* Rotation implements Sessions.  Only four steps change the table: a login*)
(* starts a session, the commit of a rotation advances one, a logout ends  *)
(* one and the cleanup job ends those it takes the accepted token of.      *)

ActiveIsCurrent ==
    OneActivePerFamily => \A t \in Token : Active(t) => CurrentOf(rows[t].family) = t

EndedHasNone ==
    \A f : (\A t \in Token : Active(t) => rows[t].family # f) => CurrentOf(f) = Null

LEMMA CurrentOfActive == ActiveIsCurrent
<1> SUFFICES ASSUME OneActivePerFamily, NEW t \in Token, Active(t)
             PROVE  CurrentOf(rows[t].family) = t
  BY DEF ActiveIsCurrent
<1> DEFINE P(s) == Active(s) /\ rows[s].family = rows[t].family
<1>1. P(t) /\ \A s \in Token : P(s) => s = t
  BY DEF OneActivePerFamily, SameFamily
<1> HIDE DEF P
<1>2. (CHOOSE s \in Token : P(s)) = t
  BY <1>1
<1>3. QED
  BY <1>1, <1>2 DEF CurrentOf, P

LEMMA CurrentOfNone == EndedHasNone
BY DEF CurrentOf, EndedHasNone

(* A session whose accepted token stays the same keeps its current token.  *)
LEMMA SameCurrent ==
    ASSUME OneActivePerFamily, OneActivePerFamily', NEW f \in Token,
           \A t \in Token : Active(t) /\ rows[t].family = f
                            <=> Active(t)' /\ rows'[t].family = f
    PROVE  CurrentOf(f)' = CurrentOf(f)
<1>1. CASE \E t \in Token : Active(t) /\ rows[t].family = f
  <2>1. PICK t \in Token : Active(t) /\ rows[t].family = f
    BY <1>1
  <2>2. Active(t)' /\ rows'[t].family = f
    BY <2>1
  <2>3. CurrentOf(f) = t
    BY <2>1, CurrentOfActive DEF ActiveIsCurrent
  <2>4. ActiveIsCurrent'
    BY CurrentOfActive, PTL
  <2>5. CurrentOf(f)' = t
    BY <2>2, <2>4 DEF ActiveIsCurrent
  <2>6. QED
    BY <2>3, <2>5
<1>2. CASE ~ \E t \in Token : Active(t) /\ rows[t].family = f
  <2>1. EndedHasNone'
    BY CurrentOfNone, PTL
  <2>2. CurrentOf(f) = Null /\ CurrentOf(f)' = Null
    BY <1>2, <2>1, CurrentOfNone DEF EndedHasNone
  <2>3. QED
    BY <2>2
<1>3. QED
  BY <1>1, <1>2

(* A token that was never issued is unused.                                *)
LEMMA UnissuedUnused ==
    ASSUME IInv, NEW n \in Token, ~Issued(n)
    PROVE  n \notin S!Used
<1>1. n \notin SpentTokens
  BY DEF SpentTokens, Issued
<1>2. ASSUME NEW f \in Token, CurrentOf(f) = n PROVE FALSE
  <2>1. CASE \E t \in Token : Active(t) /\ rows[t].family = f
    BY <1>2, <2>1, CurrentOfActive DEF ActiveIsCurrent, IInv, LockInv, Active, Live, Issued
  <2>2. CASE ~ \E t \in Token : Active(t) /\ rows[t].family = f
    BY <1>2, <2>2, CurrentOfNone DEF EndedHasNone
  <2>3. QED
    BY <2>1, <2>2
<1>3. QED
  BY <1>1, <1>2 DEF S!Used

LEMMA LoginStarts ==
    ASSUME IInv, IInv', NEW p \in Proc, NEW a \in Agent, Login(p, a)
    PROVE  S!Next
<1>1. PICK n \in Fresh : rows' = [rows EXCEPT ![n] = NewRow(n, a, clock + TTL)]
  BY DEF Login
<1>2. n \in Token /\ ~Issued(n)
  BY DEF Fresh, Issued
<1>3. /\ rows'[n] = NewRow(n, a, clock + TTL)
      /\ \A t \in Token : t # n => rows'[t] = rows[t]
  BY <1>1, <1>2 DEF IInv, DataInv, TypeOK
<1>4. Active(n)' /\ rows'[n].family = n
  BY <1>3 DEF NewRow, Active, Live
<1>5. OneActivePerFamily /\ OneActivePerFamily'
  BY DEF IInv, LockInv
<1>6. \A t \in Token : Active(t) => t # n /\ rows[t].family # n
  BY <1>2 DEF IInv, LockInv, FamilyIssued, Active, Live, Issued
<1>7. \A t \in Token : t # n => (Active(t)' <=> Active(t))
  BY <1>3 DEF Active, Live
<1>8. \A f \in Token : f # n => CurrentOf(f)' = CurrentOf(f)
  BY <1>3, <1>4, <1>5, <1>6, <1>7, SameCurrent
<1>9. CurrentOf(n)' = n
  <2>1. ActiveIsCurrent'
    BY CurrentOfActive, PTL
  <2>2. QED
    BY <1>2, <1>4, <1>5, <2>1 DEF ActiveIsCurrent
<1>10. SpentTokens' = SpentTokens
  BY <1>2, <1>3, <1>4, <1>7 DEF SpentTokens, Issued
<1>11. S!Start(n)
  BY <1>2, <1>8, <1>9, <1>10, UnissuedUnused DEF S!Start
<1>12. QED
  BY <1>2, <1>11 DEF S!Next

LEMMA RotationAdvances ==
    ASSUME IInv, IInv', NEW p \in Proc, CommitRotation(p)
    PROVE  S!Next
<1>0. PICK old \in Token, new \in Token : old = tok[p] /\ new = succ[p]
  BY DEF CommitRotation, IInv, DataInv, LockInv, TokIssued, SuccFresh
<1>1. old # new /\ ~Issued(new) /\ Active(old)
  BY <1>0 DEF CommitRotation, IInv, LockInv, LockHeld, SuccFresh, Active, Live, Issued
<1>2. PICK f \in Token : f = rows[old].family
  BY <1>1 DEF IInv, LockInv, FamilyIssued, Active
<1>3. /\ rows'[new] = NewRow(f, ua[p], succExp[p])
      /\ rows'[old] = [rows[old] EXCEPT !.revokedAt = begin[p], !.replacedBy = new]
      /\ \A t \in Token : t # old /\ t # new => rows'[t] = rows[t]
  BY <1>0, <1>1, <1>2 DEF CommitRotation
<1>4. rows[old] \in Row /\ begin[p] \in Nat
  BY DEF IInv, DataInv, TypeOK
<1>5. Active(new)' /\ rows'[new].family = f
  BY <1>3 DEF NewRow, Active, Live
<1>6. ~Active(old)' /\ rows'[old].state = rows[old].state
  BY <1>3, <1>4 DEF Active, Live
<1>7. OneActivePerFamily /\ OneActivePerFamily'
  BY DEF IInv, LockInv
<1>8. \A t \in Token : t # old /\ t # new => (Active(t)' <=> Active(t))
  BY <1>3 DEF Active, Live
<1>9. ~Active(new)
  BY <1>1 DEF Active, Live, Issued
<1>10. \A g \in Token : g # f => CurrentOf(g)' = CurrentOf(g)
  <2> SUFFICES ASSUME NEW g \in Token, g # f PROVE CurrentOf(g)' = CurrentOf(g)
    OBVIOUS
  <2>1. ASSUME NEW t \in Token
        PROVE  Active(t) /\ rows[t].family = g <=> Active(t)' /\ rows'[t].family = g
    <3>1. CASE t = old
      BY <1>2, <1>6, <3>1
    <3>2. CASE t = new
      BY <1>5, <1>9, <3>2
    <3>3. CASE t # old /\ t # new
      BY <1>3, <1>8, <3>3
    <3>4. QED
      BY <3>1, <3>2, <3>3
  <2>2. QED
    BY <1>7, <2>1, SameCurrent
<1>11. CurrentOf(f) = old
  BY <1>1, <1>2, <1>7, CurrentOfActive DEF ActiveIsCurrent
<1>12. CurrentOf(f)' = new
  <2>1. ActiveIsCurrent'
    BY CurrentOfActive, PTL
  <2>2. QED
    BY <1>5, <1>7, <2>1 DEF ActiveIsCurrent
<1>13. SpentTokens' = SpentTokens \union {old}
  BY <1>1, <1>3, <1>5, <1>6, <1>8, <1>9 DEF SpentTokens, Issued, Active, Live
<1>14. new \notin S!Used
  BY <1>1, UnissuedUnused
<1>15. S!Advance(f, new)
  BY <1>2, <1>10, <1>11, <1>12, <1>13, <1>14 DEF S!Advance
<1>16. QED
  BY <1>2, <1>15 DEF S!Next

LEMMA LogoutEnds ==
    ASSUME IInv, IInv', NEW p \in Proc, RevokeForLogout(p)
    PROVE  [S!Next]_(S!sessionVars)
<1>0. PICK old \in Token : old = tok[p]
  BY DEF RevokeForLogout, IInv, DataInv, TokIssued
<1>1. CASE ~Active(old)
  BY <1>0, <1>1 DEF RevokeForLogout, S!sessionVars, CurrentOf, SpentTokens, Active, Live
<1>2. CASE Active(old)
  <2>1. PICK f \in Token : f = rows[old].family
    BY <1>2 DEF IInv, LockInv, FamilyIssued, Active
  <2>2. /\ rows' = [rows EXCEPT ![old].revokedAt = begin[p]]
        /\ rows[old] \in Row /\ begin[p] \in Nat /\ rows \in [Token -> Row]
    BY <1>0, <1>2 DEF RevokeForLogout, IInv, DataInv, TypeOK
  <2>3. /\ ~Active(old)' /\ rows'[old].state = rows[old].state
        /\ \A t \in Token : t # old => rows'[t] = rows[t]
    BY <2>2 DEF Active, Live
  <2>4. \A t \in Token : t # old => (Active(t)' <=> Active(t))
    BY <2>3 DEF Active, Live
  <2>5. OneActivePerFamily /\ OneActivePerFamily'
    BY DEF IInv, LockInv
  <2>6. \A t \in Token : Active(t) /\ rows[t].family = f => t = old
    BY <1>2, <2>1, <2>5 DEF OneActivePerFamily, SameFamily
  <2>7. CurrentOf(f) = old
    BY <1>2, <2>1, <2>5, CurrentOfActive DEF ActiveIsCurrent
  <2>8. CurrentOf(f)' = Null
    <3>1. EndedHasNone'
      BY CurrentOfNone, PTL
    <3>2. \A t \in Token : Active(t)' => rows'[t].family # f
      BY <2>3, <2>4, <2>6
    <3>3. QED
      BY <3>1, <3>2 DEF EndedHasNone
  <2>9. ASSUME NEW g \in Token, g # f PROVE CurrentOf(g)' = CurrentOf(g)
    <3>1. ASSUME NEW t \in Token
          PROVE  Active(t) /\ rows[t].family = g <=> Active(t)' /\ rows'[t].family = g
      BY <2>1, <2>3, <2>4, <2>9
    <3>2. QED
      BY <2>5, <3>1, SameCurrent
  <2>10. SpentTokens' = SpentTokens \union {old}
    BY <1>2, <2>3, <2>4 DEF SpentTokens, Active, Live
  <2>11. S!End({f})
    BY <2>7, <2>8, <2>9, <2>10 DEF S!End
  <2>12. QED
    BY <2>11 DEF S!Next
<1>3. QED
  BY <1>1, <1>2

LEMMA CleanupEnds ==
    ASSUME IInv, IInv', Cleanup
    PROVE  [S!Next]_(S!sessionVars)
<1>1. PICK gone \in SUBSET Token :
        /\ \A t \in gone : Live(t) /\ rows'[t] = Absent("deleted")
        /\ \A t \in Token \ gone : rows'[t] = rows[t]
                                  \/ rows'[t] = [rows[t] EXCEPT !.replacedBy = Null]
  <2> DEFINE taken == PastExpiry \union StaleRevoked
  <2>1. taken \in SUBSET Token /\ \A t \in taken : Live(t)
    BY DEF PastExpiry, StaleRevoked
  <2>2. /\ \A t \in taken : rows'[t] = Absent("deleted")
        /\ \A t \in Token \ taken : rows'[t] = rows[t]
                                   \/ rows'[t] = [rows[t] EXCEPT !.replacedBy = Null]
    BY <2>1 DEF Cleanup
  <2> HIDE DEF taken
  <2>3. QED
    BY <2>1, <2>2
<1>2. \A t \in gone : ~Active(t)' /\ rows'[t].state = "deleted"
  BY <1>1 DEF Absent, Active, Live
<1>3. \A t \in Token \ gone : /\ rows'[t].state = rows[t].state
                             /\ rows'[t].family = rows[t].family
                             /\ rows'[t].revokedAt = rows[t].revokedAt
  <2> SUFFICES ASSUME NEW t \in Token \ gone
               PROVE  /\ rows'[t].state = rows[t].state
                      /\ rows'[t].family = rows[t].family
                      /\ rows'[t].revokedAt = rows[t].revokedAt
    OBVIOUS
  <2>1. rows[t] \in Row
    BY DEF IInv, DataInv, TypeOK
  <2>2. CASE rows'[t] = rows[t]
    BY <2>2
  <2>3. CASE rows'[t] = [rows[t] EXCEPT !.replacedBy = Null]
    BY <2>1, <2>3
  <2>4. QED
    BY <1>1, <2>2, <2>3
<1>4. \A t \in Token \ gone : Active(t)' <=> Active(t)
  BY <1>3 DEF Active, Live
<1>5. OneActivePerFamily /\ OneActivePerFamily'
  BY DEF IInv, LockInv
<1>6. PICK F \in SUBSET Token : \A f \in Token :
         f \in F <=> \E t \in gone : Active(t) /\ rows[t].family = f
  <2> DEFINE G == {f \in Token : \E t \in gone : Active(t) /\ rows[t].family = f}
  <2>1. QED
    BY G \in SUBSET Token
<1>7. ASSUME NEW f \in F
      PROVE  CurrentOf(f) \in gone /\ CurrentOf(f)' = Null
  <2>1. PICK t \in gone : Active(t) /\ rows[t].family = f
    BY <1>6
  <2>2. CurrentOf(f) = t
    BY <1>5, <2>1, CurrentOfActive DEF ActiveIsCurrent
  <2>3. \A s \in Token : Active(s)' => rows'[s].family # f
    BY <1>2, <1>3, <1>4, <1>5, <2>1 DEF OneActivePerFamily, SameFamily
  <2>4. EndedHasNone'
    BY CurrentOfNone, PTL
  <2>5. QED
    BY <2>1, <2>2, <2>3, <2>4 DEF EndedHasNone
<1>8. ASSUME NEW f \in Token \ F PROVE CurrentOf(f)' = CurrentOf(f)
  <2>1. ASSUME NEW t \in Token
        PROVE  Active(t) /\ rows[t].family = f <=> Active(t)' /\ rows'[t].family = f
    BY <1>2, <1>3, <1>4, <1>6, <1>8
  <2>2. QED
    BY <1>5, <2>1, SameCurrent
<1>9. ASSUME NEW t \in gone, Active(t)
      PROVE  \E f \in F : CurrentOf(f) = t
  <2>1. PICK f \in Token : f = rows[t].family
    BY <1>1, <1>9 DEF IInv, LockInv, FamilyIssued, Active
  <2>2. f \in F /\ CurrentOf(f) = t
    BY <1>5, <1>6, <1>9, <2>1, CurrentOfActive DEF ActiveIsCurrent
  <2>3. QED
    BY <2>2
<1>10. SpentTokens' = SpentTokens \union {t \in gone : Active(t)}
  BY <1>1, <1>2, <1>3, <1>4 DEF SpentTokens, Active, Live
<1>11. {t \in gone : Active(t)} = {CurrentOf(f) : f \in F}
  <2>1. ASSUME NEW f \in F PROVE CurrentOf(f) \in gone /\ Active(CurrentOf(f))
    <3>1. PICK t \in gone : Active(t) /\ rows[t].family = f
      BY <1>6
    <3>2. QED
      BY <1>5, <3>1, CurrentOfActive DEF ActiveIsCurrent
  <2>2. QED
    BY <1>9, <2>1
<1>12. CASE F = {}
  BY <1>8, <1>10, <1>11, <1>12 DEF S!sessionVars
<1>13. CASE F # {}
  <2>1. \A f \in F : CurrentOf(f) # Null
    BY <1>7
  <2>2. S!End(F)
    <3> DEFINE current == [f \in Token |-> CurrentOf(f)]
    <3>1. \A f \in F : f \in Token /\ current[f] = CurrentOf(f)
      OBVIOUS
    <3>2. {current[f] : f \in F} = {CurrentOf(f) : f \in F}
      BY <3>1
    <3>3. current' = [f \in Token |-> IF f \in F THEN Null ELSE current[f]]
      BY <1>7, <1>8
    <3>4. SpentTokens' = SpentTokens \union {current[f] : f \in F}
      BY <1>10, <1>11, <3>2
    <3>5. \A f \in F : current[f] # Null
      BY <2>1, <3>1
    <3> HIDE DEF current
    <3>6. QED
      BY <1>13, <3>3, <3>4, <3>5 DEF S!End, current
  <2>3. QED
    BY <2>2 DEF S!Next
<1>14. QED
  BY <1>12, <1>13

LEMMA StepIsSession == IInv /\ IInv' /\ [Next]_vars => [S!Next]_(S!sessionVars)
<1> SUFFICES ASSUME IInv, IInv', [Next]_vars PROVE [S!Next]_(S!sessionVars)
  OBVIOUS
<1>1. ASSUME UNCHANGED rows PROVE UNCHANGED S!sessionVars
  BY <1>1 DEF S!sessionVars, CurrentOf, SpentTokens, Active, Live
<1>2. ASSUME NEW p \in Proc, Arrive(p) PROVE [S!Next]_(S!sessionVars)
  <2>1. ASSUME NEW a \in Agent, Login(p, a) PROVE [S!Next]_(S!sessionVars)
    BY <2>1, LoginStarts
  <2>2. ASSUME NEW t \in Token, NEW a \in Agent, Refresh(p, t, a) PROVE UNCHANGED rows
    BY <2>2 DEF Refresh, table
  <2>3. ASSUME NEW t \in Token, Logout(p, t) PROVE UNCHANGED rows
    BY <2>3 DEF Logout, table
  <2>4. QED
    BY <1>1, <1>2, <2>1, <2>2, <2>3 DEF Arrive
<1>3. ASSUME NEW p \in Proc, Granted(p) PROVE [S!Next]_(S!sessionVars)
  <2>1. AcquireLock(p) \/ (\E r \in Token : LockFamilyRow(p, r)) => UNCHANGED rows
    BY DEF AcquireLock, LockFamilyRow
  <2>2. QED
    BY <1>1, <1>3, <2>1, LogoutEnds DEF Granted
<1>4. ASSUME NEW p \in Proc, Proceed(p) PROVE [S!Next]_(S!sessionVars)
  <2>1. CommitRotation(p) \/ UNCHANGED rows
    BY <1>4 DEF Proceed, EvaluateMissing, EvaluateExpired, EvaluateActive, EvaluateGrace,
               EvaluateTheft, WriteRotation, Respond, RespondGrace, RevokeFamily,
               RejectReuse, table
  <2>2. QED
    BY <1>1, <2>1, RotationAdvances
<1>5. ASSUME NEW p \in Proc, Fail(p) PROVE UNCHANGED rows
  BY <1>5 DEF Fail
<1>6. ASSUME NEW t \in Token, EvictGrace(t) PROVE UNCHANGED rows
  BY <1>6 DEF EvictGrace, table
<1>7. Crash \/ Tick \/ UNCHANGED vars => UNCHANGED rows
  BY DEF Crash, Tick, vars, table
<1>8. QED
  BY <1>1, <1>2, <1>3, <1>4, <1>5, <1>6, <1>7, CleanupEnds DEF Next

LEMMA InitIsSession == Init => S!Init
<1> SUFFICES ASSUME Init PROVE S!Init
  OBVIOUS
<1>1. \A t \in Token : rows[t].state = "unissued"
  BY DEF Init, Absent
<1>2. \A t \in Token : ~Active(t)
  BY <1>1 DEF Active, Live
<1>3. \A f \in Token : CurrentOf(f) = Null
  BY <1>2, CurrentOfNone DEF EndedHasNone
<1>4. SpentTokens = {}
  BY <1>1 DEF SpentTokens
<1>5. QED
  BY <1>3, <1>4 DEF S!Init

(* However refreshes, retries, logouts, failures, crashes and the cleanup  *)
(* overlap, rotation implements Sessions: a spent token never becomes      *)
(* current again (executeRotationTransaction, logout, cleanup).            *)
THEOREM RotationIsASession == Spec => ImplementsSessions
<1>1. IInv /\ [Next]_vars => IInv'
  BY DataStep, LockStep DEF IInv
<1>2. QED
  BY <1>1, InitIInv, InitIsSession, StepIsSession, PTL DEF Spec, ImplementsSessions, S!Spec

-----------------------------------------------------------------------------
(* Chains.  The links of a family and the times of its rows are in order:  *)
(* what the cleanup relies on when it deletes the old end of a chain.      *)

(* No row expires later than one issued now, none was revoked later than   *)
(* now, and a rotation about to commit keeps the chain's expiry growing.   *)
TimesInOrder ==
    /\ \A t \in Token : Live(t) =>
          /\ rows[t].expiresAt <= clock + TTL
          /\ rows[t].revokedAt # Null => rows[t].revokedAt <= clock
    /\ \A p \in Proc :
          /\ begin[p] <= clock
          /\ pc[p] = "commit" => /\ rows[tok[p]].expiresAt <= succExp[p]
                                 /\ succExp[p] <= clock + TTL

(* A token is revoked no earlier than the one it replaced, because whoever *)
(* revokes it has begun after it was issued.                               *)
RevokedInOrder ==
    \A s, t \in Token : Live(s) /\ rows[s].replacedBy = t =>
        /\ rows[t].revokedAt # Null => rows[s].revokedAt <= rows[t].revokedAt
        /\ \A p \in Proc : pc[p] \in Presented /\ tok[p] = t =>
              rows[s].revokedAt <= begin[p]

ChainInv == ChainsLinear /\ TimesInOrder /\ RevokedInOrder

(* What the four steps that write rows do to them.                         *)
LEMMA RowsStay ==
    ASSUME [Next]_vars
    PROVE  \/ UNCHANGED rows
           \/ \E p \in Proc, a \in Agent : Login(p, a)
           \/ \E p \in Proc : CommitRotation(p) \/ RevokeForLogout(p)
           \/ Cleanup
<1>1. ASSUME NEW p \in Proc, Arrive(p)
      PROVE  UNCHANGED rows \/ \E a \in Agent : Login(p, a)
  BY <1>1 DEF Arrive, Refresh, Logout, table
<1>2. ASSUME NEW p \in Proc, Granted(p) PROVE UNCHANGED rows \/ RevokeForLogout(p)
  BY <1>2 DEF Granted, AcquireLock, LockFamilyRow
<1>3. ASSUME NEW p \in Proc, Proceed(p) PROVE UNCHANGED rows \/ CommitRotation(p)
  BY <1>3 DEF Proceed, EvaluateMissing, EvaluateExpired, EvaluateActive, EvaluateGrace,
              EvaluateTheft, WriteRotation, Respond, RespondGrace, RevokeFamily,
              RejectReuse, table
<1>4. ASSUME NEW p \in Proc, Fail(p) PROVE UNCHANGED rows
  BY <1>4 DEF Fail
<1>5. ASSUME NEW t \in Token, EvictGrace(t) PROVE UNCHANGED rows
  BY <1>5 DEF EvictGrace, table
<1>6. Crash \/ Tick \/ UNCHANGED vars => UNCHANGED rows
  BY DEF Crash, Tick, vars, table
<1>7. QED
  BY <1>1, <1>2, <1>3, <1>4, <1>5, <1>6 DEF Next

LEMMA LoginRows ==
    ASSUME IInv, NEW p \in Proc, NEW a \in Agent, Login(p, a)
    PROVE  \E n \in Token :
             /\ ~Issued(n)
             /\ rows'[n] = NewRow(n, a, clock + TTL)
             /\ rows'[n].replacedBy = Null
             /\ \A t \in Token : t # n => rows'[t] = rows[t]
<1>1. PICK n \in Token : /\ ~Issued(n)
                         /\ rows'[n] = NewRow(n, a, clock + TTL)
                         /\ \A t \in Token : t # n => rows'[t] = rows[t]
  BY DEF Login, Fresh, Issued, IInv, DataInv, TypeOK
<1>2. rows'[n].replacedBy = Null
  BY <1>1 DEF NewRow
<1>3. QED
  BY <1>1, <1>2

LEMMA CommitRows ==
    ASSUME IInv, NEW p \in Proc, CommitRotation(p)
    PROVE  /\ tok[p] \in Token /\ succ[p] \in Token /\ tok[p] # succ[p]
           /\ ~Issued(succ[p]) /\ Active(tok[p]) /\ lock[tok[p]] = p
           /\ rows'[succ[p]] = NewRow(rows[tok[p]].family, ua[p], succExp[p])
           /\ rows'[succ[p]].state = "live"
           /\ rows'[succ[p]].family = rows[tok[p]].family
           /\ rows'[succ[p]].expiresAt = succExp[p]
           /\ rows'[succ[p]].revokedAt = Null
           /\ rows'[succ[p]].replacedBy = Null
           /\ rows'[tok[p]].state = "live"
           /\ rows'[tok[p]].family = rows[tok[p]].family
           /\ rows'[tok[p]].expiresAt = rows[tok[p]].expiresAt
           /\ rows'[tok[p]].revokedAt = begin[p] /\ begin[p] \in Nat
           /\ rows'[tok[p]].replacedBy = succ[p]
           /\ \A t \in Token : t # tok[p] /\ t # succ[p] => rows'[t] = rows[t]
<1>1. /\ tok[p] \in Token /\ succ[p] \in Token /\ tok[p] # succ[p]
      /\ ~Issued(succ[p]) /\ Active(tok[p]) /\ lock[tok[p]] = p
  BY DEF CommitRotation, IInv, DataInv, LockInv, TokIssued, SuccFresh, LockHeld,
         Active, Live, Issued
<1>2. /\ rows'[succ[p]] = NewRow(rows[tok[p]].family, ua[p], succExp[p])
      /\ rows'[tok[p]] = [rows[tok[p]] EXCEPT !.revokedAt = begin[p],
                                             !.replacedBy = succ[p]]
      /\ \A t \in Token : t # tok[p] /\ t # succ[p] => rows'[t] = rows[t]
  BY <1>1 DEF CommitRotation
<1>3. rows[tok[p]] \in Row /\ begin[p] \in Nat /\ rows[tok[p]].state = "live"
  BY <1>1 DEF IInv, DataInv, TypeOK, Active, Live
<1>4. /\ rows'[succ[p]].state = "live"
      /\ rows'[succ[p]].family = rows[tok[p]].family
      /\ rows'[succ[p]].expiresAt = succExp[p]
      /\ rows'[succ[p]].revokedAt = Null
      /\ rows'[succ[p]].replacedBy = Null
  BY <1>2 DEF NewRow
<1>5. /\ rows'[tok[p]].state = "live"
      /\ rows'[tok[p]].family = rows[tok[p]].family
      /\ rows'[tok[p]].expiresAt = rows[tok[p]].expiresAt
      /\ rows'[tok[p]].revokedAt = begin[p]
      /\ rows'[tok[p]].replacedBy = succ[p]
  BY <1>2, <1>3
<1>6. QED
  BY <1>1, <1>2, <1>3, <1>4, <1>5

LEMMA LogoutRows ==
    ASSUME IInv, NEW p \in Proc, RevokeForLogout(p)
    PROVE  /\ tok[p] \in Token /\ Issued(tok[p])
           /\ \A t \in Token : t # tok[p] \/ ~Active(t) => rows'[t] = rows[t]
           /\ Active(tok[p]) =>
                /\ rows'[tok[p]].state = "live"
                /\ rows'[tok[p]].family = rows[tok[p]].family
                /\ rows'[tok[p]].expiresAt = rows[tok[p]].expiresAt
                /\ rows'[tok[p]].revokedAt = begin[p] /\ begin[p] \in Nat
                /\ rows'[tok[p]].replacedBy = rows[tok[p]].replacedBy
<1>1. tok[p] \in Token /\ Issued(tok[p]) /\ rows \in [Token -> Row] /\ begin[p] \in Nat
  BY DEF RevokeForLogout, IInv, DataInv, TokIssued, TypeOK
<1>2. rows' = IF Active(tok[p]) THEN [rows EXCEPT ![tok[p]].revokedAt = begin[p]] ELSE rows
  BY DEF RevokeForLogout
<1>3. CASE Active(tok[p])
  <2>1. rows'[tok[p]] = [rows[tok[p]] EXCEPT !.revokedAt = begin[p]]
    BY <1>1, <1>2, <1>3
  <2>2. rows[tok[p]] \in Row /\ rows[tok[p]].state = "live"
    BY <1>1, <1>3 DEF Active, Live
  <2>3. QED
    BY <1>1, <1>2, <1>3, <2>1, <2>2
<1>4. CASE ~Active(tok[p])
  BY <1>1, <1>2, <1>4
<1>5. QED
  BY <1>3, <1>4

(* The cleanup never cuts a chain in a row that it keeps: when it takes a  *)
(* token it takes the one before.                                          *)
LEMMA CleanupRows ==
    ASSUME IInv, ChainInv, Cleanup
    PROVE  \A t \in Token :
             IF t \in PastExpiry \union StaleRevoked
             THEN Live(t) /\ lock[t] = Null /\ rows'[t] = Absent("deleted")
             ELSE /\ rows'[t] = rows[t]
                  /\ Live(t) => rows[t].replacedBy \notin PastExpiry \union StaleRevoked
<1> DEFINE gone == PastExpiry \union StaleRevoked
           cut == {t \in Token : Live(t) /\ rows[t].replacedBy \in gone}
<1>1. ASSUME NEW s \in Token, NEW t \in gone, Live(s), rows[s].replacedBy = t
      PROVE  s \in gone
  <2>1. /\ t \in Token /\ Live(t)
        /\ rows[s].expiresAt <= rows[t].expiresAt /\ rows[s].revokedAt # Null
        /\ rows[t].revokedAt # Null => rows[s].revokedAt <= rows[t].revokedAt
    BY <1>1 DEF PastExpiry, StaleRevoked, ChainInv, ChainsLinear, RevokedInOrder
  <2>2. /\ rows[s].expiresAt \in Nat /\ rows[t].expiresAt \in Nat /\ clock \in Nat
        /\ rows[s].revokedAt \in Nat /\ rows[t].revokedAt \in Nat \union {Null}
    BY <2>1 DEF IInv, DataInv, TypeOK
  <2>3. CASE t \in PastExpiry
    BY <1>1, <2>1, <2>2, <2>3 DEF PastExpiry
  <2>4. CASE t \in StaleRevoked
    BY <1>1, <2>1, <2>2, <2>4 DEF StaleRevoked
  <2>5. QED
    BY <1>1, <2>3, <2>4
<1>2. /\ \A t \in gone : lock[t] = Null
      /\ \A t \in Token : /\ t \in gone => rows'[t] = Absent("deleted")
                          /\ t \notin gone /\ t \notin cut => rows'[t] = rows[t]
  BY DEF Cleanup
<1>3. \A t \in gone : t \in Token /\ Live(t)
  BY DEF PastExpiry, StaleRevoked
<1>4. QED
  <2> HIDE DEF gone
  <2>1. \A t \in Token : t \notin gone /\ Live(t) => rows[t].replacedBy \notin gone
    BY <1>1
  <2>2. QED
    BY <1>2, <1>3, <2>1 DEF gone

(* How a request moves: it goes on, arrives, or is over.                   *)
LEMMA RequestStep ==
    ASSUME IInv, [Next]_vars, NEW q \in Proc
    PROVE  \/ /\ begin'[q] = begin[q] /\ tok'[q] = tok[q]
              /\ pc'[q] \in Presented => pc[q] \in Presented
           \/ begin'[q] = clock /\ tok'[q] \in sent
           \/ begin'[q] \in {begin[q], clock, 0} /\ pc'[q] \notin Presented
<1> DEFINE Moves ==
           \/ /\ begin'[q] = begin[q] /\ tok'[q] = tok[q]
              /\ pc'[q] \in Presented => pc[q] \in Presented
           \/ begin'[q] = clock /\ tok'[q] \in sent
           \/ begin'[q] \in {begin[q], clock, 0} /\ pc'[q] \notin Presented
<1>0. /\ pc \in [Proc -> Stages] /\ tok \in [Proc -> Token \union {Null}]
      /\ begin \in [Proc -> Nat]
  BY DEF IInv, DataInv, TypeOK
<1> USE DEF GoTo, Finish, Accept, request, table
<1>1. ASSUME NEW p \in Proc, Arrive(p) PROVE Moves
  BY <1>0, <1>1 DEF Arrive, Login, Refresh, Logout
<1>2. ASSUME NEW p \in Proc, Granted(p) PROVE Moves
  BY <1>0, <1>2 DEF Granted, AcquireLock, LockFamilyRow, RevokeForLogout
<1>3. ASSUME NEW p \in Proc, Proceed(p) PROVE Moves
  <2>1. EvaluateMissing(p) \/ EvaluateExpired(p) \/ Respond(p) \/ RespondGrace(p)
        \/ RejectReuse(p) => Moves
    BY <1>0 DEF EvaluateMissing, EvaluateExpired, Respond, RespondGrace, RejectReuse
  <2>2. EvaluateActive(p) \/ EvaluateGrace(p) \/ EvaluateTheft(p) \/ RevokeFamily(p) => Moves
    BY <1>0 DEF EvaluateActive, EvaluateGrace, EvaluateTheft, RevokeFamily
  <2>3. WriteRotation(p) \/ CommitRotation(p) => Moves
    BY <1>0 DEF WriteRotation, CommitRotation
  <2>4. QED
    BY <1>3, <2>1, <2>2, <2>3 DEF Proceed
<1>4. ASSUME NEW p \in Proc, Fail(p) PROVE Moves
  BY <1>0, <1>4 DEF Fail
<1>5. ASSUME NEW t \in Token, EvictGrace(t) PROVE Moves
  BY <1>5 DEF EvictGrace
<1>6. Cleanup \/ Crash \/ Tick \/ UNCHANGED vars => Moves
  BY <1>0 DEF Cleanup, Crash, Tick, vars
<1>7. QED
  BY <1>1, <1>2, <1>3, <1>4, <1>5, <1>6 DEF Next

(* A rotation comes to its commit by WriteRotation only.                   *)
LEMMA CommitStage ==
    ASSUME IInv, [Next]_vars, NEW q \in Proc, pc'[q] = "commit"
    PROVE  \/ pc[q] = "commit" /\ tok'[q] = tok[q] /\ succExp'[q] = succExp[q]
           \/ WriteRotation(q)
<1> DEFINE Stays == pc[q] = "commit" /\ tok'[q] = tok[q] /\ succExp'[q] = succExp[q]
<1>0. /\ pc \in [Proc -> Stages] /\ tok \in [Proc -> Token \union {Null}]
      /\ succExp \in [Proc -> Nat]
  BY DEF IInv, DataInv, TypeOK
<1> USE DEF GoTo, Finish, Accept, request, table
<1>1. ASSUME NEW p \in Proc, Arrive(p) PROVE Stays
  BY <1>0, <1>1 DEF Arrive, Login, Refresh, Logout
<1>2. ASSUME NEW p \in Proc, Granted(p) PROVE Stays
  BY <1>0, <1>2 DEF Granted, AcquireLock, LockFamilyRow, RevokeForLogout
<1>3. ASSUME NEW p \in Proc, Proceed(p) PROVE Stays \/ WriteRotation(q)
  <2>1. EvaluateMissing(p) \/ EvaluateExpired(p) \/ Respond(p) \/ RespondGrace(p)
        \/ RejectReuse(p) => Stays
    BY <1>0 DEF EvaluateMissing, EvaluateExpired, Respond, RespondGrace, RejectReuse
  <2>2. EvaluateActive(p) \/ EvaluateGrace(p) \/ EvaluateTheft(p) \/ RevokeFamily(p) => Stays
    BY <1>0 DEF EvaluateActive, EvaluateGrace, EvaluateTheft, RevokeFamily
  <2>3. WriteRotation(p) => Stays \/ p = q
    BY <1>0 DEF WriteRotation
  <2>4. CommitRotation(p) => Stays
    BY <1>0 DEF CommitRotation
  <2>5. QED
    BY <1>3, <2>1, <2>2, <2>3, <2>4 DEF Proceed
<1>4. ASSUME NEW p \in Proc, Fail(p) PROVE Stays
  BY <1>0, <1>4 DEF Fail
<1>5. ASSUME NEW t \in Token, EvictGrace(t) PROVE Stays
  BY <1>5 DEF EvictGrace
<1>6. Cleanup \/ Crash \/ Tick \/ UNCHANGED vars => Stays
  BY <1>0 DEF Cleanup, Crash, Tick, vars
<1>7. QED
  BY <1>1, <1>2, <1>3, <1>4, <1>5, <1>6 DEF Next

(* Time moves forward, and requests with it.                               *)
LEMMA TimesStep == ASSUME IInv, IInv', ChainInv, [Next]_vars PROVE TimesInOrder'
<1>0. /\ clock \in Nat /\ clock' \in Nat /\ clock <= clock'
      /\ \A q \in Proc : begin[q] \in Nat /\ succExp[q] \in Nat
      /\ TTL \in Nat
  <2>1. clock' = clock \/ (clock' = clock + 1)
    BY DEF Next, vars, table, request, Arrive, Granted, Proceed, Login, Refresh, Logout,
           AcquireLock, LockFamilyRow, RevokeForLogout, EvaluateMissing, EvaluateExpired,
           EvaluateActive, EvaluateGrace, EvaluateTheft, WriteRotation, CommitRotation,
           Respond, RespondGrace, RevokeFamily, RejectReuse, Fail, EvictGrace, Cleanup,
           Crash, Tick
  <2>2. QED
    BY <2>1 DEF IInv, DataInv, TypeOK
<1>1. ASSUME NEW q \in Proc PROVE begin'[q] <= clock'
  BY <1>0, RequestStep DEF ChainInv, TimesInOrder
<1>2. ASSUME NEW t \in Token, Live(t)'
      PROVE  /\ rows'[t].expiresAt <= clock' + TTL
             /\ rows'[t].revokedAt # Null => rows'[t].revokedAt <= clock'
  <2>0. /\ rows[t].expiresAt \in Nat /\ rows'[t].expiresAt \in Nat
        /\ rows[t].revokedAt \in Nat \union {Null} /\ rows'[t].revokedAt \in Nat \union {Null}
    BY DEF IInv, DataInv, TypeOK
  <2>1. CASE rows'[t] = rows[t]
    BY <1>0, <1>2, <2>0, <2>1 DEF ChainInv, TimesInOrder, Live
  <2>2. ASSUME NEW p \in Proc, NEW a \in Agent, Login(p, a), rows'[t] # rows[t]
        PROVE  rows'[t] = NewRow(t, a, clock + TTL)
    BY <2>2, LoginRows
  <2>3. ASSUME NEW p \in Proc, CommitRotation(p), rows'[t] # rows[t]
        PROVE  \/ rows'[t] = NewRow(rows[tok[p]].family, ua[p], succExp[p])
                  /\ succExp[p] <= clock + TTL
               \/ /\ Live(t) /\ rows'[t].expiresAt = rows[t].expiresAt
                  /\ rows'[t].revokedAt = begin[p] /\ begin[p] <= clock
    <3>1. pc[p] = "commit"
      BY <2>3 DEF CommitRotation
    <3>2. begin[p] <= clock /\ succExp[p] <= clock + TTL
      BY <3>1 DEF ChainInv, TimesInOrder
    <3>3. QED
      BY <2>3, <3>2, CommitRows DEF Active
  <2>4. ASSUME NEW p \in Proc, RevokeForLogout(p), rows'[t] # rows[t]
        PROVE  /\ Live(t) /\ rows'[t].expiresAt = rows[t].expiresAt
               /\ rows'[t].revokedAt = begin[p] /\ begin[p] <= clock
    BY <2>4, LogoutRows DEF ChainInv, TimesInOrder, Active
  <2>5. ASSUME Cleanup PROVE rows'[t] = rows[t]
    BY <1>2, <2>5, CleanupRows DEF Live, Absent
  <2>6. ASSUME Live(t), rows'[t].expiresAt = rows[t].expiresAt
        PROVE  rows'[t].expiresAt <= clock' + TTL
    BY <1>0, <2>0, <2>6 DEF ChainInv, TimesInOrder
  <2>7. CASE rows'[t] # rows[t]
    <3>1. ASSUME NEW p \in Proc, NEW a \in Agent, Login(p, a)
          PROVE  rows'[t].expiresAt = clock + TTL /\ rows'[t].revokedAt = Null
      <4>1. rows'[t] = NewRow(t, a, clock + TTL)
        BY <2>2, <2>7, <3>1
      <4>2. QED
        BY <4>1 DEF NewRow
    <3>2. ASSUME NEW p \in Proc, CommitRotation(p)
          PROVE  /\ rows'[t].expiresAt <= clock' + TTL
                 /\ rows'[t].revokedAt = Null \/ rows'[t].revokedAt <= clock
      <4>1. CASE rows'[t] = NewRow(rows[tok[p]].family, ua[p], succExp[p])
        BY <1>0, <2>3, <2>7, <3>2, <4>1 DEF NewRow
      <4>2. CASE rows'[t] # NewRow(rows[tok[p]].family, ua[p], succExp[p])
        BY <1>0, <2>0, <2>3, <2>6, <2>7, <3>2, <4>2
      <4>3. QED
        BY <4>1, <4>2
    <3>3. ASSUME NEW p \in Proc, RevokeForLogout(p)
          PROVE  /\ rows'[t].expiresAt <= clock' + TTL
                 /\ rows'[t].revokedAt <= clock
      BY <2>4, <2>6, <2>7, <3>3
    <3>4. \/ \E p \in Proc, a \in Agent : Login(p, a)
          \/ \E p \in Proc : CommitRotation(p) \/ RevokeForLogout(p)
      BY <2>5, <2>7, RowsStay
    <3>5. QED
      BY <1>0, <2>0, <3>1, <3>2, <3>3, <3>4
  <2>8. QED
    BY <2>1, <2>7
<1>3. ASSUME NEW q \in Proc, pc'[q] = "commit"
      PROVE  rows'[tok'[q]].expiresAt <= succExp'[q] /\ succExp'[q] <= clock' + TTL
  <2>1. CASE pc[q] = "commit" /\ tok'[q] = tok[q] /\ succExp'[q] = succExp[q]
    <3>1. tok[q] \in Token /\ Active(tok[q]) /\ Active(tok[q])'
      BY <1>3, <2>1 DEF IInv, DataInv, LockInv, TokIssued, LockHeld
    <3>2. rows'[tok[q]].expiresAt = rows[tok[q]].expiresAt
      <4> DEFINE t == tok[q]
                 Kept == rows'[t].expiresAt = rows[t].expiresAt
      <4>1. ASSUME NEW p \in Proc, NEW a \in Agent, Login(p, a) PROVE Kept
        BY <3>1, <4>1, LoginRows DEF Active, Live, Issued
      <4>2. ASSUME NEW p \in Proc, CommitRotation(p) PROVE Kept
        BY <3>1, <4>2, CommitRows DEF Active, Live, Issued
      <4>3. ASSUME NEW p \in Proc, RevokeForLogout(p) PROVE Kept
        BY <3>1, <4>3, LogoutRows
      <4>4. ASSUME Cleanup PROVE Kept
        <5>1. rows'[t] = rows[t] \/ rows'[t] = Absent("deleted")
          BY <3>1, <4>4, CleanupRows
        <5>2. rows'[t] # Absent("deleted")
          BY <2>1, <3>1 DEF Active, Live, Absent
        <5>3. QED
          BY <5>1, <5>2
      <4>5. QED
        BY <4>1, <4>2, <4>3, <4>4, RowsStay
    <3>3. QED
      BY <1>0, <2>1, <3>2 DEF ChainInv, TimesInOrder
  <2>2. CASE WriteRotation(q)
    <3>1. /\ tok' = tok /\ rows' = rows /\ clock' = clock
          /\ succExp'[q] = clock + TTL
      BY <1>0, <2>2 DEF WriteRotation, IInv, DataInv, TypeOK
    <3>2. tok[q] \in Token /\ Live(tok[q])
      BY <2>2 DEF WriteRotation, IInv, DataInv, LockInv, TokIssued, LockHeld, Active
    <3>3. rows[tok[q]].expiresAt <= clock + TTL
      BY <3>2 DEF ChainInv, TimesInOrder
    <3>4. QED
      BY <1>0, <3>1, <3>3
  <2>3. (pc[q] = "commit" /\ tok'[q] = tok[q] /\ succExp'[q] = succExp[q]) \/ WriteRotation(q)
    BY <1>3, CommitStage
  <2>4. QED
    BY <2>1, <2>2, <2>3
<1>4. QED
  BY <1>1, <1>2, <1>3 DEF TimesInOrder

(* An issued token that is not accepted never is again; a kept row that is *)
(* revoked never changes.                                                  *)
LEMMA RowStep ==
    ASSUME IInv, ChainInv, [Next]_vars, NEW t \in Token, Issued(t)
    PROVE  /\ rows'[t].state # "unissued"
           /\ ~Active(t) => rows'[t] = rows[t] \/ rows'[t] = Absent("deleted")
           /\ rows'[t].state = "live" =>
                 /\ Live(t)
                 /\ rows'[t].family = rows[t].family
                 /\ rows'[t].expiresAt = rows[t].expiresAt
<1> DEFINE Kept ==
           /\ rows'[t].state # "unissued"
           /\ ~Active(t) => rows'[t] = rows[t] \/ rows'[t] = Absent("deleted")
           /\ rows'[t].state = "live" =>
                 /\ Live(t)
                 /\ rows'[t].family = rows[t].family
                 /\ rows'[t].expiresAt = rows[t].expiresAt
<1>1. CASE rows'[t] = rows[t]
  BY <1>1 DEF Issued, Live
<1>2. ASSUME NEW p \in Proc, NEW a \in Agent, Login(p, a) PROVE rows'[t] = rows[t]
  BY <1>2, LoginRows DEF Issued
<1>3. ASSUME NEW p \in Proc, CommitRotation(p) PROVE Kept
  BY <1>1, <1>3, CommitRows DEF Active, Live, Issued
<1>4. ASSUME NEW p \in Proc, RevokeForLogout(p) PROVE Kept
  BY <1>1, <1>4, LogoutRows DEF Active, Live
<1>5. ASSUME Cleanup, rows'[t] # rows[t] PROVE rows'[t] = Absent("deleted")
  BY <1>5, CleanupRows
<1>6. CASE rows'[t] = Absent("deleted")
  BY <1>6 DEF Absent
<1>7. QED
  BY <1>1, <1>2, <1>3, <1>4, <1>5, <1>6, RowsStay

(* A link is made by the commit of a rotation only.                        *)
LEMMA LinkStep ==
    ASSUME IInv, ChainInv, [Next]_vars,
           NEW s \in Token, Live(s)', NEW t \in Token, rows'[s].replacedBy = t
    PROVE  \/ Live(s) /\ rows[s].replacedBy = t
           \/ \E p \in Proc : CommitRotation(p) /\ s = tok[p] /\ t = succ[p]
<1> DEFINE Old == Live(s) /\ rows[s].replacedBy = t
<1>1. ASSUME rows'[s] = rows[s] PROVE Old
  BY <1>1 DEF Live
<1>2. ASSUME NEW p \in Proc, NEW a \in Agent, Login(p, a) PROVE Old
  <2>1. PICK n \in Token : /\ rows'[n] = NewRow(n, a, clock + TTL)
                           /\ rows'[n].replacedBy = Null
                           /\ \A u \in Token : u # n => rows'[u] = rows[u]
    BY <1>2, LoginRows
  <2>2. QED
    BY <1>1, <2>1
<1>3. ASSUME NEW p \in Proc, CommitRotation(p)
      PROVE  Old \/ (s = tok[p] /\ t = succ[p])
  BY <1>1, <1>3, CommitRows
<1>4. ASSUME NEW p \in Proc, RevokeForLogout(p) PROVE Old
  BY <1>1, <1>4, LogoutRows DEF Active
<1>5. ASSUME Cleanup PROVE Old
  <2>1. rows'[s] = rows[s] \/ rows'[s] = Absent("deleted")
    BY <1>5, CleanupRows
  <2>2. rows'[s] # Absent("deleted")
    BY DEF Live, Absent
  <2>3. QED
    BY <1>1, <2>1, <2>2
<1>6. QED
  BY <1>1, <1>2, <1>3, <1>4, <1>5, RowsStay

LEMMA ChainsStep == ASSUME IInv, IInv', ChainInv, [Next]_vars PROVE ChainsLinear'
<1>1. ASSUME NEW s \in Token, NEW t \in Token, NEW u \in Token, Live(s)', Live(t)',
             rows'[s].replacedBy = u, rows'[t].replacedBy = u
      PROVE  s = t
  <2>1. CASE /\ Live(s) /\ rows[s].replacedBy = u
             /\ Live(t) /\ rows[t].replacedBy = u
    BY <2>1 DEF ChainInv, ChainsLinear
  <2>2. ASSUME NEW p \in Proc, CommitRotation(p), u = succ[p], NEW r \in Token, Live(r)
        PROVE  rows[r].replacedBy # u
    BY <2>2, CommitRows DEF ChainInv, ChainsLinear, Live, Issued
  <2>3. ASSUME NEW p \in Proc, NEW q \in Proc, CommitRotation(p), CommitRotation(q),
               succ[p] = succ[q]
        PROVE  p = q
    BY <2>3 DEF CommitRotation, IInv, LockInv, SuccFresh
  <2>4. QED
    BY <1>1, <2>1, <2>2, <2>3, LinkStep
<1>2. ASSUME NEW s \in Token, NEW t \in Token, Live(s)', rows'[s].replacedBy = t
      PROVE  /\ Live(t)' /\ SameFamily(s, t)'
             /\ rows'[s].expiresAt <= rows'[t].expiresAt
             /\ rows'[s].revokedAt # Null
  <2>1. CASE Live(s) /\ rows[s].replacedBy = t
    <3>1. /\ Live(t) /\ SameFamily(s, t) /\ rows[s].revokedAt # Null
          /\ rows[s].expiresAt <= rows[t].expiresAt
      BY <2>1 DEF ChainInv, ChainsLinear
    <3>2. rows'[s] = rows[s]
      <4>1. rows'[s] # Absent("deleted")
        BY <1>2 DEF Live, Absent
      <4>2. QED
        BY <2>1, <3>1, <4>1, RowStep DEF Active, Live, Issued
    <3>3. Live(t)'
      <4>1. ASSUME Cleanup PROVE rows'[t] = rows[t]
        <5>1. s \notin PastExpiry \union StaleRevoked
          BY <1>2, <4>1, CleanupRows DEF Live, Absent
        <5>2. QED
          BY <2>1, <4>1, <5>1, CleanupRows
      <4>2. ASSUME ~Cleanup PROVE rows'[t].state = "live"
        BY <3>1, <4>2, LoginRows, CommitRows, LogoutRows, RowsStay DEF Live, Active, Issued
      <4>3. QED
        BY <3>1, <4>1, <4>2 DEF Live
    <3>4. rows'[t].family = rows[t].family /\ rows'[t].expiresAt = rows[t].expiresAt
      BY <3>1, <3>3, RowStep DEF Live, Issued
    <3>5. QED
      BY <3>1, <3>2, <3>3, <3>4 DEF SameFamily
  <2>2. ASSUME NEW p \in Proc, CommitRotation(p), s = tok[p], t = succ[p]
        PROVE  /\ Live(t)' /\ SameFamily(s, t)'
               /\ rows'[s].expiresAt <= rows'[t].expiresAt
               /\ rows'[s].revokedAt # Null
    <3>1. rows[s].expiresAt <= succExp[p]
      BY <2>2 DEF CommitRotation, ChainInv, TimesInOrder
    <3>2. /\ rows'[t].state = "live" /\ rows'[t].family = rows[s].family
          /\ rows'[t].expiresAt = succExp[p]
      BY <2>2, CommitRows
    <3>3. QED
      BY <2>2, <3>1, <3>2, CommitRows DEF Live, SameFamily
  <2>3. QED
    BY <1>2, <2>1, <2>2, LinkStep
<1>3. \A s \in Token : rows'[s].replacedBy \in Token \union {Null}
  BY DEF IInv, DataInv, TypeOK
<1>4. QED
  BY <1>1, <1>2, <1>3 DEF ChainsLinear

LEMMA OrderStep == ASSUME IInv, IInv', ChainInv, [Next]_vars PROVE RevokedInOrder'
<1> SUFFICES ASSUME NEW s \in Token, NEW t \in Token, Live(s)', rows'[s].replacedBy = t
             PROVE  /\ rows'[t].revokedAt # Null => rows'[s].revokedAt <= rows'[t].revokedAt
                    /\ \A p \in Proc : pc'[p] \in Presented /\ tok'[p] = t =>
                          rows'[s].revokedAt <= begin'[p]
  BY DEF RevokedInOrder
<1>0. clock \in Nat /\ \A q \in Proc : begin[q] \in Nat
  BY DEF IInv, DataInv, TypeOK
<1>1. CASE Live(s) /\ rows[s].replacedBy = t
  <2>1. /\ rows[s].revokedAt # Null /\ Live(t)
        /\ rows[t].revokedAt # Null => rows[s].revokedAt <= rows[t].revokedAt
        /\ \A p \in Proc : pc[p] \in Presented /\ tok[p] = t => rows[s].revokedAt <= begin[p]
        /\ rows[s].revokedAt <= clock
    BY <1>1 DEF ChainInv, ChainsLinear, RevokedInOrder, TimesInOrder
  <2>2. rows'[s] = rows[s]
    <3>1. rows'[s] # Absent("deleted")
      BY DEF Live, Absent
    <3>2. QED
      BY <1>1, <2>1, <3>1, RowStep DEF Active, Live, Issued
  <2>3. Live(t)'
    BY ChainsStep DEF ChainsLinear
  <2>4. rows'[t].revokedAt # Null => rows[s].revokedAt <= rows'[t].revokedAt
    <3>1. CASE rows'[t] = rows[t]
      BY <2>1, <3>1
    <3>2. ASSUME NEW p \in Proc, CommitRotation(p), rows'[t] # rows[t]
          PROVE  rows'[t].revokedAt = begin[p] /\ pc[p] = "commit" /\ tok[p] = t
      <4>1. t = tok[p] /\ rows'[tok[p]].revokedAt = begin[p]
        BY <2>1, <3>2, CommitRows DEF Live, Issued
      <4>2. QED
        BY <3>2, <4>1 DEF CommitRotation
    <3>3. ASSUME NEW p \in Proc, RevokeForLogout(p), rows'[t] # rows[t]
          PROVE  rows'[t].revokedAt = begin[p] /\ pc[p] = "logout" /\ tok[p] = t
      BY <2>1, <3>3, LogoutRows DEF RevokeForLogout
    <3>4. ASSUME NEW p \in Proc, NEW a \in Agent, Login(p, a) PROVE rows'[t] = rows[t]
      BY <2>1, <3>4, LoginRows DEF Live, Issued
    <3>5. ASSUME Cleanup PROVE rows'[t] = rows[t]
      BY <2>3, <3>5, CleanupRows DEF Live, Absent
    <3>6. QED
      BY <2>1, <3>1, <3>2, <3>3, <3>4, <3>5, RowsStay
  <2>5. ASSUME NEW p \in Proc, pc'[p] \in Presented, tok'[p] = t
        PROVE  rows[s].revokedAt <= begin'[p]
    BY <2>1, <2>5, RequestStep
  <2>6. QED
    BY <2>2, <2>4, <2>5
<1>2. ASSUME NEW q \in Proc, CommitRotation(q), s = tok[q], t = succ[q]
      PROVE  /\ rows'[t].revokedAt = Null
             /\ \A p \in Proc : pc'[p] \in Presented => tok'[p] # t
  <2>1. rows'[t].revokedAt = Null
    BY <1>2, CommitRows
  <2>2. ~Issued(t)
    BY <1>2, CommitRows
  <2>3. \A p \in Proc : pc[p] \in Presented => tok[p] # t
    BY <2>2 DEF IInv, DataInv, TokIssued
  <2>4. t \notin sent
    BY <2>2 DEF IInv, DataInv, SentIsDurable, Issued
  <2>5. QED
    BY <2>1, <2>3, <2>4, RequestStep
<1>3. QED
  BY <1>1, <1>2, LinkStep

LEMMA ChainInductive == Spec => []ChainInv
<1>1. Init => ChainInv
  BY DEF Init, ChainInv, ChainsLinear, TimesInOrder, RevokedInOrder, Absent, Live
<1>2. IInv /\ IInv' /\ ChainInv /\ [Next]_vars => ChainInv'
  BY TimesStep, ChainsStep, OrderStep DEF ChainInv
<1>3. QED
  BY <1>1, <1>2, Inductive, PTL DEF Spec

(* However rotations, logouts and the cleanup overlap, a family stays one  *)
(* chain whose expiry never goes back (buildRotationPayload).              *)
THEOREM ChainsStayLinear == Spec => []ChainsLinear
<1>1. ChainInv => ChainsLinear
  BY DEF ChainInv
<1>2. QED
  BY ChainInductive, <1>1, PTL

-----------------------------------------------------------------------------
(* What the cache and an open answer repeat of the table stays true.       *)

(* What a request that has committed its rotation will put in the cache.   *)
RespondTrue == \A p \in Proc : pc[p] = "respond" /\ tok[p] # Null =>
    /\ Issued(tok[p])
    /\ Live(tok[p]) => /\ rows[tok[p]].replacedBy = succ[p]
                       /\ rows[succ[p]].expiresAt = succExp[p]

CacheKeysIssued == \A t \in Token : cache[t] # Null => Issued(t)

CacheInv == GraceFaithful /\ RespondTrue /\ CacheKeysIssued

(* The pair of a spent token and the successor it was replaced by.         *)
Pair(t, n, exp) ==
    /\ Issued(t)
    /\ Live(t) => rows[t].replacedBy = n /\ rows[n].expiresAt = exp

(* The same of the table after a step, of values that may be primed.       *)
PairNext(t, n, exp) ==
    /\ rows'[t].state # "unissued"
    /\ rows'[t].state = "live" => rows'[t].replacedBy = n /\ rows'[n].expiresAt = exp

LEMMA PairStays ==
    ASSUME IInv, IInv', ChainInv, ChainInv', [Next]_vars,
           NEW t \in Token, NEW n \in Token, NEW exp, Pair(t, n, exp)
    PROVE  PairNext(t, n, exp)
<1>1. Issued(t)'
  BY RowStep DEF Pair, Issued
<1>2. ASSUME rows'[t].state = "live"
      PROVE  rows'[t].replacedBy = n /\ rows'[n].expiresAt = exp
  <2>1. Live(t) /\ rows[t].replacedBy = n /\ rows[n].expiresAt = exp
    BY <1>2, RowStep DEF Pair, Live
  <2>2. rows[t].revokedAt # Null /\ Live(n)
    BY <2>1 DEF ChainInv, ChainsLinear
  <2>3. rows'[t] = rows[t]
    <3>1. rows'[t] # Absent("deleted")
      BY <1>2 DEF Live, Absent
    <3>2. QED
      BY <2>1, <2>2, <3>1, RowStep DEF Active, Live, Issued
  <2>4. Live(n)'
    BY <1>2, <2>1, <2>3 DEF ChainInv, ChainsLinear, Live
  <2>5. rows'[n].expiresAt = rows[n].expiresAt
    BY <2>2, <2>4, RowStep DEF Live, Issued
  <2>6. QED
    BY <2>1, <2>3, <2>5
<1>3. QED
  BY <1>1, <1>2 DEF PairNext, Issued, Live

(* A token is answered with its successor after its rotation committed.    *)
LEMMA RespondStage ==
    ASSUME IInv, [Next]_vars, NEW q \in Proc, pc'[q] = "respond", tok'[q] # Null
    PROVE  \/ pc[q] = "respond" /\ UNCHANGED <<tok[q], succ[q], succExp[q]>>
           \/ CommitRotation(q) /\ UNCHANGED <<tok[q], succ[q], succExp[q]>>
<1> DEFINE Stays == pc[q] = "respond" /\ UNCHANGED <<tok[q], succ[q], succExp[q]>>
<1>0. /\ pc \in [Proc -> Stages] /\ tok \in [Proc -> Token \union {Null}]
      /\ succ \in [Proc -> Token \union {Null}] /\ succExp \in [Proc -> Nat]
  BY DEF IInv, DataInv, TypeOK
<1> USE DEF GoTo, Finish, Accept, request, table
<1>1. ASSUME NEW p \in Proc, Arrive(p) PROVE Stays
  BY <1>0, <1>1 DEF Arrive, Login, Refresh, Logout
<1>2. ASSUME NEW p \in Proc, Granted(p) PROVE Stays
  BY <1>0, <1>2 DEF Granted, AcquireLock, LockFamilyRow, RevokeForLogout
<1>3. ASSUME NEW p \in Proc, Proceed(p)
      PROVE  Stays \/ (CommitRotation(q) /\ UNCHANGED <<tok[q], succ[q], succExp[q]>>)
  <2>1. EvaluateMissing(p) \/ EvaluateExpired(p) \/ Respond(p) \/ RespondGrace(p)
        \/ RejectReuse(p) => Stays
    BY <1>0 DEF EvaluateMissing, EvaluateExpired, Respond, RespondGrace, RejectReuse
  <2>2. EvaluateActive(p) \/ EvaluateGrace(p) \/ EvaluateTheft(p) \/ RevokeFamily(p) => Stays
    BY <1>0 DEF EvaluateActive, EvaluateGrace, EvaluateTheft, RevokeFamily
  <2>3. WriteRotation(p) => Stays
    BY <1>0 DEF WriteRotation
  <2>4. CommitRotation(p) => UNCHANGED <<tok[q], succ[q], succExp[q]>> /\ (pc[q] = "respond" \/ p = q)
    BY <1>0 DEF CommitRotation
  <2>5. QED
    BY <1>3, <2>1, <2>2, <2>3, <2>4 DEF Proceed
<1>4. ASSUME NEW p \in Proc, Fail(p) PROVE Stays
  BY <1>0, <1>4 DEF Fail
<1>5. ASSUME NEW t \in Token, EvictGrace(t) PROVE Stays
  BY <1>5 DEF EvictGrace
<1>6. Cleanup \/ Crash \/ Tick \/ UNCHANGED vars => Stays
  BY <1>0 DEF Cleanup, Crash, Tick, vars
<1>7. QED
  BY <1>1, <1>2, <1>3, <1>4, <1>5, <1>6 DEF Next

(* An entry of the cache is what an answer put there.                      *)
LEMMA CacheEntryStep ==
    ASSUME IInv, [Next]_vars, NEW t \in Token, cache'[t] # Null
    PROVE  \/ cache[t] # Null /\ cache'[t] = cache[t]
           \/ \E p \in Proc : /\ pc[p] = "respond" /\ tok[p] = t
                              /\ cache'[t].succ = succ[p] /\ cache'[t].exp = succExp[p]
                              /\ UNCHANGED rows
<1> DEFINE Stays == cache[t] # Null /\ cache'[t] = cache[t]
<1>0. cache \in [Token -> CacheEntry \union {Null}]
  BY DEF IInv, DataInv, TypeOK
<1>1. UNCHANGED cache => Stays
  OBVIOUS
<1>2. ASSUME NEW p \in Proc, Respond(p)
      PROVE  \/ Stays
             \/ /\ pc[p] = "respond" /\ tok[p] = t
                /\ cache'[t].succ = succ[p] /\ cache'[t].exp = succExp[p]
                /\ UNCHANGED rows
  <2>1. CASE tok[p] = t
    <3>1. cache'[t] = [succ |-> succ[p], exp |-> succExp[p], at |-> clock]
      BY <1>0, <1>2, <2>1 DEF Respond
    <3>2. QED
      BY <1>2, <2>1, <3>1 DEF Respond
  <2>2. CASE tok[p] # t
    BY <1>0, <1>2, <2>2 DEF Respond
  <2>3. QED
    BY <2>1, <2>2
<1>3. ASSUME NEW u \in Token, EvictGrace(u) PROVE Stays
  BY <1>0, <1>3 DEF EvictGrace
<1>4. ASSUME Crash PROVE FALSE
  BY <1>4 DEF Crash
<1>5. ASSUME NEW p \in Proc, Arrive(p) \/ Granted(p) \/ Fail(p) PROVE UNCHANGED cache
  BY <1>5 DEF Arrive, Granted, Fail, Login, Refresh, Logout, AcquireLock, LockFamilyRow,
              RevokeForLogout
<1>6. ASSUME NEW p \in Proc, Proceed(p) PROVE UNCHANGED cache \/ Respond(p)
  BY <1>6 DEF Proceed, EvaluateMissing, EvaluateExpired, EvaluateActive, EvaluateGrace,
              EvaluateTheft, WriteRotation, CommitRotation, RespondGrace, RevokeFamily,
              RejectReuse
<1>7. Cleanup \/ Tick \/ UNCHANGED vars => UNCHANGED cache
  BY DEF Cleanup, Tick, vars
<1>8. QED
  BY <1>1, <1>2, <1>3, <1>4, <1>5, <1>6, <1>7 DEF Next

LEMMA CacheStep ==
    ASSUME IInv, IInv', ChainInv, ChainInv', CacheInv, [Next]_vars
    PROVE  CacheInv'
<1>1. ASSUME NEW t \in Token, cache[t] # Null
      PROVE  cache[t].succ \in Token /\ Pair(t, cache[t].succ, cache[t].exp)
  <2>1. cache[t] \in CacheEntry
    BY <1>1 DEF IInv, DataInv, TypeOK
  <2>2. QED
    BY <1>1, <2>1 DEF CacheInv, CacheKeysIssued, GraceFaithful, Pair
<1>2. ASSUME NEW p \in Proc, pc[p] = "respond", tok[p] # Null
      PROVE  tok[p] \in Token /\ succ[p] \in Token /\ Pair(tok[p], succ[p], succExp[p])
  BY <1>2 DEF CacheInv, RespondTrue, Pair, IInv, DataInv, TypeOK, SuccIssued
<1>3. ASSUME NEW t \in Token, cache'[t] # Null
      PROVE  PairNext(t, cache'[t].succ, cache'[t].exp)
  <2>1. CASE cache[t] # Null /\ cache'[t] = cache[t]
    BY <1>1, <2>1, PairStays
  <2>2. ASSUME NEW p \in Proc, pc[p] = "respond", tok[p] = t,
               cache'[t].succ = succ[p], cache'[t].exp = succExp[p], UNCHANGED rows
        PROVE  PairNext(t, cache'[t].succ, cache'[t].exp)
    <3>1. Pair(t, succ[p], succExp[p])
      BY <1>2, <2>2
    <3>2. QED
      BY <2>2, <3>1 DEF Pair, PairNext, Issued, Live
  <2>3. QED
    BY <1>3, <2>1, <2>2, CacheEntryStep
<1>4. ASSUME NEW p \in Proc, pc'[p] = "respond", tok'[p] # Null
      PROVE  PairNext(tok'[p], succ'[p], succExp'[p])
  <2>1. CASE pc[p] = "respond" /\ UNCHANGED <<tok[p], succ[p], succExp[p]>>
    <3>1. tok[p] \in Token /\ succ[p] \in Token /\ Pair(tok[p], succ[p], succExp[p])
      BY <1>2, <1>4, <2>1
    <3>2. QED
      BY <2>1, <3>1, PairStays
  <2>2. CASE CommitRotation(p) /\ UNCHANGED <<tok[p], succ[p], succExp[p]>>
    <3>1. /\ rows'[tok[p]].state = "live" /\ rows'[tok[p]].replacedBy = succ[p]
          /\ rows'[succ[p]].expiresAt = succExp[p]
      BY <2>2, CommitRows
    <3>2. QED
      BY <2>2, <3>1 DEF PairNext
  <2>3. QED
    BY <1>4, <2>1, <2>2, RespondStage
<1>5. GraceFaithful' /\ CacheKeysIssued'
  BY <1>3 DEF PairNext, GraceFaithful, CacheKeysIssued, Live, Issued
<1>6. RespondTrue'
  BY <1>4 DEF PairNext, RespondTrue, Live, Issued
<1>7. QED
  BY <1>5, <1>6 DEF CacheInv

(* A retry is given the successor that was committed, with its first       *)
(* expiry: the cache never lies about the table (setGraceEntry).           *)
THEOREM CacheIsFaithful == Spec => []GraceFaithful
<1>1. Init => CacheInv
  BY DEF Init, CacheInv, GraceFaithful, RespondTrue, CacheKeysIssued
<1>2. IInv /\ IInv' /\ ChainInv /\ ChainInv' /\ CacheInv /\ [Next]_vars => CacheInv'
  BY CacheStep
<1>3. CacheInv => GraceFaithful
  BY DEF CacheInv
<1>4. QED
  BY <1>1, <1>2, <1>3, Inductive, ChainInductive, PTL DEF Spec

-----------------------------------------------------------------------------
(* What a row records of its end is final.                                 *)

(* A token that was issued and is not accepted will not be again.          *)
LogoutInv == \A p \in Proc : reply[p] = "loggedOut" =>
    tok[p] \in Token /\ Issued(tok[p]) /\ ~Active(tok[p])

(* A token is called logged out once it was issued and is not accepted.    *)
LEMMA LogoutStep ==
    ASSUME IInv, IInv', ChainInv, LogoutInv, [Next]_vars
    PROVE  LogoutInv'
<1> DEFINE Dead(t) == t \in Token /\ Issued(t) /\ ~Active(t)
           DeadNext(t) == t \in Token /\ rows'[t].state # "unissued"
                          /\ ~(rows'[t].state = "live" /\ rows'[t].revokedAt = Null)
           Stays(q) == tok'[q] = tok[q] /\ reply[q] = "loggedOut"
<1>0. /\ pc \in [Proc -> Stages] /\ tok \in [Proc -> Token \union {Null}]
      /\ reply \in [Proc -> Lasting \union {"none"}] /\ sent \subseteq Token
      /\ \A t \in sent : Issued(t)
  BY DEF IInv, DataInv, TypeOK, SentIsDurable, Issued
<1>1. ASSUME NEW t \in Token, Dead(t) PROVE DeadNext(t)
  <2>1. rows'[t] = rows[t] \/ rows'[t] = Absent("deleted")
    BY <1>1, RowStep
  <2>2. QED
    BY <1>1, <2>1 DEF Issued, Active, Live, Absent
<1>2. ASSUME NEW q \in Proc, reply'[q] = "loggedOut"
      PROVE  Stays(q) \/ Dead(tok'[q]) \/ DeadNext(tok'[q])
  <2> USE DEF GoTo, Finish, Accept, request, table
  <2>1. ASSUME NEW p \in Proc, Arrive(p) PROVE Stays(q) \/ Dead(tok'[q])
    <3>1. ASSUME NEW a \in Agent, Login(p, a) PROVE Stays(q)
      BY <1>0, <1>2, <3>1 DEF Login
    <3>2. ASSUME NEW t \in Token, NEW a \in Agent, Refresh(p, t, a) PROVE Stays(q)
      BY <1>0, <1>2, <3>2 DEF Refresh
    <3>3. ASSUME NEW t \in Token, Logout(p, t) PROVE Stays(q) \/ Dead(tok'[q])
      BY <1>0, <1>2, <3>3 DEF Logout
    <3>4. QED
      BY <2>1, <3>1, <3>2, <3>3 DEF Arrive
  <2>2. ASSUME NEW p \in Proc, AcquireLock(p) \/ \E r \in Token : LockFamilyRow(p, r)
        PROVE  Stays(q)
    BY <1>0, <1>2, <2>2 DEF AcquireLock, LockFamilyRow
  <2>3. ASSUME NEW p \in Proc, RevokeForLogout(p) PROVE Stays(q) \/ DeadNext(tok'[q])
    <3>1. CASE q # p
      BY <1>0, <1>2, <2>3, <3>1 DEF RevokeForLogout
    <3>2. CASE q = p
      <4>1. tok'[q] = tok[p]
        BY <1>0, <2>3, <3>2 DEF RevokeForLogout
      <4>2. DeadNext(tok[p])
        BY <2>3, LogoutRows DEF Issued, Active, Live
      <4>3. QED
        BY <4>1, <4>2
    <3>3. QED
      BY <3>1, <3>2
  <2>4. ASSUME NEW p \in Proc, Proceed(p) PROVE Stays(q)
    <3>1. EvaluateMissing(p) \/ EvaluateExpired(p) \/ Respond(p) \/ RespondGrace(p)
          \/ RejectReuse(p) => Stays(q)
      BY <1>0, <1>2 DEF EvaluateMissing, EvaluateExpired, Respond, RespondGrace, RejectReuse
    <3>2. EvaluateActive(p) \/ EvaluateGrace(p) \/ EvaluateTheft(p) \/ RevokeFamily(p)
          \/ WriteRotation(p) \/ CommitRotation(p) => Stays(q)
      BY <1>2 DEF EvaluateActive, EvaluateGrace, EvaluateTheft, RevokeFamily,
                  WriteRotation, CommitRotation
    <3>3. QED
      BY <2>4, <3>1, <3>2 DEF Proceed
  <2>5. ASSUME NEW p \in Proc, Fail(p) PROVE Stays(q)
    BY <1>0, <1>2, <2>5 DEF Fail
  <2>6. ASSUME NEW t \in Token, EvictGrace(t) PROVE Stays(q)
    BY <1>2, <2>6 DEF EvictGrace
  <2>7. Cleanup \/ Crash \/ Tick \/ UNCHANGED vars => Stays(q)
    BY <1>2 DEF Cleanup, Crash, Tick, vars
  <2>8. QED
    BY <2>1, <2>2, <2>3, <2>4, <2>5, <2>6, <2>7 DEF Next, Granted
<1>3. ASSUME NEW q \in Proc, reply'[q] = "loggedOut"
      PROVE  DeadNext(tok'[q])
  BY <1>1, <1>2, <1>3 DEF LogoutInv
<1>4. QED
  BY <1>3 DEF LogoutInv, Issued, Active, Live

(* Once logout has answered, no rotation that was under way, retry, crash  *)
(* or cleanup makes its token an accepted one (revokeRowForLogout).        *)
THEOREM LogoutIsFinal == Spec => []LogoutEffective
<1>1. Init => LogoutInv
  BY DEF Init, LogoutInv
<1>2. IInv /\ IInv' /\ ChainInv /\ LogoutInv /\ [Next]_vars => LogoutInv'
  BY LogoutStep
<1>3. LogoutInv => LogoutEffective
  BY DEF LogoutInv, LogoutEffective
<1>4. QED
  BY <1>1, <1>2, <1>3, Inductive, ChainInductive, PTL DEF Spec

(* What the cleanup job takes, no refresh could be granted with any more.  *)
LEMMA CleanupKeepsGrantable ==
    ASSUME IInv, NEW t \in PastExpiry \union StaleRevoked
    PROVE  ~Grantable(t)
<1>0. /\ t \in Token /\ clock \in Nat
      /\ rows[t].expiresAt \in Nat /\ rows[t].revokedAt \in Nat \union {Null}
  BY DEF IInv, DataInv, TypeOK, PastExpiry, StaleRevoked
<1>1. CASE t \in PastExpiry
  BY <1>0, <1>1 DEF PastExpiry, Grantable, Expired
<1>2. CASE t \in StaleRevoked
  BY <1>0, <1>2, WindowAssumption DEF StaleRevoked, Grantable, Active
<1>3. QED
  BY <1>1, <1>2

(* Revocation and the link to the successor are never undone, and only the *)
(* cleanup removes a row, when it can no longer be granted (revokeRow,     *)
(* revokeRowForLogout, deleteExpiredAndStaleRevoked).                      *)
THEOREM RevocationIsFinal == Spec => RevocationFinal
<1> DEFINE Final(t) ==
        /\ rows'[t].state = "deleted" => ~Grantable(t)
        /\ ~Active(t) => rows'[t] = rows[t] \/ rows'[t].state = "deleted"
<1>1. ASSUME IInv, ChainInv, [Next]_vars, NEW t \in Token, Live(t)
      PROVE  Final(t)
  <2>1. ~Active(t) => rows'[t] = rows[t] \/ rows'[t].state = "deleted"
    <3>1. ~Active(t) => rows'[t] = rows[t] \/ rows'[t] = Absent("deleted")
      BY <1>1, RowStep DEF Live, Issued
    <3>2. QED
      BY <3>1 DEF Absent
  <2>2. ASSUME rows'[t].state = "deleted" PROVE ~Grantable(t)
    <3>1. rows'[t] # rows[t]
      BY <1>1, <2>2 DEF Live
    <3>2. ASSUME NEW p \in Proc, NEW a \in Agent, Login(p, a) PROVE FALSE
      BY <1>1, <3>1, <3>2, LoginRows DEF Live, Issued
    <3>3. ASSUME NEW p \in Proc, CommitRotation(p) PROVE FALSE
      BY <1>1, <2>2, <3>1, <3>3, CommitRows DEF Live, Issued
    <3>4. ASSUME NEW p \in Proc, RevokeForLogout(p) PROVE FALSE
      BY <1>1, <2>2, <3>1, <3>4, LogoutRows
    <3>5. Cleanup
      BY <1>1, <3>1, <3>2, <3>3, <3>4, RowsStay
    <3>6. t \in PastExpiry \union StaleRevoked
      BY <1>1, <3>1, <3>5, CleanupRows
    <3>7. QED
      BY <1>1, <3>6, CleanupKeepsGrantable
  <2>3. QED
    BY <2>1, <2>2
<1>2. IInv /\ ChainInv /\ [Next]_vars =>
        [\A t \in Token : Live(t) => Final(t)]_rows
  BY <1>1
<1>3. QED
  BY <1>2, Inductive, ChainInductive, PTL DEF Spec, RevocationFinal

-----------------------------------------------------------------------------
(* Waiting for row locks.                                                  *)

(* Rows are locked by requests inside their transaction: each its own, and *)
(* on the theft path the family's, of which there is one to lock.          *)
HoldersKnown == \A q \in Proc, r \in Token : lock[r] = q =>
    \/ pc[q] \in {"evaluate", "write", "commit", "grace", "revokeFamily"} /\ r = tok[q]
    \/ pc[q] = "lockFamily" /\ (r = tok[q] \/ targets[q] = {})

TheftPath == {"revokeFamily", "lockFamily"}

TheftOfRevoked == \A p \in Proc : pc[p] \in TheftPath => ~Active(tok[p])

OneTarget == \A p \in Proc :
    /\ pc[p] # "lockFamily" => targets[p] = {}
    /\ \A r, s \in targets[p] : r = s

(* p's UPDATE is about to lock the row q's transaction began with.         *)
Targets(p, q) == pc[p] \in TheftPath /\ pc[q] \in TheftPath /\ tok[q] \in targets[p]

NoTargetCycle == \A p, q, r \in Proc :
    /\ ~(Targets(p, q) /\ Targets(q, p))
    /\ ~(Targets(p, q) /\ Targets(q, r) /\ Targets(r, p))

WaitInv == HoldersKnown /\ TheftOfRevoked /\ OneTarget /\ NoTargetCycle

LEMMA HoldersStep ==
    ASSUME IInv, WaitInv, [Next]_vars
    PROVE  HoldersKnown'
<1>0. /\ pc \in [Proc -> Stages] /\ tok \in [Proc -> Token \union {Null}]
      /\ lock \in [Token -> Proc \union {Null}] /\ targets \in [Proc -> SUBSET Token]
      /\ Null \notin Proc
  BY DEF IInv, DataInv, TypeOK
<1>1. HoldersKnown /\ OneTarget
  BY DEF WaitInv
<1> USE <1>0, <1>1 DEF HoldersKnown, OneTarget, GoTo, Finish, Accept, LocksWithout, request, table
<1>2. ASSUME NEW p \in Proc, Arrive(p) PROVE HoldersKnown'
  BY <1>2 DEF Arrive, Login, Refresh, Logout
<1>3. ASSUME NEW p \in Proc, AcquireLock(p) PROVE HoldersKnown'
  BY <1>3 DEF AcquireLock
<1>4. ASSUME NEW p \in Proc, NEW r \in Token, LockFamilyRow(p, r) PROVE HoldersKnown'
  BY <1>4 DEF LockFamilyRow
<1>5. ASSUME NEW p \in Proc, RevokeForLogout(p) \/ Fail(p) PROVE HoldersKnown'
  BY <1>5 DEF RevokeForLogout, Fail
<1>6. ASSUME NEW p \in Proc, Proceed(p) PROVE HoldersKnown'
  <2>1. EvaluateMissing(p) \/ EvaluateExpired(p) \/ Respond(p) \/ RespondGrace(p)
        \/ RejectReuse(p) => HoldersKnown'
    BY DEF EvaluateMissing, EvaluateExpired, Respond, RespondGrace, RejectReuse
  <2>2. EvaluateActive(p) \/ EvaluateGrace(p) \/ EvaluateTheft(p) \/ RevokeFamily(p)
        => HoldersKnown'
    BY DEF EvaluateActive, EvaluateGrace, EvaluateTheft, RevokeFamily
  <2>3. WriteRotation(p) => HoldersKnown'
    BY DEF WriteRotation
  <2>4. ASSUME CommitRotation(p) PROVE HoldersKnown'
    <3>1. /\ \A r \in Token : lock'[r] = IF lock[r] = p THEN Null ELSE lock[r]
          /\ \A q \in Proc : q # p => pc'[q] = pc[q]
          /\ tok' = tok /\ targets' = targets
      BY <2>4 DEF CommitRotation
    <3>2. QED
      BY <3>1
  <2>5. QED
    BY <1>6, <2>1, <2>2, <2>3, <2>4 DEF Proceed
<1>7. ASSUME NEW t \in Token, EvictGrace(t) PROVE HoldersKnown'
  BY <1>7 DEF EvictGrace
<1>8. Cleanup \/ Crash \/ Tick \/ UNCHANGED vars => HoldersKnown'
  BY DEF Cleanup, Crash, Tick, vars
<1>9. QED
  BY <1>2, <1>3, <1>4, <1>5, <1>6, <1>7, <1>8 DEF Next, Granted

(* How a request's list of rows still to lock changes.                     *)
LEMMA TargetsMove ==
    ASSUME IInv, [Next]_vars, NEW q \in Proc
    PROVE  \/ /\ pc'[q] = pc[q] /\ tok'[q] = tok[q]
              /\ targets'[q] \subseteq targets[q]
           \/ pc'[q] \notin TheftPath /\ (targets'[q] = {} \/ targets'[q] = targets[q])
              /\ (pc[q] = "lockFamily" => targets'[q] = {})
           \/ EvaluateTheft(q) /\ tok'[q] = tok[q] /\ targets'[q] = targets[q]
           \/ /\ RevokeFamily(q) /\ tok'[q] = tok[q]
              /\ targets'[q] = {r \in Token : Active(r) /\ SameFamily(r, tok[q])}
<1> DEFINE Moves ==
           \/ /\ pc'[q] = pc[q] /\ tok'[q] = tok[q]
              /\ targets'[q] \subseteq targets[q]
           \/ pc'[q] \notin TheftPath /\ (targets'[q] = {} \/ targets'[q] = targets[q])
              /\ (pc[q] = "lockFamily" => targets'[q] = {})
           \/ EvaluateTheft(q) /\ tok'[q] = tok[q] /\ targets'[q] = targets[q]
           \/ /\ RevokeFamily(q) /\ tok'[q] = tok[q]
              /\ targets'[q] = {r \in Token : Active(r) /\ SameFamily(r, tok[q])}
<1>0. /\ pc \in [Proc -> Stages] /\ tok \in [Proc -> Token \union {Null}]
      /\ targets \in [Proc -> SUBSET Token]
  BY DEF IInv, DataInv, TypeOK
<1> USE <1>0 DEF TheftPath, GoTo, Finish, Accept, request, table
<1>1. ASSUME NEW p \in Proc, Arrive(p) PROVE Moves
  BY <1>1 DEF Arrive, Login, Refresh, Logout
<1>2. ASSUME NEW p \in Proc, Granted(p) PROVE Moves
  BY <1>2 DEF Granted, AcquireLock, LockFamilyRow, RevokeForLogout
<1>3. ASSUME NEW p \in Proc, Proceed(p) PROVE Moves
  <2>1. EvaluateMissing(p) \/ EvaluateExpired(p) \/ Respond(p) \/ RespondGrace(p)
        \/ RejectReuse(p) => Moves
    BY DEF EvaluateMissing, EvaluateExpired, Respond, RespondGrace, RejectReuse
  <2>2. EvaluateActive(p) \/ EvaluateGrace(p) \/ WriteRotation(p) \/ CommitRotation(p) => Moves
    BY DEF EvaluateActive, EvaluateGrace, WriteRotation, CommitRotation
  <2>3. ASSUME EvaluateTheft(p) PROVE Moves
    <3>1. CASE q = p
      BY <2>3, <3>1 DEF EvaluateTheft
    <3>2. CASE q # p
      BY <2>3, <3>2 DEF EvaluateTheft
    <3>3. QED
      BY <3>1, <3>2
  <2>4. ASSUME RevokeFamily(p) PROVE Moves
    <3>1. CASE q = p
      BY <2>4, <3>1 DEF RevokeFamily
    <3>2. CASE q # p
      BY <2>4, <3>2 DEF RevokeFamily
    <3>3. QED
      BY <3>1, <3>2
  <2>5. QED
    BY <1>3, <2>1, <2>2, <2>3, <2>4 DEF Proceed
<1>4. ASSUME NEW p \in Proc, Fail(p) PROVE Moves
  BY <1>4 DEF Fail
<1>5. ASSUME NEW t \in Token, EvictGrace(t) PROVE Moves
  BY <1>5 DEF EvictGrace
<1>6. Cleanup \/ Crash \/ Tick \/ UNCHANGED vars => Moves
  BY DEF Cleanup, Crash, Tick, vars
<1>7. QED
  BY <1>1, <1>2, <1>3, <1>4, <1>5, <1>6 DEF Next

LEMMA TheftStep ==
    ASSUME IInv, ChainInv, WaitInv, [Next]_vars
    PROVE  TheftOfRevoked' /\ OneTarget' /\ NoTargetCycle'
<1>1. TheftOfRevoked /\ OneTarget /\ NoTargetCycle /\ OneActivePerFamily
  BY DEF WaitInv, IInv, LockInv
<1>2. ASSUME NEW q \in Proc, pc'[q] \in TheftPath
      PROVE  \/ /\ pc[q] \in TheftPath /\ tok'[q] = tok[q] /\ ~Active(tok[q])
                /\ targets'[q] \subseteq targets[q]
             \/ /\ pc[q] = "evaluate" /\ tok'[q] = tok[q] /\ ~Active(tok[q])
                /\ targets'[q] = {}
             \/ /\ pc[q] \in TheftPath /\ tok'[q] = tok[q] /\ ~Active(tok[q])
                /\ targets'[q] = {r \in Token : Active(r) /\ SameFamily(r, tok[q])}
  <2>1. EvaluateTheft(q) => pc[q] = "evaluate" /\ ~Active(tok[q]) /\ targets[q] = {}
    BY <1>1 DEF EvaluateTheft, OneTarget
  <2>2. RevokeFamily(q) => pc[q] \in TheftPath
    BY DEF RevokeFamily, TheftPath
  <2>3. QED
    BY <1>1, <1>2, <2>1, <2>2, TargetsMove DEF TheftOfRevoked
<1>3. TheftOfRevoked'
  <2>1. ASSUME NEW q \in Proc, pc'[q] \in TheftPath
        PROVE  ~(rows'[tok'[q]].state = "live" /\ rows'[tok'[q]].revokedAt = Null)
    <3>1. tok'[q] = tok[q] /\ ~Active(tok[q]) /\ pc[q] \in Presented
      BY <1>2, <2>1 DEF TheftPath
    <3>2. tok[q] \in Token /\ Issued(tok[q])
      BY <3>1 DEF IInv, DataInv, TokIssued
    <3>3. rows'[tok[q]] = rows[tok[q]] \/ rows'[tok[q]] = Absent("deleted")
      BY <3>1, <3>2, RowStep
    <3>4. QED
      BY <3>1, <3>3 DEF Active, Live, Absent
  <2>2. QED
    BY <2>1 DEF TheftOfRevoked, TheftPath, Active, Live
<1>4. OneTarget'
  <2>1. ASSUME NEW q \in Proc
        PROVE  pc'[q] # "lockFamily" => targets'[q] = {}
    <3>1. pc \in [Proc -> Stages] /\ (pc[q] # "lockFamily" => targets[q] = {})
      BY <1>1 DEF OneTarget, IInv, DataInv, TypeOK
    <3>2. EvaluateTheft(q) => targets[q] = {}
      BY <3>1 DEF EvaluateTheft
    <3>3. RevokeFamily(q) => pc'[q] = "lockFamily"
      BY <3>1 DEF RevokeFamily, GoTo
    <3>4. QED
      BY <3>1, <3>2, <3>3, TargetsMove
  <2>2. ASSUME NEW q \in Proc, NEW r \in targets'[q], NEW s \in targets'[q]
        PROVE  r = s
    <3>1. CASE targets'[q] \subseteq targets[q]
      BY <1>1, <2>2, <3>1 DEF OneTarget
    <3>2. CASE targets'[q] = {u \in Token : Active(u) /\ SameFamily(u, tok[q])}
      BY <1>1, <2>2, <3>2 DEF OneActivePerFamily, SameFamily
    <3>3. QED
      BY <2>2, <3>1, <3>2, TargetsMove
  <2>3. QED
    BY <2>1, <2>2 DEF OneTarget
<1> DEFINE Edge(p, q) == pc'[p] \in TheftPath /\ pc'[q] \in TheftPath /\ tok'[q] \in targets'[p]
<1>5. ASSUME NEW p \in Proc, NEW q \in Proc, NEW r \in Proc, Edge(p, q), Edge(q, r)
      PROVE  Targets(p, q)
  BY <1>2, <1>5 DEF Targets
<1>6. NoTargetCycle'
  <2>1. ASSUME NEW p \in Proc, NEW q \in Proc, NEW r \in Proc
        PROVE  /\ ~(Edge(p, q) /\ Edge(q, p))
               /\ ~(Edge(p, q) /\ Edge(q, r) /\ Edge(r, p))
    BY <1>1, <1>5 DEF NoTargetCycle
  <2>2. QED
    BY <2>1 DEF NoTargetCycle, Targets, TheftPath
<1>7. QED
  BY <1>3, <1>4, <1>6

(* Whoever waits while somebody waits for it is locking its family.        *)
LEMMA WaiterTargets ==
    ASSUME IInv, WaitInv, NEW o \in Proc, NEW p \in Proc, NEW q \in Proc, NEW r \in Proc,
           WaitsFor(o, p), WaitsFor(p, q), WaitsFor(q, r)
    PROVE  Targets(p, q)
<1>1. ASSUME NEW a \in Proc, NEW b \in Proc, WaitsFor(a, b)
      PROVE  \E x \in Token : /\ lock[x] = b
                              /\ pc[a] = "lockFamily" => x \in targets[a]
  BY <1>1 DEF WaitsFor, IInv, DataInv, TypeOK, TokIssued
<1>2. ASSUME NEW a \in Proc, NEW b \in Proc, NEW c \in Proc, WaitsFor(a, b), WaitsFor(b, c)
      PROVE  /\ pc[b] = "lockFamily"
             /\ pc[a] = "lockFamily" => tok[b] \in targets[a]
  <2>1. PICK x \in Token : lock[x] = b /\ (pc[a] = "lockFamily" => x \in targets[a])
    BY <1>1, <1>2
  <2>2. pc[b] # "write"
    BY <1>2 DEF WaitsFor, IInv, LockInv, LockHeld
  <2>3. pc[b] = "lockFamily" /\ targets[b] # {}
    BY <1>2, <2>1, <2>2 DEF WaitsFor, WaitInv, HoldersKnown
  <2>4. x = tok[b]
    BY <2>1, <2>3 DEF WaitInv, HoldersKnown
  <2>5. QED
    BY <2>1, <2>3, <2>4
<1>3. QED
  BY <1>2 DEF Targets, TheftPath

(* However many requests of a family refresh, retry and log out at once,   *)
(* no two and no three wait for each other's rows, so the theft path's     *)
(* UPDATE does not deadlock with a rotation (handleRevokedToken).          *)
THEOREM WaitingHasNoCycle == Spec => []NoWaitCycle
<1>1. Init => WaitInv
  BY DEF Init, WaitInv, HoldersKnown, TheftOfRevoked, OneTarget, NoTargetCycle, Targets,
         TheftPath
<1>2. IInv /\ ChainInv /\ WaitInv /\ [Next]_vars => WaitInv'
  BY HoldersStep, TheftStep DEF WaitInv
<1>3. IInv /\ WaitInv => NoWaitCycle
  BY WaiterTargets DEF NoWaitCycle, WaitInv, NoTargetCycle
<1>4. QED
  BY <1>1, <1>2, <1>3, Inductive, ChainInductive, PTL DEF Spec
=============================================================================
