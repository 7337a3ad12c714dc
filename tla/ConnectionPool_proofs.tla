------------------------- MODULE ConnectionPool_proofs -------------------------
(* Why the pool's handlers block each other, proved for any pool, any      *)
(* number of requests and any number of rows.                              *)
EXTENDS ConnectionPool, SequenceTheorems, FiniteSetTheorems, WellFoundedInduction, TLAPS

Queued == {"connect", "outside"}
Open == {"lock", "outside", "read", "commit"}

(* The queue holds those who wait for a connection, each once. *)
QueueOK ==
    /\ \A i \in 1..Len(pending) : stage[pending[i]] \in Queued
    /\ \A i, j \in 1..Len(pending) : pending[i] = pending[j] => i = j
    /\ \A r \in Request : stage[r] \in Queued =>
          \E i \in 1..Len(pending) : pending[i] = r

(* An open transaction has one connection with a BEGIN, and a second one   *)
(* only while it reads outside; a single query has one without.            *)
OwnersOK ==
    /\ \A c \in inTx : owner[c] # Null /\ stage[owner[c]] \in Open
    /\ \A c, d \in inTx : owner[c] = owner[d] => c = d
    /\ \A c \in Connection \ inTx :
          owner[c] # Null => stage[owner[c]] \in {"query", "read"}
    /\ \A r \in Request : stage[r] \in Open => \E c \in inTx : owner[c] = r

(* Rows are held by open transactions, which wait for later rows only. *)
RowsOK ==
    \A x \in Row : rowHolder[x] # Null =>
        /\ stage[rowHolder[x]] \in Open
        /\ x <= want[rowHolder[x]]
        /\ stage[rowHolder[x]] = "lock" => x < want[rowHolder[x]]

NestingOK == \A r \in Request : stage[r] = "outside" => kind[r] = "nesting"

IInv == PoolTypeOK /\ QueueOK /\ OwnersOK /\ RowsOK /\ NestingOK

-----------------------------------------------------------------------------
(* The queue under the three ways a step uses it. *)

LEMMA QueueJoined ==
    ASSUME PoolTypeOK, QueueOK, NEW r \in Request, NEW s \in Queued,
           stage[r] \notin Queued, To(r, s), pending' = Append(pending, r)
    PROVE  QueueOK' /\ pending' \in Seq(Request)
  <1>1. /\ pending' \in Seq(Request)
        /\ Len(pending') = Len(pending) + 1
        /\ \A i \in 1..Len(pending) : pending'[i] = pending[i]
        /\ pending'[Len(pending) + 1] = r
    BY AppendProperties DEF PoolTypeOK
  <1>2. Len(pending) \in Nat
    BY DEF PoolTypeOK
  <1>3. \A i \in 1..Len(pending) : pending[i] \in Request /\ pending[i] # r
    BY DEF QueueOK, PoolTypeOK
  <1>4. \A q \in Request : stage'[q] = IF q = r THEN s ELSE stage[q]
    BY DEF To, PoolTypeOK
  <1>5. \A i \in 1..Len(pending') : stage'[pending'[i]] \in Queued
    BY <1>1, <1>2, <1>3, <1>4 DEF QueueOK
  <1>6. \A i, j \in 1..Len(pending') : pending'[i] = pending'[j] => i = j
    BY <1>1, <1>2, <1>3 DEF QueueOK
  <1>7. ASSUME NEW q \in Request, stage'[q] \in Queued
        PROVE  \E i \in 1..Len(pending') : pending'[i] = q
    <2>1. CASE q = r
      BY <2>1, <1>1, <1>2
    <2>2. CASE q # r
      <3>1. PICK i \in 1..Len(pending) : pending[i] = q
        BY <2>2, <1>4, <1>7 DEF QueueOK
      <3> QED
        BY <3>1, <1>1, <1>2
    <2> QED
      BY <2>1, <2>2
  <1> QED
    BY <1>1, <1>5, <1>6, <1>7 DEF QueueOK

LEMMA QueueLeft ==
    ASSUME PoolTypeOK, QueueOK, NEW r \in Request, NEW s, s \notin Queued,
           pending # <<>>, r = Head(pending), To(r, s), pending' = Tail(pending)
    PROVE  QueueOK' /\ pending' \in Seq(Request)
  <1>1. /\ pending' \in Seq(Request)
        /\ Len(pending') = Len(pending) - 1
        /\ \A i \in 1..Len(pending') : pending'[i] = pending[i + 1]
    BY HeadTailProperties DEF PoolTypeOK
  <1>2. Len(pending) \in Nat \ {0} /\ r = pending[1]
    BY DEF PoolTypeOK
  <1>3. \A i \in 1..Len(pending) : pending[i] \in Request /\ (pending[i] = r => i = 1)
    BY <1>2 DEF QueueOK, PoolTypeOK
  <1>4. \A q \in Request : stage'[q] = IF q = r THEN s ELSE stage[q]
    BY DEF To, PoolTypeOK
  <1>5. \A i \in 1..Len(pending') : i + 1 \in 1..Len(pending) /\ i + 1 # 1
    BY <1>1, <1>2
  <1>6. \A i \in 1..Len(pending') : stage'[pending'[i]] \in Queued
    BY <1>1, <1>3, <1>4, <1>5 DEF QueueOK
  <1>7. \A i, j \in 1..Len(pending') : pending'[i] = pending'[j] => i = j
    <2> TAKE i, j \in 1..Len(pending')
    <2>1. pending'[i] = pending'[j] => i + 1 = j + 1
      BY <1>1, <1>5 DEF QueueOK
    <2> QED
      BY <2>1, <1>1, <1>2
  <1>8. ASSUME NEW q \in Request, stage'[q] \in Queued
        PROVE  \E i \in 1..Len(pending') : pending'[i] = q
    <2>1. q # r /\ stage[q] \in Queued
      BY <1>4, <1>8
    <2>2. PICK i \in 1..Len(pending) : pending[i] = q
      BY <2>1 DEF QueueOK
    <2>3. i # 1
      BY <1>2, <2>1, <2>2
    <2>4. i - 1 \in 1..Len(pending') /\ pending'[i - 1] = q
      BY <1>1, <1>2, <2>2, <2>3
    <2> QED
      BY <2>4
  <1> QED
    BY <1>1, <1>6, <1>7, <1>8 DEF QueueOK

LEMMA QueueKept ==
    ASSUME PoolTypeOK, QueueOK, NEW r \in Request, NEW s,
           s \notin Queued, stage[r] \notin Queued, To(r, s), pending' = pending
    PROVE  QueueOK'
  <1>1. \A q \in Request : stage'[q] = IF q = r THEN s ELSE stage[q]
    BY DEF To, PoolTypeOK
  <1>2. \A i \in 1..Len(pending) : pending[i] \in Request /\ pending[i] # r
    BY DEF QueueOK, PoolTypeOK
  <1> QED
    BY <1>1, <1>2 DEF QueueOK

(* The one in front waits for a connection. *)
LEMMA HeadQueued ==
    ASSUME PoolTypeOK, QueueOK, pending # <<>>
    PROVE  Head(pending) \in Request /\ stage[Head(pending)] \in Queued
  <1>1. 1 \in 1..Len(pending) /\ Head(pending) = pending[1]
    BY DEF PoolTypeOK
  <1> QED
    BY <1>1 DEF QueueOK, PoolTypeOK

-----------------------------------------------------------------------------
(* The end of a request gives everything back. *)
LEMMA LetGoKeeps ==
    ASSUME IInv, NEW r \in Request, LetGo(r)
    PROVE  /\ OwnersOK' /\ RowsOK' /\ NestingOK'
           /\ owner' \in [Connection -> Request \union {Null}]
           /\ inTx' \subseteq Connection
           /\ stage' = [stage EXCEPT ![r] = "idle"] /\ stage'[r] = "idle"
           /\ kind' \in [Request -> Kind]
           /\ want' \in [Request -> Row]
           /\ rowHolder' \in [Row -> Request \union {Null}]
  <1> USE DEF IInv, PoolTypeOK
  <1>1. \A q \in Request : /\ stage'[q] = IF q = r THEN "idle" ELSE stage[q]
                           /\ q # r => kind'[q] = kind[q] /\ want'[q] = want[q]
    BY DEF LetGo, To
  <1>2. \A c \in Connection : owner'[c] = IF owner[c] = r THEN Null ELSE owner[c]
    BY DEF LetGo
  <1>3. \A c \in Connection : c \in inTx' <=> c \in inTx /\ owner[c] # r
    BY DEF LetGo
  <1>4. \A x \in Row : rowHolder'[x] = IF rowHolder[x] = r THEN Null ELSE rowHolder[x]
    BY DEF LetGo
  <1>5. inTx' \subseteq Connection
    BY DEF LetGo
  <1>6. OwnersOK'
    <2>1. \A c \in inTx' : owner'[c] # Null /\ stage'[owner'[c]] \in Open
      BY <1>1, <1>2, <1>3, <1>5 DEF OwnersOK
    <2>2. \A c, d \in inTx' : owner'[c] = owner'[d] => c = d
      BY <1>2, <1>3, <1>5 DEF OwnersOK
    <2>3. \A c \in Connection \ inTx' :
             owner'[c] # Null => stage'[owner'[c]] \in {"query", "read"}
      BY <1>1, <1>2, <1>3 DEF OwnersOK
    <2>4. ASSUME NEW q \in Request, stage'[q] \in Open
          PROVE  \E c \in inTx' : owner'[c] = q
      <3>1. q # r /\ stage[q] \in Open
        BY <1>1, <2>4 DEF Open
      <3>2. PICK c \in inTx : owner[c] = q
        BY <3>1 DEF OwnersOK
      <3> QED
        BY <1>2, <1>3, <3>1, <3>2
    <2> QED
      BY <2>1, <2>2, <2>3, <2>4 DEF OwnersOK
  <1>7. RowsOK'
    BY <1>1, <1>4 DEF RowsOK
  <1>8. NestingOK'
    BY <1>1 DEF NestingOK
  <1>9. LastRow \in Row
    BY PoolAssumption DEF Row
  <1> QED
    BY <1>1, <1>5, <1>6, <1>7, <1>8, <1>9 DEF LetGo, To, Kind

LEMMA InitInv == Init => IInv
  <1> SUFFICES ASSUME Init PROVE IInv
    OBVIOUS
  <1>1. LastRow \in Row
    BY PoolAssumption DEF Row
  <1>2. PoolTypeOK
    BY <1>1 DEF Init, PoolTypeOK, Kind
  <1>3. QueueOK
    BY DEF Init, QueueOK, Queued
  <1>4. OwnersOK /\ RowsOK /\ NestingOK
    BY DEF Init, OwnersOK, RowsOK, NestingOK, Open
  <1> QED
    BY <1>2, <1>3, <1>4 DEF IInv

LEMMA CrashInv == Crash => IInv'
  <1> SUFFICES ASSUME Crash PROVE IInv'
    OBVIOUS
  <1>1. LastRow \in Row
    BY PoolAssumption DEF Row
  <1>2. PoolTypeOK'
    BY <1>1 DEF Crash, PoolTypeOK, Kind
  <1>3. QueueOK'
    BY DEF Crash, QueueOK, Queued
  <1>4. OwnersOK' /\ RowsOK' /\ NestingOK'
    BY DEF Crash, OwnersOK, RowsOK, NestingOK, Open
  <1> QED
    BY <1>2, <1>3, <1>4 DEF IInv

LEMMA AskInv ==
    ASSUME IInv, NEW r \in Request, NEW k \in Kind, NEW x \in Row, Ask(r, k, x)
    PROVE  IInv'
  <1> USE DEF Ask
  <1>1. QueueOK' /\ pending' \in Seq(Request)
    <2>1. "connect" \in Queued /\ stage[r] \notin Queued
      BY DEF Queued
    <2> QED
      BY <2>1, QueueJoined DEF IInv
  <1>2. \A q \in Request : stage'[q] = IF q = r THEN "connect" ELSE stage[q]
    BY DEF To, IInv, PoolTypeOK
  <1>3. PoolTypeOK'
    BY <1>1 DEF To, IInv, PoolTypeOK
  <1>4. OwnersOK'
    <2>1. \A c \in Connection : owner[c] # r
      BY PoolAssumption DEF IInv, PoolTypeOK, OwnersOK, Open
    <2> QED
      BY <1>2, <2>1 DEF IInv, PoolTypeOK, OwnersOK, Open
  <1>5. RowsOK'
    BY <1>2 DEF IInv, PoolTypeOK, RowsOK, Open
  <1>6. NestingOK'
    BY <1>2 DEF IInv, PoolTypeOK, NestingOK
  <1> QED
    BY <1>1, <1>3, <1>4, <1>5, <1>6 DEF IInv

LEMMA ConnectInv ==
    ASSUME IInv, NEW r \in Request, Connect(r)
    PROVE  IInv'
  <1> DEFINE begins == stage[r] = "connect" /\ kind[r] # "query"
             s == IF stage[r] = "outside" THEN "read"
                  ELSE IF kind[r] = "query" THEN "query" ELSE "lock"
  <1>1. stage[r] \in Queued
    BY HeadQueued DEF Connect, IInv
  <1>2. QueueOK' /\ pending' \in Seq(Request)
    <2>1. s \notin Queued
      BY DEF Queued
    <2> QED
      BY <2>1, QueueLeft DEF Connect, IInv
  <1>3. PICK c \in Free : /\ owner' = [owner EXCEPT ![c] = r]
                          /\ inTx' = IF begins THEN inTx \union {c} ELSE inTx
    BY DEF Connect
  <1>4. c \in Connection /\ owner[c] = Null /\ c \notin inTx
    BY DEF Free, IInv, OwnersOK
  <1>5. \A q \in Request : stage'[q] = IF q = r THEN s ELSE stage[q]
    BY DEF Connect, To, IInv, PoolTypeOK
  <1>6. r # Null
    BY PoolAssumption
  <1>7. \A d \in Connection : owner'[d] = IF d = c THEN r ELSE owner[d]
    BY <1>3, <1>4 DEF IInv, PoolTypeOK
  <1>8. /\ begins => s = "lock" /\ stage[r] \notin Open
        /\ ~begins => s \in {"query", "read"}
        /\ s = "read" <=> stage[r] = "outside"
    BY <1>1 DEF Queued, Open
  <1>9. PoolTypeOK'
    BY <1>2, <1>3, <1>4 DEF Connect, To, IInv, PoolTypeOK
  <1>10. OwnersOK'
    <2>1. \A d \in inTx : d \in Connection /\ d # c
      BY <1>4 DEF IInv, PoolTypeOK
    <2>2. CASE begins
      <3>1. \A d \in inTx : owner[d] # r
        BY <1>8, <2>2 DEF IInv, OwnersOK
      <3>2. inTx' = inTx \union {c}
        BY <1>3, <2>2
      <3>3. \A d \in inTx' : owner'[d] # Null /\ stage'[owner'[d]] \in Open
        <4> TAKE d \in inTx'
        <4>1. CASE d = c
          BY <1>4, <1>5, <1>6, <1>7, <1>8, <2>2, <4>1 DEF Open
        <4>2. CASE d # c
          <5>1. d \in inTx /\ owner'[d] = owner[d] /\ owner[d] # r
            BY <1>7, <2>1, <3>1, <3>2, <4>2
          <5>2. owner[d] \in Request /\ owner[d] # Null /\ stage[owner[d]] \in Open
            BY <5>1 DEF IInv, PoolTypeOK, OwnersOK
          <5> QED
            BY <1>5, <5>1, <5>2
        <4> QED
          BY <4>1, <4>2
      <3>4. \A d, e \in inTx' : owner'[d] = owner'[e] => d = e
        BY <1>4, <1>7, <2>1, <3>1, <3>2 DEF IInv, OwnersOK
      <3>5. \A d \in Connection \ inTx' :
               owner'[d] # Null => stage'[owner'[d]] \in {"query", "read"}
        BY <1>1, <1>4, <1>5, <1>7, <3>2, <2>2
        DEF IInv, PoolTypeOK, OwnersOK, Queued
      <3>6. \A q \in Request : stage'[q] \in Open => \E d \in inTx' : owner'[d] = q
        BY <1>4, <1>5, <1>7, <2>1, <3>2 DEF IInv, OwnersOK
      <3> QED
        BY <3>3, <3>4, <3>5, <3>6 DEF OwnersOK
    <2>3. CASE ~begins
      <3>1. inTx' = inTx
        BY <1>3, <2>3
      <3>2. \A d \in inTx' : owner'[d] = owner[d]
        BY <1>7, <2>1, <3>1
      <3>3. s = "read" \/ (s = "query" /\ stage[r] \notin Open)
        BY <1>1, <1>8, <2>3 DEF Queued, Open
      <3>4. \A d \in inTx' : owner'[d] # Null /\ stage'[owner'[d]] \in Open
        BY <1>5, <3>1, <3>2, <3>3 DEF IInv, PoolTypeOK, OwnersOK, Open
      <3>5. \A d, e \in inTx' : owner'[d] = owner'[e] => d = e
        BY <3>1, <3>2 DEF IInv, OwnersOK
      <3>6. \A d \in Connection \ inTx' :
               owner'[d] # Null => stage'[owner'[d]] \in {"query", "read"}
        BY <1>1, <1>5, <1>7, <1>8, <2>3, <3>1
        DEF IInv, PoolTypeOK, OwnersOK, Queued
      <3>7. \A q \in Request : stage'[q] \in Open => \E d \in inTx' : owner'[d] = q
        BY <1>1, <1>5, <1>8, <2>3, <3>1, <3>2, <3>3 DEF IInv, OwnersOK, Open
      <3> QED
        BY <3>4, <3>5, <3>6, <3>7 DEF OwnersOK
    <2> QED
      BY <2>2, <2>3
  <1>11. \A x \in Row : rowHolder[x] = r => s = "read"
    BY <1>1, <1>6, <1>8 DEF IInv, RowsOK, Queued, Open
  <1>12. RowsOK'
    BY <1>5, <1>11 DEF Connect, IInv, PoolTypeOK, RowsOK, Open
  <1>13. NestingOK'
    BY <1>5 DEF Connect, IInv, PoolTypeOK, NestingOK
  <1> QED
    BY <1>2, <1>9, <1>10, <1>12, <1>13 DEF IInv

LEMMA LockRowInv ==
    ASSUME IInv, NEW r \in Request, LockRow(r)
    PROVE  IInv'
  <1> DEFINE s == stage'[r]
  <1>1. /\ stage[r] = "lock" /\ want[r] \in Row /\ rowHolder[want[r]] = Null
        /\ rowHolder' = [rowHolder EXCEPT ![want[r]] = r] \/ rowHolder' = rowHolder
        /\ UNCHANGED <<owner, inTx, kind>>
    BY DEF LockRow, IInv, PoolTypeOK
  <1>2. \/ \E x \in Row : /\ x > want[r]
                          /\ want' = [want EXCEPT ![r] = x]
                          /\ UNCHANGED <<stage, pending>>
        \/ /\ kind[r] = "nesting"
           /\ To(r, "outside")
           /\ pending' = Append(pending, r)
           /\ UNCHANGED want
        \/ To(r, "commit") /\ UNCHANGED <<want, pending>>
    BY DEF LockRow
  <1>3. QueueOK' /\ pending' \in Seq(Request)
    <2>1. stage[r] \notin Queued /\ "outside" \in Queued /\ "commit" \notin Queued
      BY <1>1 DEF Queued
    <2>2. CASE UNCHANGED <<stage, pending>>
      BY <2>2 DEF IInv, PoolTypeOK, QueueOK
    <2>3. CASE To(r, "outside") /\ pending' = Append(pending, r)
      BY <2>1, <2>3, QueueJoined DEF IInv
    <2>4. CASE To(r, "commit") /\ UNCHANGED pending
      BY <2>1, <2>4, QueueKept DEF IInv, PoolTypeOK
    <2> QED
      BY <1>2, <2>2, <2>3, <2>4
  <1>4. /\ \A q \in Request : q # r => stage'[q] = stage[q] /\ want'[q] = want[q]
        /\ stage' \in [Request -> {"idle", "connect", "query", "lock", "outside",
                                   "read", "commit"}]
        /\ want' \in [Request -> Row]
        /\ s \in Open
        /\ s = "outside" => kind[r] = "nesting"
        /\ s = "lock" => want'[r] > want[r]
    BY <1>1, <1>2 DEF To, IInv, PoolTypeOK, Open
  <1>5. PoolTypeOK'
    BY <1>1, <1>3, <1>4 DEF IInv, PoolTypeOK
  <1>6. OwnersOK'
    <2>1. \A c \in Connection : owner[c] = r => c \in inTx
      BY <1>1, PoolAssumption DEF IInv, OwnersOK
    <2> QED
      BY <1>1, <1>4, <2>1 DEF IInv, PoolTypeOK, OwnersOK, Open
  <1>7. RowsOK'
    <2> SUFFICES ASSUME NEW x \in Row, rowHolder'[x] # Null
                 PROVE  /\ stage'[rowHolder'[x]] \in Open
                        /\ x <= want'[rowHolder'[x]]
                        /\ stage'[rowHolder'[x]] = "lock" => x < want'[rowHolder'[x]]
      BY DEF RowsOK
    <2>1. CASE rowHolder'[x] = r
      <3>1. x = want[r] \/ rowHolder[x] = r
        BY <1>1, <2>1 DEF IInv, PoolTypeOK
      <3>2. x <= want[r]
        BY <1>1, <3>1, PoolAssumption DEF IInv, PoolTypeOK, RowsOK, Row
      <3>3. want'[r] >= want[r]
        BY <1>1, <1>2, PoolAssumption DEF IInv, PoolTypeOK, Row
      <3> QED
        BY <1>1, <3>3, <1>4, <2>1, <3>2, PoolAssumption DEF IInv, PoolTypeOK, Row
    <2>2. CASE rowHolder'[x] # r
      <3>1. rowHolder'[x] = rowHolder[x] /\ rowHolder[x] \in Request
        BY <1>1, <2>2 DEF IInv, PoolTypeOK
      <3> QED
        BY <1>4, <2>2, <3>1 DEF IInv, RowsOK
    <2> QED
      BY <2>1, <2>2
  <1>8. NestingOK'
    BY <1>1, <1>4 DEF IInv, NestingOK
  <1> QED
    BY <1>3, <1>5, <1>6, <1>7, <1>8 DEF IInv

LEMMA ReadOutsideInv ==
    ASSUME IInv, NEW r \in Request, ReadOutside(r)
    PROVE  IInv'
  <1>1. /\ stage[r] = "read"
        /\ owner' = [c \in Connection |->
                       IF owner[c] = r /\ c \notin inTx THEN Null ELSE owner[c]]
        /\ kind' = [kind EXCEPT ![r] = "contained"]
        /\ UNCHANGED <<inTx, pending, rowHolder>>
    BY DEF ReadOutside
  <1>2. \/ To(r, "commit") /\ UNCHANGED want
        \/ \E x \in Row : /\ x > want[r]
                          /\ want' = [want EXCEPT ![r] = x]
                          /\ To(r, "lock")
    BY DEF ReadOutside
  <1>3. stage[r] \notin Queued /\ "commit" \notin Queued /\ "lock" \notin Queued
    BY <1>1 DEF Queued
  <1>4. QueueOK'
    BY <1>1, <1>2, <1>3, QueueKept DEF IInv
  <1>5. /\ \A q \in Request : q # r => /\ stage'[q] = stage[q] /\ want'[q] = want[q]
                                       /\ kind'[q] = kind[q]
        /\ stage'[r] \in {"commit", "lock"}
        /\ stage'[r] = "lock" => want'[r] > want[r]
        /\ stage' \in [Request -> {"idle", "connect", "query", "lock", "outside",
                                   "read", "commit"}]
        /\ want' \in [Request -> Row] /\ want[r] \in Row
    BY <1>1, <1>2 DEF To, IInv, PoolTypeOK
  <1>6. \A c \in Connection :
          owner'[c] = IF owner[c] = r /\ c \notin inTx THEN Null ELSE owner[c]
    BY <1>1
  <1>7. PoolTypeOK'
    BY <1>1, <1>5 DEF IInv, PoolTypeOK, Kind
  <1>8. OwnersOK'
    <2>1. \A c \in inTx : c \in Connection /\ owner'[c] = owner[c]
      BY <1>6 DEF IInv, PoolTypeOK
    <2>2. \A c \in inTx : owner'[c] # Null /\ stage'[owner'[c]] \in Open
      BY <1>5, <2>1 DEF IInv, PoolTypeOK, OwnersOK, Open
    <2>3. \A c \in Connection \ inTx :
             owner'[c] # Null => stage'[owner'[c]] \in {"query", "read"}
      BY <1>5, <1>6 DEF IInv, PoolTypeOK, OwnersOK
    <2>4. \A q \in Request : stage'[q] \in Open => \E c \in inTx : owner'[c] = q
      BY <1>1, <1>5, <2>1 DEF IInv, OwnersOK, Open
    <2> QED
      BY <1>1, <2>1, <2>2, <2>3, <2>4 DEF IInv, OwnersOK
  <1>9. RowsOK'
    <2> SUFFICES ASSUME NEW x \in Row, rowHolder[x] # Null
                 PROVE  /\ stage'[rowHolder[x]] \in Open
                        /\ x <= want'[rowHolder[x]]
                        /\ stage'[rowHolder[x]] = "lock" => x < want'[rowHolder[x]]
      BY <1>1 DEF RowsOK
    <2>1. CASE rowHolder[x] = r
      <3>1. x <= want[r]
        BY <2>1 DEF IInv, RowsOK
      <3>2. want'[r] >= want[r]
        BY <1>2, <1>5, PoolAssumption DEF IInv, PoolTypeOK, Row
      <3> QED
        BY <1>5, <2>1, <3>1, <3>2, PoolAssumption DEF Open, Row
    <2>2. CASE rowHolder[x] # r
      <3>1. rowHolder[x] \in Request
        BY DEF IInv, PoolTypeOK
      <3> QED
        BY <1>5, <2>2, <3>1 DEF IInv, RowsOK
    <2> QED
      BY <2>1, <2>2
  <1>10. NestingOK'
    BY <1>5 DEF IInv, NestingOK
  <1> QED
    BY <1>1, <1>4, <1>7, <1>8, <1>9, <1>10 DEF IInv

LEMMA ReturnInv ==
    ASSUME IInv, NEW r \in Request, Return(r)
    PROVE  IInv'
  <1>1. stage[r] \notin Queued /\ LetGo(r) /\ pending' = pending
    BY DEF Return, Queued
  <1>2. QueueOK'
    BY <1>1, QueueKept DEF IInv, LetGo, Queued
  <1>3. PoolTypeOK'
    BY <1>1, LetGoKeeps DEF IInv, PoolTypeOK
  <1> QED
    BY <1>1, <1>2, <1>3, LetGoKeeps DEF IInv

LEMMA FailInv ==
    ASSUME IInv, NEW r \in Request, Fail(r)
    PROVE  IInv'
  <1>1. LetGo(r) /\ "idle" \notin Queued
    BY DEF Fail, Queued
  <1>2. QueueOK' /\ pending' \in Seq(Request)
    <2>1. CASE stage[r] \in {"query", "lock", "read", "commit"} /\ UNCHANGED pending
      <3>1. stage[r] \notin Queued
        BY <2>1 DEF Queued
      <3> QED
        BY <1>1, <2>1, <3>1, QueueKept DEF IInv, LetGo, PoolTypeOK
    <2>2. CASE pending # <<>> /\ r = Head(pending) /\ pending' = Tail(pending)
      BY <1>1, <2>2, QueueLeft DEF IInv, LetGo
    <2> QED
      BY <2>1, <2>2 DEF Fail
  <1>3. PoolTypeOK'
    BY <1>1, <1>2, LetGoKeeps DEF IInv, PoolTypeOK
  <1> QED
    BY <1>1, <1>2, <1>3, LetGoKeeps DEF IInv
-----------------------------------------------------------------------------
LEMMA StepInv ==
    ASSUME IInv, [Next]_poolVars
    PROVE  IInv'
  <1>1. ASSUME NEW r \in Request, PoolStep(r)
        PROVE  IInv'
    BY <1>1, AskInv, ConnectInv, ReadOutsideInv, ReturnInv, LockRowInv, FailInv
    DEF PoolStep, Serve
  <1>2. CASE UNCHANGED poolVars
    BY <1>2 DEF poolVars, IInv, PoolTypeOK, QueueOK, OwnersOK, RowsOK, NestingOK
  <1> QED
    BY <1>1, <1>2, CrashInv DEF Next

(* Among transactions that wait for rows of each other, the one that waits *)
(* for the last row waits for one that does not wait for a row.            *)
LEMMA NoCircle ==
    ASSUME IInv, NEW q \in Request, stage[q] = "lock",
           \A r \in Request : stage[r] = "lock" => rowHolder[want[r]] # Null
    PROVE  \E r \in Request : stage[r] \in {"outside", "read", "commit"}
  <1> DEFINE waiting == {r \in Request : stage[r] = "lock"}
             left == {LastRow - want[r] : r \in waiting}
  <1>1. left \subseteq Nat /\ left # {}
    <2>1. \A r \in Request : want[r] \in Row
      BY DEF IInv, PoolTypeOK
    <2>2. \A x \in Row : LastRow - x \in Nat
      BY PoolAssumption DEF Row
    <2> QED
      BY <2>1, <2>2
  <1>2. PICK n \in left : \A m \in left : ~(m < n)
    <2>1. \E n \in left : \A m \in left : ~(<<m, n>> \in OpToRel(<, Nat))
      BY <1>1, NatLessThanWellFounded, WFMin
    <2>2. \A m, n \in Nat : <<m, n>> \in OpToRel(<, Nat) <=> m < n
      BY DEF OpToRel
    <2> QED
      BY <1>1, <2>1, <2>2
  <1>3. PICK r \in Request : stage[r] = "lock" /\ n = LastRow - want[r]
    BY <1>2
  <1> DEFINE h == rowHolder[want[r]]
  <1>4. want[r] \in Row /\ h \in Request
    BY <1>3 DEF IInv, PoolTypeOK
  <1>5. stage[h] \in Open /\ (stage[h] = "lock" => want[r] < want[h])
    BY <1>3, <1>4 DEF IInv, RowsOK
  <1>6. stage[h] # "lock"
    <2>1. stage[h] = "lock" => LastRow - want[h] \in left
      BY <1>4
    <2>2. want[h] \in Nat /\ want[r] \in Nat /\ LastRow \in Nat
      BY <1>4, PoolAssumption DEF IInv, PoolTypeOK, Row
    <2>3. stage[h] = "lock" => LastRow - want[h] < n
      BY <1>3, <1>5, <2>2
    <2> QED
      BY <1>2, <2>1, <2>3
  <1> QED
    BY <1>4, <1>5, <1>6 DEF Open

LEMMA InvExplainsWedge == IInv => WedgeExplained
  <1> SUFFICES ASSUME IInv, Wedged
               PROVE  /\ \A c \in Connection : c \in inTx /\ owner[c] # Null
                      /\ \A c, d \in Connection : owner[c] = owner[d] => c = d
                      /\ \E r \in Request : stage[r] = "outside" /\ kind[r] = "nesting"
    BY DEF WedgeExplained
  <1>1. \A r \in Request : /\ stage[r] \notin {"query", "read", "commit"}
                           /\ stage[r] = "lock" => rowHolder[want[r]] # Null
    BY DEF Wedged, CanGoOn
  <1>2. \A r \in Request : stage[r] \in Queued => pending # <<>>
    BY DEF IInv, QueueOK, PoolTypeOK
  <1>3. ASSUME NEW q \in Request, stage[q] = "lock"
        PROVE  \E r \in Request : stage[r] = "outside"
    BY <1>1, <1>3, NoCircle
  <1>4. Free = {}
    <2>1. PICK r \in Request : stage[r] # "idle"
      BY DEF Wedged
    <2>2. stage[r] \in {"connect", "lock", "outside"}
      BY <1>1, <2>1 DEF IInv, PoolTypeOK
    <2>3. \E q \in Request : stage[q] \in Queued
      BY <1>3, <2>2 DEF Queued
    <2> QED
      BY <1>2, <2>3 DEF Wedged
  <1>5. \A c \in Connection : owner[c] # Null /\ owner[c] \in Request
    BY <1>4 DEF Free, IInv, PoolTypeOK
  <1>6. \A c \in Connection : c \in inTx
    BY <1>1, <1>5 DEF IInv, OwnersOK
  <1>7. \A c, d \in Connection : owner[c] = owner[d] => c = d
    BY <1>6 DEF IInv, OwnersOK
  <1>8. \E r \in Request : stage[r] = "outside"
    <2>1. PICK c \in Connection : TRUE
      BY PoolAssumption
    <2>2. stage[owner[c]] \in Open
      BY <1>6 DEF IInv, OwnersOK
    <2>3. stage[owner[c]] \in {"lock", "outside"}
      BY <1>1, <1>5, <2>2 DEF Open
    <2> QED
      BY <1>3, <1>5, <2>3
  <1> QED
    BY <1>5, <1>6, <1>7, <1>8 DEF IInv, NestingOK

(* A pool in which nobody can go on is full of transactions, one on each   *)
(* connection, and one of them reads outside itself: with fewer            *)
(* transactions at a time than connections, or with none that nests, the   *)
(* handlers never block each other, whatever rows they lock.               *)
THEOREM WedgeHasOneCause == Spec => []WedgeExplained
  <1>1. Init => IInv
    BY InitInv
  <1>2. IInv /\ [Next]_poolVars => IInv'
    BY StepInv
  <1>3. IInv => WedgeExplained
    BY InvExplainsWedge
  <1> QED
    BY <1>1, <1>2, <1>3, PTL DEF Spec

(* In numbers: as many transactions at once as the pool has connections.   *)
(* Ten refreshes of ten sessions are enough for pg's default.              *)
FewTransactions ==
    Cardinality({r \in Request : stage[r] \in Open}) < Cardinality(Connection)

THEOREM FewNeverWedge ==
    ASSUME IsFiniteSet(Request)
    PROVE  Spec => [](FewTransactions => ~Wedged)
  <1>1. Init => IInv
    BY InitInv
  <1>2. IInv /\ [Next]_poolVars => IInv'
    BY StepInv
  <1>3. ASSUME IInv, Wedged
        PROVE  ~FewTransactions
    <2> DEFINE open == {r \in Request : stage[r] \in Open}
               f == [c \in Connection |-> owner[c]]
    <2>1. /\ \A c \in Connection : c \in inTx /\ owner[c] # Null
          /\ \A c, d \in Connection : owner[c] = owner[d] => c = d
      BY <1>3, InvExplainsWedge DEF WedgeExplained
    <2>2. \A c \in Connection : owner[c] \in open
      BY <1>3, <2>1 DEF IInv, OwnersOK, PoolTypeOK
    <2>3. f \in Injection(Connection, open)
      BY <2>1, <2>2 DEF Injection, IsInjective
    <2>4. IsFiniteSet(open) /\ Cardinality(open) \in Nat
      BY FS_Subset, FS_CardinalityType
    <2>5. Cardinality(Connection) <= Cardinality(open)
      BY <2>3, <2>4, FS_Injection
    <2>6. Cardinality(Connection) \in Nat
      BY PoolAssumption, FS_CardinalityType
    <2> QED
      BY <2>4, <2>5, <2>6 DEF FewTransactions
  <1> QED
    BY <1>1, <1>2, <1>3, PTL DEF Spec
=============================================================================
