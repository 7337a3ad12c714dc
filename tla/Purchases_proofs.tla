--------------------------- MODULE Purchases_proofs ---------------------------
(***************************************************************************)
(* A key buys once, a purchase is whole, jobs are committed, and buying    *)
(* implements Orders: proved for any parents, keys, bodies, ids, requests. *)
(*                                                                         *)
(* Only a commit can break them, and it acts on what an earlier step saw.  *)
(* The invariant carries that to the commit: the request still holds its   *)
(* key in the unique index, no purchase has the key, and its id is its own.*)
(***************************************************************************)
EXTENDS Purchases, TLAPS

(* The transaction of p has inserted its purchase. *)
Open(p) == req[p].pc \in {"store", "commit"}

(* A request under way has a parent, a key and a body. *)
Complete ==
    \A p \in Proc : req[p].pc # "idle" =>
        /\ req[p].parent \in Parent
        /\ req[p].key \in Key
        /\ req[p].body \in Body

(* An open transaction holds its key, which no purchase has, and its id.   *)
KeyHeld ==
    \A p \in Proc : Open(p) =>
        /\ keyHolder[SlotOf(p)] = p
        /\ ~KeyTaken(SlotOf(p))
        /\ req[p].id \in Id
        /\ ~Bought(req[p].id)

IdsDiffer ==
    \A p, q \in Proc : Open(p) /\ Open(q) /\ p # q => req[p].id # req[q].id

(* The job is added for a purchase that is committed. *)
EnqueueCommitted == \A p \in Proc : req[p].pc = "enqueue" => req[p].id \in invited

(* A replay names a purchase made under its own key. *)
ReplayOfItsKey ==
    \A s \in Slot : stored[s] # Null =>
        /\ Bought(stored[s].id)
        /\ purchase[stored[s].id].parent = s[1]
        /\ purchase[stored[s].id].key = s[2]

IInv ==
    /\ TypeOK
    /\ ReplayOfItsKey
    /\ Complete
    /\ KeyHeld
    /\ IdsDiffer
    /\ EnqueueCommitted
    /\ OnePurchasePerKey
    /\ PurchaseIsWhole
    /\ JobsAreCommitted

LEMMA Initially == Init => IInv
  <1> SUFFICES ASSUME Init PROVE IInv
    OBVIOUS
  <1> USE NullAssumption
  <1>1. TypeOK
    BY DEF Init, TypeOK, Idle
  <1>2. \A n \in Id : ~Bought(n)
    BY DEF Init, Bought
  <1>3. \A p \in Proc : req[p].pc = "idle"
    BY DEF Init, Idle
  <1>4. \A s \in Slot : stored[s] = Null
    BY DEF Init
  <1> QED
    BY <1>1, <1>2, <1>3, <1>4
    DEF Init, IInv, Complete, KeyHeld, Open, IdsDiffer, EnqueueCommitted,
        OnePurchasePerKey, PurchaseIsWhole, JobsAreCommitted, ReplayOfItsKey

(* A step that leaves the tables alone and, if p's transaction is open     *)
(* after it, was open before it: what a request does between its writes.   *)
LEMMA Between ==
    ASSUME IInv, TypeOK', NEW p \in Proc,
           UNCHANGED tables,
           \A q \in Proc \ {p} : req'[q] = req[q],
           \A s \in Slot : keyHolder[s] # p => keyHolder'[s] = keyHolder[s],
           Open(p)' => Open(p) /\ req'[p].id = req[p].id /\ SlotOf(p)' = SlotOf(p)
                       /\ keyHolder' = keyHolder,
           req'[p].pc # "idle" => req'[p].parent \in Parent /\ req'[p].key \in Key
                                  /\ req'[p].body \in Body,
           req'[p].pc # "enqueue",
           queue' \subseteq queue \union invited
    PROVE  IInv'
  <1>1. Complete'
    BY DEF IInv, Complete
  <1>2. \A n : Bought(n)' <=> Bought(n)
    BY DEF Bought, tables
  <1>3. \A s : KeyTaken(s)' <=> KeyTaken(s)
    BY DEF KeyTaken, Bought, tables
  <1>4. KeyHeld'
    <2>1. \A q \in Proc \ {p} : Open(q)' => Open(q) /\ SlotOf(q)' = SlotOf(q)
      BY DEF Open, SlotOf
    <2>2. \A q \in Proc \ {p} : Open(q) => keyHolder'[SlotOf(q)] = q
      <3> SUFFICES ASSUME NEW q \in Proc \ {p}, Open(q) PROVE keyHolder'[SlotOf(q)] = q
        OBVIOUS
      <3>1. SlotOf(q) \in Slot
        BY DEF IInv, Complete, Open, SlotOf, Slot
      <3> QED
        BY <3>1 DEF IInv, KeyHeld
    <2> QED
      BY <1>2, <1>3, <2>1, <2>2 DEF IInv, KeyHeld
  <1>5. IdsDiffer'
    BY DEF IInv, IdsDiffer, Open
  <1>6. EnqueueCommitted'
    BY DEF IInv, EnqueueCommitted, tables
  <1>7. OnePurchasePerKey' /\ PurchaseIsWhole' /\ ReplayOfItsKey'
    BY DEF IInv, OnePurchasePerKey, PurchaseIsWhole, ReplayOfItsKey, Bought, tables
  <1>8. JobsAreCommitted'
    BY DEF IInv, JobsAreCommitted, tables
  <1> QED
    BY <1>1, <1>4, <1>5, <1>6, <1>7, <1>8 DEF IInv

LEMMA RejectKeeps ==
    ASSUME IInv, NEW p \in Proc, NEW code, Reject(p, code),
           code \in {"error", "BODY_MISMATCH", "DUPLICATE_PURCHASE", "INTERNAL_ERROR"}
    PROVE  IInv'
  <1>1. req' = [req EXCEPT ![p].pc = "idle"]
    BY DEF Reject, Answer, GoTo
  <1>2. \A s \in Slot : keyHolder'[s] \in {keyHolder[s], Null}
                        /\ (keyHolder[s] # p => keyHolder'[s] = keyHolder[s])
    BY DEF Reject, Release
  <1>3. TypeOK'
    <2>1. keyHolder' \in [Slot -> Proc \union {Null}]
      BY DEF Reject, Release, IInv, TypeOK
    <2>2. reply' = [reply EXCEPT ![p] = code] /\ UNCHANGED <<tables, queue>>
      BY DEF Reject, Answer
    <2> QED
      BY <1>1, <2>1, <2>2 DEF IInv, TypeOK, tables
  <1>4. req'[p].pc = "idle" /\ \A q \in Proc \ {p} : req'[q] = req[q]
    BY <1>1 DEF IInv, TypeOK
  <1>5. UNCHANGED tables /\ queue' \subseteq queue \union invited
    BY DEF Reject
  <1>6. ~Open(p)'
    BY <1>4 DEF Open
  <1> QED
    BY <1>2, <1>3, <1>4, <1>5, <1>6, Between

LEMMA StepKeeps ==
    ASSUME IInv, NEW p \in Proc, Step(p)
    PROVE  IInv'
  <1>1. CASE Replay(p)
    <2>1. SlotOf(p) \in Slot
      BY <1>1 DEF Replay, IInv, Complete, SlotOf, Slot
    <2>2. stored[SlotOf(p)].id \in Id
      BY <1>1, <2>1 DEF Replay, IInv, TypeOK
    <2>3. req' = [req EXCEPT ![p].pc = "idle", ![p].id = stored[SlotOf(p)].id]
      BY <1>1 DEF Replay
    <2>4. TypeOK'
      <3>1. UNCHANGED <<tables, queue, keyHolder>>
            /\ reply' = [reply EXCEPT ![p] = "replayed"]
        BY <1>1 DEF Replay
      <3> DEFINE R == [pc : {"idle", "lookup", "guard", "insert", "store",
                              "commit", "enqueue"},
                        parent : Parent \union {Null}, key : Key \union {Null},
                        body : Body \union {Null}, id : Id \union {Null}]
      <3>2. req[p] \in R
        BY DEF IInv, TypeOK
      <3>3. [req[p] EXCEPT !.pc = "idle", !.id = stored[SlotOf(p)].id] \in R
        BY <2>2, <3>2
      <3>4. req' \in [Proc -> R]
        BY <2>3, <3>3 DEF IInv, TypeOK
      <3> QED
        BY <3>1, <3>4 DEF IInv, TypeOK, tables
    <2>5. req'[p].pc = "idle" /\ \A q \in Proc \ {p} : req'[q] = req[q]
      BY <2>3 DEF IInv, TypeOK
    <2>6. UNCHANGED <<tables, queue, keyHolder>>
      BY <1>1 DEF Replay
    <2>7. ~Open(p)'
      BY <2>5 DEF Open
    <2> QED
      BY <2>4, <2>5, <2>6, <2>7, Between
  <1>2. CASE BodyMismatch(p)
    BY <1>2, RejectKeeps DEF BodyMismatch
  <1>3. CASE GuardRefuses(p)
    BY <1>3, RejectKeeps DEF GuardRefuses
  <1>4. CASE InsertViolatesKey(p)
    BY <1>4, RejectKeeps DEF InsertViolatesKey
  <1>5. CASE Fail(p)
    BY <1>5, RejectKeeps DEF Fail
  <1>6. CASE Miss(p) \/ GuardPasses(p) \/ Store(p)
    <2>1. PICK stage \in {"guard", "insert", "commit"} :
             /\ req' = [req EXCEPT ![p].pc = stage]
             /\ stage = "commit" => req[p].pc = "store"
      BY <1>6 DEF Miss, GuardPasses, Store, GoTo
    <2>2. UNCHANGED <<tables, queue, keyHolder, reply>> /\ req[p].pc # "idle"
      BY <1>6 DEF Miss, GuardPasses, Store
    <2>3. req'[p] = [req[p] EXCEPT !.pc = stage] /\ \A q \in Proc \ {p} : req'[q] = req[q]
      BY <2>1 DEF IInv, TypeOK
    <2>4. TypeOK'
      BY <2>1, <2>2 DEF IInv, TypeOK, tables
    <2>5. /\ req'[p].pc = stage /\ req'[p].id = req[p].id
          /\ req'[p].parent = req[p].parent /\ req'[p].key = req[p].key
          /\ req'[p].body = req[p].body
      BY <2>3 DEF IInv, TypeOK
    <2>6. SlotOf(p)' = SlotOf(p)
      BY <2>5 DEF SlotOf
    <2>7. Open(p)' => Open(p)
      BY <2>1, <2>5 DEF Open
    <2>8. req'[p].parent \in Parent /\ req'[p].key \in Key /\ req'[p].body \in Body
      BY <2>2, <2>5 DEF IInv, Complete
    <2> QED
      BY <2>2, <2>3, <2>4, <2>5, <2>6, <2>7, <2>8, Between
  <1>7. CASE Enqueue(p)
    <2>1. req' = [req EXCEPT ![p].pc = "idle"] /\ reply' = [reply EXCEPT ![p] = "created"]
      BY <1>7 DEF Enqueue, Answer, GoTo
    <2>2. UNCHANGED <<tables, keyHolder>> /\ queue' \subseteq queue \union invited
      BY <1>7 DEF Enqueue, IInv, EnqueueCommitted
    <2>3. TypeOK'
      BY <2>1, <2>2 DEF IInv, TypeOK, tables
    <2>4. req'[p].pc = "idle" /\ \A q \in Proc \ {p} : req'[q] = req[q]
      BY <2>1 DEF IInv, TypeOK
    <2>5. ~Open(p)'
      BY <2>4 DEF Open
    <2> QED
      BY <2>2, <2>3, <2>4, <2>5, Between
  <1>8. CASE InsertPurchase(p)
    <2>1. PICK n \in FreeIds : req' = [req EXCEPT ![p].id = n, ![p].pc = "store"]
      BY <1>8 DEF InsertPurchase
    <2>2. UNCHANGED <<tables, queue, reply>> /\ req[p].pc = "insert"
          /\ keyHolder[SlotOf(p)] = Null /\ ~KeyTaken(SlotOf(p))
          /\ keyHolder' = [keyHolder EXCEPT ![SlotOf(p)] = p]
      BY <1>8 DEF InsertPurchase
    <2>3. n \in Id /\ ~Bought(n) /\ \A q \in Proc : req[q].pc # "idle" => req[q].id # n
      BY DEF FreeIds
    <2>4. /\ req'[p].pc = "store" /\ req'[p].id = n
          /\ req'[p].parent = req[p].parent /\ req'[p].key = req[p].key
          /\ req'[p].body = req[p].body
          /\ \A q \in Proc \ {p} : req'[q] = req[q]
      BY <2>1 DEF IInv, TypeOK
    <2>5. SlotOf(p) \in Slot /\ SlotOf(p)' = SlotOf(p)
      BY <2>2, <2>4 DEF IInv, Complete, SlotOf, Slot
    <2>6. TypeOK'
      BY <2>1, <2>2, <2>3, <2>5 DEF IInv, TypeOK, tables
    <2>7. Complete'
      BY <2>2, <2>4 DEF IInv, Complete
    <2>8. \A m : Bought(m)' <=> Bought(m)
      BY <2>2 DEF Bought, tables
    <2>9. \A s : KeyTaken(s)' <=> KeyTaken(s)
      BY <2>2 DEF KeyTaken, Bought, tables
    <2>10. \A q \in Proc \ {p} : Open(q)' =>
              Open(q) /\ SlotOf(q)' = SlotOf(q) /\ keyHolder'[SlotOf(q)] = q
      <3> SUFFICES ASSUME NEW q \in Proc \ {p}, Open(q)'
                   PROVE  Open(q) /\ SlotOf(q)' = SlotOf(q) /\ keyHolder'[SlotOf(q)] = q
        OBVIOUS
      <3>1. Open(q) /\ SlotOf(q)' = SlotOf(q)
        BY <2>4 DEF Open, SlotOf
      <3>2. keyHolder[SlotOf(q)] = q /\ q # Null
        BY <3>1, NullAssumption DEF IInv, KeyHeld
      <3>3. SlotOf(q) \in Slot
        BY <3>1 DEF IInv, Complete, Open, SlotOf, Slot
      <3> QED
        BY <2>2, <3>1, <3>2, <3>3 DEF IInv, TypeOK
    <2>11. keyHolder'[SlotOf(p)] = p
      BY <2>2, <2>5 DEF IInv, TypeOK
    <2>12. KeyHeld'
      BY <2>2, <2>3, <2>4, <2>5, <2>8, <2>9, <2>10, <2>11 DEF IInv, KeyHeld
    <2>13. IdsDiffer'
      BY <2>3, <2>4 DEF IInv, IdsDiffer, Open
    <2>14. EnqueueCommitted'
      BY <2>2, <2>4 DEF IInv, EnqueueCommitted, tables
    <2>15. OnePurchasePerKey' /\ PurchaseIsWhole' /\ JobsAreCommitted' /\ ReplayOfItsKey'
      BY <2>2 DEF IInv, OnePurchasePerKey, PurchaseIsWhole, JobsAreCommitted, ReplayOfItsKey,
                  Bought, tables
    <2> QED
      BY <2>6, <2>7, <2>12, <2>13, <2>14, <2>15 DEF IInv
  <1>9. CASE Commit(p)
    <2> DEFINE id == req[p].id
               row == [parent |-> req[p].parent, key |-> req[p].key, item |-> ItemAt(p)]
               slot == SlotOf(p)
               entry == [body |-> req[p].body, id |-> id]
    <2>1. /\ purchase' = [purchase EXCEPT ![id] = row]
          /\ invited' = invited \union {id}
          /\ stored' = [stored EXCEPT ![slot] = entry]
          /\ req' = [req EXCEPT ![p].pc = "enqueue"]
          /\ UNCHANGED <<queue, reply>>
          /\ req[p].pc = "commit"
      BY <1>9 DEF Commit, GoTo
    <2>2. /\ id \in Id /\ ~Bought(id) /\ ~KeyTaken(slot)
          /\ req[p].parent \in Parent /\ req[p].key \in Key /\ req[p].body \in Body
      BY <2>1 DEF IInv, KeyHeld, Open, Complete
    <2>3. slot \in Slot /\ row \in Row /\ slot[1] = req[p].parent /\ slot[2] = req[p].key
      BY <2>2, ItemAssumption DEF SlotOf, Slot, Row, ItemAt
    <2>4. row # Null /\ entry # Null /\ entry \in [body : Body, id : Id]
      BY <2>2, <2>3, NullAssumption DEF Row
    <2>5. keyHolder' \in [Slot -> Proc \union {Null}]
          /\ \A s \in Slot : keyHolder[s] # p => keyHolder'[s] = keyHolder[s]
      BY <1>9 DEF Commit, Release, IInv, TypeOK
    <2>6. /\ req'[p].pc = "enqueue" /\ req'[p].id = id
          /\ req'[p].parent = req[p].parent /\ req'[p].key = req[p].key
          /\ req'[p].body = req[p].body
          /\ \A q \in Proc \ {p} : req'[q] = req[q]
      BY <2>1 DEF IInv, TypeOK
    <2>7. purchase'[id] = row /\ \A n \in Id \ {id} : purchase'[n] = purchase[n]
      BY <2>1, <2>2 DEF IInv, TypeOK
    <2>8. stored'[slot] = entry /\ \A s \in Slot \ {slot} : stored'[s] = stored[s]
      BY <2>1, <2>3 DEF IInv, TypeOK
    <2>9. /\ purchase'[id] # Null
          /\ \A n \in Id \ {id} : Bought(n)' <=> Bought(n)
      BY <2>2, <2>4, <2>7 DEF Bought
    <2>10. TypeOK'
      <3>1. purchase' \in [Id -> Row \union {Null}]
        BY <2>1, <2>3 DEF IInv, TypeOK
      <3>2. invited' \subseteq Id
        BY <2>1, <2>2 DEF IInv, TypeOK
      <3>3. stored' \in [Slot -> [body : Body, id : Id] \union {Null}]
        BY <2>1, <2>4 DEF IInv, TypeOK
      <3> QED
        BY <2>1, <2>5, <3>1, <3>2, <3>3 DEF IInv, TypeOK
    <2>11. Complete'
      BY <2>2, <2>6 DEF IInv, Complete
    <2>12. ASSUME NEW q \in Proc \ {p}, Open(q)'
           PROVE  /\ keyHolder'[SlotOf(q)'] = q
                  /\ ~KeyTaken(SlotOf(q))'
                  /\ req'[q].id \in Id
                  /\ ~Bought(req[q].id)'
      <3>1. Open(q) /\ SlotOf(q)' = SlotOf(q) /\ req'[q].id = req[q].id
        BY <2>6, <2>12 DEF Open, SlotOf
      <3>2. /\ keyHolder[SlotOf(q)] = q /\ ~KeyTaken(SlotOf(q))
            /\ req[q].id \in Id /\ ~Bought(req[q].id)
        BY <3>1 DEF IInv, KeyHeld
      <3>3. SlotOf(q) \in Slot
        BY <3>1 DEF IInv, Complete, Open, SlotOf, Slot
      <3>4. keyHolder[slot] = p
        BY <2>1 DEF IInv, KeyHeld, Open
      <3>5. SlotOf(q) # slot
        BY <3>2, <3>4
      <3>6. req[q].id # id
        BY <2>1, <3>1 DEF IInv, IdsDiffer, Open
      <3>7. ~KeyTaken(SlotOf(q))'
        <4> SUFFICES ASSUME NEW n \in Id, Bought(n)',
                            purchase'[n].parent = SlotOf(q)[1],
                            purchase'[n].key = SlotOf(q)[2]
                     PROVE  FALSE
          BY <3>1 DEF KeyTaken
        <4>1. CASE n = id
          BY <4>1, <2>7, <3>5 DEF SlotOf
        <4>2. CASE n # id
          BY <4>2, <2>7, <2>9, <3>2 DEF KeyTaken
        <4> QED
          BY <4>1, <4>2
      <3> QED
        BY <2>5, <2>9, <3>1, <3>2, <3>3, <3>6, <3>7
    <2>13. KeyHeld'
      BY <2>6, <2>12 DEF KeyHeld, Open
    <2>14. IdsDiffer'
      BY <2>6 DEF IInv, IdsDiffer, Open
    <2>15. EnqueueCommitted'
      BY <2>1, <2>6 DEF IInv, EnqueueCommitted
    <2>16. OnePurchasePerKey'
      <3>1. ASSUME NEW n \in Id, n # id, Bought(n)
            PROVE  ~(purchase[n].parent = row.parent /\ purchase[n].key = row.key)
        BY <2>2, <2>3, <3>1 DEF KeyTaken
      <3> QED
        BY <2>7, <2>9, <3>1 DEF IInv, OnePurchasePerKey
    <2>17. PurchaseIsWhole'
      <3>1. \A n \in Id : Bought(n)' <=> n \in invited'
        BY <2>1, <2>9 DEF IInv, PurchaseIsWhole, Bought
      <3>2. ASSUME NEW n \in invited'
            PROVE  LET kept == stored'[<<purchase'[n].parent, purchase'[n].key>>] IN
                   /\ kept # Null /\ kept.id = n
                   /\ ItemOf[kept.body] = purchase'[n].item
        <4>1. CASE n = id
          BY <4>1, <2>4, <2>7, <2>8 DEF SlotOf, ItemAt
        <4>2. CASE n # id
          <5>1. n \in invited /\ n \in Id /\ Bought(n) /\ purchase'[n] = purchase[n]
            BY <4>2, <2>1, <2>7, <3>2 DEF IInv, PurchaseIsWhole, TypeOK
          <5>2. purchase[n] \in Row
            BY <5>1 DEF IInv, TypeOK, Bought
          <5>3. <<purchase[n].parent, purchase[n].key>> \in Slot \ {slot}
            BY <2>2, <2>3, <5>1, <5>2 DEF KeyTaken, Row, Slot, SlotOf
          <5> QED
            BY <2>8, <5>1, <5>3 DEF IInv, PurchaseIsWhole
        <4> QED
          BY <4>1, <4>2
      <3>3. ASSUME NEW s \in Slot, stored'[s] # Null
            PROVE  purchase'[stored'[s].id] # Null
        <4>1. CASE s = slot
          BY <4>1, <2>8, <2>9
        <4>2. CASE s # slot
          <5>1. stored'[s] = stored[s] /\ stored[s].id \in Id /\ Bought(stored[s].id)
            BY <4>2, <2>8, <3>3 DEF IInv, PurchaseIsWhole, TypeOK
          <5> QED
            BY <2>9, <5>1 DEF Bought
        <4> QED
          BY <4>1, <4>2
      <3> QED
        BY <3>1, <3>2, <3>3 DEF PurchaseIsWhole, Bought
    <2>18. JobsAreCommitted'
      BY <2>1 DEF IInv, JobsAreCommitted
    <2>19. ReplayOfItsKey'
      <3> SUFFICES ASSUME NEW s \in Slot, stored'[s] # Null
                   PROVE  /\ purchase'[stored'[s].id] # Null
                          /\ purchase'[stored'[s].id].parent = s[1]
                          /\ purchase'[stored'[s].id].key = s[2]
        BY DEF ReplayOfItsKey, Bought
      <3>1. CASE s = slot
        BY <3>1, <2>3, <2>7, <2>8, <2>9
      <3>2. CASE s # slot
        <4>1. stored'[s] = stored[s] /\ stored[s].id \in Id \ {id}
          BY <3>2, <2>2, <2>8 DEF IInv, TypeOK, ReplayOfItsKey
        <4> QED
          BY <4>1, <2>7 DEF IInv, ReplayOfItsKey, Bought
      <3> QED
        BY <3>1, <3>2
    <2> HIDE DEF id, row, slot, entry
    <2> QED
      BY <2>19, <2>10, <2>11, <2>13, <2>14, <2>15, <2>16, <2>17, <2>18 DEF IInv
  <1> QED
    BY <1>1, <1>2, <1>3, <1>4, <1>5, <1>6, <1>7, <1>8, <1>9 DEF Step

LEMMA Inductive == IInv /\ [Next]_vars => IInv'
  <1> SUFFICES ASSUME IInv, [Next]_vars PROVE IInv'
    OBVIOUS
  <1>1. ASSUME NEW p \in Proc, NEW par \in Parent, NEW k \in Key, NEW b \in Body,
               Submit(p, par, k, b)
        PROVE  IInv'
    <2> DEFINE request == [pc |-> "lookup", parent |-> par, key |-> k, body |-> b,
                           id |-> Null]
    <2>1. /\ req' = [req EXCEPT ![p] = request]
          /\ reply' = [reply EXCEPT ![p] = "none"]
          /\ UNCHANGED <<tables, queue, keyHolder>>
      BY <1>1 DEF Submit
    <2>2. TypeOK'
      BY <2>1 DEF IInv, TypeOK, tables
    <2>3. req'[p] = request /\ \A q \in Proc \ {p} : req'[q] = req[q]
      BY <2>1 DEF IInv, TypeOK
    <2>4. ~Open(p)'
      BY <2>3 DEF Open
    <2> QED
      BY <2>1, <2>2, <2>3, <2>4, Between
  <1>2. CASE Crash
    <2>1. \A p \in Proc : req'[p].pc = "idle"
      BY <1>2 DEF Crash, Idle
    <2>2. TypeOK'
      BY <1>2 DEF Crash, Idle, IInv, TypeOK, tables
    <2>3. UNCHANGED <<tables, queue>>
      BY <1>2 DEF Crash
    <2>4. Complete' /\ KeyHeld' /\ IdsDiffer' /\ EnqueueCommitted'
      BY <2>1 DEF Complete, KeyHeld, IdsDiffer, EnqueueCommitted, Open
    <2>5. OnePurchasePerKey' /\ PurchaseIsWhole' /\ JobsAreCommitted' /\ ReplayOfItsKey'
      BY <2>3 DEF IInv, OnePurchasePerKey, PurchaseIsWhole, JobsAreCommitted, ReplayOfItsKey,
                  Bought, tables
    <2> QED
      BY <2>2, <2>4, <2>5 DEF IInv
  <1>3. CASE UNCHANGED vars
    BY <1>3 DEF vars, tables, IInv, TypeOK, Complete, KeyHeld, IdsDiffer, EnqueueCommitted,
                OnePurchasePerKey, PurchaseIsWhole, JobsAreCommitted, ReplayOfItsKey, Open, SlotOf,
                KeyTaken, Bought
  <1> QED
    BY <1>1, <1>2, <1>3, StepKeeps DEF Next

(* However requests overlap, are retried, fail or are cut off, a key buys  *)
(* once (createPurchase, ADR 0006).                                        *)
THEOREM KeyBuysOnce == Spec => []OnePurchasePerKey
  BY Initially, Inductive, PTL DEF Spec, IInv

(* Purchase, invitation and replay exist together or not at all            *)
(* (runCreateTransaction).                                                 *)
THEOREM WholePurchases == Spec => []PurchaseIsWhole
  BY Initially, Inductive, PTL DEF Spec, IInv

(* A job never points at a purchase that was rolled back (createPurchase,  *)
(* the comment on enqueuing after the commit).                             *)
THEOREM CommittedJobs == Spec => []JobsAreCommitted
  BY Initially, Inductive, PTL DEF Spec, IInv

(* When the replay is inserted no other can be in its way: the index on    *)
(* purchases has decided (persistWithinTransaction's untaken branch).      *)
THEOREM ReplayNeverContended == Spec => []PersistUncontended
  <1>1. IInv => PersistUncontended
    <2> SUFFICES ASSUME IInv, NEW p \in Proc, NEW q \in Proc, Open(p)
                 PROVE  /\ stored[SlotOf(p)] = Null
                        /\ p # q /\ Open(q) => SlotOf(q) # SlotOf(p)
      BY DEF PersistUncontended, Open
    <2>1. keyHolder[SlotOf(p)] = p /\ ~KeyTaken(SlotOf(p))
          /\ (Open(q) => keyHolder[SlotOf(q)] = q)
      BY DEF IInv, KeyHeld
    <2>2. SlotOf(p) \in Slot
      BY DEF IInv, Complete, Open, SlotOf, Slot
    <2>3. ASSUME stored[SlotOf(p)] # Null PROVE FALSE
      <3>1. stored[SlotOf(p)].id \in Id
        BY <2>2, <2>3 DEF IInv, TypeOK
      <3> QED
        BY <2>1, <2>2, <2>3, <3>1 DEF IInv, ReplayOfItsKey, KeyTaken
    <2> QED
      BY <2>1, <2>3
  <1> QED
    BY <1>1, Initially, Inductive, PTL DEF Spec

-----------------------------------------------------------------------------
(* Answers.  A request keeps its data until its slot is used again, and    *)
(* rows and replays never change: what an answer said stays true.          *)

RowAt(p) == [parent |-> req[p].parent, key |-> req[p].key, item |-> ItemAt(p)]

AnswerKnown(p) ==
    /\ req[p].pc # "idle" => reply[p] = "none"
    /\ reply[p] # "none" =>
          req[p].parent \in Parent /\ req[p].key \in Key /\ req[p].body \in Body
    /\ req[p].pc = "enqueue" \/ reply[p] \in {"created", "replayed"} =>
          req[p].id \in Id /\ Bought(req[p].id) /\ purchase[req[p].id] = RowAt(p)
    /\ reply[p] = "BODY_MISMATCH" =>
          stored[SlotOf(p)] # Null /\ stored[SlotOf(p)].body # req[p].body
    /\ reply[p] = "DUPLICATE_PURCHASE" =>
          \E n \in Id : Bought(n) /\ purchase[n].parent = req[p].parent
                                  /\ purchase[n].item = ItemAt(p)
    /\ reply[p] = "INTERNAL_ERROR" => KeyTaken(SlotOf(p))

AnswersKnow == \A p \in Proc : AnswerKnown(p)

(* No row and no replay is changed or removed. *)
TablesGrow ==
    /\ \A n \in Id : Bought(n) => purchase'[n] # Null /\ purchase'[n] = purchase[n]
    /\ \A s \in Slot : stored[s] # Null => stored'[s] = stored[s]

LEMMA Moved ==
    ASSUME TypeOK, NEW p \in Proc, NEW stage, req' = [req EXCEPT ![p].pc = stage]
    PROVE  /\ req'[p].pc = stage /\ req'[p].id = req[p].id
           /\ req'[p].parent = req[p].parent /\ req'[p].key = req[p].key
           /\ req'[p].body = req[p].body
           /\ \A q \in Proc \ {p} : req'[q] = req[q]
  <1>1. req'[p] = [req[p] EXCEPT !.pc = stage] /\ \A q \in Proc \ {p} : req'[q] = req[q]
    BY DEF TypeOK
  <1> QED
    BY <1>1 DEF TypeOK

LEMMA Growing == IInv /\ [Next]_vars => TablesGrow
  <1>1. UNCHANGED tables => TablesGrow
    BY DEF tables, TablesGrow, Bought
  <1>2. ASSUME IInv, NEW p \in Proc, Commit(p)
        PROVE  TablesGrow
    <2>1. /\ req[p].id \in Id /\ ~Bought(req[p].id) /\ ~KeyTaken(SlotOf(p))
          /\ SlotOf(p) \in Slot
      BY <1>2 DEF Commit, IInv, KeyHeld, Open, Complete, SlotOf, Slot
    <2>2. /\ \A n \in Id \ {req[p].id} : purchase'[n] = purchase[n]
          /\ \A s \in Slot \ {SlotOf(p)} : stored'[s] = stored[s]
      BY <1>2 DEF Commit, IInv, TypeOK
    <2>3. ASSUME stored[SlotOf(p)] # Null PROVE FALSE
      <3>1. stored[SlotOf(p)].id \in Id
        BY <1>2, <2>1, <2>3 DEF IInv, TypeOK
      <3> QED
        BY <1>2, <2>1, <2>3, <3>1 DEF IInv, ReplayOfItsKey, KeyTaken
    <2> QED
      BY <2>1, <2>2, <2>3 DEF TablesGrow, Bought
  <1>3. ASSUME NEW p \in Proc, Step(p), ~Commit(p)
        PROVE  UNCHANGED tables
    BY <1>3 DEF Step, Replay, BodyMismatch, Miss, GuardRefuses, GuardPasses, InsertPurchase,
                InsertViolatesKey, Store, Enqueue, Fail, Reject
  <1>4. ASSUME NEW p \in Proc, NEW par \in Parent, NEW k \in Key, NEW b \in Body,
               Submit(p, par, k, b)
        PROVE  UNCHANGED tables
    BY <1>4 DEF Submit
  <1>5. Crash \/ UNCHANGED vars => UNCHANGED tables
    BY DEF Crash, vars
  <1> QED
    BY <1>1, <1>2, <1>3, <1>4, <1>5 DEF Next

LEMMA AnswerStays ==
    ASSUME IInv, TablesGrow, NEW q \in Proc, AnswerKnown(q),
           req'[q] = req[q], reply'[q] = reply[q]
    PROVE  AnswerKnown(q)'
  <1>1. RowAt(q)' = RowAt(q) /\ SlotOf(q)' = SlotOf(q) /\ ItemAt(q)' = ItemAt(q)
    BY DEF RowAt, SlotOf, ItemAt
  <1>2. \A n \in Id : Bought(n) => Bought(n)' /\ purchase'[n] = purchase[n]
    BY DEF TablesGrow, Bought
  <1>3. \A s : KeyTaken(s) => KeyTaken(s)'
    BY <1>2 DEF KeyTaken
  <1>4. reply[q] = "BODY_MISMATCH" => stored'[SlotOf(q)] = stored[SlotOf(q)]
    <2>1. reply[q] = "BODY_MISMATCH" => SlotOf(q) \in Slot
      BY DEF AnswerKnown, SlotOf, Slot
    <2> QED
      BY <2>1 DEF AnswerKnown, TablesGrow
  <1> QED
    BY <1>1, <1>2, <1>3, <1>4 DEF AnswerKnown

LEMMA AnswersStep == IInv /\ AnswersKnow /\ [Next]_vars => AnswersKnow'
  <1> SUFFICES ASSUME IInv, AnswersKnow, [Next]_vars PROVE AnswersKnow'
    OBVIOUS
  <1>1. TablesGrow /\ TypeOK
    BY Growing DEF IInv
  <1>2. ASSUME NEW p \in Proc, AnswerKnown(p)',
               \A q \in Proc \ {p} : req'[q] = req[q] /\ reply'[q] = reply[q]
        PROVE  AnswersKnow'
    <2>1. ASSUME NEW q \in Proc, q # p PROVE AnswerKnown(q)'
      BY <1>1, <1>2, <2>1, AnswerStays DEF AnswersKnow
    <2> QED
      BY <1>2, <2>1 DEF AnswersKnow
  <1>3. ASSUME NEW p \in Proc, NEW stage, req' = [req EXCEPT ![p].pc = stage],
               UNCHANGED reply \/ \E r : reply' = [reply EXCEPT ![p] = r]
        PROVE  \A q \in Proc \ {p} : req'[q] = req[q] /\ reply'[q] = reply[q]
    BY <1>1, <1>3, Moved DEF TypeOK
  <1>4. ASSUME NEW p \in Proc, req[p].pc # "idle"
        PROVE  /\ req[p].parent \in Parent /\ req[p].key \in Key /\ req[p].body \in Body
               /\ SlotOf(p) \in Slot /\ reply[p] = "none"
    BY <1>4 DEF IInv, Complete, AnswersKnow, AnswerKnown, SlotOf, Slot
  <1>5. ASSUME NEW p \in Proc, NEW code, Answer(p, code)
        PROVE  /\ req'[p].pc = "idle" /\ reply'[p] = code
               /\ req'[p].id = req[p].id /\ req'[p].parent = req[p].parent
               /\ req'[p].key = req[p].key /\ req'[p].body = req[p].body
               /\ SlotOf(p)' = SlotOf(p) /\ ItemAt(p)' = ItemAt(p) /\ RowAt(p)' = RowAt(p)
               /\ \A q \in Proc \ {p} : req'[q] = req[q] /\ reply'[q] = reply[q]
    <2>1. req' = [req EXCEPT ![p].pc = "idle"] /\ reply' = [reply EXCEPT ![p] = code]
      BY <1>5 DEF Answer, GoTo
    <2>2. reply'[p] = code
      BY <1>1, <2>1 DEF TypeOK
    <2> QED
      BY <1>1, <1>3, <2>1, <2>2, Moved DEF SlotOf, ItemAt, RowAt
  <1>6. ASSUME NEW p \in Proc,
               NEW code \in {"error", "BODY_MISMATCH", "DUPLICATE_PURCHASE", "INTERNAL_ERROR"},
               Reject(p, code), req[p].pc # "idle",
               code = "BODY_MISMATCH" =>
                  stored[SlotOf(p)] # Null /\ stored[SlotOf(p)].body # req[p].body,
               code = "DUPLICATE_PURCHASE" => AlreadyBought(req[p].parent, ItemAt(p)),
               code = "INTERNAL_ERROR" => KeyTaken(SlotOf(p))
        PROVE  AnswersKnow'
    <2>1. Answer(p, code) /\ UNCHANGED tables
      BY <1>6 DEF Reject
    <2>2. \A n : Bought(n)' <=> Bought(n)
      BY <2>1 DEF tables, Bought
    <2>3. \A s : KeyTaken(s)' <=> KeyTaken(s)
      BY <2>1, <2>2 DEF tables, KeyTaken
    <2>4. AlreadyBought(req[p].parent, ItemAt(p)) =>
            \E n \in Id : Bought(n) /\ purchase[n].parent = req[p].parent
                                    /\ purchase[n].item = ItemAt(p)
      BY DEF AlreadyBought, IInv, PurchaseIsWhole, TypeOK
    <2>5. AnswerKnown(p)'
      BY <1>4, <1>5, <1>6, <2>1, <2>2, <2>3, <2>4 DEF AnswerKnown, tables
    <2> QED
      BY <1>2, <1>5, <2>1, <2>5
  <1>7. ASSUME NEW p \in Proc, Replay(p)
        PROVE  AnswersKnow'
    <2> DEFINE entry == stored[SlotOf(p)]
    <2>1. /\ req[p].pc # "idle" /\ entry # Null /\ entry.body = req[p].body
          /\ UNCHANGED tables /\ reply' = [reply EXCEPT ![p] = "replayed"]
          /\ req' = [req EXCEPT ![p].pc = "idle", ![p].id = entry.id]
      BY <1>7 DEF Replay
    <2>2. /\ entry.id \in Id /\ Bought(entry.id) /\ purchase[entry.id] \in Row
          /\ purchase[entry.id].parent = req[p].parent /\ purchase[entry.id].key = req[p].key
      BY <1>4, <2>1 DEF IInv, TypeOK, ReplayOfItsKey, SlotOf, Bought
    <2>3. purchase[entry.id].item = ItemAt(p)
      BY <2>1, <2>2 DEF IInv, PurchaseIsWhole, SlotOf, ItemAt
    <2>4. purchase[entry.id] = RowAt(p)
      BY <2>2, <2>3 DEF Row, RowAt
    <2>5. /\ req'[p] = [req[p] EXCEPT !.pc = "idle", !.id = entry.id]
          /\ reply'[p] = "replayed"
          /\ \A q \in Proc \ {p} : req'[q] = req[q] /\ reply'[q] = reply[q]
      BY <1>1, <2>1 DEF TypeOK
    <2> HIDE DEF entry
    <2>6. /\ req'[p].pc = "idle" /\ req'[p].id = entry.id /\ req'[p].parent = req[p].parent
          /\ req'[p].key = req[p].key /\ req'[p].body = req[p].body
      BY <1>1, <2>5 DEF TypeOK
    <2>7. /\ RowAt(p)' = RowAt(p) /\ purchase'[entry.id] = purchase[entry.id]
          /\ purchase[entry.id] # Null
      BY <2>1, <2>2, <2>6 DEF RowAt, ItemAt, Bought, tables
    <2>8. AnswerKnown(p)'
      BY <1>4, <2>1, <2>2, <2>4, <2>5, <2>6, <2>7 DEF AnswerKnown, Bought
    <2> QED
      BY <1>2, <2>5, <2>8
  <1>8. ASSUME NEW p \in Proc, Miss(p) \/ GuardPasses(p) \/ InsertPurchase(p) \/ Store(p)
        PROVE  AnswersKnow'
    <2>1. req[p].pc # "idle" /\ UNCHANGED reply
      BY <1>8 DEF Miss, GuardPasses, InsertPurchase, Store
    <2>2. /\ req'[p].pc \in {"guard", "insert", "store", "commit"}
          /\ \A q \in Proc \ {p} : req'[q] = req[q]
      BY <1>1, <1>8 DEF Miss, GuardPasses, InsertPurchase, Store, GoTo, TypeOK
    <2>3. AnswerKnown(p)'
      BY <1>4, <2>1, <2>2 DEF AnswerKnown
    <2> QED
      BY <1>2, <2>1, <2>2, <2>3
  <1>9. ASSUME NEW p \in Proc, Commit(p)
        PROVE  AnswersKnow'
    <2>1. /\ req[p].pc = "commit" /\ UNCHANGED reply /\ req' = [req EXCEPT ![p].pc = "enqueue"]
          /\ purchase' = [purchase EXCEPT ![req[p].id] = RowAt(p)]
      BY <1>9 DEF Commit, GoTo, RowAt
    <2>2. req[p].id \in Id /\ RowAt(p) # Null
      BY <1>4, <2>1, NullAssumption, ItemAssumption DEF IInv, KeyHeld, Open, RowAt, ItemAt
    <2>3. purchase'[req[p].id] = RowAt(p)
      BY <1>1, <2>1, <2>2 DEF TypeOK
    <2>4. req'[p].pc = "enqueue" /\ req'[p].id = req[p].id /\ RowAt(p)' = RowAt(p)
      BY <1>1, <2>1, Moved DEF RowAt, ItemAt
    <2>5. AnswerKnown(p)'
      BY <1>4, <2>1, <2>2, <2>3, <2>4 DEF AnswerKnown, Bought
    <2> QED
      BY <1>2, <1>3, <2>1, <2>5
  <1>10. ASSUME NEW p \in Proc, Enqueue(p)
         PROVE  AnswersKnow'
    <2>1. req[p].pc = "enqueue" /\ Answer(p, "created") /\ UNCHANGED tables
      BY <1>10 DEF Enqueue
    <2>2. req[p].id \in Id /\ Bought(req[p].id) /\ purchase[req[p].id] = RowAt(p)
      BY <2>1 DEF AnswersKnow, AnswerKnown
    <2>3. AnswerKnown(p)'
      BY <1>4, <1>5, <2>1, <2>2 DEF AnswerKnown, Bought, tables
    <2> QED
      BY <1>2, <1>5, <2>1, <2>3
  <1>11. ASSUME NEW p \in Proc, Step(p)
         PROVE  AnswersKnow'
    BY <1>6, <1>7, <1>8, <1>9, <1>10, <1>11
    DEF Step, BodyMismatch, GuardRefuses, InsertViolatesKey, Fail
  <1>12. ASSUME NEW p \in Proc, NEW par \in Parent, NEW k \in Key, NEW b \in Body,
                Submit(p, par, k, b)
         PROVE  AnswersKnow'
    <2>1. /\ req'[p].pc = "lookup" /\ reply'[p] = "none"
          /\ \A q \in Proc \ {p} : req'[q] = req[q] /\ reply'[q] = reply[q]
      BY <1>1, <1>12 DEF Submit, TypeOK
    <2> QED
      BY <1>2, <2>1 DEF AnswerKnown
  <1>13. CASE Crash
    BY <1>13 DEF Crash, Idle, AnswersKnow, AnswerKnown
  <1>14. CASE UNCHANGED vars
    BY <1>1, <1>14, AnswerStays DEF vars, AnswersKnow
  <1> QED
    BY <1>11, <1>12, <1>13, <1>14 DEF Next

LEMMA AnswersAlways == Spec => [](IInv /\ AnswersKnow)
  <1>1. Init => AnswersKnow
    BY DEF Init, Idle, AnswersKnow, AnswerKnown
  <1> QED
    BY <1>1, Initially, Inductive, AnswersStep, PTL DEF Spec

(* Whatever was committed, refused or replayed beside a request, before it *)
(* and after it, its answer speaks of a purchase that exists: a 201 of the *)
(* item asked for under the key sent, a 409 of another purchase or replay  *)
(* that explains it (IdempotencyInterceptor, createPurchase).              *)
THEOREM AnswersStayTrue == Spec => []AnswersAreTrue
  <1>1. AnswersKnow => AnswersAreTrue
    BY DEF AnswersKnow, AnswerKnown, AnswersAreTrue, RowAt, ItemAt
  <1> QED
    BY <1>1, AnswersAlways, PTL

(* Every variable has its type: requests keep well-formed data and the     *)
(* tables well-formed rows through every interleaving and crash.           *)
THEOREM PurchasesTypeCorrect == Spec => []TypeOK
  BY Initially, Inductive, PTL DEF Spec, IInv

-----------------------------------------------------------------------------
(* Buying is one step of Orders: the commit; an enqueue is a Notify.       *)

LEMMA CommitBuys ==
    ASSUME IInv, IInv', NEW p \in Proc, Commit(p)
    PROVE  O!Next
  <1>0. PICK id \in Id : id = req[p].id
    BY DEF Commit, IInv, KeyHeld, Open
  <1> DEFINE slot == SlotOf(p)
             orders == {OrderOf(n) : n \in {m \in Id : Bought(m)}}
             new == OrderOf(id)'
  <1>1. /\ id \in Id /\ ~Bought(id) /\ ~KeyTaken(slot)
        /\ req[p].parent \in Parent /\ req[p].key \in Key /\ req[p].body \in Body
    BY <1>0 DEF Commit, IInv, KeyHeld, Open, Complete
  <1>2. slot = <<req[p].parent, req[p].key>> /\ slot \in Slot
    BY <1>1 DEF SlotOf, Slot
  <1>3. /\ purchase'[id] = [parent |-> req[p].parent, key |-> req[p].key,
                            item |-> ItemOf[req[p].body]]
        /\ \A n \in Id \ {id} : purchase'[n] = purchase[n]
    BY <1>0, <1>1 DEF Commit, IInv, TypeOK, ItemAt
  <1>4. /\ stored'[slot] = [body |-> req[p].body, id |-> id]
        /\ \A s \in Slot \ {slot} : stored'[s] = stored[s]
    BY <1>0, <1>1, <1>2 DEF Commit, IInv, TypeOK
  <1>5. invited' = invited \union {id} /\ UNCHANGED queue
    BY <1>0 DEF Commit
  <1>6. purchase'[id] # Null
    BY <1>3, <1>1, NullAssumption, ItemAssumption
  <1>7. \A n \in Id : Bought(n)' <=> Bought(n) \/ n = id
    BY <1>1, <1>3, <1>6 DEF Bought
  <1>8. ASSUME NEW n \in Id, Bought(n)
        PROVE  /\ OrderOf(n)' = OrderOf(n)
               /\ OrderOf(n).id = n /\ n # id
               /\ <<OrderOf(n).parent, OrderOf(n).key>> # slot
    <2>1. n # id /\ purchase'[n] = purchase[n] /\ purchase[n] \in Row
      BY <1>1, <1>3, <1>8 DEF IInv, TypeOK, Bought
    <2>2. <<purchase[n].parent, purchase[n].key>> \in Slot \ {slot}
      BY <1>1, <1>2, <1>8, <2>1 DEF KeyTaken, Row, Slot
    <2>3. stored'[<<purchase[n].parent, purchase[n].key>>]
            = stored[<<purchase[n].parent, purchase[n].key>>]
      BY <1>4, <2>2
    <2>4. {n} \cap invited' = {n} \cap invited
      BY <1>5, <2>1
    <2> QED
      BY <2>1, <2>2, <2>3, <2>4 DEF OrderOf
  <1>9. /\ new = O!Order(id, req[p].parent, req[p].key, req[p].body)
        /\ new.id = id /\ new.parent = req[p].parent /\ new.key = req[p].key
    <2>1. {id} \cap invited' = {id}
      BY <1>5
    <2>2. /\ purchase'[id].parent = req[p].parent
          /\ purchase'[id].key = req[p].key
          /\ purchase'[id].item = ItemOf[req[p].body]
      BY <1>3
    <2>3. stored'[<<purchase'[id].parent, purchase'[id].key>>]
            = [body |-> req[p].body, id |-> id]
      BY <1>2, <1>4, <2>2
    <2> QED
      BY <2>1, <2>2, <2>3 DEF OrderOf, O!Order
  <1>10. orders' = orders \union {new}
    <2>1. orders' = {OrderOf(n)' : n \in {m \in Id : Bought(m)'}}
      OBVIOUS
    <2>2. {m \in Id : Bought(m)'} = {m \in Id : Bought(m)} \union {id}
      BY <1>1, <1>7
    <2> QED
      BY <2>1, <2>2, <1>8
  <1>11. \A o \in orders : o.id # new.id /\ <<o.parent, o.key>> # <<new.parent, new.key>>
    BY <1>2, <1>8, <1>9
  <1>12. new \in orders' \ orders
    BY <1>10, <1>11
  <1>13. O!Buy(new)
    BY <1>1, <1>5, <1>9, <1>10, <1>11 DEF O!Buy
  <1> QED
    BY <1>12, <1>13 DEF O!Next

LEMMA StepIsOrders == IInv /\ IInv' /\ [Next]_vars => [O!Next]_(O!ordersVars)
  <1> SUFFICES ASSUME IInv, IInv', [Next]_vars PROVE [O!Next]_(O!ordersVars)
    OBVIOUS
  <1>1. ASSUME UNCHANGED tables
        PROVE  UNCHANGED {OrderOf(n) : n \in {m \in Id : Bought(m)}}
    BY <1>1 DEF tables, OrderOf, Bought
  <1>2. CASE UNCHANGED <<tables, queue>>
    BY <1>1, <1>2 DEF O!ordersVars
  <1>3. ASSUME NEW p \in Proc, Enqueue(p)
        PROVE  [O!Next]_(O!ordersVars)
    <2>1. UNCHANGED tables
      BY <1>3 DEF Enqueue
    <2>2. CASE UNCHANGED queue
      BY <1>2, <2>1, <2>2
    <2>3. CASE queue' = queue \union {req[p].id}
      <3> DEFINE o == OrderOf(req[p].id)
      <3>1. req[p].id \in Id /\ Bought(req[p].id)
        BY <1>3 DEF Enqueue, IInv, EnqueueCommitted, PurchaseIsWhole, TypeOK
      <3>2. o \in {OrderOf(n) : n \in {m \in Id : Bought(m)}} /\ o.id = req[p].id
        BY <3>1 DEF OrderOf
      <3>3. O!Notify(o)
        BY <1>1, <2>1, <2>3, <3>2 DEF O!Notify
      <3> QED
        BY <3>2, <3>3 DEF O!Next
    <2> QED
      BY <1>3, <2>2, <2>3 DEF Enqueue
  <1>4. ASSUME NEW p \in Proc, Step(p), ~Enqueue(p), ~Commit(p)
        PROVE  UNCHANGED <<tables, queue>>
    BY <1>4 DEF Step, Replay, BodyMismatch, Miss, GuardRefuses, GuardPasses, InsertPurchase,
                InsertViolatesKey, Store, Fail, Reject
  <1>5. ASSUME NEW p \in Proc, NEW par \in Parent, NEW k \in Key, NEW b \in Body,
               Submit(p, par, k, b)
        PROVE  UNCHANGED <<tables, queue>>
    BY <1>5 DEF Submit
  <1>6. CASE Crash
    BY <1>2, <1>6 DEF Crash
  <1>7. CASE UNCHANGED vars
    BY <1>2, <1>7 DEF vars
  <1> QED
    BY <1>2, <1>3, <1>4, <1>5, <1>6, <1>7, CommitBuys DEF Next

LEMMA InitIsOrders == Init => O!Init
  BY DEF Init, O!Init, Bought

(* However requests overlap, fail or are cut off, buying implements Orders:*)
(* a whole order in one step, under a key of its own, that never changes   *)
(* (createPurchase).                                                       *)
THEOREM BuyingIsAtomic == Spec => ImplementsOrders
  <1>1. IInv /\ [Next]_vars => IInv'
    BY Inductive
  <1> QED
    BY <1>1, Initially, InitIsOrders, StepIsOrders, PTL DEF Spec, ImplementsOrders, O!Spec
=============================================================================
