------------------------------- MODULE Orders -------------------------------
(***************************************************************************)
(* What POST /purchases promises, without requests, transactions or races: *)
(* an idempotency key buys once and for ever; the purchase, its invitation *)
(* and its replay appear in one step; an email job is for an order that    *)
(* exists.                                                                 *)
(***************************************************************************)
CONSTANTS Parent, Key, Body, ItemOf, Id

VARIABLES
    orders,   \* [id, parent, key, item, invitations, replay]
    jobs      \* ids of the orders whose email was handed to the queue

ordersVars == <<orders, jobs>>

(* An order for what body b asks, whose replay is kept under b's hash. *)
Order(n, par, k, b) ==
    [id |-> n, parent |-> par, key |-> k, item |-> ItemOf[b],
     invitations |-> {n}, replay |-> [body |-> b, id |-> n]]

Init ==
    /\ orders = {}
    /\ jobs = {}

(* Its id and its key are new. *)
Buy(new) ==
    /\ \E n \in Id, par \in Parent, k \in Key, b \in Body : new = Order(n, par, k, b)
    /\ \A o \in orders : o.id # new.id /\ <<o.parent, o.key>> # <<new.parent, new.key>>
    /\ orders' = orders \union {new}
    /\ UNCHANGED jobs

Notify(o) ==
    /\ jobs' = jobs \union {o.id}
    /\ UNCHANGED orders

Next ==
    \/ \E new \in orders' \ orders : Buy(new)
    \/ \E o \in orders : Notify(o)

Spec == Init /\ [][Next]_ordersVars
=============================================================================
