----------------------------- MODULE MCCheckout -----------------------------
(* Two bodies for one item, that differ in spelling, and one for another.   *)
EXTENDS Checkout, TLC

CONSTANTS same, spelledOtherwise, other, item, otherItem, hasty, k1

ItemOfBody == same :> item @@ spelledOtherwise :> item @@ other :> otherItem

(* The other parent buys one thing, again and again, under a key that is    *)
(* the shopper's as well.                                                   *)
HastyCalls == {<<hasty, k1, same>>}

(* Ids and requests are names only. *)
Symmetry == Permutations(Id) \union Permutations(Proc)
=============================================================================
