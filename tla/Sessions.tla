------------------------------- MODULE Sessions -------------------------------
(***************************************************************************)
(* What rotation promises, with no transactions, locks, cache or requests: *)
(* a session (a token family) is a single chain of tokens.  At any time it *)
(* has at most one current token; a token that was replaced or ended is    *)
(* spent and never becomes current, of this session or of another.         *)
(***************************************************************************)
CONSTANTS Token, Null

VARIABLES
    current,   \* session -> its current token, or Null; a session is named
               \* by its first token
    spent      \* tokens that were current once and are not any more

sessionVars == <<current, spent>>

Used == spent \union {current[f] : f \in Token}

Init ==
    /\ current = [f \in Token |-> Null]
    /\ spent = {}

(* A login starts a session with a token nobody has used. *)
Start(n) ==
    /\ n \notin Used
    /\ current' = [current EXCEPT ![n] = n]
    /\ UNCHANGED spent

(* A rotation replaces the current token by an unused one. *)
Advance(f, n) ==
    /\ current[f] # Null
    /\ n \notin Used
    /\ spent' = spent \union {current[f]}
    /\ current' = [current EXCEPT ![f] = n]

(* A logout ends one session, the cleanup job ends expired ones. *)
End(F) ==
    /\ F # {} /\ \A f \in F : current[f] # Null
    /\ spent' = spent \union {current[f] : f \in F}
    /\ current' = [f \in Token |-> IF f \in F THEN Null ELSE current[f]]

Next ==
    \/ \E n \in Token : Start(n)
    \/ \E f, n \in Token : Advance(f, n)
    \/ \E F \in SUBSET Token : End(F)

Spec == Init /\ [][Next]_sessionVars
=============================================================================
