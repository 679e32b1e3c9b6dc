----------------------------- MODULE SessionLine -----------------------------
(***************************************************************************)
(* What the session table promises, without transactions, locks or clocks: *)
(* a login opens a line of tokens, at most one of which is current; the    *)
(* current token can be exchanged for a fresh one; a line that has ended   *)
(* never comes back, and no token is ever current twice.                   *)
(***************************************************************************)
CONSTANT Token

VARIABLES
    current,  \* the current token of each line, a line being named by its first token
    spent     \* every token that was ever handed out

vars == <<current, spent>>

Init ==
    /\ current = [l \in Token |-> {}]
    /\ spent = {}

Open(l) ==
    /\ l \notin spent
    /\ current' = [current EXCEPT ![l] = {l}]
    /\ spent' = spent \cup {l}

Exchange(l, t) ==
    /\ current[l] # {}
    /\ t \notin spent
    /\ current' = [current EXCEPT ![l] = {t}]
    /\ spent' = spent \cup {t}

End(ended) ==
    /\ current' = [l \in Token |-> IF l \in ended THEN {} ELSE current[l]]
    /\ UNCHANGED spent

Next ==
    \/ \E l \in Token : Open(l)
    \/ \E l, t \in Token : Exchange(l, t)
    \/ \E ended \in SUBSET Token : End(ended)

Spec == Init /\ [][Next]_vars

=============================================================================
