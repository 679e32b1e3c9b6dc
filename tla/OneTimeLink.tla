----------------------------- MODULE OneTimeLink -----------------------------
(***************************************************************************)
(* What a link that is good for one download promises: it is issued to one *)
(* account, opens for that account and no other, at most once, and never   *)
(* after it has lapsed.                                                    *)
(***************************************************************************)
CONSTANTS
    Link,      \* links ever issued
    Account,
    None       \* not issued

VARIABLES
    holder,    \* the account a link was issued to, or None
    opened,    \* the accounts it was opened for, one after the other
    lapsed     \* links that will not open any more, though they never did

vars == <<holder, opened, lapsed>>

Init ==
    /\ holder = [l \in Link |-> None]
    /\ opened = [l \in Link |-> <<>>]
    /\ lapsed = {}

Issue(l, a) ==
    /\ holder[l] = None
    /\ holder' = [holder EXCEPT ![l] = a]
    /\ UNCHANGED <<opened, lapsed>>

Open(l) ==
    /\ holder[l] # None /\ opened[l] = <<>> /\ l \notin lapsed
    /\ opened' = [opened EXCEPT ![l] = <<holder[l]>>]
    /\ UNCHANGED <<holder, lapsed>>

(* Time passes, and an attempt to open may turn out too late.              *)
Lapse(gone) ==
    /\ \A l \in gone : holder[l] # None
    /\ lapsed' = lapsed \cup gone
    /\ UNCHANGED <<holder, opened>>

Next ==
    \/ \E l \in Link : Open(l) \/ \E a \in Account : Issue(l, a)
    \/ \E gone \in SUBSET Link : Lapse(gone)

Spec == Init /\ [][Next]_vars

=============================================================================
