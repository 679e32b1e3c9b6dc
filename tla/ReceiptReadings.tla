--------------------------- MODULE ReceiptReadings ---------------------------
(***************************************************************************)
(* What the archive promises about the readings of receipts: every reading *)
(* made of a receipt is of its own picture and stays on record as it was,  *)
(* and a receipt shows the newest one, never going back to an older one or *)
(* to none.                                                                *)
(***************************************************************************)
EXTENDS Integers

CONSTANTS Receipt, Image, Attempt, Time, None

VARIABLES
    picture,    \* the image of a receipt, or None if there is no such receipt
    readings,   \* all readings on record
    shown       \* the reading a receipt shows, or None

vars == <<picture, readings, shown>>

Reading == [attempt : Attempt, receipt : Receipt, image : Image, at : Time]

Newer(x, y) == x.at > y.at \/ (x.at = y.at /\ x.attempt > y.attempt)

Init ==
    /\ picture = [r \in Receipt |-> None]
    /\ readings = {}
    /\ shown = [r \in Receipt |-> None]

File(r, i) ==
    /\ picture[r] = None
    /\ picture' = [picture EXCEPT ![r] = i]
    /\ UNCHANGED <<readings, shown>>

Record(x) ==
    /\ x.image = picture[x.receipt]
    /\ \A y \in readings : y.attempt # x.attempt
    /\ readings' = readings \cup {x}
    /\ shown' = [shown EXCEPT ![x.receipt] = IF @ # None /\ Newer(@, x) THEN @ ELSE x]
    /\ UNCHANGED picture

Next ==
    \/ \E r \in Receipt, i \in Image : File(r, i)
    \/ \E x \in Reading : Record(x)

Spec == Init /\ [][Next]_vars

=============================================================================
