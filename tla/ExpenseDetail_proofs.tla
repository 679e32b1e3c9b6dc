------------------------ MODULE ExpenseDetail_proofs ------------------------
(***************************************************************************)
(* Proofs about ExpenseDetail for any number of visits, values and calls:  *)
(* the invariant DetailInv, from which nobody who was answered is told     *)
(* that the expense they deleted was not found, and a save writes only     *)
(* what was typed.                                                         *)
(***************************************************************************)
EXTENDS ExpenseDetail, TLAPS

-----------------------------------------------------------------------------
(* What columns hold can be typed, and no row or form is None.             *)
LEMMA Columns ==
  /\ Stored["category"] = Category /\ Typable["category"] = Category
  /\ Stored["merchant"] = Name \cup {None} /\ Typable["merchant"] = Name \cup {None}
  /\ Stored["currency"] = Code /\ Typable["currency"] = Code \cup {None}
BY DEF Stored, Typable, Field

LEMMA ColumnsAreTypable ==
  \A f \in Field : Stored[f] \subseteq Typable[f] /\ Typable[f] \subseteq Value
BY Columns DEF Field, Value

LEMMA RowsAreForms == Row \subseteq Form /\ None \notin Row \cup Form
BY ColumnsAreTypable, BlankAssumption DEF Row, Form

(* What holds at first.                                                    *)
LEMMA InitDetailInv == Init => DetailInv
<1> SUFFICES ASSUME Init PROVE DetailInv
  OBVIOUS
<1> USE BlankAssumption, BoundAssumption DEF Init
<1>1. StoreOK
  BY DEF StoreOK
<1>2. ScreenOK
  BY DEF ScreenOK, Answers, NoAnswer, Answer
<1>3. WaitsOK
  BY DEF WaitsOK
<1>4. \A v \in Visit : FormHolds(v) /\ WaitHolds(v)
  BY DEF FormHolds, WaitHolds
<1>5. \A v \in Visit : Knows(v)
  BY DEF Knows, NoAnswer, Answer
<1>6. QED
  BY <1>1, <1>2, <1>3, <1>4, <1>5 DEF DetailInv, TypeOK

-----------------------------------------------------------------------------
(* Who changes what.                                                       *)
LEMMA VisitsKeepStore ==
  ASSUME NEW v \in Visit, Use(v) \/ Hear(v)
  PROVE  UNCHANGED store
<1>1. CASE Use(v)
  BY <1>1 DEF Use, Open, ListCategories, GetExpense, Show, Back, Edit, Cancel, Save, Change, AskDelete,
     CloseDialog, Remove, ReloadCategories
<1>2. CASE Hear(v)
  BY <1>2 DEF Hear, AnswerSave, AnswerDelete, GoOffline
<1>3. QED
  BY <1>1, <1>2

LEMMA ServingKeepsVisits == Serve => UNCHANGED <<screen, waits>>
BY DEF Serve, Check, UpdateExpense, SoftDeleteExpense, Vanish

LEMMA OthersKeepVisits == Others => UNCHANGED <<calls, screen, waits>>
BY DEF Others, UpdateElsewhere, DeleteElsewhere, DeleteCategory

(* A deleted expense stays deleted, by whoever did it.                     *)
LEMMA DeletionStays == [Next]_vars => (IsDeleted => goneBy' = goneBy)
<1> SUFFICES ASSUME [Next]_vars, IsDeleted PROVE goneBy' = goneBy
  OBVIOUS
<1>1. ASSUME NEW v \in Visit, Use(v) \/ Hear(v) PROVE goneBy' = goneBy
  BY <1>1, VisitsKeepStore DEF store
<1>2. CASE Serve
  BY <1>2 DEF Serve, Check, UpdateExpense, SoftDeleteExpense, Vanish, store
<1>3. CASE Others
  BY <1>3 DEF Others, UpdateElsewhere, DeleteElsewhere, DeleteCategory
<1>4. CASE UNCHANGED vars
  BY <1>4 DEF vars, store
<1>5. QED
  BY <1>1, <1>2, <1>3, <1>4 DEF Next

-----------------------------------------------------------------------------
(* A patch of what was typed leaves a row.                                 *)
LEMMA PatchedIsRow ==
  ASSUME NEW c, CallOK(c), CallSends(c), row \in Row
  PROVE  Patched(c.patch) \in Row
<1>1. \A f \in DOMAIN c.patch : f \in Field /\ c.patch[f] \in Stored[f]
  <2>1. c.form \in Form /\ DOMAIN c.patch \subseteq Field
    BY DEF CallOK, CallRecord
  <2>2. \A f \in DOMAIN c.patch : c.patch[f] \in Typable[f]
    BY <2>1 DEF CallSends, Form
  <2>3. QED
    BY <2>1, <2>2, Columns DEF CallSends, Field
<1>2. \A f \in Field : Patched(c.patch)[f] \in Stored[f]
  BY <1>1 DEF Patched, Row
<1>3. QED
  BY <1>2, ColumnsAreTypable DEF Patched, Row

(* Every step keeps the types.                                             *)
LEMMA StoreStaysOK ==
  TypeOK /\ (\A c \in calls : CallHolds(c)) /\ [Next]_vars => StoreOK'
<1> SUFFICES ASSUME TypeOK, \A c \in calls : CallHolds(c), [Next]_vars PROVE StoreOK'
  OBVIOUS
<1> USE BoundAssumption DEF TypeOK, StoreOK
<1>1. ASSUME NEW v \in Visit, Use(v) \/ Hear(v) PROVE StoreOK'
  BY <1>1, VisitsKeepStore DEF store
<1>2. ASSUME NEW c \in calls, UpdateExpense(c) PROVE StoreOK'
  <2>1. Patched(c.patch) \in Row
    BY PatchedIsRow DEF CallHolds
  <2>2. QED
    BY <1>2, <2>1 DEF UpdateExpense
<1>3. ASSUME NEW c \in calls, SoftDeleteExpense(c) PROVE StoreOK'
  BY <1>3 DEF SoftDeleteExpense, CallOK, CallRecord
<1>4. ASSUME NEW c \in calls, Check(c) \/ Vanish(c) PROVE StoreOK'
  BY <1>4 DEF Check, Vanish, store
<1>5. ASSUME NEW r \in Row, UpdateElsewhere(r) PROVE StoreOK'
  BY <1>5 DEF UpdateElsewhere, Meanwhile
<1>6. CASE DeleteElsewhere
  BY <1>6 DEF DeleteElsewhere, Meanwhile
<1>7. ASSUME NEW c \in Category, DeleteCategory(c) PROVE StoreOK'
  BY <1>7 DEF DeleteCategory, Meanwhile
<1>8. CASE UNCHANGED vars
  BY <1>8 DEF vars, store
<1>9. QED
  BY <1>1, <1>2, <1>3, <1>4, <1>5, <1>6, <1>7, <1>8 DEF Next, Serve, Others

LEMMA ScreenStaysOK ==
  TypeOK /\ (\A v \in Visit : Knows(v) /\ FormHolds(v)) /\ (\A c \in calls : CallHolds(c)) /\ [Next]_vars
    => ScreenOK'
<1> SUFFICES ASSUME TypeOK, \A v \in Visit : Knows(v) /\ FormHolds(v),
                    \A c \in calls : CallHolds(c), [Next]_vars
             PROVE  ScreenOK'
  OBVIOUS
<1> USE DEF TypeOK, ScreenOK, load, form
<1>1. ASSUME NEW v \in Visit, NEW notice \in {"deleted", "notFound"}, Leave(v, notice) PROVE ScreenOK'
  BY <1>1 DEF Leave, Unmount, NoAnswer, Answer, Answers
<1>2. ASSUME NEW v \in Visit, NEW r \in Row, Fill(v, r)
      PROVE  /\ expense' \in [Visit -> Row \cup {None}] /\ initial' \in [Visit -> Row \cup {None}]
             /\ fields' \in [Visit -> Form \cup {None}] /\ typed' \in [Visit -> SUBSET Field]
             /\ editing' \in [Visit -> BOOLEAN]
  BY <1>2, RowsAreForms DEF Fill
<1>3. ASSUME NEW v \in Visit, Open(v) PROVE ScreenOK'
  BY <1>3 DEF Open
<1>4. ASSUME NEW v \in Visit, ListCategories(v) PROVE ScreenOK'
  BY <1>4 DEF ListCategories, StoreOK
<1>5. ASSUME NEW v \in Visit, GetExpense(v) PROVE ScreenOK'
  <2>1. {RowOr404, Answer("failed", None)} \subseteq Answers
    BY DEF RowOr404, Answer, Answers, StoreOK
  <2>2. QED
    BY <1>5, <2>1 DEF GetExpense
<1>6. ASSUME NEW v \in Visit, Show(v) PROVE ScreenOK'
  <2>1. CASE got[v].is = "notFound"
    BY <1>1, <1>6, <2>1 DEF Show
  <2>2. CASE got[v].is = "failed"
    BY <1>6, <2>2 DEF Show
  <2>3. CASE got[v].is = "ok"
    <3>1. got[v].row \in Row
      BY <2>3 DEF Knows
    <3>2. Fill(v, got[v].row)
      BY <1>6, <2>3 DEF Show
    <3>3. page' = [page EXCEPT ![v] = "record"] /\ UNCHANGED <<load, offered, confirming, reloads, told>>
      BY <1>6, <2>3 DEF Show
    <3>4. QED
      BY <1>2, <3>1, <3>2, <3>3
  <2>4. QED
    BY <1>6, <2>1, <2>2, <2>3 DEF Show
<1>7. ASSUME NEW v \in Visit, Back(v) PROVE ScreenOK'
  BY <1>7 DEF Back, Unmount, NoAnswer, Answer, Answers
<1>8. ASSUME NEW v \in Visit, Edit(v) PROVE ScreenOK'
  BY <1>8 DEF Edit
<1>9. ASSUME NEW v \in Visit, NEW f \in Field, NEW x \in Value, Change(v, f, x) PROVE ScreenOK'
  <2>1. x \in Typable[f]
    BY <1>9, Columns DEF Change
  <2>2. fields[v] \in Form
    BY <1>9 DEF Change, FormHolds
  <2>3. [fields[v] EXCEPT ![f] = x] \in Form
    BY <2>1, <2>2 DEF Form
  <2>4. fields' = [fields EXCEPT ![v] = [fields[v] EXCEPT ![f] = x]]
    BY <1>9 DEF Change
  <2>5. fields' \in [Visit -> Form \cup {None}]
    BY <2>3, <2>4
  <2>6. QED
    BY <1>9, <2>5 DEF Change
<1>10. ASSUME NEW v \in Visit, Cancel(v) PROVE ScreenOK'
  <2>1. initial[v] \in Form \cup {None}
    BY RowsAreForms
  <2>2. QED
    BY <1>10, <2>1 DEF Cancel
<1>11. ASSUME NEW v \in Visit, Save(v) \/ Remove(v) PROVE ScreenOK'
  BY <1>11 DEF Save, Remove, screen
<1>12. ASSUME NEW v \in Visit, AskDelete(v) \/ CloseDialog(v) PROVE ScreenOK'
  BY <1>12 DEF AskDelete, CloseDialog
<1>13. ASSUME NEW v \in Visit, ReloadCategories(v) PROVE ScreenOK'
  BY <1>13 DEF ReloadCategories, StoreOK
<1>14. ASSUME NEW v \in Visit, NEW c \in calls, AnswerSave(v, c) PROVE ScreenOK'
  <2>1. CASE c.answer.is \in Missing /\ Leave(v, "notFound")
    BY <1>1, <2>1
  <2>2. CASE /\ c.answer.is = "ok" /\ Fill(v, c.answer.row) /\ told' = [told EXCEPT ![v] = "saved"]
             /\ UNCHANGED <<page, load, offered, confirming, reloads>>
    <3>1. c.answer.row \in Row
      BY <1>14, <2>2 DEF CallHolds, AnswerSave, Heard
    <3>2. QED
      BY <1>2, <2>2, <3>1
  <2>3. CASE \/ UNCHANGED <<page, load, offered, form, confirming, reloads, told>>
             \/ /\ reloads' = [reloads EXCEPT ![v] = IF c.answer.is = "badCategory" THEN @ + 1 ELSE @]
                /\ UNCHANGED <<page, load, offered, form, confirming, told>>
    BY <2>3
  <2>4. QED
    BY <1>14, <2>1, <2>2, <2>3 DEF AnswerSave
<1>15. ASSUME NEW v \in Visit, NEW c \in calls, AnswerDelete(v, c) PROVE ScreenOK'
  BY <1>1, <1>15 DEF AnswerDelete
<1>16. ASSUME NEW v \in Visit, NEW c \in calls, GoOffline(v, c) PROVE ScreenOK'
  BY <1>16 DEF GoOffline, screen
<1>17. CASE Serve \/ Others \/ UNCHANGED vars
  BY <1>17, ServingKeepsVisits, OthersKeepVisits DEF screen, vars
<1>18. QED
  BY <1>3, <1>4, <1>5, <1>6, <1>7, <1>8, <1>9, <1>10, <1>11, <1>12, <1>13, <1>14, <1>15, <1>16, <1>17
     DEF Next, Use, Hear

LEMMA WaitsStayOK == TypeOK /\ [Next]_vars => WaitsOK'
<1> SUFFICES ASSUME TypeOK, [Next]_vars PROVE WaitsOK'
  OBVIOUS
<1> USE DEF TypeOK, WaitsOK
<1>1. ASSUME NEW v \in Visit, Save(v) \/ Remove(v) PROVE WaitsOK'
  <2>1. sent' = [sent EXCEPT ![v] = sent[v] + 1] /\ lost' = lost
    BY <1>1 DEF Save, Remove, Send
  <2>2. \/ saving' = [saving EXCEPT ![v] = TRUE] /\ deleting' = deleting
        \/ deleting' = [deleting EXCEPT ![v] = TRUE] /\ saving' = saving
    BY <1>1 DEF Save, Remove
  <2>3. sent[v] + 1 \in Nat
    OBVIOUS
  <2>4. QED
    BY <2>1, <2>2, <2>3
<1>2. ASSUME NEW v \in Visit, Use(v), ~ Save(v), ~ Remove(v) PROVE WaitsOK'
  BY <1>2 DEF Use, Open, ListCategories, GetExpense, Show, Back, Edit, Cancel, Change, AskDelete,
     CloseDialog, ReloadCategories, waits
<1>3. ASSUME NEW v \in Visit, Hear(v) PROVE WaitsOK'
  <2>1. ASSUME NEW c \in calls, AnswerSave(v, c) PROVE WaitsOK'
    BY <2>1 DEF AnswerSave, SaveEnds
  <2>2. ASSUME NEW c \in calls, AnswerDelete(v, c) PROVE WaitsOK'
    BY <2>2 DEF AnswerDelete
  <2>3. ASSUME NEW c \in calls, GoOffline(v, c) PROVE WaitsOK'
    BY <2>3 DEF GoOffline
  <2>4. QED
    BY <1>3, <2>1, <2>2, <2>3 DEF Hear
<1>4. CASE Serve \/ Others \/ UNCHANGED vars
  BY <1>4, ServingKeepsVisits, OthersKeepVisits DEF waits, vars
<1>5. QED
  BY <1>1, <1>2, <1>3, <1>4 DEF Next

(* The number of calls a visit has made never falls.                       *)
LEMMA SentGrows ==
  TypeOK /\ [Next]_vars => \A v \in Visit : sent[v] \in Nat /\ sent'[v] \in Nat /\ sent[v] <= sent'[v]
<1> SUFFICES ASSUME TypeOK, [Next]_vars
             PROVE  \A v \in Visit : sent[v] \in Nat /\ sent'[v] \in Nat /\ sent[v] <= sent'[v]
  OBVIOUS
<1>0. WaitsOK /\ WaitsOK'
  BY WaitsStayOK DEF TypeOK
<1>1. ASSUME NEW v \in Visit, Save(v) \/ Remove(v) PROVE sent' = [sent EXCEPT ![v] = @ + 1]
  BY <1>1 DEF Save, Remove, Send
<1>2. ASSUME NEW v \in Visit, Use(v), ~ Save(v), ~ Remove(v) PROVE sent' = sent
  BY <1>2 DEF Use, Open, ListCategories, GetExpense, Show, Back, Edit, Cancel, Change, AskDelete,
     CloseDialog, ReloadCategories, waits
<1>3. ASSUME NEW v \in Visit, Hear(v) PROVE sent' = sent
  BY <1>3 DEF Hear, AnswerSave, AnswerDelete, GoOffline
<1>4. CASE Serve \/ Others \/ UNCHANGED vars
  BY <1>0, <1>4, ServingKeepsVisits, OthersKeepVisits DEF waits, vars, WaitsOK
<1>5. QED
  BY <1>0, <1>1, <1>2, <1>3, <1>4 DEF Next, WaitsOK

-----------------------------------------------------------------------------
(* What becomes of the calls: a visit that waits for none makes one, and   *)
(* the API or the visit moves one on or is done with it.                   *)
Started(v, c) ==
    /\ c \in CallRecord /\ c.by = v /\ c.no = sent[v] + 1 /\ c.step = "check" /\ c.waits
    /\ c.answer = NoAnswer /\ CallSends(c)
    /\ c.want = "delete" => DOMAIN c.patch = {}

LEMMA SaveStarts ==
  ASSUME TypeOK, NEW v \in Visit, FormHolds(v), Save(v)
  PROVE  \E c : Started(v, c) /\ c.want = "save" /\ calls' = calls \cup {c}
<1> DEFINE p == ChangedFields(initial[v], fields[v])
           c == Call(v, "save", p)
<1> USE DEF TypeOK, ScreenOK, WaitsOK
<1>1. fields[v] \in Form /\ \A f \in Field : fields[v][f] # initial[v][f] => f \in typed[v]
  BY DEF FormHolds, Save
<1>2. /\ DOMAIN p \subseteq Field
      /\ \A f \in DOMAIN p : /\ fields[v][f] # initial[v][f] /\ p[f] = fields[v][f] /\ p[f] \in Value
                             /\ f = "currency" => p[f] # None
  BY <1>1 DEF ChangedFields, Form
<1>3. p \in [DOMAIN p -> Value]
  BY <1>2 DEF ChangedFields
<1>4. p \in UNION {[F -> Value] : F \in SUBSET Field}
  BY <1>2, <1>3
<1> HIDE DEF p
<1>5. c \in CallRecord
  BY <1>1, <1>4 DEF Call, CallRecord, NoAnswer, Answer, Answers
<1>6. CallSends(c)
  BY <1>1, <1>2 DEF Call, CallSends
<1>7. calls' = calls \cup {c}
  BY DEF Save, Send, p
<1>8. QED
  BY <1>5, <1>6, <1>7 DEF Started, Call

LEMMA RemoveStarts ==
  ASSUME TypeOK, NEW v \in Visit, FormHolds(v), Remove(v)
  PROVE  \E c : Started(v, c) /\ c.want = "delete" /\ calls' = calls \cup {c}
<1> DEFINE c == Call(v, "delete", NoPatch)
<1> USE DEF TypeOK, ScreenOK, WaitsOK
<1>1. fields[v] \in Form
  BY DEF FormHolds, Remove
<1>2. NoPatch \in [{} -> Value] /\ DOMAIN NoPatch = {}
  BY DEF NoPatch
<1>3. NoPatch \in UNION {[F -> Value] : F \in SUBSET Field}
  BY <1>2
<1>4. c \in CallRecord
  BY <1>1, <1>3 DEF Call, CallRecord, NoAnswer, Answer, Answers
<1>5. CallSends(c) /\ DOMAIN c.patch = {}
  BY <1>2 DEF Call, CallSends
<1>6. calls' = calls \cup {c}
  BY DEF Remove, Send
<1>7. QED
  BY <1>4, <1>5, <1>6 DEF Started, Call

(* A call is passed on, answered, or no longer waited for.                 *)
Moved(c, d) ==
    \/ d = [c EXCEPT !.step = "write"]
    \/ c.waits /\ \E a \in Answers : d = [c EXCEPT !.step = "answered", !.answer = a]
    \/ d = [c EXCEPT !.waits = FALSE]

LEMMA MovedIsCall ==
  ASSUME NEW c \in CallRecord, NEW d, Moved(c, d)
  PROVE  /\ d \in CallRecord
         /\ d.by = c.by /\ d.no = c.no /\ d.want = c.want /\ d.patch = c.patch
         /\ d.form = c.form /\ d.typed = c.typed /\ (d.waits => c.waits)
BY DEF Moved, CallRecord

LEMMA RepliesMove ==
  ASSUME NEW c, NEW a \in Answers, Reply(c, a)
  PROVE  \/ calls' = calls \ {c}
         \/ \E d : Moved(c, d) /\ calls' = (calls \ {c}) \cup {d}
BY DEF Reply, Moved

(* The answers of the API.                                                 *)
LEMMA ServedAnswers ==
  /\ Answer("invalid", None) \in Answers /\ Answer("badCategory", None) \in Answers
  /\ Answer("notFound", None) \in Answers /\ Answer("ok", None) \in Answers
  /\ \A r \in Row : Answer("ok", r) \in Answers
BY DEF Answer, Answers

CallsGoOn ==
    \/ calls' = calls
    \/ \E c \in calls : calls' = calls \ {c}
    \/ \E c \in calls : \E d : Moved(c, d) /\ calls' = (calls \ {c}) \cup {d}
    \/ \E v \in Visit : \E c :
          /\ Started(v, c) /\ calls' = calls \cup {c} /\ sent' = [sent EXCEPT ![v] = @ + 1]
          /\ ~ saving[v] /\ ~ deleting[v] /\ page[v] = "record"

LEMMA CallsStep == DetailInv /\ [Next]_vars => CallsGoOn
<1> SUFFICES ASSUME DetailInv, [Next]_vars PROVE CallsGoOn
  OBVIOUS
<1> USE DEF DetailInv, CallsGoOn
<1>1. ASSUME NEW v \in Visit, Save(v) PROVE CallsGoOn
  <2>1. sent' = [sent EXCEPT ![v] = @ + 1]
    BY <1>1 DEF Save, Send
  <2>2. ~ saving[v] /\ ~ deleting[v] /\ page[v] = "record"
    BY <1>1 DEF Save, WaitHolds, FormHolds
  <2>3. QED
    BY <1>1, <2>1, <2>2, SaveStarts
<1>2. ASSUME NEW v \in Visit, Remove(v) PROVE CallsGoOn
  <2>1. sent' = [sent EXCEPT ![v] = @ + 1]
    BY <1>2 DEF Remove, Send
  <2>2. ~ saving[v] /\ ~ deleting[v] /\ page[v] = "record"
    BY <1>2 DEF Remove, MayRemove, WaitHolds, FormHolds
  <2>3. QED
    BY <1>2, <2>1, <2>2, RemoveStarts
<1>3. ASSUME NEW v \in Visit, Use(v), ~ Save(v), ~ Remove(v) PROVE CallsGoOn
  BY <1>3 DEF Use, Open, ListCategories, GetExpense, Show, Back, Edit, Cancel, Change, AskDelete,
     CloseDialog, ReloadCategories
<1>4. ASSUME NEW v \in Visit, NEW c \in calls, AnswerSave(v, c) \/ AnswerDelete(v, c) PROVE CallsGoOn
  BY <1>4 DEF AnswerSave, AnswerDelete
<1>5. ASSUME NEW v \in Visit, NEW c \in calls, GoOffline(v, c) PROVE CallsGoOn
  <2>1. CASE c.step = "answered"
    <3>1. calls' = calls \ {c}
      BY <1>5, <2>1 DEF GoOffline
    <3>2. QED
      BY <3>1
  <2>2. CASE c.step # "answered"
    <3>1. calls' = (calls \ {c}) \cup {[c EXCEPT !.waits = FALSE]}
      BY <1>5, <2>2 DEF GoOffline
    <3>2. QED
      BY <3>1 DEF Moved
  <2>3. QED
    BY <2>1, <2>2
<1>6. ASSUME NEW c \in calls, Check(c) PROVE CallsGoOn
  <2>1. CASE Goto(c, "write")
    BY <2>1 DEF Goto, Moved
  <2>2. CASE Reply(c, Answer("invalid", None)) \/ Reply(c, Answer("badCategory", None))
    BY <2>2, RepliesMove, ServedAnswers
  <2>3. QED
    BY <1>6, <2>1, <2>2 DEF Check
<1>7. ASSUME NEW c \in calls, UpdateExpense(c) PROVE CallsGoOn
  <2>1. row' \in Row
    BY StoreStaysOK DEF StoreOK
  <2>2. \E a \in Answers : Reply(c, a)
    BY <1>7, <2>1, ServedAnswers DEF UpdateExpense
  <2>3. QED
    BY <2>2, RepliesMove
<1>8. ASSUME NEW c \in calls, SoftDeleteExpense(c) PROVE CallsGoOn
  <2>1. \E a \in Answers : Reply(c, a)
    BY <1>8, ServedAnswers DEF SoftDeleteExpense
  <2>2. QED
    BY <2>1, RepliesMove
<1>9. ASSUME NEW c \in calls, Vanish(c) PROVE CallsGoOn
  BY <1>9 DEF Vanish
<1>10. CASE Others \/ UNCHANGED vars
  BY <1>10, OthersKeepVisits DEF vars
<1>11. QED
  BY <1>1, <1>2, <1>3, <1>4, <1>5, <1>6, <1>7, <1>8, <1>9, <1>10 DEF Next, Hear, Serve

LEMMA CallsStayOK == DetailInv /\ [Next]_vars => \A c \in calls' : CallOK(c)'
<1> SUFFICES ASSUME DetailInv, [Next]_vars, NEW d \in calls' PROVE CallOK(d)'
  OBVIOUS
<1>1. \A v \in Visit : sent[v] \in Nat /\ sent'[v] \in Nat /\ sent[v] <= sent'[v]
  BY SentGrows DEF DetailInv
<1>2. \A c \in calls : c \in CallRecord /\ c.by \in Visit /\ c.no \in 1..sent'[c.by]
  BY <1>1 DEF DetailInv, TypeOK, CallOK, CallRecord
<1>3. CASE d \in calls
  BY <1>2, <1>3 DEF CallOK
<1>4. CASE \E c \in calls : Moved(c, d)
  BY <1>2, <1>4, MovedIsCall DEF CallOK
<1>5. ASSUME NEW v \in Visit, Started(v, d), sent' = [sent EXCEPT ![v] = @ + 1] PROVE CallOK(d)'
  <2>1. sent'[v] = sent[v] + 1 /\ sent[v] \in Nat
    BY <1>1, <1>5 DEF DetailInv, TypeOK, WaitsOK
  <2>2. QED
    BY <1>5, <2>1 DEF Started, CallOK
<1>6. QED
  BY <1>3, <1>4, <1>5, CallsStep DEF CallsGoOn

LEMMA TypesStay == DetailInv /\ [Next]_vars => TypeOK'
BY StoreStaysOK, ScreenStaysOK, WaitsStayOK, CallsStayOK DEF DetailInv, TypeOK
-----------------------------------------------------------------------------
(* A visit never waits for two calls.                                      *)
OneWaits(v) == \A c, d \in calls : (c.by = v /\ d.by = v /\ c.waits /\ d.waits) => c = d

LEMMA OneStaysOne == DetailInv /\ [Next]_vars => \A v \in Visit : OneWaits(v)'
<1> SUFFICES ASSUME DetailInv, [Next]_vars, NEW v \in Visit PROVE OneWaits(v)'
  OBVIOUS
<1>1. OneWaits(v) /\ \A c \in calls : c \in CallRecord
  BY DEF DetailInv, WaitHolds, OneWaits, TypeOK, CallOK
<1>2. CASE calls' = calls \/ \E c \in calls : calls' = calls \ {c}
  BY <1>1, <1>2 DEF OneWaits
<1>3. ASSUME NEW c \in calls, NEW d, Moved(c, d), calls' = (calls \ {c}) \cup {d} PROVE OneWaits(v)'
  <2>1. d.by = c.by /\ (d.waits => c.waits)
    BY <1>1, <1>3, MovedIsCall
  <2>2. QED
    BY <1>1, <1>3, <2>1 DEF OneWaits
<1>4. ASSUME NEW u \in Visit, NEW c, Started(u, c), calls' = calls \cup {c}, ~ saving[u], ~ deleting[u]
      PROVE  OneWaits(v)'
  <2>1. c.by = u
    BY <1>4 DEF Started
  <2>2. \A d \in calls : d.by = u => ~ d.waits
    BY <1>4 DEF DetailInv, CallHolds
  <2>3. QED
    BY <1>1, <1>4, <2>1, <2>2 DEF OneWaits
<1>5. QED
  BY <1>2, <1>3, <1>4, CallsStep DEF CallsGoOn

(* What is so of a call stays so while others are served.                  *)
LEMMA OtherCallsHold ==
  ASSUME NEW d \in calls, TypeOK, CallHolds(d),
         d.waits => (saving[d.by] => saving'[d.by]) /\ (deleting[d.by] => deleting'[d.by]),
         lost[d.by] => lost'[d.by],
         IsDeleted => goneBy' = goneBy
  PROVE  CallHolds(d)'
<1>1. d.by \in Visit /\ d.by # None
  BY BlankAssumption DEF TypeOK, CallOK, CallRecord
<1>2. d.answer.is = "notFound" => IsDeleted /\ goneBy' = goneBy
  BY DEF CallHolds
<1>3. d.answer.is = "ok" /\ d.want # "save" => goneBy' = goneBy /\ goneBy = d.by
  BY <1>1 DEF CallHolds, IsDeleted
<1>4. CallSends(d)'
  BY DEF CallHolds, CallSends
<1>5. (d.waits => IF d.want = "save" THEN saving[d.by] ELSE deleting[d.by])'
  BY DEF CallHolds
<1>6. QED
  BY <1>2, <1>3, <1>4, <1>5 DEF CallHolds, IsDeleted

(* What is so of a call when it is made.                                   *)
LEMMA CallsThatStart ==
  ASSUME NEW v \in Visit, NEW c, Started(v, c), IF c.want = "save" THEN saving'[v] ELSE deleting'[v],
         c.want \in {"save", "delete"}
  PROVE  CallHolds(c)'
BY DEF Started, CallHolds, NoAnswer, Answer, CallSends

LEMMA VisitsKeepCallsTrue ==
  ASSUME DetailInv, NEW v \in Visit, Use(v) \/ Hear(v)
  PROVE  \A d \in calls' : CallHolds(d)'
<1> USE DEF DetailInv
<1>1. goneBy' = goneBy
  BY VisitsKeepStore DEF store
<1>2. ASSUME NEW d \in calls, d.waits => saving' = saving /\ deleting' = deleting, lost' = lost
      PROVE  CallHolds(d)'
  BY <1>1, <1>2, OtherCallsHold
<1>3. CASE Save(v)
  <2>1. PICK c : Started(v, c) /\ c.want = "save" /\ calls' = calls \cup {c}
    BY <1>3, SaveStarts
  <2>2. saving' = [saving EXCEPT ![v] = TRUE] /\ UNCHANGED <<deleting, lost>>
    BY <1>3 DEF Save
  <2>3. saving'[v] /\ \A u \in Visit : saving[u] => saving'[u]
    BY <2>2 DEF TypeOK, WaitsOK
  <2>4. CallHolds(c)'
    BY <2>1, <2>3, CallsThatStart
  <2>5. ASSUME NEW d \in calls PROVE CallHolds(d)'
    <3>1. d.by \in Visit
      BY DEF TypeOK, CallOK, CallRecord
    <3>2. QED
      BY <1>1, <2>2, <2>3, <3>1, OtherCallsHold
  <2>6. QED
    BY <2>1, <2>4, <2>5
<1>4. CASE Remove(v)
  <2>1. PICK c : Started(v, c) /\ c.want = "delete" /\ calls' = calls \cup {c}
    BY <1>4, RemoveStarts
  <2>2. deleting' = [deleting EXCEPT ![v] = TRUE] /\ UNCHANGED <<saving, lost>>
    BY <1>4 DEF Remove
  <2>3. deleting'[v] /\ \A u \in Visit : deleting[u] => deleting'[u]
    BY <2>2 DEF TypeOK, WaitsOK
  <2>4. CallHolds(c)'
    BY <2>1, <2>3, CallsThatStart
  <2>5. ASSUME NEW d \in calls PROVE CallHolds(d)'
    <3>1. d.by \in Visit
      BY DEF TypeOK, CallOK, CallRecord
    <3>2. QED
      BY <1>1, <2>2, <2>3, <3>1, OtherCallsHold
  <2>6. QED
    BY <2>1, <2>4, <2>5
<1>5. CASE Use(v) /\ ~ Save(v) /\ ~ Remove(v)
  <2>1. UNCHANGED <<calls, saving, deleting, lost>>
    BY <1>5 DEF Use, Open, ListCategories, GetExpense, Show, Back, Edit, Cancel, Change, AskDelete,
       CloseDialog, ReloadCategories, waits
  <2>2. QED
    BY <1>2, <2>1
<1>6. ASSUME NEW c \in calls, AnswerSave(v, c) \/ AnswerDelete(v, c) PROVE \A d \in calls' : CallHolds(d)'
  <2>1. calls' = calls \ {c} /\ lost' = lost /\ c.by = v /\ c.waits
    BY <1>6 DEF AnswerSave, AnswerDelete, Heard
  <2>2. \A u \in Visit \ {v} : saving'[u] = saving[u] /\ deleting'[u] = deleting[u]
    <3>1. /\ saving' = saving \/ saving' = [saving EXCEPT ![v] = FALSE]
          /\ deleting' = deleting \/ deleting' = [deleting EXCEPT ![v] = FALSE]
      BY <1>6 DEF AnswerSave, SaveEnds, AnswerDelete
    <3>2. QED
      BY <3>1 DEF TypeOK, WaitsOK
  <2>3. ASSUME NEW d \in calls' PROVE CallHolds(d)'
    <3>1. d \in calls /\ d.by \in Visit /\ (d.waits => d.by # v)
      BY <2>1, <2>3 DEF WaitHolds, TypeOK, CallOK, CallRecord
    <3>2. QED
      BY <1>1, <2>1, <2>2, <3>1, OtherCallsHold
  <2>4. QED
    BY <2>3
<1>7. ASSUME NEW c \in calls, GoOffline(v, c) PROVE \A d \in calls' : CallHolds(d)'
  <2>1. c.by = v /\ c.waits /\ c \in CallRecord
    BY <1>7 DEF GoOffline, TypeOK, CallOK
  <2>2. /\ \A u \in Visit \ {v} : saving'[u] = saving[u] /\ deleting'[u] = deleting[u]
        /\ \A u \in Visit : lost[u] => lost'[u]
        /\ c.want # "save" => lost'[v]
    <3>1. CASE c.want = "save"
      BY <1>7, <3>1 DEF GoOffline, TypeOK, WaitsOK
    <3>2. CASE c.want # "save"
      BY <1>7, <3>2 DEF GoOffline, TypeOK, WaitsOK
    <3>3. QED
      BY <3>1, <3>2
  <2>3. ASSUME NEW d \in calls, d # c PROVE CallHolds(d)'
    <3>1. d.by \in Visit /\ (d.waits => d.by # v)
      BY <2>1, <2>3 DEF WaitHolds, TypeOK, CallOK, CallRecord
    <3>2. QED
      BY <1>1, <2>2, <3>1, OtherCallsHold
  <2>4. CASE c.step = "answered"
    <3>1. calls' = calls \ {c}
      BY <1>7, <2>4 DEF GoOffline
    <3>2. QED
      BY <2>3, <3>1
  <2>5. CASE c.step # "answered"
    <3>1. PICK d : d = [c EXCEPT !.waits = FALSE] /\ calls' = (calls \ {c}) \cup {d}
      BY <1>7, <2>5 DEF GoOffline
    <3>2. /\ d.by = c.by /\ d.want = c.want /\ d.patch = c.patch /\ d.form = c.form
          /\ d.typed = c.typed /\ d.step = c.step /\ d.answer = c.answer /\ ~ d.waits
      BY <2>1, <3>1 DEF CallRecord
    <3>3. CallHolds(c) /\ c.answer.is = "nothing"
      BY <2>5 DEF CallHolds, NoAnswer, Answer
    <3>4. CallSends(d)'
      BY <3>2, <3>3 DEF CallHolds, CallSends
    <3>5. d.want = "delete" => DOMAIN d.patch = {} /\ lost'[d.by]
      BY <2>1, <2>2, <3>2, <3>3 DEF CallHolds
    <3>6. CallHolds(d)'
      BY <2>5, <3>2, <3>3, <3>4, <3>5 DEF CallHolds
    <3>7. QED
      BY <2>3, <3>1, <3>6
  <2>6. QED
    BY <2>4, <2>5
<1>8. QED
  BY <1>3, <1>4, <1>5, <1>6, <1>7 DEF Hear
(* A visit that waits, though it has deleted the expense, was not answered *)
(* when it did.                                                            *)
LEMMA UnansweredIsLost ==
  ASSUME DetailInv, NEW c \in calls, c.waits, c.step # "answered", goneBy = c.by
  PROVE  lost[c.by]
<1> DEFINE v == c.by
<1>1. v \in Visit
  BY DEF DetailInv, TypeOK, CallOK, CallRecord
<1>2. told[v] # "deleted"
  BY <1>1 DEF DetailInv, Knows
<1>3. \A d \in calls : ~ Heard(v, d, "delete")
  BY <1>1 DEF DetailInv, WaitHolds, Heard
<1>4. QED
  BY <1>1, <1>2, <1>3 DEF DetailInv, Knows

(* What is so of a call once it is answered.                               *)
LEMMA AnsweredHolds ==
  ASSUME NEW c \in CallRecord, CallHolds(c), c.waits, UNCHANGED waits, NEW a \in Answers, NEW d,
         d = [c EXCEPT !.step = "answered", !.answer = a],
         c.want = "delete" => a.is \in {"ok", "notFound"},
         a.is = "ok" => IF c.want = "save" THEN a.row \in Row ELSE goneBy' = c.by,
         a.is = "notFound" => goneBy' # None /\ (goneBy' = c.by => lost[c.by])
  PROVE  CallHolds(d)'
<1>1. /\ d.by = c.by /\ d.want = c.want /\ d.patch = c.patch /\ d.form = c.form /\ d.typed = c.typed
      /\ d.step = "answered" /\ d.answer = a /\ d.waits
  BY DEF CallRecord
<1>2. CallSends(d)'
  BY <1>1 DEF CallHolds, CallSends
<1>3. (IF d.want = "save" THEN saving[d.by] ELSE deleting[d.by])'
  BY <1>1 DEF CallHolds, waits
<1>4. d.want = "delete" => DOMAIN d.patch = {} /\ d.waits
  BY <1>1 DEF CallHolds
<1>5. lost' = lost
  BY DEF waits
<1>6. QED
  BY <1>1, <1>2, <1>3, <1>4, <1>5 DEF CallHolds, IsDeleted

LEMMA ServingKeepsCallsTrue ==
  ASSUME DetailInv, Serve
  PROVE  \A d \in calls' : CallHolds(d)'
<1> USE DEF DetailInv
<1>1. UNCHANGED waits /\ (IsDeleted => goneBy' = goneBy) /\ UNCHANGED <<saving, deleting, lost>>
  BY ServingKeepsVisits, DeletionStays DEF waits, Next
<1>2. \A d \in calls : CallHolds(d)'
  BY <1>1, OtherCallsHold
<1>3. \A c \in calls : c \in CallRecord /\ c.by \in Visit
  BY DEF TypeOK, CallOK, CallRecord
<1>4. ASSUME NEW c \in calls, NEW a \in Answers, Reply(c, a),
             c.want = "delete" => a.is \in {"ok", "notFound"},
             a.is = "ok" => IF c.want = "save" THEN a.row \in Row ELSE goneBy' = c.by,
             c.waits /\ a.is = "notFound" => goneBy' # None /\ (goneBy' = c.by => lost[c.by])
      PROVE  \A d \in calls' : CallHolds(d)'
  <2>1. CASE c.waits
    <3>1. PICK d : d = [c EXCEPT !.step = "answered", !.answer = a] /\ calls' = (calls \ {c}) \cup {d}
      BY <1>4, <2>1 DEF Reply
    <3>2. CallHolds(d)'
      BY <1>1, <1>3, <1>4, <2>1, <3>1, AnsweredHolds
    <3>3. QED
      BY <1>2, <3>1, <3>2
  <2>2. CASE ~ c.waits
    BY <1>2, <1>4, <2>2 DEF Reply
  <2>3. QED
    BY <2>1, <2>2
<1>5. ASSUME NEW c \in calls, c.waits, c.step # "answered", IsDeleted
      PROVE  goneBy' # None /\ (goneBy' = c.by => lost[c.by])
  BY <1>1, <1>5, UnansweredIsLost DEF IsDeleted
<1>6. ASSUME NEW c \in calls, Check(c) PROVE \A d \in calls' : CallHolds(d)'
  <2>1. CASE Goto(c, "write")
    <3>1. PICK d : d = [c EXCEPT !.step = "write"] /\ calls' = (calls \ {c}) \cup {d}
      BY <2>1 DEF Goto
    <3>2. /\ d.by = c.by /\ d.want = c.want /\ d.patch = c.patch /\ d.form = c.form
          /\ d.typed = c.typed /\ d.step = "write" /\ d.answer = c.answer /\ d.waits = c.waits
      BY <1>3, <3>1 DEF CallRecord
    <3>3. c.step = "check" /\ CallHolds(c)'
      BY <1>2, <1>6 DEF Check
    <3>4. c.answer = NoAnswer
      BY <3>3 DEF CallHolds
    <3>5. CallSends(d)'
      BY <3>2, <3>3 DEF CallHolds, CallSends
    <3>6. CallHolds(d)'
      BY <3>2, <3>3, <3>4, <3>5 DEF CallHolds, NoAnswer, Answer
    <3>7. QED
      BY <1>2, <3>1, <3>6
  <2>2. ASSUME NEW e \in {"invalid", "badCategory"}, Reply(c, Answer(e, None)), c.want = "save"
        PROVE  \A d \in calls' : CallHolds(d)'
    <3>1. PICK a \in Answers : a = Answer(e, None)
      BY ServedAnswers
    <3>2. a.is = e
      BY <3>1 DEF Answer
    <3>3. QED
      BY <1>4, <2>2, <3>1, <3>2
  <2>3. BadReference(c.patch) => c.want = "save"
    BY <1>3 DEF BadReference, CallHolds, CallRecord
  <2>4. QED
    BY <1>6, <2>1, <2>2, <2>3 DEF Check
<1>7. ASSUME NEW c \in calls, UpdateExpense(c) PROVE \A d \in calls' : CallHolds(d)'
  <2>1. c.want = "save" /\ c.step # "answered" /\ goneBy' = goneBy
    BY <1>7 DEF UpdateExpense
  <2>2. CASE IsDeleted
    <3>1. PICK a \in Answers : a = Answer("notFound", None)
      BY ServedAnswers
    <3>2. a.is = "notFound" /\ Reply(c, a)
      BY <1>7, <2>2, <3>1 DEF UpdateExpense, Answer
    <3>3. QED
      BY <1>4, <1>5, <2>1, <2>2, <3>2
  <2>3. CASE ~ IsDeleted
    <3>1. row' \in Row
      BY StoreStaysOK, <1>7 DEF StoreOK, Next, Serve
    <3>2. PICK a \in Answers : a = Answer("ok", row')
      BY <3>1, ServedAnswers
    <3>3. a.is = "ok" /\ a.row \in Row /\ Reply(c, a)
      BY <1>7, <2>3, <3>1, <3>2 DEF UpdateExpense, Answer
    <3>4. QED
      BY <1>4, <2>1, <3>3
  <2>4. QED
    BY <2>2, <2>3
<1>8. ASSUME NEW c \in calls, SoftDeleteExpense(c) PROVE \A d \in calls' : CallHolds(d)'
  <2>1. c.want = "delete" /\ c.step # "answered"
    BY <1>8 DEF SoftDeleteExpense
  <2>2. CASE IsDeleted
    <3>1. PICK a \in Answers : a = Answer("notFound", None)
      BY ServedAnswers
    <3>2. a.is = "notFound" /\ Reply(c, a)
      BY <1>8, <2>2, <3>1 DEF SoftDeleteExpense, Answer
    <3>3. QED
      BY <1>4, <1>5, <2>1, <2>2, <3>2
  <2>3. CASE ~ IsDeleted
    <3>1. PICK a \in Answers : a = Answer("ok", None)
      BY ServedAnswers
    <3>2. a.is = "ok" /\ Reply(c, a) /\ goneBy' = c.by
      BY <1>8, <2>3, <3>1 DEF SoftDeleteExpense, Answer
    <3>3. QED
      BY <1>4, <2>1, <3>2
  <2>4. QED
    BY <2>2, <2>3
<1>9. ASSUME NEW c \in calls, Vanish(c) PROVE \A d \in calls' : CallHolds(d)'
  BY <1>2, <1>9 DEF Vanish
<1>10. QED
  BY <1>6, <1>7, <1>8, <1>9 DEF Serve

LEMMA CallsStayTrue == DetailInv /\ [Next]_vars => \A d \in calls' : CallHolds(d)'
<1> SUFFICES ASSUME DetailInv, [Next]_vars PROVE \A d \in calls' : CallHolds(d)'
  OBVIOUS
<1>1. CASE Others \/ UNCHANGED vars
  <2>1. UNCHANGED <<calls, saving, deleting, lost>> /\ (IsDeleted => goneBy' = goneBy)
    BY <1>1, OthersKeepVisits, DeletionStays DEF vars, waits
  <2>2. QED
    BY <2>1, OtherCallsHold DEF DetailInv
<1>2. QED
  BY <1>1, VisitsKeepCallsTrue, ServingKeepsCallsTrue DEF Next

-----------------------------------------------------------------------------
(* The form stays open on what the server last confirmed.                  *)
LEMMA FormsStay == DetailInv /\ [Next]_vars => \A u \in Visit : FormHolds(u)'
<1> SUFFICES ASSUME DetailInv, [Next]_vars, NEW u \in Visit PROVE FormHolds(u)'
  OBVIOUS
<1>0. TypeOK /\ FormHolds(u) /\ \A v \in Visit : WaitHolds(v)
  BY DEF DetailInv
<1> USE <1>0 DEF TypeOK, ScreenOK, load, form
<1>a. ASSUME NEW v \in Visit, Unmount(v) PROVE FormHolds(u)'
  BY <1>a DEF Unmount, FormHolds
<1>b. ASSUME NEW v \in Visit, NEW r \in Row, Fill(v, r), UNCHANGED <<confirming, reloads>>,
             page' = [page EXCEPT ![v] = "record"]
      PROVE  FormHolds(u)'
  <2>1. CASE u = v
    <3>1. /\ page'[u] = "record" /\ expense'[u] = r /\ initial'[u] = r /\ fields'[u] = r /\ typed'[u] = {}
          /\ editing'[u] = FALSE
      BY <1>b, <2>1 DEF Fill
    <3>2. r # None
      BY RowsAreForms
    <3>3. QED
      BY <3>1, <3>2 DEF FormHolds
  <2>2. CASE u # v
    BY <1>b, <2>2 DEF Fill, FormHolds
  <2>3. QED
    BY <2>1, <2>2
<1>1. ASSUME NEW v \in Visit, Open(v) \/ ListCategories(v) \/ GetExpense(v) PROVE FormHolds(u)'
  BY <1>1 DEF Open, ListCategories, GetExpense, FormHolds
<1>2. ASSUME NEW v \in Visit, Show(v) PROVE FormHolds(u)'
  <2>1. CASE got[v].is = "ok"
    <3>1. got[v].row \in Row
      BY <2>1 DEF DetailInv, Knows
    <3>2. QED
      BY <1>2, <1>b, <2>1, <3>1 DEF Show
  <2>2. CASE got[v].is # "ok"
    BY <1>2, <1>a, <2>2 DEF Show, Leave, FormHolds
  <2>3. QED
    BY <2>1, <2>2
<1>3. ASSUME NEW v \in Visit, Back(v) PROVE FormHolds(u)'
  BY <1>3, <1>a DEF Back
<1>4. ASSUME NEW v \in Visit, Edit(v) PROVE FormHolds(u)'
  BY <1>4 DEF Edit, Summary, FormHolds
<1>5. ASSUME NEW v \in Visit, NEW f \in Field, NEW x \in Value, Change(v, f, x) PROVE FormHolds(u)'
  <2>1. CASE u = v
    <3>1. fields[v] \in Form
      BY <1>5 DEF Change, FormHolds, DetailInv
    <3>2. fields'[v] = [fields[v] EXCEPT ![f] = x] /\ typed'[v] = typed[v] \cup {f}
      BY <1>5 DEF Change
    <3>3. \A g \in Field : fields'[v][g] # initial[v][g] => g \in typed'[v]
      BY <1>5, <2>1, <3>1, <3>2 DEF FormHolds, Form, Change
    <3>4. [fields[v] EXCEPT ![f] = x] \in Form
      <4>1. x \in Typable[f]
        BY <1>5, Columns DEF Change
      <4>2. QED
        BY <3>1, <4>1 DEF Form
    <3>5. fields'[v] # None
      BY <3>2, <3>4, RowsAreForms
    <3>6. UNCHANGED <<page, expense, initial, editing, confirming, reloads>> /\ editing[v]
      BY <1>5 DEF Change
    <3>7. QED
      BY <2>1, <3>3, <3>5, <3>6 DEF FormHolds
  <2>2. CASE u # v
    BY <1>5, <2>2 DEF Change, FormHolds
  <2>3. QED
    BY <2>1, <2>2
<1>6. ASSUME NEW v \in Visit, Cancel(v) PROVE FormHolds(u)'
  <2>1. CASE u = v
    <3>1. fields'[v] = initial[v] /\ ~ editing'[v] /\ typed'[v] = {}
      BY <1>6 DEF Cancel
    <3>2. QED
      BY <1>6, <2>1, <3>1 DEF Cancel, FormHolds
  <2>2. CASE u # v
    BY <1>6, <2>2 DEF Cancel, FormHolds
  <2>3. QED
    BY <2>1, <2>2
<1>7. ASSUME NEW v \in Visit, Save(v) \/ Remove(v) PROVE FormHolds(u)'
  BY <1>7 DEF Save, Remove, screen, FormHolds
<1>8. ASSUME NEW v \in Visit, AskDelete(v) \/ CloseDialog(v) PROVE FormHolds(u)'
  BY <1>8 DEF AskDelete, CloseDialog, Summary, FormHolds
<1>9. ASSUME NEW v \in Visit, ReloadCategories(v) PROVE FormHolds(u)'
  BY <1>9 DEF ReloadCategories, FormHolds
<1>10. ASSUME NEW v \in Visit, NEW c \in calls, AnswerSave(v, c) PROVE FormHolds(u)'
  <2>1. CASE Unmount(v)
    BY <1>a, <2>1
  <2>2. CASE c.answer.is = "ok" /\ page[v] = "record" /\ Fill(v, c.answer.row)
             /\ UNCHANGED <<page, confirming, reloads>>
    <3>1. c.answer.row \in Row
      BY <1>10, <2>2 DEF DetailInv, CallHolds, AnswerSave, Heard
    <3>2. page' = [page EXCEPT ![v] = "record"]
      BY <2>2
    <3>3. QED
      BY <1>b, <2>2, <3>1, <3>2
  <2>3. CASE /\ page[v] = "record" /\ UNCHANGED <<page, form, confirming>>
             /\ reloads' = [reloads EXCEPT ![v] = IF c.answer.is = "badCategory" THEN @ + 1 ELSE @]
    BY <2>3 DEF FormHolds
  <2>4. CASE UNCHANGED <<page, form, confirming, reloads>>
    BY <2>4 DEF FormHolds
  <2>5. QED
    BY <1>10, <2>1, <2>2, <2>3, <2>4 DEF AnswerSave, Leave
<1>11. ASSUME NEW v \in Visit, NEW c \in calls, AnswerDelete(v, c) \/ GoOffline(v, c) PROVE FormHolds(u)'
  BY <1>11, <1>a DEF AnswerDelete, Leave, GoOffline, screen, FormHolds
<1>12. CASE Serve \/ Others \/ UNCHANGED vars
  BY <1>12, ServingKeepsVisits, OthersKeepVisits DEF screen, vars, FormHolds
<1>13. QED
  BY <1>1, <1>2, <1>3, <1>4, <1>5, <1>6, <1>7, <1>8, <1>9, <1>10, <1>11, <1>12 DEF Next, Use, Hear
-----------------------------------------------------------------------------
(* What a visit waits for comes from its form or its dialog.               *)
LEMMA WaitsStay == DetailInv /\ [Next]_vars => \A u \in Visit : WaitHolds(u)'
<1> SUFFICES ASSUME DetailInv, [Next]_vars, NEW u \in Visit PROVE WaitHolds(u)'
  OBVIOUS
<1> DEFINE Rests(v) ==
      /\ page[v] \in {"closed", "loading", "failed"} =>
            sent[v] = 0 /\ goneBy # v /\ ~ saving[v] /\ ~ deleting[v] /\ told[v] = "nothing"
      /\ saving[v] => editing[v] \/ page[v] = "left"
      /\ deleting[v] => confirming[v] \/ page[v] = "left"
      /\ ~ (saving[v] /\ deleting[v])
<1>0. TypeOK /\ \A v \in Visit : FormHolds(v) /\ WaitHolds(v)
  BY DEF DetailInv
<1> SUFFICES Rests(u)'
  BY OneStaysOne DEF WaitHolds, OneWaits
<1>r. \A v \in Visit : Rests(v)
  BY <1>0 DEF WaitHolds
<1>s. \A c \in calls : sent[c.by] # 0 /\ c.by \in Visit
  BY <1>0 DEF TypeOK, CallOK, CallRecord, WaitsOK
<1>c. \A c \in calls : page[c.by] \in {"record", "left"}
  BY <1>0, <1>r, <1>s DEF TypeOK, ScreenOK
<1> USE <1>0 DEF TypeOK, ScreenOK, WaitsOK, load, form
<1>1. ASSUME NEW v \in Visit, Open(v) \/ ListCategories(v) \/ GetExpense(v) PROVE Rests(u)'
  BY <1>1, <1>r DEF Open, ListCategories, GetExpense, store, waits
<1>2. ASSUME NEW v \in Visit, Show(v) PROVE Rests(u)'
  BY <1>2, <1>r DEF Show, Leave, Unmount, Fill, store, waits
<1>3. ASSUME NEW v \in Visit, Back(v) PROVE Rests(u)'
  BY <1>3, <1>r DEF Back, Unmount, store, waits
<1>4. ASSUME NEW v \in Visit, Edit(v) PROVE Rests(u)'
  BY <1>4, <1>r DEF Edit, Summary, store, waits
<1>5. ASSUME NEW v \in Visit, NEW f \in Field, NEW x \in Value, Change(v, f, x) PROVE Rests(u)'
  BY <1>5, <1>r DEF Change, store, waits
<1>6. ASSUME NEW v \in Visit, Cancel(v) PROVE Rests(u)'
  BY <1>6, <1>r DEF Cancel, store, waits
<1>7. ASSUME NEW v \in Visit, Save(v) PROVE Rests(u)'
  <2>1. /\ page[v] = "record" /\ editing[v] /\ saving' = [saving EXCEPT ![v] = TRUE]
        /\ UNCHANGED <<page, editing, confirming, told, goneBy, deleting>>
        /\ sent' = [sent EXCEPT ![v] = @ + 1]
    BY <1>7 DEF Save, Send, screen, store
  <2>2. ~ confirming[v] /\ ~ deleting[v]
    BY <1>r, <2>1 DEF FormHolds
  <2>3. QED
    BY <1>r, <2>1, <2>2
<1>8. ASSUME NEW v \in Visit, Remove(v) PROVE Rests(u)'
  <2>1. /\ confirming[v] /\ deleting' = [deleting EXCEPT ![v] = TRUE]
        /\ UNCHANGED <<page, editing, confirming, told, goneBy, saving>>
        /\ sent' = [sent EXCEPT ![v] = @ + 1]
    BY <1>8 DEF Remove, Send, screen, store
  <2>2. ~ editing[v] /\ page[v] = "record" /\ ~ saving[v]
    BY <1>r, <2>1 DEF FormHolds
  <2>3. QED
    BY <1>r, <2>1, <2>2
<1>9. ASSUME NEW v \in Visit, AskDelete(v) \/ CloseDialog(v) PROVE Rests(u)'
  BY <1>9, <1>r DEF AskDelete, CloseDialog, Summary, store, waits
<1>10. ASSUME NEW v \in Visit, ReloadCategories(v) PROVE Rests(u)'
  BY <1>10, <1>r DEF ReloadCategories, store, waits
<1>11. ASSUME NEW v \in Visit, NEW c \in calls, AnswerSave(v, c) PROVE Rests(u)'
  <2>1. page[v] \in {"record", "left"} /\ saving' = [saving EXCEPT ![v] = FALSE]
        /\ UNCHANGED <<goneBy, deleting, sent>>
    BY <1>11, <1>c DEF AnswerSave, Heard, SaveEnds, store
  <2>2. CASE Leave(v, "notFound")
    BY <1>r, <2>1, <2>2 DEF Leave, Unmount
  <2>3. CASE page[v] = "record" /\ Fill(v, c.answer.row) /\ told' = [told EXCEPT ![v] = "saved"]
             /\ UNCHANGED <<page, confirming>>
    BY <1>r, <2>1, <2>3 DEF Fill
  <2>4. CASE UNCHANGED <<page, form, confirming, told>>
    BY <1>r, <2>1, <2>4
  <2>5. QED
    BY <1>11, <2>2, <2>3, <2>4 DEF AnswerSave
<1>12. ASSUME NEW v \in Visit, NEW c \in calls, AnswerDelete(v, c) PROVE Rests(u)'
  BY <1>12, <1>r DEF AnswerDelete, Leave, Unmount, store
<1>13. ASSUME NEW v \in Visit, NEW c \in calls, GoOffline(v, c) PROVE Rests(u)'
  <2>1. UNCHANGED <<goneBy, sent, page, editing, confirming, told>>
    BY <1>13 DEF GoOffline, screen, store
  <2>2. /\ saving' = saving \/ saving' = [saving EXCEPT ![v] = FALSE]
        /\ deleting' = deleting \/ deleting' = [deleting EXCEPT ![v] = FALSE]
    BY <1>13 DEF GoOffline
  <2>3. QED
    BY <1>r, <2>1, <2>2
<1>14. CASE Serve
  <2>1. goneBy' = goneBy \/ \E c \in calls : goneBy' = c.by
    BY <1>14 DEF Serve, Check, UpdateExpense, SoftDeleteExpense, Vanish, store
  <2>2. page[u] \in {"closed", "loading", "failed"} => goneBy' # u
    BY <1>r, <1>c, <2>1
  <2>3. UNCHANGED <<sent, page, editing, confirming, told, saving, deleting>>
    BY <1>14, ServingKeepsVisits DEF screen, waits
  <2>4. QED
    BY <1>r, <2>2, <2>3
<1>15. CASE Others
  <2>1. goneBy' = goneBy \/ goneBy' = "elsewhere"
    BY <1>15 DEF Others, UpdateElsewhere, DeleteElsewhere, DeleteCategory
  <2>2. page[u] \in {"closed", "loading", "failed"} => goneBy' # u
    BY <1>r, <2>1, BlankAssumption
  <2>3. UNCHANGED <<sent, page, editing, confirming, told, saving, deleting>>
    BY <1>15, OthersKeepVisits DEF screen, waits
  <2>4. QED
    BY <1>r, <2>2, <2>3
<1>16. CASE UNCHANGED vars
  BY <1>16, <1>r DEF vars, store, screen, waits
<1>17. QED
  BY <1>1, <1>2, <1>3, <1>4, <1>5, <1>6, <1>7, <1>8, <1>9, <1>10, <1>11, <1>12, <1>13, <1>14, <1>15, <1>16
     DEF Next, Use, Hear
-----------------------------------------------------------------------------
(* What a visit knows of the deletion stays so, in three parts: what it    *)
(* has loaded, what it was told, and what became of its own deletion.      *)
Loaded(v) ==
    /\ got[v].is = "notFound" => IsDeleted
    /\ got[v].is = "ok" => got[v].row \in Row

Quiet(v) == \A c \in calls : c.by = v => ~ c.waits

WasTold(v) ==
    /\ told[v] \in {"deleted", "notFound"} => page[v] = "left" /\ IsDeleted /\ Quiet(v)
    /\ told[v] = "deleted" => goneBy = v
    /\ told[v] = "notFound" /\ goneBy = v => lost[v]

Learns(v) == \E c \in calls : Heard(v, c, "delete") /\ c.answer.is = "ok"

Deleted(v) == goneBy = v => lost[v] \/ told[v] = "deleted" \/ Learns(v)

LEMMA KnowsParts == \A v \in Visit : Knows(v) <=> Loaded(v) /\ WasTold(v) /\ Deleted(v)
BY DEF Knows, Loaded, WasTold, Quiet, Learns, Deleted

LEMMA LoadedStays == DetailInv /\ [Next]_vars => \A u \in Visit : Loaded(u)'
<1> SUFFICES ASSUME DetailInv, [Next]_vars, NEW u \in Visit PROVE Loaded(u)'
  OBVIOUS
<1>1. Loaded(u) /\ TypeOK
  BY KnowsParts DEF DetailInv
<1>2. IsDeleted => IsDeleted'
  BY DeletionStays DEF IsDeleted
<1>3. ASSUME NEW v \in Visit, GetExpense(v) PROVE Loaded(u)'
  <2>1. PICK a \in {RowOr404, Answer("failed", None)} : got' = [got EXCEPT ![v] = a]
    BY <1>3 DEF GetExpense
  <2>2. (a.is = "notFound" => IsDeleted) /\ (a.is = "ok" => a.row \in Row)
    BY <1>1, <2>1 DEF RowOr404, Answer, TypeOK, StoreOK
  <2>3. QED
    BY <1>1, <1>2, <2>1, <2>2 DEF Loaded, TypeOK, ScreenOK
<1>4. ASSUME NEW v \in Visit, Unmount(v) PROVE Loaded(u)'
  BY <1>1, <1>2, <1>4 DEF Unmount, NoAnswer, Answer, Loaded, TypeOK, ScreenOK
<1>5. CASE got' = got
  BY <1>1, <1>2, <1>5 DEF Loaded
<1>6. ASSUME NEW v \in Visit, Use(v) \/ Hear(v) PROVE got' = got \/ GetExpense(v) \/ Unmount(v)
  BY <1>6 DEF Use, Hear, Open, ListCategories, Show, Back, Edit, Cancel, Save, Change, AskDelete,
     CloseDialog, Remove, ReloadCategories, AnswerSave, AnswerDelete, GoOffline, Leave, load, screen
<1>7. CASE Serve \/ Others \/ UNCHANGED vars
  BY <1>5, <1>7, ServingKeepsVisits, OthersKeepVisits DEF screen, load, vars
<1>8. QED
  BY <1>3, <1>4, <1>5, <1>6, <1>7 DEF Next

(* A visit that waits for nothing starts nothing once it has left.         *)
LEMMA QuietStays ==
  DetailInv /\ [Next]_vars => \A u \in Visit : page[u] = "left" /\ Quiet(u) => Quiet(u)'
<1> SUFFICES ASSUME DetailInv, [Next]_vars, NEW u \in Visit, page[u] = "left", Quiet(u) PROVE Quiet(u)'
  OBVIOUS
<1>1. \A c \in calls : c \in CallRecord
  BY DEF DetailInv, TypeOK, CallOK
<1>2. CASE calls' = calls \/ \E c \in calls : calls' = calls \ {c}
  BY <1>2 DEF Quiet
<1>3. ASSUME NEW c \in calls, NEW d, Moved(c, d), calls' = (calls \ {c}) \cup {d} PROVE Quiet(u)'
  <2>1. d.by = c.by /\ (d.waits => c.waits)
    BY <1>1, <1>3, MovedIsCall
  <2>2. QED
    BY <1>3, <2>1 DEF Quiet
<1>4. ASSUME NEW v \in Visit, NEW c, Started(v, c), calls' = calls \cup {c}, page[v] = "record"
      PROVE  Quiet(u)'
  BY <1>4 DEF Started, Quiet
<1>5. QED
  BY <1>2, <1>3, <1>4, CallsStep DEF CallsGoOn

LEMMA LossIsRemembered == DetailInv /\ [Next]_vars => \A u \in Visit : lost[u] => lost'[u]
<1> SUFFICES ASSUME DetailInv, [Next]_vars, NEW u \in Visit, lost[u] PROVE lost'[u]
  OBVIOUS
<1>1. lost \in [Visit -> BOOLEAN]
  BY DEF DetailInv, TypeOK, WaitsOK
<1>2. ASSUME NEW v \in Visit, Use(v) \/ Hear(v) PROVE lost' = lost \/ lost' = [lost EXCEPT ![v] = TRUE]
  BY <1>2 DEF Use, Hear, Open, ListCategories, GetExpense, Show, Back, Edit, Cancel, Save, Change,
     AskDelete, CloseDialog, Remove, ReloadCategories, AnswerSave, AnswerDelete, GoOffline, waits
<1>3. CASE Serve \/ Others \/ UNCHANGED vars
  BY <1>3, ServingKeepsVisits, OthersKeepVisits DEF waits, vars
<1>4. QED
  BY <1>1, <1>2, <1>3 DEF Next

(* A notice changes when the screen is left with it, when a save succeeds  *)
(* or when the form is opened.                                             *)
LEMMA NoticesChange ==
  ASSUME TypeOK, NEW v \in Visit, Use(v) \/ Hear(v)
  PROVE  \/ UNCHANGED told /\ \A u \in Visit : page[u] = "left" => page'[u] = "left"
         \/ Edit(v)
         \/ Show(v) /\ got[v].is = "notFound" /\ Leave(v, "notFound")
         \/ \E c \in calls :
               \/ AnswerSave(v, c) /\ told' = [told EXCEPT ![v] = "saved"] /\ page' = page
               \/ AnswerSave(v, c) /\ c.answer.is \in Missing /\ Leave(v, "notFound")
               \/ AnswerDelete(v, c)
<1> USE DEF TypeOK, ScreenOK
<1>1. CASE Open(v) \/ ListCategories(v) \/ GetExpense(v) \/ Back(v) \/ Cancel(v) \/ Save(v)
        \/ AskDelete(v) \/ CloseDialog(v) \/ Remove(v) \/ ReloadCategories(v)
        \/ \E f \in Field, x \in Value : Change(v, f, x)
  BY <1>1 DEF Open, ListCategories, GetExpense, Back, Unmount, Cancel, Save, AskDelete, CloseDialog,
     Remove, ReloadCategories, Change, screen
<1>2. CASE Show(v)
  BY <1>2 DEF Show, Leave
<1>3. ASSUME NEW c \in calls, AnswerSave(v, c)
      PROVE  \/ UNCHANGED <<told, page>>
             \/ told' = [told EXCEPT ![v] = "saved"] /\ page' = page
             \/ c.answer.is \in Missing /\ Leave(v, "notFound")
  BY <1>3 DEF AnswerSave
<1>4. ASSUME NEW c \in calls, GoOffline(v, c) PROVE UNCHANGED <<told, page>>
  BY <1>4 DEF GoOffline, screen
<1>5. QED
  BY <1>1, <1>2, <1>3, <1>4 DEF Use, Hear

LEMMA WasToldStays == DetailInv /\ [Next]_vars => \A u \in Visit : WasTold(u)'
<1> SUFFICES ASSUME DetailInv, [Next]_vars, NEW u \in Visit PROVE WasTold(u)'
  OBVIOUS
<1>1. /\ TypeOK /\ \A v \in Visit : WasTold(v) /\ Loaded(v) /\ WaitHolds(v)
      /\ told \in [Visit -> {"nothing", "saved", "deleted", "notFound"}]
      /\ page \in [Visit -> {"closed", "loading", "failed", "record", "left"}]
  BY KnowsParts DEF DetailInv, TypeOK, ScreenOK
<1>2. IsDeleted => goneBy' = goneBy
  BY DeletionStays
<1>3. page[u] = "left" /\ Quiet(u) => Quiet(u)'
  BY QuietStays
<1>4. lost[u] => lost'[u]
  BY LossIsRemembered
<1>5. CASE told'[u] = told[u] /\ (page[u] = "left" => page'[u] = "left")
  BY <1>1, <1>2, <1>3, <1>4, <1>5 DEF WasTold, IsDeleted
<1>6. CASE told'[u] \notin {"deleted", "notFound"}
  BY <1>6 DEF WasTold
<1>7. ASSUME NEW v \in Visit, Edit(v) PROVE WasTold(u)'
  <2>1. page' = page /\ told' = [told EXCEPT ![v] = "nothing"]
    BY <1>7 DEF Edit
  <2>2. QED
    BY <1>1, <1>5, <1>6, <2>1
<1>8. ASSUME NEW v \in Visit, Show(v), got[v].is = "notFound", Leave(v, "notFound") PROVE WasTold(u)'
  <2>1. page' = [page EXCEPT ![v] = "left"] /\ told' = [told EXCEPT ![v] = "notFound"]
    BY <1>8 DEF Leave, Unmount
  <2>2. CASE u # v
    BY <1>1, <1>5, <2>1, <2>2
  <2>3. CASE u = v
    <3>1. IsDeleted /\ goneBy # v /\ sent[v] = 0 /\ UNCHANGED <<calls, goneBy>>
      BY <1>1, <1>8 DEF Show, Loaded, WaitHolds, store
    <3>2. Quiet(v)'
      BY <3>1, <1>1 DEF Quiet, TypeOK, CallOK
    <3>3. QED
      BY <1>1, <2>1, <2>3, <3>1, <3>2 DEF WasTold, IsDeleted
  <2>4. QED
    BY <2>2, <2>3
<1>9. ASSUME NEW v \in Visit, NEW c \in calls, NEW notice \in {"deleted", "notFound"},
             AnswerSave(v, c) \/ AnswerDelete(v, c), Leave(v, notice), IsDeleted,
             notice = "deleted" => goneBy = v,
             notice = "notFound" /\ goneBy = v => lost[v]
      PROVE  WasTold(u)'
  <2>1. page' = [page EXCEPT ![v] = "left"] /\ told' = [told EXCEPT ![v] = notice]
    BY <1>9 DEF Leave, Unmount
  <2>2. CASE u # v
    BY <1>1, <1>5, <2>1, <2>2
  <2>3. CASE u = v
    <3>1. calls' = calls \ {c} /\ c.by = v /\ c.waits
      BY <1>9 DEF AnswerSave, AnswerDelete, Heard
    <3>2. Quiet(v)'
      BY <1>1, <3>1 DEF Quiet, WaitHolds
    <3>3. QED
      BY <1>1, <1>2, <1>4, <1>9, <2>1, <2>3, <3>2 DEF WasTold, IsDeleted
  <2>4. QED
    BY <2>2, <2>3
<1>10. ASSUME NEW v \in Visit, NEW c \in calls, AnswerSave(v, c), c.answer.is \in Missing,
              Leave(v, "notFound")
       PROVE  WasTold(u)'
  <2>1. c.by = v /\ IsDeleted /\ (goneBy = v => lost[v])
    BY <1>10 DEF AnswerSave, Heard, Missing, DetailInv, CallHolds
  <2>2. QED
    BY <1>9, <1>10, <2>1
<1>11. ASSUME NEW v \in Visit, NEW c \in calls, AnswerDelete(v, c) PROVE WasTold(u)'
  <2>1. c.by = v /\ c.want = "delete" /\ c.step = "answered" /\ CallHolds(c) /\ v # None
    BY <1>11, BlankAssumption DEF AnswerDelete, Heard, DetailInv
  <2>2. CASE c.answer.is = "ok"
    <3>1. goneBy = v /\ IsDeleted
      BY <2>1, <2>2 DEF CallHolds, IsDeleted
    <3>2. Leave(v, "deleted")
      BY <1>11, <2>2 DEF AnswerDelete
    <3>3. QED
      BY <1>9, <1>11, <3>1, <3>2
  <2>3. CASE c.answer.is # "ok"
    <3>1. IsDeleted /\ (goneBy = v => lost[v])
      BY <2>1, <2>3 DEF CallHolds
    <3>2. Leave(v, "notFound")
      BY <1>11, <2>3 DEF AnswerDelete
    <3>3. QED
      BY <1>9, <1>11, <3>1, <3>2
  <2>4. QED
    BY <2>2, <2>3
<1>12. ASSUME NEW v \in Visit, Use(v) \/ Hear(v) PROVE WasTold(u)'
  <2>1. CASE told' = [told EXCEPT ![v] = "saved"] /\ page' = page
    BY <1>1, <1>5, <1>6, <2>1
  <2>2. CASE UNCHANGED told /\ \A w \in Visit : page[w] = "left" => page'[w] = "left"
    BY <1>5, <2>2
  <2>3. QED
    BY <1>1, <1>12, <1>7, <1>8, <1>10, <1>11, <2>1, <2>2, NoticesChange
<1>13. CASE Serve \/ Others \/ UNCHANGED vars
  BY <1>5, <1>13, ServingKeepsVisits, OthersKeepVisits DEF screen, vars
<1>14. QED
  BY <1>12, <1>13 DEF Next

(* An answer that the visit has yet to hear is heard or lost.              *)
LEMMA AnswerIsHeard ==
  ASSUME DetailInv, [Next]_vars, NEW u \in Visit, NEW d \in calls,
         Heard(u, d, "delete"), d.answer.is = "ok"
  PROVE  d \in calls' \/ lost'[u] \/ told'[u] = "deleted"
<1>1. d.by = u /\ d.waits /\ d.step = "answered" /\ d.want = "delete"
  BY DEF Heard
<1>2. ASSUME NEW v \in Visit, Use(v) PROVE d \in calls'
  BY <1>2 DEF Use, Open, ListCategories, GetExpense, Show, Back, Edit, Cancel, Save, Change, AskDelete,
     CloseDialog, Remove, ReloadCategories, Send
<1>3. ASSUME NEW v \in Visit, NEW c \in calls, AnswerSave(v, c) PROVE d \in calls'
  BY <1>1, <1>3 DEF AnswerSave, Heard
<1>4. ASSUME NEW v \in Visit, NEW c \in calls, AnswerDelete(v, c)
      PROVE  d \in calls' \/ told'[u] = "deleted"
  <2>1. CASE c # d
    BY <1>4, <2>1 DEF AnswerDelete
  <2>2. CASE c = d
    BY <1>1, <1>4, <2>2 DEF AnswerDelete, Heard, Leave, DetailInv, TypeOK, ScreenOK
  <2>3. QED
    BY <2>1, <2>2
<1>5. ASSUME NEW v \in Visit, NEW c \in calls, GoOffline(v, c) PROVE d \in calls' \/ lost'[u]
  <2>1. CASE c # d
    BY <1>5, <2>1 DEF GoOffline
  <2>2. CASE c = d
    BY <1>1, <1>5, <2>2 DEF GoOffline, DetailInv, TypeOK, WaitsOK
  <2>3. QED
    BY <2>1, <2>2
<1>6. CASE Serve
  BY <1>1, <1>6 DEF Serve, Check, UpdateExpense, SoftDeleteExpense, Vanish, Goto, Reply
<1>7. CASE Others \/ UNCHANGED vars
  BY <1>7, OthersKeepVisits DEF vars
<1>8. QED
  BY <1>2, <1>3, <1>4, <1>5, <1>6, <1>7 DEF Next, Hear

LEMMA DeletedStays == DetailInv /\ [Next]_vars => \A u \in Visit : Deleted(u)'
<1> SUFFICES ASSUME DetailInv, [Next]_vars, NEW u \in Visit, goneBy' = u
             PROVE  lost'[u] \/ told'[u] = "deleted" \/ Learns(u)'
  BY DEF Deleted
<1>1. CASE goneBy = u
  <2>1. lost[u] \/ told[u] = "deleted" \/ Learns(u)
    BY <1>1, KnowsParts DEF DetailInv, Deleted
  <2>2. CASE lost[u]
    BY <2>2, LossIsRemembered
  <2>3. CASE told[u] = "deleted"
    <3>1. page[u] = "left" /\ Quiet(u)
      BY <2>3, KnowsParts DEF DetailInv, WasTold
    <3>2. ASSUME NEW v \in Visit, Use(v) \/ Hear(v) PROVE told'[u] = "deleted"
      <4>1. CASE v = u
        <5>1. ~ Edit(v) /\ ~ Show(v)
          BY <3>1, <4>1 DEF Edit, Summary, Show
        <5>2. \A c \in calls : ~ AnswerSave(v, c) /\ ~ AnswerDelete(v, c)
          BY <3>1, <4>1 DEF AnswerSave, AnswerDelete, Heard, Quiet
        <5>3. QED
          BY <2>3, <3>2, <5>1, <5>2, NoticesChange DEF DetailInv
      <4>2. CASE v # u
        <5>1. told' = told \/ \E x : told' = [told EXCEPT ![v] = x]
          BY <3>2, NoticesChange DEF DetailInv, Edit, Leave, AnswerDelete
        <5>2. QED
          BY <2>3, <4>2, <5>1 DEF DetailInv, TypeOK, ScreenOK
      <4>3. QED
        BY <4>1, <4>2
    <3>3. CASE Serve \/ Others \/ UNCHANGED vars
      BY <2>3, <3>3, ServingKeepsVisits, OthersKeepVisits DEF screen, vars
    <3>4. QED
      BY <3>2, <3>3 DEF Next
  <2>4. CASE Learns(u)
    BY <2>4, AnswerIsHeard DEF Learns
  <2>5. QED
    BY <2>1, <2>2, <2>3, <2>4
<1>2. CASE goneBy # u
  <2>1. PICK c \in calls : SoftDeleteExpense(c)
    <3>1. ASSUME NEW v \in Visit, Use(v) \/ Hear(v) PROVE FALSE
      BY <1>2, <3>1, VisitsKeepStore DEF store
    <3>2. ~ Others /\ ~ UNCHANGED vars
      BY <1>2, BlankAssumption DEF Others, UpdateElsewhere, DeleteElsewhere, DeleteCategory, vars, store
    <3>3. QED
      BY <1>2, <3>1, <3>2 DEF Next, Serve, Check, UpdateExpense, Vanish, store
  <2>2. ~ IsDeleted /\ c.by = u /\ Reply(c, Answer("ok", None)) /\ c.want = "delete" /\ lost' = lost
    BY <1>2, <2>1 DEF SoftDeleteExpense, waits
  <2>3. c \in CallRecord
    BY DEF DetailInv, TypeOK, CallOK
  <2>4. CASE c.waits
    <3>1. PICK d : d = [c EXCEPT !.step = "answered", !.answer = Answer("ok", None)] /\ d \in calls'
      BY <2>2, <2>4 DEF Reply
    <3>2. Heard(u, d, "delete") /\ d.answer.is = "ok"
      BY <2>2, <2>3, <2>4, <3>1 DEF CallRecord, Heard, Answer
    <3>3. QED
      BY <3>1, <3>2 DEF Learns
  <2>5. CASE ~ c.waits
    BY <2>2, <2>5 DEF DetailInv, CallHolds
  <2>6. QED
    BY <2>4, <2>5
<1>3. QED
  BY <1>1, <1>2

-----------------------------------------------------------------------------
LEMMA KnowsStays == DetailInv /\ [Next]_vars => \A u \in Visit : Knows(u)'
<1> SUFFICES ASSUME DetailInv, [Next]_vars, NEW u \in Visit PROVE Knows(u)'
  OBVIOUS
<1>1. Loaded(u)' /\ WasTold(u)' /\ Deleted(u)'
  BY LoadedStays, WasToldStays, DeletedStays
<1>2. QED
  BY <1>1 DEF Knows, Loaded, WasTold, Quiet, Learns, Deleted

LEMMA NextDetailInv == DetailInv /\ [Next]_vars => DetailInv'
<1> SUFFICES ASSUME DetailInv, [Next]_vars PROVE DetailInv'
  OBVIOUS
<1>1. TypeOK'
  BY TypesStay
<1>2. \A u \in Visit : FormHolds(u)' /\ WaitHolds(u)' /\ Knows(u)'
  BY FormsStay, WaitsStay, KnowsStays
<1>3. \A c \in calls' : CallHolds(c)'
  BY CallsStayTrue
<1>4. QED
  BY <1>1, <1>2, <1>3 DEF DetailInv

(* The form, the dialog, the calls and what was told of them agree at all  *)
(* times, whatever other devices do (routes/expense-detail.tsx, save and   *)
(* remove).                                                                *)
THEOREM DetailInvariant == Spec => []DetailInv
BY InitDetailInv, NextDetailInv, PTL DEF Spec

(* Nobody who was answered is told that the expense they have deleted was  *)
(* not found: deletingRef (routes/expense-detail.tsx:139) keeps a second   *)
(* tap of Delete from being sent.                                          *)
THEOREM OwnDeletesAreKnown == Spec => []OwnDeleteIsNotMissing
<1>1. DetailInv => OwnDeleteIsNotMissing
  BY DEF DetailInv, Knows, OwnDeleteIsNotMissing
<1>2. QED
  BY <1>1, DetailInvariant, PTL

(* A save writes only what its user typed (components/expense-form.tsx,    *)
(* changedFields): each step that changes the row is one of another        *)
(* device, or a save in whose form the changed fields were typed.          *)
THEOREM OnlyTypedFieldsAreWritten == Spec => OnlyTypedIsWritten
<1> DEFINE A == row' # row =>
              \/ others' # others
              \/ \E c \in calls : c.want = "save" /\
                   \A f \in Field : row'[f] # row[f] => f \in c.typed /\ row'[f] = c.form[f]
<1>1. DetailInv /\ [Next]_vars => [A]_vars
  <2> SUFFICES ASSUME DetailInv, [Next]_vars, row' # row PROVE A
    BY DEF A
  <2>1. ASSUME NEW v \in Visit, Use(v) \/ Hear(v) PROVE A
    BY <2>1, VisitsKeepStore DEF store
  <2>2. ASSUME NEW c \in calls, UpdateExpense(c) PROVE A
    <3>1. row' = Patched(c.patch) /\ c.want = "save"
      BY <2>2 DEF UpdateExpense
    <3>2. CallSends(c)
      BY DEF DetailInv, CallHolds
    <3>3. \A f \in Field : row'[f] # row[f] => f \in c.typed /\ row'[f] = c.form[f]
      BY <3>1, <3>2 DEF Patched, CallSends
    <3>4. QED
      BY <3>1, <3>3
  <2>3. ASSUME NEW c \in calls, Check(c) \/ SoftDeleteExpense(c) \/ Vanish(c) PROVE A
    BY <2>3 DEF Check, SoftDeleteExpense, Vanish, store
  <2>4. CASE Others
    <3>1. others' = others + 1 /\ others \in Int
      BY <2>4 DEF Others, UpdateElsewhere, DeleteElsewhere, DeleteCategory, Meanwhile, DetailInv, TypeOK, StoreOK
    <3>2. QED
      BY <3>1
  <2>5. CASE UNCHANGED vars
    BY <2>5 DEF vars, store
  <2>6. QED
    BY <2>1, <2>2, <2>3, <2>4, <2>5 DEF Next, Serve
<1>2. QED
  BY <1>1, DetailInvariant, PTL DEF Spec, OnlyTypedIsWritten

=============================================================================
