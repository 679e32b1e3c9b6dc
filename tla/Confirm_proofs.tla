--------------------------- MODULE Confirm_proofs ---------------------------
(***************************************************************************)
(* Proofs about Confirm for any number of visits, names and calls: the     *)
(* invariant ConfirmInv, from which notices are true, a question stays as  *)
(* it was asked, and no correction is sent without consent.                *)
(***************************************************************************)
EXTENDS Confirm, TLAPS

-----------------------------------------------------------------------------
(* What holds at first.                                                    *)
LEMMA InitConfirmInv == Init => ConfirmInv
<1> SUFFICES ASSUME Init PROVE ConfirmInv
  OBVIOUS
<1> USE ReadingAssumption, NoneAssumption, BoundAssumption DEF Init, Fields, Blank, NoRules, Rule, Saved
<1>1. StoreOK
  BY DEF StoreOK
<1>2. CallsOK
  BY DEF CallsOK
<1>3. ScreenOK
  BY DEF ScreenOK
<1>4. SaveOK
  BY DEF SaveOK
<1>5. \A v \in Visit : AsksInOrder(v) /\ Believes(v)
  BY DEF AsksInOrder, Believes
<1>6. \A c \in calls : CallHolds(c)
  OBVIOUS
<1>7. QED
  BY <1>1, <1>2, <1>3, <1>4, <1>5, <1>6 DEF ConfirmInv, TypeOK

-----------------------------------------------------------------------------
(* Who changes what: a visit does not change the records, what happens     *)
(* elsewhere neither calls nor visits, and the API of a visit only what    *)
(* its second reading has got.                                             *)
LEMMA VisitsKeepStore ==
  ASSUME NEW v \in Visit, Edit(v) \/ Submit(v) \/ HearSave(v) \/ HearRetry(v)
  PROVE  UNCHANGED store
<1>1. CASE Edit(v)
  BY <1>1 DEF Edit, LoadLists, LoadReceipt, LoadImage, Back, TypeMerchant, ChooseCategory, UseCorrection,
     TryAgain, ReplaceTyped, KeepTyped
<1>2. CASE Submit(v)
  BY <1>2 DEF Submit, Press, SaveOnly, SaveAndRemember, CloseDialog
<1>3. CASE HearSave(v)
  BY <1>3 DEF HearSave, AnswerRule, AnswerExpense, GoOffline
<1>4. CASE HearRetry(v)
  BY <1>4 DEF HearRetry, AnswerReading, RetryFails
<1>5. QED
  BY <1>1, <1>2, <1>3, <1>4

LEMMA OthersKeepVisits == Others => UNCHANGED <<calls, visits>>
BY DEF Others, DeleteCategory, DeleteRule, DeleteExpense, FileElsewhere, CheckAttached, DeleteReceipt

LEMMA ServingKeepsVisits == Serve => UNCHANGED <<page, lists, form, ask, save, told, seen>>
BY DEF Serve, CheckCategory, CheckReceipt, WriteRule, InsertExpense, Vanish, FindReceipt, Reread, LinkReading,
   visits, again

(* Records stay: expenses are appended, a deleted receipt stays deleted.   *)
Grows ==
    /\ \A i \in DOMAIN expense : i \in DOMAIN expense' /\ expense'[i] = expense[i]
    /\ receipt = "deleted" => receipt' = "deleted"

LEMMA RecordsStay == StoreOK /\ [Next]_vars => Grows
<1> SUFFICES ASSUME StoreOK, [Next]_vars PROVE Grows
  OBVIOUS
<1> USE DEF StoreOK, Grows
<1>1. ASSUME NEW v \in Visit, Edit(v) \/ Submit(v) \/ HearSave(v) \/ HearRetry(v) PROVE Grows
  BY <1>1, VisitsKeepStore DEF store
<1>2. ASSUME NEW c \in calls, InsertExpense(c) PROVE Grows
  <2>1. UNCHANGED expense \/ \E x : expense' = Append(expense, x)
    BY <1>2 DEF InsertExpense
  <2>2. UNCHANGED receipt
    BY <1>2 DEF InsertExpense
  <2>3. QED
    BY <2>1, <2>2
<1>3. CASE Serve /\ \A c \in calls : ~ InsertExpense(c)
  BY <1>3 DEF Serve, CheckCategory, CheckReceipt, WriteRule, Vanish, FindReceipt, Reread, LinkReading, store
<1>4. CASE Others
  <2>1. ASSUME NEW f, FileElsewhere(f) PROVE Grows
    BY <2>1 DEF FileElsewhere
  <2>2. CASE \E c \in Category : DeleteCategory(c)
    BY <2>2 DEF DeleteCategory
  <2>3. CASE \E d \in Reading : DeleteRule(d)
    BY <2>3 DEF DeleteRule
  <2>4. CASE \E i \in DOMAIN expense : DeleteExpense(i)
    BY <2>4 DEF DeleteExpense
  <2>5. CASE CheckAttached \/ DeleteReceipt
    BY <2>5 DEF CheckAttached, DeleteReceipt
  <2>6. QED
    BY <1>4, <2>1, <2>2, <2>3, <2>4, <2>5 DEF Others
<1>5. CASE UNCHANGED vars
  BY <1>5 DEF vars, store
<1>6. QED
  BY <1>1, <1>2, <1>3, <1>4, <1>5 DEF Next, Serve

-----------------------------------------------------------------------------
(* Every step keeps the types.                                             *)
LEMMA StoreStaysOK == TypeOK /\ [Next]_vars => StoreOK'
<1> SUFFICES ASSUME TypeOK, [Next]_vars PROVE StoreOK'
  OBVIOUS
<1> USE BoundAssumption DEF TypeOK, StoreOK, Rule
<1>1. ASSUME NEW v \in Visit, Edit(v) \/ Submit(v) \/ HearSave(v) \/ HearRetry(v) PROVE StoreOK'
  BY <1>1, VisitsKeepStore DEF store
<1>2. ASSUME NEW c \in calls, WriteRule(c) PROVE StoreOK'
  <2>1. c \in CallRecord /\ c.name \in Reading /\ c.body \in [merchant : Merchant, category : Category]
    BY <1>2 DEF WriteRule, CallsOK
  <2>2. CASE UNCHANGED <<rule, nextRule>>
    BY <1>2, <2>2 DEF WriteRule
  <2>3. CASE RuleFits(c, c.name)
    <3> DEFINE id == IF c.id = None THEN nextRule ELSE c.id
    <3>1. id \in Nat
      BY <2>1 DEF CallRecord
    <3>2. rule' = [rule EXCEPT ![c.name] = [id |-> id, merchant |-> c.body.merchant, category |-> c.body.category]]
      BY <1>2, <2>3 DEF WriteRule
    <3> HIDE DEF id
    <3>3. rule' \in [Reading -> Rule \cup {None}]
      BY <2>1, <3>1, <3>2
    <3>4. nextRule' \in Nat
      BY <1>2, <2>3 DEF WriteRule
    <3>5. QED
      BY <1>2, <3>3, <3>4 DEF WriteRule
  <2>4. QED
    BY <1>2, <2>2, <2>3 DEF WriteRule
<1>3. ASSUME NEW c \in calls, InsertExpense(c) PROVE StoreOK'
  <2>1. [by |-> c.by, as |-> c.body] \in [by : Visit \cup {None}, as : Fields]
    BY DEF CallsOK, CallRecord
  <2>2. CASE Filed
    BY <1>3, <2>2 DEF InsertExpense
  <2>3. CASE ~ Filed
    <3> DEFINE row == [by |-> c.by, as |-> c.body]
    <3>1. expense' = Append(expense, row) /\ UNCHANGED <<live, receipt, reading, rule, nextRule, gone, others>>
      BY <1>3, <2>3 DEF InsertExpense
    <3> HIDE DEF row
    <3>2. expense' \in Seq([by : Visit \cup {None}, as : Fields])
      BY <2>1, <3>1 DEF row
    <3>3. DOMAIN expense \subseteq DOMAIN expense'
      BY <3>1
    <3>4. QED
      BY <3>1, <3>2, <3>3
  <2>4. QED
    BY <2>2, <2>3
<1>4. ASSUME NEW v \in Visit, Reread(v) PROVE StoreOK'
  BY <1>4 DEF Reread
<1>5. ASSUME NEW c \in calls, CheckCategory(c) \/ CheckReceipt(c) \/ Vanish(c) PROVE StoreOK'
  BY <1>5 DEF CheckCategory, CheckReceipt, Vanish, store
<1>6. ASSUME NEW v \in Visit, FindReceipt(v) \/ LinkReading(v) PROVE StoreOK'
  BY <1>6 DEF FindReceipt, LinkReading, store
<1>7. ASSUME NEW c \in Category, FileElsewhere([merchant |-> None, category |-> c]) PROVE StoreOK'
  BY <1>7 DEF FileElsewhere, Meanwhile, Fields
<1>8. ASSUME NEW c \in Category, DeleteCategory(c) PROVE StoreOK'
  BY <1>8 DEF DeleteCategory, Meanwhile
<1>9. ASSUME NEW d \in Reading, DeleteRule(d) PROVE StoreOK'
  BY <1>9 DEF DeleteRule, Meanwhile
<1>10. ASSUME NEW i \in DOMAIN expense, DeleteExpense(i) PROVE StoreOK'
  BY <1>10 DEF DeleteExpense, Meanwhile
<1>11. CASE CheckAttached \/ DeleteReceipt
  BY <1>11 DEF CheckAttached, DeleteReceipt, Meanwhile
<1>12. CASE UNCHANGED vars
  BY <1>12 DEF vars, store
<1>13. QED
  BY <1>1, <1>2, <1>3, <1>4, <1>5, <1>6, <1>7, <1>8, <1>9, <1>10, <1>11, <1>12 DEF Next, Serve, Others

LEMMA ScreenStaysOK == TypeOK /\ [Next]_vars => ScreenOK'
<1> SUFFICES ASSUME TypeOK, [Next]_vars PROVE ScreenOK'
  OBVIOUS
<1> USE ReadingAssumption DEF TypeOK, ScreenOK, Fields
<1>1. ASSUME NEW v \in Visit, Unmount(v) PROVE ScreenOK'
  BY <1>1 DEF Unmount, Blank, NoRules
<1>2. ASSUME NEW v \in Visit, LoadLists(v) PROVE ScreenOK'
  <2>1. {live, {}} \subseteq SUBSET Category
    BY DEF StoreOK
  <2>2. ASSUME NEW d \in Reading PROVE (IF rule[d] = None THEN None ELSE Listed(rule[d])) \in Saved \cup {None}
    BY DEF StoreOK, Rule, Listed, Saved
  <2>3. {NoRules, [d \in Reading |-> IF rule[d] = None THEN None ELSE Listed(rule[d])]}
           \subseteq [Reading -> Saved \cup {None}]
    BY <2>2 DEF NoRules
  <2>4. UNCHANGED <<image, detected, fields, initial, dialog, found>>
    BY <1>2 DEF LoadLists, form, ask
  <2>5. QED
    BY <1>2, <2>1, <2>3, <2>4 DEF LoadLists
<1>3. ASSUME NEW v \in Visit, LoadReceipt(v) PROVE ScreenOK'
  <2>1. CASE Unmount(v)
    BY <1>1, <2>1
  <2>2. CASE ~ Unmount(v)
    <3>1. ApplyReading(v, reading) /\ reading \in Reading \cup {None}
      BY <1>3, <2>2 DEF LoadReceipt, Leave, StoreOK
    <3>2. /\ page' = [page EXCEPT ![v] = "form"] /\ image' = [image EXCEPT ![v] = "asked"]
          /\ UNCHANGED <<offered, saved, dialog, found>>
      BY <1>3, <2>2 DEF LoadReceipt, Leave
    <3>3. QED
      BY <3>1, <3>2 DEF ApplyReading, Shown
  <2>3. QED
    BY <2>1, <2>2
<1>4. ASSUME NEW v \in Visit, LoadImage(v) PROVE ScreenOK'
  <2>1. CASE Leave(v, "notFound")
    BY <1>1, <2>1 DEF Leave
  <2>2. CASE ~ Leave(v, "notFound")
    BY <1>4, <2>2 DEF LoadImage, form
  <2>3. QED
    BY <2>1, <2>2
<1>5. ASSUME NEW v \in Visit, Back(v) PROVE ScreenOK'
  BY <1>1, <1>5 DEF Back
<1>6. ASSUME NEW v \in Visit, NEW m \in Merchant \cup {None}, TypeMerchant(v, m) PROVE ScreenOK'
  <2>1. UNCHANGED <<page, offered, saved, image, detected, initial, dialog, found>>
    BY <1>6 DEF TypeMerchant, lists, ask
  <2>2. fields' = [fields EXCEPT ![v] = [fields[v] EXCEPT !.merchant = m]]
    BY <1>6 DEF TypeMerchant
  <2>3. [fields[v] EXCEPT !.merchant = m] \in Fields
    BY <1>6
  <2>4. fields' \in [Visit -> Fields]
    BY <2>2, <2>3
  <2>5. QED
    BY <2>1, <2>4
<1>7. ASSUME NEW v \in Visit, NEW c \in Category, ChooseCategory(v, c) PROVE ScreenOK'
  <2>1. UNCHANGED <<page, offered, saved, image, detected, initial, dialog, found>>
    BY <1>7 DEF ChooseCategory, lists, ask
  <2>2. fields' = [fields EXCEPT ![v] = [fields[v] EXCEPT !.category = c]]
    BY <1>7 DEF ChooseCategory
  <2>3. [fields[v] EXCEPT !.category = c] \in Fields
    BY <1>7
  <2>4. fields' \in [Visit -> Fields]
    BY <2>2, <2>3
  <2>5. QED
    BY <2>1, <2>4
<1>8. ASSUME NEW v \in Visit, UseCorrection(v) PROVE ScreenOK'
  <2>1. Suggestion(v) \in Saved
    BY <1>8 DEF UseCorrection, Suggestion
  <2>2. QED
    BY <1>8, <2>1 DEF UseCorrection, lists, ask, Saved
<1>9. ASSUME NEW v \in Visit, TryAgain(v) PROVE ScreenOK'
  BY <1>9 DEF TryAgain, lists, form, ask
<1>10. ASSUME NEW v \in Visit, ReplaceTyped(v) PROVE ScreenOK'
  BY <1>10 DEF ReplaceTyped, ApplyReading, Shown, lists
<1>11. ASSUME NEW v \in Visit, KeepTyped(v) PROVE ScreenOK'
  BY <1>11 DEF KeepTyped, lists, form
<1>12. ASSUME NEW v \in Visit, Submit(v) PROVE ScreenOK'
  <2>1. UNCHANGED <<page, lists, form, found>>
    BY <1>12 DEF Submit, Press, SaveOnly, SaveAndRemember, CloseDialog
  <2>2. dialog' \in [Visit -> {"no", "remember", "replace"}]
    <3>1. UNCHANGED dialog \/ \E d \in {"no", "remember"} : dialog' = [dialog EXCEPT ![v] = d]
      BY <1>12 DEF Submit, Press, SaveOnly, SaveAndRemember, CloseDialog, Save, Send
    <3>2. QED
      BY <3>1
  <2>3. QED
    BY <2>1, <2>2 DEF lists, form
<1>13. ASSUME NEW v \in Visit, NEW c \in calls, AnswerRule(v, c) \/ GoOffline(v, c) PROVE ScreenOK'
  BY <1>13 DEF AnswerRule, GoOffline, lists, form, ask
<1>14. ASSUME NEW v \in Visit, NEW c \in calls, AnswerExpense(v, c) PROVE ScreenOK'
  <2>1. CASE Unmount(v)
    BY <1>1, <2>1
  <2>2. CASE ~ Unmount(v)
    <3>1. /\ \E cs \in {live, offered[v]} :
               offered' = [offered EXCEPT ![v] = IF page[v] = "form" THEN cs ELSE @]
          /\ UNCHANGED <<page, saved, image, form, dialog, found>>
      BY <1>14, <2>2 DEF AnswerExpense, Leave
    <3>2. live \subseteq Category
      BY DEF StoreOK
    <3>3. QED
      BY <3>1, <3>2 DEF form
  <2>3. QED
    BY <2>1, <2>2
<1>15. ASSUME NEW v \in Visit, AnswerReading(v) PROVE ScreenOK'
  <2>1. CASE Unmount(v)
    BY <1>1, <2>1
  <2>2. CASE ~ Unmount(v)
    <3>1. CASE UNCHANGED <<page, lists, form>>
      <4>1. UNCHANGED <<dialog, found>> \/ (/\ dialog' = [dialog EXCEPT ![v] = "replace"]
                                           /\ found' = [found EXCEPT ![v] = got[v]] /\ got[v] \in Reading)
        BY <1>15, <2>2 DEF AnswerReading, Leave, IsReading
      <4>2. QED
        BY <3>1, <4>1 DEF lists, form
    <3>2. CASE ApplyReading(v, got[v]) /\ got[v] \in Reading /\ UNCHANGED <<page, lists, dialog, found>>
      BY <3>2 DEF ApplyReading, Shown, lists
    <3>3. QED
      BY <1>15, <2>2, <3>1, <3>2 DEF AnswerReading, Leave, IsReading
  <2>3. QED
    BY <2>1, <2>2
<1>16. ASSUME NEW v \in Visit, RetryFails(v) PROVE ScreenOK'
  BY <1>16 DEF RetryFails, lists, form, ask
<1>17. CASE Serve
  BY <1>17, ServingKeepsVisits DEF lists, form, ask
<1>18. CASE Others
  BY <1>18, OthersKeepVisits DEF visits, lists, form, ask
<1>19. CASE UNCHANGED vars
  BY <1>19 DEF vars, visits, lists, form, ask
<1>20. QED
  BY <1>2, <1>3, <1>4, <1>5, <1>6, <1>7, <1>8, <1>9, <1>10, <1>11, <1>12, <1>13, <1>14, <1>15, <1>16,
     <1>17, <1>18, <1>19 DEF Next, Edit, HearSave, HearRetry

LEMMA SaveStaysOK == TypeOK /\ [Next]_vars => SaveOK'
<1> SUFFICES ASSUME TypeOK, [Next]_vars PROVE SaveOK'
  OBVIOUS
<1> USE DEF TypeOK, SaveOK, ScreenOK, save, again
<1>1. ASSUME NEW v \in Visit, Unmount(v) PROVE seen' \in [Visit -> Fields]
        /\ retry' \in [Visit -> {"idle", "sent", "reading", "read", "answered"}]
        /\ got' \in [Visit -> Reading \cup {None, "other", "filed"}]
  BY <1>1 DEF Unmount, Blank, Fields
<1>a. ASSUME NEW v \in Visit, Done(v) PROVE saving' \in [Visit -> BOOLEAN]
  BY <1>a DEF Done
<1>b. ASSUME NEW v \in Visit, NEW error \in {"notFiled", "failed"}, Tell(v, error)
      PROVE  told' \in [Visit -> {"nothing", "filed", "already", "notFound", "notFiled", "failed"}]
  BY <1>b DEF Tell
<1>c. ASSUME NEW v \in Visit, NEW notice \in {"nothing", "filed", "already", "notFound"}, Leave(v, notice)
      PROVE  told' \in [Visit -> {"nothing", "filed", "already", "notFound", "notFiled", "failed"}]
  BY <1>c DEF Leave
<1>2. ASSUME NEW v \in Visit, Edit(v) PROVE SaveOK'
  <2>1. CASE Unmount(v)
    <3>1. UNCHANGED <<choice, save>>
      BY <1>2, <2>1 DEF Edit, LoadLists, LoadReceipt, LoadImage, Back, TypeMerchant, ChooseCategory,
         UseCorrection, TryAgain, ReplaceTyped, KeepTyped, ask
    <3>2. told' \in [Visit -> {"nothing", "filed", "already", "notFound", "notFiled", "failed"}]
      <4>1. CASE LoadReceipt(v) \/ LoadImage(v) \/ Back(v)
        BY <1>c, <4>1 DEF LoadReceipt, LoadImage, Back
      <4>2. CASE ~ (LoadReceipt(v) \/ LoadImage(v) \/ Back(v))
        <5>1. UNCHANGED told \/ told' = [told EXCEPT ![v] = "nothing"]
          BY <1>2, <4>2 DEF Edit, LoadLists, TypeMerchant, ChooseCategory, UseCorrection, TryAgain,
             ReplaceTyped, KeepTyped
        <5>2. QED
          BY <5>1
      <4>3. QED
        BY <4>1, <4>2
    <3>3. QED
      BY <1>1, <2>1, <3>1, <3>2
  <2>2. CASE TryAgain(v)
    BY <2>2 DEF TryAgain, ask
  <2>3. CASE ReplaceTyped(v)
    BY <2>3 DEF ReplaceTyped
  <2>4. CASE ~ Unmount(v) /\ ~ TryAgain(v) /\ ~ ReplaceTyped(v)
    <3>1. UNCHANGED <<choice, save, told, again>>
      BY <1>2, <2>4 DEF Edit, LoadLists, LoadReceipt, LoadImage, Back, TypeMerchant, ChooseCategory,
         UseCorrection, KeepTyped, Leave, ask
    <3>2. QED
      BY <3>1
  <2>5. QED
    BY <2>1, <2>2, <2>3, <2>4
<1>3. ASSUME NEW v \in Visit, Submit(v) PROVE SaveOK'
  <2>1. CASE CloseDialog(v)
    BY <2>1 DEF CloseDialog
  <2>2. ASSUME NEW c, Save(v, c), UNCHANGED again PROVE SaveOK'
    <3>1. saving' \in [Visit -> BOOLEAN]
      <4>1. UNCHANGED saving \/ saving' = [saving EXCEPT ![v] = TRUE]
        BY <2>2 DEF Save
      <4>2. QED
        BY <4>1
    <3>2. choice' \in [Visit -> {"ask", "only", "remember"}]
          /\ told' \in [Visit -> {"nothing", "filed", "already", "notFound", "notFiled", "failed"}]
      BY <2>2 DEF Save, ChoiceAfter
    <3>3. sent' \in [Visit -> Nat] /\ body' \in [Visit -> Fields]
      BY <2>2 DEF Save, Send
    <3>4. QED
      BY <2>2, <3>1, <3>2, <3>3
  <2>3. QED
    BY <1>3, <2>1, <2>2 DEF Submit, Press, SaveOnly, SaveAndRemember
<1>4. ASSUME NEW v \in Visit, NEW c \in calls, AnswerRule(v, c) PROVE SaveOK'
  <2>1. UNCHANGED <<choice, body, again>>
    BY <1>4 DEF AnswerRule, ask
  <2>2. CASE c.answer = "stored"
    <3>1. sent' = [sent EXCEPT ![v] = @ + 1] /\ UNCHANGED <<saving, told>>
      BY <1>4, <2>2 DEF AnswerRule
    <3>2. sent' \in [Visit -> Nat]
      BY <3>1
    <3>3. QED
      BY <2>1, <3>1, <3>2
  <2>3. CASE c.answer # "stored"
    <3>1. Done(v) /\ Tell(v, "notFiled") /\ UNCHANGED sent
      BY <1>4, <2>3 DEF AnswerRule, RuleFailed
    <3>2. QED
      BY <1>a, <1>b, <2>1, <3>1
  <2>4. QED
    BY <2>2, <2>3
<1>5. ASSUME NEW v \in Visit, NEW c \in calls, AnswerExpense(v, c) PROVE SaveOK'
  <2>1. CASE Unmount(v)
    <3>1. told' \in [Visit -> {"nothing", "filed", "already", "notFound", "notFiled", "failed"}]
      <4>1. \/ \E notice \in {"filed", "already", "notFound"} : Leave(v, notice)
            \/ Tell(v, "failed")
        BY <1>5 DEF AnswerExpense, Notice
      <4>2. QED
        BY <1>b, <1>c, <4>1
    <3>2. saving' \in [Visit -> BOOLEAN]
      <4>1. Done(v) \/ UNCHANGED saving
        BY <1>5 DEF AnswerExpense
      <4>2. QED
        BY <1>a, <4>1
    <3>3. UNCHANGED <<choice, sent, body>>
      BY <1>5 DEF AnswerExpense
    <3>4. QED
      BY <1>1, <2>1, <3>1, <3>2, <3>3
  <2>2. CASE ~ Unmount(v)
    <3>1. /\ Done(v) /\ Tell(v, "failed")
          /\ UNCHANGED <<choice, sent, body, again>>
      BY <1>5, <2>2 DEF AnswerExpense, Leave
    <3>2. QED
      BY <1>a, <1>b, <3>1
  <2>3. QED
    BY <2>1, <2>2
<1>6. ASSUME NEW v \in Visit, NEW c \in calls, GoOffline(v, c) PROVE SaveOK'
  <2>1. /\ Done(v) /\ (Tell(v, "notFiled") \/ Tell(v, "failed"))
        /\ UNCHANGED <<choice, sent, body, again>>
    BY <1>6 DEF GoOffline, RuleFailed, ask
  <2>2. QED
    BY <1>a, <1>b, <2>1
<1>7. ASSUME NEW v \in Visit, EndRetry(v) PROVE seen' \in [Visit -> Fields]
        /\ retry' \in [Visit -> {"idle", "sent", "reading", "read", "answered"}]
        /\ got' \in [Visit -> Reading \cup {None, "other", "filed"}]
  BY <1>7 DEF EndRetry, Blank, Fields
<1>8. ASSUME NEW v \in Visit, AnswerReading(v) PROVE SaveOK'
  <2>1. told' \in [Visit -> {"nothing", "filed", "already", "notFound", "notFiled", "failed"}]
    <3>1. UNCHANGED told \/ told' = [told EXCEPT ![v] = "nothing"] \/ Leave(v, "already")
      BY <1>8 DEF AnswerReading
    <3>2. QED
      BY <1>c, <3>1
  <2>2. EndRetry(v) /\ UNCHANGED <<choice, save>>
    BY <1>8 DEF AnswerReading
  <2>3. QED
    BY <1>7, <2>1, <2>2
<1>9. ASSUME NEW v \in Visit, RetryFails(v) PROVE SaveOK'
  BY <1>7, <1>9 DEF RetryFails, ask
<1>10. ASSUME NEW v \in Visit, FindReceipt(v) \/ Reread(v) \/ LinkReading(v) PROVE SaveOK'
  <2>1. UNCHANGED <<ask, save, told, seen>>
    BY <1>10 DEF FindReceipt, Reread, LinkReading
  <2>2. retry' \in [Visit -> {"idle", "sent", "reading", "read", "answered"}]
    BY <1>10 DEF FindReceipt, Reread, LinkReading
  <2>3. got' \in [Visit -> Reading \cup {None, "other", "filed"}]
    BY <1>10 DEF FindReceipt, Reread, LinkReading
  <2>4. QED
    BY <2>1, <2>2, <2>3 DEF ask
<1>11. ASSUME NEW c \in calls,
              CheckCategory(c) \/ CheckReceipt(c) \/ WriteRule(c) \/ InsertExpense(c) \/ Vanish(c)
       PROVE  SaveOK'
  BY <1>11 DEF CheckCategory, CheckReceipt, WriteRule, InsertExpense, Vanish, visits, ask
<1>12. CASE Others \/ UNCHANGED vars
  BY <1>12, OthersKeepVisits DEF vars, visits, ask
<1>13. QED
  BY <1>2, <1>3, <1>4, <1>5, <1>6, <1>8, <1>9, <1>10, <1>11, <1>12 DEF Next, HearSave, HearRetry, Serve

(* What becomes of the calls: one is sent, one goes on, one is answered,   *)
(* or some go away.                                                        *)
LEMMA SendingKeepsCalls ==
  ASSUME TypeOK, NEW v \in Visit, NEW want \in {"rule", "expense"}, NEW what \in Fields,
         NEW name \in Reading \cup {None}, NEW id \in Nat \cup {None}, want = "rule" => name \in Reading,
         calls' \subseteq calls \cup {Call(v, want, what, name, id)}, sent' = [sent EXCEPT ![v] = @ + 1]
  PROVE  CallsOK'
<1> DEFINE k == Call(v, want, what, name, id)
<1>1. k \in CallRecord /\ k.no = sent[v] + 1 /\ k.by = v /\ k.want = want /\ k.name = name /\ k.step = "category"
  BY DEF Call, CallRecord, TypeOK, SaveOK
<1>2. sent' \in [Visit -> Nat] /\ sent'[v] = sent[v] + 1 /\ \A u \in Visit : sent[u] <= sent'[u]
  BY DEF TypeOK, SaveOK
<1>3. \A c \in calls : c \in CallRecord /\ c.by \in Visit /\ c.no \in Nat /\ c.no <= sent[c.by] /\ sent[c.by] \in Nat
  BY DEF TypeOK, CallsOK, SaveOK, CallRecord
<1> HIDE DEF k
<1>4. \A c \in calls' : c \in CallRecord /\ c.no <= sent'[c.by]
  BY <1>1, <1>2, <1>3 DEF k
<1>5. QED
  BY <1>1, <1>4 DEF TypeOK, CallsOK, k

LEMMA PassingKeepsCalls ==
  ASSUME TypeOK, NEW c \in calls, NEW step \in {"receipt", "write"}, Goto(c, step), UNCHANGED sent,
         c.want = "rule" => step = "write" /\ c.body \in [merchant : Merchant, category : Category]
  PROVE  CallsOK'
<1> DEFINE k == [c EXCEPT !.step = step]
<1>1. k \in CallRecord /\ k.no = c.no /\ k.by = c.by /\ k.want = c.want /\ k.name = c.name
      /\ k.step = step /\ k.body = c.body
  BY DEF CallRecord, TypeOK, CallsOK
<1> HIDE DEF k
<1>2. calls' \subseteq calls \cup {k}
  BY DEF Goto, k
<1>3. QED
  BY <1>1, <1>2 DEF TypeOK, CallsOK

LEMMA ReplyingKeepsCalls ==
  ASSUME TypeOK, NEW c \in calls, NEW answer \in Answer, Reply(c, answer), UNCHANGED sent
  PROVE  CallsOK'
<1> DEFINE k == [c EXCEPT !.step = "answered", !.answer = answer]
<1>1. k \in CallRecord /\ k.no = c.no /\ k.by = c.by /\ k.want = c.want /\ k.name = c.name /\ k.step = "answered"
  BY DEF CallRecord, TypeOK, CallsOK
<1> HIDE DEF k
<1>2. calls' \subseteq calls \cup {k}
  BY DEF Reply, k
<1>3. QED
  BY <1>1, <1>2 DEF TypeOK, CallsOK

(* What save has captured is sent, by Press, SaveOnly and SaveAndRemember. *)
LEMMA SaveSends ==
  ASSUME TypeOK, NEW v \in Visit, NEW c, Save(v, c)
  PROVE  \/ UNCHANGED <<calls, save>>
         \/ /\ saving' = [saving EXCEPT ![v] = TRUE] /\ ~ saving[v]
            /\ body' = [body EXCEPT ![v] = fields[v]]
            /\ sent' = [sent EXCEPT ![v] = @ + 1]
            /\ \/ calls' = calls \cup {Call(v, "expense", fields[v], None, None)}
               \/ /\ c = "remember" /\ detected[v] \in Reading
                  /\ \E id \in Nat \cup {None} :
                       calls' = calls \cup {Call(v, "rule", fields[v], detected[v], id)}
<1> SUFFICES ASSUME ~ UNCHANGED <<calls, save>>
             PROVE  /\ saving' = [saving EXCEPT ![v] = TRUE] /\ ~ saving[v]
                    /\ body' = [body EXCEPT ![v] = fields[v]]
                    /\ sent' = [sent EXCEPT ![v] = @ + 1]
                    /\ \/ calls' = calls \cup {Call(v, "expense", fields[v], None, None)}
                       \/ /\ c = "remember" /\ detected[v] \in Reading
                          /\ \E id \in Nat \cup {None} :
                               calls' = calls \cup {Call(v, "rule", fields[v], detected[v], id)}
  OBVIOUS
<1>1. /\ saving' = [saving EXCEPT ![v] = TRUE] /\ ~ saving[v]
      /\ body' = [body EXCEPT ![v] = fields[v]]
      /\ IF c = "remember" /\ detected[v] # None
            THEN Send(v, "rule", detected[v], IF Suggestion(v) = None THEN None ELSE Suggestion(v).id)
            ELSE Send(v, "expense", None, None)
  BY DEF Save
<1>2. CASE c = "remember" /\ detected[v] # None
  <2> DEFINE id == IF Suggestion(v) = None THEN None ELSE Suggestion(v).id
  <2>1. detected[v] \in Reading
    BY <1>2 DEF TypeOK, ScreenOK
  <2>2. id \in Nat \cup {None}
    BY <2>1 DEF TypeOK, ScreenOK, Suggestion, Saved
  <2> HIDE DEF id
  <2>3. Send(v, "rule", detected[v], id)
    BY <1>1, <1>2 DEF id
  <2>4. QED
    BY <1>1, <1>2, <2>1, <2>2, <2>3 DEF Send
<1>3. CASE ~ (c = "remember" /\ detected[v] # None)
  BY <1>1, <1>3 DEF Send
<1>4. QED
  BY <1>2, <1>3

LEMMA CallsStayOK == TypeOK /\ [Next]_vars => CallsOK'
<1> SUFFICES ASSUME TypeOK, [Next]_vars PROVE CallsOK'
  OBVIOUS
<1>1. ASSUME calls' \subseteq calls, UNCHANGED sent PROVE CallsOK'
  BY <1>1 DEF TypeOK, CallsOK
<1>2. ASSUME NEW v \in Visit, Edit(v) PROVE CallsOK'
  <2>1. UNCHANGED <<calls, save>>
    BY <1>2 DEF Edit, LoadLists, LoadReceipt, LoadImage, Back, TypeMerchant, ChooseCategory,
       UseCorrection, TryAgain, ReplaceTyped, KeepTyped
  <2>2. QED
    BY <1>1, <2>1 DEF save
<1>3. ASSUME NEW v \in Visit, Submit(v) PROVE CallsOK'
  <2>1. ASSUME NEW c, Save(v, c) PROVE CallsOK'
    <3>1. fields[v] \in Fields
      BY DEF TypeOK, ScreenOK
    <3>2. CASE UNCHANGED <<calls, save>>
      BY <1>1, <3>2 DEF save
    <3>3. CASE ~ UNCHANGED <<calls, save>>
      BY <2>1, <3>1, <3>3, SaveSends, SendingKeepsCalls
    <3>4. QED
      BY <3>2, <3>3
  <2>2. CASE CloseDialog(v)
    BY <1>1, <2>2 DEF CloseDialog, save
  <2>3. QED
    BY <1>3, <2>1, <2>2 DEF Submit, Press, SaveOnly, SaveAndRemember
<1>4. ASSUME NEW v \in Visit, NEW c \in calls, AnswerRule(v, c) PROVE CallsOK'
  <2>1. CASE c.answer = "stored"
    <3>1. body[v] \in Fields
      BY DEF TypeOK, SaveOK
    <3>2. calls' \subseteq calls \cup {Call(v, "expense", body[v], None, None)}
          /\ sent' = [sent EXCEPT ![v] = @ + 1]
      BY <1>4, <2>1 DEF AnswerRule
    <3>3. QED
      BY <3>1, <3>2, SendingKeepsCalls
  <2>2. CASE c.answer # "stored"
    BY <1>1, <1>4, <2>2 DEF AnswerRule
  <2>3. QED
    BY <2>1, <2>2
<1>5. ASSUME NEW v \in Visit, NEW c \in calls, AnswerExpense(v, c) \/ GoOffline(v, c) PROVE CallsOK'
  BY <1>1, <1>5 DEF AnswerExpense, GoOffline
<1>6. ASSUME NEW v \in Visit, HearRetry(v) PROVE CallsOK'
  BY <1>1, <1>6 DEF HearRetry, AnswerReading, RetryFails, save
<1>7. ASSUME NEW c \in calls, CheckCategory(c) PROVE CallsOK'
  <2>1. c \in CallRecord /\ UNCHANGED sent
    BY <1>7 DEF TypeOK, CallsOK, CheckCategory, visits, save
  <2>2. CASE \E a \in {"invalid", "badCategory"} : Reply(c, a)
    BY <2>1, <2>2, ReplyingKeepsCalls DEF Answer
  <2>3. CASE ~ \E a \in {"invalid", "badCategory"} : Reply(c, a)
    <3>1. /\ c.body.category \in live /\ ~ (c.want = "rule" /\ c.body.merchant = None)
          /\ Goto(c, IF c.want = "rule" THEN "write" ELSE "receipt")
      BY <1>7, <2>3 DEF CheckCategory
    <3>2. c.want = "rule" => c.body \in [merchant : Merchant, category : Category]
      BY <2>1, <3>1 DEF CallRecord, Fields, TypeOK, StoreOK
    <3>3. QED
      BY <2>1, <3>1, <3>2, PassingKeepsCalls
  <2>4. QED
    BY <2>2, <2>3
<1>8. ASSUME NEW c \in calls, CheckReceipt(c) PROVE CallsOK'
  <2>1. c.want # "rule" /\ UNCHANGED sent
    BY <1>8 DEF TypeOK, CallsOK, CheckReceipt, visits, save
  <2>2. Goto(c, "write") \/ Reply(c, "badReceipt")
    BY <1>8 DEF CheckReceipt
  <2>3. QED
    BY <2>1, <2>2, PassingKeepsCalls, ReplyingKeepsCalls DEF Answer
<1>9. ASSUME NEW c \in calls, WriteRule(c) \/ InsertExpense(c) PROVE CallsOK'
  <2>1. (\E a \in Answer : Reply(c, a)) /\ UNCHANGED sent
    BY <1>9 DEF WriteRule, InsertExpense, Answer, visits, save
  <2>2. QED
    BY <2>1, ReplyingKeepsCalls
<1>10. ASSUME NEW c \in calls, Vanish(c) PROVE CallsOK'
  BY <1>1, <1>10 DEF Vanish, visits, save
<1>11. ASSUME NEW v \in Visit, FindReceipt(v) \/ Reread(v) \/ LinkReading(v) PROVE CallsOK'
  BY <1>1, <1>11 DEF FindReceipt, Reread, LinkReading, save
<1>12. CASE Others \/ UNCHANGED vars
  BY <1>1, <1>12, OthersKeepVisits DEF vars, visits, save
<1>13. QED
  BY <1>2, <1>3, <1>4, <1>5, <1>6, <1>7, <1>8, <1>9, <1>10, <1>11, <1>12 DEF Next, HearSave, HearRetry, Serve

LEMMA TypesStayOK == TypeOK /\ [Next]_vars => TypeOK'
BY StoreStaysOK, CallsStayOK, ScreenStaysOK, SaveStaysOK DEF TypeOK

-----------------------------------------------------------------------------
(* Dialogs and readings keep out of each other's way.                      *)
LEMMA OrderStays ==
  ASSUME ConfirmInv, [Next]_vars, NEW u \in Visit
  PROVE  AsksInOrder(u)'
<1> USE NoneAssumption, ReadingAssumption DEF ConfirmInv, TypeOK, ScreenOK, SaveOK, AsksInOrder
<1>1. ASSUME NEW v \in Visit, Unmount(v), UNCHANGED choice PROVE AsksInOrder(u)'
  BY <1>1 DEF Unmount
<1>2. ASSUME NEW v \in Visit, LoadLists(v) PROVE AsksInOrder(u)'
  BY <1>2 DEF LoadLists, form, ask, again
<1>3. ASSUME NEW v \in Visit, LoadReceipt(v) PROVE AsksInOrder(u)'
  <2>1. CASE Unmount(v)
    BY <1>1, <1>3, <2>1 DEF LoadReceipt
  <2>2. CASE ~ Unmount(v)
    BY <1>3, <2>2 DEF LoadReceipt, Leave, ApplyReading, again
  <2>3. QED
    BY <2>1, <2>2
<1>4. ASSUME NEW v \in Visit, LoadImage(v) PROVE AsksInOrder(u)'
  <2>1. CASE Unmount(v)
    BY <1>1, <1>4, <2>1 DEF LoadImage
  <2>2. CASE ~ Unmount(v)
    BY <1>4, <2>2 DEF LoadImage, Leave, form, again
  <2>3. QED
    BY <2>1, <2>2
<1>5. ASSUME NEW v \in Visit, Back(v) PROVE AsksInOrder(u)'
  BY <1>1, <1>5 DEF Back
<1>6. ASSUME NEW v \in Visit,
             UseCorrection(v) \/ (\E m \in Merchant \cup {None} : TypeMerchant(v, m))
                \/ (\E c \in Category : ChooseCategory(v, c))
      PROVE  AsksInOrder(u)'
  BY <1>6 DEF UseCorrection, TypeMerchant, ChooseCategory, ask, again
<1>7. ASSUME NEW v \in Visit, TryAgain(v) PROVE AsksInOrder(u)'
  BY <1>7 DEF TryAgain, Open, form, ask
<1>8. ASSUME NEW v \in Visit, ReplaceTyped(v) PROVE AsksInOrder(u)'
  BY <1>8 DEF ReplaceTyped, ApplyReading, again
<1>9. ASSUME NEW v \in Visit, KeepTyped(v) PROVE AsksInOrder(u)'
  BY <1>9 DEF KeepTyped, form, again
<1>10. ASSUME NEW v \in Visit, NEW c, page[v] = "form", dialog[v] # "replace", Save(v, c),
              UNCHANGED <<page, form, found, again>>
       PROVE  AsksInOrder(u)'
  <2>1. choice' = [choice EXCEPT ![v] = "ask"]
    BY <1>10 DEF Save, ChoiceAfter
  <2>2. \/ UNCHANGED dialog
        \/ dialog' = [dialog EXCEPT ![v] = "no"]
        \/ Asks(v) /\ dialog' = [dialog EXCEPT ![v] = "remember"]
    BY <1>10 DEF Save
  <2>3. UNCHANGED <<page, detected, found, retry>>
    BY <1>10 DEF form, again
  <2>4. QED
    BY <1>10, <2>1, <2>2, <2>3 DEF Asks
<1>11. ASSUME NEW v \in Visit, Submit(v) PROVE AsksInOrder(u)'
  <2>1. CASE CloseDialog(v)
    BY <2>1 DEF CloseDialog, form, again
  <2>2. CASE ~ CloseDialog(v)
    BY <1>10, <1>11, <2>2 DEF Submit, Press, SaveOnly, SaveAndRemember, Open
  <2>3. QED
    BY <2>1, <2>2
<1>12. ASSUME NEW v \in Visit, NEW c \in calls, AnswerRule(v, c) \/ GoOffline(v, c) PROVE AsksInOrder(u)'
  BY <1>12 DEF AnswerRule, GoOffline, form, ask, again
<1>13. ASSUME NEW v \in Visit, NEW c \in calls, AnswerExpense(v, c) PROVE AsksInOrder(u)'
  <2>1. CASE Unmount(v)
    BY <1>1, <1>13, <2>1 DEF AnswerExpense
  <2>2. CASE ~ Unmount(v)
    BY <1>13, <2>2 DEF AnswerExpense, Leave, form, again
  <2>3. QED
    BY <2>1, <2>2
<1>14. ASSUME NEW v \in Visit, AnswerReading(v) PROVE AsksInOrder(u)'
  <2>1. CASE Unmount(v)
    BY <1>1, <1>14, <2>1 DEF AnswerReading
  <2>2. CASE ~ Unmount(v)
    <3>1. retry' = [retry EXCEPT ![v] = "idle"] /\ retry[v] # "idle" /\ UNCHANGED <<page, choice>>
      BY <1>14, <2>2 DEF AnswerReading, EndRetry, Leave
    <3>2. \/ UNCHANGED <<detected, dialog, found>>
          \/ /\ UNCHANGED detected /\ got[v] \in Reading
             /\ dialog' = [dialog EXCEPT ![v] = "replace"] /\ found' = [found EXCEPT ![v] = got[v]]
          \/ /\ UNCHANGED <<dialog, found>> /\ got[v] \in Reading
             /\ detected' = [detected EXCEPT ![v] = got[v]]
      BY <1>14, <2>2 DEF AnswerReading, Leave, IsReading, ApplyReading, form
    <3>3. QED
      BY <3>1, <3>2
  <2>3. QED
    BY <2>1, <2>2
<1>15. ASSUME NEW v \in Visit, RetryFails(v) PROVE AsksInOrder(u)'
  BY <1>15 DEF RetryFails, EndRetry, form, ask
<1>16. ASSUME NEW v \in Visit, FindReceipt(v) \/ Reread(v) \/ LinkReading(v) PROVE AsksInOrder(u)'
  BY <1>16 DEF FindReceipt, Reread, LinkReading, form, ask
<1>17. ASSUME NEW c \in calls,
              CheckCategory(c) \/ CheckReceipt(c) \/ WriteRule(c) \/ InsertExpense(c) \/ Vanish(c)
       PROVE  AsksInOrder(u)'
  BY <1>17 DEF CheckCategory, CheckReceipt, WriteRule, InsertExpense, Vanish, visits, form, ask, again
<1>18. CASE Others \/ UNCHANGED vars
  BY <1>18, OthersKeepVisits DEF vars, visits, form, ask, again
<1>19. QED
  BY <1>2, <1>3, <1>4, <1>5, <1>6, <1>7, <1>8, <1>9, <1>11, <1>12, <1>13, <1>14, <1>15, <1>16, <1>17, <1>18
     DEF Next, Edit, HearSave, HearRetry, Serve

-----------------------------------------------------------------------------
(* What a visit believes stays true while the records only grow.           *)
LEMMA BeliefsLast ==
  ASSUME ConfirmInv, Grows, NEW u \in Visit, UNCHANGED body[u], UNCHANGED got[u],
         page'[u] # "left" => page[u] # "left",
         \/ UNCHANGED told[u]
         \/ told'[u] \in {"nothing", "notFiled", "failed"}
  PROVE  Believes(u)'
<1>1. Stored(u) => Stored(u)'
  BY DEF Stored, Grows
<1>2. expense # <<>> => expense' # <<>>
  <2>1. expense \in Seq([by : Visit \cup {None}, as : Fields])
    BY DEF ConfirmInv, TypeOK, StoreOK
  <2>2. expense # <<>> => 1 \in DOMAIN expense
    BY <2>1
  <2>3. 1 \in DOMAIN expense' => expense' # <<>>
    OBVIOUS
  <2>4. QED
    BY <2>2, <2>3 DEF Grows
<1>3. QED
  BY <1>1, <1>2 DEF Believes, Grows, ConfirmInv

(* Filed, or stored for somebody: then there is a row.                     *)
LEMMA SomeRow ==
  ASSUME StoreOK
  PROVE  /\ Filed => expense # <<>>
         /\ \A v : Stored(v) => expense # <<>>
BY DEF StoreOK, Filed, LiveExpenses, Stored

LEMMA BeliefsStay ==
  ASSUME ConfirmInv, [Next]_vars, NEW u \in Visit
  PROVE  Believes(u)'
<1> USE NoneAssumption, ReadingAssumption
<1>a. Grows /\ StoreOK
  BY RecordsStay DEF ConfirmInv, TypeOK
<1>b. /\ page \in [Visit -> {"closed", "loading", "form", "left"}]
      /\ told \in [Visit -> {"nothing", "filed", "already", "notFound", "notFiled", "failed"}]
      /\ got \in [Visit -> Reading \cup {None, "other", "filed"}]
      /\ body \in [Visit -> Fields] /\ Believes(u) /\ AsksInOrder(u)
  BY DEF ConfirmInv, TypeOK, ScreenOK, SaveOK
<1>1. ASSUME NEW v \in Visit, UNCHANGED <<store, body>>, Unmount(v), UNCHANGED told, page[v] # "left" PROVE Believes(u)'
  BY <1>1, <1>b DEF Unmount, Believes, store, Stored
<1>2. ASSUME NEW v \in Visit, NEW notice \in {"nothing", "filed", "already", "notFound"},
             UNCHANGED <<store, body>>, Leave(v, notice),
             notice = "filed" => Stored(v), notice = "already" => expense # <<>>,
             notice = "notFound" => receipt = "deleted"
      PROVE  Believes(u)'
  BY <1>2, <1>b DEF Leave, Unmount, Believes, store, Stored
<1>3. ASSUME NEW v \in Visit, LoadLists(v) PROVE Believes(u)'
  BY <1>3, <1>a, <1>b, BeliefsLast DEF LoadLists, save, again
<1>4. ASSUME NEW v \in Visit, LoadReceipt(v) PROVE Believes(u)'
  <2>1. UNCHANGED <<store, body>>
    BY <1>4 DEF LoadReceipt, save
  <2>2. CASE ~ ReceiptIsLive /\ Leave(v, "notFound")
    BY <1>2, <2>1, <2>2 DEF ReceiptIsLive
  <2>3. CASE Filed /\ Leave(v, "already")
    BY <1>2, <1>a, <2>1, <2>3, SomeRow
  <2>4. CASE Leave(v, "nothing")
    BY <1>2, <2>1, <2>4
  <2>5. CASE page' = [page EXCEPT ![v] = "form"] /\ page[v] = "loading" /\ UNCHANGED <<again, told>>
    BY <1>a, <1>b, <2>1, <2>5, BeliefsLast DEF again
  <2>6. QED
    BY <1>4, <2>2, <2>3, <2>4, <2>5 DEF LoadReceipt
<1>5. ASSUME NEW v \in Visit, LoadImage(v) PROVE Believes(u)'
  <2>1. UNCHANGED <<store, body>>
    BY <1>5 DEF LoadImage, save
  <2>2. CASE ~ ReceiptIsLive /\ Leave(v, "notFound")
    BY <1>2, <2>1, <2>2 DEF ReceiptIsLive
  <2>3. CASE UNCHANGED <<page, again, told>>
    BY <1>a, <1>b, <2>1, <2>3, BeliefsLast DEF again
  <2>4. QED
    BY <1>5, <2>2, <2>3 DEF LoadImage
<1>6. ASSUME NEW v \in Visit, Back(v) PROVE Believes(u)'
  BY <1>1, <1>6 DEF Back, Open, save
<1>7. ASSUME NEW v \in Visit,
             UseCorrection(v) \/ TryAgain(v) \/ KeepTyped(v) \/ CloseDialog(v)
                \/ (\E m \in Merchant \cup {None} : TypeMerchant(v, m))
                \/ (\E c \in Category : ChooseCategory(v, c))
      PROVE  Believes(u)'
  <2>1. UNCHANGED <<page, body, told, got>>
    BY <1>7 DEF UseCorrection, TryAgain, KeepTyped, CloseDialog, TypeMerchant, ChooseCategory, save, again
  <2>2. QED
    BY <1>a, <2>1, BeliefsLast
<1>8. ASSUME NEW v \in Visit, ReplaceTyped(v) PROVE Believes(u)'
  <2>1. UNCHANGED <<page, body, got>> /\ told' = [told EXCEPT ![v] = "nothing"]
    BY <1>8 DEF ReplaceTyped, save, again
  <2>2. QED
    BY <1>a, <1>b, <2>1, BeliefsLast
<1>9. ASSUME NEW v \in Visit, NEW c, page[v] = "form", Save(v, c), UNCHANGED <<store, page, again>>
      PROVE  Believes(u)'
  <2>1. told' = [told EXCEPT ![v] = "nothing"] /\ UNCHANGED got
    BY <1>9 DEF Save, again
  <2>2. body' = [body EXCEPT ![v] = fields[v]] \/ UNCHANGED body
    BY <1>9, SaveSends DEF save, ConfirmInv
  <2>3. CASE u = v
    BY <1>9, <1>b, <2>1, <2>3 DEF Believes, store
  <2>4. CASE u # v
    BY <1>9, <1>a, <1>b, <2>1, <2>2, <2>4, BeliefsLast
  <2>5. QED
    BY <2>3, <2>4
<1>10. ASSUME NEW v \in Visit, Submit(v) PROVE Believes(u)'
  BY <1>7, <1>9, <1>10 DEF Submit, Press, SaveOnly, SaveAndRemember, Open
<1>11. ASSUME NEW v \in Visit, NEW c \in calls, AnswerRule(v, c) \/ GoOffline(v, c) PROVE Believes(u)'
  <2>1. UNCHANGED <<page, body, got>>
    BY <1>11 DEF AnswerRule, GoOffline, save, again
  <2>2. UNCHANGED told \/ \E e \in {"notFiled", "failed"} : Tell(v, e)
    BY <1>11 DEF AnswerRule, GoOffline, RuleFailed
  <2>3. UNCHANGED told[u] \/ told'[u] \in {"nothing", "notFiled", "failed"}
    BY <1>b, <2>2 DEF Tell
  <2>4. QED
    BY <1>a, <2>1, <2>3, BeliefsLast
<1>12. ASSUME NEW v \in Visit, NEW c \in calls, AnswerExpense(v, c) PROVE Believes(u)'
  <2>1. UNCHANGED <<store, body>> /\ c.step = "answered" /\ Waits(c) /\ c.by = v /\ CallHolds(c)
    BY <1>12 DEF AnswerExpense, ConfirmInv
  <2>2. CASE c.answer = "created" /\ Leave(v, "filed")
    BY <1>2, <2>1, <2>2 DEF CallHolds
  <2>3. CASE c.answer = "taken" /\ Leave(v, Notice(c.answer))
    BY <1>2, <2>1, <2>3 DEF CallHolds, Notice
  <2>4. CASE c.answer = "badReceipt" /\ Leave(v, Notice(c.answer))
    BY <1>2, <2>1, <2>4 DEF CallHolds, Notice
  <2>5. CASE Tell(v, "failed") /\ UNCHANGED <<page, again>>
    <3>1. UNCHANGED told[u] \/ told'[u] \in {"nothing", "notFiled", "failed"}
      BY <1>b, <2>5 DEF Tell
    <3>2. QED
      BY <1>a, <2>1, <2>5, <3>1, BeliefsLast DEF again
  <2>6. QED
    BY <1>12, <2>2, <2>3, <2>4, <2>5 DEF AnswerExpense
<1>13. ASSUME NEW v \in Visit, AnswerReading(v) PROVE Believes(u)'
  <2>1. UNCHANGED <<store, body>>
    BY <1>13 DEF AnswerReading, save
  <2>2. CASE got[v] = "filed" /\ Leave(v, "already")
    <3>1. expense # <<>>
      BY <2>2 DEF ConfirmInv, Believes
    <3>2. QED
      BY <1>2, <2>1, <2>2, <3>1
  <2>3. CASE UNCHANGED page /\ (UNCHANGED told \/ told' = [told EXCEPT ![v] = "nothing"])
    <3>1. got' = [got EXCEPT ![v] = None]
      BY <1>13 DEF AnswerReading, EndRetry
    <3>2. QED
      BY <1>b, <2>1, <2>3, <3>1 DEF Believes, Stored, store
  <2>4. QED
    BY <1>13, <2>2, <2>3 DEF AnswerReading
<1>14. ASSUME NEW v \in Visit, RetryFails(v) PROVE Believes(u)'
  <2>1. UNCHANGED <<store, body, page, told>> /\ got' = [got EXCEPT ![v] = None]
    BY <1>14 DEF RetryFails, EndRetry, save
  <2>2. QED
    BY <1>b, <2>1 DEF Believes, Stored, store
<1>15. ASSUME NEW v \in Visit, Reread(v) PROVE Believes(u)'
  <2>1. UNCHANGED <<expense, receipt, body, page, told>> /\ \E m \in Reading \cup {None} : got' = [got EXCEPT ![v] = m]
    BY <1>15 DEF Reread, save
  <2>2. QED
    BY <1>b, <2>1 DEF Believes, Stored
<1>16. ASSUME NEW v \in Visit, FindReceipt(v) PROVE Believes(u)'
  <2>1. UNCHANGED <<store, body, page, told>> /\ (UNCHANGED got \/ got' = [got EXCEPT ![v] = "other"])
    BY <1>16 DEF FindReceipt, save
  <2>2. QED
    BY <1>b, <2>1 DEF Believes, Stored, store
<1>17. ASSUME NEW v \in Visit, LinkReading(v) PROVE Believes(u)'
  <2>1. UNCHANGED <<store, body, page, told>> /\ got' = [got EXCEPT ![v] = IF Filed THEN "filed" ELSE @]
    BY <1>17 DEF LinkReading, save
  <2>2. QED
    BY <1>a, <1>b, <2>1, SomeRow DEF Believes, Stored, store
<1>18. ASSUME NEW c \in calls,
              CheckCategory(c) \/ CheckReceipt(c) \/ WriteRule(c) \/ InsertExpense(c) \/ Vanish(c)
       PROVE  Believes(u)'
  <2>1. UNCHANGED visits
    BY <1>18 DEF CheckCategory, CheckReceipt, WriteRule, InsertExpense, Vanish
  <2>2. QED
    BY <1>a, <2>1, BeliefsLast DEF visits, save, again
<1>19. CASE Others \/ UNCHANGED vars
  BY <1>19, <1>a, OthersKeepVisits, BeliefsLast DEF vars, visits, save, again
<1>20. QED
  BY <1>3, <1>4, <1>5, <1>6, <1>7, <1>8, <1>10, <1>11, <1>12, <1>13, <1>14, <1>15, <1>16, <1>17, <1>18, <1>19
     DEF Next, Edit, HearSave, HearRetry, Serve

-----------------------------------------------------------------------------
(* What a call has been answered stays true, and what it carries is what   *)
(* its visit waits for.                                                    *)
LEMMA CallsLast ==
  ASSUME ConfirmInv, Grows, NEW c \in calls, Waits(c)' => Waits(c), Waits(c)' => body'[c.by] = body[c.by]
  PROVE  CallHolds(c)'
<1>1. c.by \in Visit /\ CallHolds(c)
  BY DEF ConfirmInv, TypeOK, CallsOK, CallRecord
<1>2. expense # <<>> => expense' # <<>>
  <2>1. expense \in Seq([by : Visit \cup {None}, as : Fields])
    BY DEF ConfirmInv, TypeOK, StoreOK
  <2>2. expense # <<>> => 1 \in DOMAIN expense
    BY <2>1
  <2>3. QED
    BY <2>2 DEF Grows
<1>3. (Stored(c.by) /\ body'[c.by] = body[c.by]) => Stored(c.by)'
  BY DEF Stored, Grows
<1>4. QED
  BY <1>1, <1>2, <1>3 DEF CallHolds, Grows

(* A new call starts with the check of its category, and carries its body. *)
LEMMA NewCallIs ==
  ASSUME NEW v, NEW want, NEW what, NEW name, NEW id
  PROVE  \E k : /\ k = Call(v, want, what, name, id)
                /\ k.step = "category" /\ k.by = v /\ k.body = what
<1>1. LET k == Call(v, want, what, name, id)
      IN  k.step = "category" /\ k.by = v /\ k.body = what
  BY DEF Call
<1>2. QED
  BY <1>1

(* A new call is not answered yet.                                         *)
LEMMA NewCallHolds ==
  ASSUME NEW k, k.step = "category", k.body = body'[k.by]
  PROVE  CallHolds(k)'
BY DEF CallHolds

(* An answer that somebody waits for is the answer given.                  *)
LEMMA RepliedCallHolds ==
  ASSUME ConfirmInv, Grows, UNCHANGED visits, NEW c \in calls, NEW answer, Reply(c, answer),
         answer = "created" => (Waits(c) => Stored(c.by)'),
         answer = "taken" => expense' # <<>>,
         answer = "badReceipt" => receipt' = "deleted"
  PROVE  \A d \in calls' : CallHolds(d)'
<1> DEFINE k == [c EXCEPT !.step = "answered", !.answer = answer]
<1>1. c \in CallRecord /\ CallHolds(c)
  BY DEF ConfirmInv, TypeOK, CallsOK
<1>2. k.by = c.by /\ k.no = c.no /\ k.body = c.body /\ k.step = "answered" /\ k.answer = answer
  BY <1>1 DEF CallRecord
<1> HIDE DEF k
<1>3. UNCHANGED <<saving, sent, body>>
  BY DEF visits, save
<1>4. CASE Waits(c)
  <2>1. calls' = (calls \ {c}) \cup {k}
    BY <1>4 DEF Reply, k
  <2>2. CallHolds(k)'
    BY <1>1, <1>2, <1>3, <1>4 DEF CallHolds, Waits
  <2>3. \A d \in calls : CallHolds(d)'
    BY <1>3, CallsLast DEF Waits
  <2>4. QED
    BY <2>1, <2>2, <2>3
<1>5. CASE ~ Waits(c)
  <2>1. calls' \subseteq calls
    BY <1>5 DEF Reply
  <2>2. QED
    BY <1>3, <2>1, CallsLast DEF Waits
<1>6. QED
  BY <1>4, <1>5

LEMMA GoingOnHolds ==
  ASSUME ConfirmInv, Grows, UNCHANGED visits, NEW c \in calls, NEW step \in {"receipt", "write"}, Goto(c, step)
  PROVE  \A d \in calls' : CallHolds(d)'
<1> DEFINE k == [c EXCEPT !.step = step]
<1>1. c \in CallRecord /\ CallHolds(c)
  BY DEF ConfirmInv, TypeOK, CallsOK
<1>2. k.by = c.by /\ k.no = c.no /\ k.body = c.body /\ k.step = step
  BY <1>1 DEF CallRecord
<1>3. calls' = (calls \ {c}) \cup {k}
  BY DEF Goto
<1> HIDE DEF k
<1>4. UNCHANGED <<saving, sent, body>>
  BY DEF visits, save
<1>5. CallHolds(k)'
  BY <1>1, <1>2, <1>4 DEF CallHolds, Waits
<1>6. \A d \in calls : CallHolds(d)'
  BY <1>4, CallsLast DEF Waits
<1>7. QED
  BY <1>3, <1>5, <1>6

LEMMA CallsStayTrue ==
  ASSUME ConfirmInv, [Next]_vars
  PROVE  \A d \in calls' : CallHolds(d)'
<1>a. Grows /\ StoreOK /\ \A d \in calls : d \in CallRecord /\ d.by \in Visit /\ d.no \in Nat /\ d.no <= sent[d.by]
  BY RecordsStay DEF ConfirmInv, TypeOK, CallsOK, CallRecord
<1>b. saving \in [Visit -> BOOLEAN] /\ sent \in [Visit -> Nat] /\ body \in [Visit -> Fields]
  BY DEF ConfirmInv, TypeOK, SaveOK
<1>1. ASSUME calls' \subseteq calls, UNCHANGED <<saving, sent, body>> PROVE \A d \in calls' : CallHolds(d)'
  BY <1>1, <1>a, CallsLast DEF Waits
<1>2. ASSUME NEW v \in Visit, calls' \subseteq calls, Done(v), UNCHANGED <<sent, body>>
      PROVE  \A d \in calls' : CallHolds(d)'
  <2>1. ASSUME NEW d \in calls, Waits(d)' PROVE Waits(d)
    BY <1>2, <2>1, <1>a, <1>b DEF Waits, Done
  <2>2. QED
    BY <1>2, <2>1, <1>a, CallsLast
<1>3. ASSUME NEW v \in Visit, NEW c, Save(v, c) PROVE \A d \in calls' : CallHolds(d)'
  <2>1. CASE UNCHANGED <<calls, save>>
    BY <1>1, <2>1 DEF save
  <2>2. CASE ~ UNCHANGED <<calls, save>>
    <3>1. /\ saving' = [saving EXCEPT ![v] = TRUE]
          /\ body' = [body EXCEPT ![v] = fields[v]]
          /\ sent' = [sent EXCEPT ![v] = @ + 1]
          /\ \E want, name, id : calls' = calls \cup {Call(v, want, fields[v], name, id)}
      BY <1>3, <2>2, SaveSends DEF ConfirmInv
    <3>2. ASSUME NEW d \in calls PROVE CallHolds(d)'
      <4>1. CASE d.by = v
        BY <1>a, <1>b, <3>1, <4>1, CallsLast DEF Waits
      <4>2. CASE d.by # v
        BY <1>a, <1>b, <3>1, <4>2, CallsLast DEF Waits
      <4>3. QED
        BY <4>1, <4>2
    <3>3. body'[v] = fields[v]
      BY <1>b, <3>1
    <3>4. PICK k : calls' = calls \cup {k} /\ k.step = "category" /\ k.by = v /\ k.body = fields[v]
      BY <3>1, NewCallIs
    <3>5. CallHolds(k)'
      BY <3>3, <3>4, NewCallHolds
    <3>6. QED
      BY <3>2, <3>4, <3>5
  <2>3. QED
    BY <2>1, <2>2
<1>4. ASSUME NEW v \in Visit, Edit(v) PROVE \A d \in calls' : CallHolds(d)'
  <2>1. UNCHANGED <<calls, save>>
    BY <1>4 DEF Edit, LoadLists, LoadReceipt, LoadImage, Back, TypeMerchant, ChooseCategory,
       UseCorrection, TryAgain, ReplaceTyped, KeepTyped
  <2>2. QED
    BY <1>1, <2>1 DEF save
<1>5. ASSUME NEW v \in Visit, Submit(v) PROVE \A d \in calls' : CallHolds(d)'
  <2>1. CASE CloseDialog(v)
    BY <1>1, <2>1 DEF CloseDialog, save
  <2>2. QED
    BY <1>3, <1>5, <2>1 DEF Submit, Press, SaveOnly, SaveAndRemember
<1>6. ASSUME NEW v \in Visit, NEW c \in calls, AnswerRule(v, c) PROVE \A d \in calls' : CallHolds(d)'
  <2>1. CASE c.answer = "stored"
    <3>1. /\ UNCHANGED <<saving, body>> /\ sent' = [sent EXCEPT ![v] = @ + 1]
          /\ calls' \subseteq calls \cup {Call(v, "expense", body[v], None, None)}
      BY <1>6, <2>1 DEF AnswerRule
    <3>2. ASSUME NEW d \in calls PROVE CallHolds(d)'
      <4>1. CASE d.by = v
        BY <1>a, <1>b, <3>1, <4>1, CallsLast DEF Waits
      <4>2. CASE d.by # v
        BY <1>a, <1>b, <3>1, <4>2, CallsLast DEF Waits
      <4>3. QED
        BY <4>1, <4>2
    <3>3. PICK k : calls' \subseteq calls \cup {k} /\ k.step = "category" /\ k.by = v /\ k.body = body[v]
      BY <3>1, NewCallIs
    <3>4. CallHolds(k)'
      BY <3>1, <3>3, NewCallHolds
    <3>5. QED
      BY <3>2, <3>3, <3>4
  <2>2. CASE c.answer # "stored"
    BY <1>2, <1>6, <2>2 DEF AnswerRule, RuleFailed
  <2>3. QED
    BY <2>1, <2>2
<1>7. ASSUME NEW v \in Visit, NEW c \in calls, AnswerExpense(v, c) PROVE \A d \in calls' : CallHolds(d)'
  BY <1>1, <1>2, <1>7 DEF AnswerExpense
<1>8. ASSUME NEW v \in Visit, NEW c \in calls, GoOffline(v, c) PROVE \A d \in calls' : CallHolds(d)'
  BY <1>2, <1>8 DEF GoOffline, RuleFailed
<1>9. ASSUME NEW v \in Visit, HearRetry(v) PROVE \A d \in calls' : CallHolds(d)'
  BY <1>1, <1>9 DEF HearRetry, AnswerReading, RetryFails, save
<1>10. ASSUME NEW c \in calls, CheckCategory(c) PROVE \A d \in calls' : CallHolds(d)'
  <2>1. UNCHANGED visits /\ (\/ \E a \in {"invalid", "badCategory"} : Reply(c, a)
                             \/ \E s \in {"receipt", "write"} : Goto(c, s))
    BY <1>10 DEF CheckCategory
  <2>2. QED
    BY <1>a, <2>1, RepliedCallHolds, GoingOnHolds
<1>11. ASSUME NEW c \in calls, CheckReceipt(c) PROVE \A d \in calls' : CallHolds(d)'
  <2>1. UNCHANGED visits /\ (Goto(c, "write") \/ (Reply(c, "badReceipt") /\ receipt' = "deleted"))
    BY <1>11 DEF CheckReceipt, ReceiptIsLive, store
  <2>2. QED
    BY <1>a, <2>1, RepliedCallHolds, GoingOnHolds
<1>12. ASSUME NEW c \in calls, WriteRule(c) PROVE \A d \in calls' : CallHolds(d)'
  <2>1. UNCHANGED visits /\ \E a \in {"stored", "conflict"} : Reply(c, a)
    BY <1>12 DEF WriteRule
  <2>2. QED
    BY <1>a, <2>1, RepliedCallHolds
<1>13. ASSUME NEW c \in calls, InsertExpense(c) PROVE \A d \in calls' : CallHolds(d)'
  <2>1. UNCHANGED visits
    BY <1>13 DEF InsertExpense
  <2>2. CASE Filed
    <3>1. Reply(c, "taken") /\ UNCHANGED expense
      BY <1>13, <2>2 DEF InsertExpense
    <3>2. QED
      BY <1>a, <2>1, <2>2, <3>1, SomeRow, RepliedCallHolds
  <2>3. CASE ~ Filed
    <3>1. Reply(c, "created") /\ expense' = Append(expense, [by |-> c.by, as |-> c.body])
      BY <1>13, <2>3 DEF InsertExpense
    <3>2. Waits(c) => Stored(c.by)'
      <4>1. Waits(c) => c.body = body'[c.by]
        BY <2>1 DEF ConfirmInv, CallHolds, visits, save
      <4>2. Len(expense) + 1 \in DOMAIN expense' /\ expense'[Len(expense) + 1] = [by |-> c.by, as |-> c.body]
        BY <1>a, <3>1 DEF StoreOK
      <4>3. QED
        BY <4>1, <4>2 DEF Stored
    <3>3. QED
      BY <1>a, <2>1, <3>1, <3>2, RepliedCallHolds
  <2>4. QED
    BY <2>2, <2>3
<1>14. ASSUME NEW c \in calls, Vanish(c) PROVE \A d \in calls' : CallHolds(d)'
  BY <1>1, <1>14 DEF Vanish, visits, save
<1>15. ASSUME NEW v \in Visit, FindReceipt(v) \/ Reread(v) \/ LinkReading(v) PROVE \A d \in calls' : CallHolds(d)'
  BY <1>1, <1>15 DEF FindReceipt, Reread, LinkReading, save
<1>16. CASE Others \/ UNCHANGED vars
  BY <1>1, <1>16, OthersKeepVisits DEF vars, visits, save
<1>17. QED
  BY <1>4, <1>5, <1>6, <1>7, <1>8, <1>9, <1>10, <1>11, <1>12, <1>13, <1>14, <1>15, <1>16
     DEF Next, HearSave, HearRetry, Serve

LEMMA StepKeepsConfirmInv == ConfirmInv /\ [Next]_vars => ConfirmInv'
BY TypesStayOK, OrderStays, BeliefsStay, CallsStayTrue DEF ConfirmInv

-----------------------------------------------------------------------------
(* The invariant, for any number of visits, names and calls.               *)
THEOREM ConfirmInvariant == Spec => []ConfirmInv
<1>1. Init => ConfirmInv
  BY InitConfirmInv
<1>2. ConfirmInv /\ [Next]_vars => ConfirmInv'
  BY StepKeepsConfirmInv
<1>3. QED
  BY <1>1, <1>2, PTL DEF Spec

(* "Filed", "already been filed" and "not found" are true when the screen  *)
(* is left with them.                                                      *)
THEOREM TrueNotices == Spec => []NoticeIsTrue
<1>1. ConfirmInv => NoticeIsTrue
  BY DEF ConfirmInv, Believes, Stored, NoticeIsTrue
<1>2. QED
  BY <1>1, ConfirmInvariant, PTL

(* While the user is asked, no reading is on its way.                      *)
THEOREM StableQuestions == Spec => []QuestionIsStable
<1>1. ConfirmInv => QuestionIsStable
  BY DEF ConfirmInv, AsksInOrder, QuestionIsStable
<1>2. QED
  BY <1>1, ConfirmInvariant, PTL

(* A correction is sent only by SaveAndRemember, with the values shown.    *)
LEMMA StepIsApproved ==
  ASSUME ConfirmInv, Next, NEW c \in calls' \ calls, c.want = "rule", c.no = sent[c.by] + 1
  PROVE  dialog[c.by] = "remember" /\ c.body = fields[c.by]
<1>a. \A d \in calls : d \in CallRecord /\ d.no \in Nat /\ d.no <= sent[d.by] /\ sent[d.by] \in Nat
  BY DEF ConfirmInv, TypeOK, CallsOK, CallRecord, SaveOK
<1>1. ASSUME NEW d \in calls, NEW step, NEW answer,
             c = [d EXCEPT !.step = step] \/ c = [d EXCEPT !.step = step, !.answer = answer]
      PROVE  FALSE
  <2>1. c.no = d.no /\ c.by = d.by
    BY <1>1, <1>a DEF CallRecord
  <2>2. QED
    BY <1>a, <2>1
<1>2. ASSUME NEW v \in Visit, NEW how, Save(v, how) PROVE how = "remember" /\ c.by = v /\ c.body = fields[v]
  <2>1. \/ c = Call(v, "expense", fields[v], None, None)
        \/ how = "remember" /\ \E id : c = Call(v, "rule", fields[v], detected[v], id)
    BY <1>2, SaveSends DEF ConfirmInv
  <2>2. QED
    BY <2>1 DEF Call
<1>3. ASSUME NEW v \in Visit, Submit(v) PROVE dialog[c.by] = "remember" /\ c.body = fields[c.by]
  <2>1. CASE Press(v)
    <3>1. choice[v] = "ask"
      BY DEF ConfirmInv, AsksInOrder
    <3>2. QED
      BY <1>2, <2>1, <3>1 DEF Press
  <2>2. CASE SaveOnly(v)
    BY <1>2, <2>2 DEF SaveOnly
  <2>3. CASE SaveAndRemember(v)
    BY <1>2, <2>3 DEF SaveAndRemember
  <2>4. CASE CloseDialog(v)
    BY <2>4 DEF CloseDialog
  <2>5. QED
    BY <1>3, <2>1, <2>2, <2>3, <2>4 DEF Submit
<1>4. ASSUME NEW v \in Visit, Edit(v) \/ HearRetry(v) PROVE FALSE
  BY <1>4 DEF Edit, LoadLists, LoadReceipt, LoadImage, Back, TypeMerchant, ChooseCategory, UseCorrection,
     TryAgain, ReplaceTyped, KeepTyped, HearRetry, AnswerReading, RetryFails
<1>5. ASSUME NEW v \in Visit, HearSave(v) PROVE FALSE
  <2>1. PICK d \in calls : AnswerRule(v, d) \/ AnswerExpense(v, d) \/ GoOffline(v, d)
    BY <1>5 DEF HearSave
  <2>2. calls' \subseteq calls \/ calls' \subseteq calls \cup {Call(v, "expense", body[v], None, None)}
    BY <2>1 DEF AnswerRule, AnswerExpense, GoOffline
  <2>3. QED
    BY <2>2 DEF Call
<1>6. ASSUME NEW d \in calls,
             CheckCategory(d) \/ CheckReceipt(d) \/ WriteRule(d) \/ InsertExpense(d) \/ Vanish(d)
      PROVE  FALSE
  <2>1. \/ calls' \subseteq calls
        \/ \E step : Goto(d, step)
        \/ \E answer : Reply(d, answer)
    BY <1>6 DEF CheckCategory, CheckReceipt, WriteRule, InsertExpense, Vanish
  <2>2. QED
    BY <1>1, <2>1 DEF Goto, Reply
<1>7. ASSUME NEW v \in Visit, FindReceipt(v) \/ Reread(v) \/ LinkReading(v) PROVE FALSE
  BY <1>7 DEF FindReceipt, Reread, LinkReading
<1>8. CASE Others
  BY <1>8, OthersKeepVisits
<1>9. QED
  BY <1>3, <1>4, <1>5, <1>6, <1>7, <1>8 DEF Next, Serve

(* A correction is stored only with the values the user agreed to.          *)
THEOREM ApprovedRules == Spec => RulesAreApproved
<1>1. ConfirmInv /\ [Next]_vars =>
        [\A c \in calls' \ calls : (c.want = "rule" /\ c.no = sent[c.by] + 1) =>
           dialog[c.by] = "remember" /\ c.body = fields[c.by]]_vars
  BY StepIsApproved
<1>2. QED
  BY <1>1, ConfirmInvariant, PTL DEF Spec, RulesAreApproved

=============================================================================
