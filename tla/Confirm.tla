------------------------------ MODULE Confirm ------------------------------
(***************************************************************************)
(* Filing one receipt: the confirm screen of the web client, opened by     *)
(* several visits (pages, tabs, devices), and the handlers it calls.       *)
(*                                                                         *)
(* A visit loads the receipt, the categories and the merchant corrections  *)
(* once.  The user types, may ask for the receipt to be read again, and    *)
(* saves: an expense, or a correction to remember and then an expense.     *)
(* Calls are messages: a visit whose connection fails stops waiting, and   *)
(* its call may still be served, later or never.                           *)
(*                                                                         *)
(* Of the form's fields two are kept, the merchant for all that is typed   *)
(* or read, the category because no reading fills it in.                   *)
(***************************************************************************)
EXTENDS Integers, Sequences

CONSTANTS
    Visit,      \* visits to the confirm screen of the receipt
    Category,   \* category ids
    Merchant,   \* merchant names, as typed
    Reading,    \* merchant names a reading can find on the receipt
    MaxCalls,   \* bound on the calls one visit makes to save
    MaxOthers,  \* bound on what happens elsewhere meanwhile
    None        \* null, an empty field, no answer

ASSUME ReadingAssumption == Reading \subseteq Merchant /\ {"other", "filed"} \cap Reading = {}
ASSUME NoneAssumption == None \notin Visit \cup Merchant \cup Category \cup Nat \cup {"filed"}
ASSUME BoundAssumption == MaxCalls \in Nat /\ MaxOthers \in Nat

VARIABLES
    live,       \* categories that are not deleted
    receipt,    \* receipts row: "live", "leaving" (DELETE has checked), "deleted"
    reading,    \* the newest extraction on record: a merchant, None if unread
    rule,       \* merchant_corrections by detected name, None where there is none
    nextRule,   \* the next rule's id
    expense,    \* expenses rows of the receipt, in the order of their INSERTs
    gone,       \* places of those that are deleted
    others,     \* how much has happened elsewhere
    calls,      \* calls to save that the API has not finished, or not answered
    page,       \* "closed", "loading", "form" or "left"
    offered,    \* categories the form offers
    saved,      \* the visit's copy of the corrections
    image,      \* "none", "asked", "shown" or "missing"
    detected,   \* merchant of the reading it shows, None if unread
    fields,     \* what the form holds
    initial,    \* what it held when it was filled in: initialFields
    dialog,     \* "no", "remember" (the correction?) or "replace" (what was typed?)
    found,      \* pendingReading
    choice,     \* saveChoiceRef
    saving,     \* savingRef
    sent,       \* calls made so far; the last is the one it may wait for
    body,       \* what the running save sends
    told,       \* the last notice or error
    retry,      \* "idle", "sent", "reading", "read" or "answered"
    seen,       \* fields of the render in which "Try again" was pressed
    got         \* what the second reading answers

store == <<live, receipt, reading, rule, nextRule, expense, gone, others>>
lists == <<offered, saved, image>>
form == <<detected, fields, initial>>
ask == <<dialog, found, choice>>
save == <<saving, sent, body>>
again == <<retry, seen, got>>
visits == <<page, lists, form, ask, save, told, again>>
vars == <<store, calls, visits>>

Fields == [merchant : Merchant \cup {None}, category : Category \cup {None}]
Rule == [id : Nat, merchant : Merchant, category : Category]
Saved == [id : Nat, merchant : Merchant, category : Category, active : BOOLEAN]
(* What GET /merchant-corrections lists, with its categoryActive.          *)
Listed(r) == [id |-> r.id, merchant |-> r.merchant, category |-> r.category,
              active |-> r.category \in live]
Blank == [merchant |-> None, category |-> None]
NoRules == [d \in Reading |-> None]

Init ==
    /\ live = Category /\ receipt = "live" /\ reading \in Reading \cup {None}
    /\ rule \in [Reading -> {None} \cup [id : {0}, merchant : Merchant, category : Category]]
    /\ nextRule = 1 /\ expense = <<>> /\ gone = {} /\ others = 0 /\ calls = {}
    /\ page = [v \in Visit |-> "closed"]
    /\ offered = [v \in Visit |-> {}]
    /\ saved = [v \in Visit |-> NoRules]
    /\ image = [v \in Visit |-> "none"]
    /\ detected = [v \in Visit |-> None]
    /\ fields = [v \in Visit |-> Blank]
    /\ initial = [v \in Visit |-> Blank]
    /\ dialog = [v \in Visit |-> "no"]
    /\ found = [v \in Visit |-> None]
    /\ choice = [v \in Visit |-> "ask"]
    /\ saving = [v \in Visit |-> FALSE]
    /\ sent = [v \in Visit |-> 0]
    /\ body = [v \in Visit |-> Blank]
    /\ told = [v \in Visit |-> "nothing"]
    /\ retry = [v \in Visit |-> "idle"]
    /\ seen = [v \in Visit |-> Blank]
    /\ got = [v \in Visit |-> None]

-----------------------------------------------------------------------------
LiveExpenses == DOMAIN expense \ gone

(* findLiveById, liveExpenseIdFor.                                         *)
ReceiptIsLive == receipt # "deleted"
Filed == LiveExpenses # {}

(* The screen is left and its state with it; what save has captured stays. *)
Unmount(v) ==
    /\ page' = [page EXCEPT ![v] = "left"]
    /\ offered' = [offered EXCEPT ![v] = {}]
    /\ saved' = [saved EXCEPT ![v] = NoRules]
    /\ image' = [image EXCEPT ![v] = "none"]
    /\ detected' = [detected EXCEPT ![v] = None]
    /\ fields' = [fields EXCEPT ![v] = Blank]
    /\ initial' = [initial EXCEPT ![v] = Blank]
    /\ dialog' = [dialog EXCEPT ![v] = "no"]
    /\ found' = [found EXCEPT ![v] = None]
    /\ retry' = [retry EXCEPT ![v] = "idle"]
    /\ seen' = [seen EXCEPT ![v] = Blank]
    /\ got' = [got EXCEPT ![v] = None]

(* navigate, with a notice for the inbox.                                  *)
Leave(v, notice) ==
    /\ Unmount(v)
    /\ told' = [told EXCEPT ![v] = notice]

(* An error on the form; nobody sees it once the screen is left.           *)
Tell(v, error) ==
    told' = [told EXCEPT ![v] = IF page[v] = "form" THEN error ELSE @]

(* The correction for what the receipt says, in the visit's copy.          *)
Suggestion(v) == IF detected[v] = None THEN None ELSE saved[v][detected[v]]

(* fieldsFromExtraction.                                                   *)
Shown(m) == [merchant |-> m, category |-> None]

(* applyReading.                                                           *)
ApplyReading(v, m) ==
    /\ detected' = [detected EXCEPT ![v] = m]
    /\ fields' = [fields EXCEPT ![v] = Shown(m)]
    /\ initial' = [initial EXCEPT ![v] = Shown(m)]

-----------------------------------------------------------------------------
(* The one-time load: the lists, either of which may fail unnoticed ...    *)
LoadLists(v) ==
    /\ page[v] = "closed"
    /\ page' = [page EXCEPT ![v] = "loading"]
    /\ \E cs \in {live, {}},
          rs \in {NoRules, [d \in Reading |-> IF rule[d] = None THEN None ELSE Listed(rule[d])]} :
         /\ offered' = [offered EXCEPT ![v] = cs]
         /\ saved' = [saved EXCEPT ![v] = rs]
    /\ UNCHANGED <<image, store, calls, form, ask, save, told, again>>

(* ... and the receipt, without which there is no form.                    *)
LoadReceipt(v) ==
    /\ page[v] = "loading"
    /\ \/ ~ ReceiptIsLive /\ Leave(v, "notFound")
       \/ ReceiptIsLive /\ Filed /\ Leave(v, "already")
       \/ Leave(v, "nothing")
       \/ /\ ReceiptIsLive /\ ~ Filed
          /\ page' = [page EXCEPT ![v] = "form"]
          /\ image' = [image EXCEPT ![v] = "asked"]
          /\ ApplyReading(v, reading)
          /\ UNCHANGED <<offered, saved, dialog, found, again, told>>
    /\ UNCHANGED <<store, calls, choice, save>>

(* Then the image; a 404 leaves the screen, whatever is on it.             *)
LoadImage(v) ==
    /\ page[v] = "form" /\ image[v] = "asked"
    /\ \/ ~ ReceiptIsLive /\ Leave(v, "notFound")
       \/ \E i \in (IF ReceiptIsLive THEN {"shown", "missing"} ELSE {"missing"}) :
            /\ image' = [image EXCEPT ![v] = i]
            /\ UNCHANGED <<page, offered, saved, form, dialog, found, again, told>>
    /\ UNCHANGED <<store, calls, choice, save>>

(* A form that no dialog covers.                                           *)
Open(v) == page[v] = "form" /\ dialog[v] = "no"

TypeMerchant(v, m) ==
    /\ Open(v)
    /\ fields' = [fields EXCEPT ![v].merchant = m]
    /\ UNCHANGED <<store, calls, page, lists, detected, initial, ask, save, told, again>>

ChooseCategory(v, c) ==
    /\ Open(v) /\ c \in offered[v]
    /\ fields' = [fields EXCEPT ![v].category = c]
    /\ UNCHANGED <<store, calls, page, lists, detected, initial, ask, save, told, again>>

(* "Use saved correction": its category only if it was active on loading.  *)
UseCorrection(v) ==
    LET s == Suggestion(v) IN
    /\ Open(v) /\ s # None
    /\ fields' = [fields EXCEPT ![v] =
         [merchant |-> s.merchant,
          category |-> IF s.active THEN s.category ELSE fields[v].category]]
    /\ UNCHANGED <<store, calls, page, lists, detected, initial, ask, save, told, again>>

Back(v) ==
    /\ Open(v)
    /\ Unmount(v)
    /\ UNCHANGED <<store, calls, choice, save, told>>

-----------------------------------------------------------------------------
(* One call of a visit to save: its body, and for a correction the name    *)
(* detected and the rule it updates, if any.                               *)
Call(v, want, what, name, id) ==
    [by |-> v, no |-> sent[v] + 1, want |-> want, step |-> "category",
     body |-> what, name |-> name, id |-> id, answer |-> None]

Waits(c) == saving[c.by] /\ c.no = sent[c.by]

(* save reaches the correction or the expense it has to POST or PATCH.     *)
Send(v, want, name, id) ==
    /\ calls' = calls \cup {Call(v, want, fields[v], name, id)}
    /\ sent' = [sent EXCEPT ![v] = @ + 1]

(* The dialog is asked for when the values differ from what was detected   *)
(* and from the saved correction.                                          *)
Asks(v) ==
    LET s == Suggestion(v)
        f == fields[v] IN
    /\ detected[v] # None
    /\ s # None =>
          /\ f.merchant # detected[v] \/ f.category # s.category
          /\ f.merchant # s.merchant \/ f.category # s.category

(* Mutant: saveChoiceRef is left as it was.                                *)
ChoiceKept(c) == c
(* What a save leaves in saveChoiceRef, having read c in it.               *)
ChoiceAfter(c) == "ask"

(* save, up to its first await, with the choice c in saveChoiceRef.        *)
Save(v, c) ==
    /\ ~ saving[v] /\ sent[v] < MaxCalls
    /\ choice' = [choice EXCEPT ![v] = ChoiceAfter(c)]
    /\ told' = [told EXCEPT ![v] = "nothing"]
    /\ \/ /\ dialog[v] = "no"  \* another field is invalid
          /\ UNCHANGED <<dialog, save, calls>>
       \/ /\ c = "ask" /\ Asks(v)
          /\ dialog' = [dialog EXCEPT ![v] = "remember"]
          /\ UNCHANGED <<save, calls>>
       \/ /\ ~ (c = "ask" /\ Asks(v))
          /\ dialog' = [dialog EXCEPT ![v] = "no"]
          /\ saving' = [saving EXCEPT ![v] = TRUE]
          /\ body' = [body EXCEPT ![v] = fields[v]]
          /\ IF c = "remember" /\ detected[v] # None
               THEN Send(v, "rule", detected[v],
                         IF Suggestion(v) = None THEN None ELSE Suggestion(v).id)
               ELSE Send(v, "expense", None, None)

(* "Save expense".                                                         *)
Press(v) ==
    /\ Open(v) /\ fields[v].category # None
    /\ Save(v, choice[v])
    /\ UNCHANGED <<store, page, lists, form, found, again>>

(* "Save only", "Save and remember", and closing the dialog.               *)
SaveOnly(v) ==
    /\ page[v] = "form" /\ dialog[v] = "remember"
    /\ Save(v, "only")
    /\ UNCHANGED <<store, page, lists, form, found, again>>

SaveAndRemember(v) ==
    /\ page[v] = "form" /\ dialog[v] = "remember"
    /\ Save(v, "remember")
    /\ UNCHANGED <<store, page, lists, form, found, again>>

CloseDialog(v) ==
    /\ page[v] = "form" /\ dialog[v] = "remember"
    /\ dialog' = [dialog EXCEPT ![v] = "no"]
    /\ UNCHANGED <<store, calls, page, lists, form, found, choice, save, told, again>>

-----------------------------------------------------------------------------
(* What the API does with a call.                                          *)

(* The call goes on, or is answered; nobody hears an answer not waited for.*)
Goto(c, step) == calls' = (calls \ {c}) \cup {[c EXCEPT !.step = step]}
Reply(c, answer) ==
    calls' = (calls \ {c}) \cup
        (IF Waits(c) THEN {[c EXCEPT !.step = "answered", !.answer = answer]} ELSE {})

(* valid and badReference read the category; a correction without a name   *)
(* is refused before.                                                      *)
CheckCategory(c) ==
    /\ c.step = "category"
    /\ IF c.want = "rule" /\ c.body.merchant = None THEN Reply(c, "invalid")
       ELSE IF c.body.category \notin live THEN Reply(c, "badCategory")
       ELSE Goto(c, IF c.want = "rule" THEN "write" ELSE "receipt")
    /\ UNCHANGED <<store, visits>>

(* badReference reads the receipt.                                         *)
CheckReceipt(c) ==
    /\ c.step = "receipt"
    /\ IF ReceiptIsLive THEN Goto(c, "write") ELSE Reply(c, "badReceipt")
    /\ UNCHANGED <<store, visits>>

(* POST meets no other correction of the name; PATCH finds its own.        *)
RuleFits(c, d) == IF c.id = None THEN rule[d] = None
                  ELSE rule[d] # None /\ rule[d].id = c.id

(* POST and PATCH /merchant-corrections: one statement, one unique index.  *)
WriteRule(c) ==
    LET d == c.name
        r == [id |-> IF c.id = None THEN nextRule ELSE c.id,
              merchant |-> c.body.merchant, category |-> c.body.category] IN
    /\ c.step = "write" /\ c.want = "rule"
    /\ IF RuleFits(c, d)
         THEN /\ rule' = [rule EXCEPT ![d] = r]
              /\ nextRule' = IF c.id = None THEN nextRule + 1 ELSE nextRule
              /\ Reply(c, "stored")
         ELSE Reply(c, "conflict") /\ UNCHANGED <<rule, nextRule>>
    /\ UNCHANGED <<live, receipt, reading, expense, gone, others, visits>>

(* insertExpense: the partial unique index decides.                        *)
InsertExpense(c) ==
    /\ c.step = "write" /\ c.want = "expense"
    /\ IF Filed THEN Reply(c, "taken") /\ UNCHANGED expense
       ELSE /\ expense' = Append(expense, [by |-> c.by, as |-> c.body])
            /\ Reply(c, "created")
    /\ UNCHANGED <<live, receipt, reading, rule, nextRule, gone, others, visits>>

(* The call never arrives, or the process dies, or the database fails it.  *)
Vanish(c) ==
    /\ c.step # "answered" /\ ~ Waits(c)
    /\ calls' = calls \ {c}
    /\ UNCHANGED <<store, visits>>

-----------------------------------------------------------------------------
(* The rest of save, when its call is answered.                            *)

Done(v) == saving' = [saving EXCEPT ![v] = FALSE]

(* Mutant: the error path of the correction leaves savingRef set.          *)
RuleFailedStillSaving(v) == Tell(v, "notFiled") /\ UNCHANGED saving
(* The correction could not be saved: the expense is not sent.             *)
RuleFailed(v) == Done(v) /\ Tell(v, "notFiled")

AnswerRule(v, c) ==
    /\ c.want = "rule" /\ c.step = "answered" /\ Waits(c) /\ c.by = v
    /\ IF c.answer = "stored"
         THEN /\ sent[v] < MaxCalls
              /\ calls' = (calls \ {c}) \cup {Call(v, "expense", body[v], None, None)}
              /\ sent' = [sent EXCEPT ![v] = @ + 1]
              /\ UNCHANGED <<saving, body, told>>
         ELSE /\ calls' = calls \ {c}
              /\ RuleFailed(v)
              /\ UNCHANGED <<sent, body>>
    /\ UNCHANGED <<store, page, lists, form, ask, again>>

(* Mutant: 422 and 409 are told apart by nothing.                          *)
NoticeAlways(answer) == "already"
(* The notice a refused save leaves the screen with.                       *)
Notice(answer) == IF answer = "taken" THEN "already" ELSE "notFound"

AnswerExpense(v, c) ==
    /\ c.want = "expense" /\ c.step = "answered" /\ Waits(c) /\ c.by = v
    /\ calls' = calls \ {c}
    /\ \/ c.answer = "created" /\ Leave(v, "filed") /\ UNCHANGED saving
       \/ c.answer \in {"badReceipt", "taken"} /\ Leave(v, Notice(c.answer)) /\ Done(v)
       \/ /\ c.answer = "badCategory"
          /\ Done(v) /\ Tell(v, "failed")
          /\ \E cs \in {live, offered[v]} :
               offered' = [offered EXCEPT ![v] = IF page[v] = "form" THEN cs ELSE @]
          /\ UNCHANGED <<page, saved, image, form, dialog, found, again>>
    /\ UNCHANGED <<store, choice, sent, body>>

(* The connection fails, or the API does (5xx): the call goes on without   *)
(* the visit, or vanishes.                                                 *)
GoOffline(v, c) ==
    /\ Waits(c) /\ c.by = v
    /\ calls' = IF c.step = "answered" THEN calls \ {c} ELSE calls
    /\ IF c.want = "rule" THEN RuleFailed(v) ELSE Done(v) /\ Tell(v, "failed")
    /\ UNCHANGED <<store, page, lists, form, ask, sent, body, again>>

-----------------------------------------------------------------------------
(* retryReading: offered while the receipt is unread.                      *)
TryAgain(v) ==
    /\ Open(v) /\ detected[v] = None /\ image[v] = "shown" /\ retry[v] = "idle"
    /\ retry' = [retry EXCEPT ![v] = "sent"]
    /\ seen' = [seen EXCEPT ![v] = fields[v]]
    /\ UNCHANGED <<store, calls, page, lists, form, ask, save, told, got>>

(* POST /receipts with the same bytes finds the receipt, unless it is      *)
(* deleted and the upload becomes another one ...                          *)
FindReceipt(v) ==
    /\ retry[v] = "sent"
    /\ IF ReceiptIsLive
         THEN retry' = [retry EXCEPT ![v] = "reading"] /\ UNCHANGED got
         ELSE /\ retry' = [retry EXCEPT ![v] = "answered"]
              /\ got' = [got EXCEPT ![v] = "other"]
    /\ UNCHANGED <<store, calls, page, lists, form, ask, save, told, seen>>

(* ... records a new attempt, read or unread ...                           *)
Reread(v) ==
    /\ retry[v] = "reading"
    /\ \E m \in Reading \cup {None} :
         /\ reading' = m
         /\ got' = [got EXCEPT ![v] = m]
    /\ retry' = [retry EXCEPT ![v] = "read"]
    /\ UNCHANGED <<live, receipt, rule, nextRule, expense, gone, others, calls>>
    /\ UNCHANGED <<page, lists, form, ask, save, told, seen>>

(* ... and the answer names the live expense of the receipt.               *)
LinkReading(v) ==
    /\ retry[v] = "read"
    /\ got' = [got EXCEPT ![v] = IF Filed THEN "filed" ELSE @]
    /\ retry' = [retry EXCEPT ![v] = "answered"]
    /\ UNCHANGED <<store, calls, page, lists, form, ask, save, told, seen>>

(* hasEdits, in the closure of the render in which retryReading started.   *)
HasEdits(v) == seen[v] # initial[v]

(* Mutant: the answer's receipt id is not compared with the screen's.      *)
IsAnyReading(r) == r \notin {None, "filed"}
(* A reading of this receipt, and a readable one.                          *)
IsReading(r) == r \in Reading

EndRetry(v) ==
    /\ retry' = [retry EXCEPT ![v] = "idle"]
    /\ seen' = [seen EXCEPT ![v] = Blank]
    /\ got' = [got EXCEPT ![v] = None]

AnswerReading(v) ==
    /\ retry[v] = "answered"
    /\ EndRetry(v)
    /\ \/ got[v] = "filed" /\ Leave(v, "already")
       \/ /\ got[v] \in {"other", None}
          /\ UNCHANGED <<page, told, lists, form, dialog, found>>
       \/ /\ IsReading(got[v]) /\ HasEdits(v)
          /\ dialog' = [dialog EXCEPT ![v] = "replace"]
          /\ found' = [found EXCEPT ![v] = got[v]]
          /\ UNCHANGED <<page, told, lists, form>>
       \/ /\ IsReading(got[v]) /\ ~ HasEdits(v)
          /\ ApplyReading(v, got[v])
          /\ told' = [told EXCEPT ![v] = "nothing"]
          /\ UNCHANGED <<page, lists, dialog, found>>
    /\ UNCHANGED <<store, calls, choice, save>>

(* The retry fails, whether or not the attempt is on record.               *)
RetryFails(v) ==
    /\ retry[v] # "idle"
    /\ EndRetry(v)
    /\ UNCHANGED <<store, calls, page, lists, form, ask, save, told>>

(* "Replace typed values?"                                                 *)
ReplaceTyped(v) ==
    /\ page[v] = "form" /\ dialog[v] = "replace"
    /\ ApplyReading(v, found[v])
    /\ dialog' = [dialog EXCEPT ![v] = "no"]
    /\ found' = [found EXCEPT ![v] = None]
    /\ told' = [told EXCEPT ![v] = "nothing"]
    /\ UNCHANGED <<store, calls, page, lists, choice, save, again>>

KeepTyped(v) ==
    /\ page[v] = "form" /\ dialog[v] = "replace"
    /\ dialog' = [dialog EXCEPT ![v] = "no"]
    /\ found' = [found EXCEPT ![v] = None]
    /\ UNCHANGED <<store, calls, page, lists, form, choice, save, told, again>>

-----------------------------------------------------------------------------
(* What other screens and devices of the account do meanwhile.             *)
Meanwhile == others < MaxOthers /\ others' = others + 1

DeleteCategory(c) ==
    /\ c \in live /\ Meanwhile
    /\ live' = live \ {c}
    /\ UNCHANGED <<receipt, reading, rule, nextRule, expense, gone, calls, visits>>

DeleteRule(d) ==
    /\ rule[d] # None /\ Meanwhile
    /\ rule' = [rule EXCEPT ![d] = None]
    /\ UNCHANGED <<live, receipt, reading, nextRule, expense, gone, calls, visits>>

DeleteExpense(i) ==
    /\ i \in LiveExpenses /\ Meanwhile
    /\ gone' = gone \cup {i}
    /\ UNCHANGED <<live, receipt, reading, rule, nextRule, expense, calls, visits>>

(* A page whose steps are not followed files the receipt first.            *)
FileElsewhere(f) ==
    /\ ReceiptIsLive /\ ~ Filed /\ f.category \in live /\ Meanwhile
    /\ expense' = Append(expense, [by |-> None, as |-> f])
    /\ UNCHANGED <<live, receipt, reading, rule, nextRule, gone, calls, visits>>

(* DELETE /receipts/:id checks, then marks (module Archive).               *)
CheckAttached ==
    /\ receipt = "live" /\ ~ Filed /\ Meanwhile
    /\ receipt' = "leaving"
    /\ UNCHANGED <<live, reading, rule, nextRule, expense, gone, calls, visits>>

DeleteReceipt ==
    /\ receipt = "leaving"
    /\ receipt' = "deleted"
    /\ UNCHANGED <<live, reading, rule, nextRule, expense, gone, others, calls, visits>>

-----------------------------------------------------------------------------
Edit(v) ==
    \/ LoadLists(v) \/ LoadReceipt(v) \/ LoadImage(v) \/ Back(v)
    \/ \E m \in Merchant \cup {None} : TypeMerchant(v, m)
    \/ \E c \in Category : ChooseCategory(v, c)
    \/ UseCorrection(v)
    \/ TryAgain(v) \/ ReplaceTyped(v) \/ KeepTyped(v)

Submit(v) == Press(v) \/ SaveOnly(v) \/ SaveAndRemember(v) \/ CloseDialog(v)

HearSave(v) == \E c \in calls : AnswerRule(v, c) \/ AnswerExpense(v, c) \/ GoOffline(v, c)
HearRetry(v) == AnswerReading(v) \/ RetryFails(v)

Serve ==
    \/ \E c \in calls :
         CheckCategory(c) \/ CheckReceipt(c) \/ WriteRule(c) \/ InsertExpense(c) \/ Vanish(c)
    \/ \E v \in Visit : FindReceipt(v) \/ Reread(v) \/ LinkReading(v)

Others ==
    \/ \E c \in Category : DeleteCategory(c)
    \/ \E d \in Reading : DeleteRule(d)
    \/ \E i \in DOMAIN expense : DeleteExpense(i)
    \/ \E c \in Category : FileElsewhere([merchant |-> None, category |-> c])
    \/ CheckAttached \/ DeleteReceipt

Next == (\E v \in Visit : Edit(v) \/ Submit(v) \/ HearSave(v) \/ HearRetry(v)) \/ Serve \/ Others

Spec == Init /\ [][Next]_vars

(* A fetch is answered or fails; nothing else is ever sure to happen.      *)
FairSpec == Spec /\ \A v \in Visit : WF_vars(HearSave(v)) /\ WF_vars(HearRetry(v))

-----------------------------------------------------------------------------
Answer == {"stored", "conflict", "invalid", "created", "taken", "badCategory", "badReceipt"}
CallRecord ==
    [by : Visit, no : Nat, want : {"rule", "expense"},
     step : {"category", "receipt", "write", "answered"}, body : Fields,
     name : Reading \cup {None}, id : Nat \cup {None}, answer : Answer \cup {None}]

StoreOK ==
    /\ live \subseteq Category /\ receipt \in {"live", "leaving", "deleted"}
    /\ reading \in Reading \cup {None}
    /\ rule \in [Reading -> Rule \cup {None}] /\ nextRule \in Nat
    /\ expense \in Seq([by : Visit \cup {None}, as : Fields])
    /\ gone \subseteq DOMAIN expense /\ others \in 0..MaxOthers

CallsOK ==
    /\ \A c \in calls : c \in CallRecord /\ c.no <= sent[c.by]
    /\ \A c \in calls : c.want = "rule" => c.name \in Reading /\ c.step # "receipt"
    /\ \A c \in calls : (c.want = "rule" /\ c.step = "write") => c.body \in [merchant : Merchant, category : Category]

ScreenOK ==
    /\ page \in [Visit -> {"closed", "loading", "form", "left"}]
    /\ offered \in [Visit -> SUBSET Category]
    /\ saved \in [Visit -> [Reading -> Saved \cup {None}]]
    /\ image \in [Visit -> {"none", "asked", "shown", "missing"}]
    /\ detected \in [Visit -> Reading \cup {None}]
    /\ fields \in [Visit -> Fields] /\ initial \in [Visit -> Fields]
    /\ dialog \in [Visit -> {"no", "remember", "replace"}]
    /\ found \in [Visit -> Reading \cup {None}]

SaveOK ==
    /\ choice \in [Visit -> {"ask", "only", "remember"}]
    /\ saving \in [Visit -> BOOLEAN] /\ sent \in [Visit -> Nat]
    /\ body \in [Visit -> Fields] /\ seen \in [Visit -> Fields]
    /\ told \in [Visit -> {"nothing", "filed", "already", "notFound", "notFiled", "failed"}]
    /\ retry \in [Visit -> {"idle", "sent", "reading", "read", "answered"}]
    /\ got \in [Visit -> Reading \cup {None, "other", "filed"}]

TypeOK == StoreOK /\ CallsOK /\ ScreenOK /\ SaveOK

(* A notice the user leaves the screen with is true: "Filed" when an       *)
(* expense with the values sent was stored, "already been filed" when some *)
(* expense was, "not found" when the receipt is deleted.                   *)
NoticeIsTrue ==
    \A v \in Visit : page[v] = "left" =>
        /\ told[v] = "filed" => \E i \in DOMAIN expense : expense[i] = [by |-> v, as |-> body[v]]
        /\ told[v] = "already" => expense # <<>>
        /\ told[v] = "notFound" => receipt = "deleted"

(* A correction is sent only in answer to the question, with the values it *)
(* was about: no failed save and no further edit leaves a consent behind   *)
(* that a later press of "Save expense" would use.                         *)
RulesAreApproved ==
    [][\A c \in calls' \ calls : (c.want = "rule" /\ c.no = sent[c.by] + 1) =>
         dialog[c.by] = "remember" /\ c.body = fields[c.by]]_vars

(* While the user is asked whether to remember a correction, no reading is *)
(* on its way that would change the values the question is about.          *)
QuestionIsStable ==
    \A v \in Visit : dialog[v] = "remember" => detected[v] # None /\ retry[v] = "idle"

(* The screen never stays on "Saving": every save is answered, told of its *)
(* failure, or leaves the screen.                                          *)
SavesEnd == \A v \in Visit : saving[v] ~> (~ saving[v] \/ page[v] = "left")

-----------------------------------------------------------------------------
(* Why they hold, one visit at a time (proved in Confirm_proofs).          *)

(* A dialog covers a form; no reading is on its way while one asks, and    *)
(* none for a receipt that is read.                                        *)
AsksInOrder(v) ==
    /\ page[v] # "form" => dialog[v] = "no" /\ retry[v] = "idle"
    /\ dialog[v] = "remember" => detected[v] # None
    /\ dialog[v] = "replace" => found[v] \in Reading /\ retry[v] = "idle"
    /\ retry[v] # "idle" => detected[v] = None
    /\ choice[v] = "ask"

(* What the notices say of the records, which never take it back.          *)
Stored(v) == \E i \in DOMAIN expense : expense[i] = [by |-> v, as |-> body[v]]

(* What the visit has been told, or waits to be told, is so.               *)
Believes(v) ==
    /\ page[v] # "left" => told[v] \notin {"filed", "already", "notFound"}
    /\ told[v] = "filed" => Stored(v)
    /\ told[v] = "already" => expense # <<>>
    /\ told[v] = "notFound" => receipt = "deleted"
    /\ got[v] = "filed" => expense # <<>>

(* A call carries what its save is about, and its answer is still so.       *)
CallHolds(c) ==
    /\ Waits(c) => c.body = body[c.by]
    /\ (c.step = "answered" /\ c.answer = "created" /\ Waits(c)) => Stored(c.by)
    /\ (c.step = "answered" /\ c.answer = "taken") => expense # <<>>
    /\ (c.step = "answered" /\ c.answer = "badReceipt") => receipt = "deleted"

(* Dialogs, saves and readings keep out of each other's way, and whatever   *)
(* another device did, what a visit was told of the records is so.          *)
ConfirmInv ==
    /\ TypeOK
    /\ \A v \in Visit : AsksInOrder(v) /\ Believes(v)
    /\ \A c \in calls : CallHolds(c)

-----------------------------------------------------------------------------
(* What the repository says, and the code does not do.                     *)

(* "Could not save merchant correction. Your expense has not been filed."  *)
(* is shown when an earlier save has filed it and its answer was lost.     *)
NotFiledIsTrue ==
    [][\A v \in Visit : (told[v] # "notFiled" /\ told'[v] = "notFiled")
            => \A i \in DOMAIN expense : expense[i].by # v]_vars

(* "A new reading is ready. Applying it will replace the values you typed."*)
(* asks for leave; a reading replaces values typed while it was read       *)
(* without asking.                                                         *)
TypedIsKept ==
    [][\A v \in Visit :
         (AnswerReading(v) /\ page'[v] = "form" /\ fields'[v] # fields[v])
            => fields[v] = initial[v]]_vars

=============================================================================
