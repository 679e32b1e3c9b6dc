---------------------------- MODULE ExpenseDetail ----------------------------
(***************************************************************************)
(* One filed expense: the screen of the web client that shows, edits and   *)
(* deletes it, opened by several visits, and the handlers it calls.        *)
(*                                                                         *)
(* A visit loads the expense and the categories once.  Saving sends what   *)
(* the form holds that differs from the last answer, never the form.       *)
(* Calls are messages: a visit whose connection fails stops waiting, and   *)
(* its call may still be served, later or never.                           *)
(*                                                                         *)
(* Of the form's fields three are kept: the category, which the API looks  *)
(* up; the merchant, where a blank clears; the currency, where a blank     *)
(* cannot be sent.  What the form refuses goes nowhere, and what the API   *)
(* refuses may be in any field.  Trimming and upper-casing, the image and  *)
(* a 401 (module WebSession) are left out.                                 *)
(***************************************************************************)
EXTENDS Integers, FiniteSets

CONSTANTS
    Visit,      \* visits to the screen of the expense
    Category,   \* category ids
    Code,       \* currency codes
    Name,       \* merchant names
    MaxTyped,   \* bound on the fields one edit types in
    MaxCalls,   \* bound on the calls one visit makes
    MaxOthers,  \* bound on what happens elsewhere meanwhile
    None        \* null, an empty field, no answer

Field == {"category", "merchant", "currency"}
Value == Category \cup Name \cup Code \cup {None}

(* What a column holds, and what an input does.                            *)
Stored == [f \in Field |->
    CASE f = "category" -> Category
      [] f = "merchant" -> Name \cup {None}
      [] f = "currency" -> Code]
Typable == [f \in Field |->
    IF f = "currency" THEN Code \cup {None} ELSE Stored[f]]

Row == {r \in [Field -> Value] : \A f \in Field : r[f] \in Stored[f]}
Form == {r \in [Field -> Value] : \A f \in Field : r[f] \in Typable[f]}

ASSUME BlankAssumption ==
    /\ None \notin Code \cup Visit \cup {"elsewhere"} \cup Row \cup Form
    /\ "elsewhere" \notin Visit
ASSUME BoundAssumption == MaxTyped \in Nat /\ MaxCalls \in Nat /\ MaxOthers \in Nat

VARIABLES
    row,        \* the expenses row
    goneBy,     \* who deleted it: a visit, "elsewhere", or None
    live,       \* categories that are not deleted
    others,     \* how much has happened elsewhere
    calls,      \* PATCH and DELETE calls the API has not finished, or not answered
    page,       \* "closed", "loading", "failed", "record" or "left"
    got,        \* the answer to GET /expenses/:id
    listed,     \* the first GET /categories has ended
    offered,    \* categories the form offers
    expense,    \* the expense shown
    initial,    \* what the server last confirmed
    fields,     \* what the form holds
    typed,      \* fields typed in since the form was last filled in
    editing,    \* the form is shown, not the summary
    confirming, \* "Delete expense?" is shown
    saving,     \* savingRef
    deleting,   \* deletingRef
    reloads,    \* saves that wait for the categories again, after a 422
    sent,       \* calls made so far
    told,       \* the notice on the screen, or the one it was left with
    lost        \* a DELETE of the visit ended without an answer

store == <<row, goneBy, live, others>>
load == <<got, listed>>
form == <<expense, initial, fields, typed, editing>>
screen == <<page, load, offered, form, confirming, reloads, told>>
waits == <<saving, deleting, sent, lost>>
vars == <<store, calls, screen, waits>>

(* An answer: what it is, and the row if it carries one.                   *)
Answer(is, r) == [is |-> is, row |-> r]
NoAnswer == Answer("nothing", None)

Init ==
    /\ row \in Row /\ goneBy = None /\ live = Category /\ others = 0 /\ calls = {}
    /\ page = [v \in Visit |-> "closed"]
    /\ got = [v \in Visit |-> NoAnswer]
    /\ listed = [v \in Visit |-> FALSE]
    /\ offered = [v \in Visit |-> {}]
    /\ expense = [v \in Visit |-> None]
    /\ initial = [v \in Visit |-> None]
    /\ fields = [v \in Visit |-> None]
    /\ typed = [v \in Visit |-> {}]
    /\ editing = [v \in Visit |-> FALSE]
    /\ confirming = [v \in Visit |-> FALSE]
    /\ saving = [v \in Visit |-> FALSE]
    /\ deleting = [v \in Visit |-> FALSE]
    /\ reloads = [v \in Visit |-> 0]
    /\ sent = [v \in Visit |-> 0]
    /\ told = [v \in Visit |-> "nothing"]
    /\ lost = [v \in Visit |-> FALSE]

-----------------------------------------------------------------------------
(* findExpenseById, and the answer of a handler that reads the row.        *)
IsDeleted == goneBy # None
RowOr404 == IF IsDeleted THEN Answer("notFound", None) ELSE Answer("ok", row)

(* The screen is left and its state with it; what save and remove have     *)
(* captured stays.                                                         *)
Unmount(v) ==
    /\ page' = [page EXCEPT ![v] = "left"]
    /\ got' = [got EXCEPT ![v] = NoAnswer]
    /\ offered' = [offered EXCEPT ![v] = {}]
    /\ expense' = [expense EXCEPT ![v] = None]
    /\ initial' = [initial EXCEPT ![v] = None]
    /\ fields' = [fields EXCEPT ![v] = None]
    /\ typed' = [typed EXCEPT ![v] = {}]
    /\ editing' = [editing EXCEPT ![v] = FALSE]
    /\ confirming' = [confirming EXCEPT ![v] = FALSE]
    /\ reloads' = [reloads EXCEPT ![v] = 0]
    /\ UNCHANGED listed

(* leave: navigate to the expenses with a notice, from wherever the user   *)
(* is by now.                                                              *)
Leave(v, notice) ==
    /\ Unmount(v)
    /\ told' = [told EXCEPT ![v] = notice]

(* Mutant: what the server confirmed is not remembered.                    *)
FillKeepingInitial(v, r) ==
    /\ expense' = [expense EXCEPT ![v] = r]
    /\ initial' = [initial EXCEPT ![v] = IF @ = None THEN r ELSE @]
    /\ fields' = [fields EXCEPT ![v] = r]
    /\ typed' = [typed EXCEPT ![v] = {}]
    /\ editing' = [editing EXCEPT ![v] = FALSE]
(* setExpense, setFields and setInitial (fieldsFromExpense) on an answer.  *)
Fill(v, r) ==
    /\ expense' = [expense EXCEPT ![v] = r]
    /\ initial' = [initial EXCEPT ![v] = r]
    /\ fields' = [fields EXCEPT ![v] = r]
    /\ typed' = [typed EXCEPT ![v] = {}]
    /\ editing' = [editing EXCEPT ![v] = FALSE]

-----------------------------------------------------------------------------
(* The one-time load: two requests at once, and what is made of them when  *)
(* both have ended; a failure of the categories goes unnoticed.            *)
Open(v) ==
    /\ page[v] = "closed"
    /\ page' = [page EXCEPT ![v] = "loading"]
    /\ UNCHANGED <<store, calls, waits, load, offered, form, confirming, reloads, told>>

ListCategories(v) ==
    /\ page[v] = "loading" /\ ~ listed[v]
    /\ listed' = [listed EXCEPT ![v] = TRUE]
    /\ \E cs \in {live, {}} : offered' = [offered EXCEPT ![v] = cs]
    /\ UNCHANGED <<store, calls, waits, page, got, form, confirming, reloads, told>>

GetExpense(v) ==
    /\ page[v] = "loading" /\ got[v] = NoAnswer
    /\ \E a \in {RowOr404, Answer("failed", None)} : got' = [got EXCEPT ![v] = a]
    /\ UNCHANGED <<store, calls, waits, page, listed, offered, form, confirming, reloads, told>>

Show(v) ==
    /\ page[v] = "loading" /\ listed[v] /\ got[v] # NoAnswer
    /\ \/ got[v].is = "notFound" /\ Leave(v, "notFound")
       \/ /\ got[v].is = "failed"
          /\ page' = [page EXCEPT ![v] = "failed"]
          /\ UNCHANGED <<load, offered, form, confirming, reloads, told>>
       \/ /\ got[v].is = "ok"
          /\ page' = [page EXCEPT ![v] = "record"]
          /\ Fill(v, got[v].row)
          /\ UNCHANGED <<load, offered, confirming, reloads, told>>
    /\ UNCHANGED <<store, calls, waits>>

(* The browser's Back, which a dialog does not cover.                      *)
Back(v) ==
    /\ page[v] \in {"loading", "failed", "record"}
    /\ Unmount(v)
    /\ UNCHANGED <<store, calls, waits, told>>

-----------------------------------------------------------------------------
Summary(v) == page[v] = "record" /\ ~ editing[v] /\ ~ confirming[v]

Edit(v) ==
    /\ Summary(v)
    /\ editing' = [editing EXCEPT ![v] = TRUE]
    /\ told' = [told EXCEPT ![v] = "nothing"]
    /\ UNCHANGED <<store, calls, waits, page, load, offered, expense, initial, fields, typed>>
    /\ UNCHANGED <<confirming, reloads>>

(* change: the form stays open to it while a save is on its way.           *)
Change(v, f, x) ==
    /\ page[v] = "record" /\ editing[v]
    /\ x \in IF f = "category" THEN offered[v] ELSE Typable[f]
    /\ Cardinality(typed[v] \cup {f}) <= MaxTyped
    /\ fields' = [fields EXCEPT ![v][f] = x]
    /\ typed' = [typed EXCEPT ![v] = @ \cup {f}]
    /\ UNCHANGED <<store, calls, waits, page, load, offered, expense, initial, editing>>
    /\ UNCHANGED <<confirming, reloads, told>>

Cancel(v) ==
    /\ page[v] = "record" /\ editing[v] /\ ~ saving[v]
    /\ fields' = [fields EXCEPT ![v] = initial[v]]
    /\ editing' = [editing EXCEPT ![v] = FALSE]
    /\ typed' = [typed EXCEPT ![v] = {}]
    /\ UNCHANGED <<store, calls, waits, page, load, offered, expense, initial>>
    /\ UNCHANGED <<confirming, reloads, told>>

-----------------------------------------------------------------------------
(* changedFields: what differs from what the server last confirmed.        *)
ChangedFields(i, f) ==
    [x \in {y \in Field : f[y] # i[y] /\ ~ (y = "currency" /\ f[y] = None)} |-> f[x]]

NoPatch == [f \in {} |-> None]

(* One call: what it asks, and for a save the form and the fields typed    *)
(* in, as they were when it was made.                                      *)
Call(v, want, patch) ==
    [by |-> v, no |-> sent[v] + 1, want |-> want, step |-> "check", patch |-> patch,
     waits |-> TRUE, form |-> fields[v], typed |-> typed[v], answer |-> NoAnswer]

Send(v, want, patch) ==
    /\ sent[v] < MaxCalls
    /\ calls' = calls \cup {Call(v, want, patch)}
    /\ sent' = [sent EXCEPT ![v] = @ + 1]

(* save, up to its first await, of a form that validateExpense accepts.    *)
Save(v) ==
    /\ page[v] = "record" /\ editing[v] /\ ~ saving[v]
    /\ Send(v, "save", ChangedFields(initial[v], fields[v]))
    /\ saving' = [saving EXCEPT ![v] = TRUE]
    /\ UNCHANGED <<store, screen, deleting, lost>>

AskDelete(v) ==
    /\ Summary(v)
    /\ confirming' = [confirming EXCEPT ![v] = TRUE]
    /\ UNCHANGED <<store, calls, waits, page, load, offered, form, reloads, told>>

CloseDialog(v) ==
    /\ confirming[v] /\ ~ deleting[v]
    /\ confirming' = [confirming EXCEPT ![v] = FALSE]
    /\ UNCHANGED <<store, calls, waits, page, load, offered, form, reloads, told>>

(* Mutant: a second tap of "Delete" is not held back.                      *)
AnyTap(v) == TRUE
(* deletingRef, read by remove.                                            *)
MayRemove(v) == ~ deleting[v]

(* remove, up to its await.                                                *)
Remove(v) ==
    /\ confirming[v] /\ MayRemove(v)
    /\ Send(v, "delete", NoPatch)
    /\ deleting' = [deleting EXCEPT ![v] = TRUE]
    /\ UNCHANGED <<store, screen, saving, lost>>

-----------------------------------------------------------------------------
(* What the API does with a call.  Nobody hears an answer not waited for.  *)
Goto(c, step) == calls' = (calls \ {c}) \cup {[c EXCEPT !.step = step]}
Reply(c, a) ==
    calls' = (calls \ {c}) \cup
        (IF c.waits THEN {[c EXCEPT !.step = "answered", !.answer = a]} ELSE {})

(* badReference, for the category a patch names.                           *)
BadReference(p) == "category" \in DOMAIN p /\ p["category"] \notin live

(* patchSchema and badReference; a DELETE is not checked.                  *)
Check(c) ==
    /\ c.step = "check"
    /\ \/ c.want = "save" /\ Reply(c, Answer("invalid", None))
       \/ BadReference(c.patch) /\ Reply(c, Answer("badCategory", None))
       \/ ~ BadReference(c.patch) /\ Goto(c, "write")
    /\ UNCHANGED <<store, screen, waits>>

(* updateExpense; an empty patch is answered from a read.                  *)
Patched(p) == [x \in Field |-> IF x \in DOMAIN p THEN p[x] ELSE row[x]]

UpdateExpense(c) ==
    /\ c.step = "write" /\ c.want = "save"
    /\ row' = IF IsDeleted THEN row ELSE Patched(c.patch)
    /\ Reply(c, IF IsDeleted THEN Answer("notFound", None) ELSE Answer("ok", row'))
    /\ UNCHANGED <<goneBy, live, others, screen, waits>>

SoftDeleteExpense(c) ==
    /\ c.step = "write" /\ c.want = "delete"
    /\ goneBy' = IF IsDeleted THEN goneBy ELSE c.by
    /\ Reply(c, IF IsDeleted THEN Answer("notFound", None) ELSE Answer("ok", None))
    /\ UNCHANGED <<row, live, others, screen, waits>>

(* The call never arrives, or the process dies, or the database fails it.  *)
Vanish(c) ==
    /\ ~ c.waits
    /\ calls' = calls \ {c}
    /\ UNCHANGED <<store, screen, waits>>

-----------------------------------------------------------------------------
Heard(v, c, want) == c.by = v /\ c.want = want /\ c.waits /\ c.step = "answered"

(* Mutant: a category that is gone is reported as the expense.             *)
AnyRefusal == {"notFound", "badCategory"}
(* The answers that say the expense is not there.                          *)
Missing == {"notFound"}

(* Mutant: savingRef is reset only by a save that succeeds.                *)
SaveEndsIfStored(v, a) == saving' = [saving EXCEPT ![v] = a.is # "ok"]
(* What an answer makes of savingRef.                                      *)
SaveEnds(v, a) == saving' = [saving EXCEPT ![v] = FALSE]

(* The rest of save.                                                       *)
AnswerSave(v, c) ==
    /\ Heard(v, c, "save")
    /\ calls' = calls \ {c}
    /\ SaveEnds(v, c.answer)
    /\ \/ c.answer.is \in Missing /\ Leave(v, "notFound")
       \/ /\ c.answer.is = "ok" /\ page[v] = "record"
          /\ Fill(v, c.answer.row)
          /\ told' = [told EXCEPT ![v] = "saved"]
          /\ UNCHANGED <<page, load, offered, confirming, reloads>>
       \/ /\ c.answer.is \notin Missing \cup {"ok"} /\ page[v] = "record"
          /\ reloads' = [reloads EXCEPT ![v] = IF c.answer.is = "badCategory" THEN @ + 1 ELSE @]
          /\ UNCHANGED <<page, load, offered, form, confirming, told>>
       \/ /\ c.answer.is \notin Missing /\ page[v] # "record"
          /\ UNCHANGED <<page, load, offered, form, confirming, reloads, told>>
    /\ UNCHANGED <<store, deleting, sent, lost>>

(* loadCategories after a 422, while the form goes on.                     *)
ReloadCategories(v) ==
    /\ reloads[v] > 0
    /\ reloads' = [reloads EXCEPT ![v] = @ - 1]
    /\ \E cs \in {live, offered[v]} : offered' = [offered EXCEPT ![v] = cs]
    /\ UNCHANGED <<store, calls, waits, page, load, form, confirming, told>>

(* The rest of remove; a success leaves deletingRef set.                   *)
AnswerDelete(v, c) ==
    /\ Heard(v, c, "delete")
    /\ calls' = calls \ {c}
    /\ IF c.answer.is = "ok"
         THEN Leave(v, "deleted") /\ UNCHANGED deleting
         ELSE Leave(v, "notFound") /\ deleting' = [deleting EXCEPT ![v] = FALSE]
    /\ UNCHANGED <<store, saving, sent, lost>>

(* The connection fails, or the API does (5xx): the call goes on without   *)
(* the visit, or vanishes.                                                 *)
GoOffline(v, c) ==
    /\ c.by = v /\ c.waits
    /\ calls' = (calls \ {c}) \cup
         (IF c.step = "answered" THEN {} ELSE {[c EXCEPT !.waits = FALSE]})
    /\ IF c.want = "save"
         THEN saving' = [saving EXCEPT ![v] = FALSE] /\ UNCHANGED <<deleting, lost>>
         ELSE /\ deleting' = [deleting EXCEPT ![v] = FALSE]
              /\ lost' = [lost EXCEPT ![v] = TRUE]
              /\ UNCHANGED saving
    /\ UNCHANGED <<store, screen, sent>>

-----------------------------------------------------------------------------
(* What other screens and devices of the account do meanwhile.             *)
Meanwhile == others < MaxOthers /\ others' = others + 1

UpdateElsewhere(r) ==
    /\ ~ IsDeleted /\ r.category \in live \cup {row.category} /\ Meanwhile
    /\ row' = r
    /\ UNCHANGED <<goneBy, live, calls, screen, waits>>

DeleteElsewhere ==
    /\ ~ IsDeleted /\ Meanwhile
    /\ goneBy' = "elsewhere"
    /\ UNCHANGED <<row, live, calls, screen, waits>>

DeleteCategory(c) ==
    /\ c \in live /\ Meanwhile
    /\ live' = live \ {c}
    /\ UNCHANGED <<row, goneBy, calls, screen, waits>>

-----------------------------------------------------------------------------
Use(v) ==
    \/ Open(v) \/ ListCategories(v) \/ GetExpense(v) \/ Show(v) \/ Back(v)
    \/ Edit(v) \/ Cancel(v) \/ Save(v)
    \/ \E f \in Field, x \in Value : Change(v, f, x)
    \/ AskDelete(v) \/ CloseDialog(v) \/ Remove(v)
    \/ ReloadCategories(v)

Hear(v) == \E c \in calls : AnswerSave(v, c) \/ AnswerDelete(v, c) \/ GoOffline(v, c)

Serve == \E c \in calls : Check(c) \/ UpdateExpense(c) \/ SoftDeleteExpense(c) \/ Vanish(c)

Others ==
    \/ \E r \in Row : UpdateElsewhere(r)
    \/ DeleteElsewhere
    \/ \E c \in Category : DeleteCategory(c)

Next == (\E v \in Visit : Use(v) \/ Hear(v)) \/ Serve \/ Others

Spec == Init /\ [][Next]_vars

(* A fetch is answered or fails; nothing else is ever sure to happen.      *)
FairSpec == Spec /\ \A v \in Visit : WF_vars(Hear(v))

-----------------------------------------------------------------------------
Answers ==
    [is : {"nothing", "failed", "notFound", "invalid", "badCategory"}, row : {None}]
        \cup [is : {"ok"}, row : Row \cup {None}]

CallRecord ==
    [by : Visit, no : Nat, want : {"save", "delete"}, step : {"check", "write", "answered"},
     patch : UNION {[F -> Value] : F \in SUBSET Field}, waits : BOOLEAN,
     form : Form, typed : SUBSET Field, answer : Answers]

CallOK(c) == c \in CallRecord /\ c.no \in 1..sent[c.by]

StoreOK ==
    /\ row \in Row /\ goneBy \in Visit \cup {"elsewhere", None}
    /\ live \subseteq Category /\ others \in 0..MaxOthers

ScreenOK ==
    /\ page \in [Visit -> {"closed", "loading", "failed", "record", "left"}]
    /\ got \in [Visit -> Answers] /\ listed \in [Visit -> BOOLEAN]
    /\ offered \in [Visit -> SUBSET Category]
    /\ expense \in [Visit -> Row \cup {None}] /\ initial \in [Visit -> Row \cup {None}]
    /\ fields \in [Visit -> Form \cup {None}] /\ typed \in [Visit -> SUBSET Field]
    /\ editing \in [Visit -> BOOLEAN] /\ confirming \in [Visit -> BOOLEAN]
    /\ reloads \in [Visit -> Nat]
    /\ told \in [Visit -> {"nothing", "saved", "deleted", "notFound"}]

WaitsOK ==
    /\ saving \in [Visit -> BOOLEAN] /\ deleting \in [Visit -> BOOLEAN]
    /\ sent \in [Visit -> Nat] /\ lost \in [Visit -> BOOLEAN]

TypeOK == StoreOK /\ ScreenOK /\ WaitsOK /\ \A c \in calls : CallOK(c)

(* The form is open on what the server last confirmed, and holds something *)
(* else only where the user typed.                                         *)
FormHolds(v) ==
    /\ page[v] = "record" =>
          /\ expense[v] # None /\ initial[v] = expense[v] /\ fields[v] # None
          /\ \A f \in Field : fields[v][f] # initial[v][f] => f \in typed[v]
          /\ ~ editing[v] => typed[v] = {}
    /\ page[v] # "record" => ~ editing[v] /\ ~ confirming[v] /\ reloads[v] = 0
    /\ confirming[v] => ~ editing[v]

(* A save is on its way from a form, a deletion from a dialog, or one of   *)
(* them from a screen that is left: never two calls at once.               *)
WaitHolds(v) ==
    /\ page[v] \in {"closed", "loading", "failed"} =>
          sent[v] = 0 /\ goneBy # v /\ ~ saving[v] /\ ~ deleting[v] /\ told[v] = "nothing"
    /\ saving[v] => editing[v] \/ page[v] = "left"
    /\ deleting[v] => confirming[v] \/ page[v] = "left"
    /\ ~ (saving[v] /\ deleting[v])
    /\ \A c, d \in calls : (c.by = v /\ d.by = v /\ c.waits /\ d.waits) => c = d

(* A call sends what was typed, as the form held it.                       *)
CallSends(c) ==
    /\ \A f \in DOMAIN c.patch : f \in c.typed /\ c.patch[f] = c.form[f]
    /\ "currency" \in DOMAIN c.patch => c.patch["currency"] # None

(* The visit waits for it only as it says, and an answer that says who     *)
(* deleted the expense is right.                                           *)
CallHolds(c) ==
    /\ CallSends(c)
    /\ c.waits => IF c.want = "save" THEN saving[c.by] ELSE deleting[c.by]
    /\ c.step # "answered" => c.answer = NoAnswer
    /\ c.step = "answered" => c.waits
    /\ c.want = "delete" =>
          /\ DOMAIN c.patch = {} /\ (c.waits \/ lost[c.by])
          /\ c.step = "answered" => c.answer.is \in {"ok", "notFound"}
    /\ c.answer.is = "ok" =>
          IF c.want = "save" THEN c.answer.row \in Row ELSE goneBy = c.by
    /\ c.answer.is = "notFound" => IsDeleted /\ (goneBy = c.by => lost[c.by])

(* What the visit knows of the deletion is so, and its own deletion is     *)
(* answered, to be heard, or lost.                                         *)
Knows(v) ==
    /\ got[v].is = "notFound" => IsDeleted
    /\ got[v].is = "ok" => got[v].row \in Row
    /\ told[v] \in {"deleted", "notFound"} =>
          page[v] = "left" /\ IsDeleted /\ \A c \in calls : c.by = v => ~ c.waits
    /\ told[v] = "deleted" => goneBy = v
    /\ told[v] = "notFound" /\ goneBy = v => lost[v]
    /\ goneBy = v =>
          \/ lost[v] \/ told[v] = "deleted"
          \/ \E c \in calls : Heard(v, c, "delete") /\ c.answer.is = "ok"

(* The form, the dialog, the calls and what was told of them agree,        *)
(* whatever other devices do: "Expense deleted." and "Expense not found"   *)
(* are said only of an expense that is, at most one call of a visit is     *)
(* waited for, and a save sends nothing the user did not type.             *)
DetailInv ==
    /\ TypeOK
    /\ \A v \in Visit : FormHolds(v) /\ WaitHolds(v) /\ Knows(v)
    /\ \A c \in calls : CallHolds(c)

(* "reporting that would tell someone their expense was not found          *)
(* immediately after deleting it": whoever is told so did not delete the   *)
(* expense, or was never answered.                                         *)
OwnDeleteIsNotMissing ==
    \A v \in Visit : told[v] = "notFound" /\ goneBy = v => lost[v]

(* A save writes only what its user typed since the server last confirmed  *)
(* the form, as the form held it: it takes back nothing another device     *)
(* stored in a field the user left alone.                                  *)
OnlyTypedIsWritten ==
    [][row' # row =>
         \/ others' # others
         \/ \E c \in calls : c.want = "save" /\
              \A f \in Field : row'[f] # row[f] => f \in c.typed /\ row'[f] = c.form[f]]_vars

(* The screen stays neither on "Saving" nor on "Deleting": every call is   *)
(* answered, told of its failure, or the screen is left.                   *)
EditsEnd ==
    \A v \in Visit :
        /\ saving[v] ~> ~ saving[v]
        /\ deleting[v] ~> (~ deleting[v] \/ page[v] = "left")

-----------------------------------------------------------------------------
(* What the repository says, and the code does not do.                     *)

(* "setNotice('Changes saved.')": not what was typed while the save was on *)
(* its way, nor a currency that was cleared.                               *)
SavedIsShown ==
    [][\A v \in Visit : (told[v] # "saved" /\ told'[v] = "saved")
            => \A f \in typed[v] : fields'[v][f] = fields[v][f]]_vars

(* "reporting that would tell someone their expense was not found          *)
(* immediately after deleting it": so it is, on a second try after a       *)
(* deletion whose answer was lost.                                         *)
NotFoundIsForeign ==
    \A v \in Visit : told[v] = "notFound" => goneBy # v

=============================================================================
