------------------------------- MODULE Export -------------------------------
(***************************************************************************)
(* One download of an account's expenses, as a CSV file or as a ZIP with   *)
(* the receipt images, while the account is edited.  The export reads the  *)
(* table page by page, each page a statement of its own, and no            *)
(* transaction or lock holds the table still; the ZIP reads it twice.      *)
(*                                                                         *)
(* Expenses are numbered in the order of (created_at, id), which never     *)
(* changes; purchased_on comes before it in the export's order.            *)
(***************************************************************************)
EXTENDS Integers, FiniteSets, Sequences, SequencesExt

CONSTANTS
    Expense,     \* expense ids, numbers
    Date,        \* purchase dates, numbers
    Receipt,     \* receipt ids
    Null,        \* null
    BatchSize,   \* EXPORT_BATCH_SIZE
    MaxWrites    \* bound on the edits of the account

ASSUME ExpenseAssumption == Expense \subseteq Nat /\ IsFiniteSet(Expense) /\ Date \subseteq Nat
ASSUME NullAssumption == Null \notin Receipt \cup [date : Date, id : Expense]
ASSUME BatchAssumption == BatchSize \in Nat \ {0} /\ MaxWrites \in Nat

VARIABLES
    row,         \* expenses row: "absent", "live" or "deleted"
    date,        \* expenses.purchased_on
    receiptOf,   \* expenses.receipt_id, or Null
    present,     \* receipts whose file is on disk
    kind,        \* what is downloaded, "csv" or "zip"
    filter,      \* the query: from, and hasReceipt
    stage,       \* how far the export is
    cursor,      \* the last row of the last page, or Null
    cellFor,     \* the Receipt File cell of each expense
    images,      \* the receipts to add, in order: an entry is named by its place
    ledger,      \* the rows written to the CSV
    entries,     \* the images in the archive
    writes,      \* edits so far
    steady       \* history: expenses selected at first and not edited since

expenses == <<row, date, receiptOf>>
query == <<kind, filter>>
archive == <<cellFor, images>>
exportVars == <<expenses, present, query, stage, cursor, archive, ledger, entries, writes, steady>>

(* Receipt File cells that name no entry: empty, and MISSING.              *)
Empty == 0
Missing == -1
Row == {"absent", "live", "deleted"}
Stage == {"presence", "ledger", "images", "done", "aborted"}
Filter == [from : Date, hasReceipt : {"any", "true", "false"}]

-----------------------------------------------------------------------------
(* filtered: the live rows the query selects.                              *)
Matches(e) ==
    /\ row[e] = "live"
    /\ date[e] >= filter.from
    /\ filter.hasReceipt = "true" => receiptOf[e] # Null
    /\ filter.hasReceipt = "false" => receiptOf[e] = Null

Key(e) == [date |-> date[e], id |-> e]
Before(k, l) == k.date < l.date \/ (k.date = l.date /\ k.id < l.id)

(* Mutant: the page starts with the row the last one ended with.           *)
AfterOrAt(e, c) == c = Null \/ ~ Before(Key(e), c)
(* Mutant: the cursor is the purchase date alone.                          *)
AfterDate(e, c) == c = Null \/ date[e] > c.date
After(e, c) == c = Null \/ Before(c, Key(e))

(* listExpensePage: the first rows past the cursor, oldest first.          *)
Selected == {e \in Expense : Matches(e) /\ After(e, cursor)}

ComesBefore(d, e) == Before(Key(d), Key(e))
InOrder(S) ==
    CHOOSE s \in [1..Cardinality(S) -> S] : \A i, j \in DOMAIN s : i < j => ComesBefore(s[i], s[j])

Page ==
    LET all == InOrder(Selected)
    IN  SubSeq(all, 1, IF Len(all) < BatchSize THEN Len(all) ELSE BatchSize)

(* expensePages: whether it stops after this page, and where it goes on.   *)
LastPage(page) == Len(page) < BatchSize

Advance(page) == cursor' = IF LastPage(page) THEN Null ELSE Key(Last(page))

-----------------------------------------------------------------------------
(* The account has any content; the request has passed its checks.         *)
ExportInit ==
    /\ row \in [Expense -> {"absent", "live"}]
    /\ date \in [Expense -> Date]
    /\ receiptOf \in [Expense -> Receipt \cup {Null}]
    /\ \A d, e \in Expense : receiptOf[d] = receiptOf[e] /\ receiptOf[d] # Null => d = e
    /\ \A e \in Expense : row[e] = "absent" => receiptOf[e] = Null /\ \A d \in Date : date[e] <= d
    /\ present \in SUBSET Receipt
    /\ kind \in {"csv", "zip"}
    /\ filter \in Filter
    /\ stage = IF kind = "zip" THEN "presence" ELSE "ledger"
    /\ cursor = Null
    /\ cellFor = [e \in Expense |-> Empty]
    /\ images = <<>> /\ ledger = <<>> /\ entries = <<>>
    /\ writes = 0
    /\ steady = {e \in Expense : Matches(e)}

(* Of a page, the rows whose file is there, their images, and the entry of *)
(* one of them.                                                            *)
Found(page) == InOrder({e \in Range(page) : receiptOf[e] \in present})
ImagesOf(found) == [i \in DOMAIN found |-> receiptOf[found[i]]]
Place(e, found) == Len(images) + CHOOSE i \in DOMAIN found : found[i] = e

(* Mutant: no receipt at all is taken for a missing file.                  *)
PresencePageNoEmpty ==
    LET page == Page
        found == Found(page)
    IN
    /\ stage = "presence"
    /\ cellFor' = [e \in Expense |->
                     IF e \notin Range(page) THEN cellFor[e]
                     ELSE IF receiptOf[e] \in present THEN Place(e, found) ELSE Missing]
    /\ images' = images \o ImagesOf(found)
    /\ Advance(page)
    /\ stage' = IF LastPage(page) THEN "ledger" ELSE stage
    /\ UNCHANGED <<expenses, present, query, ledger, entries, writes, steady>>

(* The presence pass: for each row of the page with a receipt, is the file *)
(* there?  The cell and the image are settled here.                        *)
PresencePage ==
    LET page == Page
        found == Found(page)
    IN
    /\ stage = "presence"
    /\ cellFor' = [e \in Expense |->
                     IF e \notin Range(page) \/ receiptOf[e] = Null THEN cellFor[e]
                     ELSE IF receiptOf[e] \in present THEN Place(e, found) ELSE Missing]
    /\ images' = images \o ImagesOf(found)
    /\ Advance(page)
    /\ stage' = IF LastPage(page) THEN "ledger" ELSE stage
    /\ UNCHANGED <<expenses, present, query, ledger, entries, writes, steady>>

Line(e) == [id |-> e, date |-> date[e], receipt |-> receiptOf[e], cell |-> cellFor[e]]
Lines(page) == [i \in DOMAIN page |-> Line(page[i])]

(* The CSV, from a pass of its own.                                        *)
LedgerPage ==
    LET page == Page IN
    /\ stage = "ledger"
    /\ ledger' = ledger \o Lines(page)
    /\ Advance(page)
    /\ stage' = IF ~ LastPage(page) THEN stage ELSE IF kind = "zip" THEN "images" ELSE "done"
    /\ UNCHANGED <<expenses, present, query, archive, entries, writes, steady>>

(* Mutant: the archive is finished around what succeeded.                  *)
AddImageFinishes ==
    LET n == Len(entries) + 1 IN
    /\ stage = "images"
    /\ IF n <= Len(images) /\ images[n] \in present
         THEN entries' = Append(entries, images[n]) /\ UNCHANGED stage
         ELSE stage' = "done" /\ UNCHANGED entries
    /\ UNCHANGED <<expenses, present, query, cursor, archive, ledger, writes, steady>>

(* Mutant: the archive waits for an image that has gone.                   *)
AddImageWaits ==
    LET n == Len(entries) + 1 IN
    /\ stage = "images"
    /\ IF n > Len(images) THEN stage' = "done" /\ UNCHANGED entries
       ELSE images[n] \in present /\ entries' = Append(entries, images[n]) /\ UNCHANGED stage
    /\ UNCHANGED <<expenses, present, query, cursor, archive, ledger, writes, steady>>

(* The images are added one at a time; one that has gone aborts the        *)
(* download, so that the archive does not open.                            *)
AddImage ==
    LET n == Len(entries) + 1 IN
    /\ stage = "images"
    /\ IF n > Len(images) THEN stage' = "done" /\ UNCHANGED entries
       ELSE IF images[n] \in present
         THEN entries' = Append(entries, images[n]) /\ UNCHANGED stage
         ELSE stage' = "aborted" /\ UNCHANGED entries
    /\ UNCHANGED <<expenses, present, query, cursor, archive, ledger, writes, steady>>

(* The database fails, or the client goes away.                            *)
Abort ==
    /\ stage \in {"presence", "ledger", "images"}
    /\ stage' = "aborted"
    /\ UNCHANGED <<expenses, present, query, cursor, archive, ledger, entries, writes, steady>>

-----------------------------------------------------------------------------
(* The account is edited meanwhile.                                        *)
Edit(e) ==
    /\ stage \in {"presence", "ledger", "images"}
    /\ writes < MaxWrites
    /\ writes' = writes + 1
    /\ steady' = steady \ {e}
    /\ UNCHANGED <<present, query, stage, cursor, archive, ledger, entries>>

Free(r, e) == r # Null => \A d \in Expense \ {e} : row[d] = "live" => receiptOf[d] # r

InsertExpense(e) ==
    /\ row[e] = "absent"
    /\ row' = [row EXCEPT ![e] = "live"]
    /\ \E d \in Date, r \in Receipt \cup {Null} :
          /\ Free(r, e)
          /\ date' = [date EXCEPT ![e] = d]
          /\ receiptOf' = [receiptOf EXCEPT ![e] = r]
    /\ Edit(e)

UpdateExpense(e) ==
    /\ row[e] = "live"
    /\ \E d \in Date, r \in Receipt \cup {Null} :
          /\ Free(r, e)
          /\ date' = [date EXCEPT ![e] = d]
          /\ receiptOf' = [receiptOf EXCEPT ![e] = r]
    /\ UNCHANGED row
    /\ Edit(e)

SoftDeleteExpense(e) ==
    /\ row[e] = "live"
    /\ row' = [row EXCEPT ![e] = "deleted"]
    /\ UNCHANGED <<date, receiptOf>>
    /\ Edit(e)

(* A file vanishes from the volume, which the code never does by itself.   *)
FileLost(r) ==
    /\ stage \in {"presence", "ledger", "images"}
    /\ r \in present
    /\ present' = present \ {r}
    /\ UNCHANGED <<expenses, query, stage, cursor, archive, ledger, entries, writes, steady>>

-----------------------------------------------------------------------------
Download == PresencePage \/ LedgerPage \/ AddImage

ExportNext ==
    \/ Download \/ Abort
    \/ \E e \in Expense : InsertExpense(e) \/ UpdateExpense(e) \/ SoftDeleteExpense(e)
    \/ \E r \in Receipt : FileLost(r)

ExportSpec == ExportInit /\ [][ExportNext]_exportVars

(* The handler runs on while its client reads.                             *)
FairExport == ExportSpec /\ WF_exportVars(Download)

-----------------------------------------------------------------------------
ExportTypeOK ==
    /\ row \in [Expense -> Row]
    /\ date \in [Expense -> Date]
    /\ receiptOf \in [Expense -> Receipt \cup {Null}]
    /\ present \subseteq Receipt
    /\ kind \in {"csv", "zip"} /\ filter \in Filter
    /\ stage \in (IF kind = "zip" THEN Stage ELSE Stage \ {"presence", "images"})
    /\ cursor \in [date : Date, id : Expense] \cup {Null}
    /\ images \in Seq(Receipt) /\ entries \in Seq(Receipt)
    /\ cellFor \in [Expense -> {Empty, Missing} \cup DOMAIN images]
    /\ ledger \in Seq([id : Expense, date : Date, receipt : Receipt \cup {Null}, cell : Int])
    /\ writes \in 0..MaxWrites /\ steady \subseteq Expense

Written == stage = "done" \/ stage = "images"
InLedger(e) == \E i \in DOMAIN ledger : ledger[i].id = e

(* An expense nobody edited during the export is in the ledger, once,      *)
(* whatever was inserted, moved and deleted around it.                     *)
SteadyIsExportedOnce ==
    Written => \A e \in steady :
        \E i \in DOMAIN ledger :
            ledger[i].id = e /\ \A j \in DOMAIN ledger : ledger[j].id = e => j = i

(* A Receipt File cell is empty just when there is no receipt, says        *)
(* "missing" only if the file has gone, and otherwise names its image.     *)
TrueCell(cell, receipt) ==
    /\ cell = Empty <=> receipt = Null
    /\ cell = Missing => receipt \notin present
    /\ cell \notin {Empty, Missing} => images[cell] = receipt

(* The cell of an expense nobody edited is true.                           *)
SteadyCellIsTrue ==
    kind = "zip" => \A i \in DOMAIN ledger :
        ledger[i].id \in steady => TrueCell(ledger[i].cell, ledger[i].receipt)

(* A download that ends properly has every image that its ledger names.    *)
DoneIsWhole ==
    stage = "done" => \A i \in DOMAIN ledger :
        ledger[i].cell \notin {Empty, Missing} =>
            /\ ledger[i].cell \in DOMAIN entries
            /\ entries[ledger[i].cell] = images[ledger[i].cell]

(* The ledger reads forward in time, across the pages and whatever is      *)
(* moved between them.                                                     *)
LedgerAscends == \A i, j \in DOMAIN ledger : i < j => Before(ledger[i], ledger[j])

(* What a pass knows of the rows nobody edited: they are still selected,   *)
(* and those up to the cursor have been dealt with, the others have not.   *)
Passed(e) == ~ After(e, cursor)

CellsHold ==
    /\ kind = "csv" => images = <<>> /\ \A e \in Expense : cellFor[e] = Empty
    /\ kind = "zip" => \A e \in steady :
          /\ stage = "presence" =>
                IF Passed(e) THEN TrueCell(cellFor[e], receiptOf[e]) ELSE cellFor[e] = Empty
          /\ stage \in {"ledger", "images", "done"} \/ ledger # <<>> => TrueCell(cellFor[e], receiptOf[e])

LedgerHolds ==
    /\ stage = "presence" => ledger = <<>>
    /\ \A i \in DOMAIN ledger :
          LET l == ledger[i] IN
          /\ l.cell = cellFor[l.id]
          /\ l.id \in steady => l.date = date[l.id] /\ l.receipt = receiptOf[l.id]
          /\ stage = "ledger" => cursor # Null /\ ~ Before(cursor, l)
    /\ \A e \in steady : Written \/ (stage = "ledger" /\ Passed(e)) => InLedger(e)

EntriesHold ==
    /\ Len(entries) <= Len(images) /\ \A n \in DOMAIN entries : entries[n] = images[n]
    /\ stage = "done" => Len(entries) = Len(images)

ExportInv ==
    /\ ExportTypeOK /\ LedgerAscends
    /\ \A e \in steady : Matches(e)
    /\ CellsHold /\ LedgerHolds /\ EntriesHold

(* An export ends, though rows are added and moved in front of it.         *)
ExportEnds == <>(stage \in {"done", "aborted"})

-----------------------------------------------------------------------------
(* What the comments say, and the code does not do.                        *)

(* OFFSET "would skip or repeat rows if anything were written while it     *)
(* ran": the pages by keyset would not.  An expense whose purchase date is *)
(* moved past the cursor is in the ledger with both dates.                 *)
NeverRepeated == \A i, j \in DOMAIN ledger : ledger[i].id = ledger[j].id => i = j

(* Two passes over the same pages "can never disagree about which rows a   *)
(* filter selects", so that no image is in the archive "that no row        *)
(* names".  An expense deleted between the passes leaves its image.        *)
ImagesAreNamed ==
    stage = "done" => \A n \in DOMAIN entries : \E i \in DOMAIN ledger : ledger[i].cell = n

=============================================================================
