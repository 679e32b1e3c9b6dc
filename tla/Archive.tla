------------------------------ MODULE Archive ------------------------------
(***************************************************************************)
(* One account's archive: the receipts table and the image files on disk,  *)
(* the expenses that are filed against receipts, and the backup that takes *)
(* both volumes.  Every statement of the code is scoped to one account, so *)
(* accounts do not interact.                                               *)
(*                                                                         *)
(* A file is named by the hash of its bytes: a photo stands for both.  The *)
(* handlers use no transaction; each action is one statement or one call   *)
(* on the file system, and other requests run between them.                *)
(***************************************************************************)
EXTENDS Integers, Sequences

CONSTANTS
    Photo,     \* contents of uploads, and the names of their files
    Receipt,   \* receipt ids: the bound on the receipts ever inserted
    Expense,   \* expense ids: the bound on the expenses ever inserted
    Request,   \* requests that can be in flight at once
    None       \* SQL NULL

ASSUME NoneAssumption == None \notin Photo \cup Receipt \cup Expense

VARIABLES
    disk,        \* photos with a complete file under their final name
    temp,        \* requests whose upload has a temporary file
    litter,      \* photos left in temporary files that no request will remove
    receipt,     \* receipts row: "absent", "live" or "deleted" (deleted_at)
    sha,         \* receipts.sha256, or None
    read,        \* receipts with an extraction on record
    expense,     \* expenses row: "absent", "live" or "deleted"
    receiptOf,   \* expenses.receipt_id, or None
    phase,       \* where each request is in its handler
    photo,       \* the photo it uploads, or None
    about,       \* the receipt it is about, or None
    target,      \* the expense it patches, or None
    step,        \* how far the backup is
    dump,        \* backup: photos named by the receipts rows that were dumped
    copy         \* backup: photos in the copy of the receipts volume

files == <<disk, temp, litter>>
receipts == <<receipt, sha, read>>
expenses == <<expense, receiptOf>>
work == <<photo, about, target>>
backup == <<step, dump, copy>>
vars == <<files, receipts, expenses, phase, work, backup>>

Phase == {"idle", "store", "lookUp", "commit", "insert", "winner", "extract",
          "attached", "delete", "file", "patch"}
Row == {"absent", "live", "deleted"}

Init ==
    /\ disk = {} /\ temp = {} /\ litter = {}
    /\ receipt = [r \in Receipt |-> "absent"]
    /\ sha = [r \in Receipt |-> None]
    /\ read = {}
    /\ expense = [e \in Expense |-> "absent"]
    /\ receiptOf = [e \in Expense |-> None]
    /\ phase = [p \in Request |-> "idle"]
    /\ photo = [p \in Request |-> None]
    /\ about = [p \in Request |-> None]
    /\ target = [p \in Request |-> None]
    /\ step = 1 /\ dump = {} /\ copy = {}

-----------------------------------------------------------------------------
Rows == {r \in Receipt : receipt[r] # "absent"}
LiveReceipts == {r \in Receipt : receipt[r] = "live"}
LiveExpenses == {e \in Expense : expense[e] = "live"}

(* findLiveByHash and liveExpenseIdFor.                                    *)
Holding(ph) == {r \in LiveReceipts : sha[r] = ph}
FiledAs(r) == {e \in LiveExpenses : receiptOf[e] = r}

(* Mutant: the look-up before the INSERT is trusted, there is no index.    *)
PhotoTakenNever(ph) == FALSE
(* The partial unique index on the hashes of live receipts.                *)
PhotoTaken(ph) == Holding(ph) # {}

(* The partial unique index on the receipts of live expenses, for a row    *)
(* that is about to hold r.                                                *)
ReceiptTaken(r, e) == r # None /\ FiledAs(r) \ {e} # {}

Start(p, ph, upload, r, e) ==
    /\ phase[p] = "idle"
    /\ phase' = [phase EXCEPT ![p] = ph]
    /\ photo' = [photo EXCEPT ![p] = upload]
    /\ about' = [about EXCEPT ![p] = r]
    /\ target' = [target EXCEPT ![p] = e]

Goto(p, ph) == phase' = [phase EXCEPT ![p] = ph] /\ UNCHANGED work

Finish(p) ==
    /\ phase' = [phase EXCEPT ![p] = "idle"]
    /\ photo' = [photo EXCEPT ![p] = None]
    /\ about' = [about EXCEPT ![p] = None]
    /\ target' = [target EXCEPT ![p] = None]

-----------------------------------------------------------------------------
(* POST /receipts: storeUpload streams the body to a temporary file.       *)
StartUpload(p, ph) ==
    /\ Start(p, "store", ph, None, None)
    /\ temp' = temp \cup {p}
    /\ UNCHANGED <<disk, litter, receipts, expenses, backup>>

StoreUpload(p) ==
    /\ phase[p] = "store"
    /\ Goto(p, "lookUp")
    /\ UNCHANGED <<files, receipts, expenses, backup>>

(* The stream broke, or the upload is empty, of another type or truncated. *)
RejectUpload(p) ==
    /\ phase[p] = "store"
    /\ temp' = temp \ {p}
    /\ Finish(p)
    /\ UNCHANGED <<disk, litter, receipts, expenses, backup>>

(* findLiveByHash: a photo already held is not stored again, and its       *)
(* receipt is read once more.                                              *)
LookUpHash(p) ==
    /\ phase[p] = "lookUp"
    /\ IF Holding(photo[p]) # {}
         THEN /\ \E r \in Holding(photo[p]) : about' = [about EXCEPT ![p] = r]
              /\ phase' = [phase EXCEPT ![p] = "extract"]
              /\ temp' = temp \ {p}
              /\ UNCHANGED <<photo, target>>
         ELSE Goto(p, "commit") /\ UNCHANGED temp
    /\ UNCHANGED <<disk, litter, receipts, expenses, backup>>

(* rename: the file appears complete, or replaces an identical one.        *)
CommitFile(p) ==
    /\ phase[p] = "commit"
    /\ disk' = disk \cup {photo[p]}
    /\ temp' = temp \ {p}
    /\ Goto(p, "insert")
    /\ UNCHANGED <<litter, receipts, expenses, backup>>

(* INSERT INTO receipts; a unique violation sends the loser of two equal   *)
(* uploads to look for the winner.                                         *)
InsertReceipt(p, r) ==
    /\ phase[p] = "insert"
    /\ IF PhotoTaken(photo[p])
         THEN Goto(p, "winner") /\ UNCHANGED receipts
         ELSE /\ receipt[r] = "absent"
              /\ receipt' = [receipt EXCEPT ![r] = "live"]
              /\ sha' = [sha EXCEPT ![r] = photo[p]]
              /\ phase' = [phase EXCEPT ![p] = "extract"]
              /\ about' = [about EXCEPT ![p] = r]
              /\ UNCHANGED <<read, photo, target>>
    /\ UNCHANGED <<files, expenses, backup>>

(* The winner's receipt is answered, or 409 if it has been deleted since.  *)
AnswerWinner(p) ==
    /\ phase[p] = "winner"
    /\ Finish(p)
    /\ UNCHANGED <<files, receipts, expenses, backup>>

(* runExtraction reads the file and records the attempt.  It never fails   *)
(* the upload: any error ends in an answer without a reading.              *)
Extract(p) ==
    /\ phase[p] = "extract"
    /\ \/ sha[about[p]] \in disk /\ read' = read \cup {about[p]}
       \/ UNCHANGED read
    /\ Finish(p)
    /\ UNCHANGED <<files, receipt, sha, expenses, backup>>

-----------------------------------------------------------------------------
(* DELETE /receipts/:id: is there such a receipt ...                       *)
FindReceipt(p, r) ==
    /\ r \in LiveReceipts
    /\ Start(p, "attached", None, r, None)
    /\ UNCHANGED <<files, receipts, expenses, backup>>

(* ... is it the document of a live expense: then 409 ...                  *)
CheckAttached(p) ==
    /\ phase[p] = "attached"
    /\ IF FiledAs(about[p]) # {} THEN Finish(p) ELSE Goto(p, "delete")
    /\ UNCHANGED <<files, receipts, expenses, backup>>

(* Mutant: the file goes with the row.                                     *)
SoftDeleteUnlinks(p) ==
    LET r == about[p] IN
    /\ phase[p] = "delete"
    /\ receipt' = [receipt EXCEPT ![r] = "deleted"]
    /\ disk' = disk \ {sha[r]}
    /\ Finish(p)
    /\ UNCHANGED <<temp, litter, sha, read, expenses, backup>>

(* ... and mark the row deleted, or 404 if another request just has.  The  *)
(* file stays.                                                             *)
SoftDeleteReceipt(p) ==
    /\ phase[p] = "delete"
    /\ receipt' = [receipt EXCEPT ![about[p]] = "deleted"]
    /\ Finish(p)
    /\ UNCHANGED <<files, sha, read, expenses, backup>>

-----------------------------------------------------------------------------
(* POST and PATCH /expenses: badReference reads the receipt, if one is     *)
(* named, and answers 422 when it is not live.                             *)
GoodReference(r) == r = None \/ r \in LiveReceipts

StartFiling(p, r) ==
    /\ GoodReference(r)
    /\ Start(p, "file", None, r, None)
    /\ UNCHANGED <<files, receipts, expenses, backup>>

StartPatch(p, e, r) ==
    /\ GoodReference(r)
    /\ expense[e] # "absent"
    /\ Start(p, "patch", None, r, e)
    /\ UNCHANGED <<files, receipts, expenses, backup>>

(* insertExpense; 409 when the receipt is taken.                           *)
InsertExpense(p, e) ==
    /\ phase[p] = "file"
    /\ expense[e] = "absent"
    /\ IF ReceiptTaken(about[p], e) THEN UNCHANGED expenses
       ELSE /\ expense' = [expense EXCEPT ![e] = "live"]
            /\ receiptOf' = [receiptOf EXCEPT ![e] = about[p]]
    /\ Finish(p)
    /\ UNCHANGED <<files, receipts, backup>>

(* Mutant: a patch moves a receipt without asking the index.               *)
UpdateExpenseUnchecked(p) ==
    LET e == target[p] IN
    /\ phase[p] = "patch"
    /\ receiptOf' = IF expense[e] = "live" THEN [receiptOf EXCEPT ![e] = about[p]]
                    ELSE receiptOf
    /\ Finish(p)
    /\ UNCHANGED <<files, receipts, expense, backup>>

(* updateExpense: attach, replace or detach (None) the receipt; 409 when   *)
(* it is taken, 404 when the expense was deleted meanwhile.                *)
UpdateExpense(p) ==
    LET e == target[p] IN
    /\ phase[p] = "patch"
    /\ receiptOf' = IF expense[e] = "live" /\ ~ ReceiptTaken(about[p], e)
                    THEN [receiptOf EXCEPT ![e] = about[p]] ELSE receiptOf
    /\ Finish(p)
    /\ UNCHANGED <<files, receipts, expense, backup>>

(* DELETE /expenses/:id, one statement.                                    *)
SoftDeleteExpense(e) ==
    /\ expense[e] = "live"
    /\ expense' = [expense EXCEPT ![e] = "deleted"]
    /\ UNCHANGED <<files, receipts, receiptOf, phase, work, backup>>

-----------------------------------------------------------------------------
(* The process dies, or the database or the disk fails a call: an upload's *)
(* temporary file stays behind.                                            *)
Fail(p) ==
    /\ phase[p] # "idle"
    /\ litter' = IF p \in temp THEN litter \cup {photo[p]} ELSE litter
    /\ temp' = temp \ {p}
    /\ Finish(p)
    /\ UNCHANGED <<disk, receipts, expenses, backup>>

(* Mutant: the files first, then the database.                             *)
BackupOrderSwapped == <<"receipts", "database">>
BackupOrder == <<"database", "receipts">>

(* scripts/backup.sh, while the API runs: pg_dump, one snapshot ...        *)
DumpDatabase ==
    /\ step <= 2 /\ BackupOrder[step] = "database"
    /\ dump' = {sha[r] : r \in Rows}
    /\ step' = step + 1
    /\ UNCHANGED <<files, receipts, expenses, phase, work, copy>>

(* ... and tar of the volume.  A file that appears while tar runs may or   *)
(* may not be in it; none ever disappears.                                 *)
CopyReceipts ==
    /\ step <= 2 /\ BackupOrder[step] = "receipts"
    /\ copy' = disk
    /\ step' = step + 1
    /\ UNCHANGED <<files, receipts, expenses, phase, work, dump>>

-----------------------------------------------------------------------------
Upload(p) ==
    \/ \E ph \in Photo : StartUpload(p, ph)
    \/ StoreUpload(p) \/ RejectUpload(p) \/ LookUpHash(p) \/ CommitFile(p)
    \/ \E r \in Receipt : InsertReceipt(p, r)
    \/ AnswerWinner(p) \/ Extract(p)

Delete(p) ==
    \/ \E r \in Receipt : FindReceipt(p, r)
    \/ CheckAttached(p) \/ SoftDeleteReceipt(p)

Filing(p) ==
    \/ \E r \in Receipt \cup {None} :
         StartFiling(p, r) \/ \E e \in Expense : StartPatch(p, e, r)
    \/ \E e \in Expense : InsertExpense(p, e)
    \/ UpdateExpense(p)

Next ==
    \/ \E p \in Request : Upload(p) \/ Delete(p) \/ Filing(p) \/ Fail(p)
    \/ \E e \in Expense : SoftDeleteExpense(e)
    \/ DumpDatabase \/ CopyReceipts

Spec == Init /\ [][Next]_vars

-----------------------------------------------------------------------------
TypeOK ==
    /\ disk \subseteq Photo /\ temp \subseteq Request /\ litter \subseteq Photo
    /\ receipt \in [Receipt -> Row]
    /\ sha \in [Receipt -> Photo \cup {None}]
    /\ read \subseteq Receipt
    /\ expense \in [Expense -> Row]
    /\ receiptOf \in [Expense -> Receipt \cup {None}]
    /\ phase \in [Request -> Phase]
    /\ photo \in [Request -> Photo \cup {None}]
    /\ about \in [Request -> Receipt \cup {None}]
    /\ target \in [Request -> Expense \cup {None}]
    /\ step \in 1..3 /\ dump \subseteq Photo /\ copy \subseteq Photo

(* A row never names bytes that are not on disk, whatever failed, whoever  *)
(* uploaded or deleted the same photo at the same time: every receipt,     *)
(* live or deleted, and so every expense ever filed, can be produced.      *)
BytesArePresent == \A r \in Rows : sha[r] \in disk

(* A photo is held by at most one live receipt, and a receipt is filed as  *)
(* at most one live expense, whatever uploads and filings race.            *)
DocumentIsFiledOnce ==
    /\ \A r, s \in LiveReceipts : sha[r] = sha[s] => r = s
    /\ \A d, e \in LiveExpenses :
          receiptOf[d] = receiptOf[e] /\ receiptOf[d] # None => d = e

(* A request that was answered has left no temporary file; only a failure  *)
(* leaves one, and it never gets a final name.                             *)
NoTempLeft ==
    \A p \in Request : p \in temp <=> phase[p] \in {"store", "lookUp", "commit"}

(* A finished backup has the bytes of every receipt it has the row of,     *)
(* though uploads went on while it was taken.                              *)
BackupIsWhole == step = 3 => dump \subseteq copy

(* What a request knows about its receipt stays true while others run: the *)
(* row stays, and between rename and INSERT the bytes are on disk.         *)
RequestHolds(p) ==
    /\ phase[p] \in {"store", "lookUp", "commit", "insert", "winner"} => photo[p] \in Photo
    /\ phase[p] = "insert" => photo[p] \in disk
    /\ phase[p] \in {"extract", "attached", "delete"} => about[p] \in Rows
    /\ phase[p] = "patch" => target[p] \in Expense
    /\ about[p] # None => about[p] \in Rows

RequestsHold == \A p \in Request : RequestHolds(p)

(* Columns refer to rows and photos that exist.                            *)
ColumnsHold ==
    /\ \A r \in Rows : sha[r] \in Photo
    /\ \A e \in Expense : receiptOf[e] # None => receiptOf[e] \in Rows

(* Between the dump and the copy, the bytes the dump names are on disk.    *)
BackupHolds ==
    /\ step = 2 => dump \subseteq disk
    /\ BackupIsWhole

ArchiveInv ==
    /\ TypeOK
    /\ RequestsHold
    /\ ColumnsHold
    /\ BytesArePresent
    /\ DocumentIsFiledOnce
    /\ NoTempLeft
    /\ BackupHolds

-----------------------------------------------------------------------------
(* What the documentation says, and the code does not do.                  *)

(* "A receipt attached to a live expense answers 409 and is not deleted"   *)
(* (routes/receipts.ts).  The receipt is checked before the expense is     *)
(* inserted, and the expense before the receipt is marked deleted: each    *)
(* request passes its check and then acts.                                 *)
AttachedIsNotDeleted ==
    \A e \in LiveExpenses : receiptOf[e] # None => receiptOf[e] \in LiveReceipts

=============================================================================
