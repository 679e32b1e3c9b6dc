--------------------------- MODULE Archive_proofs ---------------------------
(***************************************************************************)
(* Proofs about Archive for every set of photos, receipts, expenses and    *)
(* requests: the invariant ArchiveInv, from which a row never names bytes  *)
(* that are missing, on disk or in a backup, a document is filed once, and *)
(* an answered upload leaves no temporary file.                            *)
(***************************************************************************)
EXTENDS Archive, TLAPS

-----------------------------------------------------------------------------
(* What holds at first.                                                    *)
LEMMA InitArchiveInv == Init => ArchiveInv
<1> USE NoneAssumption DEF Init
<1>1. Init => TypeOK
  BY DEF TypeOK, Phase, Row
<1>2. Init => Rows = {} /\ LiveExpenses = {}
  BY DEF Rows, LiveExpenses
<1>3. Init => RequestsHold /\ ColumnsHold /\ BackupHolds /\ NoTempLeft
  BY <1>2 DEF RequestsHold, RequestHolds, ColumnsHold, BackupHolds, BackupIsWhole, NoTempLeft
<1>4. Init => BytesArePresent /\ DocumentIsFiledOnce
  BY <1>2 DEF BytesArePresent, DocumentIsFiledOnce, LiveReceipts
<1>5. QED
  BY <1>1, <1>3, <1>4 DEF ArchiveInv

(* The four kinds of step on the rows: one receipt inserted, one marked    *)
(* deleted, expenses written, or none of these.  No step removes a row, or *)
(* changes the hash of one, or removes a file.                             *)
KeepsRows == Rows \subseteq Rows' /\ (\A r \in Rows : sha'[r] = sha[r]) /\ disk \subseteq disk'

LEMMA RowsStay == ArchiveInv /\ [Next]_vars => KeepsRows
<1> SUFFICES ASSUME ArchiveInv, [Next]_vars PROVE KeepsRows
  OBVIOUS
<1> USE DEF KeepsRows, Rows, ArchiveInv, TypeOK, receipts, files
<1>1. ASSUME NEW p \in Request, NEW r \in Receipt, InsertReceipt(p, r) PROVE KeepsRows
  <2>1. CASE UNCHANGED receipts
    BY <1>1, <2>1 DEF InsertReceipt
  <2>2. CASE receipt[r] = "absent" /\ receipt' = [receipt EXCEPT ![r] = "live"]
             /\ sha' = [sha EXCEPT ![r] = photo[p]]
    BY <1>1, <2>2 DEF InsertReceipt
  <2>3. QED
    BY <1>1, <2>1, <2>2 DEF InsertReceipt
<1>2. ASSUME NEW p \in Request, SoftDeleteReceipt(p) PROVE KeepsRows
  BY <1>2 DEF SoftDeleteReceipt
<1>3. ASSUME NEW p \in Request, Upload(p), \A r \in Receipt : ~ InsertReceipt(p, r) PROVE KeepsRows
  BY <1>3 DEF Upload, StartUpload, StoreUpload, RejectUpload, LookUpHash, CommitFile, AnswerWinner, Extract
<1>4. ASSUME NEW p \in Request, Delete(p), ~ SoftDeleteReceipt(p) PROVE KeepsRows
  BY <1>4 DEF Delete, FindReceipt, CheckAttached
<1>5. ASSUME NEW p \in Request, Filing(p) PROVE KeepsRows
  BY <1>5 DEF Filing, StartFiling, StartPatch, InsertExpense, UpdateExpense
<1>6. ASSUME NEW p \in Request, Fail(p) PROVE KeepsRows
  BY <1>6 DEF Fail
<1>7. ASSUME NEW e \in Expense, SoftDeleteExpense(e) PROVE KeepsRows
  BY <1>7 DEF SoftDeleteExpense
<1>8. CASE DumpDatabase \/ CopyReceipts \/ UNCHANGED vars
  BY <1>8 DEF DumpDatabase, CopyReceipts, vars
<1>9. QED
  BY <1>1, <1>2, <1>3, <1>4, <1>5, <1>6, <1>7, <1>8 DEF Next

-----------------------------------------------------------------------------
(* Every step keeps the types.                                             *)
LEMMA StepKeepsTypes == ArchiveInv /\ [Next]_vars => TypeOK'
<1> SUFFICES ASSUME ArchiveInv, [Next]_vars PROVE TypeOK'
  OBVIOUS
<1> USE NoneAssumption DEF ArchiveInv, TypeOK, Phase, Row, RequestsHold, RequestHolds, Rows, LiveReceipts,
        files, receipts, expenses, work, backup, Start, Goto, Finish
<1>1. ASSUME NEW p \in Request, NEW ph \in Photo, StartUpload(p, ph) PROVE TypeOK'
  BY <1>1 DEF StartUpload
<1>2. ASSUME NEW p \in Request, StoreUpload(p) PROVE TypeOK'
  BY <1>2 DEF StoreUpload
<1>3. ASSUME NEW p \in Request, RejectUpload(p) PROVE TypeOK'
  BY <1>3 DEF RejectUpload
<1>4. ASSUME NEW p \in Request, LookUpHash(p) PROVE TypeOK'
  <2>1. CASE Holding(photo[p]) # {}
    BY <1>4, <2>1 DEF LookUpHash, Holding
  <2>2. CASE Holding(photo[p]) = {}
    BY <1>4, <2>2 DEF LookUpHash
  <2>3. QED
    BY <2>1, <2>2
<1>5. ASSUME NEW p \in Request, CommitFile(p) PROVE TypeOK'
  BY <1>5 DEF CommitFile
<1>6. ASSUME NEW p \in Request, NEW r \in Receipt, InsertReceipt(p, r) PROVE TypeOK'
  <2>1. CASE PhotoTaken(photo[p])
    BY <1>6, <2>1 DEF InsertReceipt
  <2>2. CASE ~ PhotoTaken(photo[p])
    BY <1>6, <2>2 DEF InsertReceipt
  <2>3. QED
    BY <2>1, <2>2
<1>7. ASSUME NEW p \in Request, AnswerWinner(p) PROVE TypeOK'
  BY <1>7 DEF AnswerWinner
<1>8. ASSUME NEW p \in Request, Extract(p) PROVE TypeOK'
  BY <1>8 DEF Extract
<1>9. ASSUME NEW p \in Request, NEW r \in Receipt, FindReceipt(p, r) PROVE TypeOK'
  BY <1>9 DEF FindReceipt
<1>10. ASSUME NEW p \in Request, CheckAttached(p) PROVE TypeOK'
  <2>1. CASE FiledAs(about[p]) # {}
    BY <1>10, <2>1 DEF CheckAttached
  <2>2. CASE FiledAs(about[p]) = {}
    BY <1>10, <2>2 DEF CheckAttached
  <2>3. QED
    BY <2>1, <2>2
<1>11. ASSUME NEW p \in Request, SoftDeleteReceipt(p) PROVE TypeOK'
  BY <1>11 DEF SoftDeleteReceipt
<1>12. ASSUME NEW p \in Request, NEW r \in Receipt \cup {None}, StartFiling(p, r) PROVE TypeOK'
  BY <1>12 DEF StartFiling
<1>13. ASSUME NEW p \in Request, NEW r \in Receipt \cup {None}, NEW e \in Expense, StartPatch(p, e, r)
       PROVE  TypeOK'
  BY <1>13 DEF StartPatch
<1>14. ASSUME NEW p \in Request, NEW e \in Expense, InsertExpense(p, e) PROVE TypeOK'
  <2>1. CASE UNCHANGED expenses
    BY <1>14, <2>1 DEF InsertExpense
  <2>2. CASE expense' = [expense EXCEPT ![e] = "live"] /\ receiptOf' = [receiptOf EXCEPT ![e] = about[p]]
    BY <1>14, <2>2 DEF InsertExpense
  <2>3. QED
    BY <1>14, <2>1, <2>2 DEF InsertExpense
<1>15. ASSUME NEW p \in Request, UpdateExpense(p) PROVE TypeOK'
  BY <1>15 DEF UpdateExpense
<1>16. ASSUME NEW p \in Request, Fail(p) PROVE TypeOK'
  <2>1. litter' \subseteq Photo
    BY <1>16 DEF Fail, NoTempLeft
  <2>2. QED
    BY <1>16, <2>1 DEF Fail
<1>17. ASSUME NEW e \in Expense, SoftDeleteExpense(e) PROVE TypeOK'
  BY <1>17 DEF SoftDeleteExpense
<1>18. CASE DumpDatabase
  <2>1. dump' \subseteq Photo
    BY <1>18 DEF DumpDatabase, ColumnsHold
  <2>2. QED
    BY <1>18, <2>1 DEF DumpDatabase
<1>19. CASE CopyReceipts
  BY <1>19 DEF CopyReceipts
<1>20. CASE UNCHANGED vars
  BY <1>20 DEF vars
<1>21. QED
  BY <1>1, <1>2, <1>3, <1>4, <1>5, <1>6, <1>7, <1>8, <1>9, <1>10, <1>11, <1>12, <1>13, <1>14, <1>15,
     <1>16, <1>17, <1>18, <1>19, <1>20 DEF Next, Upload, Delete, Filing

-----------------------------------------------------------------------------
(* What a request knows of its receipt survives the steps of the others.   *)
LEMMA StepKeepsRequests == ArchiveInv /\ [Next]_vars => RequestsHold'
<1> SUFFICES ASSUME ArchiveInv, [Next]_vars PROVE RequestsHold'
  OBVIOUS
<1>1. KeepsRows
  BY RowsStay
<1>2. ASSUME NEW q \in Request, phase'[q] = phase[q], photo'[q] = photo[q], about'[q] = about[q], target'[q] = target[q]
      PROVE  RequestHolds(q)'
  BY <1>1, <1>2 DEF KeepsRows, RequestHolds, RequestsHold, ArchiveInv
<1>3. CASE UNCHANGED <<phase, work>>
  BY <1>2, <1>3 DEF RequestsHold, work
<1>4. ASSUME NEW p \in Request, \A q \in Request \ {p} : /\ phase'[q] = phase[q] /\ photo'[q] = photo[q]
                                                     /\ about'[q] = about[q] /\ target'[q] = target[q],
             RequestHolds(p)'
      PROVE  RequestsHold'
  BY <1>2, <1>4 DEF RequestsHold
<1> USE NoneAssumption DEF ArchiveInv, TypeOK, RequestHolds, RequestsHold, work, Start, Goto
<1>5. ASSUME NEW p \in Request, Finish(p) PROVE RequestsHold'
  BY <1>4, <1>5 DEF Finish
<1>6. ASSUME NEW p \in Request, Upload(p) PROVE RequestsHold'
  <2>1. ASSUME NEW ph \in Photo, StartUpload(p, ph) PROVE RequestsHold'
    BY <1>4, <2>1 DEF StartUpload
  <2>2. CASE StoreUpload(p)
    BY <1>1, <1>4, <2>2 DEF StoreUpload, KeepsRows
  <2>3. CASE LookUpHash(p)
    <3>1. CASE Holding(photo[p]) # {}
      <4>1. /\ \E r \in Holding(photo[p]) : about' = [about EXCEPT ![p] = r]
            /\ phase' = [phase EXCEPT ![p] = "extract"]
            /\ UNCHANGED <<photo, target, receipts>>
        BY <2>3, <3>1 DEF LookUpHash
      <4>2. about'[p] \in Rows'
        BY <4>1 DEF Holding, LiveReceipts, Rows, receipts
      <4>3. QED
        BY <1>4, <4>1, <4>2
    <3>2. CASE Holding(photo[p]) = {}
      BY <1>1, <1>4, <2>3, <3>2 DEF LookUpHash, KeepsRows
    <3>3. QED
      BY <3>1, <3>2
  <2>4. CASE CommitFile(p)
    BY <1>1, <1>4, <2>4 DEF CommitFile, KeepsRows
  <2>5. ASSUME NEW r \in Receipt, InsertReceipt(p, r) PROVE RequestsHold'
    <3>1. CASE PhotoTaken(photo[p])
      BY <1>1, <1>4, <2>5, <3>1 DEF InsertReceipt, KeepsRows
    <3>2. CASE ~ PhotoTaken(photo[p])
      <4>1. /\ receipt' = [receipt EXCEPT ![r] = "live"]
            /\ phase' = [phase EXCEPT ![p] = "extract"]
            /\ about' = [about EXCEPT ![p] = r]
            /\ UNCHANGED <<photo, target>>
        BY <2>5, <3>2 DEF InsertReceipt
      <4>2. r \in Rows'
        BY <4>1 DEF Rows
      <4>3. QED
        BY <1>4, <4>1, <4>2
    <3>3. QED
      BY <3>1, <3>2
  <2>6. QED
    BY <1>5, <1>6, <2>1, <2>2, <2>3, <2>4, <2>5 DEF Upload, RejectUpload, AnswerWinner, Extract
<1>7. ASSUME NEW p \in Request, Delete(p) PROVE RequestsHold'
  <2>1. ASSUME NEW r \in Receipt, FindReceipt(p, r) PROVE RequestsHold'
    <3>1. r \in Rows'
      BY <1>1, <2>1 DEF FindReceipt, LiveReceipts, Rows, KeepsRows
    <3>2. QED
      BY <1>4, <2>1, <3>1 DEF FindReceipt
  <2>2. CASE CheckAttached(p)
    <3>1. CASE Finish(p)
      BY <1>5, <3>1
    <3>2. CASE Goto(p, "delete") /\ phase[p] = "attached"
      BY <1>1, <1>4, <3>2 DEF KeepsRows
    <3>3. QED
      BY <2>2, <3>1, <3>2 DEF CheckAttached
  <2>3. QED
    BY <1>5, <1>7, <2>1, <2>2 DEF Delete, SoftDeleteReceipt
<1>8. ASSUME NEW p \in Request, Filing(p) PROVE RequestsHold'
  <2>1. ASSUME NEW r \in Receipt \cup {None}, GoodReference(r) PROVE r # None => r \in Rows'
    BY <1>1, <2>1 DEF GoodReference, LiveReceipts, Rows, KeepsRows
  <2>2. ASSUME NEW r \in Receipt \cup {None}, StartFiling(p, r) PROVE RequestsHold'
    BY <1>4, <2>1, <2>2 DEF StartFiling
  <2>3. ASSUME NEW r \in Receipt \cup {None}, NEW e \in Expense, StartPatch(p, e, r) PROVE RequestsHold'
    BY <1>4, <2>1, <2>3 DEF StartPatch
  <2>4. QED
    BY <1>5, <1>8, <2>2, <2>3 DEF Filing, InsertExpense, UpdateExpense
<1>9. QED
  BY <1>3, <1>5, <1>6, <1>7, <1>8 DEF Next, Fail, SoftDeleteExpense, DumpDatabase, CopyReceipts, vars

-----------------------------------------------------------------------------
(* The row is inserted after its file has its name, and names only that.   *)
LEMMA StepKeepsBytes == ArchiveInv /\ [Next]_vars => (BytesArePresent /\ \A r \in Rows : sha[r] \in Photo)'
<1> SUFFICES ASSUME ArchiveInv, [Next]_vars PROVE (BytesArePresent /\ \A r \in Rows : sha[r] \in Photo)'
  OBVIOUS
<1>1. KeepsRows
  BY RowsStay
<1>2. CASE Rows' = Rows
  BY <1>1, <1>2 DEF KeepsRows, ArchiveInv, BytesArePresent, ColumnsHold
<1>3. ASSUME NEW p \in Request, NEW r \in Receipt, InsertReceipt(p, r), ~ PhotoTaken(photo[p])
      PROVE  (BytesArePresent /\ \A s \in Rows : sha[s] \in Photo)'
  <2>1. /\ phase[p] = "insert"
        /\ receipt' = [receipt EXCEPT ![r] = "live"]
        /\ sha' = [sha EXCEPT ![r] = photo[p]]
        /\ disk' = disk
    BY <1>3 DEF InsertReceipt, files
  <2>2. photo[p] \in Photo /\ photo[p] \in disk
    BY <2>1 DEF ArchiveInv, RequestsHold, RequestHolds
  <2>3. Rows' = Rows \cup {r}
    BY <2>1 DEF Rows, ArchiveInv, TypeOK
  <2>4. QED
    BY <2>1, <2>2, <2>3 DEF ArchiveInv, TypeOK, BytesArePresent, ColumnsHold
<1>4. (\A p \in Request, r \in Receipt : InsertReceipt(p, r) => PhotoTaken(photo[p])) => Rows' = Rows
  <2> SUFFICES ASSUME \A p \in Request, r \in Receipt : InsertReceipt(p, r) => PhotoTaken(photo[p])
               PROVE  Rows' = Rows
    OBVIOUS
  <2> USE DEF Rows, receipts
  <2>1. ASSUME NEW p \in Request, Upload(p) PROVE Rows' = Rows
    BY <2>1 DEF Upload, StartUpload, StoreUpload, RejectUpload, LookUpHash, CommitFile, InsertReceipt, AnswerWinner, Extract
  <2>2. ASSUME NEW p \in Request, Delete(p) PROVE Rows' = Rows
    <3>1. CASE SoftDeleteReceipt(p)
      BY <3>1 DEF SoftDeleteReceipt, ArchiveInv, TypeOK, RequestsHold, RequestHolds
    <3>2. QED
      BY <2>2, <3>1 DEF Delete, FindReceipt, CheckAttached
  <2>3. ASSUME NEW p \in Request, Filing(p) \/ Fail(p) PROVE Rows' = Rows
    BY <2>3 DEF Filing, StartFiling, StartPatch, InsertExpense, UpdateExpense, Fail
  <2>4. QED
    BY <2>1, <2>2, <2>3 DEF Next, SoftDeleteExpense, DumpDatabase, CopyReceipts, vars
<1>5. QED
  BY <1>2, <1>3, <1>4

(* A receipt an expense was filed against keeps its row.                   *)
LEMMA StepKeepsReferences == ArchiveInv /\ [Next]_vars
                               => (\A e \in Expense : receiptOf[e] # None => receiptOf[e] \in Rows)'
<1> SUFFICES ASSUME ArchiveInv, [Next]_vars, NEW e \in Expense, receiptOf'[e] # None
             PROVE  receiptOf'[e] \in Rows'
  OBVIOUS
<1>1. KeepsRows
  BY RowsStay
<1>2. CASE receiptOf'[e] = receiptOf[e]
  BY <1>1, <1>2 DEF KeepsRows, ArchiveInv, ColumnsHold
<1>3. CASE receiptOf'[e] # receiptOf[e]
  <2> USE DEF expenses
  <2>1. PICK p \in Request : (\E d \in Expense : InsertExpense(p, d)) \/ UpdateExpense(p)
    BY <1>3 DEF Next, Upload, StartUpload, StoreUpload, RejectUpload, LookUpHash, CommitFile, InsertReceipt,
                AnswerWinner, Extract, Delete, FindReceipt, CheckAttached, SoftDeleteReceipt, Filing,
                StartFiling, StartPatch, Fail, SoftDeleteExpense, DumpDatabase, CopyReceipts, vars
  <2>2. receiptOf'[e] = about[p]
    <3>1. ASSUME NEW d \in Expense, InsertExpense(p, d) PROVE receiptOf'[e] = about[p]
      BY <1>3, <3>1 DEF InsertExpense, ArchiveInv, TypeOK
    <3>2. CASE UpdateExpense(p)
      BY <1>3, <3>2 DEF UpdateExpense, ArchiveInv, TypeOK
    <3>3. QED
      BY <2>1, <3>1, <3>2
  <2>3. QED
    BY <1>1, <2>2 DEF KeepsRows, ArchiveInv, RequestsHold, RequestHolds
<1>4. QED
  BY <1>2, <1>3

(* The two unique indexes: a second row for a photo, or a second expense   *)
(* for a receipt, is refused where it is written.                          *)
LEMMA StepKeepsFiledOnce == ArchiveInv /\ TypeOK' /\ [Next]_vars => DocumentIsFiledOnce'
<1> SUFFICES ASSUME ArchiveInv, TypeOK', [Next]_vars PROVE DocumentIsFiledOnce'
  OBVIOUS
<1> USE NoneAssumption DEF ArchiveInv, TypeOK, DocumentIsFiledOnce, LiveReceipts, LiveExpenses, receipts, expenses
<1>1. CASE UNCHANGED <<receipts, expenses>>
  BY <1>1
<1>2. ASSUME NEW p \in Request, NEW r \in Receipt, InsertReceipt(p, r) PROVE DocumentIsFiledOnce'
  <2>1. CASE PhotoTaken(photo[p])
    BY <1>1, <1>2, <2>1 DEF InsertReceipt
  <2>2. CASE ~ PhotoTaken(photo[p])
    <3>1. /\ receipt' = [receipt EXCEPT ![r] = "live"]
          /\ sha' = [sha EXCEPT ![r] = photo[p]]
          /\ UNCHANGED expenses
      BY <1>2, <2>2 DEF InsertReceipt
    <3>2. \A s \in LiveReceipts : sha[s] # photo[p]
      BY <2>2 DEF PhotoTaken, Holding
    <3>3. QED
      BY <3>1, <3>2
  <2>3. QED
    BY <2>1, <2>2
<1>3. ASSUME NEW p \in Request, SoftDeleteReceipt(p) PROVE DocumentIsFiledOnce'
  BY <1>3 DEF SoftDeleteReceipt
<1>4. ASSUME NEW p \in Request, NEW e \in Expense, InsertExpense(p, e) PROVE DocumentIsFiledOnce'
  <2>1. CASE UNCHANGED expenses
    BY <1>1, <1>4, <2>1 DEF InsertExpense
  <2>2. CASE ~ ReceiptTaken(about[p], e)
    <3>1. /\ expense' = [expense EXCEPT ![e] = "live"]
          /\ receiptOf' = [receiptOf EXCEPT ![e] = about[p]]
          /\ UNCHANGED receipts
      BY <1>4, <2>2 DEF InsertExpense
    <3>2. about[p] # None => \A d \in LiveExpenses : receiptOf[d] = about[p] => d = e
      BY <2>2 DEF ReceiptTaken, FiledAs
    <3>3. QED
      BY <3>1, <3>2
  <2>3. QED
    BY <1>4, <2>1, <2>2 DEF InsertExpense
<1>5. ASSUME NEW p \in Request, UpdateExpense(p) PROVE DocumentIsFiledOnce'
  <2>1. CASE receiptOf' = receiptOf
    BY <1>1, <1>5, <2>1 DEF UpdateExpense
  <2>2. CASE expense[target[p]] = "live" /\ ~ ReceiptTaken(about[p], target[p])
    <3>1. /\ receiptOf' = [receiptOf EXCEPT ![target[p]] = about[p]]
          /\ UNCHANGED <<expense, receipts>>
      BY <1>5, <2>2 DEF UpdateExpense
    <3>2. about[p] # None => \A d \in LiveExpenses : receiptOf[d] = about[p] => d = target[p]
      BY <2>2 DEF ReceiptTaken, FiledAs
    <3>3. QED
      BY <3>1, <3>2
  <2>3. QED
    BY <1>5, <2>1, <2>2 DEF UpdateExpense
<1>6. ASSUME NEW e \in Expense, SoftDeleteExpense(e) PROVE DocumentIsFiledOnce'
  BY <1>6 DEF SoftDeleteExpense
<1>7. ASSUME NEW p \in Request, Upload(p), \A r \in Receipt : ~ InsertReceipt(p, r)
      PROVE  DocumentIsFiledOnce'
  BY <1>1, <1>7 DEF Upload, StartUpload, StoreUpload, RejectUpload, LookUpHash, CommitFile, AnswerWinner, Extract
<1>8. QED
  BY <1>1, <1>2, <1>3, <1>4, <1>5, <1>6, <1>7 DEF Next, Delete, FindReceipt, CheckAttached, Filing, StartFiling,
     StartPatch, Fail, DumpDatabase, CopyReceipts, vars

(* Each handler has its temporary file until the photo has a final name or *)
(* is answered without.                                                    *)
LEMMA StepKeepsTemp == ArchiveInv /\ [Next]_vars => NoTempLeft'
<1> SUFFICES ASSUME ArchiveInv, [Next]_vars PROVE NoTempLeft'
  OBVIOUS
<1> USE DEF ArchiveInv, TypeOK, NoTempLeft, Start, Goto, Finish, files, work
<1>1. ASSUME NEW p \in Request, Upload(p) PROVE NoTempLeft'
  <2>1. CASE LookUpHash(p)
    <3>1. CASE Holding(photo[p]) # {}
      BY <2>1, <3>1 DEF LookUpHash
    <3>2. CASE Holding(photo[p]) = {}
      BY <2>1, <3>2 DEF LookUpHash
    <3>3. QED
      BY <3>1, <3>2
  <2>2. ASSUME NEW r \in Receipt, InsertReceipt(p, r) PROVE NoTempLeft'
    <3>1. CASE PhotoTaken(photo[p])
      BY <2>2, <3>1 DEF InsertReceipt
    <3>2. CASE ~ PhotoTaken(photo[p])
      BY <2>2, <3>2 DEF InsertReceipt
    <3>3. QED
      BY <3>1, <3>2
  <2>3. CASE AnswerWinner(p) \/ Extract(p)
    BY <2>3 DEF AnswerWinner, Extract
  <2>4. QED
    BY <1>1, <2>1, <2>2, <2>3 DEF Upload, StartUpload, StoreUpload, RejectUpload, CommitFile
<1>2. ASSUME NEW p \in Request, Delete(p) PROVE NoTempLeft'
  BY <1>2 DEF Delete, FindReceipt, CheckAttached, SoftDeleteReceipt
<1>3. ASSUME NEW p \in Request, Filing(p) PROVE NoTempLeft'
  BY <1>3 DEF Filing, StartFiling, StartPatch, InsertExpense, UpdateExpense
<1>4. ASSUME NEW p \in Request, Fail(p) PROVE NoTempLeft'
  BY <1>4 DEF Fail
<1>5. QED
  BY <1>1, <1>2, <1>3, <1>4 DEF Next, SoftDeleteExpense, DumpDatabase, CopyReceipts, vars

(* The backup takes the rows first, and no file is ever removed.           *)
LEMMA StepKeepsBackup == ArchiveInv /\ [Next]_vars => BackupHolds'
<1> SUFFICES ASSUME ArchiveInv, [Next]_vars PROVE BackupHolds'
  OBVIOUS
<1> USE DEF ArchiveInv, TypeOK, BackupHolds, BackupIsWhole, backup, BackupOrder
<1>1. disk \subseteq disk'
  BY RowsStay DEF KeepsRows
<1>2. CASE UNCHANGED backup
  BY <1>1, <1>2
<1>3. CASE DumpDatabase
  BY <1>3 DEF DumpDatabase, BytesArePresent, files
<1>4. CASE CopyReceipts
  BY <1>4 DEF CopyReceipts
<1>5. QED
  BY <1>2, <1>3, <1>4 DEF Next, Upload, StartUpload, StoreUpload, RejectUpload, LookUpHash, CommitFile,
     InsertReceipt, AnswerWinner, Extract, Delete, FindReceipt, CheckAttached, SoftDeleteReceipt, Filing,
     StartFiling, StartPatch, InsertExpense, UpdateExpense, Fail, SoftDeleteExpense, vars

-----------------------------------------------------------------------------
(* The inductive invariant holds in every reachable state.                 *)
THEOREM ArchiveInvariant == Spec => []ArchiveInv
<1>1. ArchiveInv /\ [Next]_vars => ArchiveInv'
  BY StepKeepsTypes, StepKeepsRequests, StepKeepsBytes, StepKeepsReferences, StepKeepsFiledOnce,
     StepKeepsTemp, StepKeepsBackup DEF ArchiveInv, ColumnsHold
<1>2. QED
  BY InitArchiveInv, <1>1, PTL DEF Spec

(* The bytes of every row are on disk, whatever raced and whatever failed. *)
THEOREM RowsHaveBytes == Spec => []BytesArePresent
BY ArchiveInvariant, PTL DEF ArchiveInv

(* One live receipt for a photo, one live expense for a receipt.           *)
THEOREM FiledOnce == Spec => []DocumentIsFiledOnce
BY ArchiveInvariant, PTL DEF ArchiveInv

(* Only requests under way have temporary files.                           *)
THEOREM AnsweredLeavesNoTemp == Spec => []NoTempLeft
BY ArchiveInvariant, PTL DEF ArchiveInv

(* A backup taken while the archive is written has all its bytes.          *)
THEOREM BackupHasBytes == Spec => []BackupIsWhole
<1>1. ArchiveInv => BackupIsWhole
  BY DEF ArchiveInv, BackupHolds
<1>2. QED
  BY ArchiveInvariant, <1>1, PTL

=============================================================================
