-------------------------- MODULE Extraction_proofs --------------------------
(***************************************************************************)
(* Extraction, for every number of uploads, photos, receipts and attempts. *)
(* The invariant says which attempt an upload waits for and that ORDER BY  *)
(* has a first row for every receipt with attempts, so that the list and   *)
(* the refinement can speak of it.                                         *)
(***************************************************************************)
EXTENDS Extraction, TLAPS

(* The order of the list is that of pairs: it is irreflexive, transitive   *)
(* and total.                                                              *)
LEMMA NewerIsAnOrder ==
    ASSUME TypeOK
    PROVE  /\ \A a \in Attempt : ~ Newer(a, a)
           /\ \A a, b, c \in Attempt : Newer(a, b) /\ Newer(b, c) => Newer(a, c)
           /\ \A a, b \in Attempt : a = b \/ Newer(a, b) \/ Newer(b, a)
  <1>1. \A a \in Attempt : a \in Nat /\ createdAt[a] \in Int
    <2> TAKE a \in Attempt
    <2>1. createdAt[a] \in 0 .. MaxClock
      BY DEF TypeOK
    <2>2. a \in Nat
      BY AttemptAssumption
    <2> QED
      BY <2>1, <2>2, ClockAssumption
  <1> QED
    BY <1>1 DEF Newer

(* The list finds the first row of every receipt that has one.             *)
LatestFound ==
    \A r \in Receipt :
        IF RowsOf(r) = {} THEN LatestExtractions[r] = None
        ELSE /\ LatestExtractions[r] \in RowsOf(r)
             /\ \A b \in RowsOf(r) : b = LatestExtractions[r] \/ Newer(LatestExtractions[r], b)

LEMMA NewestIsFound == NewestExists => LatestFound
  <1> SUFFICES ASSUME NewestExists, NEW r \in Receipt, RowsOf(r) # {}
               PROVE  /\ LatestExtractions[r] \in RowsOf(r)
                      /\ \A b \in RowsOf(r) : b = LatestExtractions[r] \/ Newer(LatestExtractions[r], b)
    BY DEF LatestFound, LatestExtractions
  <1> DEFINE First(a) == \A b \in RowsOf(r) : b = a \/ Newer(a, b)
  <1>1. \E a \in RowsOf(r) : First(a)
    BY DEF NewestExists
  <1>2. LatestExtractions[r] = CHOOSE a \in RowsOf(r) : First(a)
    BY DEF LatestExtractions
  <1> HIDE DEF First
  <1>3. LatestExtractions[r] \in RowsOf(r) /\ First(LatestExtractions[r])
    BY <1>1, <1>2
  <1> QED
    BY <1>3 DEF First

(* The columns of an attempt, whatever the services answered.              *)
Sensible(row) ==
    /\ row.items => row.isReceipt = "yes" \/ row.model = "PaddleOCR"
    /\ row.status # "succeeded" => row.isReceipt = "unknown" /\ ~ row.items

LEMMA RowsAreSensible ==
    ASSUME NEW u \in Upload
    PROVE  /\ \A p \in Payload : Sensible(Row(Coordinate(u, Succeeded(ToFields(p)))))
           /\ Sensible(Row(Coordinate(u, Failed)))
           /\ Sensible(Row(Coordinate(u, Skipped)))
  <1> DEFINE local == Result("succeeded", MapLines(lines[u]), "PaddleOCR")
  <1>1. Sensible(Row(local))
    <2>1. local.status = "succeeded" /\ local.source = "PaddleOCR"
      BY DEF Result
    <2>2. Model(local) = "PaddleOCR"
      BY <2>1, NoneAssumption DEF Model
    <2>3. Row(local).model = "PaddleOCR" /\ Row(local).status = "succeeded"
      BY <2>1, <2>2 DEF Row
    <2> QED
      BY <2>3 DEF Sensible
  <1>2. ASSUME NEW p \in Payload
        PROVE  Sensible(Row(Coordinate(u, Succeeded(ToFields(p)))))
    <2> DEFINE result == Succeeded(ToFields(p))
               coordinated == Coordinate(u, result)
    <2>1. /\ result.status = "succeeded"
          /\ result.fields = ToFields(p)
      BY DEF Succeeded, Result
    <2>2. /\ coordinated.status = "succeeded"
          /\ coordinated.fields = ToFields(p)
      BY <2>1 DEF Coordinate, Succeeded, Result
    <2> HIDE DEF coordinated
    <2>3. /\ Row(coordinated).status = "succeeded"
          /\ Row(coordinated).isReceipt = p.isReceipt
          /\ Row(coordinated).items => p.isReceipt = "yes"
      <3>1. ToFields(p).isReceipt = p.isReceipt /\ (ToFields(p).items => p.isReceipt = "yes")
        BY Zenon DEF ToFields
      <3>2. /\ Row(coordinated).status = coordinated.status
            /\ Row(coordinated).isReceipt = coordinated.fields.isReceipt
            /\ Row(coordinated).items = coordinated.fields.items
        BY Zenon DEF Row
      <3> QED
        BY <2>2, <3>1, <3>2, Zenon
    <2> QED
      BY <2>3 DEF Sensible, coordinated
  <1>3. ASSUME NEW result \in {Failed, Skipped}
        PROVE  Sensible(Row(Coordinate(u, result)))
    <2>1. /\ result.status \in {"failed", "skipped"}
          /\ result.fields = NoFields
      BY DEF Failed, Skipped, Result
    <2>2. CASE lines[u] = None
      <3>1. Coordinate(u, result) = result
        BY <2>1, <2>2 DEF Coordinate
      <3>2. Row(result).isReceipt = "unknown" /\ ~ Row(result).items
        BY <2>1 DEF Row, NoFields
      <3> QED
        BY <3>1, <3>2 DEF Sensible
    <2>3. CASE lines[u] # None
      <3>1. Coordinate(u, result) = local
        BY <2>1, <2>3 DEF Coordinate
      <3> QED
        BY <3>1, <1>1
    <2> QED
      BY <2>2, <2>3
  <1> QED
    BY <1>2, <1>3

-----------------------------------------------------------------------------
(* The steps.                                                              *)

UploadWorks(u) ==
    /\ phase[u] # "idle" => image[u] # None
    /\ phase[u] \in {"reading", "gemini", "committing"} =>
           receipt[u] # None /\ imageOf[receipt[u]] = image[u]
    /\ mine[u] # None =>
           /\ phase[u] = "committing"
           /\ mine[u] \in open \cup rows
           /\ receiptOf[mine[u]] = receipt[u]

(* A step that leaves the committed rows alone leaves their order alone.   *)
LEMMA RowsKept ==
    ASSUME TypeOK, rows' = rows, ToldIsRecorded, NewestExists, told' = told,
           \A a \in rows : receiptOf'[a] = receiptOf[a] /\ createdAt'[a] = createdAt[a]
    PROVE  ToldIsRecorded' /\ NewestExists'
  <1>1. \A r \in Receipt : RowsOf(r)' = RowsOf(r)
    BY DEF RowsOf
  <1>2. ToldIsRecorded'
    BY <1>1 DEF ToldIsRecorded
  <1>3. ASSUME NEW r \in Receipt, RowsOf(r)' # {}
        PROVE  \E a \in RowsOf(r)' : \A b \in RowsOf(r)' : b = a \/ Newer(a, b)'
    <2>1. PICK a \in RowsOf(r) : \A b \in RowsOf(r) : b = a \/ Newer(a, b)
      BY <1>1, <1>3 DEF NewestExists
    <2>2. \A b \in RowsOf(r) : Newer(a, b) => Newer(a, b)'
      BY <2>1 DEF Newer, RowsOf
    <2> QED
      BY <1>1, <2>1, <2>2
  <1> QED
    BY <1>2, <1>3 DEF NewestExists

LEMMA InitInv == Init => ExtractionInv
  <1> SUFFICES ASSUME Init PROVE ExtractionInv
    OBVIOUS
  <1>1. TypeOK
    BY ClockAssumption DEF Init, TypeOK, Phase
  <1>2. UploadsWork /\ LiveHasItsImage /\ AttemptsWork /\ ReadingsMakeSense
    BY DEF Init, UploadsWork, LiveHasItsImage, AttemptsWork, ReadingsMakeSense
  <1>3. ToldIsRecorded /\ NewestExists
    BY DEF Init, ToldIsRecorded, NewestExists, RowsOf
  <1> QED
    BY <1>1, <1>2, <1>3 DEF ExtractionInv

LEMMA ArriveStep ==
    ASSUME ExtractionInv, NEW u \in Upload, NEW i \in Image, Arrive(u, i)
    PROVE  ExtractionInv'
  <1> USE DEF ExtractionInv
  <1>1. TypeOK'
    BY NoneAssumption DEF TypeOK, Phase, Arrive, Goto, archive, request, table
  <1>2. UploadsWork'
    <2> SUFFICES ASSUME NEW v \in Upload
                 PROVE  UploadWorks(v)'
      BY DEF UploadsWork, UploadWorks
    <2>1. \A w \in Upload : UploadWorks(w)
      BY DEF UploadsWork, UploadWorks
    <2>2. CASE v = u
      BY <2>1, <2>2, NoneAssumption DEF TypeOK, UploadWorks, LiveHasItsImage, Arrive, Goto, archive, request, table
    <2>3. CASE v # u
      <3>1. /\ phase'[v] = phase[v] /\ image'[v] = image[v] /\ receipt'[v] = receipt[v]
            /\ mine'[v] = mine[v] /\ open' = open /\ rows' = rows /\ receiptOf' = receiptOf
        BY <2>3 DEF TypeOK, Arrive, Goto, archive, request, table
      <3>2. receipt[v] # None /\ imageOf[receipt[v]] # None => imageOf'[receipt[v]] = imageOf[receipt[v]]
        BY NoneAssumption DEF TypeOK, Arrive, Goto, archive, request, table
      <3> QED
        BY <2>1, <3>1, <3>2 DEF UploadWorks
    <2> QED
      BY <2>2, <2>3
  <1>3. LiveHasItsImage' /\ AttemptsWork'
    BY NoneAssumption DEF TypeOK, LiveHasItsImage, AttemptsWork, Arrive, Goto, archive, request, table
  <1>4. ReadingsMakeSense'
    BY DEF ReadingsMakeSense, Arrive, Goto, archive, request, table
  <1>5. ToldIsRecorded' /\ NewestExists'
    BY RowsKept DEF Arrive, Goto, archive, request, table
  <1> QED
    BY <1>1, <1>2, <1>3, <1>4, <1>5

LEMMA InsertReceiptStep ==
    ASSUME ExtractionInv, NEW u \in Upload, NEW r \in Receipt, InsertReceipt(u, r)
    PROVE  ExtractionInv'
  <1> USE DEF ExtractionInv
  <1>1. TypeOK'
    BY NoneAssumption DEF TypeOK, Phase, InsertReceipt, Goto, archive, request, table
  <1>2. UploadsWork'
    <2> SUFFICES ASSUME NEW v \in Upload
                 PROVE  UploadWorks(v)'
      BY DEF UploadsWork, UploadWorks
    <2>1. \A w \in Upload : UploadWorks(w)
      BY DEF UploadsWork, UploadWorks
    <2>2. CASE v = u
      BY <2>1, <2>2, NoneAssumption DEF TypeOK, UploadWorks, LiveHasItsImage, InsertReceipt, Goto, archive, request, table
    <2>3. CASE v # u
      <3>1. /\ phase'[v] = phase[v] /\ image'[v] = image[v] /\ receipt'[v] = receipt[v]
            /\ mine'[v] = mine[v] /\ open' = open /\ rows' = rows /\ receiptOf' = receiptOf
        BY <2>3 DEF TypeOK, InsertReceipt, Goto, archive, request, table
      <3>2. receipt[v] # None /\ imageOf[receipt[v]] # None => imageOf'[receipt[v]] = imageOf[receipt[v]]
        BY NoneAssumption DEF TypeOK, InsertReceipt, Goto, archive, request, table
      <3> QED
        BY <2>1, <3>1, <3>2 DEF UploadWorks
    <2> QED
      BY <2>2, <2>3
  <1>3. LiveHasItsImage' /\ AttemptsWork'
    <2>1. /\ image[u] \in Image
          /\ imageOf[r] = None /\ imageOf' = [imageOf EXCEPT ![r] = image[u]]
      BY DEF TypeOK, UploadsWork, InsertReceipt
    <2>2. LiveHasItsImage'
      <3> SUFFICES ASSUME NEW i \in Image, live'[i] # None
                   PROVE  imageOf'[live'[i]] = i
        BY DEF LiveHasItsImage
      <3>1. CASE i = image[u]
        BY <2>1, <3>1 DEF TypeOK, InsertReceipt
      <3>2. CASE i # image[u]
        <4>1. live'[i] = live[i] /\ live[i] \in Receipt /\ imageOf[live[i]] = i
          BY <2>1, <3>2 DEF TypeOK, LiveHasItsImage, InsertReceipt
        <4>2. live[i] # r
          BY <2>1, <4>1, NoneAssumption
        <4> QED
          BY <2>1, <4>1, <4>2 DEF TypeOK
      <3> QED
        BY <3>1, <3>2
    <2>3. AttemptsWork'
      <3> SUFFICES ASSUME NEW a \in Attempt, receiptOf[a] # None
                   PROVE  readFrom[a] # None /\ readFrom[a] = imageOf'[receiptOf[a]]
        BY DEF AttemptsWork, InsertReceipt, table
      <3>1. receiptOf[a] \in Receipt /\ readFrom[a] # None /\ readFrom[a] = imageOf[receiptOf[a]]
        BY DEF TypeOK, AttemptsWork
      <3> QED
        BY <2>1, <3>1 DEF TypeOK
    <2> QED
      BY <2>2, <2>3
  <1>4. ReadingsMakeSense'
    BY DEF ReadingsMakeSense, InsertReceipt, Goto, archive, request, table
  <1>5. ToldIsRecorded' /\ NewestExists'
    BY RowsKept DEF InsertReceipt, Goto, archive, request, table
  <1> QED
    BY <1>1, <1>2, <1>3, <1>4, <1>5

LEMMA AnswerWithoutReadingStep ==
    ASSUME ExtractionInv, NEW u \in Upload, AnswerWithoutReading(u)
    PROVE  ExtractionInv'
  <1> USE DEF ExtractionInv
  <1>1. TypeOK'
    BY NoneAssumption DEF TypeOK, Phase, AnswerWithoutReading, Finish, archive, request, table
  <1>2. UploadsWork'
    BY NoneAssumption DEF TypeOK, UploadsWork, LiveHasItsImage, AttemptsWork, AnswerWithoutReading, Finish, archive, request, table
  <1>3. LiveHasItsImage' /\ AttemptsWork'
    BY NoneAssumption DEF TypeOK, LiveHasItsImage, AttemptsWork, AnswerWithoutReading, Finish, archive, request, table
  <1>4. ReadingsMakeSense'
    BY DEF ReadingsMakeSense, AnswerWithoutReading, Finish, archive, request, table
  <1>5. ToldIsRecorded' /\ NewestExists'
    BY RowsKept DEF AnswerWithoutReading, Finish, archive, request, table
  <1> QED
    BY <1>1, <1>2, <1>3, <1>4, <1>5

LEMMA DeleteReceiptStep ==
    ASSUME ExtractionInv, NEW i \in Image, DeleteReceipt(i)
    PROVE  ExtractionInv'
  <1> USE DEF ExtractionInv
  <1>1. TypeOK'
    BY NoneAssumption DEF TypeOK, Phase, DeleteReceipt, archive, request, table
  <1>2. UploadsWork'
    BY NoneAssumption DEF TypeOK, UploadsWork, LiveHasItsImage, AttemptsWork, DeleteReceipt, archive, request, table
  <1>3. LiveHasItsImage' /\ AttemptsWork'
    BY NoneAssumption DEF TypeOK, LiveHasItsImage, AttemptsWork, DeleteReceipt, archive, request, table
  <1>4. ReadingsMakeSense'
    BY DEF ReadingsMakeSense, DeleteReceipt, archive, request, table
  <1>5. ToldIsRecorded' /\ NewestExists'
    BY RowsKept DEF DeleteReceipt, archive, request, table
  <1> QED
    BY <1>1, <1>2, <1>3, <1>4, <1>5

LEMMA OcrAnswersStep ==
    ASSUME ExtractionInv, NEW u \in Upload, NEW l \in Lines, OcrAnswers(u, l)
    PROVE  ExtractionInv'
  <1> USE DEF ExtractionInv
  <1>1. TypeOK'
    BY NoneAssumption DEF TypeOK, Phase, OcrAnswers, Goto, archive, request, table
  <1>2. UploadsWork'
    <2> SUFFICES ASSUME NEW v \in Upload
                 PROVE  UploadWorks(v)'
      BY DEF UploadsWork, UploadWorks
    <2>1. \A w \in Upload : UploadWorks(w)
      BY DEF UploadsWork, UploadWorks
    <2>2. CASE v = u
      BY <2>1, <2>2, NoneAssumption DEF TypeOK, UploadWorks, LiveHasItsImage, OcrAnswers, Goto, archive, request, table
    <2>3. CASE v # u
      <3>1. /\ phase'[v] = phase[v] /\ image'[v] = image[v] /\ receipt'[v] = receipt[v]
            /\ mine'[v] = mine[v] /\ open' = open /\ rows' = rows /\ receiptOf' = receiptOf
        BY <2>3 DEF TypeOK, OcrAnswers, Goto, archive, request, table
      <3>2. receipt[v] # None /\ imageOf[receipt[v]] # None => imageOf'[receipt[v]] = imageOf[receipt[v]]
        BY NoneAssumption DEF TypeOK, OcrAnswers, Goto, archive, request, table
      <3> QED
        BY <2>1, <3>1, <3>2 DEF UploadWorks
    <2> QED
      BY <2>2, <2>3
  <1>3. LiveHasItsImage' /\ AttemptsWork'
    BY NoneAssumption DEF TypeOK, LiveHasItsImage, AttemptsWork, OcrAnswers, Goto, archive, request, table
  <1>4. ReadingsMakeSense'
    BY DEF ReadingsMakeSense, OcrAnswers, Goto, archive, request, table
  <1>5. ToldIsRecorded' /\ NewestExists'
    BY RowsKept DEF OcrAnswers, Goto, archive, request, table
  <1> QED
    BY <1>1, <1>2, <1>3, <1>4, <1>5

LEMMA NoOcrStep ==
    ASSUME ExtractionInv, NEW u \in Upload, NoOcr(u)
    PROVE  ExtractionInv'
  <1> USE DEF ExtractionInv
  <1>1. TypeOK'
    BY NoneAssumption DEF TypeOK, Phase, NoOcr, Goto, archive, request, table
  <1>2. UploadsWork'
    <2> SUFFICES ASSUME NEW v \in Upload
                 PROVE  UploadWorks(v)'
      BY DEF UploadsWork, UploadWorks
    <2>1. \A w \in Upload : UploadWorks(w)
      BY DEF UploadsWork, UploadWorks
    <2>2. CASE v = u
      BY <2>1, <2>2, NoneAssumption DEF TypeOK, UploadWorks, LiveHasItsImage, NoOcr, Goto, archive, request, table
    <2>3. CASE v # u
      <3>1. /\ phase'[v] = phase[v] /\ image'[v] = image[v] /\ receipt'[v] = receipt[v]
            /\ mine'[v] = mine[v] /\ open' = open /\ rows' = rows /\ receiptOf' = receiptOf
        BY <2>3 DEF TypeOK, NoOcr, Goto, archive, request, table
      <3>2. receipt[v] # None /\ imageOf[receipt[v]] # None => imageOf'[receipt[v]] = imageOf[receipt[v]]
        BY NoneAssumption DEF TypeOK, NoOcr, Goto, archive, request, table
      <3> QED
        BY <2>1, <3>1, <3>2 DEF UploadWorks
    <2> QED
      BY <2>2, <2>3
  <1>3. LiveHasItsImage' /\ AttemptsWork'
    BY NoneAssumption DEF TypeOK, LiveHasItsImage, AttemptsWork, NoOcr, Goto, archive, request, table
  <1>4. ReadingsMakeSense'
    BY DEF ReadingsMakeSense, NoOcr, Goto, archive, request, table
  <1>5. ToldIsRecorded' /\ NewestExists'
    BY RowsKept DEF NoOcr, Goto, archive, request, table
  <1> QED
    BY <1>1, <1>2, <1>3, <1>4, <1>5

LEMMA FileUnreadableStep ==
    ASSUME ExtractionInv, NEW u \in Upload, FileUnreadable(u)
    PROVE  ExtractionInv'
  <1> USE DEF ExtractionInv
  <1>1. TypeOK'
    BY NoneAssumption DEF TypeOK, Phase, FileUnreadable, Finish, archive, request, table
  <1>2. UploadsWork'
    BY NoneAssumption DEF TypeOK, UploadsWork, LiveHasItsImage, AttemptsWork, FileUnreadable, Finish, archive, request, table
  <1>3. LiveHasItsImage' /\ AttemptsWork'
    BY NoneAssumption DEF TypeOK, LiveHasItsImage, AttemptsWork, FileUnreadable, Finish, archive, request, table
  <1>4. ReadingsMakeSense'
    BY DEF ReadingsMakeSense, FileUnreadable, Finish, archive, request, table
  <1>5. ToldIsRecorded' /\ NewestExists'
    BY RowsKept DEF FileUnreadable, Finish, archive, request, table
  <1> QED
    BY <1>1, <1>2, <1>3, <1>4, <1>5

LEMMA CouldNotRecordStep ==
    ASSUME ExtractionInv, NEW u \in Upload, CouldNotRecord(u)
    PROVE  ExtractionInv'
  <1> USE DEF ExtractionInv
  <1>1. TypeOK'
    BY NoneAssumption DEF TypeOK, Phase, CouldNotRecord, Finish, archive, request, table
  <1>2. UploadsWork'
    BY NoneAssumption DEF TypeOK, UploadsWork, LiveHasItsImage, AttemptsWork, CouldNotRecord, Finish, archive, request, table
  <1>3. LiveHasItsImage' /\ AttemptsWork'
    BY NoneAssumption DEF TypeOK, LiveHasItsImage, AttemptsWork, CouldNotRecord, Finish, archive, request, table
  <1>4. ReadingsMakeSense'
    BY DEF ReadingsMakeSense, CouldNotRecord, Finish, archive, request, table
  <1>5. ToldIsRecorded' /\ NewestExists'
    BY RowsKept DEF CouldNotRecord, Finish, archive, request, table
  <1> QED
    BY <1>1, <1>2, <1>3, <1>4, <1>5

LEMMA RestartStep ==
    ASSUME ExtractionInv, Restart
    PROVE  ExtractionInv'
  <1> USE DEF ExtractionInv
  <1>1. TypeOK'
    BY NoneAssumption DEF TypeOK, Phase, Restart, Finish, archive, request, table
  <1>2. UploadsWork'
    BY NoneAssumption DEF TypeOK, UploadsWork, LiveHasItsImage, AttemptsWork, Restart, Finish, archive, request, table
  <1>3. LiveHasItsImage' /\ AttemptsWork'
    BY NoneAssumption DEF TypeOK, LiveHasItsImage, AttemptsWork, Restart, Finish, archive, request, table
  <1>4. ReadingsMakeSense'
    BY DEF ReadingsMakeSense, Restart, Finish, archive, request, table
  <1>5. ToldIsRecorded' /\ NewestExists'
    BY RowsKept DEF Restart, Finish, archive, request, table
  <1> QED
    BY <1>1, <1>2, <1>3, <1>4, <1>5

LEMMA TickStep ==
    ASSUME ExtractionInv, Tick
    PROVE  ExtractionInv'
  <1> USE DEF ExtractionInv
  <1>1. TypeOK'
    <2>1. clock' \in 0 .. MaxClock
      BY ClockAssumption DEF TypeOK, Tick
    <2> QED
      BY <2>1 DEF TypeOK, Tick, archive, request, table
  <1>2. UploadsWork'
    BY NoneAssumption DEF TypeOK, UploadsWork, LiveHasItsImage, AttemptsWork, Tick, archive, request, table
  <1>3. LiveHasItsImage' /\ AttemptsWork'
    BY NoneAssumption DEF TypeOK, LiveHasItsImage, AttemptsWork, Tick, archive, request, table
  <1>4. ReadingsMakeSense'
    BY DEF ReadingsMakeSense, Tick, archive, request, table
  <1>5. ToldIsRecorded' /\ NewestExists'
    BY RowsKept DEF Tick, archive, request, table
  <1> QED
    BY <1>1, <1>2, <1>3, <1>4, <1>5

(* An attempt is begun, with columns that make sense.                      *)
LEMMA RecordExtractionStep ==
    ASSUME ExtractionInv, NEW u \in Upload, NEW a \in Attempt, NEW result,
           phase[u] = "gemini", Sensible(Row(result)), RecordExtraction(u, a, result)
    PROVE  ExtractionInv'
  <1> USE DEF ExtractionInv
  <1>1. /\ receipt[u] \in Receipt /\ image[u] \in Image /\ imageOf[receipt[u]] = image[u]
        /\ a \notin open \cup rows
    <2>1. /\ receipt[u] # None /\ imageOf[receipt[u]] = image[u] /\ image[u] # None
      BY DEF UploadsWork
    <2>2. receipt[u] \in Receipt /\ image[u] \in Image
      BY <2>1 DEF TypeOK
    <2>3. a \notin open \cup rows
      BY DEF AttemptsWork, RecordExtraction
    <2> QED
      BY <2>1, <2>2, <2>3
  <1>2. TypeOK'
    BY <1>1 DEF TypeOK, Phase, RecordExtraction, Goto, archive
  <1>3. UploadsWork'
    <2> SUFFICES ASSUME NEW v \in Upload
                 PROVE  UploadWorks(v)'
      BY DEF UploadsWork, UploadWorks
    <2>1. UploadWorks(v)
      BY DEF UploadsWork, UploadWorks
    <2>2. CASE v = u
      BY <1>1, <2>1, <2>2, NoneAssumption DEF TypeOK, UploadWorks, RecordExtraction, Goto, archive
    <2>3. CASE v # u
      <3>1. /\ phase'[v] = phase[v] /\ image'[v] = image[v] /\ receipt'[v] = receipt[v]
            /\ mine'[v] = mine[v] /\ imageOf' = imageOf /\ rows' = rows
        BY <2>3 DEF TypeOK, RecordExtraction, Goto, archive
      <3>2. mine[v] # None => mine[v] # a /\ mine[v] \in Attempt
        BY <1>1, <2>1 DEF TypeOK, UploadWorks
      <3>3. mine[v] # None => mine[v] \in open' \cup rows /\ receiptOf'[mine[v]] = receiptOf[mine[v]]
        BY <2>1, <3>2 DEF TypeOK, UploadWorks, RecordExtraction
      <3> QED
        BY <2>1, <3>1, <3>3 DEF UploadWorks
    <2> QED
      BY <2>2, <2>3
  <1>4. LiveHasItsImage'
    BY DEF LiveHasItsImage, RecordExtraction, archive
  <1>5. AttemptsWork'
    <2> SUFFICES ASSUME NEW b \in Attempt
                 PROVE  /\ b \notin open' \cap rows
                        /\ b \in open' \cup rows <=> receiptOf'[b] # None
                        /\ receiptOf'[b] # None =>
                               readFrom'[b] # None /\ readFrom'[b] = imageOf[receiptOf'[b]]
      BY DEF AttemptsWork, RecordExtraction, archive
    <2>1. CASE b = a
      BY <1>1, <2>1, NoneAssumption DEF TypeOK, RecordExtraction
    <2>2. CASE b # a
      BY <2>2 DEF TypeOK, AttemptsWork, RecordExtraction
    <2> QED
      BY <2>1, <2>2
  <1>6. ReadingsMakeSense'
    <2> SUFFICES ASSUME NEW b \in open' \cup rows
                 PROVE  Sensible(reading'[b])
      BY DEF ReadingsMakeSense, Sensible, RecordExtraction
    <2>1. reading' = [reading EXCEPT ![a] = Row(result)] /\ open' = open \cup {a}
      BY DEF RecordExtraction
    <2>2. CASE b = a
      <3>1. reading'[a] = Row(result)
        BY <2>1, <1>2 DEF TypeOK
      <3> QED
        BY <2>2, <3>1
    <2>3. CASE b # a
      <3>1. reading'[b] = reading[b] /\ b \in open \cup rows
        BY <2>1, <2>3 DEF TypeOK
      <3> QED
        BY <3>1 DEF ReadingsMakeSense, Sensible
    <2> QED
      BY <2>2, <2>3
  <1>7. ToldIsRecorded' /\ NewestExists'
    <2>1. \A b \in rows : receiptOf'[b] = receiptOf[b] /\ createdAt'[b] = createdAt[b]
      BY <1>1 DEF TypeOK, RecordExtraction
    <2> QED
      BY <2>1, RowsKept DEF RecordExtraction
  <1> QED
    BY <1>2, <1>3, <1>4, <1>5, <1>6, <1>7

LEMMA GeminiStep ==
    ASSUME ExtractionInv, NEW u \in Upload, NEW a \in Attempt,
           GeminiGivesUp(u, a) \/ \E p \in Payload : GeminiAnswers(u, a, p)
    PROVE  ExtractionInv'
  <1>1. CASE GeminiGivesUp(u, a)
    <2>1. PICK result \in {Failed, Skipped} : GeminiEnds(u, a, result)
      BY <1>1 DEF GeminiGivesUp
    <2>2. Sensible(Row(Coordinate(u, result)))
      BY <2>1, RowsAreSensible
    <2> QED
      BY <2>1, <2>2, RecordExtractionStep DEF GeminiEnds
  <1>2. CASE \E p \in Payload : GeminiAnswers(u, a, p)
    <2>1. PICK p \in Payload : GeminiEnds(u, a, Succeeded(ToFields(p)))
      BY <1>2 DEF GeminiAnswers
    <2>2. Sensible(Row(Coordinate(u, Succeeded(ToFields(p)))))
      BY <2>1, RowsAreSensible
    <2> QED
      BY <2>1, <2>2, RecordExtractionStep DEF GeminiEnds
  <1> QED
    BY <1>1, <1>2

(* What a receipt's attempts are once one more has committed.              *)
LEMMA RowsGrow ==
    ASSUME TypeOK, NEW a \in open, CommitRow(a)
    PROVE  /\ \A r \in Receipt : RowsOf(r)' = RowsOf(r) \cup {b \in {a} : receiptOf[b] = r}
           /\ \A b, c \in Attempt : Newer(b, c)' <=> Newer(b, c)
  BY DEF TypeOK, CommitRow, RowsOf, Newer

LEMMA CommitRowStep ==
    ASSUME ExtractionInv, NEW a \in Attempt, CommitRow(a)
    PROVE  ExtractionInv'
  <1> USE DEF ExtractionInv
  <1>1. TypeOK' /\ LiveHasItsImage'
    BY DEF TypeOK, LiveHasItsImage, CommitRow, archive, request
  <1>2. UploadsWork' /\ AttemptsWork' /\ ReadingsMakeSense'
    BY DEF TypeOK, UploadsWork, AttemptsWork, ReadingsMakeSense, CommitRow, archive, request
  <1>3. ToldIsRecorded'
    BY DEF ToldIsRecorded, RowsOf, CommitRow
  <1>4. NewestExists'
    <2> SUFFICES ASSUME NEW r \in Receipt, RowsOf(r)' # {}
                 PROVE  \E b \in RowsOf(r)' : \A c \in RowsOf(r)' : c = b \/ Newer(b, c)'
      BY DEF NewestExists
    <2>1. a \in open
      BY DEF CommitRow
    <2>2. /\ RowsOf(r)' = RowsOf(r) \cup {b \in {a} : receiptOf[b] = r}
          /\ \A b, c \in Attempt : Newer(b, c)' <=> Newer(b, c)
          /\ RowsOf(r) \subseteq Attempt
      BY <2>1, RowsGrow DEF RowsOf, TypeOK
    <2>3. CASE RowsOf(r) = {}
      BY <2>2, <2>3
    <2>4. CASE RowsOf(r) # {}
      <3>1. PICK b \in RowsOf(r) : \A c \in RowsOf(r) : c = b \/ Newer(b, c)
        BY <2>4 DEF NewestExists
      <3>2. CASE receiptOf[a] = r /\ Newer(a, b)
        <4>1. \A c \in RowsOf(r) : Newer(a, c)
          BY <2>2, <3>1, <3>2, NewerIsAnOrder
        <4> QED
          BY <2>2, <3>2, <4>1
      <3>3. CASE receiptOf[a] = r /\ ~ Newer(a, b)
        <4>1. a = b \/ Newer(b, a)
          BY <2>2, <3>3, NewerIsAnOrder
        <4> QED
          BY <2>2, <3>1, <3>3, <4>1
      <3>4. CASE receiptOf[a] # r
        BY <2>2, <3>1, <3>4
      <3> QED
        BY <3>2, <3>3, <3>4
    <2> QED
      BY <2>3, <2>4
  <1> QED
    BY <1>1, <1>2, <1>3, <1>4

LEMMA RollBackRowStep ==
    ASSUME ExtractionInv, NEW a \in Attempt, RollBackRow(a)
    PROVE  ExtractionInv'
  <1> USE DEF ExtractionInv
  <1>1. a \in open /\ a \notin rows
    BY DEF AttemptsWork, RollBackRow
  <1>2. TypeOK' /\ LiveHasItsImage'
    BY ClockAssumption DEF TypeOK, LiveHasItsImage, RollBackRow, archive
  <1>3. UploadsWork'
    <2> SUFFICES ASSUME NEW v \in Upload
                 PROVE  UploadWorks(v)'
      BY DEF UploadsWork, UploadWorks
    <2>1. UploadWorks(v)
      BY DEF UploadsWork, UploadWorks
    <2>2. /\ phase' = phase /\ image' = image /\ receipt' = receipt /\ imageOf' = imageOf
          /\ rows' = rows /\ open' = open \ {a}
          /\ mine'[v] = IF mine[v] = a THEN None ELSE mine[v]
      BY DEF RollBackRow, archive
    <2>3. mine'[v] # None => receiptOf'[mine'[v]] = receiptOf[mine[v]]
      BY <2>2 DEF TypeOK, RollBackRow
    <2> QED
      BY <2>1, <2>2, <2>3 DEF UploadWorks
  <1>4. AttemptsWork'
    BY <1>1, NoneAssumption DEF TypeOK, AttemptsWork, RollBackRow, archive
  <1>5. ReadingsMakeSense'
    <2>1. \A b \in open' \cup rows' : b \in open \cup rows /\ b # a
      BY <1>1 DEF RollBackRow
    <2>2. reading' = [reading EXCEPT ![a] = None]
      BY DEF RollBackRow
    <2>3. \A b \in open' \cup rows' : reading'[b] = reading[b]
      BY <2>1, <2>2
    <2> QED
      BY <2>1, <2>3 DEF ReadingsMakeSense
  <1>6. ToldIsRecorded' /\ NewestExists'
    <2>1. \A b \in rows : receiptOf'[b] = receiptOf[b] /\ createdAt'[b] = createdAt[b]
      BY <1>1 DEF TypeOK, RollBackRow
    <2> QED
      BY <2>1, RowsKept DEF RollBackRow
  <1> QED
    BY <1>2, <1>3, <1>4, <1>5, <1>6

LEMMA AnswerStep ==
    ASSUME ExtractionInv, NEW u \in Upload, Answer(u)
    PROVE  ExtractionInv'
  <1> USE DEF ExtractionInv
  <1>1. receipt[u] \in Receipt /\ (mine[u] # None => mine[u] \in RowsOf(receipt[u]))
    BY NoneAssumption DEF TypeOK, UploadsWork, RowsOf, Answer
  <1>2. told' = [told EXCEPT ![receipt[u]] = told'[receipt[u]]]
    BY <1>1 DEF TypeOK, Answer
  <1>3. told'[receipt[u]] \in {told[receipt[u]], mine[u]} /\ (mine[u] = None => told'[receipt[u]] = told[receipt[u]])
    BY <1>1 DEF TypeOK, Answer, NewerOf
  <1>4. TypeOK'
    <2>1. told'[receipt[u]] \in Attempt \cup {None}
      BY <1>1, <1>3 DEF TypeOK
    <2>2. told' \in [Receipt -> Attempt \cup {None}]
      BY <1>2, <2>1 DEF TypeOK
    <2> QED
      BY <2>2 DEF TypeOK, Phase, Answer, Finish, archive, table
  <1>5. UploadsWork' /\ LiveHasItsImage' /\ AttemptsWork' /\ ReadingsMakeSense'
    BY DEF UploadsWork, LiveHasItsImage, AttemptsWork, ReadingsMakeSense, Answer, Finish, archive, table
  <1>6. \A r \in Receipt : RowsOf(r)' = RowsOf(r)
    BY DEF RowsOf, Answer, table
  <1>7. ToldIsRecorded'
    <2> SUFFICES ASSUME NEW r \in Receipt, told'[r] # None
                 PROVE  told'[r] \in RowsOf(r)
      BY <1>6 DEF ToldIsRecorded
    <2>1. CASE r = receipt[u]
      BY <1>1, <1>3, <2>1 DEF ToldIsRecorded
    <2>2. CASE r # receipt[u]
      BY <1>2, <2>2 DEF TypeOK, ToldIsRecorded
    <2> QED
      BY <2>1, <2>2
  <1>8. NewestExists'
    BY <1>6 DEF NewestExists, Newer, Answer, table
  <1> QED
    BY <1>4, <1>5, <1>7, <1>8

LEMMA StutterStep ==
    ASSUME ExtractionInv, UNCHANGED vars
    PROVE  ExtractionInv'
  <1> USE DEF ExtractionInv
  <1>1. TypeOK' /\ UploadsWork' /\ LiveHasItsImage' /\ AttemptsWork' /\ ReadingsMakeSense'
    BY DEF vars, archive, request, table, TypeOK, UploadsWork, LiveHasItsImage, AttemptsWork,
           ReadingsMakeSense
  <1>2. ToldIsRecorded' /\ NewestExists'
    BY RowsKept DEF vars, table
  <1> QED
    BY <1>1, <1>2

LEMMA InvStep == ExtractionInv /\ [Next]_vars => ExtractionInv'
  <1> SUFFICES ASSUME ExtractionInv, [Next]_vars
               PROVE  ExtractionInv'
    OBVIOUS
  <1>1. ASSUME NEW u \in Upload, Proceed(u)
        PROVE  ExtractionInv'
    BY <1>1, InsertReceiptStep, AnswerWithoutReadingStep, NoOcrStep, GeminiStep,
       CouldNotRecordStep, AnswerStep DEF Proceed
  <1>2. ASSUME NEW u \in Upload, Hear(u)
        PROVE  ExtractionInv'
    BY <1>2, ArriveStep, FileUnreadableStep, OcrAnswersStep, GeminiStep DEF Hear
  <1>3. ASSUME NEW a \in Attempt, Complete(a)
        PROVE  ExtractionInv'
    BY <1>3, CommitRowStep, RollBackRowStep DEF Complete
  <1>4. ASSUME NEW i \in Image, DeleteReceipt(i)
        PROVE  ExtractionInv'
    BY <1>4, DeleteReceiptStep
  <1>5. CASE Restart \/ Tick
    BY <1>5, RestartStep, TickStep
  <1>6. CASE UNCHANGED vars
    BY <1>6, StutterStep
  <1> QED
    BY <1>1, <1>2, <1>3, <1>4, <1>5, <1>6 DEF Next

(* An upload waits for an attempt that reads its photo for its receipt,    *)
(* and every receipt with attempts has one that the list puts first.       *)
THEOREM ExtractionInvariant == Spec => []ExtractionInv
  BY InitInv, InvStep, PTL DEF Spec

(* No upload is answered with a reading that the list then lacks, or shows *)
(* an older one than.                                                      *)
LEMMA InvImpliesListIsNoOlder == ExtractionInv => ListIsNoOlder
  <1> SUFFICES ASSUME ExtractionInv, NEW i \in Image, live[i] # None, told[live[i]] # None
               PROVE  /\ LatestExtractions[live[i]] # None
                      /\ ~ Newer(told[live[i]], LatestExtractions[live[i]])
    BY DEF ListIsNoOlder
  <1>1. live[i] \in Receipt /\ told[live[i]] \in RowsOf(live[i])
    BY DEF ExtractionInv, TypeOK, ToldIsRecorded
  <1>2. /\ LatestExtractions[live[i]] \in RowsOf(live[i])
        /\ told[live[i]] = LatestExtractions[live[i]]
             \/ Newer(LatestExtractions[live[i]], told[live[i]])
    BY <1>1, NewestIsFound DEF ExtractionInv, LatestFound
  <1>3. RowsOf(live[i]) \subseteq Attempt
    BY DEF ExtractionInv, TypeOK, RowsOf
  <1> QED
    BY <1>1, <1>2, <1>3, NewerIsAnOrder, NoneAssumption DEF ExtractionInv

THEOREM ListShowsNoOlderReading == Spec => []ListIsNoOlder
  BY ExtractionInvariant, InvImpliesListIsNoOlder, PTL

-----------------------------------------------------------------------------
(* The refinement.                                                         *)
(* A step that leaves the committed rows alone shows what was shown.       *)
LEMMA ShownKept ==
    ASSUME ExtractionInv, LatestFound, LatestFound', rows' = rows,
           \A a \in rows : /\ receiptOf'[a] = receiptOf[a]
                           /\ createdAt'[a] = createdAt[a]
                           /\ readFrom'[a] = readFrom[a]
    PROVE  /\ {Entry(a) : a \in rows}' = {Entry(a) : a \in rows}
           /\ Shown' = Shown
  <1>1. {Entry(a) : a \in rows}' = {Entry(a) : a \in rows}
    BY DEF Entry
  <1>2. ASSUME NEW r \in Receipt
        PROVE  /\ LatestExtractions'[r] = LatestExtractions[r]
               /\ LatestExtractions[r] # None => LatestExtractions[r] \in rows
    <2>1. RowsOf(r)' = RowsOf(r)
      BY DEF RowsOf
    <2>2. CASE RowsOf(r) = {}
      BY <2>1, <2>2 DEF LatestFound
    <2>3. CASE RowsOf(r) # {}
      <3>1. /\ LatestExtractions[r] \in RowsOf(r) /\ LatestExtractions'[r] \in RowsOf(r)
            /\ LatestExtractions'[r] = LatestExtractions[r]
                 \/ Newer(LatestExtractions[r], LatestExtractions'[r])
            /\ LatestExtractions'[r] = LatestExtractions[r]
                 \/ Newer(LatestExtractions'[r], LatestExtractions[r])
        BY <2>1, <2>3 DEF LatestFound, Newer, RowsOf
      <3>2. RowsOf(r) \subseteq rows /\ rows \subseteq Attempt
        BY DEF RowsOf, ExtractionInv, TypeOK
      <3> QED
        BY <3>1, <3>2, NewerIsAnOrder DEF ExtractionInv
    <2> QED
      BY <2>2, <2>3
  <1>3. \A r \in Receipt : Shown'[r] = Shown[r]
    BY <1>2 DEF Shown, Entry
  <1> QED
    BY <1>1, <1>3 DEF Shown

LEMMA RefinementInit == Init => Readings!Init
  BY DEF Init, Readings!Init, Shown, LatestExtractions, RowsOf

(* A row that commits is a reading that is recorded, and shown if newest.  *)
LEMMA CommitRecords ==
    ASSUME ExtractionInv, LatestFound, LatestFound', NEW a \in Attempt, CommitRow(a)
    PROVE  Readings!Record(Entry(a)) /\ Entry(a) \in Readings!Reading
  <1>a. PICK home \in Receipt : home = receiptOf[a]
    BY NoneAssumption DEF ExtractionInv, TypeOK, AttemptsWork, CommitRow
  <1>b. PICK top : top = LatestExtractions[home]
    OBVIOUS
  <1>1. /\ a \in open /\ a \notin rows
        /\ home = receiptOf[a]
        /\ readFrom[a] \in Image /\ readFrom[a] = imageOf[home]
        /\ createdAt[a] \in 0 .. MaxClock
    BY <1>a, NoneAssumption DEF ExtractionInv, TypeOK, AttemptsWork, CommitRow
  <1>2. /\ imageOf' = imageOf /\ rows' = rows \cup {a}
        /\ receiptOf' = receiptOf /\ createdAt' = createdAt /\ readFrom' = readFrom
    BY DEF CommitRow, archive
  <1>3. /\ RowsOf(home)' = RowsOf(home) \cup {a}
        /\ \A r \in Receipt : r # home => RowsOf(r)' = RowsOf(r)
        /\ \A r \in Receipt : RowsOf(r) \subseteq rows /\ RowsOf(r) \subseteq Attempt
    BY <1>1, <1>2 DEF RowsOf, ExtractionInv, TypeOK
  <1>4. \A b, c \in Attempt : Newer(b, c)' <=> Newer(b, c)
    BY <1>2 DEF Newer
  <1>5. LatestExtractions'[home] = IF top # None /\ Newer(top, a) THEN top ELSE a
    <2>1. LatestExtractions'[home] \in RowsOf(home) \cup {a}
      BY <1>1, <1>3 DEF LatestFound
    <2>2. /\ LatestExtractions'[home] = a \/ Newer(LatestExtractions'[home], a)
          /\ \A b \in RowsOf(home) :
                LatestExtractions'[home] = b \/ Newer(LatestExtractions'[home], b)
      BY <1>1, <1>2, <1>3 DEF LatestFound, Newer
    <2>3. CASE RowsOf(home) = {}
      BY <1>b, <1>1, <2>1, <2>3 DEF LatestFound
    <2>4. CASE RowsOf(home) # {}
      <3>1. /\ top \in RowsOf(home) /\ top \in Attempt /\ top # None /\ top # a
            /\ \A b \in RowsOf(home) : b = top \/ Newer(top, b)
        <4>1. /\ top \in RowsOf(home)
              /\ \A b \in RowsOf(home) : b = top \/ Newer(top, b)
          BY <1>b, <2>4 DEF LatestFound
        <4>2. top \in rows /\ top \in Attempt
          BY <1>3, <4>1
        <4> QED
          BY <1>1, <4>1, <4>2, NoneAssumption
      <3>2. CASE Newer(top, a)
        BY <1>3, <2>1, <2>2, <3>1, <3>2, NewerIsAnOrder DEF ExtractionInv
      <3>3. CASE ~ Newer(top, a)
        BY <1>3, <2>1, <2>2, <3>1, <3>3, NewerIsAnOrder DEF ExtractionInv
      <3> QED
        BY <3>1, <3>2, <3>3
    <2> QED
      BY <2>3, <2>4
  <1>6. ASSUME NEW r \in Receipt, r # home
        PROVE  LatestExtractions'[r] = LatestExtractions[r]
    <2>1. RowsOf(r)' = RowsOf(r)
      BY <1>3, <1>6
    <2>2. CASE RowsOf(r) = {}
      BY <2>1, <2>2 DEF LatestFound
    <2>3. CASE RowsOf(r) # {}
      <3>1. /\ LatestExtractions[r] \in RowsOf(r) /\ LatestExtractions'[r] \in RowsOf(r)
            /\ LatestExtractions'[r] = LatestExtractions[r]
                 \/ Newer(LatestExtractions[r], LatestExtractions'[r])
            /\ LatestExtractions'[r] = LatestExtractions[r]
                 \/ Newer(LatestExtractions'[r], LatestExtractions[r])
        BY <1>2, <2>1, <2>3 DEF LatestFound, Newer
      <3> QED
        BY <1>3, <3>1, NewerIsAnOrder DEF ExtractionInv
    <2> QED
      BY <2>2, <2>3
  <1>7. \A b \in Attempt : Entry(b)' = Entry(b)
    BY <1>2 DEF Entry
  <1>8. top # None => top \in Attempt /\ top \in rows
    BY <1>b, <1>1, <1>3 DEF LatestFound
  <1>9. Entry(a) \in Readings!Reading
    BY <1>1 DEF Entry, Readings!Reading
  <1>10. \A b \in rows : Entry(b) # None
    <2> SUFFICES ASSUME NEW b \in rows
                 PROVE  Entry(b) # None
      OBVIOUS
    <2>1. /\ b \in Attempt /\ receiptOf[b] \in Receipt /\ readFrom[b] \in Image
          /\ createdAt[b] \in Nat
      BY ClockAssumption DEF ExtractionInv, TypeOK, AttemptsWork
    <2>2. Entry(b) \in [attempt : Attempt, receipt : Receipt, image : Image, at : Nat]
      BY <2>1 DEF Entry
    <2> QED
      BY <2>2, NoneAssumption
  <1>11. {Entry(b) : b \in rows}' = {Entry(b) : b \in rows} \cup {Entry(a)}
    BY <1>2 DEF Entry
  <1>12. Shown' = [Shown EXCEPT ![home] =
                     IF @ # None /\ Readings!Newer(@, Entry(a)) THEN @ ELSE Entry(a)]
    <2>1. Shown[home] = IF top = None THEN None ELSE Entry(top)
      BY <1>b, <1>1 DEF Shown
    <2>2. top # None => Entry(top) # None
      BY <1>8, <1>10
    <2>3. top # None => (Readings!Newer(Entry(top), Entry(a)) <=> Newer(top, a))
      BY DEF Entry, Readings!Newer, Newer
    <2>4. Shown'[home] = IF Shown[home] # None /\ Readings!Newer(Shown[home], Entry(a))
                           THEN Shown[home] ELSE Entry(a)
      <3>1. LatestExtractions'[home] # None
        BY <1>1, <1>5, NoneAssumption
      <3>2. Shown'[home] = Entry(LatestExtractions'[home])
        BY <1>1, <1>2, <3>1 DEF Shown, Entry
      <3> QED
        BY <1>5, <2>1, <2>2, <2>3, <3>2
    <2>5. ASSUME NEW r \in Receipt, r # home
          PROVE  Shown'[r] = Shown[r]
      BY <1>2, <1>6, <2>5 DEF Shown, Entry
    <2>6. DOMAIN Shown' = Receipt /\ DOMAIN Shown = Receipt
      BY DEF Shown
    <2>7. /\ Shown = [r \in Receipt |-> Shown[r]]
          /\ Shown' = [r \in Receipt |-> Shown'[r]]
      BY DEF Shown
    <2> QED
      BY <1>1, <2>4, <2>5, <2>6, <2>7
  <1>13. /\ Entry(a).image = imageOf[Entry(a).receipt]
         /\ \A y \in {Entry(b) : b \in rows} : y.attempt # Entry(a).attempt
         /\ Entry(a).receipt = home
    BY <1>1 DEF Entry
  <1> QED
    BY <1>2, <1>9, <1>11, <1>12, <1>13 DEF Readings!Record

LEMMA RefinementStep ==
    ASSUME ExtractionInv, ExtractionInv', [Next]_vars
    PROVE  [Readings!Next]_(Readings!vars)
  <1>1. LatestFound /\ LatestFound'
    <2>1. LatestFound
      BY NewestIsFound DEF ExtractionInv
    <2>2. NewestExists' => LatestFound'
      BY NewestIsFound, PTL
    <2> QED
      BY <2>1, <2>2 DEF ExtractionInv
  <1>2. ASSUME imageOf' = imageOf, rows' = rows,
               \A a \in rows : /\ receiptOf'[a] = receiptOf[a]
                               /\ createdAt'[a] = createdAt[a]
                               /\ readFrom'[a] = readFrom[a]
        PROVE  UNCHANGED Readings!vars
    BY <1>1, <1>2, ShownKept DEF Readings!vars
  <1>3. ASSUME NEW u \in Upload, NEW r \in Receipt, InsertReceipt(u, r)
        PROVE  Readings!Next
    <2>1. image[u] \in Image /\ imageOf[r] = None /\ imageOf' = [imageOf EXCEPT ![r] = image[u]]
      BY <1>3 DEF ExtractionInv, TypeOK, UploadsWork, InsertReceipt
    <2>2. {Entry(a) : a \in rows}' = {Entry(a) : a \in rows} /\ Shown' = Shown
      BY <1>1, <1>3, ShownKept DEF InsertReceipt, table
    <2> QED
      BY <2>1, <2>2 DEF Readings!Next, Readings!File
  <1>4. ASSUME NEW a \in Attempt, CommitRow(a)
        PROVE  Readings!Next
    BY <1>1, <1>4, CommitRecords DEF Readings!Next
  <1>5. ASSUME NEW a \in Attempt, RollBackRow(a)
        PROVE  UNCHANGED Readings!vars
    <2>1. a \notin rows
      BY <1>5 DEF ExtractionInv, AttemptsWork, RollBackRow
    <2> QED
      BY <1>2, <1>5, <2>1 DEF ExtractionInv, TypeOK, RollBackRow, archive
  <1>6. ASSUME NEW u \in Upload, NEW a \in Attempt, NEW result, RecordExtraction(u, a, result)
        PROVE  UNCHANGED Readings!vars
    <2>1. a \notin rows
      BY <1>6 DEF ExtractionInv, AttemptsWork, RecordExtraction
    <2> QED
      BY <1>2, <1>6, <2>1 DEF ExtractionInv, TypeOK, RecordExtraction, archive
  <1>7. ASSUME NEW u \in Upload, Proceed(u)
        PROVE  [Readings!Next]_(Readings!vars)
    <2>1. ASSUME AnswerWithoutReading(u) \/ NoOcr(u) \/ CouldNotRecord(u) \/ Answer(u)
          PROVE  UNCHANGED Readings!vars
      BY <1>2, <2>1 DEF AnswerWithoutReading, NoOcr, CouldNotRecord, Answer, archive, table
    <2>2. ASSUME NEW a \in Attempt, GeminiGivesUp(u, a)
          PROVE  UNCHANGED Readings!vars
      BY <1>6, <2>2 DEF GeminiGivesUp, GeminiEnds
    <2> QED
      BY <1>3, <1>7, <2>1, <2>2 DEF Proceed
  <1>8. ASSUME NEW u \in Upload, Hear(u)
        PROVE  UNCHANGED Readings!vars
    <2>1. ASSUME FileUnreadable(u)
                   \/ (\E i \in Image : Arrive(u, i)) \/ (\E l \in Lines : OcrAnswers(u, l))
          PROVE  UNCHANGED Readings!vars
      BY <1>2, <2>1 DEF FileUnreadable, Arrive, OcrAnswers, archive, table
    <2>2. ASSUME NEW a \in Attempt, NEW p \in Payload, GeminiAnswers(u, a, p)
          PROVE  UNCHANGED Readings!vars
      BY <1>6, <2>2 DEF GeminiAnswers, GeminiEnds
    <2> QED
      BY <1>8, <2>1, <2>2 DEF Hear
  <1>9. ASSUME (\E i \in Image : DeleteReceipt(i)) \/ Restart \/ Tick \/ UNCHANGED vars
        PROVE  UNCHANGED Readings!vars
    BY <1>2, <1>9 DEF DeleteReceipt, Restart, Tick, vars, archive, table
  <1> QED
    BY <1>4, <1>5, <1>7, <1>8, <1>9 DEF Next, Complete

(* What the list shows is what was promised: a receipt's readings stay on  *)
(* record and the newest one is shown.                                     *)
THEOREM ReadingsRefinement == Spec => ImplementsReceiptReadings
  <1>1. ExtractionInv /\ ExtractionInv' /\ [Next]_vars => [Readings!Next]_(Readings!vars)
    BY RefinementStep
  <1> QED
    BY RefinementInit, ExtractionInvariant, <1>1, PTL DEF Spec, ImplementsReceiptReadings, Readings!Spec

=============================================================================
