----------------------------- MODULE Extraction -----------------------------
(***************************************************************************)
(* Reading receipts: what POST /receipts does with a photo once its bytes  *)
(* are stored, one attempt after the other or several at once.  The stored *)
(* bytes go to PaddleOCR, which may be switched off, then with its         *)
(* transcript to Gemini, which may have no key; the attempt is recorded in *)
(* receipt_extractions and answered; GET /receipts shows each receipt with *)
(* its newest attempt.                                                     *)
(*                                                                         *)
(* Files, and how rows and files keep together, are in module Archive:     *)
(* here the bytes of a live receipt can be read or cannot.  An INSERT is   *)
(* stamped with the time it starts at and seen once it has committed; the  *)
(* database finishes it, or not, even if the API has died meanwhile.       *)
(***************************************************************************)
EXTENDS Integers

CONSTANTS
    Upload,     \* uploads at once
    Image,      \* photos
    Receipt,    \* rows of receipts: the bound on those ever inserted
    Attempt,    \* ids of receipt_extractions: the bound on those ever inserted
    Readable,   \* photos of a type PaddleOCR takes
    configured, \* the services the API is started with
    Payload,    \* objects that Gemini may answer with
    Lines,      \* line lists that PaddleOCR may answer with
    None,       \* SQL NULL, null, undefined
    MaxClock    \* bound on the clock of the database

(* What of an answer decides anything: the verdict, whether the values fit *)
(* their columns (a day that no month has, an amount beyond an int4, a     *)
(* confidence of 10 do not), and whether there are line items.             *)
Verdict == {"yes", "no", "unknown"}
Service == {"PaddleOCR", "Gemini"}

ASSUME AttemptAssumption == Attempt \subseteq Nat
ASSUME ServiceAssumption == Readable \subseteq Image /\ configured \subseteq Service
ASSUME AnswerAssumption ==
    /\ Payload \subseteq [isReceipt : Verdict, confidenceFits : BOOLEAN,
                          fieldsFit : BOOLEAN, items : BOOLEAN]
    /\ Lines \subseteq [fieldsFit : BOOLEAN, items : BOOLEAN]
ASSUME NoneAssumption ==
    /\ None \notin Upload \cup Image \cup Receipt \cup Attempt
    /\ None \notin {"PaddleOCR", "Gemini fallback", "PaddleOCR-assisted Gemini"}
    /\ None \notin [attempt : Attempt, receipt : Receipt, image : Image, at : Nat]

ASSUME ClockAssumption == MaxClock \in Nat

VARIABLES
    live,       \* image: its receipt with deleted_at NULL, or None
    imageOf,    \* receipt: the image its row names, or None if not inserted
    phase,      \* upload: how far its request is
    image,      \* upload: the photo
    receipt,    \* upload: the receipt it is about, or None
    lines,      \* upload: what PaddleOCR read, or None
    mine,       \* upload: the attempt it records, or None
    open,       \* attempts whose INSERT has not committed
    rows,       \* attempts whose INSERT has
    receiptOf,  \* attempt: receipt_id, None if never inserted
    createdAt,  \* attempt: created_at
    reading,    \* attempt: the other columns, None if never inserted
    readFrom,   \* history: the photo an attempt has read, None if never inserted
    told,       \* history: the newest attempt an upload was answered, or None
    clock

archive == <<live, imageOf>>
request == <<phase, image, receipt, lines, mine>>
table == <<open, rows, receiptOf, createdAt, reading, readFrom>>
vars == <<archive, request, table, told, clock>>

Phase == {"idle", "inserting", "reading", "gemini", "committing"}

-----------------------------------------------------------------------------
(* An attempt's fields, and what becomes of the two services' answers.     *)
NoFields == [isReceipt |-> "unknown", fit |-> TRUE, items |-> FALSE]

(* Mutant: line items are kept whatever the verdict.                       *)
ToFieldsGuessed(p) ==
    [isReceipt |-> p.isReceipt,
     fit |-> p.confidenceFits /\ (p.isReceipt # "no" => p.fieldsFit),
     items |-> p.items]

(* toFields: a picture that is no receipt keeps its confidence and nothing *)
(* else, and line items count only with a plain yes.                       *)
ToFields(p) ==
    [isReceipt |-> p.isReceipt,
     fit |-> p.confidenceFits /\ (p.isReceipt # "no" => p.fieldsFit),
     items |-> p.isReceipt = "yes" /\ p.items]

(* mapPaddleOcrLines: a day is put together from the digits found.         *)
MapLines(l) == [isReceipt |-> "unknown", fit |-> l.fieldsFit, items |-> l.items]

Result(status, fields, source) == [status |-> status, fields |-> fields, source |-> source]
Failed == Result("failed", NoFields, None)
Skipped == Result("skipped", NoFields, None)
Succeeded(fields) == Result("succeeded", fields, None)

(* createPaddleOcrAssistedExtractor: Gemini's reading if there is one,     *)
(* else the local mapping.  Gemini alone is not told apart by a source.    *)
Coordinate(u, result) ==
    CASE lines[u] # None /\ result.status = "succeeded" ->
           [result EXCEPT !.source = "PaddleOCR-assisted Gemini"]
      [] lines[u] # None /\ result.status # "succeeded" ->
           Result("succeeded", MapLines(lines[u]), "PaddleOCR")
      [] lines[u] = None /\ result.status = "succeeded" /\ "PaddleOCR" \in configured ->
           [result EXCEPT !.source = "Gemini fallback"]
      [] OTHER -> result

(* The model column: the source of a success, else the extractor's name.   *)
Model(result) ==
    IF result.status = "succeeded" /\ result.source # None THEN result.source
    ELSE IF "PaddleOCR" \in configured THEN "PaddleOCR-assisted Gemini"
    ELSE "GEMINI_MODEL"

Row(result) ==
    [status |-> result.status, model |-> Model(result),
     isReceipt |-> result.fields.isReceipt, items |-> result.fields.items]

(* toExtraction: the source shown with an attempt.                         *)
Source(row) == IF row.model = "GEMINI_MODEL" THEN None ELSE row.model

-----------------------------------------------------------------------------
(* The newest attempt of each receipt.                                       *)
Newer(a, b) == createdAt[a] > createdAt[b] \/ (createdAt[a] = createdAt[b] /\ a > b)
RowsOf(r) == {a \in rows : receiptOf[a] = r}

(* Mutant: ORDER BY id alone.                                              *)
LatestById ==
    [r \in Receipt |-> IF RowsOf(r) = {} THEN None
                       ELSE CHOOSE a \in RowsOf(r) : \A b \in RowsOf(r) : a >= b]
LatestExtractions ==
    [r \in Receipt |-> IF RowsOf(r) = {} THEN None
                       ELSE CHOOSE a \in RowsOf(r) : \A b \in RowsOf(r) : b = a \/ Newer(a, b)]

(* An attempt as it is shown, and what GET /receipts shows with a receipt.  *)
Entry(a) == [attempt |-> a, receipt |-> receiptOf[a], image |-> readFrom[a], at |-> createdAt[a]]
Shown ==
    [r \in Receipt |-> IF LatestExtractions[r] = None THEN None ELSE Entry(LatestExtractions[r])]

(* The newer of an attempt and one that may be None.                       *)
NewerOf(a, b) == IF b = None \/ Newer(a, b) THEN a ELSE b

-----------------------------------------------------------------------------
Init ==
    /\ live = [i \in Image |-> None]
    /\ imageOf = [r \in Receipt |-> None]
    /\ phase = [u \in Upload |-> "idle"]
    /\ image = [u \in Upload |-> None]
    /\ receipt = [u \in Upload |-> None]
    /\ lines = [u \in Upload |-> None]
    /\ mine = [u \in Upload |-> None]
    /\ open = {} /\ rows = {}
    /\ receiptOf = [a \in Attempt |-> None]
    /\ createdAt = [a \in Attempt |-> 0]
    /\ reading = [a \in Attempt |-> None]
    /\ readFrom = [a \in Attempt |-> None]
    /\ told = [r \in Receipt |-> None]
    /\ clock = 0

Goto(u, p) == phase' = [phase EXCEPT ![u] = p]

(* Requests that are over.                                                 *)
Finish(over) ==
    /\ phase' = [u \in Upload |-> IF u \in over THEN "idle" ELSE phase[u]]
    /\ image' = [u \in Upload |-> IF u \in over THEN None ELSE image[u]]
    /\ receipt' = [u \in Upload |-> IF u \in over THEN None ELSE receipt[u]]
    /\ lines' = [u \in Upload |-> IF u \in over THEN None ELSE lines[u]]
    /\ mine' = [u \in Upload |-> IF u \in over THEN None ELSE mine[u]]

-----------------------------------------------------------------------------
(* The bytes are stored.  findLiveByHash: those already held are read      *)
(* again, for the receipt that holds them.                                 *)
Arrive(u, i) ==
    /\ phase[u] = "idle"
    /\ Goto(u, IF live[i] = None THEN "inserting" ELSE "reading")
    /\ image' = [image EXCEPT ![u] = i]
    /\ receipt' = [receipt EXCEPT ![u] = live[i]]
    /\ UNCHANGED <<archive, lines, mine, table, told, clock>>

InsertReceipt(u, r) ==
    /\ phase[u] = "inserting"
    /\ live[image[u]] = None /\ imageOf[r] = None
    /\ live' = [live EXCEPT ![image[u]] = r]
    /\ imageOf' = [imageOf EXCEPT ![r] = image[u]]
    /\ receipt' = [receipt EXCEPT ![u] = r]
    /\ Goto(u, "reading")
    /\ UNCHANGED <<image, lines, mine, table, told, clock>>

(* Another upload of the photo got there first: answered with its receipt, *)
(* or 409 if that is gone again, and with no reading.  So is a failure of  *)
(* the database.                                                           *)
AnswerWithoutReading(u) ==
    /\ phase[u] = "inserting"
    /\ Finish({u})
    /\ UNCHANGED <<archive, table, told, clock>>

DeleteReceipt(i) ==
    /\ live[i] # None
    /\ live' = [live EXCEPT ![i] = None]
    /\ UNCHANGED <<imageOf, request, table, told, clock>>

-----------------------------------------------------------------------------
(* runExtraction and the extractor it calls.                               *)
OcrAnswers(u, l) ==
    /\ phase[u] = "reading"
    /\ "PaddleOCR" \in configured /\ image[u] \in Readable
    /\ Goto(u, "gemini")
    /\ lines' = [lines EXCEPT ![u] = l]
    /\ UNCHANGED <<archive, image, receipt, mine, table, told, clock>>

(* Mutant: PaddleOCR is waited for as long as it takes.                    *)
NoOcrYet(u) ==
    /\ phase[u] = "reading"
    /\ "PaddleOCR" \notin configured \/ image[u] \notin Readable
    /\ Goto(u, "gemini")
    /\ UNCHANGED <<archive, image, receipt, lines, mine, table, told, clock>>

(* Not configured, a type it does not take, unreachable, an HTTP error, a  *)
(* payload of another shape, or 5 seconds.                                 *)
NoOcr(u) ==
    /\ phase[u] = "reading"
    /\ Goto(u, "gemini")
    /\ UNCHANGED <<archive, image, receipt, lines, mine, table, told, clock>>

(* recordExtraction: the columns that toFields filled, in an INSERT.       *)
RecordExtraction(u, a, result) ==
    /\ receiptOf[a] = None
    /\ open' = open \cup {a}
    /\ receiptOf' = [receiptOf EXCEPT ![a] = receipt[u]]
    /\ createdAt' = [createdAt EXCEPT ![a] = clock]
    /\ reading' = [reading EXCEPT ![a] = Row(result)]
    /\ readFrom' = [readFrom EXCEPT ![a] = image[u]]
    /\ mine' = [mine EXCEPT ![u] = a]
    /\ Goto(u, "committing")
    /\ UNCHANGED <<archive, image, receipt, lines, rows, told, clock>>

(* Gemini has come to something; what the two services make of it together *)
(* is sent to the database, if its values fit the columns.                 *)
GeminiEnds(u, a, result) ==
    /\ phase[u] = "gemini"
    /\ Coordinate(u, result).fields.fit
    /\ RecordExtraction(u, a, Coordinate(u, result))

GeminiAnswers(u, a, p) ==
    /\ "Gemini" \in configured
    /\ GeminiEnds(u, a, Succeeded(ToFields(p)))

(* Unreachable, no JSON, an HTTP error, no content, no JSON in it, no      *)
(* object, or 60 seconds, of which none is tried again; with no key, no    *)
(* call is made.                                                           *)
GeminiGivesUp(u, a) ==
    GeminiEnds(u, a, IF "Gemini" \in configured THEN Failed ELSE Skipped)

(* The bytes cannot be read: logged, and answered with no reading.         *)
FileUnreadable(u) ==
    /\ phase[u] = "reading"
    /\ Finish({u})
    /\ UNCHANGED <<archive, table, told, clock>>

(* So is a value that does not fit its column, and a database that is away. *)
CouldNotRecord(u) ==
    /\ phase[u] = "gemini"
    /\ Finish({u})
    /\ UNCHANGED <<archive, table, told, clock>>

-----------------------------------------------------------------------------
(* The INSERT commits, or fails.                                           *)
CommitRow(a) ==
    /\ a \in open
    /\ open' = open \ {a}
    /\ rows' = rows \cup {a}
    /\ UNCHANGED <<archive, request, receiptOf, createdAt, reading, readFrom, told, clock>>

(* The row is as if it had never been; whoever waits for it is told.        *)
RollBackRow(a) ==
    /\ a \in open
    /\ open' = open \ {a}
    /\ receiptOf' = [receiptOf EXCEPT ![a] = None]
    /\ createdAt' = [createdAt EXCEPT ![a] = 0]
    /\ reading' = [reading EXCEPT ![a] = None]
    /\ readFrom' = [readFrom EXCEPT ![a] = None]
    /\ mine' = [u \in Upload |-> IF mine[u] = a THEN None ELSE mine[u]]
    /\ UNCHANGED <<archive, phase, image, receipt, lines, rows, told, clock>>

(* Mutant: the INSERT is sent and not waited for.                          *)
AnswerAtOnce(u) ==
    /\ phase[u] = "committing" /\ mine[u] # None
    /\ told' = [told EXCEPT ![receipt[u]] = NewerOf(mine[u], @)]
    /\ Finish({u})
    /\ UNCHANGED <<archive, table, clock>>

(* It has returned its row, or thrown: 200 or 201, with the attempt if it  *)
(* was recorded.                                                           *)
Answer(u) ==
    /\ phase[u] = "committing"
    /\ mine[u] \notin open
    /\ told' = [told EXCEPT ![receipt[u]] =
                  IF mine[u] = None THEN @ ELSE NewerOf(mine[u], @)]
    /\ Finish({u})
    /\ UNCHANGED <<archive, table, clock>>

-----------------------------------------------------------------------------
(* The API dies and is started again.                                      *)
Restart ==
    /\ Finish(Upload)
    /\ UNCHANGED <<archive, table, told, clock>>

Tick ==
    /\ clock < MaxClock
    /\ clock' = clock + 1
    /\ UNCHANGED <<archive, request, table, told>>

-----------------------------------------------------------------------------
(* What the API does next for an upload, whatever its services do ...      *)
Proceed(u) ==
    \/ \E r \in Receipt : InsertReceipt(u, r)
    \/ AnswerWithoutReading(u)
    \/ NoOcr(u)
    \/ \E a \in Attempt : GeminiGivesUp(u, a)
    \/ CouldNotRecord(u)
    \/ Answer(u)

(* ... and what may happen to it.                                          *)
Hear(u) ==
    \/ \E i \in Image : Arrive(u, i)
    \/ FileUnreadable(u)
    \/ \E l \in Lines : OcrAnswers(u, l)
    \/ \E a \in Attempt, p \in Payload : GeminiAnswers(u, a, p)

Complete(a) == CommitRow(a) \/ RollBackRow(a)

Next ==
    \/ \E u \in Upload : Proceed(u) \/ Hear(u)
    \/ \E a \in Attempt : Complete(a)
    \/ \E i \in Image : DeleteReceipt(i)
    \/ Restart \/ Tick

Spec == Init /\ [][Next]_vars

(* Both services are given up on after a while, and the database ends a    *)
(* statement it was sent; neither is asked to answer, or to answer well.   *)
FairSpec ==
    /\ Spec
    /\ \A u \in Upload : WF_vars(Proceed(u))
    /\ \A a \in Attempt : WF_vars(Complete(a))

-----------------------------------------------------------------------------
TypeOK ==
    /\ live \in [Image -> Receipt \cup {None}]
    /\ imageOf \in [Receipt -> Image \cup {None}]
    /\ phase \in [Upload -> Phase]
    /\ image \in [Upload -> Image \cup {None}]
    /\ receipt \in [Upload -> Receipt \cup {None}]
    /\ mine \in [Upload -> Attempt \cup {None}]
    /\ open \subseteq Attempt
    /\ rows \subseteq Attempt
    /\ receiptOf \in [Attempt -> Receipt \cup {None}]
    /\ createdAt \in [Attempt -> 0 .. MaxClock]
    /\ DOMAIN reading = Attempt
    /\ readFrom \in [Attempt -> Image \cup {None}]
    /\ told \in [Receipt -> Attempt \cup {None}]
    /\ clock \in 0 .. MaxClock

(* An upload that is being read has a receipt, whose image is the photo;   *)
(* one that waits for the database knows which attempt it waits for.       *)
UploadsWork ==
    \A u \in Upload :
        /\ phase[u] # "idle" => image[u] # None
        /\ phase[u] \in {"reading", "gemini", "committing"} =>
               receipt[u] # None /\ imageOf[receipt[u]] = image[u]
        /\ mine[u] # None =>
               /\ phase[u] = "committing"
               /\ mine[u] \in open \cup rows
               /\ receiptOf[mine[u]] = receipt[u]

LiveHasItsImage == \A i \in Image : live[i] # None => imageOf[live[i]] = i

(* An attempt is being inserted or is there, and has read the image of its *)
(* receipt.                                                                *)
AttemptsWork ==
    \A a \in Attempt :
        /\ a \notin open \cap rows
        /\ a \in open \cup rows <=> receiptOf[a] # None
        /\ receiptOf[a] # None =>
               readFrom[a] # None /\ readFrom[a] = imageOf[receiptOf[a]]

(* Line items are on record with a plain yes, or from the local mapping,   *)
(* which gives no verdict; an attempt without success has nothing at all.  *)
ReadingsMakeSense ==
    \A a \in open \cup rows :
        /\ reading[a].items => reading[a].isReceipt = "yes" \/ reading[a].model = "PaddleOCR"
        /\ reading[a].status # "succeeded" =>
               reading[a].isReceipt = "unknown" /\ ~ reading[a].items

ToldIsRecorded == \A r \in Receipt : told[r] # None => told[r] \in RowsOf(r)

(* What ORDER BY created_at DESC, id DESC puts first is one attempt.       *)
NewestExists ==
    \A r \in Receipt :
        RowsOf(r) # {} =>
            \E a \in RowsOf(r) : \A b \in RowsOf(r) : b = a \/ Newer(a, b)

ExtractionInv ==
    /\ TypeOK /\ UploadsWork /\ LiveHasItsImage /\ AttemptsWork
    /\ ReadingsMakeSense /\ ToldIsRecorded /\ NewestExists

(* GET /receipts never shows a receipt without a reading, or with an older *)
(* one, after an upload was answered with one: whatever attempts run at    *)
(* once, commit in another order than they began, fail, or are cut off.    *)
ListIsNoOlder ==
    \A i \in Image :
        live[i] # None /\ told[live[i]] # None =>
            /\ LatestExtractions[live[i]] # None
            /\ ~ Newer(told[live[i]], LatestExtractions[live[i]])

(* The table, read by latestExtractionsFor, implements the readings of a   *)
(* receipt: on record for good, and shown until there is a newer one.      *)
Readings == INSTANCE ReceiptReadings WITH
    Time <- 0 .. MaxClock,
    picture <- imageOf,
    readings <- {Entry(a) : a \in rows},
    shown <- Shown

ImplementsReceiptReadings == Readings!Spec

(* Every upload is answered, though PaddleOCR and Gemini never say a word. *)
UploadIsAnswered == \A u \in Upload : phase[u] # "idle" ~> phase[u] = "idle"

-----------------------------------------------------------------------------
(* What the code says, and does not do.                                    *)

(* "The provider that produced a successful reading shown to the user": an *)
(* attempt that failed is shown with a source as well.                     *)
OnlySuccessHasSource ==
    \A a \in rows : reading[a].status # "succeeded" => Source(reading[a]) = None

=============================================================================
