# Expenses Recorder: TLA+ models, checks and proofs

Expenses Recorder keeps an account's receipts and expenses: a Fastify API on
PostgreSQL and a volume of image files, a web client that signs in with
rotating refresh tokens, mailed links that verify an address or reset a
password, an optional reading of the receipts, and exports as CSV or ZIP.

Almost none of its logic is hard for one request at a time.  What is hard is
that requests overlap (the handlers await the database, the disk and the
network dozens of times, mostly without a transaction), that any of those
awaits can fail, and that the client at the other end reloads, retries and
opens a second tab.  The modules here model that: each action is what the code
does between two points where something else can run.

Paths below are relative to the repository.

## 1. Inventory

| Component | State it keeps | Operations | Hard part | What makes it correct |
|---|---|---|---|---|
| Sessions and refresh tokens (`apps/api/src/auth/sessions.ts`, `routes/auth.ts`) | table `sessions`: user, token hash, expiry, `revoked_at`, `replaced_by` | login, refresh, logout, revoke-all (reuse, reset), prune | transactions that wait for each other's row locks; `now()` is the start of a transaction; prune deletes rows others refer to | a login has one live token; a replayed token is recognised as long as it matters; what has ended stays ended |
| Account links (`auth/verification.ts`, `auth/password-reset.ts`, `routes/verify.ts`, `routes/reset-password.ts`, registration) | `users`, `email_verification_tokens`, `password_reset_tokens` | register, ask for a link, supersede and issue, mail, open, submit, claim | check, hash, then claim; supersede and insert are two statements; a mail can be lost | a reset link works once; nobody loses a link without a successor; only links verify or change a password |
| Receipt archive (`receipts/storage.ts`, `receipts/receipts.ts`, `routes/receipts.ts`) | table `receipts`, the volume of images named by hash, temporary files | upload, deduplicate, rename, insert, extract, soft delete | two uploads of one photo; failure between rename and INSERT; one file behind several rows | a row never lacks its bytes; a photo has one live receipt |
| Expenses (`expenses/expenses.ts`, `routes/expenses.ts`) | tables `expenses`, `expense_items` | create, patch, delete, list, summarise | references checked one statement before they are used | a receipt has one live expense; references stay good |
| Exports (`routes/expenses.ts`, `csv.ts`, `zip.ts`) | a cursor, the cells, the images to add | presence pass, ledger pass, images | paging a table that changes, without a transaction; files that vanish | what nobody edits is exported once, with a true cell; a finished archive is whole |
| Download tokens (`exports/tokens.ts`, `routes/exports.ts`, the sheet in `web/src/routes/expenses.tsx`) | table `download_tokens`; what the sheet is starting | mint, consume, prune; press, navigate | an address opened twice at once; a request that fails after it has spent the token; a mint whose answer is lost | one token, one download, its owner's; a live token is kept; the sheet comes back |
| Web session manager (`apps/web/src/session/session.ts`, `storage.ts`, `api/client.ts`) | two tokens in memory, one in `localStorage`, the rotation in flight | restore, authorized, signIn, signOut, rotate | answers lost or late, retries, reloads, tabs that share the storage | a spent token is presented only where the code cannot tell (a page left in mid-refresh, a second page, an answer cut off); every call ends |
| Categories (`categories/categories.ts`) | table `categories`, soft deletion, unique live names | list, create, rename, delete, defaults at registration | used by expenses and corrections while being deleted | names stay unique, old expenses keep their category |
| Merchant corrections (`routes/merchant-corrections.ts`) | table `merchant_corrections` | list, create, patch, delete | data-modifying CTEs; the client's cached list | one correction per merchant, answers that say what was stored |
| Receipt extraction (`receipts/extraction.ts`, `extraction-store.ts`, `paddleocr*.ts`) | `receipt_extractions`, one row per attempt | OCR, language model, mapping, record, latest per receipt | each stage may fail or say nothing; rows commit in another order than they are stamped in | every upload is answered; the list shows the newest reading and never an older one |
| Backup (`scripts/backup.sh`) | a dump and a copy of the volume | dump, copy | the API runs meanwhile | every row in the backup has its bytes |
| Pruning (`scripts/prune-auth-artifacts.ts`) | none | delete expired sessions and tokens | runs beside the requests | no evidence of replay is lost early |
| Database pool (`db.ts`) | connections | begin, commit, roll back | failure in mid-transaction | all or nothing |
| Passwords and access tokens (`auth/password.ts`, `auth/guard.ts`) | none | hash, verify, sign, check | cryptography | out of scope |
| E-mail (`email/*`) | none | send | may fail after the answer | pure I/O |
| Validation, CSV cells, money, dates (`validation.ts`, `csv.ts`, `zip.ts`, `web/src/lib/money.ts`, `aggregate.ts`) | none | pure functions | rounding, escaping, unique names | agrees with a reference definition |
| Confirm screen (`apps/web/src/routes/confirm-receipt.tsx`, `components/expense-form.tsx`) | form, copies of corrections and categories, two dialogs, a save of one or two calls, a second reading | load, type, save, remember, try again | stale closures, lost answers, another device | notices are true, consent is not reused, a question stays as it was asked |
| Expense detail screen (`apps/web/src/routes/expense-detail.tsx`, `components/expense-form.tsx`) | the expense as last confirmed, the form, a dialog, a save or a deletion on its way | load, edit, save, delete | a patch is a difference with a confirmation that ages; two taps; answers after the screen was left | only typed fields are written; the user's own deletion is not "not found"; nothing stays busy |
| Other web screens (`apps/web/src/routes/*`) | lists and small forms | list, add, rename, delete | answers in another order than their calls | the list is what the server holds |
| Charts, configuration, OpenAPI, static files, PaddleOCR service, containers, CI | none that later requests read | | | |

**How they interact.**  The web client reaches the API over HTTP only; its
session manager and the `sessions` table are two ends of one protocol, which is
why both are shown to implement one abstract specification, `SessionLine`.  A
password reset claims a link, writes the user and revokes every session in one
transaction: the first half is in `AccountLinks`, the second in `Sessions`.
Expenses refer to receipts, and both to the files on disk; the backup reads all
three: these are in one module, `Archive`.  Exports read expenses and files and
write nothing.

## 2. Plan

Order of work, most important first.

1. **Done.** `Sessions`, with the abstract `SessionLine`; `AccountLinks`;
   `Archive` with backup; `WebSession` against `SessionLine`; `Export`.
   Inductive invariants and proofs for all of them.
2. **Done.** `DownloadTokens` with the abstract `OneTimeLink`, and `Extraction`
   with the abstract `ReceiptReadings`: both checked and proved, refinements included.
3. **Done.** Screens with the handlers they call: `Confirm` and `ExpenseDetail`.
4. **Filing**: categories (unique live names under a case-insensitive
   collation, the defaults of a registration) and merchant corrections with the
   bodies of their answers.  What reading them showed is in section 6.
5. **Pure functions** as operators: amounts in cents, CSV cells, unique entry
   names, summaries; each against a reference definition over bounded inputs.
6. **Proofs**: those of the modules above are done: every invariant and every
   safety property that a run checks is a theorem.  What could be added is under
   the abstract specifications below, and the proofs of what 4 and 5 will state.

Abstract specifications: `SessionLine` (two implementations, the table and the
client), `OneTimeLink` (download tokens), `ReceiptReadings` (the attempts on
record and the list).  Worth adding: an archive without requests that the
interleaved `Archive` implements.

## 3. Modules

| Module | Models | Checked by | Proved in |
|---|---|---|---|
| `SessionLine` | what the session table promises | refinements below | |
| `Sessions` | the session table and its concurrent transactions | `MCSessions` | `Sessions_proofs` |
| `AccountLinks` | users and the two tables of mailed links | `MCAccountLinks` | `AccountLinks_proofs` |
| `Archive` | receipts, files, filing, backup | `MCArchive` | `Archive_proofs` |
| `WebSession` | the client's session manager, one or more pages | `MCWebSession` | `WebSession_proofs` |
| `Export` | one download while the account is edited | `MCExport` | `Downloads_proofs` |
| `Confirm` | the confirm screen and the handlers it calls | `MCConfirm` | `Confirm_proofs` |
| `OneTimeLink` | what a link for one download promises | refinement below | |
| `DownloadTokens` | the table of download tokens, its requests, the export sheet | `MCDownloadTokens` | `Downloads_proofs` |
| `ReceiptReadings` | what is promised of the readings of receipts | refinement below | |
| `Extraction` | attempts to read receipts, their record and the list | `MCExtraction` | `Extraction_proofs` |
| `ExpenseDetail` | the screen of one expense and the handlers it calls | `MCExpenseDetail` | `ExpenseDetail_proofs` |

Conventions: one function per column of a table; a request (`Request`) is one
handler in flight, `phase` says where it stands, and the variables of `work` are its
local variables.  `None` is SQL `NULL` (or `null`).  A definition whose comment
begins with "Mutant:" is not part of the model: it is a plausible wrong version
of the definition after it, kept to show that the properties notice.

### 3.1 Sessions

`rows, owner, expiresAt, revokedAt, replacedBy` are the table; `lock` is who
holds each row lock.  Transactions run at READ COMMITTED, so a transaction's
writes are applied by the action that commits it, a statement that waited for a
row looks at the row again, and an UPDATE of many rows works on the snapshot it
took when it started.  `line` and `provenBy` are history: the login a session
descends from and the password that login proved.  `Usable` is `isUsable`, with
its `expires_at > now`; `Current` is a live session that is usable now or that a
refresh which found it usable still holds.  The refinement shows `SessionLine`
the current sessions, so that expiry ends a line there, by `Tick` or by the end
of the last refresh of an expired session.

- `POST /auth/login`: `StartLogin` (user read, password checked), `FinishLogin`
  (the INSERT, a statement of its own, with no transaction around both).
- `POST /auth/refresh`: `StartRefresh` (BEGIN), `LockPresented` (SELECT FOR
  UPDATE and the verdict), then `Rotate`, `Refuse` or the cascade
  `SnapshotSessions`, `VisitSession`, `CommitRevocation`.
- A password reset: `StartReset`, then the same cascade.
- `POST /auth/logout`: `StartLogout`, `RevokeSession`, without a transaction.
- Prune: `StartPrune`, `PruneExpired`, `PruneRevoked`.
- `LockTimeout` is the 503 of a rotation in flight (only refresh sets
  `lock_timeout`), `DeadlockAbort` is PostgreSQL's detector, `Crash` is any
  failure in mid-request.

### 3.2 AccountLinks

The two token tables have the same columns and life, so one set of functions
serves both and `kind` says which table a token is in.  `Register`, `Ask`,
`LookUp`, `CheckThrottle`, `Supersede`, `IssueToken`, `Dispatch` follow an offer
from request to mail; `OpenLink`, `ConsumeLink`, `ShowAlreadyVerified` are
`GET /auth/verify`; `SubmitPassword`, `ClaimToken`, `CommitReset` are
`POST /auth/reset-password`.  A lock is kept only for the UPDATE that claims a
reset token, because every other order a lock would impose leads to the same
states.

### 3.3 Archive

`disk`, `temp`, `litter` are the volume, `receipt`, `sha`, `read` the receipts,
`expense`, `receiptOf` the expenses, `step`, `dump`, `copy` the backup.  An upload is
`StartUpload`, `StoreUpload`, `LookUpHash`, `CommitFile`, `InsertReceipt`,
`Extract`, with `RejectUpload` and `AnswerWinner` as its other ends; deletion is
`FindReceipt`, `CheckAttached`, `SoftDeleteReceipt`; filing is `StartFiling` or
`StartPatch`, then `InsertExpense` or `UpdateExpense`.  The handlers use no transaction, so
each statement is an action.  `Fail` may end a request anywhere.  Accounts do
not interact (every statement is scoped to one), so one is enough.

### 3.4 WebSession

A page runs without interruption from one answer of the network to the next, so
an action is all the code between two awaits, in every function that the answer
resumes: `Refreshed` is the end of `rotate` and the continuation of every call
that joined it.  An answer to a refresh ends in one of four ways: it is read
(`Refreshed`), it is a failure (`RefreshLost` and its kin: the tokens are
forgotten), it is a 503 and is retried, or it is a 200 whose body is cut off
(`RefreshUnreadable`): `client.ts` reports that as "ok" without a body, `adopt`
throws, every call that waits for the rotation rejects, and memory and storage keep
the token the server has spent; a page that was restoring stays there.  `cutOff`
is history: it has happened.  `Expire` is the end of an access token that somebody
holds.  `Load` is opening or reloading a page; a refresh request of the
page that was left becomes an orphan the server may still handle.  The server is
modelled as `SessionLine` promises it, and `ImplementsSessionLine` checks that
it is.  Pages may be opened beside each other at any time: they have their
variables to themselves and share `stored`, which is `localStorage`.  `OnePage`
says that only one has been opened so far.  A full or blocked `localStorage` is
left out.

### 3.5 Export

An expense is a number, its place in the order of `(created_at, id)`, which
never changes; `purchased_on` comes before it in the export's order and can be
edited.  `PresencePage` and `LedgerPage` are one page of the two passes,
`AddImage` one image of the ZIP, `Abort` a failure or a client that leaves.
`InsertExpense`, `UpdateExpense`, `SoftDeleteExpense` and `FileLost` happen
between any two of them.  `steady` is history: the rows the query selected at
first that nobody has edited since.  `InOrder` is the `ORDER BY` of a page, and
`Page` its `LIMIT`; a cell of the ZIP's ledger is the place of its image
(`Place`), `Empty` or `Missing`.  The specification is called `ExportSpec`, and
its parts likewise, so that the module can be read beside `DownloadTokens`.

### 3.6 Confirm

A visit is one mount of the confirm screen; its variables are the component's
states and refs (`choice` is `saveChoiceRef`, `found` is `pendingReading`,
`seen` the fields in the closure of the render that started `retryReading`).
`Save` runs to the first await; `AnswerRule` and `AnswerExpense` are what
follows each answer, `GoOffline` what follows a failure.  A call is a record
that the API takes from check to check (`CheckCategory`, `CheckReceipt`,
`WriteRule`, `InsertExpense`) whether or not the visit still waits for it; a
call nobody waits for may vanish.  `FindReceipt`, `Reread`, `LinkReading` are
`POST /receipts` of bytes the account holds.  What other devices do is in
`Others`.  Two of the form's fields are kept: the merchant, for all that is
typed or read, and the category, which no reading fills in.  The refusal of
another field is the first disjunct of `Save`.  Left out: a second reading that
is answered after its screen was left.

### 3.7 DownloadTokens

`rows, owner, expiresAt, usedAt` are the table; a column keeps its value after a
DELETE, so that history can be told.  A request is `ArriveWithBearer` or
`Arrive`, then `Claim` and `Commit`: the UPDATE of `redeemDownloadToken` is two
actions because it waits for a row that another one is changing, and looks at
the row again; `start` is its `now()`, the time it was sent.  `RollBack` is any
failure until then.  After the commit the token is spent, and three steps are
still to come: `Authorize` is the API hearing of it, `OpenExport` the handler
past its checks, which starts to send, and `TurnAway` everything else that may
become of the request (a 400 or 422 for its filter, a query that throws, a
connection or process that dies), which sends nothing.  `StartPrune` and `PruneDownloadTokens` are the script.  The sheet is
`Press`, `Mint` or `MintFailed`, `Navigate` or `ReportFailure`, and
`CsvReturns` or `CsvCutOff`.  Once in an address (`urls`) a token may be opened
at any time, any number of times: that is a browser's history.  `openedBy` is
history, and what `OneTimeLink` calls `opened`; so is `wasted`, the tokens spent
by a request that was turned away, which lapse early.  API, database and script
read one clock.

### 3.8 Extraction

An upload whose bytes are stored is `Arrive`, `InsertReceipt` or
`AnswerWithoutReading`, then `OcrAnswers` or `NoOcr`, `GeminiAnswers` or
`GeminiGivesUp`, and `Answer`.  What the coordinator makes of the two services is
the operator `Coordinate`.  An INSERT is stamped when it is sent (`open`) and seen when it
commits (`CommitRow`, `RollBackRow`), even if the API has died (`Restart`).
`LatestExtractions` is the `DISTINCT ON ... ORDER BY created_at DESC, id DESC` of the
list.  Of an answer only the verdict, whether its values fit their columns and
whether it has line items are kept, since nothing else decides anything.
`told` and `readFrom` are history.

### 3.9 ExpenseDetail

A visit is one mount of the screen; `expense`, `initial`, `fields`, `editing`,
`confirming`, `saving` and `deleting` are the component's states and refs.
`Open`, `ListCategories`, `GetExpense`, `Show` are the load; `Edit`, `Change`,
`Cancel`, `Save`, `AnswerSave`, `ReloadCategories` the form; `AskDelete`,
`Remove`, `AnswerDelete` the deletion; `Back` leaves the screen while a call is
on its way, whose answer still navigates (`Leave`).  Calls are records, as in
`Confirm`: `Check`, `UpdateExpense`, `SoftDeleteExpense` serve them, `GoOffline`
ends the wait, `Vanish` the call.  `ChangedFields` is the patch.  Three fields
stand for the form: the category, which the API looks up; the merchant, where a
blank clears; the currency, where a blank cannot be sent.

## 4. What the runs check

Twelve runs.  Ten pass; two show that a sentence in the repository is not
what the code does.  A run's invariant named after its module (`ReplayInv`,
`LinkInv`, `ArchiveInv`, `PageInv`, `ExportInv`, `ConfirmInv`, `DownloadInv`,
`ExtractionInv`, `DetailInv`) is the conjunction of its type invariant and the
named parts above it in the module: `LinkInv` holds that a reset link works
once and that only links verify an address, `ArchiveInv` that an answered upload
leaves no temporary file, `DownloadInv` that each `used_at` is the work of one
request, which has opened the owner's export, was turned away or is still on its
way, `PageInv` that what the one open page holds in memory is what is stored, that
a signed-in page has tokens and that a loading page has a rotation under way or
an answer behind it that it could not read.

| Run | Question | Instance |
|---|---|---|
| `sessions` | Is a replay always recognised, is a revocation final and complete, is the table a `SessionLine`, in which an expired login is over? | 1 user, 3 sessions, 2 requests, clock 0..1, TTL 1, retention 0, 1 reset |
| `sessions_live` | Is every request answered, though they wait for each other's locks, in a circle too? | 1 user, 3 sessions, 2 requests, clock 0, 1 reset |
| `sessions_reset` (violated) | Does a reset end every session opened with the old password? | 2 sessions, 2 requests, 1 reset |
| `links_race` | Can two submissions, two offers, a crash or a second registration break a link's promises? | 1 account, 3 links, 2 requests, clock 0..2 |
| `archive` | Can bytes go missing, on disk or in the backup; can a document be filed twice? | 1 photo, 2 receipts, 2 expenses, 2 requests |
| `web_page` | When does the client present a spent token; does every call return; is the client a `SessionLine`? | 1 page, 2 calls, 3 tokens, 1 retry, 2 loads |
| `web_signout` (violated) | Is local sign-out unconditional? | 1 page, 2 calls, 3 tokens, 1 load |
| `export` | Is what nobody edits exported once, in order, with a true cell; is a finished ZIP whole; does it end? | 3 expenses, 2 dates, 1 receipt, pages of 2, 2 edits |
| `confirm` | Is what the screen tells its user true, is a correction stored only with consent, does every save end? | 1 visit, 2 calls, 1 merchant, 1 category, 1 thing happening elsewhere |
| `download` | Does a token open at most one export, its owner's, in its minute; is it kept until a request spends it; does the sheet come back? | 2 accounts, 2 tokens, 2 requests, 1 sheet, TTL 1, clock 0..2 |
| `extraction` | Does the list ever go back to an older reading; is the table a `ReceiptReadings`; is every upload answered? | 2 uploads, 1 photo, 1 receipt, 2 attempts, clock 0..1 |
| `detail` | Does a save write only what was typed; is what is said of a deletion so; does every edit end? | 1 visit, 2 calls, 2 categories, 1 merchant, 1 currency, 1 field typed per edit, 1 thing happening elsewhere |

**Why these bounds are enough.**  In `Sessions` a hazard needs a replaced
session, its replacement, and a third one that a concurrent request opens:
three ids, and two requests that race for a row; one tick separates "before" and "after" for expiry
and retention, with retention 0 so that prune can reach a revoked row within the
clock.  `PruneExpired` finds nothing to delete there, because no session has been
expired for a whole tick; that neither prune deletes evidence is proved for all times
in section 5.  In `sessions_live`
the third id is what a circle of waits needs: with one live row each, a reset and a
reuse cascade would meet on one row only; with two they lock them in opposite
orders, and TLC reaches such a state.  In `AccountLinks` two overlapping offers leave two links and a third
follows; the clock passes the throttle and both lifetimes.  In `Archive` one photo
serves all uploads because only equal hashes meet, and two receipts and two expenses are
what uniqueness and swaps need.  In `WebSession` the tokens are one for the
login, one for its rotation, and one for what goes wrong next (a fourth adds
states and no verdict); two calls are what
join a rotation.  With two pages (1 call each, 3 tokens, 1 retry, 3 loads, tokens
symmetric) TLC finds 525,203 states and `PageInv` and `ReuseNeedsInterruption` in
each; there is no run of it, because section 5 proves both for any number of
pages.  In `Export` three rows paged by two
give a full page, a short one and an empty one, and two edits can
move one row and delete another.  In `Confirm` two calls are a correction and
its expense, or a save and the one after its answer was lost; one merchant
besides "none" tells typed from read and saved from detected; one event
elsewhere is a filing, a deletion of the receipt, the category or the
correction (two give 1,048,401 states and the same verdict).  In `DownloadTokens` two requests
race for one row or prune it, the second token is a second account's or a second
mint, and two ticks lie before, in and after the minute.  In `Extraction` two
attempts of one receipt are stamped alike or apart and commit in either order.
In `ExpenseDetail` two calls are a save and a retry, a save and a deletion, or two
deletions, and one event elsewhere is a patch, a deletion or a category that goes.
`MaxClock`,
`MaxPassword`, `MaxLoads`, `MaxWrites`, `MaxCalls`, `MaxTyped`, `MaxOthers` and the sizes of the id sets are the only bounds; `OutOfIds` and
`OutOfTokens` answer with a failure when the ids run out.

`CHECK_DEADLOCK FALSE` appears where a run legitimately stops: the clock is at its bound and
every id used (`AccountLinks`, `Archive`, `DownloadTokens`, `Extraction`), the page loads are used up
(`WebSession`), the download is over (`Export`), the visit has left (`Confirm`, `ExpenseDetail`).  `Sessions` never stops: a
refresh of a known token can always arrive.

**Fairness.**
`Sessions`: handlers run on, and a row's lock queue is served in order, so a
request that finds the row free again and again gets it: strong fairness of
`Proceed`; lock time-outs and the deadlock detector fire: weak fairness of `Stop`.
`WebSession`: a browser answers or fails every request and runs what the answer
resumes: weak fairness of each call and each rotation.
`Export`: the handler runs on while its client reads: weak fairness of `Download`.
`Confirm`: a `fetch` is answered or fails: weak fairness of `HearSave` and
`HearRetry`; the API need not do anything.  `ExpenseDetail`: the same, of `Hear`.
`DownloadTokens`: the call a sheet waits for is answered or fails, and the sheet
goes on: weak fairness of `Proceed`.
`SavesEnd`, `EditsEnd` and `ZipPressEnds` take it that `authorized` returns.  It
rejects after a refresh answer that was cut off (3.4), which those modules leave out.
`Extraction`: both services have time-outs (5 s and 60 s) and the database ends
every statement: weak fairness of `Proceed` and of `Complete`.
Nothing is assumed of users, clients, crashes, expiry or the clock.

### What the violated runs show

- `ResetEndsOldLogins`.  `auth/password-reset.ts:176` says every refresh token
  dies with a reset.  A login that verified the old password before the reset
  committed inserts its session after it.
- `SignOutIsFinal`.  `session.ts:274` says local sign-out is unconditional.  A
  rotation in flight stores its tokens after the sign-out, and the next load
  restores the session.

Further disagreements are stated in the modules, under "What the documentation
says", and TLC refutes them with the constants given, but they are not among the
runs:

| Property | Sentence | Constants |
|---|---|---|
| `ReuseEndsTheLine` (`Sessions`) | reuse "revokes every session for the user" (a rotation in flight is missed) | as `sessions`, `MaxClock = 0`, `MaxPassword = 0` |
| `AlreadyVerifiedIsTrue` (`AccountLinks`) | `email/pages.ts:145`: "This address was confirmed earlier" (`consumed_at` is also set on a superseded link, whose account need not be verified) | as `links_race`, `MaxClock = 1` |
| `OnlyNewestWorks` (`AccountLinks`) | "only the newest works" (two offers overlap) | as `links_race`, `MaxClock = 1` |
| `ResetIsThrottled` (`AccountLinks`) | "at most one reset email per account per minute" (a redeemed link does not count) | as `links_race`, `MaxClock = 1` |
| `AttachedIsNotDeleted` (`Archive`) | "a receipt attached to a live expense ... is not deleted" (both sides check, then act) | as `archive` |
| `NeverSentTwice` (`WebSession`) | "a token must never be sent twice" (the latch is per page, the storage is shared: the server ends every session; and one page does it after a refresh answer that was cut off) | two tabs, one browser, 3 tokens, no 503 retries, 3 loads; for one page, as `web_page` |
| `LoadingEnds` (`WebSession`) | `app.tsx:27`: "Nothing routable renders while the stored token is being rotated" (nor after the answer to that was cut off: `restore` rejects and the state stays "restoring") | as `web_page` |
| `SpentHasOpened` (`DownloadTokens`) | `routes/exports.ts:17`: "an opaque token for exactly one CSV or ZIP export download" (a request refused for its filter, or failing after the UPDATE committed, has spent it and downloads nothing) | as `download` |
| `ImagesAreNamed` (`Export`) | "they can never disagree about which rows a filter selects" of the two passes (a row deleted between them leaves an image no row names) | `Expense = {1, 2}`, 1 receipt, pages of 1, 1 edit |
| `TypedIsKept` (`Confirm`) | `confirm-receipt.tsx:126` asks before a new reading replaces typed values (`hasEdits` looks at the render in which "Try again" was pressed, so what is typed while the reading is on its way is replaced without asking) | as `confirm` |
| `NotFiledIsTrue` (`Confirm`) | "Could not save merchant correction. Your expense has not been filed." (an earlier save, whose answer was lost, has filed it) | as `confirm`, `MaxCalls = 3` |
| `NeverRepeated` (`Export`) | paging by key does not repeat rows (a row whose date moves does) | `Expense = {1, 2}`, no receipts, pages of 1, 1 edit |
| `CsvPressEnds` (`DownloadTokens`) | "Could not start the download. Please try again." (`download.ts:38`: the body is read outside the `try`, so a CSV that is cut off leaves the sheet at "Starting CSV..." with its buttons disabled) | as `download` |
| `OnlySuccessHasSource` (`Extraction`) | `extraction.ts:44`: "The provider that produced a successful reading shown to the user" (a failed or skipped attempt is shown with a source as well) | as `extraction` |
| `SavedIsShown` (`ExpenseDetail`) | `expense-detail.tsx`: "Changes saved." (the answer overwrites what was typed meanwhile, and a cleared currency is not sent) | as `detail` |
| `NotFoundIsForeign` (`ExpenseDetail`) | "reporting that would tell someone their expense was not found immediately after deleting it" (so it does, on a second try after a lost answer) | as `detail` |

Two more were met while modelling and are visible in the modules, without a
property of their own.  `paddleocr-extractor.ts:10` says a local reading is kept
when the model fails; one whose values do not fit their columns (migration 0008)
is not recorded at all (`CouldNotRecord`).  `leave` of the expense detail pulls
the user away from whatever screen is open when a late answer arrives
(`AnswerSave`, `AnswerDelete` with `page` "left"), and a PATCH whose answer was
lost may be served after, and overwrite, a later save (`GoOffline`, then `UpdateExpense`).

## 5. What is proved

TLAPS proves the following for any sets and bounds, from the assumptions of the
modules only: `None` or `Null` is not a value it has to be told from, times and
bounds are natural numbers, a page of an export holds at least one row, and
constants that are functions or sets of other constants have their types.  Ids are
numbers where the code orders rows by them (`Expense`, `Attempt`), and the
expenses of an account are finitely many.  No proof needs any other set to be
finite, or any bound to be small.

**`Sessions_proofs`**: `TypeCorrect`, `ReplayInvariant`, `ReplayDetection`,
`RevocationFinality`, `SnapshotRevocation`, `SessionLineRefinement`.
`ReplayIsDetected` is not inductive: a prune could delete the replacement of a
session and so (ON DELETE SET NULL) erase the evidence of its rotation.  The
invariant `ReplayInv` says why it does not: a replacement expires no earlier than what it
replaced (`LinksHold`), and is revoked no earlier (`RevokedInOrder`), although the time
written is a transaction's start and may lie before a wait; so both DELETEs of
prune take the replaced session no later than the replacement.  `LocksHold`
says that the row a rotation has locked stays live until it commits, which is
the whole point of `FOR UPDATE`.
`SnapshotRevocation` needs `FoundIsAccountedFor`: a row the UPDATE found is still
to be visited, dead, or locked by it.  The refinement maps `FinishLogin`
to `Open`, `Rotate` to `Exchange`, and each action that takes a token away to
`End`, the clock included; everything else stutters.  What it shows `SessionLine`
is `Current`, not what is unrevoked: a session that has expired is over unless a
refresh that found it usable in time still holds its row, and `NothingRevives`
says that no other step brings one back.

**`AccountLinks_proofs`**: `LinkInvariant`, `ResetHappensOnce`,
`LinksAreReplaced`, `VerificationNeedsLink`, `PasswordChanges`,
`MailsAreThrottled`.  The strengthening
is that what a request knows of its link stays true while others run
(`RequestsHold`), and that a claimed token is locked and unconsumed until its
transaction ends (`LinksHold`): a second claim waits, and then finds it consumed.
The throttle reads unconsumed links only, and superseding consumes links, so that
`ThrottleCountsMails` seems to be false.  It holds by `NewestIsLive`: the UPDATE
that supersedes sees links no newer than its own start, and what it consumes is
followed by a link at least as new, so that the newest link of an account that is
not verified is never a consumed one.

**`Archive_proofs`**: `ArchiveInvariant`, `RowsHaveBytes`, `FiledOnce`,
`AnsweredLeavesNoTemp`, `BackupHasBytes`.  Rows and files are only ever added
(the lemmas that nothing is lost), so a request between rename and INSERT still has its
bytes (`RequestsHold`), and between dump and copy what was dumped stays on disk
(`BackupHolds`).

**`Confirm_proofs`**: `ConfirmInvariant`, `TrueNotices`, `StableQuestions`,
`ApprovedRules`.  What the screen says of the database is true because the records
it speaks of only grow: expenses are appended (deleting one marks it) and a deleted
receipt stays deleted (`RecordsStay`), so what a visit was told stays true whatever
other devices do (`Believes`), and an answer on its way back says something that is
still true when it is heard (`CallHolds`).  `CallHolds` also keeps the body of the
save that is waited for: the values sent are the ones the notice "Filed" is about.
`AsksInOrder` says that a dialog, a save and a second reading keep out of each
other's way, and that the choice made for a correction is back to "ask" before the
next press of "Save expense", which is what `ApprovedRules` needs.  The receipt and
the corrections may change between any two steps, by other devices.

**`Downloads_proofs`, tokens**: `DownloadInvariant`, `LiveTokensAreKept`,
`OneTimeLinkRefinement`.  A claim that has its row holds the lock, and the row is
still redeemable at the time the claim was sent (`RequestsWork`, `LocksHold`):
so `used_at` is set at most once, by a request that is the only one of its token
from then on and ends in an export or in nothing (`UseIsAccountedFor`).
`LiveTokensAreKept` says that nothing else takes a token away within its minute:
no prune, no request refused or failing before its UPDATE commits.  A failure
after that does.  The refinement maps `Mint` to `Issue`, `OpenExport` to `Open`,
and whatever makes a token useless (the clock, the last request in time failing,
a request turned away with it) to `Lapse`.

**`Downloads_proofs`, content**: `ExportInvariant`, `SteadyExportedOnce`,
`SteadyCells`, `WholeDownloads`, for every finite set of expenses, every page size
and any number of edits (`Null` is neither a receipt nor a cursor,
`NullAssumption`).  A page is the first rows after the cursor in a total order,
of which `InOrderSorts` shows that any finite set has one sorted enumeration, and
`PageShape` that a full page skips nobody before its last row; so whoever has
been dealt with lies at or before the cursor (`CursorPasses`, `Passed`).  An
expense that is left alone keeps its key and so its side of the cursor, while
others are inserted, moved and deleted around it.  `CellsHold` says this of the
presence pass, `LedgerHolds` of the ledger: its lines ascend (`LedgerAscends`),
end before the cursor, and agree with the table for every such expense.  That the
cells are not disturbed between the passes is `CellsHold` at the later stages; a
finished archive has all the images, in order (`EntriesHold`).

**`WebSession_proofs`**: `PageInvariant`, `ReuseIsExplained`,
`ServerIsSessionLine`, for any number of pages, calls, tokens, retries and loads.
`PageInv` has three layers.  Whatever is open, everybody's tokens were issued
(`TokensWereIssued`), one token of a login is live (`ServerHolds`), and a call
that awaits a rotation awaits one that is under way (`PageHolds`, `FlowHolds`).
While one page is open, memory is what is stored (`MemoryIsStored`), so that a
reload goes on where the page was.  If besides no page was left during a refresh and no
answer to one was cut off, no token that anybody could present is spent
(`NothingSpent`): only a rotation spends one, and the answer, or the failure, of
that rotation takes it out of memory before another can start.  The cut-off answer
is the failure that does not.  `ReuseIsExplained` is the contrapositive.  The refinement
maps a login to `Open`, `Rotate` to `Exchange` and each revocation to `End`, as
in `Sessions_proofs`: the two ends of the protocol meet in `SessionLine`.

**`Extraction_proofs`**: `ExtractionInvariant`, `ListShowsNoOlderReading`,
`ReadingsRefinement`.  That `ORDER BY created_at DESC, id DESC` puts one attempt
first is `NewestExists`, carried along from commit to commit because a set of
attempts of any size has no maximum for free.  An upload was told of an attempt
that had committed (`ToldIsRecorded`), rows are never taken away, and the newest
can only be replaced by a newer one; that is also the refinement.

**`ExpenseDetail_proofs`**: `DetailInvariant`, `OwnDeletesAreKnown`,
`OnlyTypedFieldsAreWritten`. The form differs from what the server last confirmed
only where its user typed (`FormHolds`), so a patch holds only typed fields
(`CallSends`), and another device's step between load and save changes none of
this. A visit waits for one call at a time (`WaitHolds`), and a deletion once
made stays (`DeletionStays`). A visit's own deletion is therefore answered and
told, still to be heard, or lost (`Deleted`): a visit told that its own
deletion was not found has missed an earlier answer.

Only model-checked: liveness (`RequestsAreAnswered`,
`CallsReturn`, `ExportEnds`, `SavesEnd`, `ZipPressEnds`, `UploadIsAnswered`,
`EditsEnd`), which rests on fairness and ENABLED, beyond the prover.
Induction over data and RECURSIVE operators are also beyond it; no module here
uses them.  Where a proof needs a largest element or an order of any size, it is
carried along as an invariant (`NewestExists`, `NewestIsLive`), taken from the
library (`WFMin`, the cardinality theorems), or built by counting (`InOrderSorts`).

## 6. Not modelled

Formatting, wording, logging and layout; cryptography (a password matches or it
does not, a token was issued or it was not); HTTP validation (inputs are those
that pass it, or the API's refusal is one alternative of a call); rate limits (a
library's counters); amounts, line items and summaries; pure functions so far
(see the plan); the restore procedure (manual); everything under "Charts,
configuration ..." in the inventory, which keeps no state that a later request
reads.

The lists of categories and of merchant corrections, and the home screen, are
read but not modelled.  What a model of them would start from:

- `routes/categories.tsx`: `remove` does not reset `deletingRef` after a success,
  so a second deletion in one visit stays at "Deleting"; answers to the list may
  arrive in another order than its calls; two devices can delete the last
  category between them.
- `routes/merchant-corrections.ts`: the outer SELECT of a data-modifying WITH
  reads the snapshot from before the change, so that the answer to a POST or a
  PATCH depends on what was there before.  Two of its consequences are on the
  screen: a created rule that the answer does not carry, and old values shown
  after an edit.  "Could not delete ... It is still saved." is not so after a
  lost answer.
- `routes/home.tsx:64`: an older answer to the list may replace a newer upload.

An answer that cannot be read has kind "ok" and no body (`api/client.ts:119`), while
`client.ts:37` counts it with the failures.  `WebSession` models this for
refreshes and logins.  It is left out elsewhere: in `ExpenseDetail` a PATCH answered so would
set `expense` to `undefined` and throw in `fieldsFromExpense`, after `savingRef` was
reset.

Clocks: `createDownloadToken` and the prune script read their own clocks, the
UPDATE that redeems reads the database's.  `DownloadTokens` has one clock, and says
nothing of a skew between them.
