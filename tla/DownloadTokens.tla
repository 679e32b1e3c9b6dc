--------------------------- MODULE DownloadTokens ---------------------------
(***************************************************************************)
(* The one-minute, single-use credential of a browser download: the        *)
(* download_tokens table, the requests that redeem and prune its rows      *)
(* concurrently, and the export sheet of the web client, which mints a     *)
(* token and puts it in an address.                                        *)
(*                                                                         *)
(* A statement runs at READ COMMITTED in a transaction of its own: it sees *)
(* the time at which it started, waits for a row that another statement is *)
(* changing, and looks at the row again before it changes it.              *)
(***************************************************************************)
EXTENDS Integers, Sequences

CONSTANTS
    User,       \* accounts
    Token,      \* download tokens: the bound on those ever minted
    Request,    \* requests to the API, or runs of the prune, at once
    Screen,     \* export sheets that are open
    account,    \* the account each is signed in to
    None,       \* SQL NULL, undefined
    TTL,        \* DOWNLOAD_TOKEN_TTL_MS, in ticks
    MaxClock    \* bound on the clock

ASSUME NoneAssumption == None \notin Token \cup User \cup Request \cup Int
ASSUME TimeAssumption == TTL \in Nat \ {0} /\ MaxClock \in Nat
ASSUME AccountAssumption == account \in [Screen -> User]

VARIABLES
    rows,       \* tokens that have a committed row
    owner,      \* user_id; None if not minted.  A column keeps its value after a delete
    expiresAt,  \* expires_at
    usedAt,     \* used_at, or None
    lock,       \* the request whose UPDATE holds the row, or None
    phase,      \* request: how far it is
    token,      \* request: the token in its address, or None
    user,       \* request: authenticatedUserId, or None
    start,      \* request: now() of its statement
    running,    \* sheet: the download it is starting, "no" for none
    call,       \* sheet: how far the call for it is
    held,       \* sheet: the token it was answered, or None
    urls,       \* tokens that were put in an address: a browser's history keeps them
    clock,
    openedBy,   \* history: the accounts whose export the token opened, in order
    wasted      \* history: the tokens spent by a request that opened no export

table == <<rows, owner, expiresAt, usedAt>>
request == <<phase, token, user, start>>
sheet == <<running, call, held, urls>>
history == <<openedBy, wasted>>
vars == <<table, lock, request, sheet, clock, history>>

Phase == {"idle", "claiming", "claimed", "redeemed", "authorized", "pruning"}
Call == {"none", "sent", "minted", "failed", "thrown"}

Init ==
    /\ rows = {}
    /\ owner = [t \in Token |-> None]
    /\ expiresAt = [t \in Token |-> 0]
    /\ usedAt = [t \in Token |-> None]
    /\ lock = [t \in Token |-> None]
    /\ phase = [p \in Request |-> "idle"]
    /\ token = [p \in Request |-> None]
    /\ user = [p \in Request |-> None]
    /\ start = [p \in Request |-> 0]
    /\ running = [s \in Screen |-> "no"]
    /\ call = [s \in Screen |-> "none"]
    /\ held = [s \in Screen |-> None]
    /\ urls = {}
    /\ clock = 0
    /\ openedBy = [t \in Token |-> <<>>]
    /\ wasted = {}

-----------------------------------------------------------------------------
(* The sheet: both buttons are disabled while a download is starting.      *)
Press(s, kind) ==
    /\ running[s] = "no"
    /\ running' = [running EXCEPT ![s] = kind]
    /\ call' = [call EXCEPT ![s] = "sent"]
    /\ UNCHANGED <<table, lock, request, held, urls, clock, history>>

(* POST /exports/token: createDownloadToken, with the clock of the API.    *)
Mint(s, t) ==
    /\ running[s] = "zip" /\ call[s] = "sent"
    /\ owner[t] = None
    /\ rows' = rows \cup {t}
    /\ owner' = [owner EXCEPT ![t] = account[s]]
    /\ expiresAt' = [expiresAt EXCEPT ![t] = clock + TTL]
    /\ call' = [call EXCEPT ![s] = "minted"]
    /\ held' = [held EXCEPT ![s] = t]
    /\ UNCHANGED <<usedAt, lock, request, running, urls, clock, history>>

(* 401, 429, 500, or an answer that is lost: the token, if there is one,   *)
(* is known to nobody.                                                     *)
MintFailed(s) ==
    /\ running[s] = "zip" /\ call[s] \in {"sent", "minted"}
    /\ call' = [call EXCEPT ![s] = "failed"]
    /\ held' = [held EXCEPT ![s] = None]
    /\ UNCHANGED <<table, lock, request, running, urls, clock, history>>

Settle(s) ==
    /\ running' = [running EXCEPT ![s] = "no"]
    /\ call' = [call EXCEPT ![s] = "none"]
    /\ held' = [held EXCEPT ![s] = None]

(* zip, once the token is there: the browser is sent to the address.       *)
Navigate(s) ==
    /\ call[s] = "minted"
    /\ urls' = urls \cup {held[s]}
    /\ Settle(s)
    /\ UNCHANGED <<table, lock, request, clock, history>>

(* Mutant: the failure is shown and the button stays as it was.            *)
ReportFailureOnly(s) ==
    /\ call[s] = "failed"
    /\ call' = [call EXCEPT ![s] = "none"]
    /\ UNCHANGED <<table, lock, request, running, held, urls, clock, history>>

ReportFailure(s) ==
    /\ call[s] = "failed"
    /\ Settle(s)
    /\ UNCHANGED <<table, lock, request, urls, clock, history>>

(* csv: the file is fetched with the access token and saved, or refused.   *)
CsvReturns(s) ==
    /\ running[s] = "csv" /\ call[s] = "sent"
    /\ Settle(s)
    /\ UNCHANGED <<table, lock, request, urls, clock, history>>

(* The body ends early: response.blob() throws, and csv with it.           *)
CsvCutOff(s) ==
    /\ running[s] = "csv" /\ call[s] = "sent"
    /\ call' = [call EXCEPT ![s] = "thrown"]
    /\ UNCHANGED <<table, lock, request, running, held, urls, clock, history>>

-----------------------------------------------------------------------------
(* Requests.                                                               *)
Finish(p) ==
    /\ phase' = [phase EXCEPT ![p] = "idle"]
    /\ token' = [token EXCEPT ![p] = None]
    /\ user' = [user EXCEPT ![p] = None]
    /\ start' = [start EXCEPT ![p] = 0]

(* exportAuth, with a bearer header: it alone decides, and the token in    *)
(* the address is not looked at.  A header that does not verify is a 401,  *)
(* which changes nothing.                                                  *)
ArriveWithBearer(p, u) ==
    /\ phase[p] = "idle"
    /\ phase' = [phase EXCEPT ![p] = "authorized"]
    /\ user' = [user EXCEPT ![p] = u]
    /\ UNCHANGED <<table, lock, token, start, sheet, clock, history>>

(* exportAuth, without one: whoever has the address, as often as it is     *)
(* opened.  redeemDownloadToken sends its UPDATE.                          *)
Arrive(p, t) ==
    /\ phase[p] = "idle"
    /\ t \in urls
    /\ phase' = [phase EXCEPT ![p] = "claiming"]
    /\ token' = [token EXCEPT ![p] = t]
    /\ start' = [start EXCEPT ![p] = clock]
    /\ UNCHANGED <<table, lock, user, sheet, clock, history>>

(* Mutant: prior use is not part of the UPDATE's condition.                *)
RedeemableAgain(t, now) == t \in rows /\ expiresAt[t] > now
Redeemable(t, now) == t \in rows /\ usedAt[t] = None /\ expiresAt[t] > now

(* Mutant: a look at the row that waits for nobody, and an UPDATE after it. *)
ClaimUnlocked(p) ==
    LET t == token[p] IN
    /\ phase[p] = "claiming"
    /\ IF Redeemable(t, start[p])
         THEN /\ lock' = [lock EXCEPT ![t] = p]
              /\ phase' = [phase EXCEPT ![p] = "claimed"]
              /\ UNCHANGED <<token, user, start>>
         ELSE Finish(p) /\ UNCHANGED lock
    /\ UNCHANGED <<table, sheet, clock, history>>

(* The UPDATE reaches the row, or finds none: 401.                         *)
Claim(p) ==
    LET t == token[p] IN
    /\ phase[p] = "claiming"
    /\ lock[t] = None
    /\ IF Redeemable(t, start[p])
         THEN /\ lock' = [lock EXCEPT ![t] = p]
              /\ phase' = [phase EXCEPT ![p] = "claimed"]
              /\ UNCHANGED <<token, user, start>>
         ELSE Finish(p) /\ UNCHANGED lock
    /\ UNCHANGED <<table, sheet, clock, history>>

(* It commits: the token is spent, whatever becomes of the request.        *)
Commit(p) ==
    LET t == token[p] IN
    /\ phase[p] = "claimed"
    /\ usedAt' = [usedAt EXCEPT ![t] = start[p]]
    /\ lock' = [lock EXCEPT ![t] = None]
    /\ phase' = [phase EXCEPT ![p] = "redeemed"]
    /\ UNCHANGED <<rows, owner, expiresAt, token, user, start, sheet, clock, history>>

(* The database or the process fails before the statement commits.         *)
RollBack(p) ==
    /\ phase[p] \in {"claiming", "claimed", "pruning"}
    /\ lock' = [t \in Token |-> IF lock[t] = p THEN None ELSE lock[t]]
    /\ Finish(p)
    /\ UNCHANGED <<table, sheet, clock, history>>

(* The API has the UPDATE's answer: the request is the owner's.            *)
Authorize(p) ==
    /\ phase[p] = "redeemed"
    /\ phase' = [phase EXCEPT ![p] = "authorized"]
    /\ user' = [user EXCEPT ![p] = owner[token[p]]]
    /\ UNCHANGED <<table, lock, token, start, sheet, clock, history>>

(* The checks of the handler are behind it: the export (module Export)     *)
(* starts to be sent.                                                      *)
OpenExport(p) ==
    LET t == token[p] IN
    /\ phase[p] = "authorized"
    /\ openedBy' = IF t = None THEN openedBy
                   ELSE [openedBy EXCEPT ![t] = Append(@, user[p])]
    /\ Finish(p)
    /\ UNCHANGED <<table, lock, sheet, clock, wasted>>

(* Nothing is sent: 400 or 422 for the filter, 500 when a query of the     *)
(* handler throws, or the UPDATE's answer never comes because the          *)
(* connection or the process died after the commit.                        *)
TurnAway(p) ==
    /\ phase[p] \in {"redeemed", "authorized"}
    /\ wasted' = wasted \cup ({token[p]} \ {None})
    /\ Finish(p)
    /\ UNCHANGED <<table, lock, sheet, clock, openedBy>>

-----------------------------------------------------------------------------
(* prune-auth-artifacts takes its time in the script ...                   *)
StartPrune(p) ==
    /\ phase[p] = "idle"
    /\ phase' = [phase EXCEPT ![p] = "pruning"]
    /\ start' = [start EXCEPT ![p] = clock]
    /\ UNCHANGED <<table, lock, token, user, sheet, clock, history>>

(* Mutant: the lifetime the wrong way round.                               *)
PrunableEarly(t, now) == usedAt[t] # None \/ expiresAt[t] > now
Prunable(t, now) == usedAt[t] # None \/ expiresAt[t] < now

(* ... and its DELETE waits for the rows it wants that are being changed.  *)
PruneDownloadTokens(p) ==
    LET gone == {t \in rows : Prunable(t, start[p])} IN
    /\ phase[p] = "pruning"
    /\ \A t \in gone : lock[t] = None
    /\ rows' = rows \ gone
    /\ Finish(p)
    /\ UNCHANGED <<owner, expiresAt, usedAt, lock, sheet, clock, history>>

Tick ==
    /\ clock < MaxClock
    /\ clock' = clock + 1
    /\ UNCHANGED <<table, lock, request, sheet, history>>

-----------------------------------------------------------------------------
(* What the browser and the API do next for a sheet that waits.            *)
Proceed(s) ==
    \/ \E t \in Token : Mint(s, t)
    \/ MintFailed(s) \/ Navigate(s) \/ ReportFailure(s)
    \/ CsvReturns(s) \/ CsvCutOff(s)

Handle(p) ==
    \/ \E u \in User : ArriveWithBearer(p, u)
    \/ \E t \in Token : Arrive(p, t)
    \/ Claim(p) \/ RollBack(p) \/ Commit(p)
    \/ Authorize(p) \/ OpenExport(p) \/ TurnAway(p)
    \/ StartPrune(p) \/ PruneDownloadTokens(p)

Next ==
    \/ Tick
    \/ \E s \in Screen : Proceed(s) \/ \E kind \in {"csv", "zip"} : Press(s, kind)
    \/ \E p \in Request : Handle(p)

Spec == Init /\ [][Next]_vars

(* Every call is answered or reported as failed by the browser, and the    *)
(* sheet goes on with what it was answered.  Nothing is asked of the user, *)
(* of the clock, of prunes or of whoever opens an address.                 *)
FairSpec == Spec /\ \A s \in Screen : WF_vars(Proceed(s))

-----------------------------------------------------------------------------
TypeOK ==
    /\ rows \subseteq Token
    /\ owner \in [Token -> User \cup {None}]
    /\ expiresAt \in [Token -> Nat]
    /\ usedAt \in [Token -> Nat \cup {None}]
    /\ lock \in [Token -> Request \cup {None}]
    /\ phase \in [Request -> Phase]
    /\ token \in [Request -> Token \cup {None}]
    /\ user \in [Request -> User \cup {None}]
    /\ start \in [Request -> Nat]
    /\ running \in [Screen -> {"no", "csv", "zip"}]
    /\ call \in [Screen -> Call]
    /\ held \in [Screen -> Token \cup {None}]
    /\ urls \subseteq Token
    /\ clock \in Nat
    /\ openedBy \in [Token -> Seq(User)]
    /\ wasted \subseteq Token

(* A request's statement started before now and is about a minted token;   *)
(* what it is let in as is the token's owner.                              *)
RequestsWork ==
    \A p \in Request :
        /\ start[p] <= clock
        /\ token[p] # None => token[p] \in urls
        /\ phase[p] \in {"claiming", "claimed", "redeemed"} => token[p] # None
        /\ phase[p] \in {"idle", "pruning"} => token[p] = None
        /\ phase[p] = "claimed" => lock[token[p]] = p /\ Redeemable(token[p], start[p])
        /\ phase[p] = "authorized" /\ token[p] # None => user[p] = owner[token[p]]

(* A row lock is that of one claim in progress.                            *)
LocksHold ==
    \A t \in Token : lock[t] # None => phase[lock[t]] = "claimed" /\ token[lock[t]] = t

(* p has spent t, and has not been answered yet.                           *)
Redeeming(p, t) == token[p] = t /\ phase[p] \in {"redeemed", "authorized"}

(* Every used_at is the work of one request: it has opened the owner's     *)
(* export, or has been turned away, or is still on its way to one of them. *)
UseIsAccountedFor ==
    \A t \in Token :
        LET opened == openedBy[t] # <<>>
            underWay == \E p \in Request : Redeeming(p, t)
        IN
        /\ opened => openedBy[t] = <<owner[t]>>
        /\ usedAt[t] # None <=> opened \/ t \in wasted \/ underWay
        /\ ~ (opened /\ t \in wasted)
        /\ underWay => ~ opened /\ t \notin wasted
        /\ \A p, q \in Request : Redeeming(p, t) /\ Redeeming(q, t) => p = q
        /\ usedAt[t] # None => owner[t] # None
        /\ t \in rows \cup urls => owner[t] # None
        /\ owner[t] = None => expiresAt[t] = 0 /\ lock[t] = None

SheetsWork ==
    \A s \in Screen :
        /\ call[s] = "minted" => held[s] # None /\ owner[held[s]] # None
        /\ running[s] = "no" <=> call[s] = "none"

DownloadInv == TypeOK /\ RequestsWork /\ LocksHold /\ UseIsAccountedFor /\ SheetsWork

(* Within its minute a token is there and unused, or one request has spent *)
(* it.  No prune, no request that is refused or fails before its UPDATE    *)
(* commits and none that carries a bearer header takes it away; a request  *)
(* that fails after the commit does, and has opened nothing.               *)
LiveTokenIsKept ==
    \A t \in Token :
        owner[t] # None /\ clock < expiresAt[t] =>
            \/ t \in rows /\ usedAt[t] = None
            \/ openedBy[t] # <<>> \/ t \in wasted
            \/ \E p \in Request : Redeeming(p, t)

(* The tokens are links that open for their owner, at most once and never  *)
(* for a request that arrives after their minute, whatever number of       *)
(* requests, prunes and failures there are.  A request that arrived in     *)
(* time may still be waiting for the row, or be on its way from it; a      *)
(* token that was wasted lapses before its minute is over.                 *)
InTime(p, t) ==
    phase[p] \in {"claiming", "claimed"} /\ token[p] = t /\ start[p] < expiresAt[t]

Lapsed(t) ==
    /\ owner[t] # None /\ openedBy[t] = <<>>
    /\ \/ t \in wasted
       \/ expiresAt[t] <= clock /\ \A p \in Request : ~ (InTime(p, t) \/ Redeeming(p, t))

OneTime == INSTANCE OneTimeLink WITH
    Link <- Token, Account <- User,
    holder <- owner, opened <- openedBy, lapsed <- {t \in Token : Lapsed(t)}

ImplementsOneTimeLink == OneTime!Spec

(* A sheet that is starting a ZIP does not stay disabled, whatever the     *)
(* server answers.                                                         *)
ZipPressEnds == \A s \in Screen : running[s] = "zip" ~> running[s] = "no"

-----------------------------------------------------------------------------
(* What the code says, and does not do.                                    *)

(* "Could not start the download. Please try again.": a CSV whose body is  *)
(* cut off, as the export does when it fails midway, leaves the sheet at   *)
(* "Starting CSV..." with every button disabled.                           *)
CsvPressEnds == \A s \in Screen : running[s] = "csv" ~> running[s] = "no"

(* "Returns an opaque token for exactly one CSV or ZIP export download     *)
(* within 60 seconds": a token that is spent opens an export.              *)
(* A request that is refused for its filter, or fails after the UPDATE     *)
(* committed, has spent it for nothing.                                    *)
SpentHasOpened ==
    \A t \in Token :
        usedAt[t] # None => openedBy[t] # <<>> \/ \E p \in Request : Redeeming(p, t)

=============================================================================
