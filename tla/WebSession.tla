----------------------------- MODULE WebSession -----------------------------
(***************************************************************************)
(* The session manager of the web client: pages of one browser, the        *)
(* refresh token they share through localStorage, and the server they      *)
(* talk to over a network that loses requests and answers.  The server is  *)
(* the session table as module SessionLine promises it.                    *)
(*                                                                         *)
(* A page runs its code without interruption from one answer of the        *)
(* network to the next, so an action is all the code between two awaits of *)
(* the network, in every function the answer resumes.                      *)
(***************************************************************************)
EXTENDS Integers

CONSTANTS
    Tab,       \* pages open at once
    Flow,      \* calls of the session manager that can be in progress at once
    home,      \* the page of each
    Token,     \* refresh tokens; an access token is named by the one it came with
    None,      \* null
    Retries,   \* REFRESH_503_RETRIES
    MaxLoads   \* bound on the page loads

ASSUME NoneAssumption == None \notin Token
ASSUME HomeAssumption == home \in [Flow -> Tab]
ASSUME BoundAssumption == Retries \in Nat /\ MaxLoads \in Nat

VARIABLES
    status,       \* server: "unissued", "live", "replaced" or "revoked"
    line,         \* server: the login each token descends from, or None
    expired,      \* tokens whose access token has expired
    stored,       \* localStorage: the refresh token, or None
    token,        \* page: refreshToken, or None
    access,       \* page: accessToken, or None
    state,        \* page: "closed" or what getState answers
    rotation,     \* page: refreshInFlight, "none" or how far the request is
    presented,    \* page: the token it presents, or None
    fresh,        \* page: the token that was answered, or None
    attempt,      \* page: retries made
    phase,        \* call: what it waits for
    held,         \* call: the token it was sent with or answered, or None
    loads,        \* page loads so far
    orphans,      \* tokens in refresh requests whose page is gone
    interrupted,  \* history: a page was left while it was refreshing
    cutOff,       \* history: the body of an answer to a refresh could not be read
    theft         \* history: the server saw a spent token and ended all sessions

server == <<status, line>>
memory == <<token, access, state>>
refreshing == <<rotation, presented, fresh, attempt>>
calls == <<phase, held>>
history == <<loads, orphans, interrupted, cutOff>>
vars == <<server, expired, stored, memory, refreshing, calls, history, theft>>

Status == {"unissued", "live", "replaced", "revoked"}
State == {"closed", "restoring", "signed-out", "signed-in"}
Rotation == {"none", "sent", "ok", "busy", "failed"}
Phase == {"idle", "restoring", "calling", "refreshing", "retrying",
          "loggingIn", "loggedIn", "loggingOut", "loggedOut"}

Init ==
    /\ status = [t \in Token |-> "unissued"]
    /\ line = [t \in Token |-> None]
    /\ expired = {}
    /\ stored = None
    /\ token = [b \in Tab |-> None]
    /\ access = [b \in Tab |-> None]
    /\ state = [b \in Tab |-> "closed"]
    /\ rotation = [b \in Tab |-> "none"]
    /\ presented = [b \in Tab |-> None]
    /\ fresh = [b \in Tab |-> None]
    /\ attempt = [b \in Tab |-> 0]
    /\ phase = [f \in Flow |-> "idle"]
    /\ held = [f \in Flow |-> None]
    /\ loads = 0 /\ orphans = {} /\ interrupted = FALSE /\ cutOff = FALSE /\ theft = FALSE

-----------------------------------------------------------------------------
(* The page's memory and the calls in it.                                  *)
Wait(f, ph, t) ==
    /\ phase' = [phase EXCEPT ![f] = ph]
    /\ held' = [held EXCEPT ![f] = t]

Done(f) == Wait(f, "idle", None)

Of(b) == {f \in Flow : home[f] = b}
Waiting(b) == {f \in Of(b) : phase[f] \in {"restoring", "refreshing"}}

(* Mutant: the rotated token is not persisted.                             *)
AdoptInMemory(b, t) ==
    /\ token' = [token EXCEPT ![b] = t]
    /\ access' = [access EXCEPT ![b] = t]
    /\ UNCHANGED stored

(* adopt, and the storage.write that follows it at once.                   *)
Adopt(b, t) ==
    /\ token' = [token EXCEPT ![b] = t]
    /\ access' = [access EXCEPT ![b] = t]
    /\ stored' = t

Forget(b) ==
    /\ token' = [token EXCEPT ![b] = None]
    /\ access' = [access EXCEPT ![b] = None]
    /\ stored' = None
    /\ state' = [state EXCEPT ![b] = "signed-out"]

(* rotate, its first request.                                              *)
Send(b, t) ==
    /\ rotation' = [rotation EXCEPT ![b] = "sent"]
    /\ presented' = [presented EXCEPT ![b] = t]
    /\ fresh' = [fresh EXCEPT ![b] = None]
    /\ attempt' = [attempt EXCEPT ![b] = 0]

Settle(b) ==
    /\ rotation' = [rotation EXCEPT ![b] = "none"]
    /\ presented' = [presented EXCEPT ![b] = None]
    /\ fresh' = [fresh EXCEPT ![b] = None]
    /\ attempt' = [attempt EXCEPT ![b] = 0]

(* refresh, for a call of authorized: join the rotation in flight, or      *)
(* start one, or give up for want of a token.                              *)
Refresh(f) ==
    LET b == home[f] IN
    \/ /\ rotation[b] # "none"
       /\ Wait(f, "refreshing", None)
       /\ UNCHANGED <<memory, stored, refreshing>>
    \/ /\ rotation[b] = "none" /\ token[b] # None
       /\ Send(b, token[b])
       /\ Wait(f, "refreshing", None)
       /\ UNCHANGED <<memory, stored>>
    \/ /\ rotation[b] = "none" /\ token[b] = None
       /\ Forget(b)
       /\ Done(f)
       /\ UNCHANGED refreshing

-----------------------------------------------------------------------------
(* The page is opened or reloaded and restores the session: what was in    *)
(* memory is gone, a request that was under way is not.                    *)
Load(f) ==
    LET b == home[f] IN
    /\ loads < MaxLoads
    /\ loads' = loads + 1
    /\ interrupted' = (interrupted \/ rotation[b] # "none")
    /\ orphans' = IF rotation[b] = "sent" THEN orphans \cup {presented[b]} ELSE orphans
    /\ token' = [token EXCEPT ![b] = stored]
    /\ access' = [access EXCEPT ![b] = None]
    /\ state' = [state EXCEPT ![b] = IF stored = None THEN "signed-out" ELSE "restoring"]
    /\ IF stored = None THEN Settle(b) ELSE Send(b, stored)
    /\ phase' = [g \in Flow |-> IF g = f /\ stored # None THEN "restoring"
                                ELSE IF home[g] = b THEN "idle" ELSE phase[g]]
    /\ held' = [g \in Flow |-> IF home[g] = b THEN None ELSE held[g]]
    /\ UNCHANGED <<server, expired, stored, cutOff, theft>>

(* authorized: a screen makes a call.  It may be the effect of a screen    *)
(* that has been left.                                                     *)
Authorized(f) ==
    LET b == home[f] IN
    /\ phase[f] = "idle"
    /\ state[b] \in {"signed-in", "signed-out"}
    /\ IF access[b] = None THEN Refresh(f)
       ELSE Wait(f, "calling", access[b]) /\ UNCHANGED <<memory, stored, refreshing>>
    /\ UNCHANGED <<server, expired, history, theft>>

(* The call is answered, with anything but 401, or is not answered.        *)
CallReturns(f) ==
    /\ phase[f] \in {"calling", "retrying"}
    /\ Done(f)
    /\ UNCHANGED <<server, expired, stored, memory, refreshing, history, theft>>

(* The first 401 refreshes ...                                             *)
CallUnauthorized(f) ==
    /\ phase[f] = "calling" /\ held[f] \in expired
    /\ Refresh(f)
    /\ UNCHANGED <<server, expired, history, theft>>

(* ... and the second ends the session.                                    *)
RetryUnauthorized(f) ==
    /\ phase[f] = "retrying" /\ held[f] \in expired
    /\ Forget(home[f])
    /\ Done(f)
    /\ UNCHANGED <<server, expired, refreshing, history, theft>>

-----------------------------------------------------------------------------
(* The server handles a refresh request for t and, if it is current,       *)
(* answers new.                                                            *)
(* Mutant: the presented session is not marked.                            *)
RotateKeepsOld(t, new) ==
    /\ status[t] = "live" /\ status[new] = "unissued"
    /\ status' = [status EXCEPT ![new] = "live"]
    /\ line' = [line EXCEPT ![new] = line[t]]
    /\ UNCHANGED theft

Rotate(t, new) ==
    /\ status[t] = "live" /\ status[new] = "unissued"
    /\ status' = [status EXCEPT ![t] = "replaced", ![new] = "live"]
    /\ line' = [line EXCEPT ![new] = line[t]]
    /\ UNCHANGED theft

Ended == [t \in Token |-> IF status[t] = "live" THEN "revoked" ELSE status[t]]

Refuse(t) ==
    /\ status[t] # "live"
    /\ status' = IF status[t] = "replaced" THEN Ended ELSE status
    /\ theft' = (theft \/ status[t] = "replaced")
    /\ UNCHANGED line

Answer(b, r, t) ==
    /\ rotation' = [rotation EXCEPT ![b] = r]
    /\ fresh' = [fresh EXCEPT ![b] = t]
    /\ UNCHANGED <<presented, attempt>>

ServerRefresh(b) ==
    /\ rotation[b] = "sent"
    /\ \/ \E new \in Token : Rotate(presented[b], new) /\ Answer(b, "ok", new)
       \/ Refuse(presented[b]) /\ Answer(b, "failed", None)
    /\ UNCHANGED <<expired, stored, memory, calls, history>>

ServerRefreshOrphan(t) ==
    /\ t \in orphans
    /\ (\E new \in Token : Rotate(t, new)) \/ Refuse(t)
    /\ orphans' = orphans \ {t}
    /\ UNCHANGED <<expired, stored, memory, refreshing, calls, loads, interrupted, cutOff>>

(* 503: another rotation of the session holds its row.                     *)
ServerBusy(b) ==
    /\ rotation[b] = "sent"
    /\ Answer(b, "busy", None)
    /\ UNCHANGED <<server, expired, stored, memory, calls, history, theft>>

(* The request or its answer is lost, or the server fails.                 *)
RefreshLost(b) ==
    /\ rotation[b] \in {"sent", "ok"}
    /\ Answer(b, "failed", None)
    /\ UNCHANGED <<server, expired, stored, memory, calls, history, theft>>

-----------------------------------------------------------------------------
(* rotate returns: the tokens are adopted and stored, and every function   *)
(* that awaited it goes on.                                                *)
Refreshed(b) ==
    /\ rotation[b] = "ok"
    /\ Adopt(b, fresh[b])
    /\ Settle(b)
    /\ state' = [state EXCEPT ![b] = IF \E f \in Of(b) : phase[f] = "restoring"
                                     THEN "signed-in" ELSE @]
    /\ phase' = [f \in Flow |-> IF f \notin Waiting(b) THEN phase[f]
                                ELSE IF phase[f] = "refreshing" THEN "retrying" ELSE "idle"]
    /\ held' = [f \in Flow |-> IF f \in Waiting(b) /\ phase[f] = "refreshing" THEN fresh[b]
                               ELSE held[f]]
    /\ UNCHANGED <<server, expired, history, theft>>

(* The answer is a 200 whose body is cut off: request calls it ok without  *)
(* a body, so that adopt throws before it changes anything, and with it    *)
(* every function that awaited rotate.  Nothing is forgotten.              *)
RefreshUnreadable(b) ==
    /\ rotation[b] = "ok"
    /\ Settle(b)
    /\ phase' = [f \in Flow |-> IF f \in Waiting(b) THEN "idle" ELSE phase[f]]
    /\ cutOff' = TRUE
    /\ UNCHANGED <<held, server, expired, stored, memory, loads, orphans, interrupted, theft>>

(* It returns a failure: every function that awaited it forgets.           *)
GiveUp(b) ==
    /\ Forget(b)
    /\ Settle(b)
    /\ phase' = [f \in Flow |-> IF f \in Waiting(b) THEN "idle" ELSE phase[f]]
    /\ UNCHANGED held

Resend(b) ==
    /\ rotation' = [rotation EXCEPT ![b] = "sent"]
    /\ attempt' = [attempt EXCEPT ![b] = @ + 1]
    /\ UNCHANGED <<presented, fresh, memory, stored, calls>>

(* Mutant: every failure is retried, not only 503.                         *)
RefreshFailedRetries(b) ==
    /\ rotation[b] = "failed"
    /\ IF attempt[b] < Retries THEN Resend(b) ELSE GiveUp(b)
    /\ UNCHANGED <<server, expired, history, theft>>

(* Any failure but 503 is terminal ...                                     *)
RefreshFailed(b) ==
    /\ rotation[b] = "failed"
    /\ GiveUp(b)
    /\ UNCHANGED <<server, expired, history, theft>>

(* Mutant: 503 is retried for ever.                                        *)
RefreshBusyForever(b) ==
    /\ rotation[b] = "busy"
    /\ rotation' = [rotation EXCEPT ![b] = "sent"]
    /\ UNCHANGED <<presented, fresh, attempt, memory, stored, calls, server, expired, history, theft>>

(* ... and 503 sends the same token again after a while, a few times.      *)
RefreshBusy(b) ==
    /\ rotation[b] = "busy"
    /\ IF attempt[b] < Retries THEN Resend(b) ELSE GiveUp(b)
    /\ UNCHANGED <<server, expired, history, theft>>

-----------------------------------------------------------------------------
(* signIn.  The button is disabled while it runs.                          *)
SignIn(f) ==
    /\ phase[f] = "idle"
    /\ state[home[f]] = "signed-out"
    /\ \A g \in Of(home[f]) : phase[g] \notin {"loggingIn", "loggedIn"}
    /\ Wait(f, "loggingIn", None)
    /\ UNCHANGED <<server, expired, stored, memory, refreshing, history, theft>>

ServerLogin(f) ==
    /\ phase[f] = "loggingIn"
    /\ \E new \in Token :
          /\ status[new] = "unissued"
          /\ status' = [status EXCEPT ![new] = "live"]
          /\ line' = [line EXCEPT ![new] = new]
          /\ Wait(f, "loggedIn", new)
    /\ UNCHANGED <<expired, stored, memory, refreshing, history, theft>>

(* It is refused, or its answer is lost, or cut off so that adopt throws.  *)
SignInFailed(f) ==
    /\ phase[f] \in {"loggingIn", "loggedIn"}
    /\ Done(f)
    /\ UNCHANGED <<server, expired, stored, memory, refreshing, history, theft>>

SignedIn(f) ==
    /\ phase[f] = "loggedIn"
    /\ Adopt(home[f], held[f])
    /\ state' = [state EXCEPT ![home[f]] = "signed-in"]
    /\ Done(f)
    /\ UNCHANGED <<server, expired, refreshing, history, theft>>

(* signOut: the server is told, and whatever it answers the page forgets.  *)
SignOut(f) ==
    LET b == home[f] IN
    /\ phase[f] = "idle"
    /\ state[b] = "signed-in"
    /\ token[b] # None
    /\ Wait(f, "loggingOut", token[b])
    /\ UNCHANGED <<server, expired, stored, memory, refreshing, history, theft>>

ServerLogout(f) ==
    /\ phase[f] = "loggingOut"
    /\ status' = IF status[held[f]] = "live" THEN [status EXCEPT ![held[f]] = "revoked"] ELSE status
    /\ Wait(f, "loggedOut", held[f])
    /\ UNCHANGED <<line, expired, stored, memory, refreshing, history, theft>>

SignedOut(f) ==
    /\ phase[f] \in {"loggingOut", "loggedOut"}
    /\ Forget(home[f])
    /\ Done(f)
    /\ UNCHANGED <<server, expired, refreshing, history, theft>>

-----------------------------------------------------------------------------
(* Fifteen minutes pass; of a token that no page and no call works with,   *)
(* nobody would notice.                                                    *)
Expire(t) ==
    /\ status[t] # "unissued"
    /\ (\E b \in Tab : access[b] = t) \/ (\E f \in Flow : held[f] = t)
    /\ expired' = expired \cup {t}
    /\ UNCHANGED <<server, stored, memory, refreshing, calls, history, theft>>

(* A password reset, from wherever, ends every session.                    *)
EndElsewhere ==
    /\ status' = Ended
    /\ UNCHANGED <<line, expired, stored, memory, refreshing, calls, history, theft>>

-----------------------------------------------------------------------------
User(f) == Load(f) \/ Authorized(f) \/ SignIn(f) \/ SignOut(f)

Flows(f) ==
    \/ CallReturns(f) \/ CallUnauthorized(f) \/ RetryUnauthorized(f)
    \/ ServerLogin(f) \/ SignInFailed(f) \/ SignedIn(f)
    \/ ServerLogout(f) \/ SignedOut(f)

Rotates(b) ==
    \/ ServerRefresh(b) \/ ServerBusy(b) \/ RefreshLost(b)
    \/ Refreshed(b) \/ RefreshUnreadable(b) \/ RefreshFailed(b) \/ RefreshBusy(b)

Next ==
    \/ \E f \in Flow : User(f) \/ Flows(f)
    \/ \E b \in Tab : Rotates(b)
    \/ \E t \in Token : ServerRefreshOrphan(t) \/ Expire(t)
    \/ EndElsewhere

Spec == Init /\ [][Next]_vars

(* Every request is answered or reported as failed by the browser, and the *)
(* page runs what the answer resumes.  Nothing is asked of the user, of    *)
(* expiry or of the orphans.                                               *)
FairSpec ==
    /\ Spec
    /\ \A f \in Flow : WF_vars(Flows(f))
    /\ \A b \in Tab : WF_vars(Rotates(b))

-----------------------------------------------------------------------------
TypeOK ==
    /\ status \in [Token -> Status]
    /\ line \in [Token -> Token \cup {None}]
    /\ expired \subseteq Token
    /\ stored \in Token \cup {None}
    /\ token \in [Tab -> Token \cup {None}]
    /\ access \in [Tab -> Token \cup {None}]
    /\ state \in [Tab -> State]
    /\ rotation \in [Tab -> Rotation]
    /\ presented \in [Tab -> Token \cup {None}]
    /\ fresh \in [Tab -> Token \cup {None}]
    /\ attempt \in [Tab -> 0..Retries]
    /\ phase \in [Flow -> Phase]
    /\ held \in [Flow -> Token \cup {None}]
    /\ loads \in 0..MaxLoads /\ orphans \subseteq Token
    /\ interrupted \in BOOLEAN /\ cutOff \in BOOLEAN /\ theft \in BOOLEAN

(* Pages of this browser that have been opened, and whether only one has.  *)
Opened(b) == state[b] # "closed"
OnePage == \A b, c \in Tab : Opened(b) /\ Opened(c) => b = c

(* The server takes a refresh for theft only if a page was left while it   *)
(* was refreshing, a second page was opened, or an answer to a refresh     *)
(* could not be read: no request or answer that is lost, no retry, no      *)
(* sign-out or sign-in in between makes a page present a spent token.      *)
ReuseNeedsInterruption == theft => interrupted \/ cutOff \/ ~ OnePage

Issued(t) == t \in Token /\ status[t] # "unissued"
IssuedOrNone(t) == t = None \/ Issued(t)

(* The server has issued every token that anybody has; one that was issued *)
(* descends from a login that was, and one token of a login is live.       *)
TokensWereIssued ==
    /\ IssuedOrNone(stored) /\ \A t \in expired \cup orphans : Issued(t)
    /\ \A b \in Tab : \A t \in {token[b], access[b], presented[b], fresh[b]} : IssuedOrNone(t)
    /\ \A f \in Flow : IssuedOrNone(held[f])

ServerHolds ==
    /\ \A t \in Token : IF Issued(t) THEN Issued(line[t]) ELSE line[t] = None
    /\ \A s, t \in Token : status[s] = "live" /\ status[t] = "live" /\ line[s] = line[t] => s = t

(* A page: a closed one does nothing; one that is signed in has the tokens *)
(* to work with; one that is restoring has a call that will decide what    *)
(* becomes of it, unless an answer was cut off; and a rotation presents a  *)
(* token, and has one if it is ok.                                         *)
PageHolds(b) ==
    /\ ~ Opened(b) => token[b] = None /\ rotation[b] = "none" /\ \A f \in Of(b) : phase[f] = "idle"
    /\ state[b] = "signed-in" => token[b] # None /\ access[b] # None
    /\ state[b] = "restoring" => cutOff \/ \E f \in Of(b) : phase[f] = "restoring"
    /\ rotation[b] = "none" <=> presented[b] = None
    /\ rotation[b] = "ok" <=> fresh[b] # None

(* A call: one that awaits a rotation awaits one that is under way, and    *)
(* one that was answered has what it was answered.                         *)
FlowHolds(f) ==
    /\ phase[f] \in {"restoring", "refreshing"} => rotation[home[f]] # "none"
    /\ phase[f] \in {"calling", "retrying", "loggedIn", "loggingOut", "loggedOut"} => held[f] # None

(* While one page is open, what it has in memory is what is stored, so     *)
(* that a reload goes on where the page was.                               *)
MemoryIsStored ==
    /\ OnePage => \A b \in Tab : Opened(b) => token[b] = stored
    /\ (\A b \in Tab : ~ Opened(b)) => stored = None

(* What keeps a page that was not interrupted from presenting a spent      *)
(* token: a token is spent only while a rotation that presents it is under *)
(* way, and what comes of that replaces it in memory.  What a sign-in was  *)
(* answered is nobody else's.                                              *)
Unspent(t) == t = None \/ status[t] # "replaced"

NothingSpent ==
    /\ orphans = {} /\ ~ theft
    /\ \A b \in Tab :
          /\ rotation[b] \notin {"ok", "failed"} => Unspent(token[b])
          /\ rotation[b] \in {"sent", "busy"} => Unspent(presented[b])
          /\ Unspent(fresh[b])
    /\ \A f \in Flow : phase[f] = "loggedIn" =>
          /\ Unspent(held[f])
          /\ held[f] \notin {token[home[f]], presented[home[f]], fresh[home[f]]}
          /\ \A g \in Flow : phase[g] = "loggedIn" /\ held[g] = held[f] => g = f

(* The pages, their calls, the storage and the server agree, and no page   *)
(* is about to present a spent token, unless it was interrupted, an answer *)
(* was cut off, or another page has presented it.                          *)
PageInv ==
    /\ TypeOK /\ TokensWereIssued /\ ServerHolds /\ MemoryIsStored
    /\ \A b \in Tab : PageHolds(b)
    /\ \A f \in Flow : FlowHolds(f)
    /\ ~ interrupted /\ ~ cutOff /\ OnePage => NothingSpent

(* The server the client was modelled against is one that the session      *)
(* table promises.                                                         *)
LiveInLine == [l \in Token |-> {t \in Token : status[t] = "live" /\ line[t] = l}]
Handed == {t \in Token : Issued(t)}

Line == INSTANCE SessionLine WITH current <- LiveInLine, spent <- Handed

ImplementsSessionLine == Line!Spec

(* Every call of the manager ends, in a result or an exception, whatever   *)
(* the network and the server answer: with PageHolds, a page stays on the  *)
(* loading screen only if an answer to a refresh was cut off.              *)
CallsReturn == \A f \in Flow : phase[f] # "idle" ~> phase[f] = "idle"

-----------------------------------------------------------------------------
(* What the comments say, and the code does not do.                        *)

(* "Local sign-out is unconditional": a page that has signed out leaves no *)
(* session behind in the browser.  A rotation that was in flight while the *)
(* user signed out adopts and stores its tokens afterwards.                *)
SignOutIsFinal == \A b \in Tab : state[b] = "signed-out" => token[b] = None

(* "A token must never be sent twice": with two pages on one localStorage, *)
(* each rotates the token it has in memory, which the other has spent.     *)
(* With one page, so does an answer that was cut off, after which the page *)
(* goes on with the token it presented: not "every other failure is        *)
(* terminal".  (A page left while it refreshes is the window the comments  *)
(* concede.)                                                               *)
NeverSentTwice == ~ interrupted => ~ theft

(* "Nothing routable renders while the stored token is being rotated": nor *)
(* does it after an answer that was cut off.                               *)
LoadingEnds == \A b \in Tab : state[b] = "restoring" ~> state[b] # "restoring"

=============================================================================
