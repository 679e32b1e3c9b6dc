------------------------------ MODULE Sessions ------------------------------
(***************************************************************************)
(* The refresh-token sessions of the API: the sessions table, and the      *)
(* requests that open, rotate, revoke and prune its rows concurrently.     *)
(*                                                                         *)
(* A session stands for its refresh token (the token's hash is a unique    *)
(* column).  One function per column of the table; rows holds the ids of   *)
(* the committed rows.  A request is one connection's work.  Transactions  *)
(* run at READ COMMITTED: a statement sees what was committed when it      *)
(* started, a row lock is held until the transaction ends, and a statement *)
(* that waited for a row looks at the row again before it changes it.  A   *)
(* transaction's own writes are invisible to the others until it commits,  *)
(* so they are applied by the action that commits it.                      *)
(***************************************************************************)
EXTENDS Integers

CONSTANTS
    User,        \* accounts
    Sid,         \* session ids: the bound on the sessions ever opened
    Request,     \* requests that can be in flight at once
    None,        \* SQL NULL
    TTL,         \* REFRESH_TOKEN_TTL_MS, in ticks
    Retention,   \* REVOKED_RETENTION_MS, in ticks
    MaxClock,    \* bound on the clock
    MaxPassword  \* bound on the password changes of a user

ASSUME NoneAssumption == None \notin Sid \cup Request \cup User \cup Int
ASSUME TimeAssumption == TTL \in Nat \ {0} /\ Retention \in Nat /\ MaxClock \in Nat
ASSUME BoundAssumption == MaxPassword \in Nat

VARIABLES
    rows,        \* the sessions table: ids of the committed rows
    owner,       \* user_id
    expiresAt,   \* expires_at
    revokedAt,   \* revoked_at, or None
    replacedBy,  \* replaced_by, or None
    lock,        \* the request whose transaction holds the row's lock, or None
    password,    \* users.password_hash, as a version number
    phase,       \* where each request is in its handler
    session,     \* the session it was asked about, or None
    user,        \* the account it acts for, once known, or None
    start,       \* its transaction's now()
    proved,      \* the password a login has proved
    todo,        \* revoke-all UPDATE: the rows it has still to visit ...
    found,       \* ... of the rows its snapshot found
    clock,
    line,        \* history: the login a session descends from; None if not yet issued
    provenBy     \* history: the password that login proved

columns == <<rows, owner, expiresAt, revokedAt, replacedBy>>
history == <<line, provenBy>>
work == <<session, user, start, proved, todo, found>>
vars == <<columns, lock, password, phase, work, clock, history>>

Phase == {"idle", "authenticated", "waiting", "rotating", "reused", "refused",
          "resetting", "revoking", "loggingOut", "pruneExpired", "pruneRevoked"}

Init ==
    /\ rows = {}
    /\ owner = [s \in Sid |-> None]
    /\ expiresAt = [s \in Sid |-> 0]
    /\ revokedAt = [s \in Sid |-> None]
    /\ replacedBy = [s \in Sid |-> None]
    /\ lock = [s \in Sid |-> None]
    /\ password = [u \in User |-> 0]
    /\ phase = [p \in Request |-> "idle"]
    /\ session = [p \in Request |-> None]
    /\ user = [p \in Request |-> None]
    /\ start = [p \in Request |-> 0]
    /\ proved = [p \in Request |-> 0]
    /\ todo = [p \in Request |-> {}]
    /\ found = [p \in Request |-> {}]
    /\ clock = 0
    /\ line = [s \in Sid |-> None]
    /\ provenBy = [s \in Sid |-> 0]

-----------------------------------------------------------------------------
Issued == {s \in Sid : line[s] # None}
Live(s) == s \in rows /\ revokedAt[s] = None
Usable(s) == Live(s) /\ expiresAt[s] > clock
LiveOf(u) == {s \in Sid : Live(s) /\ owner[s] = u}

(* A request arrives, moves on, and is done with.                          *)
Start(p, ph, s, u, v) ==
    /\ phase[p] = "idle"
    /\ phase' = [phase EXCEPT ![p] = ph]
    /\ session' = [session EXCEPT ![p] = s]
    /\ user' = [user EXCEPT ![p] = u]
    /\ start' = [start EXCEPT ![p] = clock]
    /\ proved' = [proved EXCEPT ![p] = v]
    /\ UNCHANGED <<todo, found>>

Goto(p, ph) == phase' = [phase EXCEPT ![p] = ph] /\ UNCHANGED work

Finish(p) ==
    /\ phase' = [phase EXCEPT ![p] = "idle"]
    /\ session' = [session EXCEPT ![p] = None]
    /\ user' = [user EXCEPT ![p] = None]
    /\ start' = [start EXCEPT ![p] = 0]
    /\ proved' = [proved EXCEPT ![p] = 0]
    /\ todo' = [todo EXCEPT ![p] = {}]
    /\ found' = [found EXCEPT ![p] = {}]

(* Mutant: a transaction that is never ended keeps its locks.              *)
ReleasedNever(p) == lock
Released(p) == [s \in Sid |-> IF lock[s] = p THEN None ELSE lock[s]]
(* Mutant: reads and changes a row without waiting for its lock.           *)
UnlockedAlways(s) == TRUE
Unlocked(s) == s \notin rows \/ lock[s] = None

(* INSERT INTO sessions, by a request that is done with it.                *)
CreateSession(n, u, l, v) ==
    /\ line[n] = None
    /\ rows' = rows \cup {n}
    /\ owner' = [owner EXCEPT ![n] = u]
    /\ expiresAt' = [expiresAt EXCEPT ![n] = clock + TTL]
    /\ line' = [line EXCEPT ![n] = l]
    /\ provenBy' = [provenBy EXCEPT ![n] = v]

(* DELETE FROM sessions, with replaced_by's ON DELETE SET NULL.  It waits  *)
(* for the locks on the rows it deletes and on the rows that name them.    *)
DeleteSessions(gone) ==
    /\ \A s \in rows : s \in gone \/ replacedBy[s] \in gone => lock[s] = None
    /\ rows' = rows \ gone
    /\ owner' = [s \in Sid |-> IF s \in gone THEN None ELSE owner[s]]
    /\ expiresAt' = [s \in Sid |-> IF s \in gone THEN 0 ELSE expiresAt[s]]
    /\ revokedAt' = [s \in Sid |-> IF s \in gone THEN None ELSE revokedAt[s]]
    /\ replacedBy' = [s \in Sid |-> IF s \in gone \/ replacedBy[s] \in gone
                                    THEN None ELSE replacedBy[s]]
    /\ UNCHANGED <<lock, password, clock, history>>

-----------------------------------------------------------------------------
(* POST /auth/login.  The user row is read and the password checked        *)
(* against it; the session is inserted later, by a statement of its own.   *)
StartLogin(p, u) ==
    /\ Start(p, "authenticated", None, u, password[u])
    /\ UNCHANGED <<columns, lock, password, clock, history>>

FinishLogin(p, n) ==
    /\ phase[p] = "authenticated"
    /\ CreateSession(n, user[p], n, proved[p])
    /\ Finish(p)
    /\ UNCHANGED <<revokedAt, replacedBy, lock, password, clock>>

(* POST /auth/refresh begins a transaction and asks for the row's lock.    *)
StartRefresh(p, s) ==
    /\ s \in Issued
    /\ Start(p, "waiting", s, None, 0)
    /\ UNCHANGED <<columns, lock, password, clock, history>>

(* Mutant: a token that has expired still rotates.                         *)
VerdictForgetsExpired(s) ==
    IF replacedBy[s] # None THEN "reused"
    ELSE IF ~ Live(s) THEN "refused"
    ELSE "rotating"

(* What the handler decides from the row it has just read and locked.      *)
Verdict(s) ==
    IF replacedBy[s] # None THEN "reused"
    ELSE IF ~ Usable(s) THEN "refused"
    ELSE "rotating"

(* SELECT ... FOR UPDATE: waits for the lock, then reads the row.          *)
LockPresented(p) ==
    LET s == session[p] IN
    /\ phase[p] = "waiting"
    /\ Unlocked(s)
    /\ IF s \in rows
         THEN /\ lock' = [lock EXCEPT ![s] = p]
              /\ Goto(p, Verdict(s))
         ELSE Goto(p, "refused") /\ UNCHANGED lock
    /\ UNCHANGED <<columns, password, clock, history>>

(* The 401 for a token that is unknown, revoked or expired.                *)
Refuse(p) ==
    /\ phase[p] = "refused"
    /\ lock' = Released(p)
    /\ Finish(p)
    /\ UNCHANGED <<columns, password, clock, history>>

(* createSession, markReplaced and COMMIT: the new session inherits the    *)
(* line; now() is the transaction's start.                                 *)
Rotate(p, n) ==
    LET s == session[p] IN
    /\ phase[p] = "rotating"
    /\ CreateSession(n, owner[s], line[s], provenBy[s])
    /\ revokedAt' = [revokedAt EXCEPT ![s] = start[p]]
    /\ replacedBy' = [replacedBy EXCEPT ![s] = n]
    /\ lock' = Released(p)
    /\ Finish(p)
    /\ UNCHANGED <<password, clock>>

-----------------------------------------------------------------------------
(* redeemPasswordReset begins: the reset token is claimed (AccountLinks    *)
(* models the claim) and the users row is updated.                         *)
StartReset(p, u) ==
    /\ password[u] < MaxPassword
    /\ Start(p, "resetting", None, u, 0)
    /\ UNCHANGED <<columns, lock, password, clock, history>>

IsReset(p) == session[p] = None

(* revokeAllSessionsForUser starts: its UPDATE finds the user's live rows. *)
(* Two resets of one user queue on the users row before they get here.     *)
SnapshotSessions(p) ==
    LET u == IF IsReset(p) THEN user[p] ELSE owner[session[p]]
    IN  /\ phase[p] \in {"reused", "resetting"}
        /\ IsReset(p) =>
             \A q \in Request : ~ (/\ IsReset(q)
                                   /\ phase[q] = "revoking"
                                   /\ user[q] = u)
        /\ phase' = [phase EXCEPT ![p] = "revoking"]
        /\ user' = [user EXCEPT ![p] = u]
        /\ todo' = [todo EXCEPT ![p] = LiveOf(u)]
        /\ found' = [found EXCEPT ![p] = LiveOf(u)]
        /\ UNCHANGED <<session, start, proved, columns, lock, password, clock, history>>

(* Mutant: SKIP LOCKED, rows in use by others are passed over.             *)
VisitSkipLocked(p, s) ==
    /\ phase[p] = "revoking"
    /\ s \in todo[p]
    /\ lock' = IF Live(s) /\ lock[s] = None THEN [lock EXCEPT ![s] = p] ELSE lock
    /\ todo' = [todo EXCEPT ![p] = @ \ {s}]
    /\ UNCHANGED <<phase, session, user, start, proved, found, columns, password, clock, history>>

(* The UPDATE reaches a row: it waits for the row's lock, looks at the row *)
(* again, and skips it when it is no longer a live session.                *)
VisitSession(p, s) ==
    /\ phase[p] = "revoking"
    /\ s \in todo[p]
    /\ Unlocked(s)
    /\ lock' = IF Live(s) THEN [lock EXCEPT ![s] = p] ELSE lock
    /\ todo' = [todo EXCEPT ![p] = @ \ {s}]
    /\ UNCHANGED <<phase, session, user, start, proved, found, columns, password, clock, history>>

(* COMMIT of a reuse cascade (answer 401) or of a password reset (200).    *)
CommitRevocation(p) ==
    /\ phase[p] = "revoking"
    /\ todo[p] = {}
    /\ revokedAt' = [s \in Sid |-> IF lock[s] = p /\ revokedAt[s] = None
                                   THEN start[p] ELSE revokedAt[s]]
    /\ password' = IF IsReset(p)
                   THEN [password EXCEPT ![user[p]] = @ + 1] ELSE password
    /\ lock' = Released(p)
    /\ Finish(p)
    /\ UNCHANGED <<rows, owner, expiresAt, replacedBy, clock, history>>

-----------------------------------------------------------------------------
(* The rows a transaction is waiting for, and the requests that hold them. *)
Wanted(p) == CASE phase[p] = "waiting"  -> {session[p]}
               [] phase[p] = "revoking" -> todo[p]
               [] OTHER                     -> {}

Blocked(p) == Wanted(p) # {} /\ \A s \in Wanted(p) : ~ Unlocked(s)

Deadlocked(p) ==
    \E ring \in SUBSET Request :
        /\ p \in ring
        /\ \A q \in ring : Blocked(q) /\ \A s \in Wanted(q) : lock[s] \in ring

Rollback(p) ==
    /\ lock' = Released(p)
    /\ Finish(p)
    /\ UNCHANGED <<columns, password, clock, history>>

(* lock_timeout, set by refresh only: the 503 of a rotation in flight.     *)
LockTimeout(p) == ~ IsReset(p) /\ Blocked(p) /\ Rollback(p)

(* PostgreSQL ends one transaction of a circle of waiting ones.            *)
DeadlockAbort(p) == Deadlocked(p) /\ Rollback(p)

(* The connection, the database or the API process dies in mid-request.    *)
Crash(p) == phase[p] # "idle" /\ Rollback(p)

(* BOUND: with every id of Sid issued, an INSERT fails.                    *)
OutOfIds(p) ==
    phase[p] \in {"authenticated", "rotating"} /\ Issued = Sid /\ Rollback(p)

-----------------------------------------------------------------------------
(* POST /auth/logout: findSessionByToken, without a lock ...               *)
StartLogout(p, s) ==
    /\ s \in rows
    /\ Start(p, "loggingOut", s, None, 0)
    /\ UNCHANGED <<columns, lock, password, clock, history>>

(* Mutant: the UPDATE lacks its revoked_at IS NULL.                        *)
RevokeSessionAgain(p) ==
    LET s == session[p] IN
    /\ phase[p] = "loggingOut"
    /\ Unlocked(s)
    /\ \E now \in start[p]..clock :
          revokedAt' = IF s \in rows THEN [revokedAt EXCEPT ![s] = now] ELSE revokedAt
    /\ Finish(p)
    /\ UNCHANGED <<rows, owner, expiresAt, replacedBy, lock, password, clock, history>>

(* ... then revokeSession, a statement of its own: it waits for the row's  *)
(* lock and changes the row only if it is still not revoked.  Its now() is *)
(* a time since the look-up.                                               *)
RevokeSession(p) ==
    LET s == session[p] IN
    /\ phase[p] = "loggingOut"
    /\ Unlocked(s)
    /\ \E now \in start[p]..clock :
          revokedAt' = IF Live(s) THEN [revokedAt EXCEPT ![s] = now] ELSE revokedAt
    /\ Finish(p)
    /\ UNCHANGED <<rows, owner, expiresAt, replacedBy, lock, password, clock, history>>

(* pruneSessions: two DELETE statements with one now.                      *)
StartPrune(p) ==
    /\ Start(p, "pruneExpired", None, None, 0)
    /\ UNCHANGED <<columns, lock, password, clock, history>>

PruneExpired(p) ==
    /\ phase[p] = "pruneExpired"
    /\ DeleteSessions({s \in rows : expiresAt[s] < start[p]})
    /\ Goto(p, "pruneRevoked")

(* Mutant: the retention window the wrong way round.                       *)
RecentlyRevoked(now) == {s \in rows : revokedAt[s] # None /\ revokedAt[s] >= now - Retention}
LongRevoked(now) == {s \in rows : revokedAt[s] # None /\ revokedAt[s] < now - Retention}

PruneRevoked(p) ==
    /\ phase[p] = "pruneRevoked"
    /\ DeleteSessions(LongRevoked(start[p]))
    /\ Finish(p)

Tick ==
    /\ clock < MaxClock
    /\ clock' = clock + 1
    /\ UNCHANGED <<columns, lock, password, phase, work, history>>

-----------------------------------------------------------------------------
(* What a request in flight does next, failures apart.                     *)
Proceed(p) ==
    \/ \E n \in Sid : FinishLogin(p, n) \/ Rotate(p, n)
    \/ LockPresented(p) \/ Refuse(p)
    \/ SnapshotSessions(p) \/ CommitRevocation(p)
    \/ \E s \in Sid : VisitSession(p, s)
    \/ RevokeSession(p)
    \/ PruneExpired(p) \/ PruneRevoked(p)

Arrive(p) ==
    \/ \E u \in User : StartLogin(p, u) \/ StartReset(p, u)
    \/ \E s \in Sid : StartRefresh(p, s) \/ StartLogout(p, s)
    \/ StartPrune(p)

Stop(p) == LockTimeout(p) \/ DeadlockAbort(p) \/ OutOfIds(p)

Next == Tick \/ \E p \in Request : Arrive(p) \/ Proceed(p) \/ Stop(p) \/ Crash(p)

Spec == Init /\ [][Next]_vars

(* Handlers run on, timers fire and the deadlock detector runs.  The lock  *)
(* queue of a row is served in order, so a request that finds the row free *)
(* again and again gets it: strong fairness.  Nothing is asked of Crash,   *)
(* of the clients or of the clock.                                         *)
FairSpec == Spec /\ \A p \in Request : SF_vars(Proceed(p)) /\ WF_vars(Stop(p))

-----------------------------------------------------------------------------
TypeOK ==
    /\ rows \subseteq Sid
    /\ owner \in [Sid -> User \cup {None}]
    /\ expiresAt \in [Sid -> Nat]
    /\ revokedAt \in [Sid -> Nat \cup {None}]
    /\ replacedBy \in [Sid -> Sid \cup {None}]
    /\ lock \in [Sid -> Request \cup {None}]
    /\ password \in [User -> Nat]
    /\ phase \in [Request -> Phase]
    /\ session \in [Request -> Sid \cup {None}]
    /\ user \in [Request -> User \cup {None}]
    /\ start \in [Request -> Nat]
    /\ proved \in [Request -> Nat]
    /\ todo \in [Request -> SUBSET Sid]
    /\ found \in [Request -> SUBSET Sid]
    /\ \A p \in Request : phase[p] \in {"waiting", "rotating", "loggingOut"} =>
                            session[p] \in Sid
    /\ clock \in Nat
    /\ line \in [Sid -> Sid \cup {None}]
    /\ provenBy \in [Sid -> Nat]

(* While a login has a live session, every other retained session that     *)
(* descends from it names a replacement: presenting its token is seen as   *)
(* reuse, never taken for a plain dead token, whatever rotations, logouts, *)
(* resets and prunes ran at the same time.  With it goes that a login never *)
(* has two live sessions, since a live one names no replacement.           *)
ReplayIsDetected ==
    \A s, t \in rows :
        Live(t) /\ line[s] = line[t] /\ s # t => replacedBy[s] # None /\ ~ Live(s)

(* Why ReplayIsDetected holds, as an inductive invariant.                  *)

(* A locked row is a row, and the transaction that holds it is one that    *)
(* keeps it as it found it: the row of a rotation is live until it ends.   *)
LocksHold ==
    /\ \A s \in Sid : lock[s] # None =>
          s \in rows /\ phase[lock[s]] \in {"rotating", "reused", "refused", "revoking"}
    /\ \A p \in Request : phase[p] = "rotating" => lock[session[p]] = p /\ Live(session[p])

(* Rows and requests are about sessions that were issued, and times that   *)
(* have been; a line is named by a session that was issued.                *)
PastIsPast ==
    /\ rows \subseteq Issued
    /\ \A s \in Issued : line[s] \in Issued
    /\ \A p \in Request : session[p] # None => session[p] \in Issued
    /\ \A p \in Request : start[p] <= clock
    /\ \A s \in Sid : expiresAt[s] <= clock + TTL
    /\ \A s \in Sid : revokedAt[s] # None => s \in rows /\ revokedAt[s] <= clock

(* A replacement is in the table, in the same line, and expires no earlier *)
(* than what it replaced: prune never takes it first for being expired.    *)
LinksHold ==
    \A s \in Sid : replacedBy[s] # None =>
        /\ s \in rows /\ revokedAt[s] # None
        /\ replacedBy[s] \in rows
        /\ line[replacedBy[s]] = line[s]
        /\ expiresAt[s] <= expiresAt[replacedBy[s]]

(* Replacements are revoked in the order of their line, so prune never     *)
(* takes one for being long revoked and keeps what it replaced.  The time  *)
(* written is the start of a transaction, which may lie before a wait.     *)
RevokedInOrder ==
    \A s \in Sid : replacedBy[s] # None =>
        /\ replacedBy[replacedBy[s]] # None => revokedAt[s] <= revokedAt[replacedBy[s]]
        /\ \A p \in Request : session[p] = replacedBy[s] => revokedAt[s] <= start[p]

ReplayInv ==
    TypeOK /\ LocksHold /\ PastIsPast /\ LinksHold /\ RevokedInOrder /\ ReplayIsDetected

(* A revocation is written once: no later statement clears it or moves it  *)
(* to another time (revoked_at is what prune's retention counts from).     *)
RevocationIsFinal ==
    [][\A s \in rows \cap rows' : revokedAt[s] # None => revokedAt'[s] = revokedAt[s]]_vars

(* A transaction that revokes all sessions of a user leaves none of the    *)
(* sessions it found alive: a row another transaction held in between is   *)
(* revoked, replaced or gone.                                              *)
SnapshotIsRevoked ==
    [][\A p \in Request :
         CommitRevocation(p) => \A s \in found[p] : ~ Live(s)']_vars

(* Why it holds: a row the UPDATE found is still to be visited, or dead    *)
(* already, or locked by the transaction until its COMMIT.                 *)
FoundIsAccountedFor ==
    \A p \in Request : phase[p] = "revoking" =>
        \A s \in found[p] : s \in Issued /\ (s \in todo[p] \/ ~ Live(s) \/ lock[s] = p)

(* The table keeps the promise of SessionLine: whatever the interleaving,  *)
(* a login has at most one current token, rotation moves it to a fresh     *)
(* one, and a login that was ended by logout, reuse, reset, prune or the   *)
(* expiry of its token never has a current token again.  A rotation that   *)
(* found its session usable goes on with it: the session stays current     *)
(* until that transaction ends, though it may expire before.               *)
Current(s) == Usable(s) \/ (Live(s) /\ \E p \in Request : phase[p] = "rotating" /\ session[p] = s)
LiveInLine == [l \in Sid |-> {s \in Sid : Current(s) /\ line[s] = l}]
Abstract == INSTANCE SessionLine WITH
                Token <- Sid, current <- LiveInLine, spent <- Issued
ImplementsSessionLine == Abstract!Spec

(* Every request is answered: none waits for ever behind the locks of the  *)
(* others, although logout, reset and prune set no lock timeout.           *)
RequestsAreAnswered ==
    \A p \in Request : phase[p] # "idle" ~> phase[p] = "idle"

-----------------------------------------------------------------------------
(* What the documentation says, and the code does not do.                  *)

(* "Presenting a token that was already rotated ... revokes every session  *)
(* for the user" (routes/auth.ts): once reuse has been answered, the line  *)
(* of the replayed token has no live session.  A rotation that holds the   *)
(* live row when the UPDATE takes its snapshot commits a new session that  *)
(* the UPDATE does not see.                                                *)
ReuseEndsTheLine ==
    [][\A p \in Request :
         CommitRevocation(p) /\ ~ IsReset(p) =>
           \A s \in Sid : line[s] = line[session[p]] => ~ Live(s)']_vars

(* "Every refresh token dies with it" (password-reset.ts): no live session *)
(* descends from a login that proved a password since replaced.  A login   *)
(* that checked the old password before the reset committed inserts its    *)
(* session after it.                                                       *)
ResetEndsOldLogins ==
    \A s \in rows : Live(s) => provenBy[s] = password[owner[s]]

=============================================================================
