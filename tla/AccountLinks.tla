---------------------------- MODULE AccountLinks ----------------------------
(***************************************************************************)
(* The links the API mails to an account: verification links, which prove  *)
(* the mailbox and open the login gate, and password reset links.  The two *)
(* tables (email_verification_tokens, password_reset_tokens) have the same *)
(* columns and the same life, so one function per column serves both and   *)
(* kind tells which table a token is in.                                   *)
(*                                                                         *)
(* A request is one handler; each of its steps is one statement or one     *)
(* transaction, and the awaits between them are where others run.  Row     *)
(* locks matter for one statement only, the conditional UPDATE that claims *)
(* a reset token: everything else a lock would order is the same in either *)
(* order.  What a reset does to the sessions is in Sessions.               *)
(***************************************************************************)
EXTENDS Integers

CONSTANTS
    Account,     \* addresses, registered or not
    Token,       \* link tokens: the bound on the links ever issued
    Request,     \* requests that can be in flight at once
    None,        \* SQL NULL
    VerifyTTL,   \* VERIFICATION_TOKEN_TTL_MS, in ticks
    ResetTTL,    \* PASSWORD_RESET_TOKEN_TTL_MS, in ticks
    Throttle,    \* RESEND_THROTTLE_MS = RESET_THROTTLE_MS, in ticks
    MaxClock     \* bound on the clock

Kind == {"verification", "reset"}

ASSUME NoneAssumption == None \notin Account \cup Token \cup Request \cup Kind
ASSUME TimeAssumption ==
    VerifyTTL \in Nat /\ ResetTTL \in Nat /\ Throttle \in Nat /\ MaxClock \in Nat

VARIABLES
    registered,  \* the accounts with a users row
    password,    \* users.password_hash: None, "registration", or the reset token that set it
    verified,    \* users.email_verified
    kind,        \* the table a token is in, or None before it is issued
    holder,      \* user_id
    createdAt,   \* created_at
    expiresAt,   \* expires_at
    consumed,    \* consumed_at IS NOT NULL
    lock,        \* the transaction that has claimed a reset token and not ended
    mailed,      \* the links handed to the mail transport
    phase,       \* where each request is in its handler
    account,     \* the account it is for, or None
    offer,       \* the kind of link it offers, or None
    link,        \* the token it was given or has issued, or None
    start,       \* its transaction's now()
    todo,        \* the tokens its superseding UPDATE found
    clock,
    uses         \* history: how often a token was redeemed

table == <<kind, holder, createdAt, expiresAt>>
users == <<registered, password, verified>>
work == <<account, offer, link, start, todo>>
vars == <<users, table, consumed, lock, mailed, phase, work, clock, uses>>

Phase == {"idle", "lookUp", "throttle", "issue", "superseding", "mail",
          "alreadyVerified", "consuming", "hashing", "claimed"}

Init ==
    /\ registered = {}
    /\ password = [a \in Account |-> None]
    /\ verified = [a \in Account |-> FALSE]
    /\ kind = [t \in Token |-> None]
    /\ holder = [t \in Token |-> None]
    /\ createdAt = [t \in Token |-> 0]
    /\ expiresAt = [t \in Token |-> 0]
    /\ consumed = [t \in Token |-> FALSE]
    /\ lock = [t \in Token |-> None]
    /\ mailed = {}
    /\ phase = [p \in Request |-> "idle"]
    /\ account = [p \in Request |-> None]
    /\ offer = [p \in Request |-> None]
    /\ link = [p \in Request |-> None]
    /\ start = [p \in Request |-> 0]
    /\ todo = [p \in Request |-> {}]
    /\ clock = 0
    /\ uses = [t \in Token |-> 0]

-----------------------------------------------------------------------------
Issued == {t \in Token : kind[t] # None}
Tokens(k, a) == {t \in Token : kind[t] = k /\ holder[t] = a}
Unconsumed(k, a) == {t \in Tokens(k, a) : ~ consumed[t]}

Goto(p, ph) == phase' = [phase EXCEPT ![p] = ph]

Finish(p) ==
    /\ Goto(p, "idle")
    /\ account' = [account EXCEPT ![p] = None]
    /\ offer' = [offer EXCEPT ![p] = None]
    /\ link' = [link EXCEPT ![p] = None]
    /\ start' = [start EXCEPT ![p] = 0]
    /\ todo' = [todo EXCEPT ![p] = {}]

(* The newest unconsumed token is younger than the throttle window.        *)
IsThrottled(k, a) ==
    \E t \in Unconsumed(k, a) :
        /\ \A s \in Unconsumed(k, a) : createdAt[s] <= createdAt[t]
        /\ clock - createdAt[t] < Throttle

IsRedeemable(t) == ~ consumed[t] /\ expiresAt[t] > clock

(* A statement waits for the row a transaction has changed.                *)
Locked(t) == lock[t] # None

(* A request that brings a mailed link.                                    *)
Present(p, k, t, ph) ==
    /\ phase[p] = "idle"
    /\ t \in mailed
    /\ kind[t] = k
    /\ Goto(p, ph)
    /\ link' = [link EXCEPT ![p] = t]
    /\ UNCHANGED <<account, offer, start, todo>>

-----------------------------------------------------------------------------
(* offerVerification and offerPasswordReset.                               *)
StartOffer(p, k, a) ==
    /\ phase[p] = "idle"
    /\ Goto(p, "lookUp")
    /\ account' = [account EXCEPT ![p] = a]
    /\ offer' = [offer EXCEPT ![p] = k]
    /\ UNCHANGED <<link, start, todo>>

(* Mutant: registering an address again writes the submitted password.     *)
CreateUserAgain(a) ==
    /\ registered' = registered \cup {a}
    /\ password' = [password EXCEPT ![a] = "registration"]
    /\ UNCHANGED verified

(* INSERT INTO users, with the default categories.  An address that is     *)
(* taken is a unique violation: the transaction rolls back.                *)
CreateUser(a) ==
    /\ registered' = registered \cup {a}
    /\ password' = IF a \in registered THEN password
                   ELSE [password EXCEPT ![a] = "registration"]
    /\ UNCHANGED verified

(* POST /auth/register.                                                    *)
Register(p, a) ==
    /\ StartOffer(p, "verification", a)
    /\ CreateUser(a)
    /\ UNCHANGED <<table, consumed, lock, mailed, clock, uses>>

(* POST /auth/resend-verification, and POST /auth/login once it has read   *)
(* an unverified account and proved its password; POST /auth/forgot-       *)
(* password.                                                               *)
Ask(p, k, a) ==
    /\ StartOffer(p, k, a)
    /\ UNCHANGED <<users, table, consumed, lock, mailed, clock, uses>>

LookUp(p) ==
    /\ phase[p] = "lookUp"
    /\ IF account[p] \in registered /\ (offer[p] = "verification" => ~ verified[account[p]])
         THEN Goto(p, "throttle") /\ UNCHANGED work
         ELSE Finish(p)
    /\ UNCHANGED <<users, table, consumed, lock, mailed, clock, uses>>

(* Mutant: nobody asks how long ago the last link was issued.              *)
CheckThrottleNever(p) ==
    /\ phase[p] = "throttle"
    /\ Goto(p, "issue") /\ UNCHANGED work
    /\ UNCHANGED <<users, table, consumed, lock, mailed, clock, uses>>

CheckThrottle(p) ==
    /\ phase[p] = "throttle"
    /\ IF IsThrottled(offer[p], account[p])
         THEN Finish(p)
         ELSE Goto(p, "issue") /\ UNCHANGED work
    /\ UNCHANGED <<users, table, consumed, lock, mailed, clock, uses>>

(* Mutant: the UPDATE runs on the pool, and commits on its own.            *)
SupersedeOutsideTransaction(p) ==
    LET found == Unconsumed(offer[p], account[p]) IN
    /\ phase[p] = "issue"
    /\ Goto(p, "superseding")
    /\ start' = [start EXCEPT ![p] = clock]
    /\ todo' = [todo EXCEPT ![p] = found]
    /\ consumed' = [t \in Token |-> consumed[t] \/ t \in found]
    /\ UNCHANGED <<users, account, offer, link, table, lock, mailed, clock, uses>>

(* BEGIN, and the UPDATE that supersedes the unconsumed tokens takes its   *)
(* snapshot.                                                               *)
Supersede(p) ==
    /\ phase[p] = "issue"
    /\ Goto(p, "superseding")
    /\ start' = [start EXCEPT ![p] = clock]
    /\ todo' = [todo EXCEPT ![p] = Unconsumed(offer[p], account[p])]
    /\ UNCHANGED <<users, account, offer, link, table, consumed, lock, mailed, clock, uses>>

TTL(k) == IF k = "reset" THEN ResetTTL ELSE VerifyTTL

(* The UPDATE has waited for the rows of its snapshot, the token is        *)
(* inserted, COMMIT.                                                       *)
IssueToken(p, t) ==
    /\ phase[p] = "superseding"
    /\ t \notin Issued
    /\ \A s \in todo[p] : ~ Locked(s)
    /\ consumed' = [s \in Token |-> consumed[s] \/ s \in todo[p]]
    /\ kind' = [kind EXCEPT ![t] = offer[p]]
    /\ holder' = [holder EXCEPT ![t] = account[p]]
    /\ createdAt' = [createdAt EXCEPT ![t] = start[p]]
    /\ expiresAt' = [expiresAt EXCEPT ![t] = start[p] + TTL(offer[p])]
    /\ Goto(p, "mail")
    /\ link' = [link EXCEPT ![p] = t]
    /\ UNCHANGED <<users, account, offer, start, todo, lock, mailed, clock, uses>>

(* The mail is handed to the event loop; the answer does not wait for it.  *)
Dispatch(p) ==
    /\ phase[p] = "mail"
    /\ mailed' = mailed \cup {link[p]}
    /\ Finish(p)
    /\ UNCHANGED <<users, table, consumed, lock, clock, uses>>

(* BOUND: with every token issued, the INSERT fails; nothing is superseded.*)
OutOfTokens(p) ==
    /\ phase[p] = "superseding"
    /\ Issued = Token
    /\ Finish(p)
    /\ UNCHANGED <<users, table, consumed, lock, mailed, clock, uses>>

-----------------------------------------------------------------------------
(* GET /auth/verify: the row is read.  A link that is still good goes on   *)
(* to be consumed, a spent one gets the page "already verified"; an        *)
(* expired one gets an error page and changes nothing.                     *)
OpenLink(p, t) ==
    /\ Present(p, "verification", t, IF consumed[t] THEN "alreadyVerified" ELSE "consuming")
    /\ consumed[t] \/ IsRedeemable(t)
    /\ UNCHANGED <<users, table, consumed, lock, mailed, clock, uses>>

ShowAlreadyVerified(p) ==
    /\ phase[p] = "alreadyVerified"
    /\ Finish(p)
    /\ UNCHANGED <<users, table, consumed, lock, mailed, clock, uses>>

(* The two UPDATEs and COMMIT; neither asks what has happened since.       *)
ConsumeLink(p) ==
    LET t == link[p] IN
    /\ phase[p] = "consuming"
    /\ consumed' = [consumed EXCEPT ![t] = TRUE]
    /\ verified' = [verified EXCEPT ![holder[t]] = TRUE]
    /\ uses' = [uses EXCEPT ![t] = @ + 1]
    /\ Finish(p)
    /\ UNCHANGED <<registered, password, table, lock, mailed, clock>>

-----------------------------------------------------------------------------
(* POST /auth/reset-password: the row is checked, then the new password is *)
(* hashed.  A dead link or a rejected password changes nothing.            *)
SubmitPassword(p, t) ==
    /\ Present(p, "reset", t, "hashing")
    /\ IsRedeemable(t)
    /\ UNCHANGED <<users, table, consumed, lock, mailed, clock, uses>>

(* Mutant: the claiming UPDATE trusts the check made before the hash.      *)
ClaimableUnchecked(t) == expiresAt[t] > clock
Claimable(t) == IsRedeemable(t)

(* The UPDATE that claims the token: it waits for the row, and looks at it *)
(* when it has it.                                                         *)
ClaimToken(p) ==
    LET t == link[p] IN
    /\ phase[p] = "hashing"
    /\ ~ Locked(t)
    /\ IF Claimable(t)
         THEN Goto(p, "claimed") /\ lock' = [lock EXCEPT ![t] = p] /\ UNCHANGED work
         ELSE Finish(p) /\ UNCHANGED lock
    /\ UNCHANGED <<users, table, consumed, mailed, clock, uses>>

(* The new password, and the address that a mailed link has proven.        *)
WriteUser(a, t) ==
    /\ password' = [password EXCEPT ![a] = t]
    /\ verified' = [verified EXCEPT ![a] = TRUE]

(* The users row is written, the sessions are revoked, COMMIT.             *)
CommitReset(p) ==
    LET t == link[p] IN
    /\ phase[p] = "claimed"
    /\ WriteUser(holder[t], t)
    /\ consumed' = [consumed EXCEPT ![t] = TRUE]
    /\ lock' = [lock EXCEPT ![t] = None]
    /\ uses' = [uses EXCEPT ![t] = @ + 1]
    /\ Finish(p)
    /\ UNCHANGED <<registered, table, mailed, clock>>

-----------------------------------------------------------------------------
(* The connection, the database, the mail transport or the API process     *)
(* fails: the open transaction rolls back, a mail not handed over is lost. *)
Crash(p) ==
    /\ phase[p] # "idle"
    /\ lock' = [t \in Token |-> IF lock[t] = p THEN None ELSE lock[t]]
    /\ Finish(p)
    /\ UNCHANGED <<users, table, consumed, mailed, clock, uses>>

Tick ==
    /\ clock < MaxClock
    /\ clock' = clock + 1
    /\ UNCHANGED <<users, table, consumed, lock, mailed, phase, work, uses>>

Arrive(p) ==
    \/ \E a \in Account : Register(p, a) \/ \E k \in Kind : Ask(p, k, a)
    \/ \E t \in Token : OpenLink(p, t) \/ SubmitPassword(p, t)

Proceed(p) ==
    \/ LookUp(p) \/ CheckThrottle(p) \/ Supersede(p) \/ OutOfTokens(p) \/ Dispatch(p)
    \/ \E t \in Token : IssueToken(p, t)
    \/ ShowAlreadyVerified(p) \/ ConsumeLink(p)
    \/ ClaimToken(p) \/ CommitReset(p)

Next == Tick \/ \E p \in Request : Arrive(p) \/ Proceed(p) \/ Crash(p)

Spec == Init /\ [][Next]_vars

-----------------------------------------------------------------------------
TypeOK ==
    /\ registered \subseteq Account
    /\ password \in [Account -> {None, "registration"} \cup Token]
    /\ verified \in [Account -> BOOLEAN]
    /\ kind \in [Token -> Kind \cup {None}]
    /\ holder \in [Token -> Account \cup {None}]
    /\ createdAt \in [Token -> Nat]
    /\ expiresAt \in [Token -> Nat]
    /\ consumed \in [Token -> BOOLEAN]
    /\ lock \in [Token -> Request \cup {None}]
    /\ mailed \subseteq Token
    /\ phase \in [Request -> Phase]
    /\ account \in [Request -> Account \cup {None}]
    /\ offer \in [Request -> Kind \cup {None}]
    /\ link \in [Request -> Token \cup {None}]
    /\ start \in [Request -> Nat]
    /\ todo \in [Request -> SUBSET Token]
    /\ clock \in Nat
    /\ uses \in [Token -> Nat]

(* Of all the submissions of one reset link, however they interleave with  *)
(* each other and with newer links, at most one changes the password.      *)
ResetOnce == \A t \in Token : kind[t] = "reset" => uses[t] <= 1

(* A link is never taken away without another in its place: an account     *)
(* that was ever issued a link of a kind has one that is unconsumed, or    *)
(* one that did its work, whatever failed in between.                      *)
NobodyIsStranded ==
    \A a \in Account, k \in Kind : Tokens(k, a) # {} =>
        \E t \in Tokens(k, a) : ~ consumed[t] \/ uses[t] > 0

(* An account is verified if and only if a link mailed to it was redeemed: *)
(* a verification link, or a reset link, so that a user who never verified *)
(* and then forgot the password is not left behind the login gate.         *)
VerifiedByLink ==
    \A a \in Account :
        verified[a] <=> \E t \in mailed : holder[t] = a /\ uses[t] > 0

(* The password of an account that exists is changed by redeeming a reset  *)
(* link of that account, live until then, and by nothing else; registering *)
(* the address again leaves it alone.                                      *)
PasswordNeedsLink ==
    [][\A a \in registered : password'[a] # password[a] =>
         \E t \in Tokens("reset", a) :
             password'[a] = t /\ ~ consumed[t] /\ consumed'[t] /\ t \in mailed]_vars

(* Why these hold, as an inductive invariant: what each request in flight  *)
(* knows about its link stays true while others run, a claimed row is      *)
(* locked and not consumed until the claim ends, and a link that was       *)
(* redeemed was mailed and is consumed.                                    *)
RequestHolds(p) ==
    /\ phase[p] \in {"lookUp", "throttle", "issue", "superseding"} =>
         account[p] \in Account /\ offer[p] \in Kind
    /\ phase[p] = "superseding" => todo[p] \subseteq Tokens(offer[p], account[p])
    /\ phase[p] = "mail" => link[p] \in Issued
    /\ phase[p] = "consuming" => link[p] \in mailed /\ kind[link[p]] = "verification"
    /\ phase[p] \in {"hashing", "claimed"} => link[p] \in mailed /\ kind[link[p]] = "reset"
    /\ phase[p] = "claimed" => lock[link[p]] = p /\ ~ consumed[link[p]]

RequestsHold == \A p \in Request : RequestHolds(p)

LinksHold ==
    /\ \A t \in Token : lock[t] # None => phase[lock[t]] = "claimed" /\ link[lock[t]] = t
    /\ mailed \subseteq Issued
    /\ \A t \in Issued : holder[t] \in Account
    /\ \A t \in Token : consumed[t] => t \in Issued
    /\ \A t \in Token : uses[t] > 0 => t \in mailed /\ consumed[t]

(* Superseding replaces a link by a newer one: as long as the account is   *)
(* not verified, no verification link was made after the newest one that   *)
(* is not consumed, which is the one the throttle looks at.                *)
NewestIsLive ==
    /\ \A t \in Issued : createdAt[t] <= clock
    /\ \A p \in Request : phase[p] = "superseding" =>
          start[p] <= clock /\ \A s \in todo[p] : createdAt[s] <= start[p]
    /\ \A a \in Account : ~ verified[a] => \A t \in Tokens("verification", a) :
          \E s \in Unconsumed("verification", a) : createdAt[t] <= createdAt[s]

LinkInv ==
    /\ TypeOK /\ RequestsHold /\ LinksHold /\ NewestIsLive
    /\ ResetOnce /\ NobodyIsStranded /\ VerifiedByLink

(* An offer that the throttle lets through finds no verification link      *)
(* mailed to the account within the window, unless the account has been    *)
(* verified meanwhile: superseding a link does not reset the throttle.     *)
ThrottleCountsMails ==
    [][\A p \in Request :
         /\ phase[p] = "throttle" /\ phase'[p] = "issue"
         /\ offer[p] = "verification" /\ ~ verified[account[p]]
         => \A t \in mailed \cap Tokens("verification", account[p]) :
                clock - createdAt[t] >= Throttle]_vars

-----------------------------------------------------------------------------
(* What the documentation says, and the code does not do.                  *)

(* "Only the newest works" (README, both token modules): at most one link  *)
(* of a kind can be redeemed per account.  Two offers that overlap each    *)
(* miss the row the other inserts.                                         *)
OnlyNewestWorks ==
    \A s, t \in Issued :
        /\ kind[s] = kind[t] /\ holder[s] = holder[t]
        /\ IsRedeemable(s) /\ IsRedeemable(t)
        => s = t

(* "At most one reset email per account per minute" (password-reset.ts).   *)
(* The throttle reads unconsumed tokens only: a link redeemed at once does *)
(* not count.                                                              *)
ResetIsThrottled ==
    \A s, t \in mailed :
        s # t /\ kind[s] = "reset" /\ kind[t] = "reset" /\ holder[s] = holder[t] =>
            createdAt[s] - createdAt[t] >= Throttle \/ createdAt[t] - createdAt[s] >= Throttle

(* The page "already verified" says so of the account.  A link superseded  *)
(* by a newer one is consumed too, and gets that page while the account is *)
(* not verified.                                                           *)
AlreadyVerifiedIsTrue ==
    \A p \in Request : phase[p] = "alreadyVerified" => verified[holder[link[p]]]

=============================================================================
