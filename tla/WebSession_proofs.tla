-------------------------- MODULE WebSession_proofs --------------------------
(***************************************************************************)
(* Proofs about WebSession for any number of pages, calls, tokens, retries *)
(* and loads.                                                              *)
(***************************************************************************)
EXTENDS WebSession, TLAPS

(* What the server does with a refresh request.                            *)
LEMMA RefreshesAreServed ==
  ASSUME TypeOK, NEW t \in Token, (\E new \in Token : Rotate(t, new)) \/ Refuse(t)
  PROVE  status' \in [Token -> Status] /\ line' \in [Token -> Token \cup {None}] /\ theft' \in BOOLEAN
<1>1. status' \in [Token -> Status] /\ line' \in [Token -> Token \cup {None}]
  BY DEF TypeOK, Status, Rotate, Refuse, Ended
<1>2. theft \in BOOLEAN
  BY DEF TypeOK
<1>3. theft' \in BOOLEAN
  <2>1. theft' = theft \/ theft' = (theft \/ status[t] = "replaced")
    BY DEF Rotate, Refuse
  <2>2. QED
    BY <1>2, <2>1, Zenon
<1>4. QED
  BY <1>1, <1>3

LEMMA InitPageInv == Init => PageInv
<1> SUFFICES ASSUME Init PROVE PageInv
  OBVIOUS
<1> USE NoneAssumption, HomeAssumption, BoundAssumption DEF Init
<1>1. TypeOK
  <2>1. attempt \in [Tab -> 0..Retries] /\ loads \in 0..MaxLoads
    OBVIOUS
  <2>2. interrupted \in BOOLEAN /\ cutOff \in BOOLEAN /\ theft \in BOOLEAN
    OBVIOUS
  <2>3. status \in [Token -> Status] /\ state \in [Tab -> State] /\ rotation \in [Tab -> Rotation]
        /\ phase \in [Flow -> Phase]
    BY DEF Status, State, Rotation, Phase
  <2>4. QED
    BY <2>1, <2>2, <2>3 DEF TypeOK
<1>2. ServerHolds /\ TokensWereIssued
  BY DEF ServerHolds, TokensWereIssued, Issued, IssuedOrNone
<1>3. MemoryIsStored /\ NothingSpent
  BY DEF MemoryIsStored, NothingSpent, Unspent, Opened
<1>4. \A b \in Tab : PageHolds(b)
  BY DEF PageHolds, Opened, Of
<1>5. \A f \in Flow : FlowHolds(f)
  BY DEF FlowHolds
<1>6. QED
  BY <1>1, <1>2, <1>3, <1>4, <1>5 DEF PageInv

LEMMA TypesStay == PageInv /\ [Next]_vars => TypeOK'
<1> SUFFICES ASSUME PageInv, [Next]_vars PROVE TypeOK'
  OBVIOUS
<1> USE HomeAssumption, BoundAssumption DEF PageInv, TypeOK, Status, State, Rotation, Phase
<1>1. ASSUME NEW f \in Flow, Load(f) PROVE TypeOK'
  <2>1. loads' \in 0..MaxLoads /\ orphans' \subseteq Token /\ UNCHANGED <<server, expired, stored, cutOff, theft>>
    <3>1. presented[home[f]] # None => presented[home[f]] \in Token
      OBVIOUS
    <3>2. rotation[home[f]] = "sent" => presented[home[f]] # None
      BY DEF PageHolds
    <3>3. QED
      BY <1>1, <3>1, <3>2 DEF Load
  <2>6. interrupted' \in BOOLEAN
    <3>1. interrupted \in BOOLEAN
      OBVIOUS
    <3>2. interrupted' = (interrupted \/ rotation[home[f]] # "none")
      BY <1>1 DEF Load
    <3>3. QED
      BY <3>1, <3>2, Zenon
  <2>2. /\ token' \in [Tab -> Token \cup {None}] /\ access' \in [Tab -> Token \cup {None}]
        /\ state' \in [Tab -> State]
    BY <1>1 DEF Load
  <2>3. /\ rotation' \in [Tab -> Rotation] /\ presented' \in [Tab -> Token \cup {None}]
        /\ fresh' \in [Tab -> Token \cup {None}] /\ attempt' \in [Tab -> 0..Retries]
    BY <1>1 DEF Load, Settle, Send
  <2>4. phase' \in [Flow -> Phase] /\ held' \in [Flow -> Token \cup {None}]
    BY <1>1 DEF Load
  <2>5. QED
    BY <2>1, <2>2, <2>3, <2>4, <2>6 DEF server
<1>2. ASSUME NEW f \in Flow, Authorized(f) \/ CallUnauthorized(f) PROVE TypeOK'
  <2>1. UNCHANGED <<server, expired, history, theft>>
    BY <1>2 DEF Authorized, CallUnauthorized
  <2>2. /\ stored' \in Token \cup {None} /\ token' \in [Tab -> Token \cup {None}]
        /\ access' \in [Tab -> Token \cup {None}] /\ state' \in [Tab -> State]
    BY <1>2 DEF Authorized, CallUnauthorized, Refresh, Forget, memory
  <2>3. /\ rotation' \in [Tab -> Rotation] /\ presented' \in [Tab -> Token \cup {None}]
        /\ fresh' \in [Tab -> Token \cup {None}] /\ attempt' \in [Tab -> 0..Retries]
    BY <1>2 DEF Authorized, CallUnauthorized, Refresh, Send, refreshing
  <2>4. phase' \in [Flow -> Phase] /\ held' \in [Flow -> Token \cup {None}]
    BY <1>2 DEF Authorized, CallUnauthorized, Refresh, Wait, Done
  <2>5. QED
    BY <2>1, <2>2, <2>3, <2>4 DEF server, history
<1>3. ASSUME NEW f \in Flow, SignIn(f) \/ SignOut(f) \/ CallReturns(f) \/ SignInFailed(f) PROVE TypeOK'
  <2>1. UNCHANGED <<server, expired, stored, memory, refreshing, history, theft>>
    BY <1>3 DEF SignIn, SignOut, CallReturns, SignInFailed
  <2>2. phase' \in [Flow -> Phase] /\ held' \in [Flow -> Token \cup {None}]
    BY <1>3 DEF SignIn, SignOut, CallReturns, SignInFailed, Wait, Done
  <2>3. QED
    BY <2>1, <2>2 DEF memory, refreshing, server, history
<1>4. ASSUME NEW f \in Flow, RetryUnauthorized(f) \/ SignedOut(f) PROVE TypeOK'
  BY <1>4 DEF RetryUnauthorized, SignedOut, Wait, Done, Forget, memory, refreshing, server, history
<1>5. ASSUME NEW f \in Flow, ServerLogin(f) \/ ServerLogout(f) PROVE TypeOK'
  BY <1>5 DEF ServerLogin, ServerLogout, Wait, memory, refreshing, server, history
<1>6. ASSUME NEW f \in Flow, SignedIn(f) PROVE TypeOK'
  BY <1>6 DEF SignedIn, Adopt, Wait, Done, memory, refreshing, server, history
<1>7. ASSUME NEW b \in Tab, ServerRefresh(b) PROVE TypeOK'
  <2>1. status' \in [Token -> Status] /\ line' \in [Token -> Token \cup {None}] /\ theft' \in BOOLEAN
    <3>1. presented[b] \in Token
      BY <1>7 DEF ServerRefresh, PageHolds
    <3>2. QED
      BY <1>7, <3>1, RefreshesAreServed DEF ServerRefresh
  <2>2. rotation' \in [Tab -> Rotation] /\ fresh' \in [Tab -> Token \cup {None}]
    BY <1>7 DEF ServerRefresh, Answer
  <2>3. UNCHANGED <<expired, stored, memory, calls, history, presented, attempt>>
    BY <1>7 DEF ServerRefresh, Answer
  <2>4. QED
    BY <2>1, <2>2, <2>3 DEF memory, calls, history
<1>8. ASSUME NEW b \in Tab, ServerBusy(b) \/ RefreshLost(b) PROVE TypeOK'
  BY <1>8 DEF ServerBusy, RefreshLost, Answer, memory, calls, history, server
<1>9. ASSUME NEW b \in Tab, Refreshed(b) \/ RefreshUnreadable(b) PROVE TypeOK'
  <2>1. CASE Refreshed(b)
    BY <2>1 DEF Refreshed, Adopt, Settle, history, server
  <2>2. CASE RefreshUnreadable(b)
    BY <2>2 DEF RefreshUnreadable, Settle, memory, server
  <2>3. QED
    BY <1>9, <2>1, <2>2
<1>10. ASSUME NEW b \in Tab, RefreshFailed(b) \/ RefreshBusy(b) PROVE TypeOK'
  <2>1. CASE Resend(b) /\ attempt[b] < Retries
    BY <1>10, <2>1 DEF RefreshFailed, RefreshBusy, Resend, memory, calls, history, server
  <2>2. CASE GiveUp(b)
    BY <1>10, <2>2 DEF RefreshFailed, RefreshBusy, GiveUp, Forget, Settle, history, server
  <2>3. QED
    BY <1>10, <2>1, <2>2 DEF RefreshFailed, RefreshBusy
<1>11. ASSUME NEW t \in Token, ServerRefreshOrphan(t) \/ Expire(t) PROVE TypeOK'
  <2>1. CASE ServerRefreshOrphan(t)
    BY <2>1, RefreshesAreServed DEF ServerRefreshOrphan, memory, refreshing, calls
  <2>2. CASE Expire(t)
    BY <2>2 DEF Expire, memory, refreshing, calls, history, server
  <2>3. QED
    BY <1>11, <2>1, <2>2
<1>12. CASE EndElsewhere \/ UNCHANGED vars
  BY <1>12 DEF EndElsewhere, Ended, memory, refreshing, calls, history, server, vars
<1>13. QED
  BY <1>1, <1>2, <1>3, <1>4, <1>5, <1>6, <1>7, <1>8, <1>9, <1>10, <1>11, <1>12 DEF Next, User, Flows, Rotates

-----------------------------------------------------------------------------
(* What a step does to the server: a login, a rotation or an end.          *)
Login(new) ==
    /\ status[new] = "unissued"
    /\ status' = [status EXCEPT ![new] = "live"]
    /\ line' = [line EXCEPT ![new] = new]

Ends ==
    /\ line' = line
    /\ status' \in [Token -> Status]
    /\ \A t \in Token : status'[t] = status[t] \/ (status[t] = "live" /\ status'[t] = "revoked")

LEMMA ServerSteps ==
  PageInv /\ [Next]_vars =>
     \/ UNCHANGED server
     \/ \E new \in Token : Login(new)
     \/ \E t, new \in Token : Rotate(t, new)
     \/ Ends
<1> SUFFICES ASSUME PageInv, [Next]_vars,
                    ~ UNCHANGED server, \A new \in Token : ~ Login(new), \A t, new \in Token : ~ Rotate(t, new)
             PROVE  Ends
  OBVIOUS
<1>1. ASSUME NEW t \in Token, Refuse(t) PROVE Ends
  BY <1>1 DEF Refuse, Ended, Ends, PageInv, TypeOK, Status
<1>2. ASSUME NEW b \in Tab, ServerRefresh(b) PROVE Ends
  BY <1>1, <1>2 DEF ServerRefresh, PageInv, PageHolds, TypeOK
<1>3. ASSUME NEW t \in Token, ServerRefreshOrphan(t) PROVE Ends
  BY <1>1, <1>3 DEF ServerRefreshOrphan
<1>4. ASSUME NEW f \in Flow, ServerLogout(f) PROVE Ends
  BY <1>4 DEF ServerLogout, Ends, PageInv, TypeOK, Status
<1>5. CASE EndElsewhere
  BY <1>5 DEF EndElsewhere, Ended, Ends, PageInv, TypeOK, Status
<1>6. ASSUME NEW f \in Flow, ServerLogin(f) PROVE FALSE
  BY <1>6 DEF ServerLogin, Login
<1>7. ASSUME NEW f \in Flow, User(f) \/ Flows(f), ~ ServerLogin(f), ~ ServerLogout(f) PROVE FALSE
  BY <1>7 DEF User, Load, Authorized, SignIn, SignOut, Flows, CallReturns, CallUnauthorized, RetryUnauthorized,
     SignInFailed, SignedIn, SignedOut, server
<1>8. ASSUME NEW b \in Tab, Rotates(b), ~ ServerRefresh(b) PROVE FALSE
  BY <1>8 DEF Rotates, ServerBusy, RefreshLost, Refreshed, RefreshUnreadable, RefreshFailed, RefreshBusy, server
<1>9. ASSUME NEW t \in Token, Expire(t) PROVE FALSE
  BY <1>9 DEF Expire, server
<1>10. CASE UNCHANGED vars
  BY <1>10 DEF vars, server
<1>11. QED
  BY <1>2, <1>3, <1>4, <1>5, <1>6, <1>7, <1>8, <1>9, <1>10 DEF Next

(* A token stays issued.                                                   *)
LEMMA IssuedStays == PageInv /\ [Next]_vars => \A t : IssuedOrNone(t) => IssuedOrNone(t)' /\ (Issued(t) => Issued(t)')
<1> SUFFICES ASSUME PageInv, [Next]_vars, NEW t \in Token, status[t] # "unissued" PROVE status'[t] # "unissued"
  BY DEF Issued, IssuedOrNone
<1> USE DEF PageInv, TypeOK
<1>1. CASE UNCHANGED server
  BY <1>1 DEF server
<1>2. ASSUME NEW new \in Token, Login(new) PROVE status'[t] # "unissued"
  BY <1>2 DEF Login
<1>3. ASSUME NEW s \in Token, NEW new \in Token, Rotate(s, new) PROVE status'[t] # "unissued"
  BY <1>3 DEF Rotate
<1>4. CASE Ends
  BY <1>4 DEF Ends
<1>5. QED
  BY <1>1, <1>2, <1>3, <1>4, ServerSteps

(* One token of a login is live: a rotation takes the life of the token it *)
(* replaces, and a login starts a line of its own.                         *)
LEMMA ServerStays == PageInv /\ [Next]_vars => ServerHolds'
<1> SUFFICES ASSUME PageInv, [Next]_vars PROVE ServerHolds'
  OBVIOUS
<1> USE NoneAssumption DEF PageInv, TypeOK, ServerHolds, Issued, Status
<1>1. CASE UNCHANGED server
  BY <1>1 DEF server
<1>2. ASSUME NEW new \in Token, Login(new) PROVE ServerHolds'
  BY <1>2 DEF Login
<1>3. ASSUME NEW s \in Token, NEW new \in Token, Rotate(s, new) PROVE ServerHolds'
  BY <1>3 DEF Rotate
<1>4. CASE Ends
  BY <1>4 DEF Ends
<1>5. QED
  BY <1>1, <1>2, <1>3, <1>4, ServerSteps

-----------------------------------------------------------------------------
(* Who has which token after a step had it before, or was answered it by   *)
(* the server.                                                             *)
LEMMA TokensStay == PageInv /\ [Next]_vars => TokensWereIssued'
<1> SUFFICES ASSUME PageInv, [Next]_vars PROVE TokensWereIssued'
  OBVIOUS
<1> DEFINE Known(t) == t = None \/ (t \in Token /\ status'[t] # "unissued")
           Goal == /\ Known(stored') /\ \A t \in expired' \cup orphans' : Known(t) /\ t # None
                   /\ \A b \in Tab : Known(token'[b]) /\ Known(access'[b]) /\ Known(presented'[b]) /\ Known(fresh'[b])
                   /\ \A f \in Flow : Known(held'[f])
<1>a. /\ \A t \in Token : status'[t] # "unissued" => Known(t)
      /\ Known(stored) /\ Known(None)
      /\ \A b \in Tab : Known(token[b]) /\ Known(access[b]) /\ Known(presented[b]) /\ Known(fresh[b])
      /\ \A f \in Flow : Known(held[f])
      /\ \A t \in expired \cup orphans : Known(t) /\ t # None
  BY IssuedStays, NoneAssumption DEF PageInv, TokensWereIssued, IssuedOrNone, Issued
<1>b. Goal => TokensWereIssued'
  BY NoneAssumption DEF TokensWereIssued, IssuedOrNone, Issued
<1> HIDE DEF Known
<1> USE <1>a, HomeAssumption DEF PageInv, TypeOK
<1>1. ASSUME NEW f \in Flow, Load(f) PROVE Goal
  <2>1. rotation[home[f]] = "sent" => presented[home[f]] # None
    BY DEF PageHolds
  <2>2. \A t \in expired' \cup orphans' : Known(t) /\ t # None
    BY <1>1, <2>1 DEF Load
  <2>3. \A b \in Tab : Known(token'[b]) /\ Known(access'[b])
    BY <1>1 DEF Load
  <2>4. \A b \in Tab : Known(presented'[b]) /\ Known(fresh'[b])
    BY <1>1 DEF Load, Settle, Send
  <2>5. QED
    BY <1>1, <2>2, <2>3, <2>4 DEF Load
<1>2. ASSUME NEW f \in Flow, Authorized(f) \/ CallUnauthorized(f) PROVE Goal
  BY <1>2 DEF Authorized, CallUnauthorized, Refresh, Wait, Done, Forget, Send, memory, refreshing, history
<1>3. ASSUME NEW f \in Flow, SignIn(f) \/ SignOut(f) \/ CallReturns(f) \/ SignInFailed(f) PROVE Goal
  BY <1>3 DEF SignIn, SignOut, CallReturns, SignInFailed, Wait, Done, memory, refreshing, history
<1>4. ASSUME NEW f \in Flow, RetryUnauthorized(f) \/ SignedOut(f) PROVE Goal
  BY <1>4 DEF RetryUnauthorized, SignedOut, Wait, Done, Forget, refreshing, history
<1>5. ASSUME NEW f \in Flow, ServerLogin(f) PROVE Goal
  <2>1. PICK new \in Token : status' = [status EXCEPT ![new] = "live"] /\ Wait(f, "loggedIn", new)
    BY <1>5 DEF ServerLogin
  <2>2. Known(new)
    BY <2>1
  <2>3. QED
    BY <1>5, <2>1, <2>2 DEF ServerLogin, Wait, memory, refreshing, history
<1>6. ASSUME NEW f \in Flow, ServerLogout(f) PROVE Goal
  BY <1>6 DEF ServerLogout, Wait, memory, refreshing, history
<1>7. ASSUME NEW f \in Flow, SignedIn(f) PROVE Goal
  BY <1>7 DEF SignedIn, Adopt, Wait, Done, refreshing, history
<1>8. ASSUME NEW b \in Tab, ServerRefresh(b) PROVE Goal
  <2>1. ASSUME NEW new \in Token, Rotate(presented[b], new) PROVE Known(new)
    BY <2>1 DEF Rotate
  <2>2. \E t : Known(t) /\ Answer(b, rotation'[b], t)
    BY <1>8, <2>1 DEF ServerRefresh, Answer
  <2>3. QED
    BY <1>8, <2>2 DEF ServerRefresh, Answer, memory, calls, history
<1>9. ASSUME NEW b \in Tab, ServerBusy(b) \/ RefreshLost(b) PROVE Goal
  BY <1>9 DEF ServerBusy, RefreshLost, Answer, memory, calls, history
<1>10. ASSUME NEW b \in Tab, Refreshed(b) \/ RefreshUnreadable(b) PROVE Goal
  BY <1>10 DEF Refreshed, RefreshUnreadable, Adopt, Settle, memory, history
<1>11. ASSUME NEW b \in Tab, RefreshFailed(b) \/ RefreshBusy(b) PROVE Goal
  <2>1. CASE Resend(b)
    BY <1>11, <2>1 DEF RefreshFailed, RefreshBusy, Resend, memory, calls, history
  <2>2. CASE GiveUp(b)
    BY <1>11, <2>2 DEF RefreshFailed, RefreshBusy, GiveUp, Forget, Settle, history
  <2>3. QED
    BY <1>11, <2>1, <2>2 DEF RefreshFailed, RefreshBusy
<1>12. ASSUME NEW t \in Token, ServerRefreshOrphan(t) PROVE Goal
  BY <1>12 DEF ServerRefreshOrphan, memory, refreshing, calls
<1>13. ASSUME NEW t \in Token, Expire(t) PROVE Goal
  <2>1. Known(t)
    BY <1>13 DEF Expire, server
  <2>2. QED
    BY <1>13, <2>1, NoneAssumption DEF Expire, memory, refreshing, calls, history
<1>14. ASSUME EndElsewhere \/ UNCHANGED vars PROVE Goal
  BY <1>14 DEF EndElsewhere, memory, refreshing, calls, history, vars
<1>15. QED
  <2> HIDE <1>a DEF Goal, PageInv, TypeOK
  <2> QED
    BY <1>b, <1>1, <1>2, <1>3, <1>4, <1>5, <1>6, <1>7, <1>8, <1>9, <1>10, <1>11, <1>12, <1>13, <1>14
       DEF Next, User, Flows, Rotates

-----------------------------------------------------------------------------
(* The pages.                                                              *)
LEMMA PagesStay == PageInv /\ [Next]_vars => \A c \in Tab : PageHolds(c)'
<1> SUFFICES ASSUME PageInv, [Next]_vars, NEW c \in Tab PROVE PageHolds(c)'
  OBVIOUS
<1> USE HomeAssumption, NoneAssumption DEF PageInv, TypeOK, PageHolds, Opened, Of
<1>1. ASSUME NEW f \in Flow, Load(f) PROVE PageHolds(c)'
  <2>1. CASE c # home[f]
    BY <1>1, <2>1 DEF Load, Settle, Send
  <2>2. CASE c = home[f] /\ stored = None
    BY <1>1, <2>2 DEF Load, Settle
  <2>3. CASE c = home[f] /\ stored # None
    BY <1>1, <2>3 DEF Load, Send
  <2>4. QED
    BY <2>1, <2>2, <2>3
<1>2. ASSUME NEW f \in Flow, Authorized(f) \/ CallUnauthorized(f) PROVE PageHolds(c)'
  BY <1>2 DEF Authorized, CallUnauthorized, Refresh, Wait, Done, Forget, Send, memory, refreshing, history
<1>3. ASSUME NEW f \in Flow, SignIn(f) \/ SignOut(f) \/ CallReturns(f) \/ SignInFailed(f) PROVE PageHolds(c)'
  BY <1>3 DEF SignIn, SignOut, CallReturns, SignInFailed, Wait, Done, memory, refreshing, history
<1>4. ASSUME NEW f \in Flow, RetryUnauthorized(f) \/ SignedOut(f) PROVE PageHolds(c)'
  BY <1>4 DEF RetryUnauthorized, SignedOut, Wait, Done, Forget, refreshing, history
<1>5. ASSUME NEW f \in Flow, ServerLogin(f) PROVE PageHolds(c)'
  BY <1>5 DEF ServerLogin, Wait, memory, refreshing, history
<1>6. ASSUME NEW f \in Flow, ServerLogout(f) PROVE PageHolds(c)'
  BY <1>6 DEF ServerLogout, Wait, memory, refreshing, history
<1>7. ASSUME NEW f \in Flow, SignedIn(f) PROVE PageHolds(c)'
  BY <1>7 DEF SignedIn, Adopt, Wait, Done, refreshing, history, FlowHolds
<1>8. ASSUME NEW b \in Tab, ServerRefresh(b) PROVE PageHolds(c)'
  BY <1>8 DEF ServerRefresh, Answer, memory, calls, history
<1>9. ASSUME NEW b \in Tab, ServerBusy(b) \/ RefreshLost(b) PROVE PageHolds(c)'
  BY <1>9 DEF ServerBusy, RefreshLost, Answer, memory, calls, history
<1>10. ASSUME NEW b \in Tab, Refreshed(b) \/ RefreshUnreadable(b) PROVE PageHolds(c)'
  BY <1>10 DEF Refreshed, RefreshUnreadable, Adopt, Settle, memory, history, Waiting
<1>11. ASSUME NEW b \in Tab, RefreshFailed(b) \/ RefreshBusy(b) PROVE PageHolds(c)'
  <2>1. CASE Resend(b)
    BY <1>11, <2>1 DEF RefreshFailed, RefreshBusy, Resend, memory, calls, history
  <2>2. CASE GiveUp(b)
    BY <1>11, <2>2 DEF RefreshFailed, RefreshBusy, GiveUp, Forget, Settle, history, Waiting
  <2>3. QED
    BY <1>11, <2>1, <2>2 DEF RefreshFailed, RefreshBusy
<1>12. ASSUME NEW t \in Token, ServerRefreshOrphan(t) \/ Expire(t) PROVE PageHolds(c)'
  BY <1>12 DEF ServerRefreshOrphan, Expire, memory, refreshing, calls, history
<1>13. CASE EndElsewhere \/ UNCHANGED vars
  BY <1>13 DEF EndElsewhere, memory, refreshing, calls, history, vars
<1>14. QED
  <2> HIDE DEF PageInv, TypeOK, PageHolds
  <2> QED
    BY <1>1, <1>2, <1>3, <1>4, <1>5, <1>6, <1>7, <1>8, <1>9, <1>10, <1>11, <1>12, <1>13
       DEF Next, User, Flows, Rotates

(* The calls.                                                              *)
LEMMA FlowsStay == PageInv /\ [Next]_vars => \A g \in Flow : FlowHolds(g)'
<1> SUFFICES ASSUME PageInv, [Next]_vars, NEW g \in Flow PROVE FlowHolds(g)'
  OBVIOUS
<1> USE HomeAssumption, NoneAssumption DEF PageInv, TypeOK, FlowHolds, Of
<1>1. ASSUME NEW f \in Flow, Load(f) PROVE FlowHolds(g)'
  <2>1. CASE home[g] # home[f]
    BY <1>1, <2>1 DEF Load, Settle, Send
  <2>2. CASE home[g] = home[f]
    BY <1>1, <2>2 DEF Load, Settle, Send
  <2>3. QED
    BY <2>1, <2>2
<1>2. ASSUME NEW f \in Flow, Authorized(f) \/ CallUnauthorized(f) PROVE FlowHolds(g)'
  BY <1>2 DEF Authorized, CallUnauthorized, Refresh, Wait, Done, Forget, Send, memory, refreshing, history
<1>3. ASSUME NEW f \in Flow, SignIn(f) \/ SignOut(f) \/ CallReturns(f) \/ SignInFailed(f) PROVE FlowHolds(g)'
  BY <1>3 DEF SignIn, SignOut, CallReturns, SignInFailed, Wait, Done, memory, refreshing, history
<1>4. ASSUME NEW f \in Flow, RetryUnauthorized(f) \/ SignedOut(f) PROVE FlowHolds(g)'
  BY <1>4 DEF RetryUnauthorized, SignedOut, Wait, Done, Forget, refreshing, history
<1>5. ASSUME NEW f \in Flow, ServerLogin(f) PROVE FlowHolds(g)'
  BY <1>5 DEF ServerLogin, Wait, memory, refreshing
<1>6. ASSUME NEW f \in Flow, ServerLogout(f) PROVE FlowHolds(g)'
  BY <1>6 DEF ServerLogout, Wait, memory, refreshing, history
<1>7. ASSUME NEW f \in Flow, SignedIn(f) PROVE FlowHolds(g)'
  BY <1>7 DEF SignedIn, Adopt, Wait, Done, refreshing, history
<1>8. ASSUME NEW b \in Tab, ServerRefresh(b) PROVE FlowHolds(g)'
  BY <1>8 DEF ServerRefresh, Answer, memory, calls, history
<1>9. ASSUME NEW b \in Tab, ServerBusy(b) \/ RefreshLost(b) PROVE FlowHolds(g)'
  BY <1>9 DEF ServerBusy, RefreshLost, Answer, memory, calls, history
<1>10. ASSUME NEW b \in Tab, Refreshed(b) \/ RefreshUnreadable(b) PROVE FlowHolds(g)'
  BY <1>10 DEF Refreshed, RefreshUnreadable, Adopt, Settle, memory, history, Waiting, PageHolds
<1>11. ASSUME NEW b \in Tab, RefreshFailed(b) \/ RefreshBusy(b) PROVE FlowHolds(g)'
  <2>1. CASE Resend(b)
    BY <1>11, <2>1 DEF RefreshFailed, RefreshBusy, Resend, memory, calls, history
  <2>2. CASE GiveUp(b)
    BY <1>11, <2>2 DEF RefreshFailed, RefreshBusy, GiveUp, Forget, Settle, history, Waiting
  <2>3. QED
    BY <1>11, <2>1, <2>2 DEF RefreshFailed, RefreshBusy
<1>12. ASSUME NEW t \in Token, ServerRefreshOrphan(t) \/ Expire(t) PROVE FlowHolds(g)'
  BY <1>12 DEF ServerRefreshOrphan, Expire, memory, refreshing, calls
<1>13. CASE EndElsewhere \/ UNCHANGED vars
  BY <1>13 DEF EndElsewhere, memory, refreshing, calls, vars
<1>14. QED
  <2> HIDE DEF PageInv, TypeOK, FlowHolds
  <2> QED
    BY <1>1, <1>2, <1>3, <1>4, <1>5, <1>6, <1>7, <1>8, <1>9, <1>10, <1>11, <1>12, <1>13
       DEF Next, User, Flows, Rotates

-----------------------------------------------------------------------------
(* A page stays open, so that while one page is open, one page was.        *)
LEMMA OpenedStays == PageInv /\ [Next]_vars => \A b \in Tab : Opened(b) => Opened(b)'
<1> SUFFICES ASSUME PageInv, [Next]_vars, NEW b \in Tab, Opened(b) PROVE Opened(b)'
  OBVIOUS
<1> USE HomeAssumption DEF Opened, PageInv, TypeOK
<1>1. ASSUME NEW f \in Flow, User(f) \/ Flows(f) PROVE Opened(b)'
  BY <1>1 DEF User, Load, Authorized, SignIn, SignOut, Flows, CallReturns, CallUnauthorized, RetryUnauthorized,
     ServerLogin, SignInFailed, SignedIn, ServerLogout, SignedOut, Refresh, Forget, memory
<1>2. ASSUME NEW c \in Tab, Rotates(c) PROVE Opened(b)'
  BY <1>2 DEF Rotates, ServerRefresh, ServerBusy, RefreshLost, Refreshed, RefreshUnreadable,
     RefreshFailed, RefreshBusy, Resend, GiveUp, Forget, memory
<1>3. CASE EndElsewhere \/ (\E t \in Token : ServerRefreshOrphan(t) \/ Expire(t)) \/ UNCHANGED vars
  BY <1>3 DEF EndElsewhere, ServerRefreshOrphan, Expire, memory, vars
<1>4. QED
  BY <1>1, <1>2, <1>3 DEF Next

LEMMA OnePageWas == PageInv /\ [Next]_vars /\ OnePage' => OnePage
BY OpenedStays DEF OnePage, Opened

(* A page at work is open.                                                 *)
LEMMA AtWorkIsOpened ==
  PageInv => /\ \A b \in Tab : rotation[b] # "none" => Opened(b)
             /\ \A f \in Flow : phase[f] # "idle" => Opened(home[f])
BY HomeAssumption DEF PageInv, PageHolds, Of

(* What is stored changes with what the page has in memory.                *)
LEMMA MemoryStays == PageInv /\ [Next]_vars => MemoryIsStored'
<1> SUFFICES ASSUME PageInv, [Next]_vars PROVE MemoryIsStored'
  OBVIOUS
<1> DEFINE Same == UNCHANGED <<token, stored>> /\ \A b \in Tab : Opened(b)' = Opened(b)
           Both(b) == Opened(b) /\ token'[b] = stored' /\ \A c \in Tab \ {b} : token'[c] = token[c]
<1>1. Same => MemoryIsStored'
  BY OnePageWas DEF PageInv, MemoryIsStored
<1>2. ASSUME NEW b \in Tab, Both(b) PROVE MemoryIsStored'
  BY <1>2, OpenedStays DEF MemoryIsStored, OnePage
<1>3. ASSUME NEW f \in Flow, Load(f) PROVE MemoryIsStored'
  <2>1. Opened(home[f])' /\ token'[home[f]] = stored /\ stored' = stored
    BY <1>3, HomeAssumption DEF Load, Opened, PageInv, TypeOK
  <2>2. home[f] \in Tab
    BY HomeAssumption
  <2>3. QED
    BY <2>1, <2>2 DEF MemoryIsStored, OnePage
<1> USE HomeAssumption, AtWorkIsOpened DEF PageInv, TypeOK, Opened
<1>4. ASSUME NEW f \in Flow, Authorized(f) \/ CallUnauthorized(f) PROVE Same \/ Both(home[f])
  BY <1>4 DEF Authorized, CallUnauthorized, Refresh, Forget, memory
<1>5. ASSUME NEW f \in Flow, SignIn(f) \/ SignOut(f) \/ CallReturns(f) \/ SignInFailed(f) \/ ServerLogin(f) \/ ServerLogout(f)
      PROVE  Same
  BY <1>5 DEF SignIn, SignOut, CallReturns, SignInFailed, ServerLogin, ServerLogout, memory
<1>6. ASSUME NEW f \in Flow, RetryUnauthorized(f) \/ SignedOut(f) \/ SignedIn(f) PROVE Both(home[f])
  BY <1>6 DEF RetryUnauthorized, SignedOut, SignedIn, Forget, Adopt
<1>7. ASSUME NEW b \in Tab, Rotates(b) PROVE Same \/ Both(b)
  BY <1>7 DEF Rotates, ServerRefresh, ServerBusy, RefreshLost, Refreshed, RefreshUnreadable,
     RefreshFailed, RefreshBusy, Resend, GiveUp, Forget, Adopt, memory
<1>8. CASE EndElsewhere \/ (\E t \in Token : ServerRefreshOrphan(t) \/ Expire(t)) \/ UNCHANGED vars
  BY <1>1, <1>8 DEF EndElsewhere, ServerRefreshOrphan, Expire, memory, vars
<1>9. QED
  <2> HIDE DEF Same, Both, PageInv, TypeOK
  <2> QED
    BY <1>1, <1>2, <1>3, <1>4, <1>5, <1>6, <1>7, <1>8 DEF Next, User, Flows

-----------------------------------------------------------------------------
(* A token is spent by a rotation that presents it, and by nothing else;   *)
(* the page that presented it replaces it, or forgets it, when that        *)
(* returns.                                                                *)
LEMMA SpentStays == PageInv /\ [Next]_vars /\ ~ interrupted' /\ ~ cutOff' /\ OnePage' => NothingSpent'
<1> SUFFICES ASSUME PageInv, [Next]_vars, ~ interrupted', ~ cutOff', OnePage' PROVE NothingSpent'
  OBVIOUS
<1> USE HomeAssumption, NoneAssumption
<1>1. ~ interrupted /\ ~ cutOff
  <2>1. interrupted \in BOOLEAN /\ cutOff \in BOOLEAN
    BY DEF PageInv, TypeOK
  <2>2. UNCHANGED <<interrupted, cutOff>> \/ (\E f \in Flow : Load(f)) \/ \E b \in Tab : RefreshUnreadable(b)
    BY DEF Next, User, Authorized, SignIn, SignOut, Flows, CallReturns, CallUnauthorized, RetryUnauthorized,
       ServerLogin, SignInFailed, SignedIn, ServerLogout, SignedOut, Rotates, ServerRefresh, ServerBusy, RefreshLost,
       Refreshed, RefreshFailed, RefreshBusy, ServerRefreshOrphan, Expire, EndElsewhere, history, vars
  <2>3. ASSUME NEW f \in Flow, Load(f) PROVE ~ interrupted /\ ~ cutOff
    BY <2>3 DEF Load
  <2>4. ASSUME NEW b \in Tab, RefreshUnreadable(b) PROVE FALSE
    BY <2>4 DEF RefreshUnreadable
  <2>5. QED
    BY <2>2, <2>3, <2>4
<1>2. OnePage /\ NothingSpent
  BY <1>1, OnePageWas DEF PageInv
<1>a. \A f \in Flow : phase[f] = "loggedIn" => held[f] # None
  BY DEF PageInv, FlowHolds
<1> USE <1>2, <1>a, AtWorkIsOpened DEF NothingSpent, Unspent, PageInv, TypeOK
<1>3. ASSUME NEW f \in Flow, Load(f) PROVE NothingSpent'
  <2>1. rotation[home[f]] = "none"
    BY <1>3 DEF Load
  <2>2. \A c \in Tab : c # home[f] => ~ Opened(c)
    BY <1>3 DEF Load, OnePage, Opened
  <2>3. stored = None \/ stored = token[home[f]]
    BY <2>2 DEF MemoryIsStored, Opened
  <2>4. QED
    BY <1>3, <2>1, <2>2, <2>3 DEF Load, Settle, Send, server, PageHolds, Of
<1>4. ASSUME NEW f \in Flow, Authorized(f) \/ CallUnauthorized(f) PROVE NothingSpent'
  BY <1>4 DEF Authorized, CallUnauthorized, Refresh, Wait, Done, Forget, Send, memory, refreshing, history, server
<1>5. ASSUME NEW f \in Flow, SignIn(f) \/ SignOut(f) \/ CallReturns(f) \/ SignInFailed(f) PROVE NothingSpent'
  BY <1>5 DEF SignIn, SignOut, CallReturns, SignInFailed, Wait, Done, memory, refreshing, history, server
<1>6. ASSUME NEW f \in Flow, RetryUnauthorized(f) \/ SignedOut(f) PROVE NothingSpent'
  BY <1>6 DEF RetryUnauthorized, SignedOut, Wait, Done, Forget, refreshing, history, server
<1>7. ASSUME NEW f \in Flow, ServerLogin(f) PROVE NothingSpent'
  <2>1. PICK new \in Token : status[new] = "unissued" /\ status' = [status EXCEPT ![new] = "live"]
                             /\ Wait(f, "loggedIn", new)
    BY <1>7 DEF ServerLogin
  <2>2. /\ \A b \in Tab : new \notin {token[b], presented[b], fresh[b]}
        /\ \A g \in Flow : held[g] # new
    BY <2>1 DEF TokensWereIssued, Issued, IssuedOrNone
  <2>3. QED
    BY <1>7, <2>1, <2>2 DEF ServerLogin, Wait, memory, refreshing, history
<1>8. ASSUME NEW f \in Flow, ServerLogout(f) PROVE NothingSpent'
  BY <1>8 DEF ServerLogout, Wait, memory, refreshing, history
<1>9. ASSUME NEW f \in Flow, SignedIn(f) PROVE NothingSpent'
  BY <1>9 DEF SignedIn, Adopt, Wait, Done, refreshing, history, server
<1>10. ASSUME NEW b \in Tab, ServerRefresh(b) PROVE NothingSpent'
  <2>1. presented[b] # None /\ status[presented[b]] # "replaced"
    BY <1>10 DEF ServerRefresh, PageHolds
  <2>2. CASE Refuse(presented[b]) /\ Answer(b, "failed", None)
    BY <1>10, <2>1, <2>2 DEF ServerRefresh, Refuse, Answer, memory, calls, history
  <2>3. ASSUME NEW new \in Token, Rotate(presented[b], new), Answer(b, "ok", new) PROVE NothingSpent'
    <3>1. \A f \in Flow : held[f] # new
      BY <2>3 DEF Rotate, TokensWereIssued, Issued, IssuedOrNone
    <3>2. \A c \in Tab : c # b => ~ Opened(c)
      BY <1>10 DEF ServerRefresh, OnePage
    <3>3. \A f \in Flow : phase[f] = "loggedIn" => home[f] = b
      BY <3>2
    <3>4. QED
      BY <1>10, <2>1, <2>3, <3>1, <3>2, <3>3 DEF ServerRefresh, Rotate, Answer, memory, calls, history, PageHolds
  <2>4. QED
    BY <1>10, <2>2, <2>3 DEF ServerRefresh
<1>11. ASSUME NEW b \in Tab, ServerBusy(b) \/ RefreshLost(b) PROVE NothingSpent'
  BY <1>11 DEF ServerBusy, RefreshLost, Answer, memory, calls, history, server
<1>12. ASSUME NEW b \in Tab, Refreshed(b) \/ RefreshUnreadable(b) PROVE NothingSpent'
  BY <1>12 DEF Refreshed, RefreshUnreadable, Adopt, Settle, memory, history, server, Waiting, Of
<1>13. ASSUME NEW b \in Tab, RefreshFailed(b) \/ RefreshBusy(b) PROVE NothingSpent'
  <2>1. CASE Resend(b) /\ RefreshBusy(b)
    BY <2>1 DEF RefreshBusy, Resend, memory, calls, history, server
  <2>2. CASE GiveUp(b)
    BY <1>13, <2>2 DEF RefreshFailed, RefreshBusy, GiveUp, Forget, Settle, history, server, Waiting, Of
  <2>3. QED
    BY <1>13, <2>1, <2>2 DEF RefreshFailed, RefreshBusy
<1>14. CASE EndElsewhere \/ (\E t \in Token : Expire(t)) \/ UNCHANGED vars
  BY <1>14 DEF EndElsewhere, Ended, Expire, memory, refreshing, calls, history, server, vars
<1>15. ASSUME NEW t \in Token, ServerRefreshOrphan(t) PROVE FALSE
  BY <1>15 DEF ServerRefreshOrphan
<1>16. QED
  <2> HIDE <1>2, <1>a DEF NothingSpent, PageInv, TypeOK
  <2> QED
    BY <1>3, <1>4, <1>5, <1>6, <1>7, <1>8, <1>9, <1>10, <1>11, <1>12, <1>13, <1>14, <1>15
       DEF Next, User, Flows, Rotates

LEMMA NextPageInv == PageInv /\ [Next]_vars => PageInv'
<1> SUFFICES ASSUME PageInv, [Next]_vars PROVE PageInv'
  OBVIOUS
<1>1. TypeOK' /\ TokensWereIssued' /\ ServerHolds' /\ MemoryIsStored'
  BY TypesStay, TokensStay, ServerStays, MemoryStays
<1>2. (\A b \in Tab : PageHolds(b)') /\ (\A f \in Flow : FlowHolds(f)')
  BY PagesStay, FlowsStay
<1>3. ~ interrupted' /\ ~ cutOff' /\ OnePage' => NothingSpent'
  BY SpentStays
<1>4. QED
  BY <1>1, <1>2, <1>3 DEF PageInv

(* The pages, their calls, the storage and the server agree, however many  *)
(* pages share the storage and whatever the network loses (session.ts).    *)
THEOREM PageInvariant == Spec => []PageInv
BY InitPageInv, NextPageInv, PTL DEF Spec

(* A spent token is presented only after a page was left in the middle of  *)
(* a refresh, beside a second page, or after an answer to a refresh whose  *)
(* body could not be read (session.ts:105, rotate).                        *)
THEOREM ReuseIsExplained == Spec => []ReuseNeedsInterruption
<1>1. PageInv => ReuseNeedsInterruption
  BY DEF PageInv, NothingSpent, ReuseNeedsInterruption
<1>2. QED
  BY <1>1, PageInvariant, PTL

-----------------------------------------------------------------------------
(* The lines of the server.                                                *)
LEMMA LoginOpens == ASSUME PageInv, NEW new \in Token, Login(new) PROVE Line!Open(new)
<1> USE NoneAssumption DEF Login, PageInv, TypeOK, ServerHolds, Issued, Status
<1>1. new \notin Handed /\ Handed' = Handed \cup {new}
  BY DEF Handed
<1>2. \A l \in Token : LiveInLine'[l] = IF l = new THEN {new} ELSE LiveInLine[l]
  BY DEF LiveInLine
<1>3. LiveInLine' = [LiveInLine EXCEPT ![new] = {new}]
  <2>1. /\ LiveInLine' = [k \in Token |-> LiveInLine'[k]]
        /\ LiveInLine = [k \in Token |-> LiveInLine[k]]
    BY DEF LiveInLine
  <2>2. QED
    BY <1>2, <2>1
<1>4. QED
  BY <1>1, <1>3 DEF Line!Open

LEMMA RotationExchanges ==
  ASSUME PageInv, NEW s \in Token, NEW new \in Token, Rotate(s, new)
  PROVE  \E l \in Token : Line!Exchange(l, new)
<1> USE NoneAssumption DEF Rotate, PageInv, TypeOK, ServerHolds, Issued, Status
<1> DEFINE l == line[s]
<1>1. l \in Token /\ s \in LiveInLine[l] /\ new # s
  BY DEF LiveInLine
<1>2. new \notin Handed /\ Handed' = Handed \cup {new}
  BY DEF Handed
<1>3. \A k \in Token : LiveInLine'[k] = IF k = l THEN {new} ELSE LiveInLine[k]
  BY <1>1 DEF LiveInLine
<1>4. LiveInLine' = [LiveInLine EXCEPT ![l] = {new}]
  <2>1. /\ LiveInLine' = [k \in Token |-> LiveInLine'[k]]
        /\ LiveInLine = [k \in Token |-> LiveInLine[k]]
    BY DEF LiveInLine
  <2>2. QED
    BY <1>1, <1>3, <2>1
<1>5. QED
  BY <1>1, <1>2, <1>4 DEF Line!Exchange

LEMMA EndsAreEnds ==
  ASSUME PageInv, Ends
  PROVE  \E ended \in SUBSET Token : Line!End(ended)
<1> USE DEF Ends, PageInv, TypeOK, ServerHolds, Issued, Status
<1> DEFINE ended == {l \in Token : LiveInLine'[l] = {}}
<1>1. Handed' = Handed
  BY DEF Handed
<1>2. \A l \in Token : LiveInLine'[l] = IF l \in ended THEN {} ELSE LiveInLine[l]
  BY DEF LiveInLine
<1>3. LiveInLine' = [l \in Token |-> IF l \in ended THEN {} ELSE LiveInLine[l]]
  <2>1. LiveInLine' = [l \in Token |-> LiveInLine'[l]]
    BY DEF LiveInLine
  <2>2. QED
    BY <1>2, <2>1
<1>4. Line!End(ended)
  BY <1>1, <1>3 DEF Line!End
<1>5. QED
  BY <1>4

(* The server that the client talks to opens lines, exchanges their        *)
(* current tokens and ends them, and nothing the client sends makes it do  *)
(* anything else (routes/auth.ts).                                         *)
THEOREM ServerIsSessionLine == Spec => ImplementsSessionLine
<1>1. Init => Line!Init
  BY DEF Init, Line!Init, LiveInLine, Handed, Issued
<1>2. PageInv /\ [Next]_vars => [Line!Next]_(Line!vars)
  <2> SUFFICES ASSUME PageInv, [Next]_vars PROVE [Line!Next]_(Line!vars)
    OBVIOUS
  <2>1. CASE UNCHANGED server
    BY <2>1 DEF server, Line!vars, LiveInLine, Handed, Issued
  <2>2. ASSUME NEW new \in Token, Login(new) PROVE Line!Next
    BY <2>2, LoginOpens DEF Line!Next
  <2>3. ASSUME NEW s \in Token, NEW new \in Token, Rotate(s, new) PROVE Line!Next
    BY <2>3, RotationExchanges DEF Line!Next
  <2>4. CASE Ends
    BY <2>4, EndsAreEnds DEF Line!Next
  <2>5. QED
    BY <2>1, <2>2, <2>3, <2>4, ServerSteps
<1>3. QED
  BY <1>1, <1>2, PageInvariant, PTL DEF Spec, ImplementsSessionLine, Line!Spec

=============================================================================
