------------------------- MODULE AccountLinks_proofs -------------------------
(***************************************************************************)
(* Proofs about AccountLinks for every set of accounts, tokens and         *)
(* requests, every lifetime and every bound: the invariant LinkInv, from   *)
(* which a reset link works at most once, an account is verified by a      *)
(* mailed link only, and no link is taken away without another.            *)
(***************************************************************************)
EXTENDS AccountLinks, WellFoundedInduction, TLAPS

-----------------------------------------------------------------------------
(* What holds at first.                                                    *)
LEMMA InitLinkInv == Init => LinkInv
<1> USE NoneAssumption DEF Init
<1>1. Init => TypeOK
  BY DEF TypeOK, Phase, Kind
<1>2. Init => RequestsHold /\ LinksHold
  BY DEF RequestsHold, RequestHolds, LinksHold, Issued
<1>3. Init => ResetOnce /\ NobodyIsStranded /\ VerifiedByLink
  BY DEF ResetOnce, NobodyIsStranded, VerifiedByLink, Tokens
<1>4. Init => NewestIsLive
  BY DEF NewestIsLive, Issued, Tokens
<1>5. QED
  BY <1>1, <1>2, <1>3, <1>4 DEF LinkInv

(* Every step keeps the types, given what requests know of their links.    *)
LEMMA StepKeepsTypes == LinkInv /\ [Next]_vars => TypeOK'
<1> SUFFICES ASSUME LinkInv, [Next]_vars PROVE TypeOK'
  OBVIOUS
<1> USE NoneAssumption, TimeAssumption DEF LinkInv, TypeOK, Phase, Kind, users, table, work, Goto, Finish
<1>1. ASSUME NEW p \in Request, NEW a \in Account, NEW k \in Kind, Ask(p, k, a) PROVE TypeOK'
  BY <1>1 DEF Ask, StartOffer
<1>2. ASSUME NEW p \in Request, NEW a \in Account, Register(p, a) PROVE TypeOK'
  BY <1>2 DEF Register, StartOffer, CreateUser
<1>3. ASSUME NEW p \in Request, LookUp(p) PROVE TypeOK'
  <2>1. CASE phase' = [phase EXCEPT ![p] = "throttle"] /\ UNCHANGED work
    BY <1>3, <2>1 DEF LookUp
  <2>2. CASE Finish(p)
    BY <1>3, <2>2 DEF LookUp
  <2>3. QED
    BY <1>3, <2>1, <2>2 DEF LookUp
<1>4. ASSUME NEW p \in Request, CheckThrottle(p) PROVE TypeOK'
  <2>1. CASE phase' = [phase EXCEPT ![p] = "issue"] /\ UNCHANGED work
    BY <1>4, <2>1 DEF CheckThrottle
  <2>2. CASE Finish(p)
    BY <1>4, <2>2 DEF CheckThrottle
  <2>3. QED
    BY <1>4, <2>1, <2>2 DEF CheckThrottle
<1>5. ASSUME NEW p \in Request, Supersede(p) PROVE TypeOK'
  BY <1>5 DEF Supersede, Unconsumed, Tokens
<1>6. ASSUME NEW p \in Request, NEW t \in Token, IssueToken(p, t) PROVE TypeOK'
  BY <1>6 DEF IssueToken, TTL, Issued, RequestsHold, RequestHolds
<1>7. ASSUME NEW p \in Request, OutOfTokens(p) PROVE TypeOK'
  BY <1>7 DEF OutOfTokens
<1>8. ASSUME NEW p \in Request, Dispatch(p) PROVE TypeOK'
  BY <1>8 DEF Dispatch, RequestsHold, RequestHolds, LinksHold, Issued
<1>9. ASSUME NEW p \in Request, NEW t \in Token, OpenLink(p, t) PROVE TypeOK'
  BY <1>9 DEF OpenLink, Present
<1>10. ASSUME NEW p \in Request, ShowAlreadyVerified(p) PROVE TypeOK'
  BY <1>10 DEF ShowAlreadyVerified
<1>11. ASSUME NEW p \in Request, ConsumeLink(p) PROVE TypeOK'
  BY <1>11 DEF ConsumeLink, RequestsHold, RequestHolds, LinksHold, Issued
<1>12. ASSUME NEW p \in Request, NEW t \in Token, SubmitPassword(p, t) PROVE TypeOK'
  BY <1>12 DEF SubmitPassword, Present
<1>13. ASSUME NEW p \in Request, ClaimToken(p) PROVE TypeOK'
  <2>1. CASE phase' = [phase EXCEPT ![p] = "claimed"] /\ lock' = [lock EXCEPT ![link[p]] = p] /\ UNCHANGED work
    BY <1>13, <2>1 DEF ClaimToken
  <2>2. CASE Finish(p) /\ UNCHANGED lock
    BY <1>13, <2>2 DEF ClaimToken
  <2>3. QED
    BY <1>13, <2>1, <2>2 DEF ClaimToken
<1>14. ASSUME NEW p \in Request, CommitReset(p) PROVE TypeOK'
  BY <1>14 DEF CommitReset, WriteUser, RequestsHold, RequestHolds, LinksHold, Issued
<1>15. ASSUME NEW p \in Request, Crash(p) PROVE TypeOK'
  BY <1>15 DEF Crash
<1>16. CASE Tick
  BY <1>16 DEF Tick
<1>17. CASE UNCHANGED vars
  BY <1>17 DEF vars
<1>18. ASSUME NEW p \in Request, Arrive(p) PROVE TypeOK'
  BY <1>1, <1>2, <1>9, <1>12, <1>18 DEF Arrive
<1>19. ASSUME NEW p \in Request, Proceed(p) PROVE TypeOK'
  BY <1>3, <1>4, <1>5, <1>6, <1>7, <1>8, <1>10, <1>11, <1>13, <1>14, <1>19 DEF Proceed
<1>20. QED
  BY <1>15, <1>16, <1>17, <1>18, <1>19 DEF Next

(* What a request knows of its link survives the steps of the others: a    *)
(* claimed token is locked, so no newer link can supersede it.             *)
LEMMA StepKeepsRequests == LinkInv /\ TypeOK' /\ [Next]_vars => RequestsHold'
<1> SUFFICES ASSUME LinkInv, TypeOK', [Next]_vars PROVE RequestsHold'
  OBVIOUS
<1> USE NoneAssumption DEF LinkInv, TypeOK, RequestsHold, RequestHolds, LinksHold, Tokens, Issued, users, table, work, Goto, Finish
<1>1. ASSUME NEW p \in Request, NEW a \in Account, NEW k \in Kind, Ask(p, k, a) PROVE RequestsHold'
  BY <1>1 DEF Ask, StartOffer
<1>2. ASSUME NEW p \in Request, NEW a \in Account, Register(p, a) PROVE RequestsHold'
  BY <1>2 DEF Register, StartOffer, Kind
<1>3. ASSUME NEW p \in Request, LookUp(p) PROVE RequestsHold'
  BY <1>3 DEF LookUp
<1>4. ASSUME NEW p \in Request, CheckThrottle(p) PROVE RequestsHold'
  BY <1>4 DEF CheckThrottle
<1>5. ASSUME NEW p \in Request, Supersede(p) PROVE RequestsHold'
  BY <1>5 DEF Supersede, Unconsumed
<1>6. ASSUME NEW p \in Request, NEW t \in Token, IssueToken(p, t) PROVE RequestsHold'
  <2>1. /\ kind[t] = None /\ phase[p] = "superseding" /\ offer[p] \in Kind
        /\ kind' = [kind EXCEPT ![t] = offer[p]]
        /\ holder' = [holder EXCEPT ![t] = account[p]]
        /\ consumed' = [s \in Token |-> consumed[s] \/ s \in todo[p]]
        /\ phase' = [phase EXCEPT ![p] = "mail"]
        /\ link' = [link EXCEPT ![p] = t]
        /\ UNCHANGED <<account, offer, todo, lock, mailed>>
    BY <1>6 DEF IssueToken
  <2>2. t \notin mailed
    BY <2>1
  <2>3. \A q \in Request : phase[q] = "claimed" => ~ consumed'[link[q]] /\ link[q] # t
    BY <1>6, <2>1, <2>2 DEF IssueToken, Locked
  <2>4. ASSUME NEW q \in Request, phase[q] = "superseding", q # p
        PROVE  todo'[q] \subseteq Tokens(offer[q], account[q])'
    BY <2>1, <2>4
  <2>5. \A q \in Request : q # p => phase'[q] = phase[q] /\ link'[q] = link[q]
    BY <2>1
  <2>6. \A x \in mailed : kind'[x] = kind[x]
    BY <2>1, <2>2
  <2>7. phase'[p] = "mail" /\ link'[p] = t /\ kind'[t] # None
    BY <2>1
  <2>8. \A x \in Issued : kind'[x] # None
    BY <2>1
  <2>9. ASSUME NEW q \in Request, q # p PROVE RequestHolds(q)'
    <3>1. phase[q] \in {"lookUp", "throttle", "issue", "superseding"} =>
            account'[q] \in Account /\ offer'[q] \in Kind
      BY <2>1, <2>9
    <3>2. phase[q] = "mail" => link'[q] \in Issued'
      BY <2>5, <2>8, <2>9
    <3>3. phase[q] = "consuming" => link'[q] \in mailed' /\ kind'[link'[q]] = "verification"
      BY <2>1, <2>5, <2>6, <2>9
    <3>4. phase[q] \in {"hashing", "claimed"} => link'[q] \in mailed' /\ kind'[link'[q]] = "reset"
      BY <2>1, <2>5, <2>6, <2>9
    <3>5. phase[q] = "claimed" => lock'[link'[q]] = q /\ ~ consumed'[link'[q]]
      <4>1. phase[q] = "claimed" => lock[link[q]] = q
        BY <2>9
      <4>2. QED
        BY <2>1, <2>3, <2>5, <4>1
    <3>6. QED
      BY <2>4, <2>5, <2>9, <3>1, <3>2, <3>3, <3>4, <3>5
  <2>10. RequestHolds(p)'
    BY <2>7
  <2>11. QED
    BY <2>9, <2>10
<1>7. ASSUME NEW p \in Request, OutOfTokens(p) PROVE RequestsHold'
  BY <1>7 DEF OutOfTokens
<1>8. ASSUME NEW p \in Request, Dispatch(p) PROVE RequestsHold'
  BY <1>8 DEF Dispatch
<1>9. ASSUME NEW p \in Request, NEW t \in Token, OpenLink(p, t) PROVE RequestsHold'
  BY <1>9 DEF OpenLink, Present
<1>10. ASSUME NEW p \in Request, ShowAlreadyVerified(p) PROVE RequestsHold'
  BY <1>10 DEF ShowAlreadyVerified
<1>11. ASSUME NEW p \in Request, ConsumeLink(p) PROVE RequestsHold'
  BY <1>11 DEF ConsumeLink
<1>12. ASSUME NEW p \in Request, NEW t \in Token, SubmitPassword(p, t) PROVE RequestsHold'
  BY <1>12 DEF SubmitPassword, Present, IsRedeemable
<1>13. ASSUME NEW p \in Request, ClaimToken(p) PROVE RequestsHold'
  BY <1>13 DEF ClaimToken, Claimable, IsRedeemable, Locked
<1>14. ASSUME NEW p \in Request, CommitReset(p) PROVE RequestsHold'
  BY <1>14 DEF CommitReset, WriteUser
<1>15. ASSUME NEW p \in Request, Crash(p) PROVE RequestsHold'
  BY <1>15 DEF Crash
<1>16. CASE Tick
  BY <1>16 DEF Tick
<1>17. CASE UNCHANGED vars
  BY <1>17 DEF vars
<1>18. ASSUME NEW p \in Request, Arrive(p) PROVE RequestsHold'
  BY <1>1, <1>2, <1>9, <1>12, <1>18 DEF Arrive
<1>19. ASSUME NEW p \in Request, Proceed(p) PROVE RequestsHold'
  BY <1>3, <1>4, <1>5, <1>6, <1>7, <1>8, <1>10, <1>11, <1>13, <1>14, <1>19 DEF Proceed
<1>20. QED
  BY <1>15, <1>16, <1>17, <1>18, <1>19 DEF Next

(* Only requests that claimed a token hold its lock, and a redeemed link   *)
(* was mailed and is consumed.                                             *)
LEMMA StepKeepsLinks == LinkInv /\ TypeOK' /\ [Next]_vars => LinksHold'
<1> SUFFICES ASSUME LinkInv, TypeOK', [Next]_vars PROVE LinksHold'
  OBVIOUS
<1> USE NoneAssumption DEF LinkInv, TypeOK, RequestsHold, RequestHolds, LinksHold, Issued, users, table, work, Goto, Finish
<1>1. ASSUME NEW p \in Request, NEW a \in Account, NEW k \in Kind, Ask(p, k, a) PROVE LinksHold'
  BY <1>1 DEF Ask, StartOffer
<1>2. ASSUME NEW p \in Request, NEW a \in Account, Register(p, a) PROVE LinksHold'
  BY <1>2 DEF Register, StartOffer, CreateUser
<1>3. ASSUME NEW p \in Request, LookUp(p) PROVE LinksHold'
  BY <1>3 DEF LookUp
<1>4. ASSUME NEW p \in Request, CheckThrottle(p) PROVE LinksHold'
  BY <1>4 DEF CheckThrottle
<1>5. ASSUME NEW p \in Request, Supersede(p) PROVE LinksHold'
  BY <1>5 DEF Supersede, Unconsumed
<1>6. ASSUME NEW p \in Request, NEW t \in Token, IssueToken(p, t) PROVE LinksHold'
  <2>1. /\ kind[t] = None /\ phase[p] = "superseding" /\ offer[p] \in Kind /\ account[p] \in Account
        /\ kind' = [kind EXCEPT ![t] = offer[p]]
        /\ holder' = [holder EXCEPT ![t] = account[p]]
        /\ consumed' = [s \in Token |-> consumed[s] \/ s \in todo[p]]
        /\ phase' = [phase EXCEPT ![p] = "mail"]
        /\ link' = [link EXCEPT ![p] = t]
        /\ \A s \in todo[p] : kind[s] = offer[p]
        /\ UNCHANGED <<lock, mailed, uses>>
    BY <1>6 DEF IssueToken, Tokens
  <2>2. \A s \in Token : lock[s] # None => phase'[lock[s]] = "claimed" /\ link'[lock[s]] = s
    BY <2>1
  <2>3. \A s \in Issued : kind'[s] # None /\ holder'[s] = holder[s]
    BY <2>1
  <2>4. \A s \in Token : consumed'[s] => kind'[s] # None
    BY <2>1
  <2>5. \A s \in Token : kind'[s] # None => holder'[s] \in Account
    BY <2>1
  <2>6. \A s \in Token : uses[s] > 0 => s \in mailed /\ consumed'[s]
    BY <2>1
  <2>7. QED
    BY <2>1, <2>2, <2>3, <2>4, <2>5, <2>6
<1>7. ASSUME NEW p \in Request, OutOfTokens(p) PROVE LinksHold'
  BY <1>7 DEF OutOfTokens
<1>8. ASSUME NEW p \in Request, Dispatch(p) PROVE LinksHold'
  BY <1>8 DEF Dispatch
<1>9. ASSUME NEW p \in Request, NEW t \in Token, OpenLink(p, t) PROVE LinksHold'
  BY <1>9 DEF OpenLink, Present
<1>10. ASSUME NEW p \in Request, ShowAlreadyVerified(p) PROVE LinksHold'
  BY <1>10 DEF ShowAlreadyVerified
<1>11. ASSUME NEW p \in Request, ConsumeLink(p) PROVE LinksHold'
  BY <1>11 DEF ConsumeLink
<1>12. ASSUME NEW p \in Request, NEW t \in Token, SubmitPassword(p, t) PROVE LinksHold'
  BY <1>12 DEF SubmitPassword, Present, IsRedeemable
<1>13. ASSUME NEW p \in Request, ClaimToken(p) PROVE LinksHold'
  <2>1. UNCHANGED <<kind, holder, consumed, mailed, uses>>
    BY <1>13 DEF ClaimToken
  <2>2. CASE /\ phase' = [phase EXCEPT ![p] = "claimed"]
             /\ lock' = [lock EXCEPT ![link[p]] = p] /\ UNCHANGED work
    BY <1>13, <2>1, <2>2 DEF ClaimToken, Locked
  <2>3. CASE Finish(p) /\ UNCHANGED lock
    BY <1>13, <2>1, <2>3 DEF ClaimToken
  <2>4. QED
    BY <1>13, <2>2, <2>3 DEF ClaimToken
<1>14. ASSUME NEW p \in Request, CommitReset(p) PROVE LinksHold'
  BY <1>14 DEF CommitReset, WriteUser
<1>15. ASSUME NEW p \in Request, Crash(p) PROVE LinksHold'
  BY <1>15 DEF Crash
<1>16. CASE Tick
  BY <1>16 DEF Tick
<1>17. CASE UNCHANGED vars
  BY <1>17 DEF vars
<1>18. ASSUME NEW p \in Request, Arrive(p) PROVE LinksHold'
  BY <1>1, <1>2, <1>9, <1>12, <1>18 DEF Arrive
<1>19. ASSUME NEW p \in Request, Proceed(p) PROVE LinksHold'
  BY <1>3, <1>4, <1>5, <1>6, <1>7, <1>8, <1>10, <1>11, <1>13, <1>14, <1>19 DEF Proceed
<1>20. QED
  BY <1>15, <1>16, <1>17, <1>18, <1>19 DEF Next

--------------------------------------------------------

(* Steps that issue, mail and redeem nothing and verify nobody leave the   *)
(* three promises as they were.                                            *)
LEMMA QuietStepKeepsPromises ==
  ASSUME LinkInv, UNCHANGED <<kind, holder, consumed, uses, mailed, verified>>
  PROVE  ResetOnce' /\ NobodyIsStranded' /\ VerifiedByLink'
BY DEF LinkInv, ResetOnce, NobodyIsStranded, VerifiedByLink, Tokens

(* A fresh link takes the place of the links it supersedes.                *)
LEMMA IssueKeepsPromises ==
  ASSUME LinkInv, NEW p \in Request, NEW t \in Token, IssueToken(p, t)
  PROVE  ResetOnce' /\ NobodyIsStranded' /\ VerifiedByLink'
<1> USE DEF LinkInv, TypeOK, LinksHold, Issued
<1>1. /\ kind[t] = None /\ offer[p] \in Kind /\ account[p] \in Account
      /\ kind' = [kind EXCEPT ![t] = offer[p]]
      /\ holder' = [holder EXCEPT ![t] = account[p]]
      /\ consumed' = [s \in Token |-> consumed[s] \/ s \in todo[p]]
      /\ todo[p] \subseteq Tokens(offer[p], account[p])
      /\ UNCHANGED <<mailed, uses, verified>>
  BY DEF RequestsHold, RequestHolds, IssueToken, users
<1>2. uses[t] = 0 /\ t \notin mailed /\ t \notin todo[p]
  BY <1>1, NoneAssumption DEF Tokens
<1>3. ResetOnce'
  BY <1>1, <1>2 DEF ResetOnce
<1>4. ASSUME NEW a \in Account, NEW k \in Kind, Tokens(k, a)' # {}
      PROVE  \E x \in Tokens(k, a)' : ~ consumed'[x] \/ uses'[x] > 0
  <2>1. CASE k = offer[p] /\ a = account[p]
    <3>1. t \in Tokens(k, a)'
      BY <1>1, <2>1 DEF Tokens
    <3>2. ~ consumed'[t]
      BY <1>1, <1>2
    <3>3. QED
      BY <3>1, <3>2
  <2>2. CASE ~ (k = offer[p] /\ a = account[p])
    <3>1. Tokens(k, a)' = Tokens(k, a)
      BY <1>1, <2>2, NoneAssumption DEF Tokens
    <3>2. PICK x \in Tokens(k, a) : ~ consumed[x] \/ uses[x] > 0
      BY <1>4, <3>1 DEF NobodyIsStranded
    <3>3. x \notin todo[p]
      BY <1>1, <2>2, <3>2 DEF Tokens
    <3>4. QED
      BY <1>1, <3>1, <3>2, <3>3 DEF Tokens
  <2>3. QED
    BY <2>1, <2>2
<1>5. VerifiedByLink'
  BY <1>1, <1>2 DEF VerifiedByLink
<1>6. QED
  BY <1>3, <1>4, <1>5 DEF NobodyIsStranded

(* A link that is redeemed verifies its holder, and is its own witness.    *)
LEMMA RedeemKeepsPromises ==
  ASSUME LinkInv, TypeOK', NEW p \in Request, ConsumeLink(p) \/ CommitReset(p)
  PROVE  ResetOnce' /\ NobodyIsStranded' /\ VerifiedByLink'
<1> DEFINE t == link[p]
<1> USE DEF LinkInv, TypeOK, LinksHold, Issued
<1>1. /\ t \in mailed /\ t \in Token /\ holder[t] \in Account
      /\ kind[t] = "reset" => uses[t] = 0
      /\ consumed' = [consumed EXCEPT ![t] = TRUE]
      /\ verified' = [verified EXCEPT ![holder[t]] = TRUE]
      /\ uses' = [uses EXCEPT ![t] = uses[t] + 1]
      /\ UNCHANGED <<kind, holder, mailed>>
  BY DEF RequestsHold, RequestHolds, ConsumeLink, CommitReset, WriteUser, table
<1>2. ResetOnce'
  BY <1>1 DEF ResetOnce
<1>3. NobodyIsStranded'
  <2>1. ASSUME NEW a \in Account, NEW k \in Kind, Tokens(k, a)' # {}
        PROVE  \E x \in Tokens(k, a)' : ~ consumed'[x] \/ uses'[x] > 0
    <3>1. Tokens(k, a)' = Tokens(k, a)
      BY <1>1 DEF Tokens
    <3>2. PICK x \in Tokens(k, a) : ~ consumed[x] \/ uses[x] > 0
      BY <2>1, <3>1 DEF NobodyIsStranded
    <3>3. x \in Token /\ x \in Tokens(k, a)'
      BY <3>1, <3>2 DEF Tokens
    <3>4. ~ consumed'[x] \/ uses'[x] > 0
      <4>1. CASE x = t
        BY <1>1, <4>1
      <4>2. CASE x # t
        BY <1>1, <3>2, <3>3, <4>2
      <4>3. QED
        BY <4>1, <4>2
    <3>5. QED
      BY <3>3, <3>4
  <2>2. QED
    BY <2>1 DEF NobodyIsStranded
<1>4. VerifiedByLink'
  <2>1. ASSUME NEW a \in Account
        PROVE  verified'[a] <=> \E x \in mailed' : holder'[x] = a /\ uses'[x] > 0
    <3>1. CASE a = holder[t]
      BY <1>1, <3>1
    <3>2. CASE a # holder[t]
      <4>1. verified'[a] <=> verified[a]
        BY <1>1, <3>2
      <4>2. \A x \in mailed : holder[x] = a => uses'[x] = uses[x]
        BY <1>1, <3>2
      <4>3. QED
        BY <1>1, <4>1, <4>2 DEF VerifiedByLink
    <3>3. QED
      BY <3>1, <3>2
  <2>2. QED
    BY <2>1 DEF VerifiedByLink
<1>5. QED
  BY <1>2, <1>3, <1>4

(* Handing a link to the mail transport redeems nothing.                   *)
LEMMA DispatchKeepsPromises ==
  ASSUME LinkInv, NEW p \in Request, Dispatch(p)
  PROVE  ResetOnce' /\ NobodyIsStranded' /\ VerifiedByLink'
<1>1. mailed' = mailed \cup {link[p]} /\ link[p] \in Token
      /\ UNCHANGED <<kind, holder, consumed, uses, verified>>
  BY DEF Dispatch, users, table, LinkInv, RequestsHold, RequestHolds, Issued
<1>2. \A x \in Token : uses[x] > 0 => x \in mailed
  BY DEF LinkInv, LinksHold
<1>3. ResetOnce' /\ NobodyIsStranded'
  BY <1>1 DEF LinkInv, ResetOnce, NobodyIsStranded, Tokens
<1>4. VerifiedByLink'
  BY <1>1, <1>2 DEF LinkInv, LinksHold, TypeOK, Issued, VerifiedByLink
<1>5. QED
  BY <1>3, <1>4

LEMMA StepKeepsPromises ==
  LinkInv /\ TypeOK' /\ [Next]_vars => ResetOnce' /\ NobodyIsStranded' /\ VerifiedByLink'
<1> SUFFICES ASSUME LinkInv, TypeOK', [Next]_vars
             PROVE  ResetOnce' /\ NobodyIsStranded' /\ VerifiedByLink'
  OBVIOUS
<1> DEFINE Quiet == UNCHANGED <<kind, holder, consumed, uses, mailed, verified>>
<1>1. \/ \E p \in Request, t \in Token : IssueToken(p, t)
      \/ \E p \in Request : ConsumeLink(p) \/ CommitReset(p)
      \/ \E p \in Request : Dispatch(p)
      \/ Quiet
  <2> USE DEF users, table
  <2>1. CASE Tick \/ UNCHANGED vars \/ \E p \in Request : Crash(p)
    BY <2>1 DEF Tick, Crash, vars
  <2>2. ASSUME NEW p \in Request, Arrive(p) PROVE Quiet
    BY <2>2 DEF Arrive, Register, CreateUser, Ask, OpenLink, SubmitPassword
  <2>3. CASE \E p \in Request : Proceed(p)
    BY <2>3 DEF Proceed, LookUp, CheckThrottle, Supersede, OutOfTokens, ShowAlreadyVerified, ClaimToken
  <2>4. QED
    BY <2>1, <2>2, <2>3 DEF Next
<1>2. QED
  BY <1>1, QuietStepKeepsPromises, IssueKeepsPromises, RedeemKeepsPromises, DispatchKeepsPromises

-----------------------------------------------------------------------------
(* Steps that leave the tokens alone, and take no snapshot of them, keep   *)
(* the newest where it was.                                                *)
LEMMA QuietStepKeepsNewest ==
  ASSUME LinkInv, TypeOK', UNCHANGED <<kind, holder, createdAt, consumed>>,
         \A a \in Account : verified[a] => verified'[a], clock <= clock',
         \A p \in Request : phase'[p] = "superseding" =>
            phase[p] = "superseding" /\ start'[p] = start[p] /\ todo'[p] = todo[p]
  PROVE  NewestIsLive'
<1> USE DEF LinkInv, NewestIsLive
<1>1. Issued' = Issued /\ \A t \in Issued : createdAt'[t] <= clock'
  <2>1. Issued' = Issued
    BY DEF Issued
  <2>2. \A t \in Issued : createdAt[t] \in Nat /\ createdAt[t] <= clock /\ clock \in Nat /\ clock' \in Nat
    BY DEF TypeOK, Issued
  <2>3. QED
    BY <2>1, <2>2
<1>2. ASSUME NEW p \in Request, phase'[p] = "superseding"
      PROVE  start'[p] <= clock' /\ \A s \in todo'[p] : createdAt'[s] <= start'[p]
  <2>1. start[p] <= clock /\ (\A s \in todo[p] : createdAt[s] <= start[p])
        /\ start'[p] = start[p] /\ todo'[p] = todo[p]
    BY <1>2
  <2>2. start[p] \in Nat /\ clock \in Nat /\ clock' \in Nat
    BY DEF TypeOK
  <2>3. QED
    BY <2>1, <2>2
<1>3. ASSUME NEW a \in Account, ~ verified'[a], NEW t \in Tokens("verification", a)'
      PROVE  \E s \in Unconsumed("verification", a)' : createdAt'[t] <= createdAt'[s]
  BY <1>3 DEF Tokens, Unconsumed
<1>4. QED
  BY <1>1, <1>2, <1>3

(* The snapshot is of tokens made by now.                                  *)
LEMMA SupersedeKeepsNewest ==
  ASSUME LinkInv, TypeOK', NEW p \in Request, Supersede(p)
  PROVE  NewestIsLive'
<1> USE DEF LinkInv, NewestIsLive
<1>1. /\ phase' = [phase EXCEPT ![p] = "superseding"]
      /\ start' = [start EXCEPT ![p] = clock]
      /\ todo' = [todo EXCEPT ![p] = Unconsumed(offer[p], account[p])]
      /\ UNCHANGED <<kind, holder, createdAt, consumed, verified, clock>>
  BY DEF Supersede, Goto, users, table
<1>2. clock \in Nat /\ phase \in [Request -> Phase] /\ start \in [Request -> Nat] /\ todo \in [Request -> SUBSET Token]
  BY DEF TypeOK
<1>3. ASSUME NEW q \in Request, phase'[q] = "superseding"
      PROVE  start'[q] <= clock' /\ \A s \in todo'[q] : createdAt'[s] <= start'[q]
  <2>1. CASE q = p
    <3>1. start'[p] = clock /\ todo'[p] = Unconsumed(offer[p], account[p])
      BY <1>1, <1>2
    <3>2. \A s \in Unconsumed(offer[p], account[p]) : s \in Issued
      BY NoneAssumption DEF Unconsumed, Tokens, Issued, RequestsHold, RequestHolds, Supersede
    <3>3. QED
      BY <1>1, <1>2, <2>1, <3>1, <3>2
  <2>2. CASE q # p
    BY <1>1, <1>2, <1>3, <2>2
  <2>3. QED
    BY <2>1, <2>2
<1>4. QED
  BY <1>1, <1>3 DEF Issued, Tokens, Unconsumed

(* The token that is issued is as new as any that it supersedes.           *)
LEMMA IssueKeepsNewest ==
  ASSUME LinkInv, TypeOK', NEW p \in Request, NEW t \in Token, IssueToken(p, t)
  PROVE  NewestIsLive'
<1> USE DEF LinkInv, NewestIsLive
<1>1. /\ kind[t] = None /\ offer[p] \in Kind /\ phase[p] = "superseding"
      /\ kind' = [kind EXCEPT ![t] = offer[p]]
      /\ holder' = [holder EXCEPT ![t] = account[p]]
      /\ createdAt' = [createdAt EXCEPT ![t] = start[p]]
      /\ consumed' = [s \in Token |-> consumed[s] \/ s \in todo[p]]
      /\ phase' = [phase EXCEPT ![p] = "mail"]
      /\ todo[p] \subseteq Tokens(offer[p], account[p])
      /\ UNCHANGED <<start, todo, clock, verified>>
  BY DEF IssueToken, RequestsHold, RequestHolds, Goto, users, Issued
<1>2. /\ kind \in [Token -> Kind \cup {None}] /\ holder \in [Token -> Account \cup {None}]
      /\ createdAt \in [Token -> Nat] /\ phase \in [Request -> Phase] /\ consumed \in [Token -> BOOLEAN]
      /\ start \in [Request -> Nat] /\ todo \in [Request -> SUBSET Token] /\ clock \in Nat
  BY DEF TypeOK
<1>3. /\ start[p] <= clock /\ \A s \in todo[p] : createdAt[s] <= start[p]
      /\ ~ consumed[t] /\ \A q \in Request : phase[q] = "superseding" => t \notin todo[q]
  <2>1. start[p] <= clock /\ \A s \in todo[p] : createdAt[s] <= start[p]
    BY <1>1
  <2>2. ~ consumed[t]
    BY <1>1 DEF LinksHold, Issued
  <2>3. \A q \in Request : phase[q] = "superseding" => t \notin todo[q]
    BY <1>1, NoneAssumption DEF RequestsHold, RequestHolds, Tokens
  <2>4. QED
    BY <2>1, <2>2, <2>3
<1>4. \A x \in Issued' : createdAt'[x] <= clock'
  <2>1. SUFFICES ASSUME NEW x \in Issued' PROVE createdAt'[x] <= clock
    BY <1>1
  <2>2. CASE x = t
    BY <1>1, <1>2, <1>3, <2>2
  <2>3. CASE x # t
    <3>1. x \in Issued /\ createdAt'[x] = createdAt[x]
      BY <1>1, <1>2, <2>3 DEF Issued
    <3>2. QED
      BY <3>1
  <2>4. QED
    BY <2>2, <2>3
<1>5. ASSUME NEW q \in Request, phase'[q] = "superseding"
      PROVE  start'[q] <= clock' /\ \A s \in todo'[q] : createdAt'[s] <= start'[q]
  <2>1. phase[q] = "superseding" /\ t \notin todo[q] /\ todo[q] \subseteq Token
    BY <1>1, <1>2, <1>3, <1>5
  <2>2. \A s \in todo[q] : createdAt'[s] = createdAt[s]
    BY <1>1, <1>2, <2>1
  <2>3. QED
    BY <1>1, <2>1, <2>2
<1>6. ASSUME NEW a \in Account, ~ verified'[a], NEW x \in Tokens("verification", a)'
      PROVE  \E s \in Unconsumed("verification", a)' : createdAt'[x] <= createdAt'[s]
  <2>1. ASSUME t \in Unconsumed("verification", a)', NEW y \in todo[p], createdAt[x] <= createdAt[y], x # t
        PROVE  createdAt'[x] <= createdAt'[t]
    <3>1. x \in Token /\ y \in Token /\ createdAt'[x] = createdAt[x] /\ createdAt'[t] = start[p]
      BY <1>1, <1>2, <2>1 DEF Tokens
    <3>2. createdAt[y] <= start[p] /\ createdAt[y] \in Nat /\ createdAt[x] \in Nat /\ start[p] \in Nat
      BY <1>2, <1>3, <3>1
    <3>3. QED
      BY <2>1, <3>1, <3>2
  <2>2. ~ consumed'[t]
    BY <1>1, <1>3
  <2>3. CASE x = t
    <3>1. t \in Unconsumed("verification", a)'
      BY <2>2, <2>3 DEF Unconsumed
    <3>2. createdAt'[t] \in Nat
      BY DEF TypeOK
    <3>3. QED
      BY <2>3, <3>1, <3>2
  <2>4. CASE x # t
    <3>1. x \in Tokens("verification", a)
      BY <1>1, <1>2, <2>4 DEF Tokens
    <3>2. PICK y \in Unconsumed("verification", a) : createdAt[x] <= createdAt[y]
      BY <1>1, <1>6, <3>1
    <3>3. y # t /\ y \in Token /\ x \in Token
      BY <1>1, <3>1, <3>2, NoneAssumption DEF Unconsumed, Tokens, Kind
    <3>4. CASE y \in todo[p]
      <4>1. offer[p] = "verification" /\ account[p] = a
        BY <1>1, <3>2, <3>4 DEF Unconsumed, Tokens
      <4>2. t \in Unconsumed("verification", a)'
        BY <1>1, <1>2, <2>2, <4>1 DEF Unconsumed, Tokens
      <4>3. QED
        BY <2>1, <2>4, <3>2, <3>4, <4>2
    <3>5. CASE y \notin todo[p]
      <4>1. y \in Unconsumed("verification", a)'
        BY <1>1, <1>2, <3>2, <3>3, <3>5 DEF Unconsumed, Tokens
      <4>2. createdAt'[x] <= createdAt'[y]
        BY <1>1, <1>2, <2>4, <3>2, <3>3
      <4>3. QED
        BY <4>1, <4>2
    <3>6. QED
      BY <3>4, <3>5
  <2>5. QED
    BY <2>3, <2>4
<1>7. QED
  BY <1>4, <1>5, <1>6

(* The holder of a verification link that is redeemed is verified; a reset *)
(* link is of another kind.                                                *)
LEMMA RedeemKeepsNewest ==
  ASSUME LinkInv, TypeOK', NEW p \in Request, ConsumeLink(p) \/ CommitReset(p)
  PROVE  NewestIsLive'
<1> DEFINE t == link[p]
<1> USE DEF LinkInv, NewestIsLive
<1>1. /\ t \in Token /\ holder[t] \in Account
      /\ consumed' = [consumed EXCEPT ![t] = TRUE]
      /\ verified' = [verified EXCEPT ![holder[t]] = TRUE]
      /\ phase' = [phase EXCEPT ![p] = "idle"]
      /\ start' = [start EXCEPT ![p] = 0] /\ todo' = [todo EXCEPT ![p] = {}]
      /\ UNCHANGED <<kind, holder, createdAt, clock>>
  BY DEF RequestsHold, RequestHolds, LinksHold, TypeOK, Issued, ConsumeLink, CommitReset, WriteUser, table, Finish, Goto
<1>2. phase \in [Request -> Phase] /\ consumed \in [Token -> BOOLEAN] /\ verified \in [Account -> BOOLEAN]
      /\ start \in [Request -> Nat] /\ todo \in [Request -> SUBSET Token]
  BY DEF TypeOK
<1>3. ASSUME NEW q \in Request, phase'[q] = "superseding"
      PROVE  start'[q] <= clock' /\ \A s \in todo'[q] : createdAt'[s] <= start'[q]
  BY <1>1, <1>2, <1>3
<1>4. ASSUME NEW a \in Account, ~ verified'[a], NEW x \in Tokens("verification", a)'
      PROVE  \E s \in Unconsumed("verification", a)' : createdAt'[x] <= createdAt'[s]
  <2>1. a # holder[t] /\ ~ verified[a]
    BY <1>1, <1>2, <1>4
  <2>2. PICK s \in Unconsumed("verification", a) : createdAt[x] <= createdAt[s]
    BY <1>1, <1>4, <2>1 DEF Tokens
  <2>3. s # t /\ s \in Unconsumed("verification", a)'
    BY <1>1, <1>2, <2>1, <2>2 DEF Unconsumed, Tokens
  <2>4. QED
    BY <1>1, <2>2, <2>3
<1>5. QED
  BY <1>1, <1>3, <1>4 DEF Issued

LEMMA StepKeepsNewest == LinkInv /\ TypeOK' /\ [Next]_vars => NewestIsLive'
<1> SUFFICES ASSUME LinkInv, TypeOK', [Next]_vars PROVE NewestIsLive'
  OBVIOUS
<1> DEFINE Quiet == /\ UNCHANGED <<kind, holder, createdAt, consumed, verified>>
                    /\ clock <= clock'
                    /\ \A p \in Request : phase'[p] = "superseding" =>
                          phase[p] = "superseding" /\ start'[p] = start[p] /\ todo'[p] = todo[p]
<1>1. \/ \E p \in Request, t \in Token : IssueToken(p, t)
      \/ \E p \in Request : ConsumeLink(p) \/ CommitReset(p)
      \/ \E p \in Request : Supersede(p)
      \/ Quiet
  <2>1. /\ clock \in Nat /\ phase \in [Request -> Phase]
        /\ start \in [Request -> Nat] /\ todo \in [Request -> SUBSET Token]
    BY DEF LinkInv, TypeOK
  <2> USE DEF users, table, work, Goto, Finish
  <2>2. ASSUME NEW p \in Request, Arrive(p) PROVE Quiet
    BY <2>1, <2>2 DEF Arrive, Register, CreateUser, Ask, OpenLink, SubmitPassword, StartOffer, Present
  <2>3. ASSUME NEW p \in Request,
               LookUp(p) \/ CheckThrottle(p) \/ OutOfTokens(p) \/ Dispatch(p) \/ ShowAlreadyVerified(p) \/ ClaimToken(p)
        PROVE  Quiet
    BY <2>1, <2>3 DEF LookUp, CheckThrottle, OutOfTokens, Dispatch, ShowAlreadyVerified, ClaimToken
  <2>4. ASSUME NEW p \in Request, Crash(p) PROVE Quiet
    BY <2>1, <2>4 DEF Crash
  <2>5. CASE Tick
    BY <2>1, <2>5 DEF Tick
  <2>6. CASE UNCHANGED vars
    BY <2>1, <2>6 DEF vars
  <2>7. QED
    BY <2>2, <2>3, <2>4, <2>5, <2>6 DEF Next, Proceed
<1>2. ASSUME Quiet PROVE NewestIsLive'
  BY <1>2, QuietStepKeepsNewest
<1>3. QED
  BY <1>1, <1>2, IssueKeepsNewest, RedeemKeepsNewest, SupersedeKeepsNewest

-----------------------------------------------------------------------------
(* The inductive invariant holds in every reachable state.                 *)
THEOREM LinkInvariant == Spec => []LinkInv
<1>1. LinkInv /\ [Next]_vars => LinkInv'
  BY StepKeepsTypes, StepKeepsRequests, StepKeepsLinks, StepKeepsNewest, StepKeepsPromises DEF LinkInv
<1>2. QED
  BY InitLinkInv, <1>1, PTL DEF Spec

(* However its submissions and the links that supersede it interleave, a   *)
(* reset link changes the password at most once.                           *)
THEOREM ResetHappensOnce == Spec => []ResetOnce
BY LinkInvariant, PTL DEF LinkInv

(* An account that was ever issued a link has one that can still be used,  *)
(* or one that was, expiry apart.                                          *)
THEOREM LinksAreReplaced == Spec => []NobodyIsStranded
BY LinkInvariant, PTL DEF LinkInv

(* Exactly the accounts that redeemed a mailed link are verified.          *)
THEOREM VerificationNeedsLink == Spec => []VerifiedByLink
BY LinkInvariant, PTL DEF LinkInv

(* Only a live reset link of the account, mailed to it, changes the        *)
(* password of an account that exists.                                     *)
THEOREM PasswordChanges == Spec => PasswordNeedsLink
<1> DEFINE Step == \A a \in registered : password'[a] # password[a] =>
         \E t \in Tokens("reset", a) :
             password'[a] = t /\ ~ consumed[t] /\ consumed'[t] /\ t \in mailed
<1>1. LinkInv /\ [Next]_vars => Step
  <2> SUFFICES ASSUME LinkInv, [Next]_vars, NEW a \in registered, password'[a] # password[a]
               PROVE  \E t \in Tokens("reset", a) :
                        password'[a] = t /\ ~ consumed[t] /\ consumed'[t] /\ t \in mailed
    OBVIOUS
  <2> USE DEF users
  <2>1. PICK p \in Request : CommitReset(p)
    <3>1. a \in Account
      BY DEF LinkInv, TypeOK
    <3>2. CASE \E p \in Request : Arrive(p)
      BY <3>1, <3>2 DEF Arrive, Register, CreateUser, Ask, OpenLink, SubmitPassword, LinkInv, TypeOK
    <3>3. CASE \E p \in Request : Proceed(p)
      BY <3>3 DEF Proceed, LookUp, CheckThrottle, Supersede, OutOfTokens, IssueToken, Dispatch,
                  ShowAlreadyVerified, ConsumeLink, ClaimToken
    <3>4. CASE (\E p \in Request : Crash(p)) \/ Tick \/ UNCHANGED vars
      BY <3>4 DEF Crash, Tick, vars
    <3>5. QED
      BY <3>2, <3>3, <3>4 DEF Next
  <2>2. /\ password' = [password EXCEPT ![holder[link[p]]] = link[p]]
        /\ consumed' = [consumed EXCEPT ![link[p]] = TRUE]
    BY <2>1 DEF CommitReset, WriteUser
  <2>3. link[p] \in mailed /\ link[p] \in Token /\ kind[link[p]] = "reset" /\ ~ consumed[link[p]]
    BY <2>1 DEF CommitReset, LinkInv, RequestsHold, RequestHolds, TypeOK
  <2>4. a = holder[link[p]] /\ password'[a] = link[p]
    BY <2>2 DEF LinkInv, TypeOK
  <2>5. QED
    BY <2>2, <2>3, <2>4 DEF Tokens, LinkInv, TypeOK
<1>2. QED
  BY LinkInvariant, <1>1, PTL DEF Spec, PasswordNeedsLink

(* Of things that happened by some time, one happened last.                *)
LEMMA SomeIsLatest ==
  ASSUME NEW S, S # {}, NEW n \in Nat, NEW f \in [S -> Nat], \A x \in S : f[x] <= n
  PROVE  \E x \in S : \A y \in S : f[y] <= f[x]
<1> DEFINE T == {n - f[x] : x \in S}
<1>1. T \subseteq Nat /\ T # {}
  OBVIOUS
<1>2. PICK m \in T : \A k \in T : <<k, m>> \notin OpToRel(<, Nat)
  BY <1>1, NatLessThanWellFounded, WFMin
<1>3. \A k \in T : ~ k < m
  BY <1>1, <1>2 DEF OpToRel
<1>4. PICK x \in S : m = n - f[x]
  OBVIOUS
<1>5. ASSUME NEW y \in S PROVE f[y] <= f[x]
  <2>1. ~ (n - f[y] < n - f[x])
    BY <1>3, <1>4
  <2>2. QED
    BY <2>1
<1>6. QED
  BY <1>5

(* The throttle of a verification mail cannot be talked out of its window: *)
(* the link it looks at is the newest the account was mailed.              *)
THEOREM MailsAreThrottled == Spec => ThrottleCountsMails
<1> DEFINE Step == \A p \in Request :
                     /\ phase[p] = "throttle" /\ phase'[p] = "issue"
                     /\ offer[p] = "verification" /\ ~ verified[account[p]]
                     => \A t \in mailed \cap Tokens("verification", account[p]) :
                            clock - createdAt[t] >= Throttle
<1>1. LinkInv /\ [Next]_vars => Step
  <2>1. SUFFICES ASSUME LinkInv, [Next]_vars, NEW p \in Request,
                        phase[p] = "throttle", phase'[p] = "issue",
                        offer[p] = "verification", ~ verified[account[p]],
                        NEW t \in Tokens("verification", account[p])
                 PROVE  clock - createdAt[t] >= Throttle
    OBVIOUS
  <2> DEFINE a == account[p]
             S == Unconsumed("verification", a)
  <2>2. a \in Account
    BY <2>1 DEF LinkInv, RequestsHold, RequestHolds
  <2>3. ~ IsThrottled("verification", a)
    <3>1. CheckThrottle(p)
      <4>1. phase \in [Request -> Phase] /\ phase' # phase
        BY <2>1 DEF LinkInv, TypeOK
      <4>2. QED
        BY <2>1, <4>1
           DEF Next, Arrive, Register, Ask, StartOffer, OpenLink, SubmitPassword, Present, Proceed, LookUp, CheckThrottle,
               Supersede, IssueToken, OutOfTokens, Dispatch, ShowAlreadyVerified, ConsumeLink, ClaimToken,
               CommitReset, Crash, Tick, Finish, Goto, vars
    <3>2. CheckThrottle(p) /\ IsThrottled(offer[p], account[p]) => phase' = [phase EXCEPT ![p] = "idle"]
      BY DEF CheckThrottle, Finish, Goto
    <3>3. phase \in [Request -> Phase]
      BY <2>1 DEF LinkInv, TypeOK
    <3>4. QED
      BY <2>1, <3>1, <3>2, <3>3
  <2>4. PICK s \in S : createdAt[t] <= createdAt[s]
    BY <2>1, <2>2 DEF LinkInv, NewestIsLive
  <2>5. /\ S \subseteq Issued /\ S \subseteq Token /\ t \in Token
        /\ createdAt \in [Token -> Nat] /\ clock \in Nat
    BY <2>1, NoneAssumption DEF LinkInv, TypeOK, Unconsumed, Tokens, Issued, Kind
  <2>6. \A x \in S : createdAt[x] <= clock /\ createdAt[x] \in Nat
    BY <2>1, <2>5 DEF LinkInv, NewestIsLive
  <2>7. PICK x \in S : \A y \in S : createdAt[y] <= createdAt[x]
    <3> DEFINE f == [y \in S |-> createdAt[y]]
    <3> HIDE DEF S
    <3>1. f \in [S -> Nat] /\ \A y \in S : f[y] <= clock
      BY <2>6
    <3>2. \A y \in S : f[y] = createdAt[y]
      OBVIOUS
    <3> HIDE DEF f
    <3>3. \E y \in S : \A z \in S : f[z] <= f[y]
      BY <2>4, <2>5, <3>1, SomeIsLatest
    <3>4. QED
      BY <3>2, <3>3
  <2>8. clock - createdAt[x] >= Throttle
    <3>1. ~ (clock - createdAt[x] < Throttle)
      BY <2>3, <2>7 DEF IsThrottled
    <3>2. clock - createdAt[x] \in Int /\ Throttle \in Int
      BY <2>5, <2>6, TimeAssumption
    <3>3. QED
      BY <3>1, <3>2
  <2>9. createdAt[t] <= createdAt[x]
    <3>1. createdAt[t] \in Nat /\ createdAt[s] \in Nat /\ createdAt[x] \in Nat /\ createdAt[s] <= createdAt[x]
      BY <2>5, <2>6, <2>7
    <3>2. QED
      BY <2>4, <3>1
  <2>10. createdAt[t] \in Nat /\ createdAt[x] \in Nat /\ clock \in Nat /\ Throttle \in Nat
    BY <2>5, <2>6, TimeAssumption
  <2>11. QED
    BY <2>8, <2>9, <2>10
<1>2. QED
  BY <1>1, LinkInvariant, PTL DEF Spec, ThrottleCountsMails

=============================================================================
