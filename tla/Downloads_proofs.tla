-------------------------- MODULE Downloads_proofs --------------------------
(***************************************************************************)
(* Proofs about a download: its token (DownloadTokens, for every set of    *)
(* accounts, tokens, requests and sheets and every lifetime) and its       *)
(* content (Export, for every set of expenses, dates and receipts, every   *)
(* batch size and any number of edits).  The two share no variable and no  *)
(* definition, and each theorem is about one of them: DownloadInv makes a  *)
(* token a link that opens once, for its owner and in time; ExportInv      *)
(* makes the ledger right about every expense that is left alone.          *)
(***************************************************************************)
EXTENDS DownloadTokens, Export, FiniteSetTheorems, TLAPS

-----------------------------------------------------------------------------
LEMMA InitDownloadInv == Init => DownloadInv
BY NoneAssumption
   DEF Init, DownloadInv, TypeOK, RequestsWork, LocksHold, UseIsAccountedFor, Redeeming, SheetsWork,
       Phase, Call

(* Every step keeps the types.                                             *)
LEMMA StepKeepsTypes == DownloadInv /\ [Next]_vars => TypeOK'
<1> SUFFICES ASSUME DownloadInv, [Next]_vars PROVE TypeOK'
  OBVIOUS
<1> USE NoneAssumption, TimeAssumption, AccountAssumption
    DEF DownloadInv, TypeOK, Phase, Call, table, request, sheet, history
<1>1. ASSUME NEW s \in Screen, NEW k \in {"csv", "zip"}, Press(s, k) PROVE TypeOK'
  BY <1>1 DEF Press
<1>2. ASSUME NEW s \in Screen, NEW t \in Token, Mint(s, t) PROVE TypeOK'
  BY <1>2 DEF Mint
<1>3. ASSUME NEW s \in Screen, MintFailed(s) PROVE TypeOK'
  BY <1>3 DEF MintFailed
<1>4. ASSUME NEW s \in Screen, Navigate(s) PROVE TypeOK'
  BY <1>4 DEF Navigate, Settle, SheetsWork
<1>5. ASSUME NEW s \in Screen, ReportFailure(s) PROVE TypeOK'
  BY <1>5 DEF ReportFailure, Settle
<1>6. ASSUME NEW s \in Screen, CsvReturns(s) PROVE TypeOK'
  BY <1>6 DEF CsvReturns, Settle
<1>7. ASSUME NEW s \in Screen, CsvCutOff(s) PROVE TypeOK'
  BY <1>7 DEF CsvCutOff
<1>8. ASSUME NEW p \in Request, NEW u \in User, ArriveWithBearer(p, u) PROVE TypeOK'
  BY <1>8 DEF ArriveWithBearer
<1>9. ASSUME NEW p \in Request, NEW t \in Token, Arrive(p, t) PROVE TypeOK'
  BY <1>9 DEF Arrive
<1>10. ASSUME NEW p \in Request, Claim(p) PROVE TypeOK'
  <2>1. token[p] \in Token
    BY <1>10 DEF Claim, RequestsWork
  <2>2. CASE Redeemable(token[p], start[p])
    <3>1. /\ lock' = [lock EXCEPT ![token[p]] = p] /\ phase' = [phase EXCEPT ![p] = "claimed"]
          /\ UNCHANGED <<token, user, start, table, sheet, clock, history>>
      BY <1>10, <2>2 DEF Claim
    <3>2. QED
      BY <2>1, <3>1
  <2>3. CASE ~ Redeemable(token[p], start[p])
    <3>1. Finish(p) /\ UNCHANGED <<lock, table, sheet, clock, history>>
      BY <1>10, <2>3 DEF Claim
    <3>2. QED
      BY <3>1 DEF Finish
  <2>4. QED
    BY <2>2, <2>3
<1>11. ASSUME NEW p \in Request, Commit(p) PROVE TypeOK'
  <2>1. token[p] \in Token /\ owner[token[p]] \in User
    BY <1>11 DEF Commit, RequestsWork, UseIsAccountedFor
  <2>2. usedAt' \in [Token -> Nat \cup {None}] /\ lock' \in [Token -> Request \cup {None}]
    BY <1>11, <2>1 DEF Commit
  <2>3. QED
    BY <1>11, <2>1, <2>2 DEF Commit
<1>12. ASSUME NEW p \in Request, RollBack(p) PROVE TypeOK'
  BY <1>12 DEF RollBack, Finish
<1>13. ASSUME NEW p \in Request, Authorize(p) PROVE TypeOK'
  <2>1. token[p] \in Token /\ owner[token[p]] \in User
    BY <1>13 DEF Authorize, RequestsWork, UseIsAccountedFor
  <2>2. QED
    BY <1>13, <2>1 DEF Authorize
<1>14. ASSUME NEW p \in Request, OpenExport(p) PROVE TypeOK'
  <2>1. openedBy' \in [Token -> Seq(User)]
    <3>1. CASE token[p] = None
      BY <1>14, <3>1 DEF OpenExport
    <3>2. CASE token[p] # None
      <4>1. token[p] \in Token /\ user[p] \in User
        BY <1>14, <3>2 DEF OpenExport, RequestsWork, UseIsAccountedFor
      <4>2. openedBy' = [openedBy EXCEPT ![token[p]] = Append(@, user[p])]
        BY <1>14, <3>2 DEF OpenExport
      <4>3. QED
        BY <4>1, <4>2
    <3>3. QED
      BY <3>1, <3>2
  <2>2. QED
    BY <1>14, <2>1 DEF OpenExport, Finish
<1>15. ASSUME NEW p \in Request, TurnAway(p) PROVE TypeOK'
  BY <1>15 DEF TurnAway, Finish
<1>16. ASSUME NEW p \in Request, StartPrune(p) PROVE TypeOK'
  BY <1>16 DEF StartPrune
<1>17. ASSUME NEW p \in Request, PruneDownloadTokens(p) PROVE TypeOK'
  BY <1>17 DEF PruneDownloadTokens, Finish
<1>18. CASE Tick
  BY <1>18 DEF Tick
<1>19. CASE UNCHANGED vars
  BY <1>19 DEF vars
<1>20. ASSUME NEW s \in Screen, Proceed(s) PROVE TypeOK'
  BY <1>2, <1>3, <1>4, <1>5, <1>6, <1>7, <1>20 DEF Proceed
<1>21. ASSUME NEW p \in Request, Handle(p) PROVE TypeOK'
  BY <1>8, <1>9, <1>10, <1>11, <1>12, <1>13, <1>14, <1>15, <1>16, <1>17, <1>21 DEF Handle
<1>22. QED
  BY <1>1, <1>18, <1>19, <1>20, <1>21 DEF Next

(* A claim holds its row, and a held row belongs to a claim: a token that  *)
(* is being claimed is neither deleted nor claimed by another.             *)
LEMMA StepKeepsClaims == DownloadInv /\ [Next]_vars => RequestsWork' /\ LocksHold'
<1> SUFFICES ASSUME DownloadInv, [Next]_vars PROVE RequestsWork' /\ LocksHold'
  OBVIOUS
<1> USE NoneAssumption, TimeAssumption
    DEF DownloadInv, TypeOK, RequestsWork, LocksHold, UseIsAccountedFor, Redeemable, table, request, sheet, history
<1>1. ASSUME NEW s \in Screen, NEW k \in {"csv", "zip"}, Press(s, k) PROVE RequestsWork' /\ LocksHold'
  BY <1>1 DEF Press
<1>2. ASSUME NEW s \in Screen, NEW t \in Token, Mint(s, t) PROVE RequestsWork' /\ LocksHold'
  BY <1>2 DEF Mint
<1>3. ASSUME NEW s \in Screen, MintFailed(s) PROVE RequestsWork' /\ LocksHold'
  BY <1>3 DEF MintFailed
<1>4. ASSUME NEW s \in Screen, Navigate(s) PROVE RequestsWork' /\ LocksHold'
  BY <1>4 DEF Navigate, Settle
<1>5. ASSUME NEW s \in Screen, ReportFailure(s) PROVE RequestsWork' /\ LocksHold'
  BY <1>5 DEF ReportFailure, Settle
<1>6. ASSUME NEW s \in Screen, CsvReturns(s) PROVE RequestsWork' /\ LocksHold'
  BY <1>6 DEF CsvReturns, Settle
<1>7. ASSUME NEW s \in Screen, CsvCutOff(s) PROVE RequestsWork' /\ LocksHold'
  BY <1>7 DEF CsvCutOff
<1>8. ASSUME NEW p \in Request, NEW u \in User, ArriveWithBearer(p, u) PROVE RequestsWork' /\ LocksHold'
  BY <1>8 DEF ArriveWithBearer
<1>9. ASSUME NEW p \in Request, NEW t \in Token, Arrive(p, t) PROVE RequestsWork' /\ LocksHold'
  BY <1>9 DEF Arrive
<1>10. ASSUME NEW p \in Request, Claim(p) PROVE RequestsWork' /\ LocksHold'
  <2>1. token[p] \in Token /\ lock[token[p]] = None
    BY <1>10 DEF Claim
  <2>2. CASE Redeemable(token[p], start[p])
    <3>1. lock' = [lock EXCEPT ![token[p]] = p] /\ phase' = [phase EXCEPT ![p] = "claimed"]
      BY <1>10, <2>2 DEF Claim
    <3>2. UNCHANGED <<token, start, rows, usedAt, expiresAt, urls, clock>>
      BY <1>10, <2>2 DEF Claim
    <3>3. RequestsWork'
      BY <1>10, <2>1, <2>2, <3>1, <3>2 DEF Claim
    <3>4. LocksHold'
      BY <2>1, <3>1, <3>2
    <3>5. QED
      BY <3>3, <3>4
  <2>3. CASE ~ Redeemable(token[p], start[p])
    <3>1. UNCHANGED <<lock, rows, usedAt, expiresAt, urls, clock>> /\ Finish(p)
      BY <1>10, <2>3 DEF Claim
    <3>2. QED
      BY <1>10, <3>1 DEF Claim, Finish
  <2>4. QED
    BY <2>2, <2>3
<1>11. ASSUME NEW p \in Request, Commit(p) PROVE RequestsWork' /\ LocksHold'
  BY <1>11 DEF Commit
<1>12. ASSUME NEW p \in Request, RollBack(p) PROVE RequestsWork' /\ LocksHold'
  BY <1>12 DEF RollBack, Finish
<1>13. ASSUME NEW p \in Request, Authorize(p) PROVE RequestsWork' /\ LocksHold'
  BY <1>13 DEF Authorize
<1>14. ASSUME NEW p \in Request, OpenExport(p) PROVE RequestsWork' /\ LocksHold'
  BY <1>14 DEF OpenExport, Finish
<1>15. ASSUME NEW p \in Request, TurnAway(p) PROVE RequestsWork' /\ LocksHold'
  BY <1>15 DEF TurnAway, Finish
<1>16. ASSUME NEW p \in Request, StartPrune(p) PROVE RequestsWork' /\ LocksHold'
  BY <1>16 DEF StartPrune
<1>17. ASSUME NEW p \in Request, PruneDownloadTokens(p) PROVE RequestsWork' /\ LocksHold'
  BY <1>17 DEF PruneDownloadTokens, Finish
<1>18. CASE Tick
  BY <1>18 DEF Tick
<1>19. CASE UNCHANGED vars
  BY <1>19 DEF vars
<1>20. ASSUME NEW s \in Screen, Proceed(s) PROVE RequestsWork' /\ LocksHold'
  BY <1>2, <1>3, <1>4, <1>5, <1>6, <1>7, <1>20 DEF Proceed
<1>21. ASSUME NEW p \in Request, Handle(p) PROVE RequestsWork' /\ LocksHold'
  BY <1>8, <1>9, <1>10, <1>11, <1>12, <1>13, <1>14, <1>15, <1>16, <1>17, <1>21 DEF Handle
<1>22. QED
  BY <1>1, <1>18, <1>19, <1>20, <1>21 DEF Next

(* A token is spent by one request, which opens an export or wastes it.    *)
LEMMA StepKeepsUse == DownloadInv /\ TypeOK' /\ [Next]_vars => UseIsAccountedFor'
<1> SUFFICES ASSUME DownloadInv, TypeOK', [Next]_vars PROVE UseIsAccountedFor'
  OBVIOUS
<1> USE NoneAssumption, TimeAssumption, AccountAssumption
    DEF DownloadInv, TypeOK, RequestsWork, UseIsAccountedFor, Redeeming, Redeemable, table, request, sheet, history
<1>1. ASSUME NEW s \in Screen, NEW k \in {"csv", "zip"}, Press(s, k) PROVE UseIsAccountedFor'
  BY <1>1 DEF Press
<1>2. ASSUME NEW s \in Screen, NEW t \in Token, Mint(s, t) PROVE UseIsAccountedFor'
  BY <1>2 DEF Mint
<1>3. ASSUME NEW s \in Screen, MintFailed(s) PROVE UseIsAccountedFor'
  BY <1>3 DEF MintFailed
<1>4. ASSUME NEW s \in Screen, Navigate(s) PROVE UseIsAccountedFor'
  BY <1>4 DEF Navigate, Settle, SheetsWork
<1>5. ASSUME NEW s \in Screen, ReportFailure(s) PROVE UseIsAccountedFor'
  BY <1>5 DEF ReportFailure, Settle
<1>6. ASSUME NEW s \in Screen, CsvReturns(s) PROVE UseIsAccountedFor'
  BY <1>6 DEF CsvReturns, Settle
<1>7. ASSUME NEW s \in Screen, CsvCutOff(s) PROVE UseIsAccountedFor'
  BY <1>7 DEF CsvCutOff
<1>8. ASSUME NEW p \in Request, NEW u \in User, ArriveWithBearer(p, u) PROVE UseIsAccountedFor'
  BY <1>8 DEF ArriveWithBearer
<1>9. ASSUME NEW p \in Request, NEW t \in Token, Arrive(p, t) PROVE UseIsAccountedFor'
  BY <1>9 DEF Arrive
<1>10. ASSUME NEW p \in Request, Claim(p) PROVE UseIsAccountedFor'
  <2>1. \A r \in Request, t \in Token : Redeeming(r, t)' <=> Redeeming(r, t)
    BY <1>10 DEF Claim, Finish
  <2>2. \A t \in Token : owner[t] = None => lock'[t] = None
    BY <1>10 DEF Claim
  <2>3. UNCHANGED <<rows, owner, expiresAt, usedAt, urls, openedBy, wasted>>
    BY <1>10 DEF Claim
  <2>4. QED
    BY <2>1, <2>2, <2>3 DEF UseIsAccountedFor
<1>11. ASSUME NEW p \in Request, Commit(p) PROVE UseIsAccountedFor'
  <2>1. /\ token[p] \in Token /\ owner[token[p]] # None /\ start[p] \in Nat
        /\ usedAt[token[p]] = None /\ ~ Redeeming(p, token[p])
    BY <1>11 DEF Commit
  <2>2. /\ usedAt' = [usedAt EXCEPT ![token[p]] = start[p]]
        /\ lock' = [lock EXCEPT ![token[p]] = None]
        /\ UNCHANGED <<rows, owner, expiresAt, urls, openedBy, wasted>>
    BY <1>11 DEF Commit
  <2>3. \A r \in Request, t \in Token :
          Redeeming(r, t)' <=> Redeeming(r, t) \/ (r = p /\ t = token[p])
    BY <1>11 DEF Commit
  <2>4. openedBy[token[p]] = <<>> /\ token[p] \notin wasted
        /\ \A r \in Request : ~ Redeeming(r, token[p])
    BY <2>1 DEF UseIsAccountedFor
  <2>5. QED
    BY <2>1, <2>2, <2>3, <2>4 DEF UseIsAccountedFor
<1>12. ASSUME NEW p \in Request, RollBack(p) PROVE UseIsAccountedFor'
  BY <1>12 DEF RollBack, Finish
<1>13. ASSUME NEW p \in Request, Authorize(p) PROVE UseIsAccountedFor'
  BY <1>13 DEF Authorize
<1>14. ASSUME NEW p \in Request, OpenExport(p) PROVE UseIsAccountedFor'
  <2>1. UNCHANGED <<rows, owner, expiresAt, usedAt, lock, urls, wasted>>
    BY <1>14 DEF OpenExport
  <2>2. \A r \in Request, t \in Token : Redeeming(r, t)' <=> Redeeming(r, t) /\ r # p
    BY <1>14 DEF OpenExport, Finish
  <2>3. CASE token[p] = None
    <3>1. \A t \in Token : ~ Redeeming(p, t)
      BY <2>3
    <3>2. openedBy' = openedBy
      BY <1>14, <2>3 DEF OpenExport
    <3>3. \A r \in Request, t \in Token : Redeeming(r, t)' <=> Redeeming(r, t)
      BY <2>2, <3>1
    <3>4. QED
      BY <2>1, <3>2, <3>3 DEF UseIsAccountedFor
  <2>4. CASE token[p] # None
    <3>1. PICK x \in Token : x = token[p] /\ Redeeming(p, x) /\ user[p] = owner[x]
      BY <1>14, <2>4 DEF OpenExport
    <3>2. openedBy[x] = <<>> /\ x \notin wasted /\ owner[x] # None /\ usedAt[x] # None
      BY <3>1 DEF UseIsAccountedFor
    <3>3. openedBy' = [openedBy EXCEPT ![x] = <<owner[x]>>]
      <4>1. Append(openedBy[x], user[p]) = <<owner[x]>>
        BY <3>1, <3>2
      <4>2. QED
        BY <1>14, <2>4, <3>1, <4>1 DEF OpenExport
    <3>4. openedBy'[x] = <<owner[x]>> /\ openedBy'[x] # <<>>
      BY <3>1, <3>3
    <3>5. \A t \in Token : t # x => openedBy'[t] = openedBy[t] /\ ~ Redeeming(p, t)
      BY <3>1, <3>3
    <3> HIDE DEF Redeeming
    <3>6. ASSUME NEW r \in Request, Redeeming(r, x) PROVE r = p
      BY <3>1, <3>6 DEF UseIsAccountedFor
    <3>7. \A r \in Request : ~ Redeeming(r, x)'
      BY <2>2, <3>1, <3>6
    <3>8. \A r \in Request, t \in Token : t # x => (Redeeming(r, t)' <=> Redeeming(r, t))
      BY <2>2, <3>5
    <3> DEFINE Fits(t) ==
          LET opened == openedBy[t] # <<>>
              underWay == \E r \in Request : Redeeming(r, t)
          IN
          /\ opened => openedBy[t] = <<owner[t]>>
          /\ usedAt[t] # None <=> opened \/ t \in wasted \/ underWay
          /\ ~ (opened /\ t \in wasted)
          /\ underWay => ~ opened /\ t \notin wasted
          /\ \A r, q \in Request : Redeeming(r, t) /\ Redeeming(q, t) => r = q
    <3>9. Fits(x)'
      BY <2>1, <3>2, <3>4, <3>7
    <3>10. ASSUME NEW t \in Token, t # x PROVE Fits(t)'
      <4>1. Fits(t)
        BY DEF UseIsAccountedFor
      <4>2. QED
        BY <2>1, <3>5, <3>8, <3>10, <4>1
    <3>11. ASSUME NEW t \in Token PROVE Fits(t)'
      <4>1. CASE t = x
        BY <3>9, <4>1
      <4>2. CASE t # x
        BY <3>10, <4>2
      <4>3. QED
        BY <4>1, <4>2
    <3>12. \A t \in Token :
             /\ usedAt[t] # None => owner[t] # None
             /\ t \in rows \cup urls => owner[t] # None
             /\ owner[t] = None => expiresAt[t] = 0 /\ lock[t] = None
      BY DEF UseIsAccountedFor
    <3>13. QED
      BY <2>1, <3>11, <3>12 DEF UseIsAccountedFor
  <2>5. QED
    BY <2>3, <2>4
<1>15. ASSUME NEW p \in Request, TurnAway(p) PROVE UseIsAccountedFor'
  BY <1>15 DEF TurnAway, Finish
<1>16. ASSUME NEW p \in Request, StartPrune(p) PROVE UseIsAccountedFor'
  BY <1>16 DEF StartPrune
<1>17. ASSUME NEW p \in Request, PruneDownloadTokens(p) PROVE UseIsAccountedFor'
  <2>1. \A r \in Request, t \in Token : Redeeming(r, t)' <=> Redeeming(r, t)
    BY <1>17 DEF PruneDownloadTokens, Finish
  <2>2. rows' \subseteq rows /\ UNCHANGED <<owner, expiresAt, usedAt, lock, urls, openedBy, wasted>>
    BY <1>17 DEF PruneDownloadTokens
  <2>3. QED
    BY <2>1, <2>2 DEF UseIsAccountedFor
<1>18. CASE Tick
  BY <1>18 DEF Tick
<1>19. CASE UNCHANGED vars
  BY <1>19 DEF vars
<1>20. ASSUME NEW s \in Screen, Proceed(s) PROVE UseIsAccountedFor'
  BY <1>2, <1>3, <1>4, <1>5, <1>6, <1>7, <1>20 DEF Proceed
<1>21. ASSUME NEW p \in Request, Handle(p) PROVE UseIsAccountedFor'
  BY <1>8, <1>9, <1>10, <1>11, <1>12, <1>13, <1>14, <1>15, <1>16, <1>17, <1>21 DEF Handle
<1> HIDE DEF UseIsAccountedFor, Redeeming, RequestsWork, TypeOK
<1>22. QED
  BY <1>1, <1>18, <1>19, <1>20, <1>21 DEF Next

LEMMA StepKeepsSheets == DownloadInv /\ [Next]_vars => SheetsWork'
<1> SUFFICES ASSUME DownloadInv, [Next]_vars PROVE SheetsWork'
  OBVIOUS
<1> USE NoneAssumption, AccountAssumption
    DEF DownloadInv, TypeOK, UseIsAccountedFor, SheetsWork, table, request, sheet, history
<1>1. ASSUME NEW s \in Screen, NEW k \in {"csv", "zip"}, Press(s, k) PROVE SheetsWork'
  BY <1>1 DEF Press
<1>2. ASSUME NEW s \in Screen, NEW t \in Token, Mint(s, t) PROVE SheetsWork'
  BY <1>2 DEF Mint
<1>3. ASSUME NEW s \in Screen, MintFailed(s) PROVE SheetsWork'
  BY <1>3 DEF MintFailed
<1>4. ASSUME NEW s \in Screen, Navigate(s) PROVE SheetsWork'
  BY <1>4 DEF Navigate, Settle
<1>5. ASSUME NEW s \in Screen, ReportFailure(s) PROVE SheetsWork'
  BY <1>5 DEF ReportFailure, Settle
<1>6. ASSUME NEW s \in Screen, CsvReturns(s) PROVE SheetsWork'
  BY <1>6 DEF CsvReturns, Settle
<1>7. ASSUME NEW s \in Screen, CsvCutOff(s) PROVE SheetsWork'
  BY <1>7 DEF CsvCutOff
<1>8. ASSUME NEW p \in Request, NEW u \in User, ArriveWithBearer(p, u) PROVE SheetsWork'
  BY <1>8 DEF ArriveWithBearer
<1>9. ASSUME NEW p \in Request, NEW t \in Token, Arrive(p, t) PROVE SheetsWork'
  BY <1>9 DEF Arrive
<1>10. ASSUME NEW p \in Request, Claim(p) PROVE SheetsWork'
  BY <1>10 DEF Claim, Finish
<1>11. ASSUME NEW p \in Request, Commit(p) PROVE SheetsWork'
  BY <1>11 DEF Commit
<1>12. ASSUME NEW p \in Request, RollBack(p) PROVE SheetsWork'
  BY <1>12 DEF RollBack, Finish
<1>13. ASSUME NEW p \in Request, Authorize(p) PROVE SheetsWork'
  BY <1>13 DEF Authorize
<1>14. ASSUME NEW p \in Request, OpenExport(p) PROVE SheetsWork'
  BY <1>14 DEF OpenExport, Finish
<1>15. ASSUME NEW p \in Request, TurnAway(p) PROVE SheetsWork'
  BY <1>15 DEF TurnAway, Finish
<1>16. ASSUME NEW p \in Request, StartPrune(p) PROVE SheetsWork'
  BY <1>16 DEF StartPrune
<1>17. ASSUME NEW p \in Request, PruneDownloadTokens(p) PROVE SheetsWork'
  BY <1>17 DEF PruneDownloadTokens, Finish
<1>18. CASE Tick
  BY <1>18 DEF Tick
<1>19. CASE UNCHANGED vars
  BY <1>19 DEF vars
<1>20. ASSUME NEW s \in Screen, Proceed(s) PROVE SheetsWork'
  BY <1>2, <1>3, <1>4, <1>5, <1>6, <1>7, <1>20 DEF Proceed
<1>21. ASSUME NEW p \in Request, Handle(p) PROVE SheetsWork'
  BY <1>8, <1>9, <1>10, <1>11, <1>12, <1>13, <1>14, <1>15, <1>16, <1>17, <1>21 DEF Handle
<1>22. QED
  BY <1>1, <1>18, <1>19, <1>20, <1>21 DEF Next

(* What requests, rows and sheets know of each other is always true.       *)
THEOREM DownloadInvariant == Spec => []DownloadInv
<1>1. DownloadInv /\ [Next]_vars => DownloadInv'
  BY StepKeepsTypes, StepKeepsClaims, StepKeepsUse, StepKeepsSheets DEF DownloadInv
<1>2. QED
  BY InitDownloadInv, <1>1, PTL DEF Spec

-----------------------------------------------------------------------------
LEMMA StepKeepsLiveTokens == DownloadInv /\ LiveTokenIsKept /\ [Next]_vars => LiveTokenIsKept'
<1> SUFFICES ASSUME DownloadInv, LiveTokenIsKept, [Next]_vars PROVE LiveTokenIsKept'
  OBVIOUS
<1> USE NoneAssumption, TimeAssumption
    DEF DownloadInv, TypeOK, RequestsWork, UseIsAccountedFor, LiveTokenIsKept, Redeeming, table, request, sheet, history
<1>1. ASSUME NEW s \in Screen, NEW k \in {"csv", "zip"}, Press(s, k) PROVE LiveTokenIsKept'
  BY <1>1 DEF Press
<1>2. ASSUME NEW s \in Screen, NEW t \in Token, Mint(s, t) PROVE LiveTokenIsKept'
  BY <1>2 DEF Mint
<1>3. ASSUME NEW s \in Screen, MintFailed(s) PROVE LiveTokenIsKept'
  BY <1>3 DEF MintFailed
<1>4. ASSUME NEW s \in Screen, Navigate(s) PROVE LiveTokenIsKept'
  BY <1>4 DEF Navigate, Settle
<1>5. ASSUME NEW s \in Screen, ReportFailure(s) PROVE LiveTokenIsKept'
  BY <1>5 DEF ReportFailure, Settle
<1>6. ASSUME NEW s \in Screen, CsvReturns(s) PROVE LiveTokenIsKept'
  BY <1>6 DEF CsvReturns, Settle
<1>7. ASSUME NEW s \in Screen, CsvCutOff(s) PROVE LiveTokenIsKept'
  BY <1>7 DEF CsvCutOff
<1>8. ASSUME NEW p \in Request, NEW u \in User, ArriveWithBearer(p, u) PROVE LiveTokenIsKept'
  BY <1>8 DEF ArriveWithBearer
<1>9. ASSUME NEW p \in Request, NEW t \in Token, Arrive(p, t) PROVE LiveTokenIsKept'
  BY <1>9 DEF Arrive
<1>10. ASSUME NEW p \in Request, Claim(p) PROVE LiveTokenIsKept'
  <2>1. \A r \in Request, t \in Token : Redeeming(r, t)' <=> Redeeming(r, t)
    BY <1>10 DEF Claim, Finish
  <2>2. UNCHANGED <<table, clock, openedBy, wasted>>
    BY <1>10 DEF Claim
  <2>3. QED
    BY <2>1, <2>2 DEF LiveTokenIsKept
<1>11. ASSUME NEW p \in Request, Commit(p) PROVE LiveTokenIsKept'
  <2>1. token[p] \in Token
    BY <1>11 DEF Commit
  <2>2. /\ usedAt' = [usedAt EXCEPT ![token[p]] = start[p]]
        /\ UNCHANGED <<rows, owner, expiresAt, clock, openedBy, wasted>>
    BY <1>11 DEF Commit
  <2>3. \A r \in Request, t \in Token :
          Redeeming(r, t)' <=> Redeeming(r, t) \/ (r = p /\ t = token[p])
    BY <1>11 DEF Commit
  <2>4. QED
    BY <2>1, <2>2, <2>3 DEF LiveTokenIsKept
<1>12. ASSUME NEW p \in Request, RollBack(p) PROVE LiveTokenIsKept'
  <2>1. \A r \in Request, t \in Token : Redeeming(r, t)' <=> Redeeming(r, t)
    BY <1>12 DEF RollBack, Finish
  <2>2. UNCHANGED <<table, clock, openedBy, wasted>>
    BY <1>12 DEF RollBack
  <2>3. QED
    BY <2>1, <2>2 DEF LiveTokenIsKept
<1>13. ASSUME NEW p \in Request, Authorize(p) PROVE LiveTokenIsKept'
  BY <1>13 DEF Authorize
<1>14. ASSUME NEW p \in Request, OpenExport(p) PROVE LiveTokenIsKept'
  <2>1. UNCHANGED <<table, clock, wasted>>
    BY <1>14 DEF OpenExport
  <2>2. \A r \in Request, t \in Token : Redeeming(r, t)' <=> Redeeming(r, t) /\ r # p
    BY <1>14 DEF OpenExport, Finish
  <2>3. ASSUME NEW t \in Token, Redeeming(p, t)
        PROVE  openedBy[t] = <<>> /\ openedBy' = [openedBy EXCEPT ![t] = <<user[p]>>]
    <3>1. t = token[p] /\ t # None /\ openedBy[t] = <<>>
      BY <2>3 DEF UseIsAccountedFor
    <3>2. openedBy' = [openedBy EXCEPT ![t] = Append(openedBy[t], user[p])]
      BY <1>14, <3>1 DEF OpenExport
    <3>3. Append(openedBy[t], user[p]) = <<user[p]>>
      BY <3>1
    <3>4. QED
      BY <3>1, <3>2, <3>3
  <2>4. ASSUME NEW t \in Token, openedBy[t] # <<>> PROVE openedBy'[t] = openedBy[t]
    <3>1. CASE token[p] = None
      BY <1>14, <3>1 DEF OpenExport
    <3>2. CASE token[p] # None
      <4>1. token[p] \in Token /\ Redeeming(p, token[p])
        BY <1>14, <3>2 DEF OpenExport
      <4>2. QED
        BY <2>3, <2>4, <4>1
    <3>3. QED
      BY <3>1, <3>2
  <2>5. ASSUME NEW t \in Token, owner'[t] # None, clock' < expiresAt'[t]
        PROVE  \/ t \in rows' /\ usedAt'[t] = None
               \/ openedBy'[t] # <<>> \/ t \in wasted'
               \/ \E r \in Request : Redeeming(r, t)'
    <3>1. \/ t \in rows /\ usedAt[t] = None
          \/ openedBy[t] # <<>> \/ t \in wasted
          \/ \E r \in Request : Redeeming(r, t)
      BY <2>1, <2>5 DEF LiveTokenIsKept
    <3>2. openedBy[t] # <<>> \/ Redeeming(p, t) => openedBy'[t] # <<>>
      <4>1. ASSUME Redeeming(p, t) PROVE openedBy'[t] = <<user[p]>>
        BY <2>3, <4>1
      <4>2. <<user[p]>> # <<>>
        OBVIOUS
      <4>3. QED
        BY <2>4, <4>1, <4>2
    <3> HIDE DEF Redeeming
    <3>3. QED
      BY <2>1, <2>2, <3>1, <3>2
  <2>6. QED
    BY <2>5 DEF LiveTokenIsKept
<1>15. ASSUME NEW p \in Request, TurnAway(p) PROVE LiveTokenIsKept'
  BY <1>15 DEF TurnAway, Finish
<1>16. ASSUME NEW p \in Request, StartPrune(p) PROVE LiveTokenIsKept'
  BY <1>16 DEF StartPrune
<1>17. ASSUME NEW p \in Request, PruneDownloadTokens(p) PROVE LiveTokenIsKept'
  <2>1. \A r \in Request, t \in Token : Redeeming(r, t)' <=> Redeeming(r, t)
    BY <1>17 DEF PruneDownloadTokens, Finish
  <2>2. UNCHANGED <<owner, expiresAt, usedAt, clock, openedBy, wasted>>
    BY <1>17 DEF PruneDownloadTokens
  <2>3. ASSUME NEW t \in rows, usedAt[t] = None, clock < expiresAt[t] PROVE t \in rows'
    BY <1>17, <2>3 DEF PruneDownloadTokens, Prunable
  <2>4. QED
    BY <2>1, <2>2, <2>3 DEF LiveTokenIsKept
<1>18. CASE Tick
  BY <1>18 DEF Tick
<1>19. CASE UNCHANGED vars
  BY <1>19 DEF vars
<1>20. ASSUME NEW s \in Screen, Proceed(s) PROVE LiveTokenIsKept'
  BY <1>2, <1>3, <1>4, <1>5, <1>6, <1>7, <1>20 DEF Proceed
<1>21. ASSUME NEW p \in Request, Handle(p) PROVE LiveTokenIsKept'
  BY <1>8, <1>9, <1>10, <1>11, <1>12, <1>13, <1>14, <1>15, <1>16, <1>17, <1>21 DEF Handle
<1>22. QED
  BY <1>1, <1>18, <1>19, <1>20, <1>21 DEF Next

(* A token that has not opened an export is there for its whole minute.    *)
THEOREM LiveTokensAreKept == Spec => []LiveTokenIsKept
<1>1. Init => LiveTokenIsKept
  BY DEF Init, LiveTokenIsKept
<1>2. QED
  BY <1>1, DownloadInvariant, StepKeepsLiveTokens, PTL DEF Spec

-----------------------------------------------------------------------------
(* The steps that neither mint a token nor open an export.  A token that   *)
(* has lapsed stays lapsed: a request that arrives now is too late for it. *)
LEMMA LapsedStaysLapsed ==
    ASSUME DownloadInv, DownloadInv', [Next]_vars, UNCHANGED <<owner, openedBy>>
    PROVE  [OneTime!Next]_(OneTime!vars)
<1> DEFINE gone == {t \in Token : Lapsed(t)}
           Pending(p, t) == InTime(p, t) \/ Redeeming(p, t)
<1>1. ASSUME NEW t \in Token, Lapsed(t) PROVE Lapsed(t)'
  <2>1. expiresAt'[t] = expiresAt[t] /\ clock <= clock' /\ wasted \subseteq wasted'
    <3>1. ASSUME NEW s \in Screen, NEW x \in Token, Mint(s, x) PROVE FALSE
      <4>1. owner[x] = None /\ owner' = [owner EXCEPT ![x] = account[s]] /\ owner' = owner
        BY <3>1 DEF Mint
      <4>2. x \in DOMAIN owner
        BY DEF DownloadInv, TypeOK
      <4>3. account[s] # None
        BY NoneAssumption, AccountAssumption
      <4>4. QED
        BY <4>1, <4>2, <4>3
    <3>2. ASSUME NEW s \in Screen, Proceed(s) PROVE UNCHANGED <<expiresAt, clock, wasted>>
      <4>1. MintFailed(s) \/ Navigate(s) \/ ReportFailure(s) \/ CsvReturns(s) \/ CsvCutOff(s)
        BY <3>1, <3>2 DEF Proceed
      <4>2. QED
        BY <4>1 DEF MintFailed, Navigate, ReportFailure, CsvReturns, CsvCutOff, table, history
    <3>3. ASSUME NEW p \in Request, Handle(p)
          PROVE  UNCHANGED <<expiresAt, clock>> /\ wasted \subseteq wasted'
      BY <3>3 DEF Handle, ArriveWithBearer, Arrive, Claim, Commit, RollBack, Authorize, OpenExport,
             TurnAway, StartPrune, PruneDownloadTokens, table, history
    <3>4. /\ UNCHANGED expiresAt /\ (clock' = clock \/ clock' = clock + 1)
          /\ wasted \subseteq wasted'
      BY <3>2, <3>3 DEF Next, Tick, Press, table, history, vars
    <3>5. QED
      BY <3>4 DEF DownloadInv, TypeOK
  <2>2. CASE t \in wasted
    BY <1>1, <2>1, <2>2 DEF Lapsed
  <2>3. CASE t \notin wasted
    <3>1. expiresAt[t] <= clock /\ (\A p \in Request : ~ Pending(p, t))
      BY <1>1, <2>3 DEF Lapsed
    <3>2. ASSUME NEW p \in Request, Pending(p, t)' PROVE FALSE
      <4>1. CASE \E q \in Request, x \in Token : Arrive(q, x)
        <5>1. PICK q \in Request, x \in Token : Arrive(q, x)
          BY <4>1
        <5>2. /\ phase' = [phase EXCEPT ![q] = "claiming"] /\ token' = [token EXCEPT ![q] = x]
              /\ start' = [start EXCEPT ![q] = clock]
          BY <5>1 DEF Arrive
        <5>3. CASE q = p
          BY <2>1, <3>1, <3>2, <5>2, <5>3 DEF InTime, Redeeming, DownloadInv, TypeOK
        <5>4. CASE q # p
          BY <2>1, <3>1, <3>2, <5>2, <5>4 DEF InTime, Redeeming, DownloadInv, TypeOK
        <5>5. QED
          BY <5>3, <5>4
      <4>2. CASE ~ \E q \in Request, x \in Token : Arrive(q, x)
        <5> DEFINE Same == token'[p] = token[p] /\ start'[p] = start[p]
                   Waits == phase[p] \in {"claiming", "claimed"}
                   Spends == phase[p] \in {"redeemed", "authorized"}
                   Holds == /\ Waits' => Waits /\ Same
                            /\ Spends' /\ token'[p] = t =>
                                 (Spends /\ token[p] = t) \/ (phase[p] = "claimed" /\ Same)
        <5>1. ASSUME NEW s \in Screen, Proceed(s) PROVE UNCHANGED request
          BY <5>1 DEF Proceed, Mint, MintFailed, Navigate, ReportFailure, CsvReturns, CsvCutOff
        <5>2. ASSUME NEW q \in Request, NEW u \in User, ArriveWithBearer(q, u) PROVE Holds
          BY <5>2, NoneAssumption DEF ArriveWithBearer, DownloadInv, TypeOK, RequestsWork
        <5>3. ASSUME NEW q \in Request, Claim(q) PROVE Holds
          BY <5>3 DEF Claim, Finish, DownloadInv, TypeOK
        <5>4. ASSUME NEW q \in Request, Commit(q) \/ Authorize(q) PROVE Holds
          BY <5>4 DEF Commit, Authorize, DownloadInv, TypeOK
        <5>5. ASSUME NEW q \in Request, RollBack(q) \/ OpenExport(q) \/ TurnAway(q) PROVE Holds
          BY <5>5 DEF RollBack, OpenExport, TurnAway, Finish, DownloadInv, TypeOK
        <5>6. ASSUME NEW q \in Request, StartPrune(q) \/ PruneDownloadTokens(q) PROVE Holds
          <6>1. CASE q = p
            BY <5>6, <6>1 DEF StartPrune, PruneDownloadTokens, Finish, DownloadInv, TypeOK
          <6>2. CASE q # p
            BY <5>6, <6>2 DEF StartPrune, PruneDownloadTokens, Finish, DownloadInv, TypeOK
          <6>3. QED
            BY <6>1, <6>2
        <5>7. ASSUME NEW q \in Request, Handle(q) PROVE Holds
          BY <4>2, <5>2, <5>3, <5>4, <5>5, <5>6, <5>7 DEF Handle
        <5>8. Holds
          BY <5>1, <5>7 DEF Next, Tick, Press, request, vars
        <5>9. CASE InTime(p, t)'
          BY <2>1, <3>1, <5>8, <5>9 DEF InTime
        <5>10. CASE Redeeming(p, t)'
          <6>1. phase[p] = "claimed" /\ token[p] = t
            BY <3>1, <5>8, <5>10 DEF Redeeming
          <6>2. InTime(p, t)
            BY <6>1 DEF InTime, DownloadInv, RequestsWork, Redeemable
          <6>3. QED
            BY <3>1, <6>2
        <5>11. QED
          BY <3>2, <5>9, <5>10
      <4>3. QED
        BY <4>1, <4>2
    <3>3. QED
      BY <1>1, <2>1, <3>1, <3>2 DEF Lapsed, DownloadInv, TypeOK
  <2>4. QED
    BY <2>2, <2>3
<1>2. gone \subseteq gone'
  BY <1>1
<1>3. OneTime!Lapse(gone')
  BY <1>2 DEF OneTime!Lapse, Lapsed
<1>4. QED
  BY <1>3 DEF OneTime!Next

(* A request that has spent a token, and gets through, opens its link.     *)
LEMMA OpenExportOpens ==
    ASSUME DownloadInv, NEW p \in Request, OpenExport(p), token[p] # None
    PROVE  [OneTime!Next]_(OneTime!vars)
<1> USE NoneAssumption
<1>1. PICK t \in Token : t = token[p] /\ Redeeming(p, t)
  BY DEF OpenExport, DownloadInv, TypeOK, Redeeming
<1>2. /\ owner[t] # None /\ user[p] = owner[t]
      /\ openedBy[t] = <<>> /\ t \notin wasted
  BY <1>1 DEF OpenExport, DownloadInv, RequestsWork, UseIsAccountedFor
<1>3. openedBy' = [openedBy EXCEPT ![t] = <<owner[t]>>]
  <2>1. Append(openedBy[t], owner[t]) = <<owner[t]>>
    BY <1>2
  <2>2. QED
    BY <1>1, <1>2, <2>1 DEF OpenExport
<1>4. UNCHANGED <<owner, expiresAt, clock, wasted>>
  BY DEF OpenExport, table
<1>5. ~ Lapsed(t) /\ ~ Lapsed(t)'
  <2>1. openedBy'[t] = <<owner[t]>>
    BY <1>1, <1>3 DEF DownloadInv, TypeOK
  <2>2. openedBy'[t] # <<>>
    BY <2>1
  <2>3. QED
    BY <1>1, <1>2, <2>2 DEF Lapsed
<1>6. ASSUME NEW x \in Token, x # t PROVE Lapsed(x)' <=> Lapsed(x)
  <2>1. openedBy'[x] = openedBy[x]
    BY <1>3, <1>6 DEF DownloadInv, TypeOK
  <2>2. \A q \in Request : (InTime(q, x)' <=> InTime(q, x)) /\ (Redeeming(q, x)' <=> Redeeming(q, x))
    BY <1>1, <1>4, <1>6 DEF OpenExport, Finish, InTime, Redeeming, DownloadInv, TypeOK
  <2>3. QED
    BY <1>4, <2>1, <2>2 DEF Lapsed
<1>7. {x \in Token : Lapsed(x)}' = {x \in Token : Lapsed(x)}
  BY <1>5, <1>6
<1>8. OneTime!Open(t)
  BY <1>2, <1>3, <1>4, <1>5, <1>7 DEF OneTime!Open
<1>9. QED
  BY <1>8 DEF OneTime!Next

(* A minted token is a link issued to the account of the sheet.            *)
LEMMA MintIssues ==
    ASSUME DownloadInv, NEW s \in Screen, NEW t \in Token, Mint(s, t)
    PROVE  [OneTime!Next]_(OneTime!vars)
<1> USE NoneAssumption, AccountAssumption, TimeAssumption
<1>1. /\ owner[t] = None /\ owner' = [owner EXCEPT ![t] = account[s]] /\ account[s] \in User
      /\ expiresAt' = [expiresAt EXCEPT ![t] = clock + TTL]
      /\ UNCHANGED <<openedBy, wasted, clock, phase, token, start>>
  BY DEF Mint, request, history
<1>2. ASSUME NEW x \in Token, x # t PROVE Lapsed(x)' <=> Lapsed(x)
  <2>1. owner'[x] = owner[x] /\ expiresAt'[x] = expiresAt[x]
    BY <1>1, <1>2 DEF DownloadInv, TypeOK
  <2>2. QED
    BY <1>1, <2>1 DEF Lapsed, InTime, Redeeming
<1>3. ~ Lapsed(t)
  BY <1>1 DEF Lapsed
<1>4. CASE ~ Lapsed(t)'
  <2>1. {x \in Token : Lapsed(x)}' = {x \in Token : Lapsed(x)}
    BY <1>2, <1>3, <1>4
  <2>2. OneTime!Issue(t, account[s])
    BY <1>1, <2>1 DEF OneTime!Issue
  <2>3. QED
    BY <1>1, <2>2 DEF OneTime!Next
<1>5. CASE Lapsed(t)'
  <2>1. expiresAt'[t] = clock + TTL
    BY <1>1 DEF DownloadInv, TypeOK
  <2>2. t \notin wasted
    BY <1>1 DEF DownloadInv, UseIsAccountedFor
  <2>3. expiresAt'[t] <= clock
    BY <1>1, <1>5, <2>2 DEF Lapsed
  <2>4. QED
    BY <2>1, <2>3 DEF DownloadInv, TypeOK
<1>6. QED
  BY <1>4, <1>5

(* Every step of the tokens is a step of such links, or none.              *)
THEOREM OneTimeLinkRefinement == Spec => ImplementsOneTimeLink
<1>1. Init => OneTime!Init
  BY DEF Init, OneTime!Init, Lapsed
<1>2. DownloadInv /\ DownloadInv' /\ [Next]_vars => [OneTime!Next]_(OneTime!vars)
  <2> SUFFICES ASSUME DownloadInv, DownloadInv', [Next]_vars PROVE [OneTime!Next]_(OneTime!vars)
    OBVIOUS
  <2> DEFINE Opens(p) == OpenExport(p) /\ token[p] # None
  <2>1. CASE \E s \in Screen, t \in Token : Mint(s, t)
    BY <2>1, MintIssues
  <2>2. CASE \E p \in Request : Opens(p)
    BY <2>2, OpenExportOpens
  <2>3. CASE ~ (\E s \in Screen, t \in Token : Mint(s, t)) /\ ~ (\E p \in Request : Opens(p))
    <3>1. UNCHANGED <<owner, openedBy>>
      BY <2>3 DEF Next, Proceed, Handle, Tick, Press, MintFailed, Navigate, ReportFailure, CsvReturns,
             CsvCutOff, ArriveWithBearer, Arrive, Claim, Commit, RollBack, Authorize, OpenExport,
             TurnAway, StartPrune, PruneDownloadTokens, table, history, vars
    <3>2. QED
      BY <3>1, LapsedStaysLapsed
  <2>4. QED
    BY <2>1, <2>2, <2>3
<1>3. QED
  BY <1>1, <1>2, DownloadInvariant, PTL DEF Spec, ImplementsOneTimeLink, OneTime!Spec

-----------------------------------------------------------------------------
(* The order of the export is total: by date, and by number within a date. *)
LEMMA OrderIsTotal ==
  ASSUME date \in [Expense -> Date]
  PROVE  /\ \A d \in Expense : ~ ComesBefore(d, d)
         /\ \A d, e \in Expense : d # e => ComesBefore(d, e) \/ ComesBefore(e, d)
         /\ \A d, e, f \in Expense : ComesBefore(d, e) /\ ComesBefore(e, f) => ComesBefore(d, f)
<1>1. \A d, e : ComesBefore(d, e) <=> date[d] < date[e] \/ (date[d] = date[e] /\ d < e)
  BY DEF ComesBefore, Before, Key
<1>2. \A e \in Expense : e \in Nat /\ date[e] \in Nat
  BY ExpenseAssumption
<1>3. QED
  BY <1>1, <1>2

(* Any set of expenses can be put in order: the place of each is the       *)
(* number of those before it.                                              *)
LEMMA InOrderSorts ==
  ASSUME date \in [Expense -> Date], NEW S \in SUBSET Expense
  PROVE  /\ InOrder(S) \in [1..Cardinality(S) -> S] /\ Cardinality(S) \in Nat
         /\ \A i, j \in 1..Cardinality(S) : i < j => ComesBefore(InOrder(S)[i], InOrder(S)[j])
         /\ \A e \in S : \E i \in 1..Cardinality(S) : InOrder(S)[i] = e
<1> DEFINE n == Cardinality(S)
           Below(e) == {d \in S : ComesBefore(d, e)}
           r == [e \in S |-> 1 + Cardinality(Below(e))]
           Sorted(s) == \A i, j \in 1..n : i < j => ComesBefore(s[i], s[j])
<1>1. IsFiniteSet(S) /\ n \in Nat
  BY ExpenseAssumption, FS_Subset, FS_CardinalityType
<1>2. \A e \in S : IsFiniteSet(Below(e)) /\ Cardinality(Below(e)) \in Nat
  BY <1>1, FS_Subset, FS_CardinalityType
<1>3. ASSUME NEW d \in S, NEW e \in S, ComesBefore(d, e) PROVE r[d] < r[e]
  <2>1. Below(d) \subseteq Below(e) /\ d \in Below(e) /\ d \notin Below(d)
    <3>1. \A f \in S : ComesBefore(f, d) => ComesBefore(f, e)
      <4>1. \A f \in S : f \in Expense
        OBVIOUS
      <4>2. QED
        BY <1>3, <4>1, OrderIsTotal
    <3>2. ~ ComesBefore(d, d)
      BY OrderIsTotal
    <3>3. QED
      BY <1>3, <3>1, <3>2
  <2>2. Cardinality(Below(d)) <= Cardinality(Below(e)) /\ Cardinality(Below(d)) # Cardinality(Below(e))
    BY <1>2, <2>1, FS_Subset
  <2>3. Cardinality(Below(d)) \in Nat /\ Cardinality(Below(e)) \in Nat
    BY <1>2
  <2>4. r[d] = 1 + Cardinality(Below(d)) /\ r[e] = 1 + Cardinality(Below(e))
    OBVIOUS
  <2> HIDE DEF r, Below
  <2>5. QED
    BY <2>2, <2>3, <2>4
<1>4. r \in Injection(S, 1..n)
  <2>1. ASSUME NEW e \in S PROVE r[e] \in 1..n
    <3>1. Below(e) \subseteq S \ {e}
      BY OrderIsTotal
    <3>2. IsFiniteSet(S \ {e}) /\ Cardinality(S \ {e}) = n - 1
      BY <1>1, FS_RemoveElement
    <3>3. Cardinality(Below(e)) <= n - 1
      BY <3>1, <3>2, FS_Subset
    <3>4. QED
      BY <1>1, <1>2, <3>3
  <2>2. ASSUME NEW d \in S, NEW e \in S, d # e PROVE r[d] # r[e]
    <3>1. r[d] \in Int /\ r[e] \in Int
      BY <2>1
    <3>2. r[d] < r[e] \/ r[e] < r[d]
      BY <1>3, <2>2, OrderIsTotal
    <3>3. QED
      BY <3>1, <3>2
  <2>3. QED
    BY <2>1, <2>2 DEF Injection, IsInjective
<1>5. r \in Surjection(S, 1..n)
  <2>1. IsFiniteSet(1..n) /\ Cardinality(1..n) = n
    BY <1>1, FS_Interval
  <2>2. QED
    BY <1>4, <2>1, FS_Injection
<1>6. PICK s \in [1..n -> S] : Sorted(s)
  <2> DEFINE s == [i \in 1..n |-> CHOOSE e \in S : r[e] = i]
  <2>1. \A i \in 1..n : s[i] \in S /\ r[s[i]] = i
    BY <1>5 DEF Surjection
  <2>2. ASSUME NEW i \in 1..n, NEW j \in 1..n, i < j PROVE ComesBefore(s[i], s[j])
    <3> HIDE DEF r, s
    <3>1. PICK d \in S, e \in S : d = s[i] /\ e = s[j] /\ r[d] = i /\ r[e] = j
      BY <2>1
    <3>2. i \in Int /\ j \in Int
      BY <1>1
    <3>3. d # e /\ d \in Expense /\ e \in Expense
      BY <2>2, <3>1, <3>2
    <3>4. ~ ComesBefore(e, d)
      <4>1. ComesBefore(e, d) => r[e] < r[d]
        BY <1>3
      <4>2. QED
        BY <2>2, <3>1, <3>2, <4>1
    <3>5. ComesBefore(d, e)
      BY <3>3, <3>4, OrderIsTotal
    <3>6. QED
      BY <3>1, <3>5
  <2>3. s \in [1..n -> S]
    BY <2>1
  <2>4. QED
    BY <2>2, <2>3
<1>7. InOrder(S) \in [1..n -> S] /\ Sorted(InOrder(S))
  <2>1. InOrder(S) = CHOOSE x \in [1..n -> S] : Sorted(x)
    BY DEF InOrder
  <2>2. QED
    BY <1>6, <2>1
<1>8. InOrder(S) \in Injection(1..n, S)
  <2>1. ASSUME NEW i \in 1..n, NEW j \in 1..n, i # j PROVE InOrder(S)[i] # InOrder(S)[j]
    <3>1. i < j \/ j < i
      BY <1>1, <2>1
    <3>2. QED
      BY <1>7, <3>1, OrderIsTotal
  <2>2. QED
    BY <1>7, <2>1 DEF Injection, IsInjective
<1>9. InOrder(S) \in Surjection(1..n, S)
  BY <1>1, <1>8, FS_Interval, FS_Injection
<1>10. QED
  BY <1>1, <1>7, <1>9 DEF Surjection

(* Keys are ordered as their rows are.                                     *)
LEMMA BeforeIsTransitive ==
  ASSUME NEW k \in [date : Date, id : Expense], NEW l \in [date : Date, id : Expense],
         NEW m \in [date : Date, id : Expense]
  PROVE  /\ Before(k, l) /\ Before(l, m) => Before(k, m)
         /\ ~ Before(l, k) /\ Before(l, m) => Before(k, m)
         /\ Before(k, l) => ~ Before(l, k)
<1>1. /\ k.date \in Nat /\ l.date \in Nat /\ m.date \in Nat
      /\ k.id \in Nat /\ l.id \in Nat /\ m.id \in Nat
  BY ExpenseAssumption
<1>2. QED
  BY <1>1 DEF Before

LEMMA KeyFacts ==
  ASSUME date \in [Expense -> Date], NEW e \in Expense
  PROVE  Key(e) \in [date : Date, id : Expense] /\ Key(e) # Null
<1>1. Key(e) \in [date : Date, id : Expense]
  BY DEF Key
<1>2. QED
  BY <1>1, NullAssumption

(* A page is the first of the selected rows, in order; the last page has   *)
(* them all.                                                               *)
LEMMA PageShape ==
  ASSUME date \in [Expense -> Date]
  PROVE  /\ Page \in Seq(Expense) /\ \A i \in DOMAIN Page : Page[i] \in Selected
         /\ \A i, j \in DOMAIN Page : i < j => ComesBefore(Page[i], Page[j])
         /\ LastPage(Page) => \A e \in Selected : e \in Range(Page)
         /\ ~ LastPage(Page) =>
               /\ Page # <<>>
               /\ \A e \in Selected : e \in Range(Page) \/ ComesBefore(Last(Page), e)
<1> DEFINE all == InOrder(Selected)
           n == Cardinality(Selected)
           m == IF n < BatchSize THEN n ELSE BatchSize
<1>1. Selected \in SUBSET Expense
  BY DEF Selected
<1>2. /\ all \in [1..n -> Selected] /\ n \in Nat
      /\ \A i, j \in 1..n : i < j => ComesBefore(all[i], all[j])
      /\ \A e \in Selected : \E i \in 1..n : all[i] = e
  BY <1>1, InOrderSorts
<1>3. Len(all) = n /\ all \in Seq(Selected)
  BY <1>2
<1>4. m \in Nat /\ m <= n /\ m <= BatchSize
  BY <1>2, BatchAssumption
<1>5. Page = SubSeq(all, 1, m)
  BY <1>3 DEF Page
<1> HIDE DEF all, n
<1>6. /\ Page \in Seq(Selected) /\ Len(Page) = m /\ DOMAIN Page = 1..m
      /\ \A i \in 1..m : Page[i] = all[i]
  BY <1>3, <1>4, <1>5
<1>7. \A i \in 1..m : i \in 1..n
  BY <1>2, <1>4
<1>8. LastPage(Page) => \A e \in Selected : e \in Range(Page)
  <2>1. SUFFICES ASSUME LastPage(Page), NEW e \in Selected PROVE e \in Range(Page)
    OBVIOUS
  <2>2. m = n
    BY <1>2, <1>4, <1>6, <2>1, BatchAssumption DEF LastPage
  <2>3. PICK i \in 1..n : all[i] = e
    BY <1>2
  <2>4. QED
    BY <1>6, <2>2, <2>3 DEF Range
<1>9. ASSUME ~ LastPage(Page)
      PROVE  Page # <<>> /\ \A e \in Selected : e \in Range(Page) \/ ComesBefore(Last(Page), e)
  <2>1. m = BatchSize /\ m \in 1..m
    BY <1>4, <1>6, <1>9, BatchAssumption DEF LastPage
  <2>2. Last(Page) = all[m] /\ Page # <<>>
    BY <1>6, <2>1 DEF Last
  <2>3. ASSUME NEW e \in Selected, e \notin Range(Page) PROVE ComesBefore(Last(Page), e)
    <3>1. PICK i \in 1..n : all[i] = e
      BY <1>2
    <3>2. i \notin 1..m
      BY <1>6, <2>3, <3>1 DEF Range
    <3>3. i \in Nat /\ m < i /\ m \in 1..n
      BY <1>2, <1>4, <1>7, <2>1, <3>1, <3>2
    <3>4. QED
      BY <1>2, <2>2, <3>1, <3>3
  <2>4. QED
    BY <2>2, <2>3
<1>10. \A i, j \in DOMAIN Page : i < j => ComesBefore(Page[i], Page[j])
  BY <1>2, <1>6, <1>7
<1>11. Page \in Seq(Expense) /\ \A i \in DOMAIN Page : Page[i] \in Selected
  BY <1>1, <1>6
<1>12. QED
  BY <1>8, <1>9, <1>10, <1>11

(* The cursor moves over the rows of the page and over no other: of the    *)
(* rows that match, those still to come are the ones that were, less the   *)
(* page, and after the last page there are none.                           *)
LEMMA CursorPasses ==
  ASSUME date \in [Expense -> Date], cursor \in [date : Date, id : Expense] \cup {Null},
         NEW e \in Expense, Matches(e)
  PROVE  /\ e \in Range(Page) => After(e, cursor)
         /\ LastPage(Page) /\ After(e, cursor) => e \in Range(Page)
         /\ ~ LastPage(Page) =>
               (After(e, Key(Last(Page))) <=> After(e, cursor) /\ e \notin Range(Page))
<1>1. e \in Selected <=> After(e, cursor)
  BY DEF Selected
<1>2. e \in Range(Page) => e \in Selected
  BY PageShape DEF Range
<1>3. ASSUME ~ LastPage(Page)
      PROVE  After(e, Key(Last(Page))) <=> After(e, cursor) /\ e \notin Range(Page)
  <2> DEFINE z == Last(Page)
  <2>1. Page \in Seq(Expense) /\ Page # <<>> /\ Len(Page) \in DOMAIN Page /\ z = Page[Len(Page)]
    BY <1>3, PageShape DEF Last
  <2>2. z \in Expense /\ z \in Selected
    BY <2>1, PageShape
  <2> HIDE DEF z
  <2>3. Key(z) # Null /\ Key(z) \in [date : Date, id : Expense] /\ Key(e) \in [date : Date, id : Expense]
    BY <2>2, KeyFacts
  <2>4. After(e, Key(z)) <=> ComesBefore(z, e)
    BY <2>3 DEF After, ComesBefore
  <2>5. ASSUME e \in Range(Page) PROVE ~ ComesBefore(z, e)
    <3>1. PICK i \in DOMAIN Page : e = Page[i]
      BY <2>5 DEF Range
    <3>2. i = Len(Page) \/ i < Len(Page)
      BY <2>1
    <3>3. CASE i = Len(Page)
      BY <2>1, <2>2, <3>1, <3>3, OrderIsTotal
    <3>4. CASE i < Len(Page)
      <4>1. ComesBefore(e, z)
        BY <2>1, <3>1, <3>4, PageShape
      <4>2. QED
        BY <2>3, <4>1, BeforeIsTransitive DEF ComesBefore
    <3>5. QED
      BY <3>2, <3>3, <3>4
  <2>6. ASSUME ComesBefore(z, e) PROVE After(e, cursor)
    <3>1. cursor = Null \/ (cursor \in [date : Date, id : Expense] /\ Before(cursor, Key(z)))
      BY <2>2 DEF Selected, After
    <3>2. QED
      BY <2>3, <2>6, <3>1, BeforeIsTransitive DEF After, ComesBefore
  <2>7. ASSUME After(e, cursor), e \notin Range(Page) PROVE ComesBefore(z, e)
    BY <1>1, <1>3, <2>7, PageShape DEF z
  <2>8. QED
    BY <2>4, <2>5, <2>6, <2>7 DEF z
<1>4. QED
  BY <1>1, <1>2, <1>3, PageShape

(* One sequence after another.                                             *)
LEMMA Concatenation ==
  ASSUME NEW T, NEW s \in Seq(T), NEW t \in Seq(T)
  PROVE  /\ s \o t \in Seq(T) /\ DOMAIN s \subseteq DOMAIN (s \o t)
         /\ \A i \in DOMAIN s : (s \o t)[i] = s[i]
         /\ \A i \in DOMAIN t : Len(s) + i \in DOMAIN (s \o t) /\ (s \o t)[Len(s) + i] = t[i]
         /\ \A i \in DOMAIN (s \o t) : i \in DOMAIN s \/ \E j \in DOMAIN t : i = Len(s) + j
<1>1. s \o t \in Seq(T) /\ Len(s \o t) = Len(s) + Len(t)
  OBVIOUS
<1>2. \A i \in 1..Len(s) : (s \o t)[i] = s[i]
  OBVIOUS
<1>3. \A i \in 1..Len(t) : (s \o t)[Len(s) + i] = t[i]
  OBVIOUS
<1>4. /\ Len(s) \in Nat /\ Len(t) \in Nat
      /\ DOMAIN s = 1..Len(s) /\ DOMAIN t = 1..Len(t) /\ DOMAIN (s \o t) = 1..(Len(s) + Len(t))
  BY <1>1
<1>5. \A i \in 1..(Len(s) + Len(t)) : i \in 1..Len(s) \/ \E j \in 1..Len(t) : i = Len(s) + j
  <2>1. SUFFICES ASSUME NEW i \in 1..(Len(s) + Len(t)), i \notin 1..Len(s)
                 PROVE  \E j \in 1..Len(t) : i = Len(s) + j
    OBVIOUS
  <2>2. i - Len(s) \in 1..Len(t) /\ i = Len(s) + (i - Len(s))
    BY <1>4, <2>1
  <2>3. QED
    BY <2>2
<1>6. \A i \in 1..Len(t) : Len(s) + i \in 1..(Len(s) + Len(t))
  BY <1>4
<1>7. 1..Len(s) \subseteq 1..(Len(s) + Len(t))
  BY <1>4
<1>8. QED
  BY <1>1, <1>2, <1>3, <1>4, <1>5, <1>6, <1>7

(* The images of a page follow those before it, and each row whose file is *)
(* there has the place of its own image.                                   *)
LEMMA PageImages ==
  ASSUME ExportTypeOK
  PROVE  /\ images \o ImagesOf(Found(Page)) \in Seq(Receipt)
         /\ DOMAIN images \subseteq DOMAIN (images \o ImagesOf(Found(Page)))
         /\ \A n \in DOMAIN images : (images \o ImagesOf(Found(Page)))[n] = images[n]
         /\ \A e \in Range(Page) : receiptOf[e] \in present =>
               /\ Place(e, Found(Page)) \in DOMAIN (images \o ImagesOf(Found(Page)))
               /\ Place(e, Found(Page)) \notin {Empty, Missing}
               /\ (images \o ImagesOf(Found(Page)))[Place(e, Found(Page))] = receiptOf[e]
<1> DEFINE page == Page
           found == Found(page)
           S == {e \in Range(page) : receiptOf[e] \in present}
           n == Cardinality(S)
           tail == ImagesOf(found)
<1>1. /\ date \in [Expense -> Date] /\ receiptOf \in [Expense -> Receipt \cup {Null}]
      /\ present \subseteq Receipt /\ images \in Seq(Receipt)
  BY DEF ExportTypeOK
<1>2. S \in SUBSET Expense
  BY <1>1, PageShape DEF Range
<1>3. /\ found \in [1..n -> S] /\ n \in Nat
      /\ \A e \in S : \E i \in 1..n : found[i] = e
  <2>1. found = InOrder(S)
    BY DEF Found
  <2> HIDE DEF S
  <2>2. QED
    BY <1>1, <1>2, <2>1, InOrderSorts
<1> HIDE DEF n
<1>4. tail \in Seq(Receipt) /\ Len(tail) = n /\ \A i \in 1..n : tail[i] = receiptOf[found[i]]
  <2>1. \A i \in 1..n : found[i] \in S /\ receiptOf[found[i]] \in Receipt
    BY <1>1, <1>3
  <2>2. tail \in [1..n -> Receipt] /\ \A i \in 1..n : tail[i] = receiptOf[found[i]]
    BY <1>3, <2>1 DEF ImagesOf
  <2>3. QED
    BY <1>3, <2>2
<1> HIDE DEF tail, S, found, page
<1>5. DOMAIN tail = 1..n
  BY <1>3, <1>4
<1>6. /\ images \o tail \in Seq(Receipt) /\ DOMAIN images \subseteq DOMAIN (images \o tail)
      /\ \A i \in DOMAIN images : (images \o tail)[i] = images[i]
      /\ \A i \in DOMAIN tail : /\ Len(images) + i \in DOMAIN (images \o tail)
                               /\ (images \o tail)[Len(images) + i] = tail[i]
  <2>1. images \in Seq(Receipt) /\ tail \in Seq(Receipt)
    BY <1>1, <1>4
  <2>2. QED
    BY <2>1, Concatenation
<1>7. ASSUME NEW e \in Range(page), receiptOf[e] \in present
      PROVE  /\ Place(e, found) \in DOMAIN (images \o tail) /\ Place(e, found) \notin {Empty, Missing}
             /\ (images \o tail)[Place(e, found)] = receiptOf[e]
  <2> DEFINE i == CHOOSE i \in DOMAIN found : found[i] = e
  <2>1. e \in S
    BY <1>7 DEF S, page
  <2>2. i \in 1..n /\ found[i] = e
    BY <1>3, <2>1
  <2>3. Place(e, found) = Len(images) + i
    BY DEF Place
  <2> HIDE DEF i
  <2>4. Place(e, found) \in DOMAIN (images \o tail) /\ (images \o tail)[Place(e, found)] = receiptOf[e]
    BY <1>4, <1>5, <1>6, <2>2, <2>3
  <2>5. Place(e, found) \notin {0, -1}
    BY <1>1, <1>3, <2>2, <2>3
  <2>6. QED
    BY <2>4, <2>5 DEF Empty, Missing
<1>8. QED
  BY <1>6, <1>7 DEF found, page, tail

(* The invariant holds before the first page.                              *)
LEMMA InitExportInv == ExportInit => ExportInv
<1> SUFFICES ASSUME ExportInit PROVE ExportInv
  OBVIOUS
<1> USE DEF ExportInit
<1>1. ExportTypeOK
  BY BatchAssumption DEF ExportTypeOK, Row, Stage, Empty
<1>2. LedgerAscends
  BY DEF LedgerAscends
<1>3. \A e \in steady : Matches(e)
  OBVIOUS
<1>4. CellsHold
  BY DEF CellsHold, Passed, After
<1>5. LedgerHolds
  BY DEF LedgerHolds, Written, Passed, After
<1>6. EntriesHold
  BY DEF EntriesHold
<1>7. QED
  BY <1>1, <1>2, <1>3, <1>4, <1>5, <1>6 DEF ExportInv

(* Where the cursor goes is a row of the table, or nowhere.                *)
LEMMA AdvanceTyped ==
  ASSUME ExportTypeOK, Advance(Page)
  PROVE  /\ cursor' \in [date : Date, id : Expense] \cup {Null}
         /\ ~ LastPage(Page) => /\ cursor' = Key(Last(Page)) /\ cursor' # Null
                                /\ Last(Page) \in Expense /\ Last(Page) \in Selected
<1>1. date \in [Expense -> Date]
  BY DEF ExportTypeOK
<1>2. ASSUME ~ LastPage(Page) PROVE Last(Page) \in Expense /\ Last(Page) \in Selected
  <2>1. Page \in Seq(Expense) /\ Page # <<>> /\ \A i \in DOMAIN Page : Page[i] \in Selected
    BY <1>1, <1>2, PageShape
  <2>2. Len(Page) \in DOMAIN Page
    BY <2>1
  <2>3. QED
    BY <2>1, <2>2 DEF Last
<1>3. QED
  BY <1>1, <1>2, KeyFacts DEF Advance

LEMMA PresencePageExportInv ==
  ASSUME ExportInv, PresencePage
  PROVE  ExportInv'
<1> DEFINE page == Page
           found == Found(page)
<1>0. ExportTypeOK /\ LedgerAscends /\ CellsHold /\ LedgerHolds /\ EntriesHold
      /\ \A e \in steady : Matches(e)
  BY DEF ExportInv
<1>1. /\ stage = "presence" /\ kind = "zip" /\ ledger = <<>>
      /\ stage' = IF LastPage(page) THEN "ledger" ELSE stage
      /\ UNCHANGED <<row, date, receiptOf, present, kind, filter, ledger, entries, writes, steady>>
      /\ images' = images \o ImagesOf(found)
      /\ cellFor' = [e \in Expense |->
                       IF e \notin Range(page) \/ receiptOf[e] = Null THEN cellFor[e]
                       ELSE IF receiptOf[e] \in present THEN Place(e, found) ELSE Missing]
      /\ Advance(Page)
  BY <1>0 DEF PresencePage, expenses, query, ExportTypeOK, LedgerHolds, Stage
<1>2. /\ images' \in Seq(Receipt) /\ DOMAIN images \subseteq DOMAIN images'
      /\ \A n \in DOMAIN images : images'[n] = images[n]
      /\ \A e \in Range(page) : receiptOf[e] \in present =>
            /\ Place(e, found) \in DOMAIN images' /\ Place(e, found) \notin {Empty, Missing}
            /\ images'[Place(e, found)] = receiptOf[e]
  <2> DEFINE more == images \o ImagesOf(found)
  <2>1. /\ more \in Seq(Receipt) /\ DOMAIN images \subseteq DOMAIN more
        /\ \A n \in DOMAIN images : more[n] = images[n]
        /\ \A e \in Range(page) : receiptOf[e] \in present =>
              /\ Place(e, found) \in DOMAIN more /\ Place(e, found) \notin {Empty, Missing}
              /\ more[Place(e, found)] = receiptOf[e]
    <3>1. ExportTypeOK
      BY <1>0
    <3>2. QED
      BY <3>1, PageImages
  <2>2. more = images'
    BY <1>1
  <2> HIDE DEF more, found, page
  <2>3. QED
    BY <2>1, <2>2
<1> HIDE DEF found
<1>3. /\ cursor' \in [date : Date, id : Expense] \cup {Null}
      /\ ~ LastPage(Page) => cursor' = Key(Last(Page)) /\ cursor' # Null
  BY <1>0, <1>1, AdvanceTyped
<1> HIDE DEF page
<1>4. ExportTypeOK'
  <2>1. cellFor' \in [Expense -> {Empty, Missing} \cup DOMAIN images']
    BY <1>0, <1>1, <1>2 DEF ExportTypeOK
  <2>2. QED
    BY <1>0, <1>1, <1>2, <1>3, <2>1 DEF ExportTypeOK, Stage
<1>5. LedgerAscends'
  BY <1>0, <1>1 DEF LedgerAscends
<1>6. (\A e \in steady : Matches(e))'
  BY <1>0, <1>1 DEF Matches
<1>7. CellsHold'
  <2>1. SUFFICES ASSUME NEW e \in steady
                 PROVE  IF stage' = "presence" /\ ~ Passed(e)' THEN cellFor'[e] = Empty
                        ELSE TrueCell(cellFor[e], receiptOf[e])'
    BY <1>1, <2>1 DEF CellsHold
  <2>2. /\ e \in Expense /\ Matches(e) /\ date \in [Expense -> Date]
        /\ cursor \in [date : Date, id : Expense] \cup {Null}
        /\ receiptOf[e] \in Receipt \cup {Null}
    BY <1>0 DEF ExportTypeOK
  <2>3. /\ e \in Range(page) => After(e, cursor)
        /\ LastPage(page) /\ After(e, cursor) => e \in Range(page)
        /\ ~ LastPage(page) =>
              (After(e, Key(Last(page))) <=> After(e, cursor) /\ e \notin Range(page))
    BY <2>2, CursorPasses DEF page
  <2>4. stage' = "presence" => (Passed(e)' <=> Passed(e) \/ e \in Range(page))
    <3>1. ASSUME stage' = "presence"
          PROVE  After(e, cursor)' <=> After(e, Key(Last(page)))
      BY <1>1, <1>3, <3>1 DEF After, Key, page
    <3>2. stage' = "presence" => ~ LastPage(page)
      BY <1>1
    <3>3. QED
      BY <2>3, <3>1, <3>2 DEF Passed
  <2>5. IF Passed(e) THEN TrueCell(cellFor[e], receiptOf[e]) ELSE cellFor[e] = Empty
    BY <1>0, <1>1 DEF CellsHold
  <2>6. CASE e \in Range(page)
    <3>1. cellFor[e] = Empty
      BY <2>3, <2>5, <2>6 DEF Passed
    <3>2. cellFor'[e] = IF receiptOf[e] = Null THEN Empty
                        ELSE IF receiptOf[e] \in present THEN Place(e, found) ELSE Missing
      BY <1>1, <2>2, <2>6, <3>1
    <3>3. TrueCell(cellFor[e], receiptOf[e])'
      <4>1. CASE receiptOf[e] = Null
        <5>1. Null \notin present
          BY <1>0, NullAssumption DEF ExportTypeOK
        <5>2. QED
          BY <1>1, <3>2, <4>1, <5>1 DEF TrueCell, Empty, Missing
      <4>2. CASE receiptOf[e] # Null /\ receiptOf[e] \in present
        BY <1>1, <1>2, <2>6, <3>2, <4>2 DEF TrueCell
      <4>3. CASE receiptOf[e] # Null /\ receiptOf[e] \notin present
        BY <1>1, <3>2, <4>3 DEF TrueCell, Empty, Missing
      <4>4. QED
        BY <4>1, <4>2, <4>3
    <3>4. QED
      BY <2>4, <2>6, <3>3
  <2>7. CASE e \notin Range(page)
    <3>1. cellFor'[e] = cellFor[e]
      BY <1>1, <2>2, <2>7
    <3>2. ASSUME TrueCell(cellFor[e], receiptOf[e]) PROVE TrueCell(cellFor[e], receiptOf[e])'
      <4>1. cellFor[e] \in {Empty, Missing} \cup DOMAIN images
        BY <1>0, <2>2 DEF ExportTypeOK
      <4>2. QED
        BY <1>1, <1>2, <3>1, <3>2, <4>1 DEF TrueCell
    <3>3. CASE stage' = "presence"
      BY <2>4, <2>5, <2>7, <3>1, <3>2, <3>3
    <3>4. CASE stage' # "presence"
      <4>1. LastPage(page)
        BY <1>1, <3>4
      <4>2. Passed(e)
        BY <2>3, <2>7, <4>1 DEF Passed
      <4>3. QED
        BY <2>5, <3>2, <3>4, <4>2
    <3>5. QED
      BY <3>3, <3>4
  <2>8. QED
    BY <2>6, <2>7
<1>8. LedgerHolds'
  <2>1. stage' = "ledger" => cursor' = Null
    BY <1>1 DEF Advance, page
  <2>2. \A e : stage' = "ledger" => ~ Passed(e)'
    BY <2>1 DEF Passed, After
  <2>3. ~ Written' /\ ledger' = <<>>
    BY <1>1 DEF Written
  <2>4. QED
    BY <2>2, <2>3 DEF LedgerHolds
<1>9. EntriesHold'
  <2>1. entries \in Seq(Receipt) /\ images \in Seq(Receipt)
    BY <1>0 DEF ExportTypeOK
  <2>2. \A n \in DOMAIN entries : n \in DOMAIN images
    BY <1>0, <2>1 DEF EntriesHold
  <2>3. Len(images) <= Len(images')
    <3>1. Len(images) \in Nat /\ Len(images') \in Nat
          /\ DOMAIN images = 1..Len(images) /\ DOMAIN images' = 1..Len(images')
      BY <1>2, <2>1
    <3>2. Len(images) = 0 \/ Len(images) \in 1..Len(images')
      BY <1>2, <3>1
    <3>3. QED
      BY <3>1, <3>2
  <2>4. Len(entries') <= Len(images')
    BY <1>0, <1>1, <1>2, <2>1, <2>3 DEF EntriesHold
  <2>5. stage' # "done" /\ entries' = entries
    BY <1>1
  <2>6. \A n \in DOMAIN entries : images'[n] = entries[n]
    BY <1>0, <1>2, <2>2 DEF EntriesHold
  <2>7. QED
    BY <2>4, <2>5, <2>6 DEF EntriesHold
<1>10. QED
  BY <1>4, <1>5, <1>6, <1>7, <1>8, <1>9 DEF ExportInv

LineType == [id : Expense, date : Date, receipt : Receipt \cup {Null}, cell : Int]

(* A line of the ledger is ordered as its key is.                          *)
LEMMA LineFacts ==
  ASSUME ExportTypeOK, NEW e \in Expense
  PROVE  /\ Line(e) \in LineType
         /\ Line(e).id = e /\ Line(e).date = date[e] /\ Line(e).receipt = receiptOf[e]
         /\ Line(e).cell = cellFor[e]
         /\ \A k : Before(k, Line(e)) <=> Before(k, Key(e))
<1>1. cellFor[e] \in Int
  <2>1. cellFor[e] \in {Empty, Missing} \cup DOMAIN images /\ images \in Seq(Receipt)
    BY DEF ExportTypeOK
  <2>2. DOMAIN images \subseteq Int
    BY <2>1
  <2>3. QED
    BY <2>1, <2>2 DEF Empty, Missing
<1>2. QED
  BY <1>1 DEF ExportTypeOK, Line, LineType, Before, Key

(* The order is the same for a line and for the key it has.                *)
LEMMA LineOrder ==
  ASSUME NEW k \in LineType \cup [date : Date, id : Expense],
         NEW l \in LineType \cup [date : Date, id : Expense],
         NEW m \in LineType \cup [date : Date, id : Expense]
  PROVE  /\ Before(k, l) /\ Before(l, m) => Before(k, m)
         /\ ~ Before(l, k) /\ Before(l, m) => Before(k, m)
         /\ ~ Before(k, k)
         /\ Before(k, l) => ~ Before(l, k)
<1>1. /\ k.date \in Nat /\ l.date \in Nat /\ m.date \in Nat
      /\ k.id \in Nat /\ l.id \in Nat /\ m.id \in Nat
  BY ExpenseAssumption DEF LineType
<1>2. QED
  BY <1>1 DEF Before

(* The lines of a page, after those before it.                             *)
LEMMA PageLines ==
  ASSUME ExportTypeOK
  PROVE  /\ ledger \o Lines(Page) \in Seq(LineType)
         /\ DOMAIN ledger \subseteq DOMAIN (ledger \o Lines(Page))
         /\ \A i \in DOMAIN ledger : (ledger \o Lines(Page))[i] = ledger[i]
         /\ \A i \in DOMAIN Page : /\ Len(ledger) + i \in DOMAIN (ledger \o Lines(Page))
                                   /\ (ledger \o Lines(Page))[Len(ledger) + i] = Line(Page[i])
         /\ \A i \in DOMAIN (ledger \o Lines(Page)) :
               i \in DOMAIN ledger \/ \E j \in DOMAIN Page : i = Len(ledger) + j
<1> DEFINE lines == Lines(Page)
<1>1. Page \in Seq(Expense)
  BY PageShape DEF ExportTypeOK
<1>2. \A i \in DOMAIN Page : Page[i] \in Expense /\ Line(Page[i]) \in LineType
  BY <1>1, LineFacts
<1>3. lines \in Seq(LineType)
  BY <1>1, <1>2 DEF Lines
<1>4. DOMAIN lines = DOMAIN Page /\ \A i \in DOMAIN Page : lines[i] = Line(Page[i])
  BY DEF Lines
<1> HIDE DEF lines
<1>5. ledger \in Seq(LineType)
  BY DEF ExportTypeOK, LineType
<1>6. /\ ledger \o lines \in Seq(LineType) /\ DOMAIN ledger \subseteq DOMAIN (ledger \o lines)
      /\ \A i \in DOMAIN ledger : (ledger \o lines)[i] = ledger[i]
      /\ \A i \in DOMAIN lines : /\ Len(ledger) + i \in DOMAIN (ledger \o lines)
                                 /\ (ledger \o lines)[Len(ledger) + i] = lines[i]
      /\ \A i \in DOMAIN (ledger \o lines) :
            i \in DOMAIN ledger \/ \E j \in DOMAIN lines : i = Len(ledger) + j
  BY <1>3, <1>5, Concatenation
<1>7. QED
  BY <1>4, <1>6, Zenon DEF lines

LEMMA LedgerPageExportInv ==
  ASSUME ExportInv, LedgerPage
  PROVE  ExportInv'
<1> DEFINE page == Page
<1>0. ExportTypeOK /\ LedgerAscends /\ CellsHold /\ LedgerHolds /\ EntriesHold
      /\ \A e \in steady : Matches(e)
  BY DEF ExportInv
<1>1. /\ stage = "ledger"
      /\ stage' = IF ~ LastPage(page) THEN stage ELSE IF kind = "zip" THEN "images" ELSE "done"
      /\ UNCHANGED <<row, date, receiptOf, present, kind, filter, cellFor, images, entries, writes, steady>>
      /\ ledger' = ledger \o Lines(page) /\ Advance(page)
  BY DEF LedgerPage, expenses, query, archive
<1>2. /\ ledger' \in Seq(LineType) /\ DOMAIN ledger \subseteq DOMAIN ledger'
      /\ \A i \in DOMAIN ledger : ledger'[i] = ledger[i]
      /\ \A i \in DOMAIN page : Len(ledger) + i \in DOMAIN ledger' /\ ledger'[Len(ledger) + i] = Line(page[i])
      /\ \A i \in DOMAIN ledger' : i \in DOMAIN ledger \/ \E j \in DOMAIN page : i = Len(ledger) + j
  <2>1. ExportTypeOK
    BY <1>0
  <2>2. QED
    BY <1>1, <2>1, PageLines, Zenon
<1>3. /\ cursor' \in [date : Date, id : Expense] \cup {Null}
      /\ ~ LastPage(page) => /\ cursor' = Key(Last(page)) /\ cursor' # Null
                             /\ Last(page) \in Expense /\ Last(page) \in Selected
  BY <1>0, <1>1, AdvanceTyped
<1>4. /\ page \in Seq(Expense) /\ \A i \in DOMAIN page : page[i] \in Expense /\ page[i] \in Selected
      /\ \A i, j \in DOMAIN page : i < j => ComesBefore(page[i], page[j])
  <2>1. Page \in Seq(Expense) /\ \A i \in DOMAIN Page : Page[i] \in Selected
    BY <1>0, PageShape DEF ExportTypeOK
  <2>2. QED
    BY <1>0, <2>1, PageShape DEF ExportTypeOK
<1>5. /\ ledger \in Seq(LineType) /\ cursor \in [date : Date, id : Expense] \cup {Null}
      /\ Len(ledger) \in Nat /\ DOMAIN ledger = 1..Len(ledger) /\ DOMAIN page \subseteq Nat \ {0}
  BY <1>0, <1>4 DEF ExportTypeOK, LineType
<1>6. \A e \in Expense : Key(e) \in [date : Date, id : Expense]
  BY <1>0, KeyFacts DEF ExportTypeOK
<1>7. \A e \in Expense : Line(e) \in LineType /\ Line(e).id = e /\ Line(e).date = date[e]
                         /\ Line(e).receipt = receiptOf[e] /\ Line(e).cell = cellFor[e]
  BY <1>0, LineFacts
<1>8. \A e \in Expense : \A k : (Before(k, Line(e)) <=> Before(k, Key(e))) /\ (Before(Line(e), k) <=> Before(Key(e), k))
  BY <1>7 DEF Before, Key
<1>9. \A e \in Selected : e \in Expense /\ Matches(e) /\ After(e, cursor)
  BY DEF Selected
<1> HIDE DEF page
<1>10. ExportTypeOK'
  <2>1. stage' \in (IF kind = "zip" THEN Stage ELSE Stage \ {"presence", "images"})
    BY <1>0, <1>1 DEF ExportTypeOK, Stage
  <2>2. QED
    BY <1>0, <1>1, <1>2, <1>3, <2>1 DEF ExportTypeOK, LineType
<1>11. LedgerAscends'
  <2>1. SUFFICES ASSUME NEW i \in DOMAIN ledger', NEW j \in DOMAIN ledger', i < j
                 PROVE  Before(ledger'[i], ledger'[j])
    BY DEF LedgerAscends
  <2>2. CASE i \in DOMAIN ledger /\ j \in DOMAIN ledger
    BY <1>0, <1>2, <2>1, <2>2 DEF LedgerAscends
  <2>3. ASSUME i \in DOMAIN ledger, NEW v \in DOMAIN page, j = Len(ledger) + v
        PROVE  Before(ledger'[i], ledger'[j])
    <3>1. cursor # Null /\ ~ Before(cursor, ledger[i]) /\ ledger[i] \in LineType
      BY <1>0, <1>1, <1>5, <2>3 DEF LedgerHolds
    <3>2. Before(cursor, Key(page[v])) /\ page[v] \in Expense
      BY <1>4, <1>9, <3>1 DEF After
    <3>3. Before(ledger[i], Key(page[v]))
      BY <1>5, <1>6, <3>1, <3>2, LineOrder
    <3>4. QED
      BY <1>2, <1>8, <2>3, <3>2, <3>3
  <2>4. ASSUME NEW u \in DOMAIN page, i = Len(ledger) + u, NEW v \in DOMAIN page, j = Len(ledger) + v
        PROVE  Before(ledger'[i], ledger'[j])
    <3>1. u < v
      BY <1>5, <2>1, <2>4
    <3>2. Before(Key(page[u]), Key(page[v])) /\ page[u] \in Expense /\ page[v] \in Expense
      BY <1>4, <3>1 DEF ComesBefore
    <3>3. QED
      BY <1>2, <1>8, <2>4, <3>2
  <2>5. ASSUME NEW u \in DOMAIN page, i = Len(ledger) + u, j \in DOMAIN ledger
        PROVE  FALSE
    BY <1>5, <2>1, <2>5
  <2>6. QED
    BY <1>2, <2>1, <2>2, <2>3, <2>4, <2>5
<1>12. (\A e \in steady : Matches(e))'
  BY <1>0, <1>1 DEF Matches
<1>13. CellsHold'
  <2>1. kind = "csv" => images' = <<>> /\ \A e \in Expense : cellFor'[e] = Empty
    BY <1>0, <1>1 DEF CellsHold
  <2>2. ASSUME kind = "zip", NEW e \in steady PROVE TrueCell(cellFor[e], receiptOf[e])'
    BY <1>0, <1>1, <2>2 DEF CellsHold, TrueCell
  <2>3. stage' # "presence"
    BY <1>1
  <2>4. QED
    BY <1>1, <2>1, <2>2, <2>3 DEF CellsHold
<1>14. LedgerHolds'
  <2>1. ASSUME NEW i \in DOMAIN ledger'
        PROVE  LET l == ledger'[i] IN
               /\ l.cell = cellFor[l.id]
               /\ l.id \in steady => l.date = date[l.id] /\ l.receipt = receiptOf[l.id]
               /\ stage' = "ledger" => cursor' # Null /\ ~ Before(cursor', l)
    <3>1. ASSUME i \in DOMAIN ledger
          PROVE  LET l == ledger[i] IN
                 /\ l.cell = cellFor[l.id]
                 /\ l.id \in steady => l.date = date[l.id] /\ l.receipt = receiptOf[l.id]
                 /\ stage' = "ledger" => cursor' # Null /\ ~ Before(cursor', l)
      <4> DEFINE l == ledger[i]
      <4>1. /\ l.cell = cellFor[l.id]
            /\ l.id \in steady => l.date = date[l.id] /\ l.receipt = receiptOf[l.id]
            /\ cursor # Null /\ ~ Before(cursor, l) /\ l \in LineType
        BY <1>0, <1>1, <1>5, <3>1 DEF LedgerHolds
      <4> HIDE DEF l
      <4>2. ASSUME stage' = "ledger" PROVE cursor' # Null /\ ~ Before(cursor', l)
        <5> DEFINE z == Last(page)
        <5>1. /\ cursor' # Null /\ cursor' = Key(z) /\ z \in Expense
              /\ Before(cursor, Key(z)) /\ Key(z) \in [date : Date, id : Expense]
          BY <1>1, <1>3, <1>6, <1>9, <4>1, <4>2 DEF After
        <5> HIDE DEF z
        <5>2. ~ Before(Key(z), l)
          BY <1>5, <4>1, <5>1, LineOrder
        <5>3. QED
          BY <5>1, <5>2
      <4>3. QED
        BY <4>1, <4>2 DEF l
    <3>2. ASSUME NEW v \in DOMAIN page, i = Len(ledger) + v
          PROVE  LET l == Line(page[v]) IN
                 /\ l.cell = cellFor[l.id]
                 /\ l.id \in steady => l.date = date[l.id] /\ l.receipt = receiptOf[l.id]
                 /\ stage' = "ledger" => cursor' # Null /\ ~ Before(cursor', l)
      <4>1. page[v] \in Expense /\ page[v] \in Selected /\ Matches(page[v])
        BY <1>4, <1>9
      <4>2. ASSUME stage' = "ledger" PROVE cursor' # Null /\ ~ Before(cursor', Line(page[v]))
        <5>1. ~ LastPage(page) /\ cursor' # Null /\ cursor' = Key(Last(page))
          BY <1>1, <1>3, <4>2
        <5>2. page[v] \in Range(page)
          BY DEF Range
        <5>3. ~ After(page[v], Key(Last(page)))
          BY <1>0, <1>5, <4>1, <5>1, <5>2, CursorPasses DEF ExportTypeOK, page
        <5>4. QED
          BY <1>8, <4>1, <5>1, <5>3 DEF After
      <4>3. QED
        BY <1>7, <4>1, <4>2
    <3>3. QED
      BY <1>2, <3>1, <3>2
  <2>2. ASSUME NEW e \in steady, Written' \/ (stage' = "ledger" /\ Passed(e)')
        PROVE  InLedger(e)'
    <3>1. /\ e \in Expense /\ Matches(e) /\ date \in [Expense -> Date]
      BY <1>0 DEF ExportTypeOK
    <3>2. /\ LastPage(page) /\ After(e, cursor) => e \in Range(page)
          /\ ~ LastPage(page) =>
                (After(e, Key(Last(page))) <=> After(e, cursor) /\ e \notin Range(page))
      BY <1>5, <3>1, CursorPasses DEF page
    <3>3. ~ After(e, cursor) \/ e \in Range(page)
      <4>1. CASE LastPage(page)
        BY <3>2, <4>1
      <4>2. CASE ~ LastPage(page)
        <5>1. Passed(e)' /\ stage' = "ledger"
          BY <1>1, <2>2, <4>2 DEF Written
        <5>2. ~ After(e, Key(Last(page)))
          BY <1>1, <1>3, <4>2, <5>1 DEF Passed, After, Key
        <5>3. QED
          BY <3>2, <4>2, <5>2
      <4>3. QED
        BY <4>1, <4>2
    <3>4. ASSUME ~ After(e, cursor) PROVE InLedger(e)'
      <4>1. InLedger(e)
        BY <1>0, <1>1, <3>4 DEF LedgerHolds, Passed
      <4>2. QED
        BY <1>2, <4>1 DEF InLedger
    <3>5. ASSUME e \in Range(page) PROVE InLedger(e)'
      <4>1. PICK v \in DOMAIN page : page[v] = e
        BY <3>5 DEF Range
      <4>2. QED
        BY <1>2, <1>7, <3>1, <4>1 DEF InLedger
    <3>6. QED
      BY <3>3, <3>4, <3>5
  <2>3. stage' # "presence"
    BY <1>1
  <2>4. QED
    BY <1>1, <2>1, <2>2, <2>3 DEF LedgerHolds
<1>15. EntriesHold'
  <2>1. stage' = "done" => kind = "csv"
    BY <1>0, <1>1 DEF ExportTypeOK
  <2>2. kind = "csv" => Len(entries) = Len(images)
    <3>1. ASSUME kind = "csv" PROVE Len(entries) <= 0
      BY <1>0, <3>1 DEF CellsHold, EntriesHold
    <3>2. kind = "csv" => Len(images) = 0
      BY <1>0 DEF CellsHold
    <3>3. Len(entries) \in Nat
      BY <1>0 DEF ExportTypeOK
    <3>4. QED
      BY <3>1, <3>2, <3>3
  <2>3. QED
    BY <1>0, <1>1, <2>1, <2>2 DEF EntriesHold
<1>16. QED
  BY <1>10, <1>11, <1>12, <1>13, <1>14, <1>15 DEF ExportInv

(* The images: nothing but the archive and the stage changes.              *)
LEMMA AddImageExportInv ==
  ASSUME ExportInv, AddImage
  PROVE  ExportInv'
<1> DEFINE n == Len(entries) + 1
<1>0. ExportTypeOK /\ LedgerAscends /\ CellsHold /\ LedgerHolds /\ EntriesHold
      /\ \A e \in steady : Matches(e)
  BY DEF ExportInv
<1>1. /\ stage = "images" /\ kind = "zip"
      /\ \/ n > Len(images) /\ stage' = "done" /\ entries' = entries
         \/ n <= Len(images) /\ stage' = "images" /\ entries' = Append(entries, images[n])
         \/ stage' = "aborted" /\ entries' = entries
      /\ UNCHANGED <<row, date, receiptOf, present, kind, filter, cursor, cellFor, images, ledger, writes, steady>>
  <2>1. Len(images) \in Nat /\ n \in Nat
    BY <1>0 DEF ExportTypeOK
  <2>2. QED
    BY <1>0, <2>1 DEF AddImage, expenses, query, archive, ExportTypeOK
<1>2. entries \in Seq(Receipt) /\ images \in Seq(Receipt) /\ n \in Nat
  BY <1>0 DEF ExportTypeOK
<1>3. n <= Len(images) => n \in DOMAIN images
  BY <1>2
<1> HIDE DEF n
<1>4. entries' \in Seq(Receipt)
  BY <1>1, <1>2, <1>3
<1>5. ExportTypeOK'
  BY <1>0, <1>1, <1>4 DEF ExportTypeOK, Stage
<1>6. LedgerAscends' /\ (\A e \in steady : Matches(e))'
  BY <1>0, <1>1 DEF LedgerAscends, Matches
<1>7. CellsHold'
  <2>1. \A e \in steady : TrueCell(cellFor[e], receiptOf[e])'
    BY <1>0, <1>1 DEF CellsHold, TrueCell
  <2>2. stage' # "presence" /\ kind' # "csv"
    BY <1>1
  <2>3. QED
    BY <1>1, <2>1, <2>2 DEF CellsHold
<1>8. LedgerHolds'
  <2>1. \A e \in steady : InLedger(e)'
    BY <1>0, <1>1 DEF LedgerHolds, Written, InLedger
  <2>2. stage' \notin {"presence", "ledger"}
    BY <1>1
  <2>3. QED
    BY <1>0, <1>1, <2>1, <2>2 DEF LedgerHolds
<1>9. EntriesHold'
  <2>1. CASE n > Len(images) /\ stage' = "done" /\ entries' = entries
    BY <1>0, <1>1, <1>2, <2>1 DEF EntriesHold, n
  <2>2. CASE n <= Len(images) /\ stage' = "images" /\ entries' = Append(entries, images[n])
    <3>1. Len(entries') = n /\ entries'[n] = images[n] /\ DOMAIN entries' = 1..n
      BY <1>2, <1>3, <2>2 DEF n
    <3>2. \A k \in 1..n : k = n \/ (k \in DOMAIN entries /\ entries'[k] = entries[k])
      BY <1>2, <1>3, <2>2 DEF n
    <3>3. QED
      BY <1>0, <1>1, <2>2, <3>1, <3>2 DEF EntriesHold
  <2>3. CASE stage' = "aborted" /\ entries' = entries
    BY <1>0, <1>1, <2>3 DEF EntriesHold
  <2>4. QED
    BY <1>1, <2>1, <2>2, <2>3
<1>10. QED
  BY <1>5, <1>6, <1>7, <1>8, <1>9 DEF ExportInv

LEMMA AbortExportInv ==
  ASSUME ExportInv, Abort
  PROVE  ExportInv'
<1>0. ExportTypeOK /\ LedgerAscends /\ CellsHold /\ LedgerHolds /\ EntriesHold
      /\ \A e \in steady : Matches(e)
  BY DEF ExportInv
<1>1. /\ stage \in {"presence", "ledger", "images"} /\ stage' = "aborted"
      /\ UNCHANGED <<row, date, receiptOf, present, kind, filter, cursor, cellFor, images, ledger, entries, writes, steady>>
  BY DEF Abort, expenses, query, archive
<1>2. ExportTypeOK'
  BY <1>0, <1>1 DEF ExportTypeOK, Stage
<1>3. LedgerAscends' /\ (\A e \in steady : Matches(e))'
  BY <1>0, <1>1 DEF LedgerAscends, Matches
<1>4. CellsHold'
  <2>1. stage = "presence" => ledger = <<>>
    BY <1>0 DEF LedgerHolds
  <2>2. ASSUME kind = "zip", ledger # <<>>, NEW e \in steady
        PROVE  TrueCell(cellFor[e], receiptOf[e])'
    BY <1>0, <1>1, <2>1, <2>2 DEF CellsHold, TrueCell
  <2>3. kind = "csv" => images' = <<>> /\ \A e \in Expense : cellFor'[e] = Empty
    BY <1>0, <1>1 DEF CellsHold
  <2>4. QED
    BY <1>1, <2>2, <2>3 DEF CellsHold
<1>5. LedgerHolds'
  BY <1>0, <1>1 DEF LedgerHolds, Written
<1>6. EntriesHold'
  BY <1>0, <1>1 DEF EntriesHold
<1>7. QED
  BY <1>2, <1>3, <1>4, <1>5, <1>6 DEF ExportInv

(* An edit takes its expense out of those the invariant speaks of.         *)
LEMMA EditExportInv ==
  ASSUME ExportInv, NEW x \in Expense, Edit(x),
         row' \in [Expense -> Row], date' \in [Expense -> Date],
         receiptOf' \in [Expense -> Receipt \cup {Null}],
         \A e \in Expense \ {x} : row'[e] = row[e] /\ date'[e] = date[e] /\ receiptOf'[e] = receiptOf[e]
  PROVE  ExportInv'
<1>0. ExportTypeOK /\ LedgerAscends /\ CellsHold /\ LedgerHolds /\ EntriesHold
      /\ \A e \in steady : Matches(e)
  BY DEF ExportInv
<1>1. /\ writes < MaxWrites /\ writes' = writes + 1 /\ steady' = steady \ {x}
      /\ UNCHANGED <<present, kind, filter, stage, cursor, cellFor, images, ledger, entries>>
  BY DEF Edit, query, archive
<1>2. ExportTypeOK'
  <2>1. writes' \in 0..MaxWrites
    BY <1>0, <1>1, BatchAssumption DEF ExportTypeOK
  <2>2. QED
    BY <1>0, <1>1, <2>1 DEF ExportTypeOK
<1>3. \A e \in steady' : e \in steady /\ e \in Expense /\ row'[e] = row[e] /\ date'[e] = date[e] /\ receiptOf'[e] = receiptOf[e]
  BY <1>0, <1>1 DEF ExportTypeOK
<1>4. LedgerAscends'
  BY <1>0, <1>1 DEF LedgerAscends
<1>5. (\A e \in steady : Matches(e))'
  BY <1>0, <1>1, <1>3 DEF Matches
<1>6. \A e \in steady' : Passed(e)' <=> Passed(e)
  BY <1>1, <1>3 DEF Passed, After, Key
<1>7. CellsHold'
  <2>1. \A e \in steady' : TrueCell(cellFor[e], receiptOf[e]) => TrueCell(cellFor[e], receiptOf[e])'
    BY <1>1, <1>3 DEF TrueCell
  <2>2. kind = "csv" => images' = <<>> /\ \A e \in Expense : cellFor'[e] = Empty
    BY <1>0, <1>1 DEF CellsHold
  <2>3. ASSUME kind = "zip", NEW e \in steady'
        PROVE  /\ stage' = "presence" =>
                     IF Passed(e)' THEN TrueCell(cellFor[e], receiptOf[e])' ELSE cellFor'[e] = Empty
               /\ stage' \in {"ledger", "images", "done"} \/ ledger' # <<>> =>
                     TrueCell(cellFor[e], receiptOf[e])'
    <3>1. /\ stage = "presence" =>
                IF Passed(e) THEN TrueCell(cellFor[e], receiptOf[e]) ELSE cellFor[e] = Empty
          /\ stage \in {"ledger", "images", "done"} \/ ledger # <<>> =>
                TrueCell(cellFor[e], receiptOf[e])
      BY <1>0, <1>3, <2>3 DEF CellsHold
    <3>2. QED
      BY <1>1, <1>6, <2>1, <2>3, <3>1
  <2>4. QED
    BY <1>1, <2>2, <2>3 DEF CellsHold
<1>8. LedgerHolds'
  <2>1. \A e \in steady' : InLedger(e) => InLedger(e)'
    BY <1>1 DEF InLedger
  <2>2. ASSUME NEW e \in steady', Written' \/ (stage' = "ledger" /\ Passed(e)')
        PROVE  InLedger(e)'
    <3>1. Written \/ (stage = "ledger" /\ Passed(e))
      BY <1>1, <1>6, <2>2 DEF Written
    <3>2. QED
      BY <1>0, <1>3, <2>1, <3>1 DEF LedgerHolds
  <2>3. ASSUME NEW i \in DOMAIN ledger'
        PROVE  LET l == ledger'[i] IN
               /\ l.cell = cellFor'[l.id]
               /\ l.id \in steady' => l.date = date'[l.id] /\ l.receipt = receiptOf'[l.id]
               /\ stage' = "ledger" => cursor' # Null /\ ~ Before(cursor', l)
    BY <1>0, <1>1, <1>3 DEF LedgerHolds
  <2>4. stage' = "presence" => ledger' = <<>>
    BY <1>0, <1>1 DEF LedgerHolds
  <2>5. QED
    BY <2>2, <2>3, <2>4 DEF LedgerHolds
<1>9. EntriesHold'
  BY <1>0, <1>1 DEF EntriesHold
<1>10. QED
  BY <1>2, <1>4, <1>5, <1>7, <1>8, <1>9 DEF ExportInv

LEMMA FileLostExportInv ==
  ASSUME ExportInv, NEW r \in Receipt, FileLost(r)
  PROVE  ExportInv'
<1>0. ExportTypeOK /\ LedgerAscends /\ CellsHold /\ LedgerHolds /\ EntriesHold
      /\ \A e \in steady : Matches(e)
  BY DEF ExportInv
<1>1. /\ present' = present \ {r}
      /\ UNCHANGED <<row, date, receiptOf, kind, filter, stage, cursor, cellFor, images, ledger, entries, writes, steady>>
  BY DEF FileLost, expenses, query, archive
<1>2. ExportTypeOK'
  BY <1>0, <1>1 DEF ExportTypeOK
<1>3. LedgerAscends' /\ (\A e \in steady : Matches(e))'
  BY <1>0, <1>1 DEF LedgerAscends, Matches
<1>4. \A e : Passed(e)' <=> Passed(e)
  BY <1>1 DEF Passed, After, Key
<1>5. CellsHold'
  <2>1. \A e \in steady : TrueCell(cellFor[e], receiptOf[e]) => TrueCell(cellFor[e], receiptOf[e])'
    BY <1>1 DEF TrueCell
  <2>2. QED
    BY <1>0, <1>1, <1>4, <2>1 DEF CellsHold
<1>6. LedgerHolds'
  BY <1>0, <1>1, <1>4 DEF LedgerHolds, Written, InLedger
<1>7. EntriesHold'
  BY <1>0, <1>1 DEF EntriesHold
<1>8. QED
  BY <1>2, <1>3, <1>5, <1>6, <1>7 DEF ExportInv

LEMMA NextExportInv == ExportInv /\ [ExportNext]_exportVars => ExportInv'
<1> SUFFICES ASSUME ExportInv, [ExportNext]_exportVars PROVE ExportInv'
  OBVIOUS
<1>0. row \in [Expense -> Row] /\ date \in [Expense -> Date] /\ receiptOf \in [Expense -> Receipt \cup {Null}]
  BY DEF ExportInv, ExportTypeOK
<1>1. CASE PresencePage
  BY <1>1, PresencePageExportInv
<1>2. CASE LedgerPage
  BY <1>2, LedgerPageExportInv
<1>3. CASE AddImage
  BY <1>3, AddImageExportInv
<1>4. CASE Abort
  BY <1>4, AbortExportInv
<1>5. ASSUME NEW e \in Expense, InsertExpense(e) PROVE ExportInv'
  BY <1>0, <1>5, EditExportInv DEF InsertExpense, Row
<1>6. ASSUME NEW e \in Expense, UpdateExpense(e) PROVE ExportInv'
  BY <1>0, <1>6, EditExportInv DEF UpdateExpense
<1>7. ASSUME NEW e \in Expense, SoftDeleteExpense(e) PROVE ExportInv'
  BY <1>0, <1>7, EditExportInv DEF SoftDeleteExpense, Row
<1>8. ASSUME NEW r \in Receipt, FileLost(r) PROVE ExportInv'
  BY <1>8, FileLostExportInv
<1>9. CASE UNCHANGED exportVars
  BY <1>9 DEF exportVars, expenses, query, archive, ExportInv, ExportTypeOK, LedgerAscends, Matches,
     CellsHold, LedgerHolds, EntriesHold, TrueCell, Passed, After, Key, InLedger, Written
<1>10. QED
  BY <1>1, <1>2, <1>3, <1>4, <1>5, <1>6, <1>7, <1>8, <1>9 DEF ExportNext, Download

(* What an export relies on at each of its steps, for any number of        *)
(* expenses, any batch size and any edits between the pages.               *)
THEOREM ExportInvariant == ExportSpec => []ExportInv
<1>1. QED
  BY InitExportInv, NextExportInv, PTL DEF ExportSpec

(* An expense nobody edits while an export runs is in its ledger once,     *)
(* whatever is inserted, moved and deleted around it between two pages.    *)
THEOREM SteadyExportedOnce == ExportSpec => []SteadyIsExportedOnce
<1>1. ExportInv => SteadyIsExportedOnce
  <2>1. SUFFICES ASSUME ExportInv, Written, NEW e \in steady
                 PROVE  \E i \in DOMAIN ledger :
                           ledger[i].id = e /\ \A j \in DOMAIN ledger : ledger[j].id = e => j = i
    BY DEF SteadyIsExportedOnce
  <2>2. PICK i \in DOMAIN ledger : ledger[i].id = e
    BY <2>1 DEF ExportInv, LedgerHolds, InLedger
  <2>3. ASSUME NEW j \in DOMAIN ledger, ledger[j].id = e PROVE j = i
    <3>1. i \in Int /\ j \in Int
      <4>1. ledger \in Seq(LineType)
        BY <2>1 DEF ExportInv, ExportTypeOK, LineType
      <4>2. QED
        BY <4>1
    <3>2. ledger[i].date = date[e] /\ ledger[j].date = date[e] /\ date[e] \in Nat /\ e \in Nat
      BY <2>1, <2>2, <2>3, ExpenseAssumption DEF ExportInv, ExportTypeOK, LedgerHolds
    <3>3. ~ Before(ledger[i], ledger[j]) /\ ~ Before(ledger[j], ledger[i])
      BY <2>2, <2>3, <3>2 DEF Before
    <3>4. ~ i < j /\ ~ j < i
      BY <2>1, <3>3 DEF ExportInv, LedgerAscends
    <3>5. QED
      BY <3>1, <3>4
  <2>4. QED
    BY <2>2, <2>3
<1>2. QED
  BY <1>1, ExportInvariant, PTL

(* The Receipt File cell of an expense nobody edits is true of its receipt *)
(* and of the archive, though the cell and the ledger row come from two    *)
(* passes over the table.                                                  *)
THEOREM SteadyCells == ExportSpec => []SteadyCellIsTrue
<1>1. ExportInv => SteadyCellIsTrue
  <2>1. SUFFICES ASSUME ExportInv, kind = "zip", NEW i \in DOMAIN ledger, ledger[i].id \in steady
                 PROVE  TrueCell(ledger[i].cell, ledger[i].receipt)
    BY DEF SteadyCellIsTrue
  <2>2. ledger # <<>>
    BY <2>1
  <2>3. TrueCell(cellFor[ledger[i].id], receiptOf[ledger[i].id])
    BY <2>1, <2>2 DEF ExportInv, CellsHold
  <2>4. ledger[i].cell = cellFor[ledger[i].id] /\ ledger[i].receipt = receiptOf[ledger[i].id]
    BY <2>1 DEF ExportInv, LedgerHolds
  <2>5. QED
    BY <2>3, <2>4
<1>2. QED
  BY <1>1, ExportInvariant, PTL

(* An archive that ends properly has, at its place, every image its ledger *)
(* names: an image that has gone aborts the download instead.              *)
THEOREM WholeDownloads == ExportSpec => []DoneIsWhole
<1>1. ExportInv => DoneIsWhole
  <2>1. SUFFICES ASSUME ExportInv, stage = "done", NEW i \in DOMAIN ledger,
                        ledger[i].cell \notin {Empty, Missing}
                 PROVE  /\ ledger[i].cell \in DOMAIN entries
                        /\ entries[ledger[i].cell] = images[ledger[i].cell]
    BY DEF DoneIsWhole
  <2>2. ledger[i].id \in Expense /\ ledger[i].cell = cellFor[ledger[i].id]
    <3>1. ledger \in Seq(LineType)
      BY <2>1 DEF ExportInv, ExportTypeOK, LineType
    <3>2. ledger[i] \in LineType
      BY <2>1, <3>1
    <3>3. ledger[i].cell = cellFor[ledger[i].id]
      BY <2>1 DEF ExportInv, LedgerHolds
    <3>4. QED
      BY <3>2, <3>3 DEF LineType
  <2>3. ledger[i].cell \in DOMAIN images
    BY <2>1, <2>2 DEF ExportInv, ExportTypeOK
  <2>4. DOMAIN images = DOMAIN entries
    <3>1. images \in Seq(Receipt) /\ entries \in Seq(Receipt)
      BY <2>1 DEF ExportInv, ExportTypeOK
    <3>2. Len(images) = Len(entries)
      BY <2>1 DEF ExportInv, EntriesHold
    <3>3. QED
      BY <3>1, <3>2
  <2>5. \A n \in DOMAIN entries : entries[n] = images[n]
    BY <2>1 DEF ExportInv, EntriesHold
  <2>6. QED
    BY <2>3, <2>4, <2>5, Zenon
<1>2. QED
  BY <1>1, ExportInvariant, PTL

=============================================================================
