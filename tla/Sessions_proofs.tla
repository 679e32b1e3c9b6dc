--------------------------- MODULE Sessions_proofs ---------------------------
(***************************************************************************)
(* Proofs about Sessions for every set of users, ids and requests, every   *)
(* lifetime and every bound: type correctness, the detection of replayed   *)
(* tokens, and the finality of revocation.                                 *)
(***************************************************************************)
EXTENDS Sessions, TLAPS

-----------------------------------------------------------------------------
(* Every variable has its type in every reachable state.                   *)
THEOREM TypeCorrect == Spec => []TypeOK
<1> USE NoneAssumption, TimeAssumption DEF TypeOK, Phase
<1>1. Init => TypeOK
  BY DEF Init
<1>2. TypeOK /\ [Next]_vars => TypeOK'
  <2> SUFFICES ASSUME TypeOK, [Next]_vars PROVE TypeOK'
    OBVIOUS
  <2> USE DEF columns, history, Start, Goto, Finish, Released, work
  <2>1. ASSUME NEW p \in Request, NEW u \in User, StartLogin(p, u) PROVE TypeOK'
    BY <2>1 DEF StartLogin
  <2>2. ASSUME NEW p \in Request, NEW u \in User, StartReset(p, u) PROVE TypeOK'
    BY <2>2 DEF StartReset
  <2>3. ASSUME NEW p \in Request, NEW s \in Sid, StartRefresh(p, s) PROVE TypeOK'
    BY <2>3 DEF StartRefresh
  <2>4. ASSUME NEW p \in Request, NEW s \in Sid, StartLogout(p, s) PROVE TypeOK'
    BY <2>4 DEF StartLogout
  <2>5. ASSUME NEW p \in Request, StartPrune(p) PROVE TypeOK'
    BY <2>5 DEF StartPrune
  <2>6. ASSUME NEW p \in Request, NEW n \in Sid, FinishLogin(p, n) PROVE TypeOK'
    BY <2>6 DEF FinishLogin, CreateSession
  <2>7. ASSUME NEW p \in Request, NEW n \in Sid, Rotate(p, n) PROVE TypeOK'
    BY <2>7 DEF Rotate, CreateSession
  <2>8. ASSUME NEW p \in Request, LockPresented(p) PROVE TypeOK'
    BY <2>8 DEF LockPresented, Verdict
  <2>9. ASSUME NEW p \in Request, Refuse(p) PROVE TypeOK'
    BY <2>9 DEF Refuse
  <2>10. ASSUME NEW p \in Request, SnapshotSessions(p) PROVE TypeOK'
    <3> DEFINE u == IF IsReset(p) THEN user[p] ELSE owner[session[p]]
    <3>1. u \in User \cup {None} /\ LiveOf(u) \in SUBSET Sid
      BY <2>10 DEF SnapshotSessions, LiveOf, IsReset
    <3>2. QED
      BY <2>10, <3>1 DEF SnapshotSessions
  <2>11. ASSUME NEW p \in Request, CommitRevocation(p) PROVE TypeOK'
    <3>1. password' \in [User -> Nat]
      <4>1. \/ password' = [password EXCEPT ![user[p]] = password[user[p]] + 1]
            \/ password' = password
        BY <2>11 DEF CommitRevocation
      <4>2. QED
        BY <4>1
    <3>2. revokedAt' \in [Sid -> Nat \cup {None}] /\ lock' \in [Sid -> Request \cup {None}]
      BY <2>11 DEF CommitRevocation
    <3>3. QED
      BY <2>11, <3>1, <3>2 DEF CommitRevocation
  <2>12. ASSUME NEW p \in Request, NEW s \in Sid, VisitSession(p, s) PROVE TypeOK'
    BY <2>12 DEF VisitSession
  <2>13. ASSUME NEW p \in Request, RevokeSession(p) PROVE TypeOK'
    BY <2>13 DEF RevokeSession
  <2>14. ASSUME NEW p \in Request, PruneExpired(p) PROVE TypeOK'
    BY <2>14 DEF PruneExpired, DeleteSessions
  <2>15. ASSUME NEW p \in Request, PruneRevoked(p) PROVE TypeOK'
    BY <2>15 DEF PruneRevoked, DeleteSessions
  <2>16. ASSUME NEW p \in Request, Rollback(p) PROVE TypeOK'
    BY <2>16 DEF Rollback
  <2>17. CASE Tick
    BY <2>17 DEF Tick
  <2>18. CASE UNCHANGED vars
    BY <2>18 DEF vars
  <2>19. QED
    BY <2>1, <2>2, <2>3, <2>4, <2>5, <2>6, <2>7, <2>8, <2>9, <2>10, <2>11, <2>12,
       <2>13, <2>14, <2>15, <2>16, <2>17, <2>18
       DEF Next, Arrive, Proceed, Stop, Crash, LockTimeout, DeadlockAbort, OutOfIds
<1>3. QED
  BY <1>1, <1>2, PTL DEF Spec

-----------------------------------------------------------------------------
(* A rotation keeps the invariant: the session it replaces is live, so it  *)
(* is the only one of its line, and the fresh one takes its place.         *)
LEMMA RotateKeepsReplayInv ==
  ASSUME ReplayInv, TypeOK', NEW p \in Request, NEW n \in Sid, Rotate(p, n)
  PROVE  ReplayInv'
<1> DEFINE s == session[p]
<1> USE NoneAssumption, TimeAssumption
<1>1. /\ s \in Sid /\ s \in rows /\ lock[s] = p /\ revokedAt[s] = None /\ replacedBy[s] = None
      /\ s # n /\ n \notin rows /\ lock[n] = None /\ line[n] = None
      /\ line[s] # None /\ start[p] \in Nat /\ start[p] <= clock
  BY DEF ReplayInv, TypeOK, LocksHold, PastIsPast, LinksHold, Live, Issued, Rotate, CreateSession
<1>2. /\ rows' = rows \cup {n}
      /\ owner' = [owner EXCEPT ![n] = owner[s]]
      /\ expiresAt' = [expiresAt EXCEPT ![n] = clock + TTL]
      /\ line' = [line EXCEPT ![n] = line[s]]
      /\ revokedAt' = [revokedAt EXCEPT ![s] = start[p]]
      /\ replacedBy' = [replacedBy EXCEPT ![s] = n]
      /\ lock' = [x \in Sid |-> IF lock[x] = p THEN None ELSE lock[x]]
      /\ phase' = [phase EXCEPT ![p] = "idle"]
      /\ session' = [session EXCEPT ![p] = None]
      /\ start' = [start EXCEPT ![p] = 0]
      /\ clock' = clock
  BY DEF Rotate, CreateSession, Released, Finish
<1>3. LocksHold'
  BY <1>1, <1>2 DEF ReplayInv, TypeOK, LocksHold, Live
<1>4. PastIsPast'
  BY <1>1, <1>2 DEF ReplayInv, TypeOK, PastIsPast, Issued
<1>5. LinksHold'
  BY <1>1, <1>2 DEF ReplayInv, TypeOK, PastIsPast, LinksHold
<1>6. RevokedInOrder'
  BY <1>1, <1>2 DEF ReplayInv, TypeOK, PastIsPast, LinksHold, RevokedInOrder, Issued
<1>7. ReplayIsDetected'
  BY <1>1, <1>2 DEF ReplayInv, TypeOK, PastIsPast, LinksHold, ReplayIsDetected, Live
<1>8. QED
  BY <1>3, <1>4, <1>5, <1>6, <1>7 DEF ReplayInv

(* A login keeps the invariant: no session descends from an id that was    *)
(* never issued.                                                           *)
LEMMA LoginKeepsReplayInv ==
  ASSUME ReplayInv, TypeOK', NEW p \in Request, NEW n \in Sid, FinishLogin(p, n)
  PROVE  ReplayInv'
<1> USE NoneAssumption, TimeAssumption DEF ReplayInv, TypeOK
<1>1. n \notin rows /\ lock[n] = None /\ line[n] = None /\ replacedBy[n] = None /\ revokedAt[n] = None
  BY DEF LocksHold, PastIsPast, LinksHold, Issued, FinishLogin, CreateSession
<1>2. /\ rows' = rows \cup {n}
      /\ expiresAt' = [expiresAt EXCEPT ![n] = clock + TTL]
      /\ line' = [line EXCEPT ![n] = n]
      /\ phase[p] = "authenticated"
      /\ phase' = [phase EXCEPT ![p] = "idle"]
      /\ session' = [session EXCEPT ![p] = None]
      /\ start' = [start EXCEPT ![p] = 0]
      /\ UNCHANGED <<revokedAt, replacedBy, lock, clock>>
  BY DEF FinishLogin, CreateSession, Finish
<1>3. LocksHold'
  BY <1>1, <1>2 DEF LocksHold, Live
<1>4. PastIsPast'
  BY <1>1, <1>2 DEF PastIsPast, Issued
<1>5. LinksHold'
  BY <1>1, <1>2 DEF LinksHold
<1>6. RevokedInOrder'
  BY <1>1, <1>2 DEF RevokedInOrder, LinksHold
<1>7. ReplayIsDetected'
  BY <1>1, <1>2 DEF PastIsPast, ReplayIsDetected, Live, Issued
<1>8. QED
  BY <1>3, <1>4, <1>5, <1>6, <1>7

(* Steps that leave the table alone and move locks only as they may keep   *)
(* the invariant.                                                          *)
LEMMA QuietStepKeepsReplayInv ==
  ASSUME ReplayInv, TypeOK', LocksHold', UNCHANGED <<columns, history>>,
         clock <= clock',
         \A p \in Request : /\ start'[p] <= clock'
                            /\ \/ session'[p] = None
                               \/ session'[p] = session[p] /\ start'[p] = start[p]
                               \/ session'[p] \in Issued /\ start'[p] = clock
  PROVE  ReplayInv'
<1> USE NoneAssumption, TimeAssumption DEF ReplayInv, TypeOK, columns, history
<1>1. PastIsPast'
  BY DEF PastIsPast, Issued
<1>2. LinksHold' /\ ReplayIsDetected'
  BY DEF LinksHold, ReplayIsDetected, Live
<1>3. RevokedInOrder'
  <2> SUFFICES ASSUME NEW s \in Sid, replacedBy[s] # None
               PROVE  /\ replacedBy[replacedBy[s]] # None =>
                           revokedAt[s] <= revokedAt[replacedBy[s]]
                      /\ \A p \in Request :
                           session'[p] = replacedBy[s] => revokedAt[s] <= start'[p]
    BY DEF RevokedInOrder
  <2> DEFINE r == replacedBy[s]
  <2>1. r \in Sid /\ revokedAt[s] \in Nat /\ revokedAt[s] <= clock
    BY DEF LinksHold, PastIsPast
  <2>2. replacedBy[r] # None => revokedAt[s] <= revokedAt[r]
    BY DEF RevokedInOrder
  <2>3. ASSUME NEW p \in Request, session'[p] = r PROVE revokedAt[s] <= start'[p]
    <3>1. CASE session'[p] = session[p] /\ start'[p] = start[p]
      BY <2>3, <3>1 DEF RevokedInOrder
    <3>2. CASE start'[p] = clock
      BY <2>1, <3>2
    <3>3. QED
      BY <2>1, <2>3, <3>1, <3>2
  <2>4. QED
    BY <2>2, <2>3
<1>4. QED
  BY <1>1, <1>2, <1>3

(* A statement that revokes live sessions which no other transaction holds *)
(* keeps the invariant.                                                    *)
LEMMA RevocationKeepsReplayInv ==
  ASSUME ReplayInv, TypeOK', LocksHold', UNCHANGED <<rows, expiresAt, replacedBy, line, clock>>,
         \A s \in Sid : \/ revokedAt'[s] = revokedAt[s]
                        \/ Live(s) /\ revokedAt'[s] # None /\ revokedAt'[s] <= clock,
         \A p \in Request : /\ start'[p] <= clock
                            /\ \/ session'[p] = None
                               \/ session'[p] = session[p] /\ start'[p] = start[p]
  PROVE  ReplayInv'
<1> USE NoneAssumption, TimeAssumption DEF ReplayInv, TypeOK
<1>1. PastIsPast'
  BY DEF PastIsPast, Issued, Live
<1>2. LinksHold' /\ ReplayIsDetected'
  BY DEF LinksHold, ReplayIsDetected, Live
<1>3. RevokedInOrder'
  BY DEF LinksHold, RevokedInOrder, Live
<1>4. QED
  BY <1>1, <1>2, <1>3

(* A DELETE keeps the invariant when it never takes a replacement and      *)
(* leaves what it replaced, the last of a line with a live session apart.  *)
LEMMA DeletionKeepsReplayInv ==
  ASSUME ReplayInv, TypeOK', NEW p \in Request, NEW gone \in SUBSET rows, DeleteSessions(gone),
         phase[p] \in {"pruneExpired", "pruneRevoked"},
         phase'[p] \in {"idle", "pruneRevoked"},
         \A q \in Request \ {p} : phase'[q] = phase[q],
         \A q \in Request : /\ start'[q] <= clock
                            /\ \/ session'[q] = None
                               \/ session'[q] = session[q] /\ start'[q] = start[q],
         \A s \in rows \ gone : replacedBy[s] \in gone =>
            ~ \E t \in rows \ gone : Live(t) /\ line[t] = line[s] /\ t # s
  PROVE  ReplayInv'
<1> USE NoneAssumption, TimeAssumption DEF ReplayInv, TypeOK
<1>1. /\ rows' = rows \ gone
      /\ \A s \in rows : s \in gone \/ replacedBy[s] \in gone => lock[s] = None
      /\ expiresAt' = [s \in Sid |-> IF s \in gone THEN 0 ELSE expiresAt[s]]
      /\ revokedAt' = [s \in Sid |-> IF s \in gone THEN None ELSE revokedAt[s]]
      /\ replacedBy' = [s \in Sid |-> IF s \in gone \/ replacedBy[s] \in gone
                                      THEN None ELSE replacedBy[s]]
      /\ UNCHANGED <<lock, clock, line>>
  BY DEF DeleteSessions, history
<1>2. LocksHold'
  <2>1. ASSUME NEW s \in Sid, lock'[s] # None
        PROVE  s \in rows' /\ phase'[lock'[s]] \in {"rotating", "reused", "refused", "revoking"}
    BY <1>1, <2>1 DEF LocksHold
  <2>2. ASSUME NEW q \in Request, phase'[q] = "rotating"
        PROVE  (lock[session[q]] = q /\ Live(session[q]))'
    <3>1. q # p /\ phase[q] = "rotating" /\ session[q] \in Sid /\ session'[q] \in Sid
      BY <2>2
    <3>2. lock[session[q]] = q /\ Live(session[q]) /\ session'[q] = session[q]
      BY <3>1 DEF LocksHold
    <3>3. QED
      BY <1>1, <3>1, <3>2 DEF Live
  <2>3. QED
    BY <2>1, <2>2 DEF LocksHold
<1>3. PastIsPast'
  BY <1>1 DEF PastIsPast, Issued
<1>4. LinksHold'
  BY <1>1 DEF LinksHold
<1>5. RevokedInOrder'
  BY <1>1 DEF LinksHold, RevokedInOrder
<1>6. ReplayIsDetected'
  BY <1>1 DEF ReplayIsDetected, Live
<1>7. QED
  BY <1>2, <1>3, <1>4, <1>5, <1>6

(* pruneSessions keeps the invariant.  Expired rows: a replacement expires *)
(* no earlier than what it replaced.  Long-revoked rows: a replacement     *)
(* whose line is still live was itself replaced, so it was revoked no      *)
(* earlier than what it replaced.                                          *)
LEMMA PruneKeepsReplayInv ==
  ASSUME ReplayInv, TypeOK', NEW p \in Request, PruneExpired(p) \/ PruneRevoked(p)
  PROVE  ReplayInv'
<1> USE NoneAssumption, TimeAssumption DEF ReplayInv, TypeOK
<1>1. CASE PruneExpired(p)
  <2> DEFINE gone == {s \in rows : expiresAt[s] < start[p]}
  <2>1. ASSUME NEW s \in rows \ gone, replacedBy[s] \in gone PROVE FALSE
    <3>1. expiresAt[s] <= expiresAt[replacedBy[s]] /\ expiresAt[replacedBy[s]] < start[p]
      BY <2>1 DEF LinksHold
    <3>2. expiresAt[s] \in Nat /\ expiresAt[replacedBy[s]] \in Nat /\ start[p] \in Nat
      BY <2>1
    <3>3. QED
      BY <2>1, <3>1, <3>2
  <2>2. DeleteSessions(gone) /\ phase[p] = "pruneExpired" /\ clock' = clock
    BY <1>1 DEF PruneExpired, DeleteSessions
  <2>3. phase' = [phase EXCEPT ![p] = "pruneRevoked"] /\ UNCHANGED work
    BY <1>1 DEF PruneExpired, Goto
  <2>4. \A q \in Request : start[q] <= clock
    BY DEF PastIsPast
  <2> HIDE DEF gone
  <2>5. gone \in SUBSET rows
    BY DEF gone
  <2>6. QED
    BY <2>1, <2>2, <2>3, <2>4, <2>5, DeletionKeepsReplayInv DEF work
<1>2. CASE PruneRevoked(p)
  <2> DEFINE gone == LongRevoked(start[p])
  <2>1. ASSUME NEW s \in rows \ gone, replacedBy[s] \in gone,
               NEW t \in rows \ gone, Live(t), line[t] = line[s], t # s
        PROVE  FALSE
    <3> DEFINE n == replacedBy[s]
    <3>1. n \in rows /\ n # None /\ revokedAt[n] # None /\ line[n] = line[s] /\ n # t
      BY <2>1 DEF LongRevoked, LinksHold, Live
    <3>2. replacedBy[n] # None
      BY <2>1, <3>1 DEF ReplayIsDetected
    <3>3. revokedAt[s] # None /\ revokedAt[s] <= revokedAt[n]
      BY <3>1, <3>2 DEF LinksHold, RevokedInOrder
    <3>4. QED
      BY <2>1, <3>1, <3>3 DEF LongRevoked
  <2>2. DeleteSessions(gone) /\ phase[p] = "pruneRevoked" /\ clock' = clock
    BY <1>2 DEF PruneRevoked, DeleteSessions
  <2>3. /\ phase' = [phase EXCEPT ![p] = "idle"]
        /\ session' = [session EXCEPT ![p] = None]
        /\ start' = [start EXCEPT ![p] = 0]
    BY <1>2 DEF PruneRevoked, Finish
  <2>4. \A q \in Request : start'[q] <= clock
    BY <2>3 DEF PastIsPast
  <2> HIDE DEF gone
  <2>5. gone \in SUBSET rows
    BY DEF gone, LongRevoked
  <2>6. QED
    BY <2>1, <2>2, <2>3, <2>4, <2>5, DeletionKeepsReplayInv
<1>3. QED
  BY <1>1, <1>2

(* Every step keeps the invariant.                                         *)
LEMMA StepKeepsReplayInv ==
  ASSUME ReplayInv, TypeOK', [Next]_vars
  PROVE  ReplayInv'
<1> USE NoneAssumption, TimeAssumption DEF ReplayInv, TypeOK, work
<1>0. \A q \in Request : start[q] <= clock
  BY DEF PastIsPast
<1>1. ASSUME NEW p \in Request, Arrive(p) PROVE ReplayInv'
  <2>1. PICK ph \in Phase, s \in Issued \cup {None}, u \in User \cup {None}, v \in Nat :
          Start(p, ph, s, u, v) /\ ph # "rotating"
    BY <1>1 DEF Arrive, StartLogin, StartReset, StartRefresh, StartLogout, StartPrune, Phase, PastIsPast
  <2>2. UNCHANGED <<columns, history, lock, clock>>
    BY <1>1 DEF Arrive, StartLogin, StartReset, StartRefresh, StartLogout, StartPrune
  <2>3. LocksHold'
    BY <2>1, <2>2 DEF Start, LocksHold, Live, columns
  <2>4. QED
    BY <1>0, <2>1, <2>2, <2>3, QuietStepKeepsReplayInv DEF Start
<1>2. ASSUME NEW p \in Request, NEW n \in Sid, FinishLogin(p, n) \/ Rotate(p, n) PROVE ReplayInv'
  BY <1>2, LoginKeepsReplayInv, RotateKeepsReplayInv
<1>3. ASSUME NEW p \in Request, LockPresented(p) PROVE ReplayInv'
  <2>1. LocksHold'
    <3> DEFINE s == session[p]
    <3>1. phase[p] = "waiting" /\ s \in Sid /\ UNCHANGED <<columns, work>>
      BY <1>3 DEF LockPresented, Goto
    <3>2. CASE s \notin rows
      <4>1. lock' = lock /\ phase' = [phase EXCEPT ![p] = "refused"]
        BY <1>3, <3>2 DEF LockPresented, Goto
      <4>2. QED
        BY <3>1, <4>1 DEF LocksHold, Live, columns
    <3>3. CASE s \in rows
      <4>1. /\ lock' = [lock EXCEPT ![s] = p] /\ lock[s] = None
            /\ phase' = [phase EXCEPT ![p] = Verdict(s)]
        BY <1>3, <3>3 DEF LockPresented, Goto, Unlocked
      <4>2. /\ Verdict(s) \in {"reused", "refused", "rotating"}
            /\ Verdict(s) = "rotating" => Live(s)
        BY <3>3 DEF Verdict, Usable, Live
      <4>3. QED
        BY <3>1, <3>3, <4>1, <4>2 DEF LocksHold, Live, columns
    <3>4. QED
      BY <3>2, <3>3
  <2>2. QED
    BY <1>0, <1>3, <2>1, QuietStepKeepsReplayInv DEF LockPresented, Goto
<1>4. ASSUME NEW p \in Request, Refuse(p) \/ Rollback(p) PROVE ReplayInv'
  <2>2. /\ UNCHANGED <<columns, history, clock>>
        /\ lock' = [s \in Sid |-> IF lock[s] = p THEN None ELSE lock[s]]
        /\ phase' = [phase EXCEPT ![p] = "idle"]
        /\ session' = [session EXCEPT ![p] = None]
        /\ start' = [start EXCEPT ![p] = 0]
    BY <1>4 DEF Refuse, Rollback, Finish, Released
  <2>1. LocksHold'
    <3>1. ASSUME NEW s \in Sid, lock'[s] # None
          PROVE  s \in rows' /\ phase'[lock'[s]] \in {"rotating", "reused", "refused", "revoking"}
      BY <2>2, <3>1 DEF LocksHold, columns
    <3>2. ASSUME NEW q \in Request, phase'[q] = "rotating"
          PROVE  lock'[session'[q]] = q /\ Live(session[q]) /\ session'[q] = session[q]
      BY <2>2, <3>2 DEF LocksHold
    <3>3. QED
      BY <2>2, <3>1, <3>2 DEF LocksHold, Live, columns
  <2>3. \A q \in Request : /\ start'[q] <= clock
                          /\ \/ session'[q] = None
                             \/ session'[q] = session[q] /\ start'[q] = start[q]
    BY <1>0, <2>2
  <2>4. QED
    BY <2>1, <2>2, <2>3, QuietStepKeepsReplayInv
<1>5. ASSUME NEW p \in Request, SnapshotSessions(p) PROVE ReplayInv'
  <2>1. LocksHold'
    BY <1>5 DEF SnapshotSessions, LocksHold, Live, columns
  <2>2. QED
    BY <1>0, <1>5, <2>1, QuietStepKeepsReplayInv DEF SnapshotSessions
<1>6. ASSUME NEW p \in Request, NEW s \in Sid, VisitSession(p, s) PROVE ReplayInv'
  <2>1. LocksHold'
    BY <1>6 DEF VisitSession, Unlocked, LocksHold, Live, columns
  <2>2. QED
    BY <1>0, <1>6, <2>1, QuietStepKeepsReplayInv DEF VisitSession
<1>7. ASSUME NEW p \in Request, CommitRevocation(p) PROVE ReplayInv'
  <2>1. LocksHold'
    BY <1>7 DEF CommitRevocation, Finish, Released, LocksHold, Live
  <2>2. \A s \in Sid : \/ revokedAt'[s] = revokedAt[s]
                       \/ Live(s) /\ revokedAt'[s] # None /\ revokedAt'[s] <= clock
    BY <1>0, <1>7 DEF CommitRevocation, LocksHold, Live
  <2>3. QED
    BY <1>0, <1>7, <2>1, <2>2, RevocationKeepsReplayInv DEF CommitRevocation, Finish, history
<1>8. ASSUME NEW p \in Request, RevokeSession(p) PROVE ReplayInv'
  <2>1. LocksHold'
    BY <1>8 DEF RevokeSession, Finish, Unlocked, LocksHold, Live
  <2>2. \A s \in Sid : \/ revokedAt'[s] = revokedAt[s]
                       \/ Live(s) /\ revokedAt'[s] # None /\ revokedAt'[s] <= clock
    BY <1>0, <1>8 DEF RevokeSession
  <2>3. QED
    BY <1>0, <1>8, <2>1, <2>2, RevocationKeepsReplayInv DEF RevokeSession, Finish, history
<1>9. ASSUME NEW p \in Request, PruneExpired(p) \/ PruneRevoked(p) PROVE ReplayInv'
  BY <1>9, PruneKeepsReplayInv
<1>10. CASE Tick \/ UNCHANGED vars
  <2>1. LocksHold' /\ clock <= clock' /\ UNCHANGED <<columns, history, session, start>>
    BY <1>10 DEF Tick, vars, LocksHold, Live, columns
  <2>2. QED
    BY <1>0, <2>1, QuietStepKeepsReplayInv
<1>11. QED
  BY <1>1, <1>2, <1>3, <1>4, <1>5, <1>6, <1>7, <1>8, <1>9, <1>10
     DEF Next, Proceed, Stop, Crash, LockTimeout, DeadlockAbort, OutOfIds

(* The strengthening holds in every reachable state.                       *)
THEOREM ReplayInvariant == Spec => []ReplayInv
<1>1. Init => ReplayInv
  BY NoneAssumption, TimeAssumption
     DEF Init, ReplayInv, TypeOK, Phase, LocksHold, PastIsPast, LinksHold, RevokedInOrder,
         ReplayIsDetected, Live, Issued
<1>2. ReplayInv /\ TypeOK' /\ [Next]_vars => ReplayInv'
  BY StepKeepsReplayInv
<1>3. QED
  BY <1>1, <1>2, TypeCorrect, PTL DEF Spec

(* While a login has a live session, presenting any other retained token   *)
(* of that login is detected as reuse, and the live session is the only    *)
(* one: for any number of requests, sessions and users.                    *)
THEOREM ReplayDetection == Spec => []ReplayIsDetected
<1>1. ReplayInv => ReplayIsDetected
  BY DEF ReplayInv
<1>2. QED
  BY <1>1, ReplayInvariant, PTL

(* No step of any request clears or rewrites the time of a revocation.     *)
THEOREM RevocationFinality == Spec => RevocationIsFinal
<1>1. ReplayInv /\ [Next]_vars =>
        [\A s \in rows \cap rows' : revokedAt[s] # None => revokedAt'[s] = revokedAt[s]]_vars
  <2> SUFFICES ASSUME ReplayInv, [Next]_vars, NEW s \in rows \cap rows', revokedAt[s] # None
               PROVE  revokedAt'[s] = revokedAt[s]
    OBVIOUS
  <2> USE DEF ReplayInv, TypeOK, Live
  <2>1. ASSUME NEW p \in Request, NEW n \in Sid, FinishLogin(p, n) \/ Rotate(p, n)
        PROVE  revokedAt'[s] = revokedAt[s]
    BY <2>1 DEF FinishLogin, Rotate, LocksHold
  <2>2. ASSUME NEW p \in Request, CommitRevocation(p) \/ RevokeSession(p)
        PROVE  revokedAt'[s] = revokedAt[s]
    BY <2>2 DEF CommitRevocation, RevokeSession
  <2>3. ASSUME NEW p \in Request, PruneExpired(p) \/ PruneRevoked(p)
        PROVE  revokedAt'[s] = revokedAt[s]
    BY <2>3 DEF PruneExpired, PruneRevoked, DeleteSessions
  <2>4. ASSUME NEW p \in Request, Arrive(p) PROVE revokedAt'[s] = revokedAt[s]
    BY <2>4 DEF Arrive, StartLogin, StartReset, StartRefresh, StartLogout, StartPrune, columns
  <2>5. ASSUME NEW p \in Request, NEW t \in Sid,
               LockPresented(p) \/ Refuse(p) \/ SnapshotSessions(p) \/ VisitSession(p, t) \/ Rollback(p)
        PROVE  revokedAt'[s] = revokedAt[s]
    BY <2>5 DEF LockPresented, Refuse, SnapshotSessions, VisitSession, Rollback, columns
  <2>6. CASE Tick \/ UNCHANGED vars
    BY <2>6 DEF Tick, vars, columns
  <2>7. QED
    BY <2>1, <2>2, <2>3, <2>4, <2>5, <2>6
       DEF Next, Proceed, Stop, Crash, LockTimeout, DeadlockAbort, OutOfIds
<1>2. QED
  BY <1>1, ReplayInvariant, PTL DEF Spec, RevocationIsFinal

-----------------------------------------------------------------------------
(* Ids are issued once and for all.                                        *)
LEMMA IssuedGrows ==
  ASSUME TypeOK, [Next]_vars, NEW s \in Issued
  PROVE  s \in Issued'
<1> USE DEF TypeOK, Issued
<1>1. ASSUME NEW p \in Request, NEW n \in Sid, FinishLogin(p, n) \/ Rotate(p, n)
      PROVE  s \in Issued'
  BY <1>1, NoneAssumption DEF FinishLogin, Rotate, CreateSession
<1>2. CASE UNCHANGED history
  BY <1>2 DEF history
<1>3. QED
  BY <1>1, <1>2
     DEF Next, Arrive, Proceed, Stop, Crash, LockTimeout, DeadlockAbort, OutOfIds, StartLogin,
         StartReset, StartRefresh, StartLogout, StartPrune, LockPresented, Refuse, Rollback,
         SnapshotSessions, VisitSession, CommitRevocation, RevokeSession, PruneExpired,
         PruneRevoked, DeleteSessions, Tick, vars

(* A session that was issued and is dead stays dead.                       *)
LEMMA DeadStaysDead ==
  ASSUME ReplayInv, [Next]_vars, NEW s \in Issued, ~ Live(s)
  PROVE  ~ Live(s)'
<1> USE DEF ReplayInv, TypeOK, Live, Issued
<1>1. ASSUME NEW p \in Request, NEW n \in Sid, FinishLogin(p, n) \/ Rotate(p, n)
      PROVE  ~ Live(s)'
  BY <1>1, NoneAssumption DEF FinishLogin, Rotate, CreateSession, PastIsPast, LocksHold
<1>2. ASSUME NEW p \in Request, CommitRevocation(p) \/ RevokeSession(p)
      PROVE  ~ Live(s)'
  BY <1>2, NoneAssumption DEF CommitRevocation, RevokeSession
<1>3. ASSUME NEW p \in Request, PruneExpired(p) \/ PruneRevoked(p)
      PROVE  ~ Live(s)'
  BY <1>3 DEF PruneExpired, PruneRevoked, DeleteSessions
<1>4. CASE UNCHANGED columns
  BY <1>4 DEF columns
<1>5. QED
  BY <1>1, <1>2, <1>3, <1>4
     DEF Next, Arrive, Proceed, Stop, Crash, LockTimeout, DeadlockAbort, OutOfIds, StartLogin,
         StartReset, StartRefresh, StartLogout, StartPrune, LockPresented, Refuse,
         SnapshotSessions, VisitSession, Rollback, Tick, vars

(* A lock is given up only by a step that ends its holder's transaction.   *)
LEMMA LocksAreKept ==
  ASSUME ReplayInv, [Next]_vars, NEW p \in Request, phase'[p] # "idle",
         NEW s \in Sid, lock[s] = p
  PROVE  lock'[s] = p
<1> USE NoneAssumption DEF ReplayInv, TypeOK
<1>0. lock[s] # None /\ s \in rows
  BY DEF LocksHold
<1>1. ASSUME NEW q \in Request, NEW n \in Sid, FinishLogin(q, n) \/ Rotate(q, n)
      PROVE  lock'[s] = p
  BY <1>1 DEF FinishLogin, Rotate, Finish, Released
<1>2. ASSUME NEW q \in Request, CommitRevocation(q) \/ Refuse(q) \/ Rollback(q)
      PROVE  lock'[s] = p
  BY <1>2 DEF CommitRevocation, Refuse, Rollback, Finish, Released
<1>3. ASSUME NEW q \in Request, NEW t \in Sid, LockPresented(q) \/ VisitSession(q, t)
      PROVE  lock'[s] = p
  BY <1>0, <1>3 DEF LockPresented, VisitSession, Unlocked, Live
<1>4. CASE UNCHANGED lock
  BY <1>4
<1>5. QED
  BY <1>1, <1>2, <1>3, <1>4
     DEF Next, Arrive, Proceed, Stop, Crash, LockTimeout, DeadlockAbort, OutOfIds, StartLogin,
         StartReset, StartRefresh, StartLogout, StartPrune, SnapshotSessions, RevokeSession,
         PruneExpired, PruneRevoked, DeleteSessions, Tick, vars

(* Every row a revoke-all statement found is accounted for.                *)
THEOREM FoundInvariant == Spec => []FoundIsAccountedFor
<1>1. Init => FoundIsAccountedFor
  BY DEF Init, FoundIsAccountedFor
<1>2. ReplayInv /\ FoundIsAccountedFor /\ [Next]_vars => FoundIsAccountedFor'
  <2> SUFFICES ASSUME ReplayInv, FoundIsAccountedFor, [Next]_vars,
                      NEW p \in Request, phase'[p] = "revoking", NEW s \in found'[p]
               PROVE  s \in Issued' /\ (s \in todo'[p] \/ ~ Live(s)' \/ lock'[s] = p)
    BY DEF FoundIsAccountedFor
  <2> USE NoneAssumption DEF ReplayInv, TypeOK
  <2>1. CASE SnapshotSessions(p)
    BY <2>1 DEF SnapshotSessions, LiveOf, Live, Issued, PastIsPast, columns, history
  <2>2. CASE \E t \in Sid : VisitSession(p, t)
    <3>1. PICK t \in Sid : VisitSession(p, t)
      BY <2>2
    <3>2. s \in Issued /\ (s \in todo[p] \/ ~ Live(s) \/ lock[s] = p)
      BY <3>1 DEF VisitSession, FoundIsAccountedFor
    <3>3. s # t => (s \in todo[p] => s \in todo'[p])
      BY <3>1 DEF VisitSession
    <3>4. s = t => ~ Live(s) \/ lock'[s] = p
      BY <3>1, <3>2 DEF VisitSession, Issued
    <3>5. lock[s] = p => lock'[s] = p
      BY <3>2, LocksAreKept DEF Issued
    <3>6. s \in Issued' /\ (~ Live(s) => ~ Live(s)')
      BY <3>2, IssuedGrows, DeadStaysDead
    <3>7. QED
      BY <3>2, <3>3, <3>4, <3>5, <3>6
  <2>3. CASE phase[p] = "revoking" /\ found'[p] = found[p] /\ todo'[p] = todo[p]
    <3>1. s \in Issued /\ (s \in todo[p] \/ ~ Live(s) \/ lock[s] = p)
      BY <2>3 DEF FoundIsAccountedFor
    <3>2. lock[s] = p => lock'[s] = p
      BY <3>1, LocksAreKept DEF Issued
    <3>3. s \in Issued' /\ (~ Live(s) => ~ Live(s)')
      BY <3>1, IssuedGrows, DeadStaysDead
    <3>4. QED
      BY <2>3, <3>1, <3>2, <3>3
  <2>4. ASSUME NEW q \in Request, Arrive(q)
        PROVE  phase[p] = "revoking" /\ found'[p] = found[p] /\ todo'[p] = todo[p]
    BY <2>4 DEF Arrive, StartLogin, StartReset, StartRefresh, StartLogout, StartPrune, Start
  <2>5. ASSUME NEW q \in Request,
               \/ \E n \in Sid : FinishLogin(q, n) \/ Rotate(q, n)
               \/ Refuse(q) \/ CommitRevocation(q) \/ RevokeSession(q) \/ PruneRevoked(q) \/ Rollback(q)
        PROVE  phase[p] = "revoking" /\ found'[p] = found[p] /\ todo'[p] = todo[p]
    <3>1. Finish(q)
      BY <2>5 DEF FinishLogin, Rotate, Refuse, CommitRevocation, RevokeSession, PruneRevoked, Rollback
    <3>2. QED
      BY <3>1 DEF Finish
  <2>6. ASSUME NEW q \in Request, LockPresented(q) \/ PruneExpired(q)
        PROVE  phase[p] = "revoking" /\ found'[p] = found[p] /\ todo'[p] = todo[p]
    BY <2>6 DEF LockPresented, PruneExpired, Goto, Verdict, work
  <2>7. ASSUME NEW q \in Request, q # p,
               SnapshotSessions(q) \/ \E t \in Sid : VisitSession(q, t)
        PROVE  phase[p] = "revoking" /\ found'[p] = found[p] /\ todo'[p] = todo[p]
    BY <2>7 DEF SnapshotSessions, VisitSession
  <2>8. CASE Tick \/ UNCHANGED vars
    BY <2>3, <2>8 DEF Tick, vars, work
  <2>9. QED
    BY <2>1, <2>2, <2>3, <2>4, <2>5, <2>6, <2>7, <2>8
       DEF Next, Proceed, Stop, Crash, LockTimeout, DeadlockAbort, OutOfIds
<1>3. QED
  BY <1>1, <1>2, ReplayInvariant, PTL DEF Spec

(* A transaction that revokes all sessions of a user leaves none of the    *)
(* sessions it found alive, whatever held their rows in the meantime.      *)
THEOREM SnapshotRevocation == Spec => SnapshotIsRevoked
<1>1. ReplayInv /\ FoundIsAccountedFor /\ [Next]_vars =>
        [\A p \in Request : CommitRevocation(p) => \A s \in found[p] : ~ Live(s)']_vars
  <2> SUFFICES ASSUME ReplayInv, FoundIsAccountedFor, [Next]_vars,
                      NEW p \in Request, CommitRevocation(p), NEW s \in found[p]
               PROVE  ~ Live(s)'
    OBVIOUS
  <2>1. s \in Issued /\ (~ Live(s) \/ lock[s] = p)
    BY DEF CommitRevocation, FoundIsAccountedFor
  <2>2. lock[s] = p => ~ Live(s)'
    BY <2>1, NoneAssumption DEF CommitRevocation, Live, Issued, ReplayInv, TypeOK
  <2>3. QED
    BY <2>1, <2>2, DeadStaysDead
<1>2. QED
  BY <1>1, ReplayInvariant, FoundInvariant, PTL DEF Spec, SnapshotIsRevoked

-----------------------------------------------------------------------------
(* A step that only ends what was current ends lines.                      *)
LEMMA TakingLifeEnds ==
  ASSUME ReplayInv, UNCHANGED line, \A s \in Sid : Current(s)' => Current(s)
  PROVE  [Abstract!Next]_(Abstract!vars)
<1> DEFINE ended == {l \in Sid : LiveInLine'[l] = {}}
<1>1. \A l \in Sid : \A s, t \in LiveInLine[l] : s = t
  BY DEF ReplayInv, ReplayIsDetected, LiveInLine, Current, Usable, Live
<1>2. \A l \in Sid : LiveInLine'[l] \subseteq LiveInLine[l]
  BY DEF LiveInLine
<1>3. \A l \in Sid : LiveInLine'[l] = IF l \in ended THEN {} ELSE LiveInLine[l]
  <2> SUFFICES ASSUME NEW l \in Sid, LiveInLine'[l] # {} PROVE LiveInLine'[l] = LiveInLine[l]
    OBVIOUS
  <2>1. PICK s \in LiveInLine[l] : s \in LiveInLine'[l]
    BY <1>2
  <2>2. LiveInLine[l] = {s}
    BY <1>1, <2>1
  <2>3. QED
    BY <1>2, <2>1, <2>2
<1>4. LiveInLine' = [l \in Sid |-> IF l \in ended THEN {} ELSE LiveInLine[l]]
  <2>1. LiveInLine' = [l \in Sid |-> LiveInLine'[l]]
    BY DEF LiveInLine
  <2>2. QED
    BY <1>3, <2>1
<1>5. Abstract!End(ended)
  BY <1>4 DEF Abstract!End, LiveInLine, Issued
<1>6. ended \in SUBSET Sid
  OBVIOUS
<1>7. QED
  BY <1>5, <1>6 DEF Abstract!Next

(* A login opens a line under an id that names none.                       *)
LEMMA LoginOpens ==
  ASSUME ReplayInv, NEW p \in Request, NEW n \in Sid, FinishLogin(p, n)
  PROVE  Abstract!Open(n)
<1> USE NoneAssumption, TimeAssumption DEF ReplayInv, TypeOK
<1>1. n \notin rows /\ n \notin Issued /\ revokedAt[n] = None
  BY DEF FinishLogin, CreateSession, PastIsPast, Issued
<1>2. rows' = rows \cup {n} /\ line' = [line EXCEPT ![n] = n] /\ revokedAt' = revokedAt
  BY DEF FinishLogin, CreateSession
<1>3. \A s \in rows : line[s] # n
  BY <1>1 DEF PastIsPast, Issued
<1>4. \A s \in Sid : Current(s)' <=> s = n \/ Current(s)
  <2>1. Current(n)'
    BY <1>1 DEF FinishLogin, CreateSession, Current, Usable, Live
  <2>2. ASSUME NEW s \in Sid, s # n PROVE Current(s)' <=> Current(s)
    <3>1. (Live(s)' <=> Live(s)) /\ (Usable(s)' <=> Usable(s))
      BY <2>2 DEF FinishLogin, CreateSession, Usable, Live
    <3>2. \A q \in Request : (phase[q] = "rotating" /\ session[q] = s)' <=> phase[q] = "rotating" /\ session[q] = s
      BY DEF FinishLogin, Finish
    <3>3. QED
      BY <3>1, <3>2 DEF Current
  <2>3. QED
    BY <2>1, <2>2
<1>5. \A l \in Sid : LiveInLine'[l] = IF l = n THEN {n} ELSE LiveInLine[l]
  BY <1>1, <1>2, <1>3, <1>4 DEF LiveInLine, Current, Usable, Live
<1>6. LiveInLine' = [LiveInLine EXCEPT ![n] = {n}]
  <2>1. /\ LiveInLine' = [k \in Sid |-> LiveInLine'[k]]
        /\ LiveInLine = [k \in Sid |-> LiveInLine[k]]
    BY DEF LiveInLine
  <2>2. QED
    BY <1>5, <2>1
<1>7. Issued' = Issued \cup {n}
  BY <1>2 DEF Issued
<1>8. QED
  BY <1>1, <1>6, <1>7 DEF Abstract!Open, LiveInLine

(* A rotation exchanges the current token of its line for a fresh one.     *)
LEMMA RotationExchanges ==
  ASSUME ReplayInv, NEW p \in Request, NEW n \in Sid, Rotate(p, n)
  PROVE  Abstract!Exchange(line[session[p]], n)
<1> DEFINE s == session[p]
           l == line[s]
<1> USE NoneAssumption, TimeAssumption DEF ReplayInv, TypeOK
<1>1. s \in rows /\ revokedAt[s] = None /\ n \notin rows /\ n \notin Issued /\ l \in Sid
      /\ revokedAt[n] = None /\ start[p] # None
  BY DEF Rotate, CreateSession, LocksHold, PastIsPast, Issued, Live
<1>2. /\ rows' = rows \cup {n} /\ line' = [line EXCEPT ![n] = l]
      /\ revokedAt' = [revokedAt EXCEPT ![s] = start[p]]
  BY DEF Rotate, CreateSession
<1>3. \A t \in Sid : Current(t) /\ line[t] = l => t = s
  BY <1>1 DEF ReplayIsDetected, Current, Usable, Live
<1>4. Current(s) /\ \A t \in Sid : Current(t)' <=> t = n \/ (Current(t) /\ t # s)
  <2>1. Current(s)
    <3>1. phase[p] = "rotating" /\ Live(s)
      BY <1>1 DEF Rotate, Live
    <3>2. QED
      BY <3>1 DEF Current
  <2>2. Current(n)' /\ \A t \in Sid : t = s => ~ Current(t)'
    BY <1>1, <1>2 DEF Rotate, CreateSession, Current, Usable, Live
  <2>3. ASSUME NEW t \in Sid, t # n, t # s PROVE Current(t)' <=> Current(t)
    <3>1. (Live(t)' <=> Live(t)) /\ (Usable(t)' <=> Usable(t))
      BY <1>1, <2>3 DEF Rotate, CreateSession, Usable, Live
    <3>2. \A q \in Request : (phase[q] = "rotating" /\ session[q] = t)' <=> phase[q] = "rotating" /\ session[q] = t
      BY <2>3 DEF Rotate, Finish
    <3>3. QED
      BY <3>1, <3>2 DEF Current
  <2>4. n # s
    BY <1>1
  <2>5. QED
    BY <2>1, <2>2, <2>3, <2>4
<1>5. \A k \in Sid : LiveInLine'[k] = IF k = l THEN {n} ELSE LiveInLine[k]
  <2>1. \A t \in Sid : line'[t] = IF t = n THEN l ELSE line[t]
    BY <1>2
  <2> HIDE DEF ReplayInv, TypeOK
  <2>2. ASSUME NEW k \in Sid, NEW t \in Sid
        PROVE  t \in LiveInLine'[k] <=> (IF k = l THEN t = n ELSE t \in LiveInLine[k])
    <3>1. t \in LiveInLine'[k] <=> Current(t)' /\ line'[t] = k
      BY DEF LiveInLine
    <3>2. t \in LiveInLine[k] <=> Current(t) /\ line[t] = k
      BY DEF LiveInLine
    <3>3. Current(n) => n \in rows
      BY DEF Current, Usable, Live
    <3>4. QED
      BY <1>1, <1>3, <1>4, <2>1, <3>1, <3>2, <3>3
  <2>3. \A k \in Sid : LiveInLine'[k] \subseteq Sid /\ LiveInLine[k] \subseteq Sid
    BY DEF LiveInLine
  <2> HIDE DEF s, l
  <2>4. ASSUME NEW k \in Sid, k = l PROVE LiveInLine'[k] = {n}
    BY <2>2, <2>3, <2>4
  <2>5. ASSUME NEW k \in Sid, k # l PROVE LiveInLine'[k] = LiveInLine[k]
    BY <2>2, <2>3, <2>5
  <2>6. QED
    BY <2>4, <2>5
<1>6. LiveInLine' = [LiveInLine EXCEPT ![l] = {n}]
  <2>1. /\ LiveInLine' = [k \in Sid |-> LiveInLine'[k]]
        /\ LiveInLine = [k \in Sid |-> LiveInLine[k]]
    BY DEF LiveInLine
  <2>2. QED
    BY <1>1, <1>5, <2>1
<1>7. Issued' = Issued \cup {n} /\ s \in LiveInLine[l]
  BY <1>1, <1>2, <1>4 DEF Issued, LiveInLine
<1>8. QED
  BY <1>1, <1>6, <1>7 DEF Abstract!Exchange, LiveInLine

(* Nothing else makes a session current: a rotation starts with one that   *)
(* is usable, and time, revocation and prune only end what is current.     *)
LEMMA NothingRevives ==
  ASSUME ReplayInv, [Next]_vars,
         \A p \in Request, n \in Sid : ~ FinishLogin(p, n) /\ ~ Rotate(p, n)
  PROVE  UNCHANGED line /\ \A s \in Sid : Current(s)' => Current(s)
<1> DEFINE Held(q, s) == phase[q] = "rotating" /\ session[q] = s
<1> USE NoneAssumption, TimeAssumption DEF ReplayInv, TypeOK
<1>1. UNCHANGED line /\ \A s \in Sid : Live(s)' => Live(s) /\ expiresAt'[s] = expiresAt[s]
  <2>1. ASSUME NEW p \in Request, CommitRevocation(p) \/ RevokeSession(p)
        PROVE  UNCHANGED line /\ \A s \in Sid : Live(s)' => Live(s) /\ expiresAt'[s] = expiresAt[s]
    BY <2>1 DEF CommitRevocation, RevokeSession, history, Live
  <2>2. ASSUME NEW p \in Request, PruneExpired(p) \/ PruneRevoked(p)
        PROVE  UNCHANGED line /\ \A s \in Sid : Live(s)' => Live(s) /\ expiresAt'[s] = expiresAt[s]
    BY <2>2 DEF PruneExpired, PruneRevoked, DeleteSessions, history, Live
  <2>3. CASE UNCHANGED <<columns, history>>
    BY <2>3 DEF columns, history, Live
  <2>4. QED
    BY <2>1, <2>2, <2>3
       DEF Next, Arrive, Proceed, Stop, Crash, LockTimeout, DeadlockAbort, OutOfIds, StartLogin,
           StartReset, StartRefresh, StartLogout, StartPrune, LockPresented, Refuse,
           SnapshotSessions, VisitSession, Rollback, Tick, vars
<1>2. clock' \in Nat /\ clock <= clock'
  BY DEF Next, Arrive, Proceed, Stop, Crash, LockTimeout, DeadlockAbort, OutOfIds, StartLogin,
         StartReset, StartRefresh, StartLogout, StartPrune, LockPresented, Refuse, SnapshotSessions,
         VisitSession, CommitRevocation, RevokeSession, PruneExpired, PruneRevoked, DeleteSessions,
         Rollback, Tick, vars
<1>3. ASSUME NEW q \in Request, NEW s \in Sid, Held(q, s)' PROVE Held(q, s) \/ Usable(s)
  <2>1. ASSUME NEW p \in Request, LockPresented(p) PROVE Held(q, s) \/ Usable(s)
    BY <1>3, <2>1 DEF LockPresented, Goto, Verdict, Usable, work
  <2>2. ASSUME NEW p \in Request, \/ Arrive(p) \/ Refuse(p) \/ SnapshotSessions(p) \/ CommitRevocation(p)
                                  \/ RevokeSession(p) \/ PruneExpired(p) \/ PruneRevoked(p)
                                  \/ Stop(p) \/ Crash(p) \/ \E t \in Sid : VisitSession(p, t)
        PROVE  Held(q, s)
    BY <1>3, <2>2 DEF Arrive, StartLogin, StartReset, StartRefresh, StartLogout, StartPrune, Start, Refuse,
       SnapshotSessions, CommitRevocation, RevokeSession, PruneExpired, PruneRevoked, Goto, Finish, Stop, Crash,
       LockTimeout, DeadlockAbort, OutOfIds, Rollback, VisitSession, work
  <2>3. CASE Tick \/ UNCHANGED vars
    BY <1>3, <2>3 DEF Tick, vars, work
  <2>4. QED
    BY <2>1, <2>2, <2>3 DEF Next, Proceed
<1>4. ASSUME NEW s \in Sid, Current(s)' PROVE Current(s)
  <2>1. Live(s) /\ (Usable(s)' => Usable(s))
    BY <1>1, <1>2, <1>4 DEF Current, Usable
  <2>2. CASE Usable(s)'
    BY <2>1, <2>2 DEF Current
  <2>3. ASSUME NEW q \in Request, Held(q, s)' PROVE Current(s)
    BY <1>3, <2>1, <2>3 DEF Current
  <2>4. QED
    BY <1>4, <2>2, <2>3 DEF Current
<1>5. QED
  BY <1>1, <1>4

(* The session table implements SessionLine: every step of every request   *)
(* opens a line, exchanges its token, ends lines, or is invisible, and so  *)
(* is the passing of time (sessions.ts, routes/auth.ts).                   *)
THEOREM SessionLineRefinement == Spec => ImplementsSessionLine
<1>1. Init => Abstract!Init
  BY DEF Init, Abstract!Init, LiveInLine, Current, Usable, Live, Issued
<1>2. ReplayInv /\ [Next]_vars => [Abstract!Next]_(Abstract!vars)
  <2> SUFFICES ASSUME ReplayInv, [Next]_vars PROVE [Abstract!Next]_(Abstract!vars)
    OBVIOUS
  <2>1. ASSUME NEW p \in Request, NEW n \in Sid, FinishLogin(p, n)
        PROVE  [Abstract!Next]_(Abstract!vars)
    BY <2>1, LoginOpens DEF Abstract!Next
  <2>2. ASSUME NEW p \in Request, NEW n \in Sid, Rotate(p, n)
        PROVE  [Abstract!Next]_(Abstract!vars)
    <3>1. line[session[p]] \in Sid
      BY <2>2 DEF Rotate, LocksHold, PastIsPast, Issued, ReplayInv, TypeOK, Live
    <3>2. QED
      BY <2>2, <3>1, RotationExchanges DEF Abstract!Next
  <2>3. CASE \A p \in Request, n \in Sid : ~ FinishLogin(p, n) /\ ~ Rotate(p, n)
    BY <2>3, NothingRevives, TakingLifeEnds
  <2>4. QED
    BY <2>1, <2>2, <2>3
<1>3. QED
  BY <1>1, <1>2, ReplayInvariant, PTL DEF Spec, ImplementsSessionLine, Abstract!Spec

=============================================================================
