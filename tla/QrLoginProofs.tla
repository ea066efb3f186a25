---------------------------- MODULE QrLoginProofs ----------------------------
(***************************************************************************)
(* Proofs about QrLogin, for any number of accounts and requests and every *)
(* window, grace and retention.                                            *)
(***************************************************************************)
EXTENDS QrLogin, TLAPS

\* No request has begun before the hand-off exists, so none can hold a
\* deadline other than the row's.
NothingBeforeInitiate == status = "none" => \A r \in Requests : pc[r] = "new"

\* An approving request carries its caller.
ApproverNamed == \A r \in Requests : pc[r] \in {"find", "approver", "write"} => who[r] \in Users

\* An approval that no poll has used up yet still stands in the row.
ApprovalsAccounted ==
    IF status = "approved" THEN consumed + 1 <= approvals ELSE consumed <= approvals

\* Whoever a poll is about to mint for approved this hand-off.
CollectsForApprovers ==
    /\ status = "approved" => user \in approvers
    /\ \A r \in Requests : pc[r] \in {"user", "consume", "mint"} => who[r] \in approvers
    /\ minted \subseteq approvers

\* A request past its first step remembers the accounts admitted since.
VouchesNow == \A r \in Requests : pc[r] # "new" => Admitted \subseteq vouched[r]

IInv ==
    /\ TypeOK
    /\ NothingBeforeInitiate
    /\ ApproverNamed
    /\ ApprovalsAccounted
    /\ CollectsForApprovers
    /\ CollectedInTime
    /\ VouchesNow
    /\ CollectorStillAllowed

\* Every step keeps the state well typed.
LEMMA TypeStep ==
    ASSUME TypeOK, ApproverNamed, CollectsForApprovers, [Next]_vars
    PROVE  TypeOK'
<1> USE QrLoginAssumption DEF TypeOK, Statuses, Standings, PCs, ApproverNamed, CollectsForApprovers
<1>1. CASE InitiateQrLogin
  BY <1>1 DEF InitiateQrLogin, rowvars, locals, ghosts
<1>2. CASE Sweep
  BY <1>2 DEF Sweep, rowvars, locals, ghosts
<1>3. CASE ChangeStanding
  BY <1>3 DEF ChangeStanding, Admitted, rowvars, locals, ghosts
<1>4. CASE Tick
  BY <1>4 DEF Tick, rowvars, locals, ghosts
<1>5. ASSUME NEW r \in Requests, GetQrLoginSession(r)
      PROVE  TypeOK'
  BY <1>5 DEF GetQrLoginSession, Goto, Begin, Admitted, rowvars, locals, ghosts
<1>6. ASSUME NEW r \in Requests, ApproveQrLogin(r)
      PROVE  TypeOK'
  BY <1>6 DEF ApproveQrLogin, Goto, Begin, Admitted, rowvars, locals, ghosts
<1>7. ASSUME NEW r \in Requests, PollQrLogin(r)
      PROVE  TypeOK'
  BY <1>7 DEF PollQrLogin, Goto, Begin, Admitted, rowvars, locals, ghosts
<1>8. ASSUME NEW r \in Requests, GetRead(r)
      PROVE  TypeOK'
  BY <1>8 DEF GetRead, Goto, rowvars, locals, ghosts
<1>9. ASSUME NEW r \in Requests, ApproveRead(r)
      PROVE  TypeOK'
  BY <1>9 DEF ApproveRead, Goto, rowvars, locals, ghosts
<1>10. ASSUME NEW r \in Requests, checkQrApprover(r)
      PROVE  TypeOK'
  BY <1>10 DEF checkQrApprover, Goto, rowvars, locals, ghosts
<1>11. ASSUME NEW r \in Requests, ApproveWrite(r)
      PROVE  TypeOK'
  BY <1>11 DEF ApproveWrite, Goto, UpdateStatus, rowvars, locals, ghosts
<1>12. ASSUME NEW r \in Requests, ExpireWrite(r)
      PROVE  TypeOK'
  BY <1>12 DEF ExpireWrite, Goto, UpdateStatus, rowvars, locals, ghosts
<1>13. ASSUME NEW r \in Requests, PollRead(r)
      PROVE  TypeOK'
  BY <1>13 DEF PollRead, Goto, qrCollectionClosed, rowvars, locals, ghosts
<1>14. ASSUME NEW r \in Requests, PollWrongSecret(r)
      PROVE  TypeOK'
  BY <1>14 DEF PollWrongSecret, Goto, rowvars, locals, ghosts
<1>15. ASSUME NEW r \in Requests, PollGates(r)
      PROVE  TypeOK'
  BY <1>15 DEF PollGates, Goto, rowvars, locals, ghosts
<1>16. ASSUME NEW r \in Requests, ConsumeQrLoginSession(r)
      PROVE  TypeOK'
  BY <1>16 DEF ConsumeQrLoginSession, Goto, ConsumeMatches, rowvars, locals, ghosts
<1>17. ASSUME NEW r \in Requests, PollMint(r)
      PROVE  TypeOK'
  BY <1>17 DEF PollMint, Goto, rowvars, locals, ghosts
<1>18. ASSUME NEW r \in Requests, Abort(r)
      PROVE  TypeOK'
  BY <1>18 DEF Abort, Goto, rowvars, locals, ghosts
<1>19. CASE UNCHANGED vars
  BY <1>19 DEF vars, rowvars, locals, ghosts
<1>20. QED
  BY <1>1, <1>2, <1>3, <1>4, <1>5, <1>6, <1>7, <1>8, <1>9, <1>10, <1>11, <1>12, <1>13, <1>14, <1>15, <1>16, <1>17, <1>18, <1>19
     DEF Next, Step

\* ApproveQrLogin starts with an authenticated caller.
LEMMA NamedStep ==
    ASSUME TypeOK, ApproverNamed, [Next]_vars
    PROVE  ApproverNamed'
<1> USE QrLoginAssumption DEF TypeOK, Statuses, Standings, PCs, ApproverNamed
<1>1. CASE InitiateQrLogin
  BY <1>1 DEF InitiateQrLogin, rowvars, locals, ghosts
<1>2. CASE Sweep
  BY <1>2 DEF Sweep, rowvars, locals, ghosts
<1>3. CASE ChangeStanding
  BY <1>3 DEF ChangeStanding, Admitted, rowvars, locals, ghosts
<1>4. CASE Tick
  BY <1>4 DEF Tick, rowvars, locals, ghosts
<1>5. ASSUME NEW r \in Requests, GetQrLoginSession(r)
      PROVE  ApproverNamed'
  BY <1>5 DEF GetQrLoginSession, Goto, Begin, Admitted, rowvars, locals, ghosts
<1>6. ASSUME NEW r \in Requests, ApproveQrLogin(r)
      PROVE  ApproverNamed'
  BY <1>6 DEF ApproveQrLogin, Goto, Begin, Admitted, rowvars, locals, ghosts
<1>7. ASSUME NEW r \in Requests, PollQrLogin(r)
      PROVE  ApproverNamed'
  BY <1>7 DEF PollQrLogin, Goto, Begin, Admitted, rowvars, locals, ghosts
<1>8. ASSUME NEW r \in Requests, GetRead(r)
      PROVE  ApproverNamed'
  BY <1>8 DEF GetRead, Goto, rowvars, locals, ghosts
<1>9. ASSUME NEW r \in Requests, ApproveRead(r)
      PROVE  ApproverNamed'
  BY <1>9 DEF ApproveRead, Goto, rowvars, locals, ghosts
<1>10. ASSUME NEW r \in Requests, checkQrApprover(r)
      PROVE  ApproverNamed'
  BY <1>10 DEF checkQrApprover, Goto, rowvars, locals, ghosts
<1>11. ASSUME NEW r \in Requests, ApproveWrite(r)
      PROVE  ApproverNamed'
  BY <1>11 DEF ApproveWrite, Goto, UpdateStatus, rowvars, locals, ghosts
<1>12. ASSUME NEW r \in Requests, ExpireWrite(r)
      PROVE  ApproverNamed'
  BY <1>12 DEF ExpireWrite, Goto, UpdateStatus, rowvars, locals, ghosts
<1>13. ASSUME NEW r \in Requests, PollRead(r)
      PROVE  ApproverNamed'
  BY <1>13 DEF PollRead, Goto, qrCollectionClosed, rowvars, locals, ghosts
<1>14. ASSUME NEW r \in Requests, PollWrongSecret(r)
      PROVE  ApproverNamed'
  BY <1>14 DEF PollWrongSecret, Goto, rowvars, locals, ghosts
<1>15. ASSUME NEW r \in Requests, PollGates(r)
      PROVE  ApproverNamed'
  BY <1>15 DEF PollGates, Goto, rowvars, locals, ghosts
<1>16. ASSUME NEW r \in Requests, ConsumeQrLoginSession(r)
      PROVE  ApproverNamed'
  BY <1>16 DEF ConsumeQrLoginSession, Goto, ConsumeMatches, rowvars, locals, ghosts
<1>17. ASSUME NEW r \in Requests, PollMint(r)
      PROVE  ApproverNamed'
  BY <1>17 DEF PollMint, Goto, rowvars, locals, ghosts
<1>18. ASSUME NEW r \in Requests, Abort(r)
      PROVE  ApproverNamed'
  BY <1>18 DEF Abort, Goto, rowvars, locals, ghosts
<1>19. CASE UNCHANGED vars
  BY <1>19 DEF vars, rowvars, locals, ghosts
<1>20. QED
  BY <1>1, <1>2, <1>3, <1>4, <1>5, <1>6, <1>7, <1>8, <1>9, <1>10, <1>11, <1>12, <1>13, <1>14, <1>15, <1>16, <1>17, <1>18, <1>19
     DEF Next, Step

\* Requests start only on a row that exists.
LEMMA InitiateStep ==
    ASSUME TypeOK, NothingBeforeInitiate, [Next]_vars
    PROVE  NothingBeforeInitiate'
<1> USE QrLoginAssumption DEF TypeOK, Statuses, Standings, PCs, NothingBeforeInitiate
<1>1. CASE InitiateQrLogin
  BY <1>1 DEF InitiateQrLogin, rowvars, locals, ghosts
<1>2. CASE Sweep
  BY <1>2 DEF Sweep, rowvars, locals, ghosts
<1>3. CASE ChangeStanding
  BY <1>3 DEF ChangeStanding, Admitted, rowvars, locals, ghosts
<1>4. CASE Tick
  BY <1>4 DEF Tick, rowvars, locals, ghosts
<1>5. ASSUME NEW r \in Requests, GetQrLoginSession(r)
      PROVE  NothingBeforeInitiate'
  BY <1>5 DEF GetQrLoginSession, Goto, Begin, Admitted, rowvars, locals, ghosts
<1>6. ASSUME NEW r \in Requests, ApproveQrLogin(r)
      PROVE  NothingBeforeInitiate'
  BY <1>6 DEF ApproveQrLogin, Goto, Begin, Admitted, rowvars, locals, ghosts
<1>7. ASSUME NEW r \in Requests, PollQrLogin(r)
      PROVE  NothingBeforeInitiate'
  BY <1>7 DEF PollQrLogin, Goto, Begin, Admitted, rowvars, locals, ghosts
<1>8. ASSUME NEW r \in Requests, GetRead(r)
      PROVE  NothingBeforeInitiate'
  BY <1>8 DEF GetRead, Goto, rowvars, locals, ghosts
<1>9. ASSUME NEW r \in Requests, ApproveRead(r)
      PROVE  NothingBeforeInitiate'
  BY <1>9 DEF ApproveRead, Goto, rowvars, locals, ghosts
<1>10. ASSUME NEW r \in Requests, checkQrApprover(r)
      PROVE  NothingBeforeInitiate'
  BY <1>10 DEF checkQrApprover, Goto, rowvars, locals, ghosts
<1>11. ASSUME NEW r \in Requests, ApproveWrite(r)
      PROVE  NothingBeforeInitiate'
  BY <1>11 DEF ApproveWrite, Goto, UpdateStatus, rowvars, locals, ghosts
<1>12. ASSUME NEW r \in Requests, ExpireWrite(r)
      PROVE  NothingBeforeInitiate'
  BY <1>12 DEF ExpireWrite, Goto, UpdateStatus, rowvars, locals, ghosts
<1>13. ASSUME NEW r \in Requests, PollRead(r)
      PROVE  NothingBeforeInitiate'
  BY <1>13 DEF PollRead, Goto, qrCollectionClosed, rowvars, locals, ghosts
<1>14. ASSUME NEW r \in Requests, PollWrongSecret(r)
      PROVE  NothingBeforeInitiate'
  BY <1>14 DEF PollWrongSecret, Goto, rowvars, locals, ghosts
<1>15. ASSUME NEW r \in Requests, PollGates(r)
      PROVE  NothingBeforeInitiate'
  BY <1>15 DEF PollGates, Goto, rowvars, locals, ghosts
<1>16. ASSUME NEW r \in Requests, ConsumeQrLoginSession(r)
      PROVE  NothingBeforeInitiate'
  BY <1>16 DEF ConsumeQrLoginSession, Goto, ConsumeMatches, rowvars, locals, ghosts
<1>17. ASSUME NEW r \in Requests, PollMint(r)
      PROVE  NothingBeforeInitiate'
  BY <1>17 DEF PollMint, Goto, rowvars, locals, ghosts
<1>18. ASSUME NEW r \in Requests, Abort(r)
      PROVE  NothingBeforeInitiate'
  BY <1>18 DEF Abort, Goto, rowvars, locals, ghosts
<1>19. CASE UNCHANGED vars
  BY <1>19 DEF vars, rowvars, locals, ghosts
<1>20. QED
  BY <1>1, <1>2, <1>3, <1>4, <1>5, <1>6, <1>7, <1>8, <1>9, <1>10, <1>11, <1>12, <1>13, <1>14, <1>15, <1>16, <1>17, <1>18, <1>19
     DEF Next, Step

\* A poll that wins the compare-and-set takes "approved" out of the row, and
\* only an approval puts it back.
LEMMA ApprovalStep ==
    ASSUME TypeOK, ApprovalsAccounted, [Next]_vars
    PROVE  ApprovalsAccounted'
<1> USE QrLoginAssumption DEF TypeOK, Statuses, Standings, PCs, ApprovalsAccounted
<1>1. CASE InitiateQrLogin
  BY <1>1 DEF InitiateQrLogin, rowvars, locals, ghosts
<1>2. CASE Sweep
  BY <1>2 DEF Sweep, rowvars, locals, ghosts
<1>3. CASE ChangeStanding
  BY <1>3 DEF ChangeStanding, Admitted, rowvars, locals, ghosts
<1>4. CASE Tick
  BY <1>4 DEF Tick, rowvars, locals, ghosts
<1>5. ASSUME NEW r \in Requests, GetQrLoginSession(r)
      PROVE  ApprovalsAccounted'
  BY <1>5 DEF GetQrLoginSession, Goto, Begin, Admitted, rowvars, locals, ghosts
<1>6. ASSUME NEW r \in Requests, ApproveQrLogin(r)
      PROVE  ApprovalsAccounted'
  BY <1>6 DEF ApproveQrLogin, Goto, Begin, Admitted, rowvars, locals, ghosts
<1>7. ASSUME NEW r \in Requests, PollQrLogin(r)
      PROVE  ApprovalsAccounted'
  BY <1>7 DEF PollQrLogin, Goto, Begin, Admitted, rowvars, locals, ghosts
<1>8. ASSUME NEW r \in Requests, GetRead(r)
      PROVE  ApprovalsAccounted'
  BY <1>8 DEF GetRead, Goto, rowvars, locals, ghosts
<1>9. ASSUME NEW r \in Requests, ApproveRead(r)
      PROVE  ApprovalsAccounted'
  BY <1>9 DEF ApproveRead, Goto, rowvars, locals, ghosts
<1>10. ASSUME NEW r \in Requests, checkQrApprover(r)
      PROVE  ApprovalsAccounted'
  BY <1>10 DEF checkQrApprover, Goto, rowvars, locals, ghosts
<1>11. ASSUME NEW r \in Requests, ApproveWrite(r)
      PROVE  ApprovalsAccounted'
  BY <1>11 DEF ApproveWrite, Goto, UpdateStatus, rowvars, locals, ghosts
<1>12. ASSUME NEW r \in Requests, ExpireWrite(r)
      PROVE  ApprovalsAccounted'
  BY <1>12 DEF ExpireWrite, Goto, UpdateStatus, rowvars, locals, ghosts
<1>13. ASSUME NEW r \in Requests, PollRead(r)
      PROVE  ApprovalsAccounted'
  BY <1>13 DEF PollRead, Goto, qrCollectionClosed, rowvars, locals, ghosts
<1>14. ASSUME NEW r \in Requests, PollWrongSecret(r)
      PROVE  ApprovalsAccounted'
  BY <1>14 DEF PollWrongSecret, Goto, rowvars, locals, ghosts
<1>15. ASSUME NEW r \in Requests, PollGates(r)
      PROVE  ApprovalsAccounted'
  BY <1>15 DEF PollGates, Goto, rowvars, locals, ghosts
<1>16. ASSUME NEW r \in Requests, ConsumeQrLoginSession(r)
      PROVE  ApprovalsAccounted'
  BY <1>16 DEF ConsumeQrLoginSession, Goto, ConsumeMatches, rowvars, locals, ghosts
<1>17. ASSUME NEW r \in Requests, PollMint(r)
      PROVE  ApprovalsAccounted'
  BY <1>17 DEF PollMint, Goto, rowvars, locals, ghosts
<1>18. ASSUME NEW r \in Requests, Abort(r)
      PROVE  ApprovalsAccounted'
  BY <1>18 DEF Abort, Goto, rowvars, locals, ghosts
<1>19. CASE UNCHANGED vars
  BY <1>19 DEF vars, rowvars, locals, ghosts
<1>20. QED
  BY <1>1, <1>2, <1>3, <1>4, <1>5, <1>6, <1>7, <1>8, <1>9, <1>10, <1>11, <1>12, <1>13, <1>14, <1>15, <1>16, <1>17, <1>18, <1>19
     DEF Next, Step

\* A poll carries the user_id it read, which some approval wrote.
LEMMA ApproverStep ==
    ASSUME TypeOK, CollectsForApprovers, [Next]_vars
    PROVE  CollectsForApprovers'
<1> USE QrLoginAssumption DEF TypeOK, Statuses, Standings, PCs, CollectsForApprovers
<1>1. CASE InitiateQrLogin
  BY <1>1 DEF InitiateQrLogin, rowvars, locals, ghosts
<1>2. CASE Sweep
  BY <1>2 DEF Sweep, rowvars, locals, ghosts
<1>3. CASE ChangeStanding
  BY <1>3 DEF ChangeStanding, Admitted, rowvars, locals, ghosts
<1>4. CASE Tick
  BY <1>4 DEF Tick, rowvars, locals, ghosts
<1>5. ASSUME NEW r \in Requests, GetQrLoginSession(r)
      PROVE  CollectsForApprovers'
  BY <1>5 DEF GetQrLoginSession, Goto, Begin, Admitted, rowvars, locals, ghosts
<1>6. ASSUME NEW r \in Requests, ApproveQrLogin(r)
      PROVE  CollectsForApprovers'
  BY <1>6 DEF ApproveQrLogin, Goto, Begin, Admitted, rowvars, locals, ghosts
<1>7. ASSUME NEW r \in Requests, PollQrLogin(r)
      PROVE  CollectsForApprovers'
  BY <1>7 DEF PollQrLogin, Goto, Begin, Admitted, rowvars, locals, ghosts
<1>8. ASSUME NEW r \in Requests, GetRead(r)
      PROVE  CollectsForApprovers'
  BY <1>8 DEF GetRead, Goto, rowvars, locals, ghosts
<1>9. ASSUME NEW r \in Requests, ApproveRead(r)
      PROVE  CollectsForApprovers'
  BY <1>9 DEF ApproveRead, Goto, rowvars, locals, ghosts
<1>10. ASSUME NEW r \in Requests, checkQrApprover(r)
      PROVE  CollectsForApprovers'
  BY <1>10 DEF checkQrApprover, Goto, rowvars, locals, ghosts
<1>11. ASSUME NEW r \in Requests, ApproveWrite(r)
      PROVE  CollectsForApprovers'
  BY <1>11 DEF ApproveWrite, Goto, UpdateStatus, rowvars, locals, ghosts
<1>12. ASSUME NEW r \in Requests, ExpireWrite(r)
      PROVE  CollectsForApprovers'
  BY <1>12 DEF ExpireWrite, Goto, UpdateStatus, rowvars, locals, ghosts
<1>13. ASSUME NEW r \in Requests, PollRead(r)
      PROVE  CollectsForApprovers'
  BY <1>13 DEF PollRead, Goto, qrCollectionClosed, rowvars, locals, ghosts
<1>14. ASSUME NEW r \in Requests, PollWrongSecret(r)
      PROVE  CollectsForApprovers'
  BY <1>14 DEF PollWrongSecret, Goto, rowvars, locals, ghosts
<1>15. ASSUME NEW r \in Requests, PollGates(r)
      PROVE  CollectsForApprovers'
  BY <1>15 DEF PollGates, Goto, rowvars, locals, ghosts
<1>16. ASSUME NEW r \in Requests, ConsumeQrLoginSession(r)
      PROVE  CollectsForApprovers'
  BY <1>16 DEF ConsumeQrLoginSession, Goto, ConsumeMatches, rowvars, locals, ghosts
<1>17. ASSUME NEW r \in Requests, PollMint(r)
      PROVE  CollectsForApprovers'
  BY <1>17 DEF PollMint, Goto, rowvars, locals, ghosts
<1>18. ASSUME NEW r \in Requests, Abort(r)
      PROVE  CollectsForApprovers'
  BY <1>18 DEF Abort, Goto, rowvars, locals, ghosts
<1>19. CASE UNCHANGED vars
  BY <1>19 DEF vars, rowvars, locals, ghosts
<1>20. QED
  BY <1>1, <1>2, <1>3, <1>4, <1>5, <1>6, <1>7, <1>8, <1>9, <1>10, <1>11, <1>12, <1>13, <1>14, <1>15, <1>16, <1>17, <1>18, <1>19
     DEF Next, Step

\* The deadline of a row never moves once requests hold it.
LEMMA CollectStep ==
    ASSUME TypeOK, NothingBeforeInitiate, CollectedInTime, [Next]_vars
    PROVE  CollectedInTime'
<1> USE QrLoginAssumption DEF TypeOK, Statuses, Standings, PCs, NothingBeforeInitiate, CollectedInTime
<1>1. CASE InitiateQrLogin
  BY <1>1 DEF InitiateQrLogin, rowvars, locals, ghosts
<1>2. CASE Sweep
  BY <1>2 DEF Sweep, rowvars, locals, ghosts
<1>3. CASE ChangeStanding
  BY <1>3 DEF ChangeStanding, Admitted, rowvars, locals, ghosts
<1>4. CASE Tick
  BY <1>4 DEF Tick, rowvars, locals, ghosts
<1>5. ASSUME NEW r \in Requests, GetQrLoginSession(r)
      PROVE  CollectedInTime'
  BY <1>5 DEF GetQrLoginSession, Goto, Begin, Admitted, rowvars, locals, ghosts
<1>6. ASSUME NEW r \in Requests, ApproveQrLogin(r)
      PROVE  CollectedInTime'
  BY <1>6 DEF ApproveQrLogin, Goto, Begin, Admitted, rowvars, locals, ghosts
<1>7. ASSUME NEW r \in Requests, PollQrLogin(r)
      PROVE  CollectedInTime'
  BY <1>7 DEF PollQrLogin, Goto, Begin, Admitted, rowvars, locals, ghosts
<1>8. ASSUME NEW r \in Requests, GetRead(r)
      PROVE  CollectedInTime'
  BY <1>8 DEF GetRead, Goto, rowvars, locals, ghosts
<1>9. ASSUME NEW r \in Requests, ApproveRead(r)
      PROVE  CollectedInTime'
  BY <1>9 DEF ApproveRead, Goto, rowvars, locals, ghosts
<1>10. ASSUME NEW r \in Requests, checkQrApprover(r)
      PROVE  CollectedInTime'
  BY <1>10 DEF checkQrApprover, Goto, rowvars, locals, ghosts
<1>11. ASSUME NEW r \in Requests, ApproveWrite(r)
      PROVE  CollectedInTime'
  BY <1>11 DEF ApproveWrite, Goto, UpdateStatus, rowvars, locals, ghosts
<1>12. ASSUME NEW r \in Requests, ExpireWrite(r)
      PROVE  CollectedInTime'
  BY <1>12 DEF ExpireWrite, Goto, UpdateStatus, rowvars, locals, ghosts
<1>13. ASSUME NEW r \in Requests, PollRead(r)
      PROVE  CollectedInTime'
  BY <1>13 DEF PollRead, Goto, qrCollectionClosed, rowvars, locals, ghosts
<1>14. ASSUME NEW r \in Requests, PollWrongSecret(r)
      PROVE  CollectedInTime'
  BY <1>14 DEF PollWrongSecret, Goto, rowvars, locals, ghosts
<1>15. ASSUME NEW r \in Requests, PollGates(r)
      PROVE  CollectedInTime'
  BY <1>15 DEF PollGates, Goto, rowvars, locals, ghosts
<1>16. ASSUME NEW r \in Requests, ConsumeQrLoginSession(r)
      PROVE  CollectedInTime'
  BY <1>16 DEF ConsumeQrLoginSession, Goto, ConsumeMatches, rowvars, locals, ghosts
<1>17. ASSUME NEW r \in Requests, PollMint(r)
      PROVE  CollectedInTime'
  BY <1>17 DEF PollMint, Goto, rowvars, locals, ghosts
<1>18. ASSUME NEW r \in Requests, Abort(r)
      PROVE  CollectedInTime'
  BY <1>18 DEF Abort, Goto, rowvars, locals, ghosts
<1>19. CASE UNCHANGED vars
  BY <1>19 DEF vars, rowvars, locals, ghosts
<1>20. QED
  BY <1>1, <1>2, <1>3, <1>4, <1>5, <1>6, <1>7, <1>8, <1>9, <1>10, <1>11, <1>12, <1>13, <1>14, <1>15, <1>16, <1>17, <1>18, <1>19
     DEF Next, Step

\* The history of admitted accounts includes the present ones.
LEMMA VouchStep ==
    ASSUME TypeOK, VouchesNow, [Next]_vars
    PROVE  VouchesNow'
<1> USE QrLoginAssumption DEF TypeOK, Statuses, Standings, PCs, VouchesNow, Admitted
<1>1. CASE InitiateQrLogin
  BY <1>1 DEF InitiateQrLogin, rowvars, locals, ghosts
<1>2. CASE Sweep
  BY <1>2 DEF Sweep, rowvars, locals, ghosts
<1>3. CASE ChangeStanding
  BY <1>3 DEF ChangeStanding, Admitted, rowvars, locals, ghosts
<1>4. CASE Tick
  BY <1>4 DEF Tick, rowvars, locals, ghosts
<1>5. ASSUME NEW r \in Requests, GetQrLoginSession(r)
      PROVE  VouchesNow'
  BY <1>5 DEF GetQrLoginSession, Goto, Begin, Admitted, rowvars, locals, ghosts
<1>6. ASSUME NEW r \in Requests, ApproveQrLogin(r)
      PROVE  VouchesNow'
  BY <1>6 DEF ApproveQrLogin, Goto, Begin, Admitted, rowvars, locals, ghosts
<1>7. ASSUME NEW r \in Requests, PollQrLogin(r)
      PROVE  VouchesNow'
  BY <1>7 DEF PollQrLogin, Goto, Begin, Admitted, rowvars, locals, ghosts
<1>8. ASSUME NEW r \in Requests, GetRead(r)
      PROVE  VouchesNow'
  BY <1>8 DEF GetRead, Goto, rowvars, locals, ghosts
<1>9. ASSUME NEW r \in Requests, ApproveRead(r)
      PROVE  VouchesNow'
  BY <1>9 DEF ApproveRead, Goto, rowvars, locals, ghosts
<1>10. ASSUME NEW r \in Requests, checkQrApprover(r)
      PROVE  VouchesNow'
  BY <1>10 DEF checkQrApprover, Goto, rowvars, locals, ghosts
<1>11. ASSUME NEW r \in Requests, ApproveWrite(r)
      PROVE  VouchesNow'
  BY <1>11 DEF ApproveWrite, Goto, UpdateStatus, rowvars, locals, ghosts
<1>12. ASSUME NEW r \in Requests, ExpireWrite(r)
      PROVE  VouchesNow'
  BY <1>12 DEF ExpireWrite, Goto, UpdateStatus, rowvars, locals, ghosts
<1>13. ASSUME NEW r \in Requests, PollRead(r)
      PROVE  VouchesNow'
  BY <1>13 DEF PollRead, Goto, qrCollectionClosed, rowvars, locals, ghosts
<1>14. ASSUME NEW r \in Requests, PollWrongSecret(r)
      PROVE  VouchesNow'
  BY <1>14 DEF PollWrongSecret, Goto, rowvars, locals, ghosts
<1>15. ASSUME NEW r \in Requests, PollGates(r)
      PROVE  VouchesNow'
  BY <1>15 DEF PollGates, Goto, rowvars, locals, ghosts
<1>16. ASSUME NEW r \in Requests, ConsumeQrLoginSession(r)
      PROVE  VouchesNow'
  BY <1>16 DEF ConsumeQrLoginSession, Goto, ConsumeMatches, rowvars, locals, ghosts
<1>17. ASSUME NEW r \in Requests, PollMint(r)
      PROVE  VouchesNow'
  BY <1>17 DEF PollMint, Goto, rowvars, locals, ghosts
<1>18. ASSUME NEW r \in Requests, Abort(r)
      PROVE  VouchesNow'
  BY <1>18 DEF Abort, Goto, rowvars, locals, ghosts
<1>19. CASE UNCHANGED vars
  BY <1>19 DEF vars, rowvars, locals, ghosts
<1>20. QED
  BY <1>1, <1>2, <1>3, <1>4, <1>5, <1>6, <1>7, <1>8, <1>9, <1>10, <1>11, <1>12, <1>13, <1>14, <1>15, <1>16, <1>17, <1>18, <1>19
     DEF Next, Step

\* PollGates is the only way to the consume.
LEMMA AllowedStep ==
    ASSUME TypeOK, CollectsForApprovers, VouchesNow, CollectorStillAllowed, [Next]_vars
    PROVE  CollectorStillAllowed'
<1> USE QrLoginAssumption DEF TypeOK, Statuses, Standings, PCs, CollectsForApprovers, VouchesNow, CollectorStillAllowed, Admitted
<1>1. CASE InitiateQrLogin
  BY <1>1 DEF InitiateQrLogin, rowvars, locals, ghosts
<1>2. CASE Sweep
  BY <1>2 DEF Sweep, rowvars, locals, ghosts
<1>3. CASE ChangeStanding
  BY <1>3 DEF ChangeStanding, Admitted, rowvars, locals, ghosts
<1>4. CASE Tick
  BY <1>4 DEF Tick, rowvars, locals, ghosts
<1>5. ASSUME NEW r \in Requests, GetQrLoginSession(r)
      PROVE  CollectorStillAllowed'
  BY <1>5 DEF GetQrLoginSession, Goto, Begin, Admitted, rowvars, locals, ghosts
<1>6. ASSUME NEW r \in Requests, ApproveQrLogin(r)
      PROVE  CollectorStillAllowed'
  BY <1>6 DEF ApproveQrLogin, Goto, Begin, Admitted, rowvars, locals, ghosts
<1>7. ASSUME NEW r \in Requests, PollQrLogin(r)
      PROVE  CollectorStillAllowed'
  BY <1>7 DEF PollQrLogin, Goto, Begin, Admitted, rowvars, locals, ghosts
<1>8. ASSUME NEW r \in Requests, GetRead(r)
      PROVE  CollectorStillAllowed'
  BY <1>8 DEF GetRead, Goto, rowvars, locals, ghosts
<1>9. ASSUME NEW r \in Requests, ApproveRead(r)
      PROVE  CollectorStillAllowed'
  BY <1>9 DEF ApproveRead, Goto, rowvars, locals, ghosts
<1>10. ASSUME NEW r \in Requests, checkQrApprover(r)
      PROVE  CollectorStillAllowed'
  BY <1>10 DEF checkQrApprover, Goto, rowvars, locals, ghosts
<1>11. ASSUME NEW r \in Requests, ApproveWrite(r)
      PROVE  CollectorStillAllowed'
  BY <1>11 DEF ApproveWrite, Goto, UpdateStatus, rowvars, locals, ghosts
<1>12. ASSUME NEW r \in Requests, ExpireWrite(r)
      PROVE  CollectorStillAllowed'
  BY <1>12 DEF ExpireWrite, Goto, UpdateStatus, rowvars, locals, ghosts
<1>13. ASSUME NEW r \in Requests, PollRead(r)
      PROVE  CollectorStillAllowed'
  BY <1>13 DEF PollRead, Goto, qrCollectionClosed, rowvars, locals, ghosts
<1>14. ASSUME NEW r \in Requests, PollWrongSecret(r)
      PROVE  CollectorStillAllowed'
  BY <1>14 DEF PollWrongSecret, Goto, rowvars, locals, ghosts
<1>15. ASSUME NEW r \in Requests, PollGates(r)
      PROVE  CollectorStillAllowed'
  BY <1>15 DEF PollGates, Goto, rowvars, locals, ghosts
<1>16. ASSUME NEW r \in Requests, ConsumeQrLoginSession(r)
      PROVE  CollectorStillAllowed'
  BY <1>16 DEF ConsumeQrLoginSession, Goto, ConsumeMatches, rowvars, locals, ghosts
<1>17. ASSUME NEW r \in Requests, PollMint(r)
      PROVE  CollectorStillAllowed'
  BY <1>17 DEF PollMint, Goto, rowvars, locals, ghosts
<1>18. ASSUME NEW r \in Requests, Abort(r)
      PROVE  CollectorStillAllowed'
  BY <1>18 DEF Abort, Goto, rowvars, locals, ghosts
<1>19. CASE UNCHANGED vars
  BY <1>19 DEF vars, rowvars, locals, ghosts
<1>20. QED
  BY <1>1, <1>2, <1>3, <1>4, <1>5, <1>6, <1>7, <1>8, <1>9, <1>10, <1>11, <1>12, <1>13, <1>14, <1>15, <1>16, <1>17, <1>18, <1>19
     DEF Next, Step

\* The inductive invariant holds in every reachable state.
THEOREM QrLoginInvariant == Spec => []IInv
<1>1. Init => IInv
  BY QrLoginAssumption
     DEF Init, IInv, TypeOK, Statuses, Standings, PCs, NothingBeforeInitiate, ApproverNamed, ApprovalsAccounted,
         CollectsForApprovers, CollectedInTime, VouchesNow, CollectorStillAllowed
<1>2. IInv /\ [Next]_vars => IInv'
  BY TypeStep, InitiateStep, NamedStep, ApprovalStep, ApproverStep, CollectStep, VouchStep,
     AllowedStep
     DEF IInv
<1>3. QED
  BY <1>1, <1>2, PTL DEF Spec

\* The row and the requests on it are well typed in every reachable state.
THEOREM TypeCorrect == Spec => []TypeOK
<1>1. IInv => TypeOK
  BY DEF IInv
<1>2. QED
  BY <1>1, QrLoginInvariant, PTL

\* However many polls race on however many replicas, and however approvals and
\* expiries are written over each other, ConsumeQrLoginSession succeeds at most
\* once per approval written.
THEOREM MintsNeedApprovals == Spec => []MintsBoundedByApprovals
<1>1. IInv => MintsBoundedByApprovals
  BY DEF IInv, TypeOK, ApprovalsAccounted, MintsBoundedByApprovals
<1>2. QED
  BY <1>1, QrLoginInvariant, PTL

\* PollQrLogin mints only for accounts that approved this hand-off.
THEOREM MintsForApprovers == Spec => []MintedForApprovers
<1>1. IInv => MintedForApprovers
  BY DEF IInv, CollectsForApprovers, MintedForApprovers
<1>2. QED
  BY <1>1, QrLoginInvariant, PTL

\* No poll that read the row after its window and grace reaches the mint.
THEOREM CollectionCloses == Spec => []CollectedInTime
<1>1. IInv => CollectedInTime
  BY DEF IInv
<1>2. QED
  BY <1>1, QrLoginInvariant, PTL

\* The gates at collection hold for every poll that mints, whatever the
\* standing of the account was at approval.
THEOREM GatedAtCollection == Spec => []CollectorStillAllowed
<1>1. IInv => CollectorStillAllowed
  BY DEF IInv
<1>2. QED
  BY <1>1, QrLoginInvariant, PTL

\* Every mint of a hand-off is accounted for by an approval (PollQrLogin).
THEOREM MintsAreApproved == Spec => []MintsMatchApprovals
BY MintsNeedApprovals, MintsForApprovers, PTL DEF MintsMatchApprovals

\* A hand-off is collected in time and by an account that may (PollQrLogin).
THEOREM CollectionIsGated == Spec => []CollectionGated
BY CollectionCloses, GatedAtCollection, PTL DEF CollectionGated

-----------------------------------------------------------------------------
(* Refinement: the hand-off is a single-use credential.  Its slot is live  *)
(* while the row reads approved; an approval issues, a poll that wins is   *)
(* the grant, and a rejection, an expiry or the sweep written over an      *)
(* approval voids it.                                                      *)

Slots == {"handoff"}
Collectable == [s \in Slots |-> status = "approved"]
Handoff == INSTANCE OneTimeGrant WITH
    Slots <- Slots,
    live <- Collectable,
    issued <- [s \in Slots |-> approvals],
    granted <- [s \in Slots |-> consumed]

\* How a step of the row maps.
LEMMA RowSteps ==
    /\ status' = "approved" /\ approvals' = approvals + 1 /\ consumed' = consumed
         => Handoff!Issue("handoff")
    /\ status = "approved" /\ status' # "approved" /\ approvals' = approvals
         /\ consumed' = consumed + 1 => Handoff!Grant("handoff")
    /\ status = "approved" /\ status' # "approved" /\ approvals' = approvals
         /\ consumed' = consumed => Handoff!Void("handoff")
    /\ (status' = "approved") = (status = "approved") /\ approvals' = approvals
         /\ consumed' = consumed => UNCHANGED Handoff!vars
<1>1. ASSUME status' = "approved", approvals' = approvals + 1, consumed' = consumed
      PROVE  Handoff!Issue("handoff")
  BY <1>1 DEF Handoff!Issue, Collectable, Slots
<1>2. ASSUME status = "approved", status' # "approved", approvals' = approvals,
             consumed' = consumed + 1
      PROVE  Handoff!Grant("handoff")
  BY <1>2 DEF Handoff!Grant, Collectable, Slots
<1>3. ASSUME status = "approved", status' # "approved", approvals' = approvals, consumed' = consumed
      PROVE  Handoff!Void("handoff")
  BY <1>3 DEF Handoff!Void, Collectable, Slots
<1>4. ASSUME (status' = "approved") = (status = "approved"), approvals' = approvals,
             consumed' = consumed
      PROVE  UNCHANGED Handoff!vars
  BY <1>4 DEF Handoff!vars, Collectable
<1> QED
  BY <1>1, <1>2, <1>3, <1>4

LEMMA HandoffStep == IInv /\ [Next]_vars => [Handoff!Next]_(Handoff!vars)
<1> SUFFICES ASSUME IInv, [Next]_vars PROVE [Handoff!Next]_(Handoff!vars)
  OBVIOUS
<1> DEFINE Abstract == Handoff!Next \/ UNCHANGED Handoff!vars
<1> SUFFICES Abstract
  OBVIOUS
<1>1. /\ Handoff!Issue("handoff") => Abstract
      /\ Handoff!Grant("handoff") => Abstract
      /\ Handoff!Void("handoff") => Abstract
  BY DEF Handoff!Next, Slots
<1>2. ASSUME UNCHANGED <<status, approvals, consumed>> PROVE Abstract
  BY <1>2, RowSteps
\* A write over the row that is neither an approval nor a win.
<1>3. ASSUME status' = status \/ status' # "approved", status = "approved" \/ status' # "approved",
             UNCHANGED <<approvals, consumed>>
      PROVE  Abstract
  <2>1. CASE status = "approved" /\ status' # "approved"
    BY <1>1, <1>3, <2>1, RowSteps
  <2>2. CASE (status' = "approved") = (status = "approved")
    BY <1>3, <2>2, RowSteps
  <2> QED
    BY <1>3, <2>1, <2>2
<1> HIDE DEF Abstract
<1>4. CASE InitiateQrLogin
  BY <1>3, <1>4 DEF InitiateQrLogin, ghosts
<1>5. CASE Sweep
  BY <1>3, <1>5 DEF Sweep, ghosts
<1>6. CASE ChangeStanding \/ Tick \/ UNCHANGED vars
  BY <1>2, <1>6 DEF ChangeStanding, Tick, vars, rowvars, ghosts
<1>7. ASSUME NEW r \in Requests, GetQrLoginSession(r) \/ ApproveQrLogin(r) \/ PollQrLogin(r) \/ Abort(r)
      PROVE  Abstract
  BY <1>2, <1>7 DEF GetQrLoginSession, ApproveQrLogin, PollQrLogin, Begin, Abort, rowvars, ghosts
<1>8. ASSUME NEW r \in Requests,
             \/ GetRead(r) \/ ApproveRead(r) \/ checkQrApprover(r) \/ PollRead(r)
             \/ PollWrongSecret(r) \/ PollGates(r) \/ PollMint(r)
      PROVE  Abstract
  BY <1>2, <1>8 DEF GetRead, ApproveRead, checkQrApprover, PollRead, PollWrongSecret, PollGates,
       PollMint, rowvars, ghosts
<1>9. ASSUME NEW r \in Requests, ApproveWrite(r) PROVE Abstract
  <2>1. status # "none"
    BY <1>9 DEF ApproveWrite, IInv, NothingBeforeInitiate
  <2>2. CASE verdict[r] = "approved" /\ status # "gone"
    <3>1. status' = "approved" /\ approvals' = approvals + 1 /\ consumed' = consumed
      BY <1>9, <2>1, <2>2 DEF ApproveWrite, UpdateStatus
    <3> QED
      BY <1>1, <3>1, RowSteps
  <2>3. CASE status = "gone"
    <3>1. UNCHANGED <<status, approvals, consumed>>
      BY <1>9, <2>3 DEF ApproveWrite, UpdateStatus
    <3> QED
      BY <1>2, <3>1
  <2>4. CASE verdict[r] = "rejected"
    <3>1. /\ (status' = status /\ status = "gone") \/ status' = "rejected"
          /\ UNCHANGED <<approvals, consumed>>
      BY <1>9, <2>1, <2>4 DEF ApproveWrite, UpdateStatus
    <3> QED
      BY <1>3, <3>1
  <2> QED
    BY <2>2, <2>3, <2>4 DEF IInv, TypeOK
<1>10. ASSUME NEW r \in Requests, ExpireWrite(r) PROVE Abstract
  <2>1. /\ (status' = status /\ status \in {"none", "gone"}) \/ status' = "expired"
        /\ UNCHANGED <<approvals, consumed>>
    BY <1>10 DEF ExpireWrite, UpdateStatus, ghosts
  <2> QED
    BY <1>3, <2>1
<1>11. ASSUME NEW r \in Requests, ConsumeQrLoginSession(r) PROVE Abstract
  <2>1. CASE ConsumeMatches
    <3>1. /\ status = "approved" /\ status' # "approved" /\ approvals' = approvals
          /\ consumed' = consumed + 1
      BY <1>11, <2>1 DEF ConsumeQrLoginSession, ConsumeMatches
    <3> QED
      BY <1>1, <3>1, RowSteps
  <2>2. CASE ~ConsumeMatches
    BY <1>2, <1>11, <2>2 DEF ConsumeQrLoginSession
  <2> QED
    BY <2>1, <2>2
<1> QED
  BY <1>4, <1>5, <1>6, <1>7, <1>8, <1>9, <1>10, <1>11 DEF Next, Step

\* QrLogin implements OneTimeGrant: however approvals, rejections, expiries and
\* polls are written over each other from stale reads, the row is a single-use
\* credential for each approval (UpdateQrLoginSession, ConsumeQrLoginSession).
THEOREM HandoffImplementsOneTimeGrant == Spec => Handoff!Spec
<1>1. Init => Handoff!Init
  BY DEF Init, Handoff!Init, Collectable, Slots
<1> QED
  BY <1>1, QrLoginInvariant, HandoffStep, PTL DEF Spec, Handoff!Spec
=============================================================================
