------------------------- MODULE PasswordLoginProofs -------------------------
(***************************************************************************)
(* Proofs about PasswordLogin, for any number of requests, challenges,     *)
(* codes and credentials and every limit, lockout and expiry.              *)
(***************************************************************************)
EXTENDS PasswordLogin, TLAPS

\* What a request carries fits the step it is at.
CarriesItsArgument ==
    \A r \in Requests :
        /\ pc[r] \in {"chal", "expire", "spend", "owner", "mint2"} => arg[r] \in Challenges
        /\ pc[r] \in {"cred", "find", "use"} => arg[r] \in Challenges \cup {None}
        /\ pc[r] \in {"ticket", "ensureCode"} => arg[r] = None
        /\ pc[r] \in {"find", "use"} => proof[r] \in Codes
        /\ pc[r] \in {"dropCred", "markCred"} => arg[r] \in Creds

\* A lock about to be written ends after the clock began.
LockIsLater == \A r \in Requests : pc[r] = "lock" => at[r] # 0

\* Passwords are presented, signed for and issued only once they were set.
KnownPasswords ==
    /\ \A r \in Requests : guess[r] <= pw
    /\ \A g \in tickets : g <= pw
    /\ \A g \in issued : g <= pw

\* An issued password still in force is marked as one.
IssuedIsMarked == pw \in issued => temp

\* Where a sign-in with an issued password is going, the resets included.
IssuedGoesNowhere ==
    \A r \in Requests : guess[r] \in issued =>
        /\ pc[r] \notin {"ensureChallenge", "challenge", "mint"}
        /\ pc[r] \in {"clear", "reset"} => plan[r] \notin {"ensureChallenge", "challenge", "mint"}

\* A history of enrolment is one of an account that asks for the factor and of
\* which no disabling is under way.
SecuredAsks ==
    /\ secured => flag /\ Disabling = {}
    /\ \A r \in Requests : asked[r] => secured

\* Where a sign-in that owes a second factor is going.
OwesSecondFactor ==
    \A r \in Requests : asked[r] \/ forced =>
        /\ pc[r] # "mint"
        /\ pc[r] \in {"clear", "reset"} => plan[r] # "mint"
        /\ pc[r] = "setpw" => proof[r] # "wrong"

\* No sign-in, whatever is reset, is planned into a step of another request.
PlansAhead ==
    \A r \in Requests :
        plan[r] \in {"count", "done", "ensureSign", "sign", "ensureChallenge", "challenge", "mint"}

\* Where a request is going whose password was replaced before it began: a second
\* step has a challenge and sets no password.
ReplacedGoesNowhere ==
    \A r \in Requests :
        /\ base[r] <= pw
        /\ guess[r] < base[r] =>
              /\ pc[r] \notin {"ensureSign", "sign", "ensureChallenge", "challenge", "mint",
                               "ensureCode", "setpw", "change"}
              /\ pc[r] \in {"clear", "reset"} => plan[r] \in {"count", "done"}
              /\ pc[r] \in {"cred", "find", "use"} => arg[r] # None

IInv ==
    /\ TypeOK
    /\ CarriesItsArgument
    /\ PlansAhead
    /\ LockIsLater
    /\ ThresholdLocks
    /\ KnownPasswords
    /\ IssuedIsMarked
    /\ IssuedGoesNowhere
    /\ SecuredAsks
    /\ OwesSecondFactor
    /\ ReplacedGoesNowhere

\* No request changes the tenant's login policy.
LEMMA PolicyStays ==
    ASSUME [Next]_vars
    PROVE  forced' = forced
  BY DEF Next, vars

\* GetTotpCredential returns a stored row.
LEMMA NewestIsStored ==
    ASSUME Newest # {}
    PROVE  (CHOOSE n \in Newest : TRUE) \in Creds
<1>1. PICK m : m \in Newest
  OBVIOUS
<1>2. (CHOOSE n \in Newest : TRUE) \in Newest
  BY <1>1
<1>3. QED
  BY <1>2 DEF Newest, Rows

\* Every step keeps the state well typed.
LEMMA TypeStep ==
    ASSUME TypeOK, CarriesItsArgument, PlansAhead, [Next]_vars
    PROVE  TypeOK'
<1> USE PasswordLoginAssumption, PolicyStays DEF TypeOK, Statuses, PCs, CarriesItsArgument, PlansAhead
<1>1. CASE AdminResetPassword
  BY <1>1 DEF AdminResetPassword, tables, locals
<1>2. CASE ConfirmPasswordReset
  <2>1. pw' \in Nat /\ count' \in Nat /\ until' \in Nat
    BY <1>2 DEF ConfirmPasswordReset
  <2>2. QED
    BY <1>2, <2>1, ZenonT(30) DEF ConfirmPasswordReset, tables, locals
<1>3. CASE ChangeStatus
  BY <1>3 DEF ChangeStatus, tables, locals
<1>4. CASE Tick
  BY <1>4 DEF Tick, account, tables, locals, ghosts
<1>5. ASSUME NEW r \in Requests, PasswordLogin(r)
      PROVE  TypeOK'
  BY <1>5 DEF PasswordLogin, Begin, Goto, Asked, account, tables
<1>6. ASSUME NEW r \in Requests, VerifyTotp(r)
      PROVE  TypeOK'
  BY <1>6 DEF VerifyTotp, Begin, Goto, Asked, Proofs, account, tables
<1>7. ASSUME NEW r \in Requests, CompleteRequiredPasswordChange(r)
      PROVE  TypeOK'
  BY <1>7 DEF CompleteRequiredPasswordChange, Begin, Goto, Asked, Proofs, account, tables
<1>8. ASSUME NEW r \in Requests, BeginTotpSetup(r)
      PROVE  TypeOK'
  BY <1>8 DEF BeginTotpSetup, Begin, Goto, Asked, account, tables
<1>9. ASSUME NEW r \in Requests, VerifyTotpSetup(r)
      PROVE  TypeOK'
  BY <1>9 DEF VerifyTotpSetup, Begin, Goto, Asked, account, tables
<1>10. ASSUME NEW r \in Requests, RegenerateRecoveryCodes(r)
      PROVE  TypeOK'
  BY <1>10 DEF RegenerateRecoveryCodes, Begin, Goto, Asked, account, tables
<1>11. ASSUME NEW r \in Requests, ChangePassword(r)
      PROVE  TypeOK'
  BY <1>11 DEF ChangePassword, Begin, Goto, Asked, account, tables
<1>12. ASSUME NEW r \in Requests, DisableTotp(r)
      PROVE  TypeOK'
  BY <1>12 DEF DisableTotp, Begin, Goto, account, tables
<1>13. ASSUME NEW r \in Requests, LoginRead(r)
      PROVE  TypeOK'
  BY <1>13 DEF LoginRead, Goto, Verdict, StillTables, account, tables, ghosts
<1>14. ASSUME NEW r \in Requests, ResetFailedLoginCount(r)
      PROVE  TypeOK'
  BY <1>14 DEF ResetFailedLoginCount, Goto, tables, locals
<1>15. ASSUME NEW r \in Requests, IncrementFailedLoginCount(r)
      PROVE  TypeOK'
  BY <1>15 DEF IncrementFailedLoginCount, Goto, StillTables, tables, ghosts
<1>16. ASSUME NEW r \in Requests, SetUserLockedUntil(r)
      PROVE  TypeOK'
  BY <1>16 DEF SetUserLockedUntil, Goto, tables, locals
<1>17. ASSUME NEW r \in Requests, SignTicket(r)
      PROVE  TypeOK'
  <2>1. guess[r] \in Nat
    OBVIOUS
  <2>2. tickets' \in SUBSET Nat
    BY <1>17, <2>1, Zenon DEF SignTicket
  <2>3. QED
    BY <1>17, <2>2, ZenonT(30) DEF SignTicket, Goto, StillAccount, account, locals, ghosts
<1>18. ASSUME NEW r \in Requests, issueLoginChallenge(r)
      PROVE  TypeOK'
  BY <1>18 DEF issueLoginChallenge, Goto, StillAccount, account, locals, ghosts
<1>19. ASSUME NEW r \in Requests, Mint(r)
      PROVE  TypeOK'
  BY <1>19 DEF Mint, Goto, StillAccount, tables, account, locals, ghosts
<1>20. ASSUME NEW r \in Requests, ChallengeRead(r)
      PROVE  TypeOK'
  BY <1>20 DEF ChallengeRead, Goto, StillAccount, tables, account, locals, ghosts
<1>21. ASSUME NEW r \in Requests, DeleteLoginChallenge(r)
      PROVE  TypeOK'
  BY <1>21 DEF DeleteLoginChallenge, Goto, StillAccount, account, locals, ghosts
<1>22. ASSUME NEW r \in Requests, OwnerRead(r)
      PROVE  TypeOK'
  BY <1>22 DEF OwnerRead, Goto, StillAccount, tables, account, locals, ghosts
<1>23. ASSUME NEW r \in Requests, CredRead(r)
      PROVE  TypeOK'
  BY <1>23 DEF CredRead, Goto, Refused, Accepted, StillAccount, tables, account, locals, ghosts
<1>24. ASSUME NEW r \in Requests, ensureSecondFactorEnrolled(r)
      PROVE  TypeOK'
  BY <1>24 DEF ensureSecondFactorEnrolled, Goto, StillAccount, tables, account, locals, ghosts
<1>25. ASSUME NEW r \in Requests, FindRecoveryCode(r)
      PROVE  TypeOK'
  BY <1>25 DEF FindRecoveryCode, Goto, Refused, StillAccount, tables, account, locals, ghosts
<1>26. ASSUME NEW r \in Requests, UpdateRecoveryCode(r)
      PROVE  TypeOK'
  BY <1>26 DEF UpdateRecoveryCode, Goto, Accepted, StillAccount, account, locals, ghosts
<1>27. ASSUME NEW r \in Requests, Mint2(r)
      PROVE  TypeOK'
  BY <1>27 DEF Mint2, Goto, StillAccount, tables, account, locals, ghosts
<1>28. ASSUME NEW r \in Requests, TicketRead(r)
      PROVE  TypeOK'
  BY <1>28 DEF TicketRead, Goto, StillAccount, tables, account, locals, ghosts
<1>29. ASSUME NEW r \in Requests, WriteOwnPassword(r)
      PROVE  TypeOK'
  <2>1. pw' \in Nat /\ count' \in Nat /\ until' \in Nat
    BY <1>29 DEF WriteOwnPassword
  <2>2. QED
    BY <1>29, <2>1, ZenonT(30) DEF WriteOwnPassword, Goto, tables, locals
<1>30. ASSUME NEW r \in Requests, CurrentRead(r)
      PROVE  TypeOK'
  BY <1>30 DEF CurrentRead, Goto, StillAccount, tables, account, locals, ghosts
<1>31. ASSUME NEW r \in Requests, WriteChangedPassword(r)
      PROVE  TypeOK'
  <2>1. pw' \in Nat
    BY <1>31 DEF WriteChangedPassword
  <2>2. QED
    BY <1>31, <2>1, ZenonT(30) DEF WriteChangedPassword, Goto, StillTables, locals, tables, ghosts
<1>32. ASSUME NEW r \in Requests, SetupRead(r)
      PROVE  TypeOK'
  BY <1>32, NewestIsStored DEF SetupRead, Goto, StillTables, account, tables, ghosts
<1>33. ASSUME NEW r \in Requests, DeleteTotpCredential(r)
      PROVE  TypeOK'
  BY <1>33 DEF DeleteTotpCredential, Goto, StillAccount, account, locals, ghosts
<1>34. ASSUME NEW r \in Requests, CreateTotpCredential(r)
      PROVE  TypeOK'
  BY <1>34 DEF CreateTotpCredential, Goto, StillAccount, account, locals, ghosts
<1>35. ASSUME NEW r \in Requests, RegenerateRead(r)
      PROVE  TypeOK'
  BY <1>35 DEF RegenerateRead, Goto, StillAccount, tables, account, locals, ghosts
<1>36. ASSUME NEW r \in Requests, DeleteRecoveryCodesForUser(r)
      PROVE  TypeOK'
  BY <1>36 DEF DeleteRecoveryCodesForUser, Goto, StillAccount, account, locals, ghosts
<1>37. ASSUME NEW r \in Requests, CreateRecoveryCode(r)
      PROVE  TypeOK'
  BY <1>37 DEF CreateRecoveryCode, Goto, StillAccount, account, locals, ghosts
<1>38. ASSUME NEW r \in Requests, SetupVerify(r)
      PROVE  TypeOK'
  BY <1>38, NewestIsStored DEF SetupVerify, Goto, StillTables, account, tables, ghosts
<1>39. ASSUME NEW r \in Requests, MarkVerified(r)
      PROVE  TypeOK'
  BY <1>39 DEF MarkVerified, Goto, StillAccount, account, locals, ghosts
<1>40. ASSUME NEW r \in Requests, RequireTotp(r)
      PROVE  TypeOK'
  BY <1>40 DEF RequireTotp, Goto, Disabling, tables, locals
<1>41. ASSUME NEW r \in Requests, DeleteTotpCredentialsForUser(r)
      PROVE  TypeOK'
  BY <1>41 DEF DeleteTotpCredentialsForUser, Goto, StillAccount, account, locals, ghosts
<1>42. ASSUME NEW r \in Requests, RequireTotpNoMore(r)
      PROVE  TypeOK'
  BY <1>42 DEF RequireTotpNoMore, Goto, StillTables, locals, tables, ghosts
<1>43. ASSUME NEW r \in Requests, Abort(r)
      PROVE  TypeOK'
  BY <1>43 DEF Abort, Goto, account, tables, locals
<1>44. ASSUME NEW r \in Requests, BestEffortFails(r)
      PROVE  TypeOK'
  BY <1>44 DEF BestEffortFails, Goto, BestEffort, AfterFault, Refused, Accepted, StillAccount, tables, account, locals, ghosts
<1>45. CASE UNCHANGED vars
  BY <1>45 DEF vars, account, tables, locals, ghosts
<1>46. QED
  BY <1>1, <1>2, <1>3, <1>4, <1>5, <1>6, <1>7, <1>8, <1>9, <1>10, <1>11, <1>12, <1>13, <1>14, <1>15, <1>16, <1>17, <1>18, <1>19, <1>20, <1>21, <1>22, <1>23, <1>24, <1>25, <1>26, <1>27, <1>28, <1>29, <1>30, <1>31, <1>32, <1>33, <1>34, <1>35, <1>36, <1>37, <1>38, <1>39, <1>40, <1>41, <1>42, <1>43, <1>44, <1>45
     DEF Next, Arrive, Step, Enrol

\* A step is reached only with what it will use, and LoginRead is the only one
\* that plans.
LEMMA ShapeStep ==
    ASSUME TypeOK, CarriesItsArgument, PlansAhead, [Next]_vars
    PROVE  (CarriesItsArgument /\ PlansAhead)'
<1> USE PasswordLoginAssumption DEF TypeOK, Statuses, PCs, CarriesItsArgument, PlansAhead
<1>1. CASE AdminResetPassword
  BY <1>1 DEF AdminResetPassword, tables, locals
<1>2. CASE ConfirmPasswordReset
  BY <1>2 DEF ConfirmPasswordReset, tables, locals
<1>3. CASE ChangeStatus
  BY <1>3 DEF ChangeStatus, tables, locals
<1>4. CASE Tick
  BY <1>4 DEF Tick, account, tables, locals, ghosts
<1>5. ASSUME NEW r \in Requests, PasswordLogin(r)
      PROVE  (CarriesItsArgument /\ PlansAhead)'
  BY <1>5 DEF PasswordLogin, Begin, Goto, Asked, account, tables
<1>6. ASSUME NEW r \in Requests, VerifyTotp(r)
      PROVE  (CarriesItsArgument /\ PlansAhead)'
  BY <1>6 DEF VerifyTotp, Begin, Goto, Asked, Proofs, account, tables
<1>7. ASSUME NEW r \in Requests, CompleteRequiredPasswordChange(r)
      PROVE  (CarriesItsArgument /\ PlansAhead)'
  BY <1>7 DEF CompleteRequiredPasswordChange, Begin, Goto, Asked, Proofs, account, tables
<1>8. ASSUME NEW r \in Requests, BeginTotpSetup(r)
      PROVE  (CarriesItsArgument /\ PlansAhead)'
  BY <1>8 DEF BeginTotpSetup, Begin, Goto, Asked, account, tables
<1>9. ASSUME NEW r \in Requests, VerifyTotpSetup(r)
      PROVE  (CarriesItsArgument /\ PlansAhead)'
  BY <1>9 DEF VerifyTotpSetup, Begin, Goto, Asked, account, tables
<1>10. ASSUME NEW r \in Requests, RegenerateRecoveryCodes(r)
      PROVE  (CarriesItsArgument /\ PlansAhead)'
  BY <1>10 DEF RegenerateRecoveryCodes, Begin, Goto, Asked, account, tables
<1>11. ASSUME NEW r \in Requests, ChangePassword(r)
      PROVE  (CarriesItsArgument /\ PlansAhead)'
  BY <1>11 DEF ChangePassword, Begin, Goto, Asked, account, tables
<1>12. ASSUME NEW r \in Requests, DisableTotp(r)
      PROVE  (CarriesItsArgument /\ PlansAhead)'
  BY <1>12 DEF DisableTotp, Begin, Goto, account, tables
<1>13. ASSUME NEW r \in Requests, LoginRead(r)
      PROVE  (CarriesItsArgument /\ PlansAhead)'
  BY <1>13 DEF LoginRead, Goto, Verdict, StillTables, account, tables, ghosts
<1>14. ASSUME NEW r \in Requests, ResetFailedLoginCount(r)
      PROVE  (CarriesItsArgument /\ PlansAhead)'
  BY <1>14 DEF ResetFailedLoginCount, Goto, tables, locals
<1>15. ASSUME NEW r \in Requests, IncrementFailedLoginCount(r)
      PROVE  (CarriesItsArgument /\ PlansAhead)'
  BY <1>15 DEF IncrementFailedLoginCount, Goto, StillTables, tables, ghosts
<1>16. ASSUME NEW r \in Requests, SetUserLockedUntil(r)
      PROVE  (CarriesItsArgument /\ PlansAhead)'
  BY <1>16 DEF SetUserLockedUntil, Goto, tables, locals
<1>17. ASSUME NEW r \in Requests, SignTicket(r)
      PROVE  (CarriesItsArgument /\ PlansAhead)'
  BY <1>17 DEF SignTicket, Goto, StillAccount, account, locals, ghosts
<1>18. ASSUME NEW r \in Requests, issueLoginChallenge(r)
      PROVE  (CarriesItsArgument /\ PlansAhead)'
  BY <1>18 DEF issueLoginChallenge, Goto, StillAccount, account, locals, ghosts
<1>19. ASSUME NEW r \in Requests, Mint(r)
      PROVE  (CarriesItsArgument /\ PlansAhead)'
  BY <1>19 DEF Mint, Goto, StillAccount, tables, account, locals, ghosts
<1>20. ASSUME NEW r \in Requests, ChallengeRead(r)
      PROVE  (CarriesItsArgument /\ PlansAhead)'
  BY <1>20 DEF ChallengeRead, Goto, StillAccount, tables, account, locals, ghosts
<1>21. ASSUME NEW r \in Requests, DeleteLoginChallenge(r)
      PROVE  (CarriesItsArgument /\ PlansAhead)'
  BY <1>21 DEF DeleteLoginChallenge, Goto, StillAccount, account, locals, ghosts
<1>22. ASSUME NEW r \in Requests, OwnerRead(r)
      PROVE  (CarriesItsArgument /\ PlansAhead)'
  BY <1>22 DEF OwnerRead, Goto, StillAccount, tables, account, locals, ghosts
<1>23. ASSUME NEW r \in Requests, CredRead(r)
      PROVE  (CarriesItsArgument /\ PlansAhead)'
  BY <1>23 DEF CredRead, Goto, Refused, Accepted, StillAccount, tables, account, locals, ghosts
<1>24. ASSUME NEW r \in Requests, ensureSecondFactorEnrolled(r)
      PROVE  (CarriesItsArgument /\ PlansAhead)'
  BY <1>24 DEF ensureSecondFactorEnrolled, Goto, StillAccount, tables, account, locals, ghosts
<1>25. ASSUME NEW r \in Requests, FindRecoveryCode(r)
      PROVE  (CarriesItsArgument /\ PlansAhead)'
  BY <1>25 DEF FindRecoveryCode, Goto, Refused, StillAccount, tables, account, locals, ghosts
<1>26. ASSUME NEW r \in Requests, UpdateRecoveryCode(r)
      PROVE  (CarriesItsArgument /\ PlansAhead)'
  BY <1>26 DEF UpdateRecoveryCode, Goto, Accepted, StillAccount, account, locals, ghosts
<1>27. ASSUME NEW r \in Requests, Mint2(r)
      PROVE  (CarriesItsArgument /\ PlansAhead)'
  BY <1>27 DEF Mint2, Goto, StillAccount, tables, account, locals, ghosts
<1>28. ASSUME NEW r \in Requests, TicketRead(r)
      PROVE  (CarriesItsArgument /\ PlansAhead)'
  BY <1>28 DEF TicketRead, Goto, StillAccount, tables, account, locals, ghosts
<1>29. ASSUME NEW r \in Requests, WriteOwnPassword(r)
      PROVE  (CarriesItsArgument /\ PlansAhead)'
  BY <1>29 DEF WriteOwnPassword, Goto, tables, locals
<1>30. ASSUME NEW r \in Requests, CurrentRead(r)
      PROVE  (CarriesItsArgument /\ PlansAhead)'
  BY <1>30 DEF CurrentRead, Goto, StillAccount, tables, account, locals, ghosts
<1>31. ASSUME NEW r \in Requests, WriteChangedPassword(r)
      PROVE  (CarriesItsArgument /\ PlansAhead)'
  BY <1>31 DEF WriteChangedPassword, Goto, StillTables, locals, tables, ghosts
<1>32. ASSUME NEW r \in Requests, SetupRead(r)
      PROVE  (CarriesItsArgument /\ PlansAhead)'
  BY <1>32, NewestIsStored DEF SetupRead, Goto, StillTables, account, tables, ghosts
<1>33. ASSUME NEW r \in Requests, DeleteTotpCredential(r)
      PROVE  (CarriesItsArgument /\ PlansAhead)'
  BY <1>33 DEF DeleteTotpCredential, Goto, StillAccount, account, locals, ghosts
<1>34. ASSUME NEW r \in Requests, CreateTotpCredential(r)
      PROVE  (CarriesItsArgument /\ PlansAhead)'
  BY <1>34 DEF CreateTotpCredential, Goto, StillAccount, account, locals, ghosts
<1>35. ASSUME NEW r \in Requests, RegenerateRead(r)
      PROVE  (CarriesItsArgument /\ PlansAhead)'
  BY <1>35 DEF RegenerateRead, Goto, StillAccount, tables, account, locals, ghosts
<1>36. ASSUME NEW r \in Requests, DeleteRecoveryCodesForUser(r)
      PROVE  (CarriesItsArgument /\ PlansAhead)'
  BY <1>36 DEF DeleteRecoveryCodesForUser, Goto, StillAccount, account, locals, ghosts
<1>37. ASSUME NEW r \in Requests, CreateRecoveryCode(r)
      PROVE  (CarriesItsArgument /\ PlansAhead)'
  BY <1>37 DEF CreateRecoveryCode, Goto, StillAccount, account, locals, ghosts
<1>38. ASSUME NEW r \in Requests, SetupVerify(r)
      PROVE  (CarriesItsArgument /\ PlansAhead)'
  BY <1>38, NewestIsStored DEF SetupVerify, Goto, StillTables, account, tables, ghosts
<1>39. ASSUME NEW r \in Requests, MarkVerified(r)
      PROVE  (CarriesItsArgument /\ PlansAhead)'
  BY <1>39 DEF MarkVerified, Goto, StillAccount, account, locals, ghosts
<1>40. ASSUME NEW r \in Requests, RequireTotp(r)
      PROVE  (CarriesItsArgument /\ PlansAhead)'
  BY <1>40 DEF RequireTotp, Goto, Disabling, tables, locals
<1>41. ASSUME NEW r \in Requests, DeleteTotpCredentialsForUser(r)
      PROVE  (CarriesItsArgument /\ PlansAhead)'
  BY <1>41 DEF DeleteTotpCredentialsForUser, Goto, StillAccount, account, locals, ghosts
<1>42. ASSUME NEW r \in Requests, RequireTotpNoMore(r)
      PROVE  (CarriesItsArgument /\ PlansAhead)'
  BY <1>42 DEF RequireTotpNoMore, Goto, StillTables, locals, tables, ghosts
<1>43. ASSUME NEW r \in Requests, Abort(r)
      PROVE  (CarriesItsArgument /\ PlansAhead)'
  BY <1>43 DEF Abort, Goto, account, tables, locals
<1>44. ASSUME NEW r \in Requests, BestEffortFails(r)
      PROVE  (CarriesItsArgument /\ PlansAhead)'
  BY <1>44 DEF BestEffortFails, Goto, BestEffort, AfterFault, Refused, Accepted, StillAccount, tables, account, locals, ghosts
<1>45. CASE UNCHANGED vars
  BY <1>45 DEF vars, account, tables, locals, ghosts
<1>46. QED
  BY <1>1, <1>2, <1>3, <1>4, <1>5, <1>6, <1>7, <1>8, <1>9, <1>10, <1>11, <1>12, <1>13, <1>14, <1>15, <1>16, <1>17, <1>18, <1>19, <1>20, <1>21, <1>22, <1>23, <1>24, <1>25, <1>26, <1>27, <1>28, <1>29, <1>30, <1>31, <1>32, <1>33, <1>34, <1>35, <1>36, <1>37, <1>38, <1>39, <1>40, <1>41, <1>42, <1>43, <1>44, <1>45
     DEF Next, Arrive, Step, Enrol

\* The count is cleared with the lock, and reaching the limit leads to a lock in
\* the future.
LEMMA LockStep ==
    ASSUME TypeOK, PlansAhead, LockIsLater, ThresholdLocks, [Next]_vars
    PROVE  (LockIsLater /\ ThresholdLocks)'
<1> USE PasswordLoginAssumption DEF TypeOK, Statuses, PCs, PlansAhead, LockIsLater, ThresholdLocks
<1>1. CASE AdminResetPassword
  BY <1>1 DEF AdminResetPassword, tables, locals
<1>2. CASE ConfirmPasswordReset
  BY <1>2 DEF ConfirmPasswordReset, tables, locals
<1>3. CASE ChangeStatus
  BY <1>3 DEF ChangeStatus, tables, locals
<1>4. CASE Tick
  BY <1>4 DEF Tick, account, tables, locals, ghosts
<1>5. ASSUME NEW r \in Requests, PasswordLogin(r)
      PROVE  (LockIsLater /\ ThresholdLocks)'
  BY <1>5 DEF PasswordLogin, Begin, Goto, Asked, account, tables
<1>6. ASSUME NEW r \in Requests, VerifyTotp(r)
      PROVE  (LockIsLater /\ ThresholdLocks)'
  BY <1>6 DEF VerifyTotp, Begin, Goto, Asked, Proofs, account, tables
<1>7. ASSUME NEW r \in Requests, CompleteRequiredPasswordChange(r)
      PROVE  (LockIsLater /\ ThresholdLocks)'
  BY <1>7 DEF CompleteRequiredPasswordChange, Begin, Goto, Asked, Proofs, account, tables
<1>8. ASSUME NEW r \in Requests, BeginTotpSetup(r)
      PROVE  (LockIsLater /\ ThresholdLocks)'
  BY <1>8 DEF BeginTotpSetup, Begin, Goto, Asked, account, tables
<1>9. ASSUME NEW r \in Requests, VerifyTotpSetup(r)
      PROVE  (LockIsLater /\ ThresholdLocks)'
  BY <1>9 DEF VerifyTotpSetup, Begin, Goto, Asked, account, tables
<1>10. ASSUME NEW r \in Requests, RegenerateRecoveryCodes(r)
      PROVE  (LockIsLater /\ ThresholdLocks)'
  BY <1>10 DEF RegenerateRecoveryCodes, Begin, Goto, Asked, account, tables
<1>11. ASSUME NEW r \in Requests, ChangePassword(r)
      PROVE  (LockIsLater /\ ThresholdLocks)'
  BY <1>11 DEF ChangePassword, Begin, Goto, Asked, account, tables
<1>12. ASSUME NEW r \in Requests, DisableTotp(r)
      PROVE  (LockIsLater /\ ThresholdLocks)'
  BY <1>12 DEF DisableTotp, Begin, Goto, account, tables
<1>13. ASSUME NEW r \in Requests, LoginRead(r)
      PROVE  (LockIsLater /\ ThresholdLocks)'
  BY <1>13 DEF LoginRead, Goto, Verdict, StillTables, account, tables, ghosts
<1>14. ASSUME NEW r \in Requests, ResetFailedLoginCount(r)
      PROVE  (LockIsLater /\ ThresholdLocks)'
  BY <1>14 DEF ResetFailedLoginCount, Goto, tables, locals
<1>15. ASSUME NEW r \in Requests, IncrementFailedLoginCount(r)
      PROVE  (LockIsLater /\ ThresholdLocks)'
  BY <1>15 DEF IncrementFailedLoginCount, Goto, StillTables, tables, ghosts
<1>16. ASSUME NEW r \in Requests, SetUserLockedUntil(r)
      PROVE  (LockIsLater /\ ThresholdLocks)'
  BY <1>16 DEF SetUserLockedUntil, Goto, tables, locals
<1>17. ASSUME NEW r \in Requests, SignTicket(r)
      PROVE  (LockIsLater /\ ThresholdLocks)'
  BY <1>17 DEF SignTicket, Goto, StillAccount, account, locals, ghosts
<1>18. ASSUME NEW r \in Requests, issueLoginChallenge(r)
      PROVE  (LockIsLater /\ ThresholdLocks)'
  BY <1>18 DEF issueLoginChallenge, Goto, StillAccount, account, locals, ghosts
<1>19. ASSUME NEW r \in Requests, Mint(r)
      PROVE  (LockIsLater /\ ThresholdLocks)'
  BY <1>19 DEF Mint, Goto, StillAccount, tables, account, locals, ghosts
<1>20. ASSUME NEW r \in Requests, ChallengeRead(r)
      PROVE  (LockIsLater /\ ThresholdLocks)'
  BY <1>20 DEF ChallengeRead, Goto, StillAccount, tables, account, locals, ghosts
<1>21. ASSUME NEW r \in Requests, DeleteLoginChallenge(r)
      PROVE  (LockIsLater /\ ThresholdLocks)'
  BY <1>21 DEF DeleteLoginChallenge, Goto, StillAccount, account, locals, ghosts
<1>22. ASSUME NEW r \in Requests, OwnerRead(r)
      PROVE  (LockIsLater /\ ThresholdLocks)'
  BY <1>22 DEF OwnerRead, Goto, StillAccount, tables, account, locals, ghosts
<1>23. ASSUME NEW r \in Requests, CredRead(r)
      PROVE  (LockIsLater /\ ThresholdLocks)'
  BY <1>23 DEF CredRead, Goto, Refused, Accepted, StillAccount, tables, account, locals, ghosts
<1>24. ASSUME NEW r \in Requests, ensureSecondFactorEnrolled(r)
      PROVE  (LockIsLater /\ ThresholdLocks)'
  BY <1>24 DEF ensureSecondFactorEnrolled, Goto, StillAccount, tables, account, locals, ghosts
<1>25. ASSUME NEW r \in Requests, FindRecoveryCode(r)
      PROVE  (LockIsLater /\ ThresholdLocks)'
  BY <1>25 DEF FindRecoveryCode, Goto, Refused, StillAccount, tables, account, locals, ghosts
<1>26. ASSUME NEW r \in Requests, UpdateRecoveryCode(r)
      PROVE  (LockIsLater /\ ThresholdLocks)'
  BY <1>26 DEF UpdateRecoveryCode, Goto, Accepted, StillAccount, account, locals, ghosts
<1>27. ASSUME NEW r \in Requests, Mint2(r)
      PROVE  (LockIsLater /\ ThresholdLocks)'
  BY <1>27 DEF Mint2, Goto, StillAccount, tables, account, locals, ghosts
<1>28. ASSUME NEW r \in Requests, TicketRead(r)
      PROVE  (LockIsLater /\ ThresholdLocks)'
  BY <1>28 DEF TicketRead, Goto, StillAccount, tables, account, locals, ghosts
<1>29. ASSUME NEW r \in Requests, WriteOwnPassword(r)
      PROVE  (LockIsLater /\ ThresholdLocks)'
  BY <1>29 DEF WriteOwnPassword, Goto, tables, locals
<1>30. ASSUME NEW r \in Requests, CurrentRead(r)
      PROVE  (LockIsLater /\ ThresholdLocks)'
  BY <1>30 DEF CurrentRead, Goto, StillAccount, tables, account, locals, ghosts
<1>31. ASSUME NEW r \in Requests, WriteChangedPassword(r)
      PROVE  (LockIsLater /\ ThresholdLocks)'
  BY <1>31 DEF WriteChangedPassword, Goto, StillTables, locals, tables, ghosts
<1>32. ASSUME NEW r \in Requests, SetupRead(r)
      PROVE  (LockIsLater /\ ThresholdLocks)'
  BY <1>32 DEF SetupRead, Goto, StillTables, account, tables, ghosts
<1>33. ASSUME NEW r \in Requests, DeleteTotpCredential(r)
      PROVE  (LockIsLater /\ ThresholdLocks)'
  BY <1>33 DEF DeleteTotpCredential, Goto, StillAccount, account, locals, ghosts
<1>34. ASSUME NEW r \in Requests, CreateTotpCredential(r)
      PROVE  (LockIsLater /\ ThresholdLocks)'
  BY <1>34 DEF CreateTotpCredential, Goto, StillAccount, account, locals, ghosts
<1>35. ASSUME NEW r \in Requests, RegenerateRead(r)
      PROVE  (LockIsLater /\ ThresholdLocks)'
  BY <1>35 DEF RegenerateRead, Goto, StillAccount, tables, account, locals, ghosts
<1>36. ASSUME NEW r \in Requests, DeleteRecoveryCodesForUser(r)
      PROVE  (LockIsLater /\ ThresholdLocks)'
  BY <1>36 DEF DeleteRecoveryCodesForUser, Goto, StillAccount, account, locals, ghosts
<1>37. ASSUME NEW r \in Requests, CreateRecoveryCode(r)
      PROVE  (LockIsLater /\ ThresholdLocks)'
  BY <1>37 DEF CreateRecoveryCode, Goto, StillAccount, account, locals, ghosts
<1>38. ASSUME NEW r \in Requests, SetupVerify(r)
      PROVE  (LockIsLater /\ ThresholdLocks)'
  BY <1>38 DEF SetupVerify, Goto, StillTables, account, tables, ghosts
<1>39. ASSUME NEW r \in Requests, MarkVerified(r)
      PROVE  (LockIsLater /\ ThresholdLocks)'
  BY <1>39 DEF MarkVerified, Goto, StillAccount, account, locals, ghosts
<1>40. ASSUME NEW r \in Requests, RequireTotp(r)
      PROVE  (LockIsLater /\ ThresholdLocks)'
  BY <1>40 DEF RequireTotp, Goto, Disabling, tables, locals
<1>41. ASSUME NEW r \in Requests, DeleteTotpCredentialsForUser(r)
      PROVE  (LockIsLater /\ ThresholdLocks)'
  BY <1>41 DEF DeleteTotpCredentialsForUser, Goto, StillAccount, account, locals, ghosts
<1>42. ASSUME NEW r \in Requests, RequireTotpNoMore(r)
      PROVE  (LockIsLater /\ ThresholdLocks)'
  BY <1>42 DEF RequireTotpNoMore, Goto, StillTables, locals, tables, ghosts
<1>43. ASSUME NEW r \in Requests, Abort(r)
      PROVE  (LockIsLater /\ ThresholdLocks)'
  BY <1>43 DEF Abort, Goto, account, tables, locals
<1>44. ASSUME NEW r \in Requests, BestEffortFails(r)
      PROVE  (LockIsLater /\ ThresholdLocks)'
  BY <1>44 DEF BestEffortFails, Goto, BestEffort, AfterFault, Refused, Accepted, StillAccount, tables, account, locals, ghosts
<1>45. CASE UNCHANGED vars
  BY <1>45 DEF vars, account, tables, locals, ghosts
<1>46. QED
  BY <1>1, <1>2, <1>3, <1>4, <1>5, <1>6, <1>7, <1>8, <1>9, <1>10, <1>11, <1>12, <1>13, <1>14, <1>15, <1>16, <1>17, <1>18, <1>19, <1>20, <1>21, <1>22, <1>23, <1>24, <1>25, <1>26, <1>27, <1>28, <1>29, <1>30, <1>31, <1>32, <1>33, <1>34, <1>35, <1>36, <1>37, <1>38, <1>39, <1>40, <1>41, <1>42, <1>43, <1>44, <1>45
     DEF Next, Arrive, Step, Enrol

\* A new password is numbered past every earlier one, issuing marks the account,
\* and LoginRead judges the password and the mark on one copy.
LEMMA IssuedStep ==
    ASSUME TypeOK, PlansAhead, KnownPasswords, IssuedIsMarked, IssuedGoesNowhere, [Next]_vars
    PROVE  (KnownPasswords /\ IssuedIsMarked /\ IssuedGoesNowhere)'
<1> USE PasswordLoginAssumption DEF TypeOK, Statuses, PCs, PlansAhead, KnownPasswords, IssuedIsMarked, IssuedGoesNowhere
<1>1. CASE AdminResetPassword
  BY <1>1 DEF AdminResetPassword, tables, locals
<1>2. CASE ConfirmPasswordReset
  BY <1>2 DEF ConfirmPasswordReset, tables, locals
<1>3. CASE ChangeStatus
  BY <1>3 DEF ChangeStatus, tables, locals
<1>4. CASE Tick
  BY <1>4 DEF Tick, account, tables, locals, ghosts
<1>5. ASSUME NEW r \in Requests, PasswordLogin(r)
      PROVE  (KnownPasswords /\ IssuedIsMarked /\ IssuedGoesNowhere)'
  BY <1>5 DEF PasswordLogin, Begin, Goto, Asked, account, tables
<1>6. ASSUME NEW r \in Requests, VerifyTotp(r)
      PROVE  (KnownPasswords /\ IssuedIsMarked /\ IssuedGoesNowhere)'
  BY <1>6 DEF VerifyTotp, Begin, Goto, Asked, Proofs, account, tables
<1>7. ASSUME NEW r \in Requests, CompleteRequiredPasswordChange(r)
      PROVE  (KnownPasswords /\ IssuedIsMarked /\ IssuedGoesNowhere)'
  BY <1>7 DEF CompleteRequiredPasswordChange, Begin, Goto, Asked, Proofs, account, tables
<1>8. ASSUME NEW r \in Requests, BeginTotpSetup(r)
      PROVE  (KnownPasswords /\ IssuedIsMarked /\ IssuedGoesNowhere)'
  BY <1>8 DEF BeginTotpSetup, Begin, Goto, Asked, account, tables
<1>9. ASSUME NEW r \in Requests, VerifyTotpSetup(r)
      PROVE  (KnownPasswords /\ IssuedIsMarked /\ IssuedGoesNowhere)'
  BY <1>9 DEF VerifyTotpSetup, Begin, Goto, Asked, account, tables
<1>10. ASSUME NEW r \in Requests, RegenerateRecoveryCodes(r)
      PROVE  (KnownPasswords /\ IssuedIsMarked /\ IssuedGoesNowhere)'
  BY <1>10 DEF RegenerateRecoveryCodes, Begin, Goto, Asked, account, tables
<1>11. ASSUME NEW r \in Requests, ChangePassword(r)
      PROVE  (KnownPasswords /\ IssuedIsMarked /\ IssuedGoesNowhere)'
  BY <1>11 DEF ChangePassword, Begin, Goto, Asked, account, tables
<1>12. ASSUME NEW r \in Requests, DisableTotp(r)
      PROVE  (KnownPasswords /\ IssuedIsMarked /\ IssuedGoesNowhere)'
  BY <1>12 DEF DisableTotp, Begin, Goto, account, tables
<1>13. ASSUME NEW r \in Requests, LoginRead(r)
      PROVE  (KnownPasswords /\ IssuedIsMarked /\ IssuedGoesNowhere)'
  BY <1>13 DEF LoginRead, Goto, Verdict, StillTables, account, tables, ghosts
<1>14. ASSUME NEW r \in Requests, ResetFailedLoginCount(r)
      PROVE  (KnownPasswords /\ IssuedIsMarked /\ IssuedGoesNowhere)'
  BY <1>14 DEF ResetFailedLoginCount, Goto, tables, locals
<1>15. ASSUME NEW r \in Requests, IncrementFailedLoginCount(r)
      PROVE  (KnownPasswords /\ IssuedIsMarked /\ IssuedGoesNowhere)'
  BY <1>15 DEF IncrementFailedLoginCount, Goto, StillTables, tables, ghosts
<1>16. ASSUME NEW r \in Requests, SetUserLockedUntil(r)
      PROVE  (KnownPasswords /\ IssuedIsMarked /\ IssuedGoesNowhere)'
  BY <1>16 DEF SetUserLockedUntil, Goto, tables, locals
<1>17. ASSUME NEW r \in Requests, SignTicket(r)
      PROVE  (KnownPasswords /\ IssuedIsMarked /\ IssuedGoesNowhere)'
  BY <1>17 DEF SignTicket, Goto, StillAccount, account, locals, ghosts
<1>18. ASSUME NEW r \in Requests, issueLoginChallenge(r)
      PROVE  (KnownPasswords /\ IssuedIsMarked /\ IssuedGoesNowhere)'
  BY <1>18 DEF issueLoginChallenge, Goto, StillAccount, account, locals, ghosts
<1>19. ASSUME NEW r \in Requests, Mint(r)
      PROVE  (KnownPasswords /\ IssuedIsMarked /\ IssuedGoesNowhere)'
  BY <1>19 DEF Mint, Goto, StillAccount, tables, account, locals, ghosts
<1>20. ASSUME NEW r \in Requests, ChallengeRead(r)
      PROVE  (KnownPasswords /\ IssuedIsMarked /\ IssuedGoesNowhere)'
  BY <1>20 DEF ChallengeRead, Goto, StillAccount, tables, account, locals, ghosts
<1>21. ASSUME NEW r \in Requests, DeleteLoginChallenge(r)
      PROVE  (KnownPasswords /\ IssuedIsMarked /\ IssuedGoesNowhere)'
  BY <1>21 DEF DeleteLoginChallenge, Goto, StillAccount, account, locals, ghosts
<1>22. ASSUME NEW r \in Requests, OwnerRead(r)
      PROVE  (KnownPasswords /\ IssuedIsMarked /\ IssuedGoesNowhere)'
  BY <1>22 DEF OwnerRead, Goto, StillAccount, tables, account, locals, ghosts
<1>23. ASSUME NEW r \in Requests, CredRead(r)
      PROVE  (KnownPasswords /\ IssuedIsMarked /\ IssuedGoesNowhere)'
  BY <1>23 DEF CredRead, Goto, Refused, Accepted, StillAccount, tables, account, locals, ghosts
<1>24. ASSUME NEW r \in Requests, ensureSecondFactorEnrolled(r)
      PROVE  (KnownPasswords /\ IssuedIsMarked /\ IssuedGoesNowhere)'
  BY <1>24 DEF ensureSecondFactorEnrolled, Goto, StillAccount, tables, account, locals, ghosts
<1>25. ASSUME NEW r \in Requests, FindRecoveryCode(r)
      PROVE  (KnownPasswords /\ IssuedIsMarked /\ IssuedGoesNowhere)'
  BY <1>25 DEF FindRecoveryCode, Goto, Refused, StillAccount, tables, account, locals, ghosts
<1>26. ASSUME NEW r \in Requests, UpdateRecoveryCode(r)
      PROVE  (KnownPasswords /\ IssuedIsMarked /\ IssuedGoesNowhere)'
  BY <1>26 DEF UpdateRecoveryCode, Goto, Accepted, StillAccount, account, locals, ghosts
<1>27. ASSUME NEW r \in Requests, Mint2(r)
      PROVE  (KnownPasswords /\ IssuedIsMarked /\ IssuedGoesNowhere)'
  BY <1>27 DEF Mint2, Goto, StillAccount, tables, account, locals, ghosts
<1>28. ASSUME NEW r \in Requests, TicketRead(r)
      PROVE  (KnownPasswords /\ IssuedIsMarked /\ IssuedGoesNowhere)'
  BY <1>28 DEF TicketRead, Goto, StillAccount, tables, account, locals, ghosts
<1>29. ASSUME NEW r \in Requests, WriteOwnPassword(r)
      PROVE  (KnownPasswords /\ IssuedIsMarked /\ IssuedGoesNowhere)'
  BY <1>29 DEF WriteOwnPassword, Goto, tables, locals
<1>30. ASSUME NEW r \in Requests, CurrentRead(r)
      PROVE  (KnownPasswords /\ IssuedIsMarked /\ IssuedGoesNowhere)'
  BY <1>30 DEF CurrentRead, Goto, StillAccount, tables, account, locals, ghosts
<1>31. ASSUME NEW r \in Requests, WriteChangedPassword(r)
      PROVE  (KnownPasswords /\ IssuedIsMarked /\ IssuedGoesNowhere)'
  BY <1>31 DEF WriteChangedPassword, Goto, StillTables, locals, tables, ghosts
<1>32. ASSUME NEW r \in Requests, SetupRead(r)
      PROVE  (KnownPasswords /\ IssuedIsMarked /\ IssuedGoesNowhere)'
  BY <1>32 DEF SetupRead, Goto, StillTables, account, tables, ghosts
<1>33. ASSUME NEW r \in Requests, DeleteTotpCredential(r)
      PROVE  (KnownPasswords /\ IssuedIsMarked /\ IssuedGoesNowhere)'
  BY <1>33 DEF DeleteTotpCredential, Goto, StillAccount, account, locals, ghosts
<1>34. ASSUME NEW r \in Requests, CreateTotpCredential(r)
      PROVE  (KnownPasswords /\ IssuedIsMarked /\ IssuedGoesNowhere)'
  BY <1>34 DEF CreateTotpCredential, Goto, StillAccount, account, locals, ghosts
<1>35. ASSUME NEW r \in Requests, RegenerateRead(r)
      PROVE  (KnownPasswords /\ IssuedIsMarked /\ IssuedGoesNowhere)'
  BY <1>35 DEF RegenerateRead, Goto, StillAccount, tables, account, locals, ghosts
<1>36. ASSUME NEW r \in Requests, DeleteRecoveryCodesForUser(r)
      PROVE  (KnownPasswords /\ IssuedIsMarked /\ IssuedGoesNowhere)'
  BY <1>36 DEF DeleteRecoveryCodesForUser, Goto, StillAccount, account, locals, ghosts
<1>37. ASSUME NEW r \in Requests, CreateRecoveryCode(r)
      PROVE  (KnownPasswords /\ IssuedIsMarked /\ IssuedGoesNowhere)'
  BY <1>37 DEF CreateRecoveryCode, Goto, StillAccount, account, locals, ghosts
<1>38. ASSUME NEW r \in Requests, SetupVerify(r)
      PROVE  (KnownPasswords /\ IssuedIsMarked /\ IssuedGoesNowhere)'
  BY <1>38 DEF SetupVerify, Goto, StillTables, account, tables, ghosts
<1>39. ASSUME NEW r \in Requests, MarkVerified(r)
      PROVE  (KnownPasswords /\ IssuedIsMarked /\ IssuedGoesNowhere)'
  BY <1>39 DEF MarkVerified, Goto, StillAccount, account, locals, ghosts
<1>40. ASSUME NEW r \in Requests, RequireTotp(r)
      PROVE  (KnownPasswords /\ IssuedIsMarked /\ IssuedGoesNowhere)'
  BY <1>40 DEF RequireTotp, Goto, Disabling, tables, locals
<1>41. ASSUME NEW r \in Requests, DeleteTotpCredentialsForUser(r)
      PROVE  (KnownPasswords /\ IssuedIsMarked /\ IssuedGoesNowhere)'
  BY <1>41 DEF DeleteTotpCredentialsForUser, Goto, StillAccount, account, locals, ghosts
<1>42. ASSUME NEW r \in Requests, RequireTotpNoMore(r)
      PROVE  (KnownPasswords /\ IssuedIsMarked /\ IssuedGoesNowhere)'
  BY <1>42 DEF RequireTotpNoMore, Goto, StillTables, locals, tables, ghosts
<1>43. ASSUME NEW r \in Requests, Abort(r)
      PROVE  (KnownPasswords /\ IssuedIsMarked /\ IssuedGoesNowhere)'
  BY <1>43 DEF Abort, Goto, account, tables, locals
<1>44. ASSUME NEW r \in Requests, BestEffortFails(r)
      PROVE  (KnownPasswords /\ IssuedIsMarked /\ IssuedGoesNowhere)'
  BY <1>44 DEF BestEffortFails, Goto, BestEffort, AfterFault, Refused, Accepted, StillAccount, tables, account, locals, ghosts
<1>45. CASE UNCHANGED vars
  BY <1>45 DEF vars, account, tables, locals, ghosts
<1>46. QED
  BY <1>1, <1>2, <1>3, <1>4, <1>5, <1>6, <1>7, <1>8, <1>9, <1>10, <1>11, <1>12, <1>13, <1>14, <1>15, <1>16, <1>17, <1>18, <1>19, <1>20, <1>21, <1>22, <1>23, <1>24, <1>25, <1>26, <1>27, <1>28, <1>29, <1>30, <1>31, <1>32, <1>33, <1>34, <1>35, <1>36, <1>37, <1>38, <1>39, <1>40, <1>41, <1>42, <1>43, <1>44, <1>45
     DEF Next, Arrive, Step, Enrol

\* Disabling ends the history of enrolment before it lowers the flag.
LEMMA SecuredStep ==
    ASSUME TypeOK, PlansAhead, SecuredAsks, [Next]_vars
    PROVE  SecuredAsks'
<1> USE PasswordLoginAssumption DEF TypeOK, Statuses, PCs, PlansAhead, SecuredAsks, Disabling
<1>1. CASE AdminResetPassword
  BY <1>1 DEF AdminResetPassword, tables, locals
<1>2. CASE ConfirmPasswordReset
  BY <1>2 DEF ConfirmPasswordReset, tables, locals
<1>3. CASE ChangeStatus
  BY <1>3 DEF ChangeStatus, tables, locals
<1>4. CASE Tick
  BY <1>4 DEF Tick, account, tables, locals, ghosts
<1>5. ASSUME NEW r \in Requests, PasswordLogin(r)
      PROVE  SecuredAsks'
  BY <1>5 DEF PasswordLogin, Begin, Goto, Asked, account, tables
<1>6. ASSUME NEW r \in Requests, VerifyTotp(r)
      PROVE  SecuredAsks'
  BY <1>6 DEF VerifyTotp, Begin, Goto, Asked, Proofs, account, tables
<1>7. ASSUME NEW r \in Requests, CompleteRequiredPasswordChange(r)
      PROVE  SecuredAsks'
  BY <1>7 DEF CompleteRequiredPasswordChange, Begin, Goto, Asked, Proofs, account, tables
<1>8. ASSUME NEW r \in Requests, BeginTotpSetup(r)
      PROVE  SecuredAsks'
  BY <1>8 DEF BeginTotpSetup, Begin, Goto, Asked, account, tables
<1>9. ASSUME NEW r \in Requests, VerifyTotpSetup(r)
      PROVE  SecuredAsks'
  BY <1>9 DEF VerifyTotpSetup, Begin, Goto, Asked, account, tables
<1>10. ASSUME NEW r \in Requests, RegenerateRecoveryCodes(r)
      PROVE  SecuredAsks'
  BY <1>10 DEF RegenerateRecoveryCodes, Begin, Goto, Asked, account, tables
<1>11. ASSUME NEW r \in Requests, ChangePassword(r)
      PROVE  SecuredAsks'
  BY <1>11 DEF ChangePassword, Begin, Goto, Asked, account, tables
<1>12. ASSUME NEW r \in Requests, DisableTotp(r)
      PROVE  SecuredAsks'
  BY <1>12 DEF DisableTotp, Begin, Goto, account, tables
<1>13. ASSUME NEW r \in Requests, LoginRead(r)
      PROVE  SecuredAsks'
  BY <1>13 DEF LoginRead, Goto, Verdict, StillTables, account, tables, ghosts
<1>14. ASSUME NEW r \in Requests, ResetFailedLoginCount(r)
      PROVE  SecuredAsks'
  BY <1>14 DEF ResetFailedLoginCount, Goto, tables, locals
<1>15. ASSUME NEW r \in Requests, IncrementFailedLoginCount(r)
      PROVE  SecuredAsks'
  BY <1>15 DEF IncrementFailedLoginCount, Goto, StillTables, tables, ghosts
<1>16. ASSUME NEW r \in Requests, SetUserLockedUntil(r)
      PROVE  SecuredAsks'
  BY <1>16 DEF SetUserLockedUntil, Goto, tables, locals
<1>17. ASSUME NEW r \in Requests, SignTicket(r)
      PROVE  SecuredAsks'
  BY <1>17 DEF SignTicket, Goto, StillAccount, account, locals, ghosts
<1>18. ASSUME NEW r \in Requests, issueLoginChallenge(r)
      PROVE  SecuredAsks'
  BY <1>18 DEF issueLoginChallenge, Goto, StillAccount, account, locals, ghosts
<1>19. ASSUME NEW r \in Requests, Mint(r)
      PROVE  SecuredAsks'
  BY <1>19 DEF Mint, Goto, StillAccount, tables, account, locals, ghosts
<1>20. ASSUME NEW r \in Requests, ChallengeRead(r)
      PROVE  SecuredAsks'
  BY <1>20 DEF ChallengeRead, Goto, StillAccount, tables, account, locals, ghosts
<1>21. ASSUME NEW r \in Requests, DeleteLoginChallenge(r)
      PROVE  SecuredAsks'
  BY <1>21 DEF DeleteLoginChallenge, Goto, StillAccount, account, locals, ghosts
<1>22. ASSUME NEW r \in Requests, OwnerRead(r)
      PROVE  SecuredAsks'
  BY <1>22 DEF OwnerRead, Goto, StillAccount, tables, account, locals, ghosts
<1>23. ASSUME NEW r \in Requests, CredRead(r)
      PROVE  SecuredAsks'
  BY <1>23 DEF CredRead, Goto, Refused, Accepted, StillAccount, tables, account, locals, ghosts
<1>24. ASSUME NEW r \in Requests, ensureSecondFactorEnrolled(r)
      PROVE  SecuredAsks'
  BY <1>24 DEF ensureSecondFactorEnrolled, Goto, StillAccount, tables, account, locals, ghosts
<1>25. ASSUME NEW r \in Requests, FindRecoveryCode(r)
      PROVE  SecuredAsks'
  BY <1>25 DEF FindRecoveryCode, Goto, Refused, StillAccount, tables, account, locals, ghosts
<1>26. ASSUME NEW r \in Requests, UpdateRecoveryCode(r)
      PROVE  SecuredAsks'
  BY <1>26 DEF UpdateRecoveryCode, Goto, Accepted, StillAccount, account, locals, ghosts
<1>27. ASSUME NEW r \in Requests, Mint2(r)
      PROVE  SecuredAsks'
  BY <1>27 DEF Mint2, Goto, StillAccount, tables, account, locals, ghosts
<1>28. ASSUME NEW r \in Requests, TicketRead(r)
      PROVE  SecuredAsks'
  BY <1>28 DEF TicketRead, Goto, StillAccount, tables, account, locals, ghosts
<1>29. ASSUME NEW r \in Requests, WriteOwnPassword(r)
      PROVE  SecuredAsks'
  BY <1>29 DEF WriteOwnPassword, Goto, tables, locals
<1>30. ASSUME NEW r \in Requests, CurrentRead(r)
      PROVE  SecuredAsks'
  BY <1>30 DEF CurrentRead, Goto, StillAccount, tables, account, locals, ghosts
<1>31. ASSUME NEW r \in Requests, WriteChangedPassword(r)
      PROVE  SecuredAsks'
  BY <1>31 DEF WriteChangedPassword, Goto, StillTables, locals, tables, ghosts
<1>32. ASSUME NEW r \in Requests, SetupRead(r)
      PROVE  SecuredAsks'
  BY <1>32 DEF SetupRead, Goto, StillTables, account, tables, ghosts
<1>33. ASSUME NEW r \in Requests, DeleteTotpCredential(r)
      PROVE  SecuredAsks'
  BY <1>33 DEF DeleteTotpCredential, Goto, StillAccount, account, locals, ghosts
<1>34. ASSUME NEW r \in Requests, CreateTotpCredential(r)
      PROVE  SecuredAsks'
  BY <1>34 DEF CreateTotpCredential, Goto, StillAccount, account, locals, ghosts
<1>35. ASSUME NEW r \in Requests, RegenerateRead(r)
      PROVE  SecuredAsks'
  BY <1>35 DEF RegenerateRead, Goto, StillAccount, tables, account, locals, ghosts
<1>36. ASSUME NEW r \in Requests, DeleteRecoveryCodesForUser(r)
      PROVE  SecuredAsks'
  BY <1>36 DEF DeleteRecoveryCodesForUser, Goto, StillAccount, account, locals, ghosts
<1>37. ASSUME NEW r \in Requests, CreateRecoveryCode(r)
      PROVE  SecuredAsks'
  BY <1>37 DEF CreateRecoveryCode, Goto, StillAccount, account, locals, ghosts
<1>38. ASSUME NEW r \in Requests, SetupVerify(r)
      PROVE  SecuredAsks'
  BY <1>38 DEF SetupVerify, Goto, StillTables, account, tables, ghosts
<1>39. ASSUME NEW r \in Requests, MarkVerified(r)
      PROVE  SecuredAsks'
  BY <1>39 DEF MarkVerified, Goto, StillAccount, account, locals, ghosts
<1>40. ASSUME NEW r \in Requests, RequireTotp(r)
      PROVE  SecuredAsks'
  BY <1>40 DEF RequireTotp, Goto, tables, locals
<1>41. ASSUME NEW r \in Requests, DeleteTotpCredentialsForUser(r)
      PROVE  SecuredAsks'
  BY <1>41 DEF DeleteTotpCredentialsForUser, Goto, StillAccount, account, locals, ghosts
<1>42. ASSUME NEW r \in Requests, RequireTotpNoMore(r)
      PROVE  SecuredAsks'
  BY <1>42 DEF RequireTotpNoMore, Goto, StillTables, locals, tables, ghosts
<1>43. ASSUME NEW r \in Requests, Abort(r)
      PROVE  SecuredAsks'
  BY <1>43 DEF Abort, Goto, account, tables, locals
<1>44. ASSUME NEW r \in Requests, BestEffortFails(r)
      PROVE  SecuredAsks'
  BY <1>44 DEF BestEffortFails, Goto, BestEffort, AfterFault, Refused, Accepted, StillAccount, tables, account, locals, ghosts
<1>45. CASE UNCHANGED vars
  BY <1>45 DEF vars, account, tables, locals, ghosts
<1>46. QED
  BY <1>1, <1>2, <1>3, <1>4, <1>5, <1>6, <1>7, <1>8, <1>9, <1>10, <1>11, <1>12, <1>13, <1>14, <1>15, <1>16, <1>17, <1>18, <1>19, <1>20, <1>21, <1>22, <1>23, <1>24, <1>25, <1>26, <1>27, <1>28, <1>29, <1>30, <1>31, <1>32, <1>33, <1>34, <1>35, <1>36, <1>37, <1>38, <1>39, <1>40, <1>41, <1>42, <1>43, <1>44, <1>45
     DEF Next, Arrive, Step, Enrol

\* LoginRead and TicketRead see the flag of an enrolled account.
LEMMA OwesStep ==
    ASSUME TypeOK, PlansAhead, CarriesItsArgument, SecuredAsks, OwesSecondFactor, [Next]_vars
    PROVE  OwesSecondFactor'
<1> USE PasswordLoginAssumption, PolicyStays DEF TypeOK, Statuses, PCs, PlansAhead, CarriesItsArgument, SecuredAsks, OwesSecondFactor
<1>1. CASE AdminResetPassword
  BY <1>1 DEF AdminResetPassword, tables, locals
<1>2. CASE ConfirmPasswordReset
  BY <1>2 DEF ConfirmPasswordReset, tables, locals
<1>3. CASE ChangeStatus
  BY <1>3 DEF ChangeStatus, tables, locals
<1>4. CASE Tick
  BY <1>4 DEF Tick, account, tables, locals, ghosts
<1>5. ASSUME NEW r \in Requests, PasswordLogin(r)
      PROVE  OwesSecondFactor'
  BY <1>5 DEF PasswordLogin, Begin, Goto, Asked, account, tables
<1>6. ASSUME NEW r \in Requests, VerifyTotp(r)
      PROVE  OwesSecondFactor'
  BY <1>6 DEF VerifyTotp, Begin, Goto, Asked, Proofs, account, tables
<1>7. ASSUME NEW r \in Requests, CompleteRequiredPasswordChange(r)
      PROVE  OwesSecondFactor'
  BY <1>7 DEF CompleteRequiredPasswordChange, Begin, Goto, Asked, Proofs, account, tables
<1>8. ASSUME NEW r \in Requests, BeginTotpSetup(r)
      PROVE  OwesSecondFactor'
  BY <1>8 DEF BeginTotpSetup, Begin, Goto, Asked, account, tables
<1>9. ASSUME NEW r \in Requests, VerifyTotpSetup(r)
      PROVE  OwesSecondFactor'
  BY <1>9 DEF VerifyTotpSetup, Begin, Goto, Asked, account, tables
<1>10. ASSUME NEW r \in Requests, RegenerateRecoveryCodes(r)
      PROVE  OwesSecondFactor'
  BY <1>10 DEF RegenerateRecoveryCodes, Begin, Goto, Asked, account, tables
<1>11. ASSUME NEW r \in Requests, ChangePassword(r)
      PROVE  OwesSecondFactor'
  BY <1>11 DEF ChangePassword, Begin, Goto, Asked, account, tables
<1>12. ASSUME NEW r \in Requests, DisableTotp(r)
      PROVE  OwesSecondFactor'
  BY <1>12 DEF DisableTotp, Begin, Goto, account, tables
<1>13. ASSUME NEW r \in Requests, LoginRead(r)
      PROVE  OwesSecondFactor'
  BY <1>13 DEF LoginRead, Goto, Verdict, StillTables, account, tables, ghosts
<1>14. ASSUME NEW r \in Requests, ResetFailedLoginCount(r)
      PROVE  OwesSecondFactor'
  BY <1>14 DEF ResetFailedLoginCount, Goto, tables, locals
<1>15. ASSUME NEW r \in Requests, IncrementFailedLoginCount(r)
      PROVE  OwesSecondFactor'
  BY <1>15 DEF IncrementFailedLoginCount, Goto, StillTables, tables, ghosts
<1>16. ASSUME NEW r \in Requests, SetUserLockedUntil(r)
      PROVE  OwesSecondFactor'
  BY <1>16 DEF SetUserLockedUntil, Goto, tables, locals
<1>17. ASSUME NEW r \in Requests, SignTicket(r)
      PROVE  OwesSecondFactor'
  BY <1>17 DEF SignTicket, Goto, StillAccount, account, locals, ghosts
<1>18. ASSUME NEW r \in Requests, issueLoginChallenge(r)
      PROVE  OwesSecondFactor'
  BY <1>18 DEF issueLoginChallenge, Goto, StillAccount, account, locals, ghosts
<1>19. ASSUME NEW r \in Requests, Mint(r)
      PROVE  OwesSecondFactor'
  BY <1>19 DEF Mint, Goto, StillAccount, tables, account, locals, ghosts
<1>20. ASSUME NEW r \in Requests, ChallengeRead(r)
      PROVE  OwesSecondFactor'
  BY <1>20 DEF ChallengeRead, Goto, StillAccount, tables, account, locals, ghosts
<1>21. ASSUME NEW r \in Requests, DeleteLoginChallenge(r)
      PROVE  OwesSecondFactor'
  BY <1>21 DEF DeleteLoginChallenge, Goto, StillAccount, account, locals, ghosts
<1>22. ASSUME NEW r \in Requests, OwnerRead(r)
      PROVE  OwesSecondFactor'
  BY <1>22 DEF OwnerRead, Goto, StillAccount, tables, account, locals, ghosts
<1>23. ASSUME NEW r \in Requests, CredRead(r)
      PROVE  OwesSecondFactor'
  BY <1>23 DEF CredRead, Goto, Refused, Accepted, StillAccount, tables, account, locals, ghosts
<1>24. ASSUME NEW r \in Requests, ensureSecondFactorEnrolled(r)
      PROVE  OwesSecondFactor'
  BY <1>24 DEF ensureSecondFactorEnrolled, Goto, StillAccount, tables, account, locals, ghosts
<1>25. ASSUME NEW r \in Requests, FindRecoveryCode(r)
      PROVE  OwesSecondFactor'
  BY <1>25 DEF FindRecoveryCode, Goto, Refused, StillAccount, tables, account, locals, ghosts
<1>26. ASSUME NEW r \in Requests, UpdateRecoveryCode(r)
      PROVE  OwesSecondFactor'
  BY <1>26 DEF UpdateRecoveryCode, Goto, Accepted, StillAccount, account, locals, ghosts
<1>27. ASSUME NEW r \in Requests, Mint2(r)
      PROVE  OwesSecondFactor'
  BY <1>27 DEF Mint2, Goto, StillAccount, tables, account, locals, ghosts
<1>28. ASSUME NEW r \in Requests, TicketRead(r)
      PROVE  OwesSecondFactor'
  BY <1>28 DEF TicketRead, Goto, StillAccount, tables, account, locals, ghosts
<1>29. ASSUME NEW r \in Requests, WriteOwnPassword(r)
      PROVE  OwesSecondFactor'
  BY <1>29 DEF WriteOwnPassword, Goto, tables, locals
<1>30. ASSUME NEW r \in Requests, CurrentRead(r)
      PROVE  OwesSecondFactor'
  BY <1>30 DEF CurrentRead, Goto, StillAccount, tables, account, locals, ghosts
<1>31. ASSUME NEW r \in Requests, WriteChangedPassword(r)
      PROVE  OwesSecondFactor'
  BY <1>31 DEF WriteChangedPassword, Goto, StillTables, locals, tables, ghosts
<1>32. ASSUME NEW r \in Requests, SetupRead(r)
      PROVE  OwesSecondFactor'
  BY <1>32 DEF SetupRead, Goto, StillTables, account, tables, ghosts
<1>33. ASSUME NEW r \in Requests, DeleteTotpCredential(r)
      PROVE  OwesSecondFactor'
  BY <1>33 DEF DeleteTotpCredential, Goto, StillAccount, account, locals, ghosts
<1>34. ASSUME NEW r \in Requests, CreateTotpCredential(r)
      PROVE  OwesSecondFactor'
  BY <1>34 DEF CreateTotpCredential, Goto, StillAccount, account, locals, ghosts
<1>35. ASSUME NEW r \in Requests, RegenerateRead(r)
      PROVE  OwesSecondFactor'
  BY <1>35 DEF RegenerateRead, Goto, StillAccount, tables, account, locals, ghosts
<1>36. ASSUME NEW r \in Requests, DeleteRecoveryCodesForUser(r)
      PROVE  OwesSecondFactor'
  BY <1>36 DEF DeleteRecoveryCodesForUser, Goto, StillAccount, account, locals, ghosts
<1>37. ASSUME NEW r \in Requests, CreateRecoveryCode(r)
      PROVE  OwesSecondFactor'
  BY <1>37 DEF CreateRecoveryCode, Goto, StillAccount, account, locals, ghosts
<1>38. ASSUME NEW r \in Requests, SetupVerify(r)
      PROVE  OwesSecondFactor'
  BY <1>38 DEF SetupVerify, Goto, StillTables, account, tables, ghosts
<1>39. ASSUME NEW r \in Requests, MarkVerified(r)
      PROVE  OwesSecondFactor'
  BY <1>39 DEF MarkVerified, Goto, StillAccount, account, locals, ghosts
<1>40. ASSUME NEW r \in Requests, RequireTotp(r)
      PROVE  OwesSecondFactor'
  BY <1>40 DEF RequireTotp, Goto, Disabling, tables, locals
<1>41. ASSUME NEW r \in Requests, DeleteTotpCredentialsForUser(r)
      PROVE  OwesSecondFactor'
  BY <1>41 DEF DeleteTotpCredentialsForUser, Goto, StillAccount, account, locals, ghosts
<1>42. ASSUME NEW r \in Requests, RequireTotpNoMore(r)
      PROVE  OwesSecondFactor'
  BY <1>42 DEF RequireTotpNoMore, Goto, StillTables, locals, tables, ghosts
<1>43. ASSUME NEW r \in Requests, Abort(r)
      PROVE  OwesSecondFactor'
  BY <1>43 DEF Abort, Goto, account, tables, locals
<1>44. ASSUME NEW r \in Requests, BestEffortFails(r)
      PROVE  OwesSecondFactor'
  BY <1>44 DEF BestEffortFails, Goto, BestEffort, AfterFault, Refused, Accepted, StillAccount, tables, account, locals, ghosts
<1>45. CASE UNCHANGED vars
  BY <1>45 DEF vars, account, tables, locals, ghosts
<1>46. QED
  BY <1>1, <1>2, <1>3, <1>4, <1>5, <1>6, <1>7, <1>8, <1>9, <1>10, <1>11, <1>12, <1>13, <1>14, <1>15, <1>16, <1>17, <1>18, <1>19, <1>20, <1>21, <1>22, <1>23, <1>24, <1>25, <1>26, <1>27, <1>28, <1>29, <1>30, <1>31, <1>32, <1>33, <1>34, <1>35, <1>36, <1>37, <1>38, <1>39, <1>40, <1>41, <1>42, <1>43, <1>44, <1>45
     DEF Next, Arrive, Step, Enrol

\* LoginRead, TicketRead and CurrentRead compare the password with the one in force,
\* which is no older than the one the request began under.
LEMMA InForceStep ==
    ASSUME TypeOK, PlansAhead, CarriesItsArgument, KnownPasswords, ReplacedGoesNowhere, [Next]_vars
    PROVE  ReplacedGoesNowhere'
<1> USE PasswordLoginAssumption DEF TypeOK, Statuses, PCs, PlansAhead, CarriesItsArgument, KnownPasswords, ReplacedGoesNowhere
<1>1. CASE AdminResetPassword
  BY <1>1 DEF AdminResetPassword, tables, locals
<1>2. CASE ConfirmPasswordReset
  BY <1>2 DEF ConfirmPasswordReset, tables, locals
<1>3. CASE ChangeStatus
  BY <1>3 DEF ChangeStatus, tables, locals
<1>4. CASE Tick
  BY <1>4 DEF Tick, account, tables, locals, ghosts
<1>5. ASSUME NEW r \in Requests, PasswordLogin(r)
      PROVE  ReplacedGoesNowhere'
  BY <1>5 DEF PasswordLogin, Begin, Goto, Asked, account, tables
<1>6. ASSUME NEW r \in Requests, VerifyTotp(r)
      PROVE  ReplacedGoesNowhere'
  BY <1>6 DEF VerifyTotp, Begin, Goto, Asked, Proofs, account, tables
<1>7. ASSUME NEW r \in Requests, CompleteRequiredPasswordChange(r)
      PROVE  ReplacedGoesNowhere'
  BY <1>7 DEF CompleteRequiredPasswordChange, Begin, Goto, Asked, Proofs, account, tables
<1>8. ASSUME NEW r \in Requests, BeginTotpSetup(r)
      PROVE  ReplacedGoesNowhere'
  BY <1>8 DEF BeginTotpSetup, Begin, Goto, Asked, account, tables
<1>9. ASSUME NEW r \in Requests, VerifyTotpSetup(r)
      PROVE  ReplacedGoesNowhere'
  BY <1>9 DEF VerifyTotpSetup, Begin, Goto, Asked, account, tables
<1>10. ASSUME NEW r \in Requests, RegenerateRecoveryCodes(r)
      PROVE  ReplacedGoesNowhere'
  BY <1>10 DEF RegenerateRecoveryCodes, Begin, Goto, Asked, account, tables
<1>11. ASSUME NEW r \in Requests, ChangePassword(r)
      PROVE  ReplacedGoesNowhere'
  BY <1>11 DEF ChangePassword, Begin, Goto, Asked, account, tables
<1>12. ASSUME NEW r \in Requests, DisableTotp(r)
      PROVE  ReplacedGoesNowhere'
  BY <1>12 DEF DisableTotp, Begin, Goto, account, tables
<1>13. ASSUME NEW r \in Requests, LoginRead(r)
      PROVE  ReplacedGoesNowhere'
  BY <1>13 DEF LoginRead, Goto, Verdict, StillTables, account, tables, ghosts
<1>14. ASSUME NEW r \in Requests, ResetFailedLoginCount(r)
      PROVE  ReplacedGoesNowhere'
  BY <1>14 DEF ResetFailedLoginCount, Goto, tables, locals
<1>15. ASSUME NEW r \in Requests, IncrementFailedLoginCount(r)
      PROVE  ReplacedGoesNowhere'
  BY <1>15 DEF IncrementFailedLoginCount, Goto, StillTables, tables, ghosts
<1>16. ASSUME NEW r \in Requests, SetUserLockedUntil(r)
      PROVE  ReplacedGoesNowhere'
  BY <1>16 DEF SetUserLockedUntil, Goto, tables, locals
<1>17. ASSUME NEW r \in Requests, SignTicket(r)
      PROVE  ReplacedGoesNowhere'
  BY <1>17 DEF SignTicket, Goto, StillAccount, account, locals, ghosts
<1>18. ASSUME NEW r \in Requests, issueLoginChallenge(r)
      PROVE  ReplacedGoesNowhere'
  BY <1>18 DEF issueLoginChallenge, Goto, StillAccount, account, locals, ghosts
<1>19. ASSUME NEW r \in Requests, Mint(r)
      PROVE  ReplacedGoesNowhere'
  BY <1>19 DEF Mint, Goto, StillAccount, tables, account, locals, ghosts
<1>20. ASSUME NEW r \in Requests, ChallengeRead(r)
      PROVE  ReplacedGoesNowhere'
  BY <1>20 DEF ChallengeRead, Goto, StillAccount, tables, account, locals, ghosts
<1>21. ASSUME NEW r \in Requests, DeleteLoginChallenge(r)
      PROVE  ReplacedGoesNowhere'
  BY <1>21 DEF DeleteLoginChallenge, Goto, StillAccount, account, locals, ghosts
<1>22. ASSUME NEW r \in Requests, OwnerRead(r)
      PROVE  ReplacedGoesNowhere'
  BY <1>22 DEF OwnerRead, Goto, StillAccount, tables, account, locals, ghosts
<1>23. ASSUME NEW r \in Requests, CredRead(r)
      PROVE  ReplacedGoesNowhere'
  BY <1>23 DEF CredRead, Goto, Refused, Accepted, StillAccount, tables, account, locals, ghosts
<1>24. ASSUME NEW r \in Requests, ensureSecondFactorEnrolled(r)
      PROVE  ReplacedGoesNowhere'
  BY <1>24 DEF ensureSecondFactorEnrolled, Goto, StillAccount, tables, account, locals, ghosts
<1>25. ASSUME NEW r \in Requests, FindRecoveryCode(r)
      PROVE  ReplacedGoesNowhere'
  BY <1>25 DEF FindRecoveryCode, Goto, Refused, StillAccount, tables, account, locals, ghosts
<1>26. ASSUME NEW r \in Requests, UpdateRecoveryCode(r)
      PROVE  ReplacedGoesNowhere'
  BY <1>26 DEF UpdateRecoveryCode, Goto, Accepted, StillAccount, account, locals, ghosts
<1>27. ASSUME NEW r \in Requests, Mint2(r)
      PROVE  ReplacedGoesNowhere'
  BY <1>27 DEF Mint2, Goto, StillAccount, tables, account, locals, ghosts
<1>28. ASSUME NEW r \in Requests, TicketRead(r)
      PROVE  ReplacedGoesNowhere'
  BY <1>28 DEF TicketRead, Goto, StillAccount, tables, account, locals, ghosts
<1>29. ASSUME NEW r \in Requests, WriteOwnPassword(r)
      PROVE  ReplacedGoesNowhere'
  BY <1>29 DEF WriteOwnPassword, Goto, tables, locals
<1>30. ASSUME NEW r \in Requests, CurrentRead(r)
      PROVE  ReplacedGoesNowhere'
  BY <1>30 DEF CurrentRead, Goto, StillAccount, tables, account, locals, ghosts
<1>31. ASSUME NEW r \in Requests, WriteChangedPassword(r)
      PROVE  ReplacedGoesNowhere'
  BY <1>31 DEF WriteChangedPassword, Goto, StillTables, locals, tables, ghosts
<1>32. ASSUME NEW r \in Requests, SetupRead(r)
      PROVE  ReplacedGoesNowhere'
  BY <1>32 DEF SetupRead, Goto, StillTables, account, tables, ghosts
<1>33. ASSUME NEW r \in Requests, DeleteTotpCredential(r)
      PROVE  ReplacedGoesNowhere'
  BY <1>33 DEF DeleteTotpCredential, Goto, StillAccount, account, locals, ghosts
<1>34. ASSUME NEW r \in Requests, CreateTotpCredential(r)
      PROVE  ReplacedGoesNowhere'
  BY <1>34 DEF CreateTotpCredential, Goto, StillAccount, account, locals, ghosts
<1>35. ASSUME NEW r \in Requests, RegenerateRead(r)
      PROVE  ReplacedGoesNowhere'
  BY <1>35 DEF RegenerateRead, Goto, StillAccount, tables, account, locals, ghosts
<1>36. ASSUME NEW r \in Requests, DeleteRecoveryCodesForUser(r)
      PROVE  ReplacedGoesNowhere'
  BY <1>36 DEF DeleteRecoveryCodesForUser, Goto, StillAccount, account, locals, ghosts
<1>37. ASSUME NEW r \in Requests, CreateRecoveryCode(r)
      PROVE  ReplacedGoesNowhere'
  BY <1>37 DEF CreateRecoveryCode, Goto, StillAccount, account, locals, ghosts
<1>38. ASSUME NEW r \in Requests, SetupVerify(r)
      PROVE  ReplacedGoesNowhere'
  BY <1>38 DEF SetupVerify, Goto, StillTables, account, tables, ghosts
<1>39. ASSUME NEW r \in Requests, MarkVerified(r)
      PROVE  ReplacedGoesNowhere'
  BY <1>39 DEF MarkVerified, Goto, StillAccount, account, locals, ghosts
<1>40. ASSUME NEW r \in Requests, RequireTotp(r)
      PROVE  ReplacedGoesNowhere'
  BY <1>40 DEF RequireTotp, Goto, Disabling, tables, locals
<1>41. ASSUME NEW r \in Requests, DeleteTotpCredentialsForUser(r)
      PROVE  ReplacedGoesNowhere'
  BY <1>41 DEF DeleteTotpCredentialsForUser, Goto, StillAccount, account, locals, ghosts
<1>42. ASSUME NEW r \in Requests, RequireTotpNoMore(r)
      PROVE  ReplacedGoesNowhere'
  BY <1>42 DEF RequireTotpNoMore, Goto, StillTables, locals, tables, ghosts
<1>43. ASSUME NEW r \in Requests, Abort(r)
      PROVE  ReplacedGoesNowhere'
  BY <1>43 DEF Abort, Goto, account, tables, locals
<1>44. ASSUME NEW r \in Requests, BestEffortFails(r)
      PROVE  ReplacedGoesNowhere'
  BY <1>44 DEF BestEffortFails, Goto, BestEffort, AfterFault, Refused, Accepted, StillAccount, tables, account, locals, ghosts
<1>45. CASE UNCHANGED vars
  BY <1>45 DEF vars, account, tables, locals, ghosts
<1>46. QED
  BY <1>1, <1>2, <1>3, <1>4, <1>5, <1>6, <1>7, <1>8, <1>9, <1>10, <1>11, <1>12, <1>13, <1>14, <1>15, <1>16, <1>17, <1>18, <1>19, <1>20, <1>21, <1>22, <1>23, <1>24, <1>25, <1>26, <1>27, <1>28, <1>29, <1>30, <1>31, <1>32, <1>33, <1>34, <1>35, <1>36, <1>37, <1>38, <1>39, <1>40, <1>41, <1>42, <1>43, <1>44, <1>45
     DEF Next, Arrive, Step, Enrol

\* The inductive invariant holds in every reachable state.
THEOREM Invariant == Spec => []IInv
<1>1. ASSUME Init
      PROVE  IInv
  <2> USE <1>1, PasswordLoginAssumption DEF Init
  <2>1. TypeOK
    <3>1. count \in Nat /\ pw \in Nat /\ until \in Nat /\ now \in Nat /\ issued \in SUBSET Nat
      OBVIOUS
    <3>2. chalEnd \in [Challenges -> Nat] /\ guess \in [Requests -> Nat] /\ at \in [Requests -> Nat]
      OBVIOUS
    <3>3. QED
      BY <3>1, <3>2, ZenonT(30) DEF TypeOK, Statuses, PCs
  <2>2. CarriesItsArgument /\ PlansAhead
    BY DEF CarriesItsArgument, PlansAhead
  <2>3. LockIsLater /\ ThresholdLocks
    BY DEF LockIsLater, ThresholdLocks
  <2>4. KnownPasswords /\ IssuedIsMarked /\ IssuedGoesNowhere
    BY DEF KnownPasswords, IssuedIsMarked, IssuedGoesNowhere
  <2>5. SecuredAsks /\ OwesSecondFactor
    BY DEF SecuredAsks, Disabling, OwesSecondFactor
  <2>6. ReplacedGoesNowhere
    BY DEF ReplacedGoesNowhere
  <2>7. QED
    BY <2>1, <2>2, <2>3, <2>4, <2>5, <2>6 DEF IInv
<1>2. ASSUME IInv, [Next]_vars
      PROVE  IInv'
  BY <1>2, TypeStep, ShapeStep, LockStep, IssuedStep, SecuredStep, OwesStep, InForceStep DEF IInv
<1>3. QED
  BY <1>1, <1>2, PTL DEF Spec

\* The state is well typed: no handler leaves a row or a request in a state the
\* others do not know.
THEOREM TypeCorrect == Spec => []TypeOK
<1>1. IInv => TypeOK
  BY DEF IInv
<1>2. QED
  BY <1>1, Invariant, PTL

\* recordFailedLogin's two statements: whatever resets race them, the count
\* never stands at the limit without a lock or a request about to write it.
THEOREM LimitLocks == Spec => []ThresholdLocks
<1>1. IInv => ThresholdLocks
  BY DEF IInv
<1>2. QED
  BY <1>1, Invariant, PTL

\* PasswordLogin: a password an administrator issued opens no session and no
\* challenge, however many were issued and changed meanwhile.
THEOREM IssuedOpensNothing == Spec => []IssuedPasswordOpensNothing
<1>1. IInv => IssuedPasswordOpensNothing
  BY DEF IInv, IssuedGoesNowhere, IssuedPasswordOpensNothing
<1>2. QED
  BY <1>1, Invariant, PTL

\* PasswordLogin and CompleteRequiredPasswordChange: from enrolment until
\* someone disables it, and always under a policy that requires it, the second
\* factor is asked.
THEOREM SecondFactorIsAsked == Spec => []SecondFactorAsked
<1>1. IInv => SecondFactorAsked
  BY DEF IInv, OwesSecondFactor, SecondFactorAsked
<1>2. QED
  BY <1>1, Invariant, PTL

\* PasswordLogin, CompleteRequiredPasswordChange and ChangePassword: what a request
\* opens or sets rests on a password that was in force since it began, so no ticket
\* outlives the password it was signed for.
THEOREM PasswordsAreInForce == Spec => []ProvenPasswordInForce
<1>1. IInv => ProvenPasswordInForce
  BY DEF IInv, TypeOK, ReplacedGoesNowhere, ProvenPasswordInForce
<1>2. QED
  BY <1>1, Invariant, PTL
=============================================================================
