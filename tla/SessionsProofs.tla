--------------------------- MODULE SessionsProofs ---------------------------
(***************************************************************************)
(* Proofs about Sessions, for every set of tokens and of requests and      *)
(* every timeout.  The type invariant comes first; Identifiers says which  *)
(* identifiers are in use and by whom; the other invariants rest on both.  *)
(***************************************************************************)
EXTENDS Sessions, TLAPS

\* Where a request can start, and where it starts when it presents a token.
TokenDoors == {"read", "find", "node"}
Doors == TokenDoors \cup {"gate", "status", "password", "list"}

\* Every arriving request is one Begin: of an issued token, or of none.
LEMMA ArriveShape ==
    ASSUME NEW r \in Requests, Arrive(r)
    PROVE  \E label \in Doors, t \in Tokens \cup {NoToken} :
             Begin(r, label, t) /\ (label \in TokenDoors <=> t # NoToken)
                                /\ (t # NoToken => row[t] # "none")
<1> USE SessionsAssumption DEF Doors, TokenDoors
<1>1. ASSUME NEW t \in Tokens, NEW label \in TokenDoors, row[t] # "none", Begin(r, label, t)
      PROVE  \E l \in Doors, u \in Tokens \cup {NoToken} :
               Begin(r, l, u) /\ (l \in TokenDoors <=> u # NoToken)
                              /\ (u # NoToken => row[u] # "none")
  BY <1>1
<1>2. ASSUME NEW label \in Doors \ TokenDoors, Begin(r, label, NoToken)
      PROVE  \E l \in Doors, u \in Tokens \cup {NoToken} :
               Begin(r, l, u) /\ (l \in TokenDoors <=> u # NoToken)
                              /\ (u # NoToken => row[u] # "none")
  BY <1>2
<1>3. CASE RefreshToken(r) \/ Logout(r) \/ RevokeMySession(r)
  BY <1>1, <1>3 DEF RefreshToken, Logout, RevokeMySession, Issued
<1>4. CASE SignIn(r) \/ DeactivateUser(r) \/ ConfirmPasswordReset(r) \/ RevokeAllSessions(r)
  BY <1>2, <1>4 DEF SignIn, DeactivateUser, ConfirmPasswordReset, RevokeAllSessions
<1>5. QED
  BY <1>3, <1>4 DEF Arrive

\* Every step of every request keeps the state well typed.
LEMMA TypeStep ==
    ASSUME TypeOK, [Next]_vars
    PROVE  TypeOK'
<1> USE SessionsAssumption DEF TypeOK, Standings, PCs
<1>1. ASSUME NEW r \in Requests, Arrive(r)
      PROVE  TypeOK'
  <2>1. PICK label \in Doors, t \in Tokens \cup {NoToken} :
          Begin(r, label, t) /\ (label \in TokenDoors <=> t # NoToken)
                             /\ (t # NoToken => row[t] # "none")
    BY <1>1, ArriveShape
  <2>2. (standing = "active") \in BOOLEAN
    OBVIOUS
  <2>3. good' \in [Requests -> BOOLEAN]
    BY <2>1, <2>2 DEF Begin
  <2>4. {u \in Tokens : row[u] # "none"} \in SUBSET Tokens
    OBVIOUS
  <2>5. QED
    BY <2>1, <2>3, <2>4 DEF Begin, Goto, tables, Doors, TokenDoors
<1>2. ASSUME NEW r \in Requests, RefreshRead(r)
      PROVE  TypeOK'
  BY <1>2 DEF RefreshRead, Goto, Still, tables, locals, ghosts
<1>3. ASSUME NEW r \in Requests, RefreshGates(r)
      PROVE  TypeOK'
  BY <1>3 DEF RefreshGates, Goto, Still, tables, locals, ghosts
<1>4. ASSUME NEW r \in Requests, RefreshConsume(r)
      PROVE  TypeOK'
  BY <1>4 DEF RefreshConsume, Goto, Still, tables, locals, ghosts, ConsumeMatches, ConsumeRefreshTokenByHash
<1>5. ASSUME NEW r \in Requests, RefreshAccess(r)
      PROVE  TypeOK'
  BY <1>5 DEF RefreshAccess, Goto, Still, tables, locals, ghosts
<1>6. ASSUME NEW r \in Requests, SignInGates(r)
      PROVE  TypeOK'
  BY <1>6 DEF SignInGates, Goto, Still, tables, locals, ghosts
<1>7. ASSUME NEW r \in Requests, IssueSession(r)
      PROVE  TypeOK'
  BY <1>7 DEF IssueSession, Goto, Still, tables, locals, ghosts, CreateSession
<1>8. ASSUME NEW r \in Requests, IssueRefresh(r)
      PROVE  TypeOK'
  BY <1>8 DEF IssueRefresh, Goto, Still, tables, locals, ghosts, CreateRefreshToken
<1>9. ASSUME NEW r \in Requests, LogoutFind(r)
      PROVE  TypeOK'
  BY <1>9 DEF LogoutFind, Goto, Still, tables, locals, ghosts
<1>10. ASSUME NEW r \in Requests, DropToken(r)
      PROVE  TypeOK'
  BY <1>10 DEF DropToken, Goto, Still, tables, locals, ghosts, DeleteRefreshToken, Stored
<1>11. ASSUME NEW r \in Requests, EndSession(r)
      PROVE  TypeOK'
  BY <1>11 DEF EndSession, Goto, Still, tables, locals, ghosts, RevokeSession
<1>12. ASSUME NEW r \in Requests, WriteDeactivated(r)
      PROVE  TypeOK'
  BY <1>12 DEF WriteDeactivated, Goto, Still, tables, locals, ghosts
<1>13. ASSUME NEW r \in Requests, WritePassword(r)
      PROVE  TypeOK'
  BY <1>13 DEF WritePassword, Goto, Still, tables, locals, ghosts
<1>14. ASSUME NEW r \in Requests, DropAllTokens(r)
      PROVE  TypeOK'
  BY <1>14 DEF DropAllTokens, Goto, Still, tables, locals, ghosts, DeleteRefreshTokensForUser, Stored
<1>15. ASSUME NEW r \in Requests, EndAllSessions(r)
      PROVE  TypeOK'
  BY <1>15 DEF EndAllSessions, Goto, Still, tables, locals, ghosts, RevokeSessionsForUser
<1>16. ASSUME NEW r \in Requests, Answer(r)
      PROVE  TypeOK'
  BY <1>16 DEF Answer, Goto, Still, tables, locals, ghosts
<1>17. ASSUME NEW r \in Requests, ListNodes(r)
      PROVE  TypeOK'
  BY <1>17 DEF ListNodes, Goto, Still, tables, locals, ghosts, Stored
<1>18. ASSUME NEW r \in Requests, DeleteNode(r)
      PROVE  TypeOK'
  BY <1>18 DEF DeleteNode, Goto, Still, tables, locals, ghosts, DeleteRefreshToken, Stored
<1>19. ASSUME NEW r \in Requests, DeleteOwnNode(r)
      PROVE  TypeOK'
  BY <1>19 DEF DeleteOwnNode, Goto, Still, tables, locals, ghosts, DeleteRefreshToken, Stored
<1>20. ASSUME NEW r \in Requests, Abort(r)
      PROVE  TypeOK'
  BY <1>20 DEF Abort, Goto, Still, tables, locals, ghosts
<1>21. ASSUME NEW r \in Requests, BestEffortFails(r)
      PROVE  TypeOK'
  BY <1>21 DEF BestEffortFails, Goto, Still, tables, locals, ghosts, NextAfterFault
<1>22. CASE ChangeStanding
  BY <1>22 DEF ChangeStanding, tables, locals
<1>23. CASE Tick
  BY <1>23 DEF Tick, tables, locals, ghosts
<1>24. CASE UNCHANGED vars
  BY <1>24 DEF vars, tables, locals, ghosts
<1>25. QED
  BY <1>1, <1>2, <1>3, <1>4, <1>5, <1>6, <1>7, <1>8, <1>9, <1>10, <1>11, <1>12, <1>13, <1>14, <1>15, <1>16, <1>17, <1>18, <1>19, <1>20, <1>21, <1>22, <1>23, <1>24 DEF Next, Step

\* The state is always well typed.
THEOREM TypeCorrect == Spec => []TypeOK
<1>1. Init => TypeOK
  BY SessionsAssumption DEF Init, TypeOK, Standings, PCs
<1>2. TypeOK /\ [Next]_vars => TypeOK'
  BY TypeStep
<1>3. QED
  BY <1>1, <1>2, PTL DEF Spec

-----------------------------------------------------------------------------
(* Identifiers in use.                                                     *)

\* Steps at which a request holds the record of the token it presented.
Holding == {"read", "user", "consume", "consumeRefused", "access", "find",
            "deleteOne", "revokeOne", "node"}

Identifiers ==
    /\ \A t \in Tokens : row[t] # "none" => sess[t] # "none" /\ row[root[t]] # "none"
    /\ \A r \in Requests : arg[r] # NoToken => row[arg[r]] # "none"
    /\ \A r \in Requests : pc[r] \in Holding => arg[r] # NoToken
    /\ \A r \in Requests : pc[r] = "gate" => arg[r] = NoToken
    /\ \A r \in Requests : pc[r] = "token" =>
          new[r] # NoToken /\ row[new[r]] = "none" /\ sess[new[r]] # "none"
    /\ \A r, q \in Requests :
          pc[r] = "token" /\ pc[q] = "token" /\ new[r] = new[q] => r = q
    /\ \A r \in Requests : \A t \in seen[r] : row[t] # "none"

\* A sid or token is minted once, and only issued tokens are presented.
LEMMA IdentifiersStep ==
    ASSUME TypeOK, Identifiers, [Next]_vars
    PROVE  Identifiers'
<1> USE SessionsAssumption DEF TypeOK, Identifiers, Holding
<1>1. ASSUME NEW r \in Requests, Arrive(r)
      PROVE  Identifiers'
  <2>1. PICK label \in Doors, t \in Tokens \cup {NoToken} :
          Begin(r, label, t) /\ (label \in TokenDoors <=> t # NoToken)
                             /\ (t # NoToken => row[t] # "none")
    BY <1>1, ArriveShape
  <2>2. QED
    BY <2>1 DEF Begin, Goto, tables, Doors, TokenDoors
<1>2. ASSUME NEW r \in Requests, RefreshRead(r)
      PROVE  Identifiers'
  BY <1>2 DEF RefreshRead, Goto, Still, tables, locals, ghosts
<1>3. ASSUME NEW r \in Requests, RefreshGates(r)
      PROVE  Identifiers'
  BY <1>3 DEF RefreshGates, Goto, Still, tables, locals, ghosts
<1>4. ASSUME NEW r \in Requests, RefreshConsume(r)
      PROVE  Identifiers'
  BY <1>4 DEF RefreshConsume, Goto, Still, tables, locals, ghosts, ConsumeMatches, ConsumeRefreshTokenByHash
<1>5. ASSUME NEW r \in Requests, RefreshAccess(r)
      PROVE  Identifiers'
  BY <1>5 DEF RefreshAccess, Goto, Still, tables, locals, ghosts
<1>6. ASSUME NEW r \in Requests, SignInGates(r)
      PROVE  Identifiers'
  BY <1>6 DEF SignInGates, Goto, Still, tables, locals, ghosts
<1>7. ASSUME NEW r \in Requests, IssueSession(r)
      PROVE  Identifiers'
  BY <1>7 DEF IssueSession, Goto, Still, tables, locals, ghosts, CreateSession
<1>8. ASSUME NEW r \in Requests, IssueRefresh(r)
      PROVE  Identifiers'
  BY <1>8 DEF IssueRefresh, Goto, Still, tables, locals, ghosts, CreateRefreshToken
<1>9. ASSUME NEW r \in Requests, LogoutFind(r)
      PROVE  Identifiers'
  BY <1>9 DEF LogoutFind, Goto, Still, tables, locals, ghosts
<1>10. ASSUME NEW r \in Requests, DropToken(r)
      PROVE  Identifiers'
  BY <1>10 DEF DropToken, Goto, Still, tables, locals, ghosts, DeleteRefreshToken, Stored
<1>11. ASSUME NEW r \in Requests, EndSession(r)
      PROVE  Identifiers'
  BY <1>11 DEF EndSession, Goto, Still, tables, locals, ghosts, RevokeSession
<1>12. ASSUME NEW r \in Requests, WriteDeactivated(r)
      PROVE  Identifiers'
  BY <1>12 DEF WriteDeactivated, Goto, Still, tables, locals, ghosts
<1>13. ASSUME NEW r \in Requests, WritePassword(r)
      PROVE  Identifiers'
  BY <1>13 DEF WritePassword, Goto, Still, tables, locals, ghosts
<1>14. ASSUME NEW r \in Requests, DropAllTokens(r)
      PROVE  Identifiers'
  BY <1>14 DEF DropAllTokens, Goto, Still, tables, locals, ghosts, DeleteRefreshTokensForUser, Stored
<1>15. ASSUME NEW r \in Requests, EndAllSessions(r)
      PROVE  Identifiers'
  BY <1>15 DEF EndAllSessions, Goto, Still, tables, locals, ghosts, RevokeSessionsForUser
<1>16. ASSUME NEW r \in Requests, Answer(r)
      PROVE  Identifiers'
  BY <1>16 DEF Answer, Goto, Still, tables, locals, ghosts
<1>17. ASSUME NEW r \in Requests, ListNodes(r)
      PROVE  Identifiers'
  BY <1>17 DEF ListNodes, Goto, Still, tables, locals, ghosts, Stored
<1>18. ASSUME NEW r \in Requests, DeleteNode(r)
      PROVE  Identifiers'
  BY <1>18 DEF DeleteNode, Goto, Still, tables, locals, ghosts, DeleteRefreshToken, Stored
<1>19. ASSUME NEW r \in Requests, DeleteOwnNode(r)
      PROVE  Identifiers'
  BY <1>19 DEF DeleteOwnNode, Goto, Still, tables, locals, ghosts, DeleteRefreshToken, Stored
<1>20. ASSUME NEW r \in Requests, Abort(r)
      PROVE  Identifiers'
  BY <1>20 DEF Abort, Goto, Still, tables, locals, ghosts
<1>21. ASSUME NEW r \in Requests, BestEffortFails(r)
      PROVE  Identifiers'
  BY <1>21 DEF BestEffortFails, Goto, Still, tables, locals, ghosts, NextAfterFault
<1>22. CASE ChangeStanding
  BY <1>22 DEF ChangeStanding, tables, locals
<1>23. CASE Tick
  BY <1>23 DEF Tick, tables, locals, ghosts
<1>24. CASE UNCHANGED vars
  BY <1>24 DEF vars, tables, locals, ghosts
<1>25. QED
  BY <1>1, <1>2, <1>3, <1>4, <1>5, <1>6, <1>7, <1>8, <1>9, <1>10, <1>11, <1>12, <1>13, <1>14, <1>15, <1>16, <1>17, <1>18, <1>19, <1>20, <1>21, <1>22, <1>23, <1>24 DEF Next, Step

-----------------------------------------------------------------------------
(* At most one usable refresh token per sign-in.                           *)

\* The right to a lineage's next token is held once: by its live token, or
\* by the request that consumed it and has not minted the successor yet.
OneHolder ==
    /\ OneLiveTip
    /\ \A r, q \in Requests :
          Rotating(r) /\ Rotating(q) /\ root[arg[r]] = root[arg[q]] => r = q
    /\ \A r \in Requests, t \in Tokens :
          Rotating(r) /\ row[t] = "live" => root[arg[r]] # root[t]

\* Consuming moves the right from the token to the request, minting moves it
\* to the new token; nothing duplicates it.
LEMMA OneHolderStep ==
    ASSUME TypeOK, Identifiers, OneHolder, [Next]_vars
    PROVE  OneHolder'
<1> USE SessionsAssumption DEF TypeOK, Identifiers, Holding, OneHolder, OneLiveTip, Rotating
<1>1. ASSUME NEW r \in Requests, Arrive(r)
      PROVE  OneHolder'
  <2>1. PICK label \in Doors, t \in Tokens \cup {NoToken} :
          Begin(r, label, t) /\ (label \in TokenDoors <=> t # NoToken)
                             /\ (t # NoToken => row[t] # "none")
    BY <1>1, ArriveShape
  <2>2. QED
    BY <2>1 DEF Begin, Goto, tables, Doors, TokenDoors
<1>2. ASSUME NEW r \in Requests, RefreshRead(r)
      PROVE  OneHolder'
  BY <1>2 DEF RefreshRead, Goto, Still, tables, locals, ghosts
<1>3. ASSUME NEW r \in Requests, RefreshGates(r)
      PROVE  OneHolder'
  BY <1>3 DEF RefreshGates, Goto, Still, tables, locals, ghosts
<1>4. ASSUME NEW r \in Requests, RefreshConsume(r)
      PROVE  OneHolder'
  <2>1. CASE ConsumeMatches(arg[r]) /\ pc[r] = "consume"
    <3>1. arg[r] \in Tokens /\ row[arg[r]] = "live"
      BY <2>1 DEF ConsumeMatches
    <3>2. row' = [row EXCEPT ![arg[r]] = "consumed"] /\ pc' = [pc EXCEPT ![r] = "access"]
      BY <1>4, <2>1 DEF RefreshConsume, ConsumeRefreshTokenByHash, Goto
    <3>3. UNCHANGED <<arg, root>>
      BY <1>4 DEF RefreshConsume, Still, locals
    <3>4. QED
      BY <3>1, <3>2, <3>3
  <2>2. CASE ~(ConsumeMatches(arg[r]) /\ pc[r] = "consume")
    <3>1. \A t \in Tokens : row'[t] = "live" => row[t] = "live"
      BY <1>4 DEF RefreshConsume, ConsumeRefreshTokenByHash
    <3>2. \A q \in Requests : pc'[q] = pc[q] \/ pc'[q] \in {"done", "revokeOne"}
      BY <1>4, <2>2 DEF RefreshConsume, Goto
    <3>3. UNCHANGED <<arg, root>>
      BY <1>4 DEF RefreshConsume, Still, locals
    <3>4. \A q \in Requests : Rotating(q)' => Rotating(q)
      BY <3>2, <3>3
    <3>5. OneLiveTip'
      BY <3>1, <3>3
    <3>6. QED
      BY <3>1, <3>3, <3>4, <3>5
  <2>3. QED
    BY <2>1, <2>2
<1>5. ASSUME NEW r \in Requests, RefreshAccess(r)
      PROVE  OneHolder'
  BY <1>5 DEF RefreshAccess, Goto, Still, tables, locals, ghosts
<1>6. ASSUME NEW r \in Requests, SignInGates(r)
      PROVE  OneHolder'
  BY <1>6 DEF SignInGates, Goto, Still, tables, locals, ghosts
<1>7. ASSUME NEW r \in Requests, IssueSession(r)
      PROVE  OneHolder'
  BY <1>7 DEF IssueSession, Goto, Still, tables, locals, ghosts, CreateSession
<1>8. ASSUME NEW r \in Requests, IssueRefresh(r)
      PROVE  OneHolder'
  BY <1>8 DEF IssueRefresh, Goto, Still, tables, locals, ghosts, CreateRefreshToken
<1>9. ASSUME NEW r \in Requests, LogoutFind(r)
      PROVE  OneHolder'
  BY <1>9 DEF LogoutFind, Goto, Still, tables, locals, ghosts
<1>10. ASSUME NEW r \in Requests, DropToken(r)
      PROVE  OneHolder'
  BY <1>10 DEF DropToken, Goto, Still, tables, locals, ghosts, DeleteRefreshToken, Stored
<1>11. ASSUME NEW r \in Requests, EndSession(r)
      PROVE  OneHolder'
  BY <1>11 DEF EndSession, Goto, Still, tables, locals, ghosts, RevokeSession
<1>12. ASSUME NEW r \in Requests, WriteDeactivated(r)
      PROVE  OneHolder'
  BY <1>12 DEF WriteDeactivated, Goto, Still, tables, locals, ghosts
<1>13. ASSUME NEW r \in Requests, WritePassword(r)
      PROVE  OneHolder'
  BY <1>13 DEF WritePassword, Goto, Still, tables, locals, ghosts
<1>14. ASSUME NEW r \in Requests, DropAllTokens(r)
      PROVE  OneHolder'
  BY <1>14 DEF DropAllTokens, Goto, Still, tables, locals, ghosts, DeleteRefreshTokensForUser, Stored
<1>15. ASSUME NEW r \in Requests, EndAllSessions(r)
      PROVE  OneHolder'
  BY <1>15 DEF EndAllSessions, Goto, Still, tables, locals, ghosts, RevokeSessionsForUser
<1>16. ASSUME NEW r \in Requests, Answer(r)
      PROVE  OneHolder'
  BY <1>16 DEF Answer, Goto, Still, tables, locals, ghosts
<1>17. ASSUME NEW r \in Requests, ListNodes(r)
      PROVE  OneHolder'
  BY <1>17 DEF ListNodes, Goto, Still, tables, locals, ghosts, Stored
<1>18. ASSUME NEW r \in Requests, DeleteNode(r)
      PROVE  OneHolder'
  <2>1. \A t \in Tokens : row'[t] = "live" => row[t] = "live"
    BY <1>18 DEF DeleteNode, Goto, Still, tables, locals, ghosts, DeleteRefreshToken, Stored
  <2>2. \A q \in Requests : pc'[q] = pc[q] \/ pc'[q] = "done"
    BY <1>18 DEF DeleteNode, Goto, Still, tables, locals, ghosts, DeleteRefreshToken, Stored
  <2>3. UNCHANGED <<arg, root>>
    BY <1>18 DEF DeleteNode
  <2>4. QED
    BY <2>1, <2>2, <2>3
<1>19. ASSUME NEW r \in Requests, DeleteOwnNode(r)
      PROVE  OneHolder'
  BY <1>19 DEF DeleteOwnNode, Goto, Still, tables, locals, ghosts, DeleteRefreshToken, Stored
<1>20. ASSUME NEW r \in Requests, Abort(r)
      PROVE  OneHolder'
  BY <1>20 DEF Abort, Goto, Still, tables, locals, ghosts
<1>21. ASSUME NEW r \in Requests, BestEffortFails(r)
      PROVE  OneHolder'
  BY <1>21 DEF BestEffortFails, Goto, Still, tables, locals, ghosts, NextAfterFault
<1>22. CASE ChangeStanding
  BY <1>22 DEF ChangeStanding, tables, locals
<1>23. CASE Tick
  BY <1>23 DEF Tick, tables, locals, ghosts
<1>24. CASE UNCHANGED vars
  BY <1>24 DEF vars, tables, locals, ghosts
<1>25. QED
  BY <1>1, <1>2, <1>3, <1>4, <1>5, <1>6, <1>7, <1>8, <1>9, <1>10, <1>11, <1>12, <1>13, <1>14, <1>15, <1>16, <1>17, <1>18, <1>19, <1>20, <1>21, <1>22, <1>23, <1>24 DEF Next, Step

\* A minted row copies its predecessor's anchor, and no row is rewritten.
LEMMA AnchorStep ==
    ASSUME TypeOK, Identifiers, AnchorUnchanged, [Next]_vars
    PROVE  AnchorUnchanged'
<1> USE SessionsAssumption DEF TypeOK, Identifiers, Holding, AnchorUnchanged
<1>1. ASSUME NEW r \in Requests, Arrive(r)
      PROVE  AnchorUnchanged'
  <2>1. PICK label \in Doors, t \in Tokens \cup {NoToken} :
          Begin(r, label, t) /\ (label \in TokenDoors <=> t # NoToken)
                             /\ (t # NoToken => row[t] # "none")
    BY <1>1, ArriveShape
  <2>2. QED
    BY <2>1 DEF Begin, Goto, tables, Doors, TokenDoors
<1>2. ASSUME NEW r \in Requests, RefreshRead(r)
      PROVE  AnchorUnchanged'
  BY <1>2 DEF RefreshRead, Goto, Still, tables, locals, ghosts
<1>3. ASSUME NEW r \in Requests, RefreshGates(r)
      PROVE  AnchorUnchanged'
  BY <1>3 DEF RefreshGates, Goto, Still, tables, locals, ghosts
<1>4. ASSUME NEW r \in Requests, RefreshConsume(r)
      PROVE  AnchorUnchanged'
  BY <1>4 DEF RefreshConsume, Goto, Still, tables, locals, ghosts, ConsumeMatches, ConsumeRefreshTokenByHash
<1>5. ASSUME NEW r \in Requests, RefreshAccess(r)
      PROVE  AnchorUnchanged'
  BY <1>5 DEF RefreshAccess, Goto, Still, tables, locals, ghosts
<1>6. ASSUME NEW r \in Requests, SignInGates(r)
      PROVE  AnchorUnchanged'
  BY <1>6 DEF SignInGates, Goto, Still, tables, locals, ghosts
<1>7. ASSUME NEW r \in Requests, IssueSession(r)
      PROVE  AnchorUnchanged'
  BY <1>7 DEF IssueSession, Goto, Still, tables, locals, ghosts, CreateSession
<1>8. ASSUME NEW r \in Requests, IssueRefresh(r)
      PROVE  AnchorUnchanged'
  BY <1>8 DEF IssueRefresh, Goto, Still, tables, locals, ghosts, CreateRefreshToken
<1>9. ASSUME NEW r \in Requests, LogoutFind(r)
      PROVE  AnchorUnchanged'
  BY <1>9 DEF LogoutFind, Goto, Still, tables, locals, ghosts
<1>10. ASSUME NEW r \in Requests, DropToken(r)
      PROVE  AnchorUnchanged'
  BY <1>10 DEF DropToken, Goto, Still, tables, locals, ghosts, DeleteRefreshToken, Stored
<1>11. ASSUME NEW r \in Requests, EndSession(r)
      PROVE  AnchorUnchanged'
  BY <1>11 DEF EndSession, Goto, Still, tables, locals, ghosts, RevokeSession
<1>12. ASSUME NEW r \in Requests, WriteDeactivated(r)
      PROVE  AnchorUnchanged'
  BY <1>12 DEF WriteDeactivated, Goto, Still, tables, locals, ghosts
<1>13. ASSUME NEW r \in Requests, WritePassword(r)
      PROVE  AnchorUnchanged'
  BY <1>13 DEF WritePassword, Goto, Still, tables, locals, ghosts
<1>14. ASSUME NEW r \in Requests, DropAllTokens(r)
      PROVE  AnchorUnchanged'
  BY <1>14 DEF DropAllTokens, Goto, Still, tables, locals, ghosts, DeleteRefreshTokensForUser, Stored
<1>15. ASSUME NEW r \in Requests, EndAllSessions(r)
      PROVE  AnchorUnchanged'
  BY <1>15 DEF EndAllSessions, Goto, Still, tables, locals, ghosts, RevokeSessionsForUser
<1>16. ASSUME NEW r \in Requests, Answer(r)
      PROVE  AnchorUnchanged'
  BY <1>16 DEF Answer, Goto, Still, tables, locals, ghosts
<1>17. ASSUME NEW r \in Requests, ListNodes(r)
      PROVE  AnchorUnchanged'
  BY <1>17 DEF ListNodes, Goto, Still, tables, locals, ghosts, Stored
<1>18. ASSUME NEW r \in Requests, DeleteNode(r)
      PROVE  AnchorUnchanged'
  BY <1>18 DEF DeleteNode, Goto, Still, tables, locals, ghosts, DeleteRefreshToken, Stored
<1>19. ASSUME NEW r \in Requests, DeleteOwnNode(r)
      PROVE  AnchorUnchanged'
  BY <1>19 DEF DeleteOwnNode, Goto, Still, tables, locals, ghosts, DeleteRefreshToken, Stored
<1>20. ASSUME NEW r \in Requests, Abort(r)
      PROVE  AnchorUnchanged'
  BY <1>20 DEF Abort, Goto, Still, tables, locals, ghosts
<1>21. ASSUME NEW r \in Requests, BestEffortFails(r)
      PROVE  AnchorUnchanged'
  BY <1>21 DEF BestEffortFails, Goto, Still, tables, locals, ghosts, NextAfterFault
<1>22. CASE ChangeStanding
  BY <1>22 DEF ChangeStanding, tables, locals
<1>23. CASE Tick
  BY <1>23 DEF Tick, tables, locals, ghosts
<1>24. CASE UNCHANGED vars
  BY <1>24 DEF vars, tables, locals, ghosts
<1>25. QED
  BY <1>1, <1>2, <1>3, <1>4, <1>5, <1>6, <1>7, <1>8, <1>9, <1>10, <1>11, <1>12, <1>13, <1>14, <1>15, <1>16, <1>17, <1>18, <1>19, <1>20, <1>21, <1>22, <1>23, <1>24 DEF Next, Step

-----------------------------------------------------------------------------
(* No session for an account that stays refused.                           *)

StandingSeen ==
    /\ MintNeedsGoodStanding
    /\ \A r \in Requests :
          pc[r] \notin {"new", "done"} /\ standing = "active" => good[r]

\* A gate that lets a request through saw the account in good standing.
LEMMA StandingStep ==
    ASSUME TypeOK, Identifiers, StandingSeen, [Next]_vars
    PROVE  StandingSeen'
<1> USE SessionsAssumption DEF TypeOK, StandingSeen, MintNeedsGoodStanding
<1>1. ASSUME NEW r \in Requests, Arrive(r)
      PROVE  StandingSeen'
  <2>1. PICK label \in Doors, t \in Tokens \cup {NoToken} :
          Begin(r, label, t) /\ (label \in TokenDoors <=> t # NoToken)
                             /\ (t # NoToken => row[t] # "none")
    BY <1>1, ArriveShape
  <2>2. QED
    BY <2>1 DEF Begin, Goto, tables, Doors, TokenDoors
<1>2. ASSUME NEW r \in Requests, RefreshRead(r)
      PROVE  StandingSeen'
  BY <1>2 DEF RefreshRead, Goto, Still, tables, locals, ghosts
<1>3. ASSUME NEW r \in Requests, RefreshGates(r)
      PROVE  StandingSeen'
  BY <1>3 DEF RefreshGates, Goto, Still, tables, locals, ghosts
<1>4. ASSUME NEW r \in Requests, RefreshConsume(r)
      PROVE  StandingSeen'
  BY <1>4 DEF RefreshConsume, Goto, Still, tables, locals, ghosts, ConsumeMatches, ConsumeRefreshTokenByHash
<1>5. ASSUME NEW r \in Requests, RefreshAccess(r)
      PROVE  StandingSeen'
  BY <1>5 DEF RefreshAccess, Goto, Still, tables, locals, ghosts
<1>6. ASSUME NEW r \in Requests, SignInGates(r)
      PROVE  StandingSeen'
  BY <1>6 DEF SignInGates, Goto, Still, tables, locals, ghosts
<1>7. ASSUME NEW r \in Requests, IssueSession(r)
      PROVE  StandingSeen'
  BY <1>7 DEF IssueSession, Goto, Still, tables, locals, ghosts, CreateSession
<1>8. ASSUME NEW r \in Requests, IssueRefresh(r)
      PROVE  StandingSeen'
  BY <1>8 DEF IssueRefresh, Goto, Still, tables, locals, ghosts, CreateRefreshToken
<1>9. ASSUME NEW r \in Requests, LogoutFind(r)
      PROVE  StandingSeen'
  BY <1>9 DEF LogoutFind, Goto, Still, tables, locals, ghosts
<1>10. ASSUME NEW r \in Requests, DropToken(r)
      PROVE  StandingSeen'
  BY <1>10 DEF DropToken, Goto, Still, tables, locals, ghosts, DeleteRefreshToken, Stored
<1>11. ASSUME NEW r \in Requests, EndSession(r)
      PROVE  StandingSeen'
  BY <1>11 DEF EndSession, Goto, Still, tables, locals, ghosts, RevokeSession
<1>12. ASSUME NEW r \in Requests, WriteDeactivated(r)
      PROVE  StandingSeen'
  BY <1>12 DEF WriteDeactivated, Goto, Still, tables, locals, ghosts
<1>13. ASSUME NEW r \in Requests, WritePassword(r)
      PROVE  StandingSeen'
  BY <1>13 DEF WritePassword, Goto, Still, tables, locals, ghosts
<1>14. ASSUME NEW r \in Requests, DropAllTokens(r)
      PROVE  StandingSeen'
  BY <1>14 DEF DropAllTokens, Goto, Still, tables, locals, ghosts, DeleteRefreshTokensForUser, Stored
<1>15. ASSUME NEW r \in Requests, EndAllSessions(r)
      PROVE  StandingSeen'
  BY <1>15 DEF EndAllSessions, Goto, Still, tables, locals, ghosts, RevokeSessionsForUser
<1>16. ASSUME NEW r \in Requests, Answer(r)
      PROVE  StandingSeen'
  BY <1>16 DEF Answer, Goto, Still, tables, locals, ghosts
<1>17. ASSUME NEW r \in Requests, ListNodes(r)
      PROVE  StandingSeen'
  BY <1>17 DEF ListNodes, Goto, Still, tables, locals, ghosts, Stored
<1>18. ASSUME NEW r \in Requests, DeleteNode(r)
      PROVE  StandingSeen'
  BY <1>18 DEF DeleteNode, Goto, Still, tables, locals, ghosts, DeleteRefreshToken, Stored
<1>19. ASSUME NEW r \in Requests, DeleteOwnNode(r)
      PROVE  StandingSeen'
  BY <1>19 DEF DeleteOwnNode, Goto, Still, tables, locals, ghosts, DeleteRefreshToken, Stored
<1>20. ASSUME NEW r \in Requests, Abort(r)
      PROVE  StandingSeen'
  BY <1>20 DEF Abort, Goto, Still, tables, locals, ghosts
<1>21. ASSUME NEW r \in Requests, BestEffortFails(r)
      PROVE  StandingSeen'
  BY <1>21 DEF BestEffortFails, Goto, Still, tables, locals, ghosts, NextAfterFault
<1>22. CASE ChangeStanding
  BY <1>22 DEF ChangeStanding, tables, locals
<1>23. CASE Tick
  BY <1>23 DEF Tick, tables, locals, ghosts
<1>24. CASE UNCHANGED vars
  BY <1>24 DEF vars, tables, locals, ghosts
<1>25. QED
  BY <1>1, <1>2, <1>3, <1>4, <1>5, <1>6, <1>7, <1>8, <1>9, <1>10, <1>11, <1>12, <1>13, <1>14, <1>15, <1>16, <1>17, <1>18, <1>19, <1>20, <1>21, <1>22, <1>23, <1>24 DEF Next, Step

-----------------------------------------------------------------------------
(* A bulk revocation reaches everything that existed when it began.        *)

Sweeping ==
    /\ RevokeAllIsComplete
    /\ \A r \in Requests : pc[r] \in {"revokeAll", "cutSessions"} /\ ~faulty[r] =>
          \A t \in seen[r] : row[t] = "deleted"

\* Deleted rows stay deleted and the sessions they link to stay revoked.
LEMMA SweepingStep ==
    ASSUME TypeOK, Identifiers, Sweeping, [Next]_vars
    PROVE  Sweeping'
<1> USE SessionsAssumption DEF TypeOK, Identifiers, Holding, Sweeping, RevokeAllIsComplete
<1>1. ASSUME NEW r \in Requests, Arrive(r)
      PROVE  Sweeping'
  <2>1. PICK label \in Doors, t \in Tokens \cup {NoToken} :
          Begin(r, label, t) /\ (label \in TokenDoors <=> t # NoToken)
                             /\ (t # NoToken => row[t] # "none")
    BY <1>1, ArriveShape
  <2>2. QED
    BY <2>1 DEF Begin, Goto, tables, Doors, TokenDoors
<1>2. ASSUME NEW r \in Requests, RefreshRead(r)
      PROVE  Sweeping'
  BY <1>2 DEF RefreshRead, Goto, Still, tables, locals, ghosts
<1>3. ASSUME NEW r \in Requests, RefreshGates(r)
      PROVE  Sweeping'
  BY <1>3 DEF RefreshGates, Goto, Still, tables, locals, ghosts
<1>4. ASSUME NEW r \in Requests, RefreshConsume(r)
      PROVE  Sweeping'
  BY <1>4 DEF RefreshConsume, Goto, Still, tables, locals, ghosts, ConsumeMatches, ConsumeRefreshTokenByHash
<1>5. ASSUME NEW r \in Requests, RefreshAccess(r)
      PROVE  Sweeping'
  BY <1>5 DEF RefreshAccess, Goto, Still, tables, locals, ghosts
<1>6. ASSUME NEW r \in Requests, SignInGates(r)
      PROVE  Sweeping'
  BY <1>6 DEF SignInGates, Goto, Still, tables, locals, ghosts
<1>7. ASSUME NEW r \in Requests, IssueSession(r)
      PROVE  Sweeping'
  BY <1>7 DEF IssueSession, Goto, Still, tables, locals, ghosts, CreateSession
<1>8. ASSUME NEW r \in Requests, IssueRefresh(r)
      PROVE  Sweeping'
  BY <1>8 DEF IssueRefresh, Goto, Still, tables, locals, ghosts, CreateRefreshToken
<1>9. ASSUME NEW r \in Requests, LogoutFind(r)
      PROVE  Sweeping'
  BY <1>9 DEF LogoutFind, Goto, Still, tables, locals, ghosts
<1>10. ASSUME NEW r \in Requests, DropToken(r)
      PROVE  Sweeping'
  BY <1>10 DEF DropToken, Goto, Still, tables, locals, ghosts, DeleteRefreshToken, Stored
<1>11. ASSUME NEW r \in Requests, EndSession(r)
      PROVE  Sweeping'
  BY <1>11 DEF EndSession, Goto, Still, tables, locals, ghosts, RevokeSession
<1>12. ASSUME NEW r \in Requests, WriteDeactivated(r)
      PROVE  Sweeping'
  BY <1>12 DEF WriteDeactivated, Goto, Still, tables, locals, ghosts
<1>13. ASSUME NEW r \in Requests, WritePassword(r)
      PROVE  Sweeping'
  BY <1>13 DEF WritePassword, Goto, Still, tables, locals, ghosts
<1>14. ASSUME NEW r \in Requests, DropAllTokens(r)
      PROVE  Sweeping'
  BY <1>14 DEF DropAllTokens, Goto, Still, tables, locals, ghosts, DeleteRefreshTokensForUser, Stored
<1>15. ASSUME NEW r \in Requests, EndAllSessions(r)
      PROVE  Sweeping'
  BY <1>15 DEF EndAllSessions, Goto, Still, tables, locals, ghosts, RevokeSessionsForUser
<1>16. ASSUME NEW r \in Requests, Answer(r)
      PROVE  Sweeping'
  BY <1>16 DEF Answer, Goto, Still, tables, locals, ghosts
<1>17. ASSUME NEW r \in Requests, ListNodes(r)
      PROVE  Sweeping'
  BY <1>17 DEF ListNodes, Goto, Still, tables, locals, ghosts, Stored
<1>18. ASSUME NEW r \in Requests, DeleteNode(r)
      PROVE  Sweeping'
  BY <1>18 DEF DeleteNode, Goto, Still, tables, locals, ghosts, DeleteRefreshToken, Stored
<1>19. ASSUME NEW r \in Requests, DeleteOwnNode(r)
      PROVE  Sweeping'
  BY <1>19 DEF DeleteOwnNode, Goto, Still, tables, locals, ghosts, DeleteRefreshToken, Stored
<1>20. ASSUME NEW r \in Requests, Abort(r)
      PROVE  Sweeping'
  BY <1>20 DEF Abort, Goto, Still, tables, locals, ghosts
<1>21. ASSUME NEW r \in Requests, BestEffortFails(r)
      PROVE  Sweeping'
  BY <1>21 DEF BestEffortFails, Goto, Still, tables, locals, ghosts, NextAfterFault
<1>22. CASE ChangeStanding
  BY <1>22 DEF ChangeStanding, tables, locals
<1>23. CASE Tick
  BY <1>23 DEF Tick, tables, locals, ghosts
<1>24. CASE UNCHANGED vars
  BY <1>24 DEF vars, tables, locals, ghosts
<1>25. QED
  BY <1>1, <1>2, <1>3, <1>4, <1>5, <1>6, <1>7, <1>8, <1>9, <1>10, <1>11, <1>12, <1>13, <1>14, <1>15, <1>16, <1>17, <1>18, <1>19, <1>20, <1>21, <1>22, <1>23, <1>24 DEF Next, Step

-----------------------------------------------------------------------------
\* The inductive invariant behind the theorems below.
SessionsInv == TypeOK /\ Identifiers /\ OneHolder /\ AnchorUnchanged /\ StandingSeen /\ Sweeping

\* SessionsInv holds in every reachable state.
THEOREM SessionsInvariant == Spec => []SessionsInv
<1>1. Init => SessionsInv
  BY SessionsAssumption DEF Init, SessionsInv, TypeOK, Standings, PCs, Identifiers, Holding,
     OneHolder, OneLiveTip, Rotating, AnchorUnchanged, StandingSeen, MintNeedsGoodStanding,
     Sweeping, RevokeAllIsComplete
<1>2. SessionsInv /\ [Next]_vars => SessionsInv'
  BY TypeStep, IdentifiersStep, OneHolderStep, AnchorStep, StandingStep, SweepingStep
     DEF SessionsInv
<1>3. QED
  BY <1>1, <1>2, PTL DEF Spec

\* Whatever the interleaving of refreshes, sign-ins, logouts and revocations,
\* a sign-in never has two usable refresh tokens (RefreshToken's rotation).
THEOREM OneUsableToken == Spec => []OneLiveTip
<1>1. SessionsInv => OneLiveTip
  BY DEF SessionsInv, OneHolder
<1>2. QED
  BY <1>1, SessionsInvariant, PTL

\* Rotation never extends a session's absolute lifetime: the anchor
\* issueTokensWithSessionStart stores is the sign-in's, at any depth.
THEOREM AnchorNeverMoves == Spec => []AnchorUnchanged
<1>1. SessionsInv => AnchorUnchanged
  BY DEF SessionsInv
<1>2. QED
  BY <1>1, SessionsInvariant, PTL

\* An account refused for the whole life of a request gets no tokens from it
\* (the gates of RefreshToken and issueSignInTokens).
THEOREM RefusedAccountMintsNothing == Spec => []MintNeedsGoodStanding
<1>1. SessionsInv => MintNeedsGoodStanding
  BY DEF SessionsInv, StandingSeen
<1>2. QED
  BY <1>1, SessionsInvariant, PTL

\* Replay detection, a password reset and a deactivation leave nothing usable
\* of what existed when they began, unless one of their writes failed.
THEOREM SweepIsComplete == Spec => []RevokeAllIsComplete
<1>1. SessionsInv => RevokeAllIsComplete
  BY DEF SessionsInv, Sweeping
<1>2. QED
  BY <1>1, SessionsInvariant, PTL

\* A sign-in stays one lineage with one anchor, for any number of tokens and
\* requests (RefreshToken).
THEOREM LineageIsKept == Spec => []LineageKept
BY OneUsableToken, AnchorNeverMoves, PTL DEF LineageKept
=============================================================================
