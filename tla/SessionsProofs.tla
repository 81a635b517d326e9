--------------------------- MODULE SessionsProofs ---------------------------
(* Theorems about the sessions of an account, for any number of users,     *)
(* tokens and requests in flight, and about the session a browser keeps.   *)
EXTENDS WebSession, TLAPS

\* What a request holds at each step of its handler.
Held ==
    \A r \in Requests :
        /\ ~At(r, "idle") => req[r].user \in Users
        /\ At(r, "rotate") => req[r].token \in RefreshTokens
        /\ At(r, "issue") => req[r].token \in RefreshTokens \cup {NoToken}
        /\ req[r].at \in {"consume", "rehash", "revokeAll"}
              => req[r].token \in ResetTokens

TypeInv == TypeOK /\ Held

LEMMA TypeInit == Init => TypeInv
BY ConstantsAssumption
   DEF Init, TypeInv, TypeOK, Held, At, Idle, Request, Steps

LEMMA TypeStep == TypeInv /\ [Next]_vars => TypeInv'
<1> USE ConstantsAssumption
<1> SUFFICES ASSUME TypeInv, [Next]_vars PROVE TypeInv'
    OBVIOUS
<1> USE DEF TypeInv, TypeOK, Held, At, Go, Finish, Idle, Request, Steps,
            users, sessions, resets, history
<1>1. ASSUME NEW r \in Requests, NEW u \in Users, LoginRead(r, u) PROVE TypeInv'
      BY <1>1 DEF LoginRead
<1>2. ASSUME NEW r \in Requests, NEW u \in Users, GoogleLoginRead(r, u) PROVE TypeInv'
      BY <1>2 DEF GoogleLoginRead
<1>3. ASSUME NEW r \in Requests, NEW t \in RefreshTokens, Issue(r, t) PROVE TypeInv'
      BY <1>3 DEF Issue
<1>4. ASSUME NEW r \in Requests, NEW t \in RefreshTokens, RotateRead(r, t) PROVE TypeInv'
      BY <1>4 DEF RotateRead
<1>5. ASSUME NEW r \in Requests, RotateRevoke(r) PROVE TypeInv'
      BY <1>5 DEF RotateRevoke
<1>6. ASSUME NEW t \in RefreshTokens, Logout(t) PROVE TypeInv'
      BY <1>6 DEF Logout
<1>7. ASSUME NEW r \in Requests, NEW u \in Users, ForgotRead(r, u) PROVE TypeInv'
      BY <1>7 DEF ForgotRead
<1>8. ASSUME NEW r \in Requests, NEW k \in ResetTokens, ForgotMint(r, k) PROVE TypeInv'
      BY <1>8 DEF ForgotMint
<1>9. ASSUME NEW r \in Requests, NEW k \in ResetTokens, ResetRead(r, k) PROVE TypeInv'
      BY <1>9 DEF ResetRead
<1>10. ASSUME NEW r \in Requests, ResetConsume(r) PROVE TypeInv'
      <2>1. CASE req[r].token \in used
            <3>1. Finish(r) /\ used' = used
                  BY <1>10, <2>1 DEF ResetConsume
            <3> QED BY <1>10, <3>1 DEF ResetConsume
      <2>2. CASE req[r].token \notin used
            BY <1>10, <2>2 DEF ResetConsume
      <2> QED BY <2>1, <2>2
<1>11. ASSUME NEW r \in Requests, ResetRehash(r) PROVE TypeInv'
      BY <1>11 DEF ResetRehash, TokensOf
<1>12. ASSUME NEW r \in Requests, ResetRevokeAll(r) PROVE TypeInv'
      BY <1>12 DEF ResetRevokeAll, TokensOf
<1>13. ASSUME NEW r \in Requests, NEW u \in Users, DeleteRead(r, u) PROVE TypeInv'
      BY <1>13 DEF DeleteRead
<1>14. ASSUME NEW r \in Requests, DeleteMark(r) PROVE TypeInv'
      BY <1>14 DEF DeleteMark
<1>15. ASSUME NEW r \in Requests, DeletePurge(r) PROVE TypeInv'
      BY <1>15 DEF DeletePurge, TokensOf
<1>16. ASSUME NEW t \in RefreshTokens, Expire(t) PROVE TypeInv'
      BY <1>16 DEF Expire
<1>17. ASSUME NEW k \in ResetTokens, Lapse(k) PROVE TypeInv'
      BY <1>17 DEF Lapse
<1>18. ASSUME NEW r \in Requests, Fail(r) PROVE TypeInv'
      BY <1>18 DEF Fail
<1>19. CASE UNCHANGED vars
      BY <1>19 DEF vars
<1> QED
    BY <1>1, <1>2, <1>3, <1>4, <1>5, <1>6, <1>7, <1>8, <1>9, <1>10, <1>11,
       <1>12, <1>13, <1>14, <1>15, <1>16, <1>17, <1>18, <1>19
    DEF Next, Step

\* Every reachable state is well typed: a request never carries the id of one
\* kind of row where its handler uses another.
THEOREM TypeCorrect == Spec => []TypeOK
<1>1. TypeInv => TypeOK
      BY DEF TypeInv
<1> QED BY <1>1, TypeInit, TypeStep, PTL DEF Spec

LEMMA Typed == Spec => []TypeInv
BY TypeInit, TypeStep, PTL DEF Spec

-----------------------------------------------------------------------------
\* A request about to create the successor of a token has revoked that token.
SpentInv ==
    /\ ExchangedTokenIsSpent
    /\ \A r \in Requests :
          At(r, "issue") /\ req[r].token # NoToken => req[r].token \in revoked

LEMMA SpentStep == TypeInv /\ SpentInv /\ [Next]_vars => SpentInv'
<1> USE ConstantsAssumption
<1> SUFFICES ASSUME TypeInv, SpentInv, [Next]_vars PROVE SpentInv'
    OBVIOUS
<1> USE DEF TypeInv, TypeOK, Held, At, Go, Finish, Idle, Request, Steps,
            users, sessions, resets, history, SpentInv, ExchangedTokenIsSpent
<1>1. ASSUME NEW r \in Requests, NEW u \in Users, LoginRead(r, u) PROVE SpentInv'
      BY <1>1 DEF LoginRead
<1>2. ASSUME NEW r \in Requests, NEW u \in Users, GoogleLoginRead(r, u) PROVE SpentInv'
      BY <1>2 DEF GoogleLoginRead
<1>3. ASSUME NEW r \in Requests, NEW t \in RefreshTokens, Issue(r, t) PROVE SpentInv'
      BY <1>3 DEF Issue
<1>4. ASSUME NEW r \in Requests, NEW t \in RefreshTokens, RotateRead(r, t) PROVE SpentInv'
      BY <1>4 DEF RotateRead
<1>5. ASSUME NEW r \in Requests, RotateRevoke(r) PROVE SpentInv'
      BY <1>5 DEF RotateRevoke
<1>6. ASSUME NEW t \in RefreshTokens, Logout(t) PROVE SpentInv'
      BY <1>6 DEF Logout
<1>7. ASSUME NEW r \in Requests, NEW u \in Users, ForgotRead(r, u) PROVE SpentInv'
      BY <1>7 DEF ForgotRead
<1>8. ASSUME NEW r \in Requests, NEW k \in ResetTokens, ForgotMint(r, k) PROVE SpentInv'
      BY <1>8 DEF ForgotMint
<1>9. ASSUME NEW r \in Requests, NEW k \in ResetTokens, ResetRead(r, k) PROVE SpentInv'
      BY <1>9 DEF ResetRead
<1>10. ASSUME NEW r \in Requests, ResetConsume(r) PROVE SpentInv'
      <2>1. CASE req[r].token \in used
            <3>1. Finish(r) /\ used' = used
                  BY <1>10, <2>1 DEF ResetConsume
            <3> QED BY <1>10, <3>1 DEF ResetConsume
      <2>2. CASE req[r].token \notin used
            BY <1>10, <2>2 DEF ResetConsume
      <2> QED BY <2>1, <2>2
<1>11. ASSUME NEW r \in Requests, ResetRehash(r) PROVE SpentInv'
      BY <1>11 DEF ResetRehash, TokensOf
<1>12. ASSUME NEW r \in Requests, ResetRevokeAll(r) PROVE SpentInv'
      BY <1>12 DEF ResetRevokeAll, TokensOf
<1>13. ASSUME NEW r \in Requests, NEW u \in Users, DeleteRead(r, u) PROVE SpentInv'
      BY <1>13 DEF DeleteRead
<1>14. ASSUME NEW r \in Requests, DeleteMark(r) PROVE SpentInv'
      BY <1>14 DEF DeleteMark
<1>15. ASSUME NEW r \in Requests, DeletePurge(r) PROVE SpentInv'
      BY <1>15 DEF DeletePurge, TokensOf
<1>16. ASSUME NEW t \in RefreshTokens, Expire(t) PROVE SpentInv'
      BY <1>16 DEF Expire
<1>17. ASSUME NEW k \in ResetTokens, Lapse(k) PROVE SpentInv'
      BY <1>17 DEF Lapse
<1>18. ASSUME NEW r \in Requests, Fail(r) PROVE SpentInv'
      BY <1>18 DEF Fail
<1>19. CASE UNCHANGED vars
      BY <1>19 DEF vars
<1> QED
    BY <1>1, <1>2, <1>3, <1>4, <1>5, <1>6, <1>7, <1>8, <1>9, <1>10, <1>11,
       <1>12, <1>13, <1>14, <1>15, <1>16, <1>17, <1>18, <1>19
    DEF Next, Step

\* A crash between the two statements of a refresh loses the session but never
\* leaves two usable tokens: a token with a successor is revoked.
THEOREM ExchangedTokensSpent == Spec => []ExchangedTokenIsSpent
<1>1. Init => SpentInv
      BY ConstantsAssumption DEF Init, SpentInv, ExchangedTokenIsSpent, At, Idle
<1>2. SpentInv => ExchangedTokenIsSpent
      BY DEF SpentInv
<1> QED BY <1>1, <1>2, SpentStep, Typed, PTL DEF Spec

-----------------------------------------------------------------------------
\* A reset token in the hands of a request that may write the password is used
\* up, has not been applied, and is in no other such request's hands.
AppliedInv ==
    /\ \A k \in ResetTokens : applied[k] \in {0, 1} /\ (applied[k] = 1 => k \in used)
    /\ \A r \in Requests :
          At(r, "rehash") => req[r].token \in used /\ applied[req[r].token] = 0
    /\ \A r, s \in Requests :
          At(r, "rehash") /\ At(s, "rehash") /\ req[r].token = req[s].token => r = s

LEMMA AppliedStep == TypeInv /\ AppliedInv /\ [Next]_vars => AppliedInv'
<1> USE ConstantsAssumption
<1> SUFFICES ASSUME TypeInv, AppliedInv, [Next]_vars PROVE AppliedInv'
    OBVIOUS
<1> USE DEF TypeInv, TypeOK, Held, At, Go, Finish, Idle, Request, Steps,
            users, sessions, resets, history, AppliedInv
<1>1. ASSUME NEW r \in Requests, NEW u \in Users, LoginRead(r, u) PROVE AppliedInv'
      BY <1>1 DEF LoginRead
<1>2. ASSUME NEW r \in Requests, NEW u \in Users, GoogleLoginRead(r, u) PROVE AppliedInv'
      BY <1>2 DEF GoogleLoginRead
<1>3. ASSUME NEW r \in Requests, NEW t \in RefreshTokens, Issue(r, t) PROVE AppliedInv'
      BY <1>3 DEF Issue
<1>4. ASSUME NEW r \in Requests, NEW t \in RefreshTokens, RotateRead(r, t) PROVE AppliedInv'
      BY <1>4 DEF RotateRead
<1>5. ASSUME NEW r \in Requests, RotateRevoke(r) PROVE AppliedInv'
      BY <1>5 DEF RotateRevoke
<1>6. ASSUME NEW t \in RefreshTokens, Logout(t) PROVE AppliedInv'
      BY <1>6 DEF Logout
<1>7. ASSUME NEW r \in Requests, NEW u \in Users, ForgotRead(r, u) PROVE AppliedInv'
      BY <1>7 DEF ForgotRead
<1>8. ASSUME NEW r \in Requests, NEW k \in ResetTokens, ForgotMint(r, k) PROVE AppliedInv'
      BY <1>8 DEF ForgotMint
<1>9. ASSUME NEW r \in Requests, NEW k \in ResetTokens, ResetRead(r, k) PROVE AppliedInv'
      BY <1>9 DEF ResetRead
<1>10. ASSUME NEW r \in Requests, ResetConsume(r) PROVE AppliedInv'
      <2>1. CASE req[r].token \in used
            <3>1. Finish(r) /\ used' = used
                  BY <1>10, <2>1 DEF ResetConsume
            <3> QED BY <1>10, <3>1 DEF ResetConsume
      <2>2. CASE req[r].token \notin used
            BY <1>10, <2>2 DEF ResetConsume
      <2> QED BY <2>1, <2>2
<1>11. ASSUME NEW r \in Requests, ResetRehash(r) PROVE AppliedInv'
      BY <1>11 DEF ResetRehash, TokensOf
<1>12. ASSUME NEW r \in Requests, ResetRevokeAll(r) PROVE AppliedInv'
      BY <1>12 DEF ResetRevokeAll, TokensOf
<1>13. ASSUME NEW r \in Requests, NEW u \in Users, DeleteRead(r, u) PROVE AppliedInv'
      BY <1>13 DEF DeleteRead
<1>14. ASSUME NEW r \in Requests, DeleteMark(r) PROVE AppliedInv'
      BY <1>14 DEF DeleteMark
<1>15. ASSUME NEW r \in Requests, DeletePurge(r) PROVE AppliedInv'
      BY <1>15 DEF DeletePurge, TokensOf
<1>16. ASSUME NEW t \in RefreshTokens, Expire(t) PROVE AppliedInv'
      BY <1>16 DEF Expire
<1>17. ASSUME NEW k \in ResetTokens, Lapse(k) PROVE AppliedInv'
      BY <1>17 DEF Lapse
<1>18. ASSUME NEW r \in Requests, Fail(r) PROVE AppliedInv'
      BY <1>18 DEF Fail
<1>19. CASE UNCHANGED vars
      BY <1>19 DEF vars
<1> QED
    BY <1>1, <1>2, <1>3, <1>4, <1>5, <1>6, <1>7, <1>8, <1>9, <1>10, <1>11,
       <1>12, <1>13, <1>14, <1>15, <1>16, <1>17, <1>18, <1>19
    DEF Next, Step

\* However many requests submit a reset token, and wherever they crash, the
\* token changes the password at most once.
THEOREM ResetAppliedOnce == Spec => []ResetTokenAppliedOnce
<1>1. Init => AppliedInv
      BY ConstantsAssumption DEF Init, AppliedInv, At, Idle
<1>2. AppliedInv => ResetTokenAppliedOnce
      BY DEF AppliedInv, ResetTokenAppliedOnce
<1> QED BY <1>1, <1>2, AppliedStep, Typed, PTL DEF Spec

-----------------------------------------------------------------------------
\* The sessions a reset is about to end belong to the account it resets.
EndedInv ==
    /\ ResetEndsEarlierSessions
    /\ \A r \in Requests :
          /\ ~At(r, "revokeAll") => before[r] = {}
          /\ before[r] \subseteq TokensOf(req[r].user)

LEMMA EndedStep == TypeInv /\ EndedInv /\ [Next]_vars => EndedInv'
<1> USE ConstantsAssumption
<1> SUFFICES ASSUME TypeInv, EndedInv, [Next]_vars PROVE EndedInv'
    OBVIOUS
<1> USE DEF TypeInv, TypeOK, Held, At, Go, Finish, Idle, Request, Steps,
            users, sessions, resets, history, EndedInv, ResetEndsEarlierSessions, TokensOf
<1>1. ASSUME NEW r \in Requests, NEW u \in Users, LoginRead(r, u) PROVE EndedInv'
      BY <1>1 DEF LoginRead
<1>2. ASSUME NEW r \in Requests, NEW u \in Users, GoogleLoginRead(r, u) PROVE EndedInv'
      BY <1>2 DEF GoogleLoginRead
<1>3. ASSUME NEW r \in Requests, NEW t \in RefreshTokens, Issue(r, t) PROVE EndedInv'
      BY <1>3 DEF Issue
<1>4. ASSUME NEW r \in Requests, NEW t \in RefreshTokens, RotateRead(r, t) PROVE EndedInv'
      BY <1>4 DEF RotateRead
<1>5. ASSUME NEW r \in Requests, RotateRevoke(r) PROVE EndedInv'
      BY <1>5 DEF RotateRevoke
<1>6. ASSUME NEW t \in RefreshTokens, Logout(t) PROVE EndedInv'
      BY <1>6 DEF Logout
<1>7. ASSUME NEW r \in Requests, NEW u \in Users, ForgotRead(r, u) PROVE EndedInv'
      BY <1>7 DEF ForgotRead
<1>8. ASSUME NEW r \in Requests, NEW k \in ResetTokens, ForgotMint(r, k) PROVE EndedInv'
      BY <1>8 DEF ForgotMint
<1>9. ASSUME NEW r \in Requests, NEW k \in ResetTokens, ResetRead(r, k) PROVE EndedInv'
      BY <1>9 DEF ResetRead
<1>10. ASSUME NEW r \in Requests, ResetConsume(r) PROVE EndedInv'
      <2>1. CASE req[r].token \in used
            <3>1. Finish(r) /\ used' = used
                  BY <1>10, <2>1 DEF ResetConsume
            <3> QED BY <1>10, <3>1 DEF ResetConsume
      <2>2. CASE req[r].token \notin used
            BY <1>10, <2>2 DEF ResetConsume
      <2> QED BY <2>1, <2>2
<1>11. ASSUME NEW r \in Requests, ResetRehash(r) PROVE EndedInv'
      BY <1>11 DEF ResetRehash
<1>12. ASSUME NEW r \in Requests, ResetRevokeAll(r) PROVE EndedInv'
      BY <1>12 DEF ResetRevokeAll
<1>13. ASSUME NEW r \in Requests, NEW u \in Users, DeleteRead(r, u) PROVE EndedInv'
      BY <1>13 DEF DeleteRead
<1>14. ASSUME NEW r \in Requests, DeleteMark(r) PROVE EndedInv'
      BY <1>14 DEF DeleteMark
<1>15. ASSUME NEW r \in Requests, DeletePurge(r) PROVE EndedInv'
      BY <1>15 DEF DeletePurge
<1>16. ASSUME NEW t \in RefreshTokens, Expire(t) PROVE EndedInv'
      BY <1>16 DEF Expire
<1>17. ASSUME NEW k \in ResetTokens, Lapse(k) PROVE EndedInv'
      BY <1>17 DEF Lapse
<1>18. ASSUME NEW r \in Requests, Fail(r) PROVE EndedInv'
      BY <1>18 DEF Fail
<1>19. CASE UNCHANGED vars
      BY <1>19 DEF vars
<1> QED
    BY <1>1, <1>2, <1>3, <1>4, <1>5, <1>6, <1>7, <1>8, <1>9, <1>10, <1>11,
       <1>12, <1>13, <1>14, <1>15, <1>16, <1>17, <1>18, <1>19
    DEF Next, Step

\* A completed reset ends every session that existed when it wrote the new
\* password, whatever else ran meanwhile, and none of them comes back.
THEOREM ResetEndsSessions == Spec => []ResetEndsEarlierSessions
<1>1. Init => EndedInv
      BY ConstantsAssumption
         DEF Init, EndedInv, ResetEndsEarlierSessions, At, Idle
<1>2. EndedInv => ResetEndsEarlierSessions
      BY DEF EndedInv
<1> QED BY <1>1, <1>2, EndedStep, Typed, PTL DEF Spec

-----------------------------------------------------------------------------
\* Tokens that were read, exchanged or handed out posthumously exist; the
\* posthumous ones belong to deleted accounts and nobody is exchanging them.
PosthumousInv ==
    /\ NoPosthumousRefresh
    /\ \A t \in posthumous : owner[t] \in deleted
    /\ \A t \in RefreshTokens : parent[t] # NoToken => owner[parent[t]] # Nobody
    /\ \A r \in Requests :
          At(r, "rotate") \/ (At(r, "issue") /\ req[r].token # NoToken)
             => owner[req[r].token] # Nobody /\ req[r].token \notin posthumous

LEMMA PosthumousStep == TypeInv /\ PosthumousInv /\ [Next]_vars => PosthumousInv'
<1> USE ConstantsAssumption
<1> SUFFICES ASSUME TypeInv, PosthumousInv, [Next]_vars PROVE PosthumousInv'
    OBVIOUS
<1> USE DEF TypeInv, TypeOK, Held, At, Go, Finish, Idle, Request, Steps,
            users, sessions, resets, history, PosthumousInv, NoPosthumousRefresh
<1>1. ASSUME NEW r \in Requests, NEW u \in Users, LoginRead(r, u) PROVE PosthumousInv'
      BY <1>1 DEF LoginRead
<1>2. ASSUME NEW r \in Requests, NEW u \in Users, GoogleLoginRead(r, u) PROVE PosthumousInv'
      BY <1>2 DEF GoogleLoginRead
<1>3. ASSUME NEW r \in Requests, NEW t \in RefreshTokens, Issue(r, t) PROVE PosthumousInv'
      BY <1>3 DEF Issue
<1>4. ASSUME NEW r \in Requests, NEW t \in RefreshTokens, RotateRead(r, t) PROVE PosthumousInv'
      BY <1>4 DEF RotateRead
<1>5. ASSUME NEW r \in Requests, RotateRevoke(r) PROVE PosthumousInv'
      BY <1>5 DEF RotateRevoke
<1>6. ASSUME NEW t \in RefreshTokens, Logout(t) PROVE PosthumousInv'
      BY <1>6 DEF Logout
<1>7. ASSUME NEW r \in Requests, NEW u \in Users, ForgotRead(r, u) PROVE PosthumousInv'
      BY <1>7 DEF ForgotRead
<1>8. ASSUME NEW r \in Requests, NEW k \in ResetTokens, ForgotMint(r, k) PROVE PosthumousInv'
      BY <1>8 DEF ForgotMint
<1>9. ASSUME NEW r \in Requests, NEW k \in ResetTokens, ResetRead(r, k) PROVE PosthumousInv'
      BY <1>9 DEF ResetRead
<1>10. ASSUME NEW r \in Requests, ResetConsume(r) PROVE PosthumousInv'
      <2>1. CASE req[r].token \in used
            <3>1. Finish(r) /\ used' = used
                  BY <1>10, <2>1 DEF ResetConsume
            <3> QED BY <1>10, <3>1 DEF ResetConsume
      <2>2. CASE req[r].token \notin used
            BY <1>10, <2>2 DEF ResetConsume
      <2> QED BY <2>1, <2>2
<1>11. ASSUME NEW r \in Requests, ResetRehash(r) PROVE PosthumousInv'
      BY <1>11 DEF ResetRehash, TokensOf
<1>12. ASSUME NEW r \in Requests, ResetRevokeAll(r) PROVE PosthumousInv'
      BY <1>12 DEF ResetRevokeAll, TokensOf
<1>13. ASSUME NEW r \in Requests, NEW u \in Users, DeleteRead(r, u) PROVE PosthumousInv'
      BY <1>13 DEF DeleteRead
<1>14. ASSUME NEW r \in Requests, DeleteMark(r) PROVE PosthumousInv'
      BY <1>14 DEF DeleteMark
<1>15. ASSUME NEW r \in Requests, DeletePurge(r) PROVE PosthumousInv'
      BY <1>15 DEF DeletePurge, TokensOf
<1>16. ASSUME NEW t \in RefreshTokens, Expire(t) PROVE PosthumousInv'
      BY <1>16 DEF Expire
<1>17. ASSUME NEW k \in ResetTokens, Lapse(k) PROVE PosthumousInv'
      BY <1>17 DEF Lapse
<1>18. ASSUME NEW r \in Requests, Fail(r) PROVE PosthumousInv'
      BY <1>18 DEF Fail
<1>19. CASE UNCHANGED vars
      BY <1>19 DEF vars
<1> QED
    BY <1>1, <1>2, <1>3, <1>4, <1>5, <1>6, <1>7, <1>8, <1>9, <1>10, <1>11,
       <1>12, <1>13, <1>14, <1>15, <1>16, <1>17, <1>18, <1>19
    DEF Next, Step

\* A session handed to an account that was deleted while the handler ran cannot
\* be prolonged.
THEOREM PosthumousSessionsEnd == Spec => []NoPosthumousRefresh
<1>1. Init => PosthumousInv
      BY ConstantsAssumption
         DEF Init, PosthumousInv, NoPosthumousRefresh, At, Idle
<1>2. PosthumousInv => NoPosthumousRefresh
      BY DEF PosthumousInv
<1> QED BY <1>1, <1>2, PosthumousStep, Typed, PTL DEF Spec

-----------------------------------------------------------------------------
\* A request that exchanges a token acts for the account the token was issued
\* to, and a token that was never issued goes on from no other.
HolderInv ==
    /\ \A t \in RefreshTokens : owner[t] = Nobody => parent[t] = NoToken
    /\ \A r \in Requests :
          At(r, "rotate") \/ (At(r, "issue") /\ req[r].token # NoToken)
              => owner[req[r].token] = req[r].user

LEMMA HolderStep == TypeInv /\ HolderInv /\ [Next]_vars => HolderInv'
<1> USE ConstantsAssumption
<1> SUFFICES ASSUME TypeInv, HolderInv, [Next]_vars PROVE HolderInv'
    OBVIOUS
<1> USE DEF TypeInv, TypeOK, Held, At, Go, Finish, Idle, Request, Steps,
            users, sessions, resets, history, HolderInv
<1>1. ASSUME NEW r \in Requests, NEW u \in Users, LoginRead(r, u) PROVE HolderInv'
      BY <1>1 DEF LoginRead
<1>2. ASSUME NEW r \in Requests, NEW u \in Users, GoogleLoginRead(r, u) PROVE HolderInv'
      BY <1>2 DEF GoogleLoginRead
<1>3. ASSUME NEW r \in Requests, NEW t \in RefreshTokens, Issue(r, t) PROVE HolderInv'
      BY <1>3 DEF Issue
<1>4. ASSUME NEW r \in Requests, NEW t \in RefreshTokens, RotateRead(r, t) PROVE HolderInv'
      BY <1>4 DEF RotateRead
<1>5. ASSUME NEW r \in Requests, RotateRevoke(r) PROVE HolderInv'
      BY <1>5 DEF RotateRevoke
<1>6. ASSUME NEW t \in RefreshTokens, Logout(t) PROVE HolderInv'
      BY <1>6 DEF Logout
<1>7. ASSUME NEW r \in Requests, NEW u \in Users, ForgotRead(r, u) PROVE HolderInv'
      BY <1>7 DEF ForgotRead
<1>8. ASSUME NEW r \in Requests, NEW k \in ResetTokens, ForgotMint(r, k) PROVE HolderInv'
      BY <1>8 DEF ForgotMint
<1>9. ASSUME NEW r \in Requests, NEW k \in ResetTokens, ResetRead(r, k) PROVE HolderInv'
      BY <1>9 DEF ResetRead
<1>10. ASSUME NEW r \in Requests, ResetConsume(r) PROVE HolderInv'
      <2>1. CASE req[r].token \in used
            <3>1. Finish(r) /\ used' = used
                  BY <1>10, <2>1 DEF ResetConsume
            <3> QED BY <1>10, <3>1 DEF ResetConsume
      <2>2. CASE req[r].token \notin used
            BY <1>10, <2>2 DEF ResetConsume
      <2> QED BY <2>1, <2>2
<1>11. ASSUME NEW r \in Requests, ResetRehash(r) PROVE HolderInv'
      BY <1>11 DEF ResetRehash
<1>12. ASSUME NEW r \in Requests, ResetRevokeAll(r) PROVE HolderInv'
      BY <1>12 DEF ResetRevokeAll
<1>13. ASSUME NEW r \in Requests, NEW u \in Users, DeleteRead(r, u) PROVE HolderInv'
      BY <1>13 DEF DeleteRead
<1>14. ASSUME NEW r \in Requests, DeleteMark(r) PROVE HolderInv'
      BY <1>14 DEF DeleteMark
<1>15. ASSUME NEW r \in Requests, DeletePurge(r) PROVE HolderInv'
      BY <1>15 DEF DeletePurge
<1>16. ASSUME NEW t \in RefreshTokens, Expire(t) PROVE HolderInv'
      BY <1>16 DEF Expire
<1>17. ASSUME NEW k \in ResetTokens, Lapse(k) PROVE HolderInv'
      BY <1>17 DEF Lapse
<1>18. ASSUME NEW r \in Requests, Fail(r) PROVE HolderInv'
      BY <1>18 DEF Fail
<1>19. CASE UNCHANGED vars
      BY <1>19 DEF vars
<1> QED
    BY <1>1, <1>2, <1>3, <1>4, <1>5, <1>6, <1>7, <1>8, <1>9, <1>10, <1>11,
       <1>12, <1>13, <1>14, <1>15, <1>16, <1>17, <1>18, <1>19
    DEF Next, Step

\* Issuing a pair begins a session, or goes on with the one it was exchanged for.
LEMMA IssueIsStored ==
    ASSUME TypeInv, SpentInv, HolderInv,
           NEW r \in Requests, NEW t \in RefreshTokens, Issue(r, t)
    PROVE  Store!Next
<1> DEFINE u == req[r].user
           p == req[r].token
<1>1. /\ At(r, "issue") /\ owner[t] = Nobody
      /\ owner' = [owner EXCEPT ![t] = u]
      /\ parent' = [parent EXCEPT ![t] = p]
      /\ revoked' = revoked
      BY DEF Issue
<1>2. u \in Users /\ p \in RefreshTokens \cup {NoToken}
      BY <1>1 DEF TypeInv, Held, At
<1>3. t \notin Store!Issued
      BY <1>1 DEF Store!Issued
<1>4. CASE p = NoToken
      <2>1. parent[t] = NoToken
            BY <1>1 DEF HolderInv
      <2>2. parent' = parent
            BY <1>1, <1>4, <2>1 DEF TypeInv, TypeOK
      <2>3. Store!Begin(t, u)
            BY <1>1, <1>3, <2>2 DEF Store!Begin
      <2> QED BY <1>2, <2>3 DEF Store!Next
<1>5. CASE p # NoToken
      <2>1. p \in RefreshTokens /\ p \in revoked /\ owner[p] = u
            BY <1>1, <1>2, <1>5 DEF SpentInv, HolderInv, At
      <2>2. p \in Store!Issued
            BY <2>1, <1>2, ConstantsAssumption DEF Store!Issued
      <2>3. Store!GoOn(t, p)
            BY <1>1, <1>3, <2>1, <2>2 DEF Store!GoOn
      <2> QED BY <2>1, <2>3 DEF Store!Next
<1> QED BY <1>4, <1>5

LEMMA StoreStep ==
    TypeInv /\ SpentInv /\ HolderInv /\ [Next]_vars => [Store!Next]_(Store!store)
<1> SUFFICES ASSUME TypeInv, SpentInv, HolderInv, [Next]_vars
             PROVE  Store!Next \/ UNCHANGED Store!store
    OBVIOUS
<1> USE DEF Store!store, users, sessions, resets, history
<1>1. ASSUME NEW r \in Requests, NEW t \in RefreshTokens, Issue(r, t)
      PROVE  Store!Next
      BY <1>1, IssueIsStored
<1>2. ASSUME NEW r \in Requests, RotateRevoke(r) PROVE Store!Next
      <2> DEFINE t == req[r].token
      <2>1. At(r, "rotate") /\ revoked' = revoked \cup {t}
            /\ UNCHANGED <<owner, parent>>
            BY <1>2 DEF RotateRevoke
      <2>2. t \in RefreshTokens /\ req[r].user \in Users /\ owner[t] = req[r].user
            BY <2>1 DEF TypeInv, Held, HolderInv, At
      <2>3. t \in Store!Issued
            BY <2>2, ConstantsAssumption DEF Store!Issued
      <2>4. Store!End(t)
            BY <2>1, <2>3 DEF Store!End
      <2> QED BY <2>2, <2>4 DEF Store!Next
<1>3. ASSUME NEW t \in RefreshTokens, Logout(t) PROVE Store!Next
      <2>1. t \in Store!Issued
            BY <1>3 DEF Logout, Store!Issued
      <2>2. Store!End(t)
            BY <1>3, <2>1 DEF Logout, Store!End
      <2> QED BY <2>2 DEF Store!Next
<1>4. ASSUME NEW r \in Requests, ResetRevokeAll(r) \/ DeletePurge(r)
      PROVE  Store!Next
      <2>1. ~At(r, "idle")
            BY <1>4 DEF ResetRevokeAll, DeletePurge, At
      <2>2. req[r].user \in Users
            BY <2>1 DEF TypeInv, Held
      <2>3. Store!EndAll(req[r].user)
            BY <1>4 DEF ResetRevokeAll, DeletePurge, TokensOf, Store!EndAll
      <2> QED BY <2>2, <2>3 DEF Store!Next
<1>5. ASSUME NEW r \in Requests, NEW u \in Users,
             LoginRead(r, u) \/ GoogleLoginRead(r, u) \/ ForgotRead(r, u)
                \/ DeleteRead(r, u)
      PROVE  UNCHANGED Store!store
      BY <1>5 DEF LoginRead, GoogleLoginRead, ForgotRead, DeleteRead
<1>6. ASSUME NEW r \in Requests, NEW t \in RefreshTokens, RotateRead(r, t)
      PROVE  UNCHANGED Store!store
      BY <1>6 DEF RotateRead
<1>7. ASSUME NEW r \in Requests, NEW k \in ResetTokens,
             ForgotMint(r, k) \/ ResetRead(r, k)
      PROVE  UNCHANGED Store!store
      BY <1>7 DEF ForgotMint, ResetRead
<1>8. ASSUME NEW r \in Requests,
             ResetConsume(r) \/ ResetRehash(r) \/ DeleteMark(r) \/ Fail(r)
      PROVE  UNCHANGED Store!store
      BY <1>8 DEF ResetConsume, ResetRehash, DeleteMark, Fail
<1>9. ASSUME NEW t \in RefreshTokens, Expire(t) PROVE UNCHANGED Store!store
      BY <1>9 DEF Expire
<1>10. ASSUME NEW k \in ResetTokens, Lapse(k) PROVE UNCHANGED Store!store
      BY <1>10 DEF Lapse
<1>11. CASE UNCHANGED vars
      BY <1>11 DEF vars
<1> QED
    BY <1>1, <1>2, <1>3, <1>4, <1>5, <1>6, <1>7, <1>8, <1>9, <1>10, <1>11
    DEF Next, Step

\* The handlers, cut at every await, overlapping and failing anywhere, implement
\* a store of sessions that does each thing at once: every statement is a step of
\* the store or leaves it alone.
THEOREM SessionsAreStored == Spec => ImplementsStore
<1>1. Init => Store!Init
      BY DEF Init, Store!Init
<1>2. Init => SpentInv /\ HolderInv
      BY ConstantsAssumption
         DEF Init, SpentInv, ExchangedTokenIsSpent, HolderInv, At, Idle
<1> QED BY <1>1, <1>2, SpentStep, HolderStep, StoreStep, Typed, PTL
        DEF Spec, ImplementsStore, Store!Spec

-----------------------------------------------------------------------------
\* The exchanges of a browser are requests of the API like any other.
LEMMA WebStepsAreSteps == [WebNext]_<<vars, webVars>> => [Next]_vars
<1> SUFFICES ASSUME [WebNext]_<<vars, webVars>> PROVE [Next]_vars
    OBVIOUS
<1>1. ASSUME NEW r \in Requests, NEW t \in RefreshTokens, RefreshRead(r, t) PROVE [Next]_vars
      BY <1>1 DEF RefreshRead, Next, Step
<1>2. ASSUME NEW r \in Requests, NEW t \in RefreshTokens, TokensIssued(r, t) PROVE [Next]_vars
      BY <1>2 DEF TokensIssued, Next, Step
<1>3. ASSUME NEW r \in Requests, NEW u \in Users, SignIn(r, u) PROVE [Next]_vars
      BY <1>3 DEF SignIn, Next, Step
<1>4. ASSUME NEW r \in Requests, RefreshRevoke(r) PROVE [Next]_vars
      BY <1>4 DEF RefreshRevoke, Next, Step
<1>5. CASE UNCHANGED vars
      BY <1>5
<1>6. ASSUME NEW r \in Requests,
             \/ GetClientToken(r) \/ WatchSession(r) \/ OpenPage(r) \/ Jwt(r) \/ RefreshFails(r)
             \/ SignInFails(r) \/ SignOut(r) \/ Deliver(r) \/ Lose(r)
      PROVE  UNCHANGED vars
      BY <1>6 DEF GetClientToken, WatchSession, OpenPage, Send, Jwt, RefreshFails, SignInFails,
                  SignOut, Deliver, Lose
<1>7. ASSUME SendKept \/ Tick PROVE UNCHANGED vars
      BY <1>7 DEF SendKept, Tick
<1> QED BY <1>1, <1>2, <1>3, <1>4, <1>5, <1>6, <1>7 DEF WebNext

\* What holds of the API's sessions holds of them beside a browser.
THEOREM BrowserUsesSessions == WebSpec => Spec
BY WebStepsAreSteps, PTL DEF WebSpec, Spec

-----------------------------------------------------------------------------
VisitSteps == {"none", "sent", "calling", "waiting", "answered"}
Reasons == {"none", "token", "watch", "page", "sign-in", "sign-out"}
Visit == [at : VisitSteps, for : Reasons, since : Nat, carries : CookieRow \cup {NoCookie},
          result : CookieRow \cup {NoCookie}, read : Nat]

WebTypes ==
    /\ clock \in Nat
    /\ cookie \in CookieRow \cup {NoCookie}
    /\ tokenCache \in KeptRow \cup {NoCookie}
    /\ visit \in [Requests -> Visit]

\* While a visit calls the API it carries a cookie; a sign-in carries none, a
\* sign-out brings none back.
VisitsHold ==
    \A r \in Requests :
        LET v == visit[r] IN
        /\ v.at \in {"sent", "calling"} => v.for \in {"token", "watch", "page"}
        /\ v.at = "waiting" => v.for # "sign-out"
        /\ v.at \in {"calling", "waiting"} /\ v.for # "sign-in" => v.carries # NoCookie
        /\ v.for = "sign-in" => v.carries = NoCookie
        /\ v.for = "sign-out" => v.result = NoCookie

VisitTypes == WebTypes /\ VisitsHold

\* One request's visit goes on.
LEMMA VisitMoves ==
    ASSUME VisitTypes, NEW r \in Requests, NEW v \in Visit, visit' = [visit EXCEPT ![r] = v]
    PROVE  /\ visit' \in [Requests -> Visit]
           /\ visit'[r] = v
           /\ \A q \in Requests \ {r} : visit'[q] = visit[q]
BY DEF VisitTypes, WebTypes

\* An answer to r with the session c.
LEMMA AnswerIs ==
    ASSUME VisitTypes, NEW r \in Requests, NEW c \in CookieRow \cup {NoCookie}, Answered(r, c)
    PROVE  /\ visit' \in [Requests -> Visit]
           /\ visit'[r].at = "answered" /\ visit'[r].result = c /\ visit'[r].read = clock
           /\ visit'[r].for = visit[r].for /\ visit'[r].since = visit[r].since
           /\ visit'[r].carries = visit[r].carries
           /\ \A q \in Requests \ {r} : visit'[q] = visit[q]
<1> DEFINE v == [visit[r] EXCEPT !.at = "answered", !.result = c, !.read = clock]
<1>1. visit[r] \in Visit /\ clock \in Nat
      BY DEF VisitTypes, WebTypes
<1>2. /\ v \in Visit /\ v.at = "answered" /\ v.result = c /\ v.read = clock
      /\ v.for = visit[r].for /\ v.since = visit[r].since /\ v.carries = visit[r].carries
      BY <1>1 DEF Visit, VisitSteps
<1>3. visit' = [visit EXCEPT ![r] = v]
      BY <1>1 DEF Answered, VisitTypes, WebTypes, Visit
<1> HIDE DEF v
<1> QED BY <1>2, <1>3, VisitMoves

LEMMA VisitTypesStep ==
    TypeInv /\ VisitTypes /\ [WebNext]_<<vars, webVars>> => VisitTypes'
<1> USE WebSessionAssumption
<1> SUFFICES ASSUME TypeInv, VisitTypes, [WebNext]_<<vars, webVars>> PROVE VisitTypes'
    OBVIOUS
<1>0. /\ \A q \in Requests : visit[q] \in Visit
      /\ clock \in Nat /\ cookie \in CookieRow \cup {NoCookie}
      BY DEF VisitTypes, WebTypes
<1>v. ASSUME NEW r \in Requests, NEW v \in Visit, visit' = [visit EXCEPT ![r] = v],
             /\ v.at \in {"sent", "calling"} => v.for \in {"token", "watch", "page"}
             /\ v.at = "waiting" => v.for # "sign-out"
             /\ v.at \in {"calling", "waiting"} /\ v.for # "sign-in" => v.carries # NoCookie
             /\ v.for = "sign-in" => v.carries = NoCookie
             /\ v.for = "sign-out" => v.result = NoCookie
      PROVE  VisitsHold' /\ visit' \in [Requests -> Visit]
      BY <1>v, VisitMoves DEF VisitTypes, VisitsHold
<1>a. ASSUME NEW r \in Requests, NEW c \in CookieRow \cup {NoCookie}, Answered(r, c),
             visit[r].for = "sign-out" => c = NoCookie
      PROVE  VisitsHold' /\ visit' \in [Requests -> Visit]
      BY <1>a, AnswerIs DEF VisitTypes, VisitsHold
<1>1. ASSUME NEW r \in Requests, NEW for \in {"token", "watch", "page"}, Send(r, for)
      PROVE  VisitTypes'
      <2> DEFINE v == [Away EXCEPT !.at = "sent", !.for = for, !.carries = cookie,
                                   !.since = IF for = "token" THEN clock ELSE 0]
      <2>1. v \in Visit /\ v.at = "sent" /\ v.for = for
            BY <1>0 DEF Away, Visit, VisitSteps, Reasons
      <2>2. visit' = [visit EXCEPT ![r] = v] /\ UNCHANGED <<clock, cookie, tokenCache>>
            BY <1>1 DEF Send
      <2> HIDE DEF v
      <2> QED BY <1>1, <1>v, <2>1, <2>2 DEF VisitTypes, WebTypes
<1>2. ASSUME NEW r \in Requests, Jwt(r) PROVE VisitTypes'
      <2>1. UNCHANGED <<clock, cookie, tokenCache>> /\ visit[r].at = "sent"
            BY <1>2 DEF Jwt
      <2>2. CASE Answered(r, visit[r].carries)
            <3>1. visit[r].carries \in CookieRow \cup {NoCookie} /\ visit[r].for # "sign-out"
                  BY <1>0, <2>1 DEF Visit, VisitTypes, VisitsHold
            <3> QED BY <1>a, <2>1, <2>2, <3>1 DEF VisitTypes, WebTypes
      <2>3. CASE visit[r].carries # NoCookie /\ visit' = [visit EXCEPT ![r].at = "calling"]
            <3> DEFINE v == [visit[r] EXCEPT !.at = "calling"]
            <3>1. /\ v \in Visit /\ v.for \in {"token", "watch", "page"} /\ v.at = "calling"
                  /\ v.carries = visit[r].carries
                  BY <1>0, <2>1 DEF Visit, VisitSteps, VisitTypes, VisitsHold
            <3>2. visit' = [visit EXCEPT ![r] = v]
                  BY <2>3
            <3> HIDE DEF v
            <3> QED BY <1>v, <2>1, <2>3, <3>1, <3>2 DEF VisitTypes, WebTypes
      <2> QED BY <1>2, <2>2, <2>3 DEF Jwt
<1>3. ASSUME NEW r \in Requests, NEW t \in RefreshTokens, RefreshRead(r, t) PROVE VisitTypes'
      <2> DEFINE v == [visit[r] EXCEPT !.at = "waiting"]
      <2>1. /\ UNCHANGED <<clock, cookie, tokenCache>> /\ visit[r].at = "calling"
            /\ visit' = [visit EXCEPT ![r] = v]
            BY <1>3 DEF RefreshRead
      <2>2. /\ v \in Visit /\ v.for \in {"token", "watch", "page"} /\ v.at = "waiting"
            /\ v.carries # NoCookie
            BY <1>0, <2>1 DEF Visit, VisitSteps, VisitTypes, VisitsHold
      <2> HIDE DEF v
      <2> QED BY <1>v, <2>1, <2>2 DEF VisitTypes, WebTypes
<1>4. ASSUME NEW r \in Requests, RefreshFails(r) PROVE VisitTypes'
      <2> DEFINE c == [visit[r].carries EXCEPT !.error = "RefreshTokenExpired"]
      <2>1. UNCHANGED <<clock, cookie, tokenCache>> /\ Answered(r, c)
            BY <1>4 DEF RefreshFails
      <2>2. visit[r].carries \in CookieRow /\ visit[r].for # "sign-out"
            BY <1>0, <1>4 DEF RefreshFails, VisitTypes, VisitsHold, Visit
      <2>3. c \in CookieRow
            BY <2>2 DEF CookieRow, Errors
      <2> HIDE DEF c
      <2> QED BY <1>a, <2>1, <2>2, <2>3 DEF VisitTypes, WebTypes
<1>5. ASSUME NEW r \in Requests, NEW t \in RefreshTokens, TokensIssued(r, t) PROVE VisitTypes'
      <2>1. UNCHANGED <<clock, cookie, tokenCache>>
            BY <1>5 DEF TokensIssued
      <2>2. CASE visit' = visit
            BY <2>1, <2>2 DEF VisitTypes, WebTypes, VisitsHold
      <2>3. CASE visit[r].at = "waiting" /\ Answered(r, Refreshed(r, t))
            <3>1. Refreshed(r, t) \in CookieRow
                  BY <1>0 DEF Refreshed, CookieRow, Errors
            <3>2. visit[r].for # "sign-out"
                  BY <2>3 DEF VisitTypes, VisitsHold
            <3> QED BY <1>a, <2>1, <2>3, <3>1, <3>2 DEF VisitTypes, WebTypes
      <2> QED BY <1>5, <2>2, <2>3 DEF TokensIssued
<1>6. ASSUME NEW r \in Requests, NEW u \in Users, SignIn(r, u) PROVE VisitTypes'
      <2> DEFINE v == [Away EXCEPT !.at = "waiting", !.for = "sign-in"]
      <2>1. /\ v \in Visit /\ v.at = "waiting" /\ v.for = "sign-in" /\ v.carries = NoCookie
            BY DEF Away, Visit, VisitSteps, Reasons
      <2>2. visit' = [visit EXCEPT ![r] = v] /\ UNCHANGED <<clock, cookie, tokenCache>>
            BY <1>6 DEF SignIn
      <2> HIDE DEF v
      <2> QED BY <1>v, <2>1, <2>2 DEF VisitTypes, WebTypes
<1>away. /\ Away \in Visit /\ Away.at = "none" /\ Away.for = "none"
         BY DEF Away, Visit, VisitSteps, Reasons
<1>7. ASSUME NEW r \in Requests, SignInFails(r) PROVE VisitTypes'
      <2> DEFINE c == [refresh |-> NoToken, until |-> 0, error |-> "OAuthExchangeFailed"]
      <2>1. UNCHANGED <<clock, cookie, tokenCache>> /\ visit[r].for = "sign-in"
            BY <1>7 DEF SignInFails
      <2>2. CASE visit' = [visit EXCEPT ![r] = Away]
            BY <1>v, <1>away, <2>1, <2>2 DEF VisitTypes, WebTypes
      <2>3. CASE Answered(r, c)
            <3>1. c \in CookieRow
                  BY DEF CookieRow, Errors
            <3> HIDE DEF c
            <3> QED BY <1>a, <2>1, <2>3, <3>1 DEF VisitTypes, WebTypes
      <2> QED BY <1>7, <2>2, <2>3 DEF SignInFails
<1>8. ASSUME NEW r \in Requests, SignOut(r) PROVE VisitTypes'
      <2> DEFINE v == [Away EXCEPT !.at = "answered", !.for = "sign-out",
                                   !.carries = cookie, !.read = clock]
      <2>1. /\ v \in Visit /\ v.at = "answered" /\ v.for = "sign-out" /\ v.result = NoCookie
            BY <1>0 DEF Away, Visit, VisitSteps, Reasons
      <2>2. /\ visit' = [visit EXCEPT ![r] = v] /\ UNCHANGED <<clock, cookie>>
            /\ tokenCache' = NoCookie
            BY <1>8 DEF SignOut
      <2> HIDE DEF v
      <2> QED BY <1>v, <2>1, <2>2 DEF VisitTypes, WebTypes
<1>9. ASSUME NEW r \in Requests, Deliver(r) PROVE VisitTypes'
      <2> DEFINE c == visit[r].result
                 v == [Away EXCEPT !.at = "answered", !.for = "sign-out", !.carries = c,
                                   !.read = clock]
      <2>1. c \in CookieRow \cup {NoCookie} /\ visit[r].since \in Nat
            BY <1>0 DEF Visit
      <2>2. /\ v \in Visit /\ v.at = "answered" /\ v.for = "sign-out" /\ v.result = NoCookie
            BY <1>0, <2>1 DEF Away, Visit, VisitSteps, Reasons
      <2>3. /\ visit' \in {[visit EXCEPT ![r] = v], [visit EXCEPT ![r] = Away]}
            /\ cookie' = c /\ clock' = clock
            /\ tokenCache' \in {tokenCache, NoCookie, Cached(r, c)}
            BY <1>9 DEF Deliver
      <2>4. Cached(r, c) \in KeptRow \cup {NoCookie}
            BY <2>1 DEF Cached, CookieRow, KeptRow
      <2> HIDE DEF v, c
      <2>5. VisitsHold' /\ visit' \in [Requests -> Visit]
            BY <1>v, <1>away, <2>2, <2>3
      <2> QED BY <2>1, <2>3, <2>4, <2>5 DEF VisitTypes, WebTypes
<1>10. ASSUME NEW r \in Requests, Lose(r) PROVE VisitTypes'
      <2>1. UNCHANGED <<clock, cookie, tokenCache>> /\ visit' = [visit EXCEPT ![r] = Away]
            BY <1>10 DEF Lose
      <2> QED BY <1>v, <1>away, <2>1 DEF VisitTypes, WebTypes
<1>11. CASE UNCHANGED webVars \/ SendKept
      BY <1>11 DEF webVars, SendKept, VisitTypes, WebTypes, VisitsHold
<1>12. CASE Tick
      BY <1>12 DEF Tick, VisitTypes, WebTypes, VisitsHold
<1>13. ASSUME NEW r \in Requests, RefreshRevoke(r) PROVE VisitTypes'
      BY <1>11, <1>13 DEF RefreshRevoke
<1> QED
    BY <1>1, <1>2, <1>3, <1>4, <1>5, <1>6, <1>7, <1>8, <1>9, <1>10, <1>11, <1>12, <1>13
    DEF WebNext, GetClientToken, WatchSession, OpenPage

-----------------------------------------------------------------------------
\* An answer under way is at most thirty seconds old, and a token in it was
\* good for longer than that when it was made; one kept in the page was good
\* for as long from the moment it was asked for.
TimelyAnswer(v) ==
    /\ v.at # "none" => v.since <= clock
    /\ v.at = "answered" =>
          /\ v.since <= v.read /\ v.read <= clock /\ clock <= v.read + Lag
          /\ v.result # NoCookie /\ v.result.error = "none" => v.result.until > v.read + Skew

TimelyInv ==
    /\ TokenSentIsUnexpired
    /\ tokenCache # NoCookie /\ tokenCache.error = "none"
          => tokenCache.until > tokenCache.fetchedAt + Keep
    /\ \A r \in Requests : TimelyAnswer(visit[r])

LEMMA TimelyStep ==
    ASSUME Ttl > Skew
    PROVE  VisitTypes /\ TimelyInv /\ [WebNext]_<<vars, webVars>> => TimelyInv'
<1> USE WebSessionAssumption DEF Skew, Keep, Lag
<1> SUFFICES ASSUME VisitTypes, TimelyInv, [WebNext]_<<vars, webVars>> PROVE TimelyInv'
    OBVIOUS
<1>0. /\ \A q \in Requests : visit[q] \in Visit
      /\ clock \in Nat /\ cookie \in CookieRow \cup {NoCookie}
      /\ tokenCache \in KeptRow \cup {NoCookie}
      BY DEF VisitTypes, WebTypes
<1>k. ASSUME clock' = clock, late' = late, tokenCache' = tokenCache \/ tokenCache' = NoCookie,
             \A r \in Requests : TimelyAnswer(visit'[r])
      PROVE  TimelyInv'
      BY <1>k DEF TimelyInv, TokenSentIsUnexpired, TimelyAnswer
<1>v. ASSUME NEW r \in Requests, NEW v \in Visit, visit' = [visit EXCEPT ![r] = v], TimelyAnswer(v)
      PROVE  \A q \in Requests : TimelyAnswer(visit'[q])
      BY <1>v, VisitMoves DEF TimelyInv
<1>a. ASSUME NEW r \in Requests, NEW c \in CookieRow \cup {NoCookie}, Answered(r, c),
             visit[r].at # "none",
             c # NoCookie /\ c.error = "none" => c.until > clock + Skew
      PROVE  \A q \in Requests : TimelyAnswer(visit'[q])
      <2>1. visit[r].since \in Nat /\ visit[r].since <= clock
            BY <1>0, <1>a DEF Visit, TimelyInv, TimelyAnswer
      <2>2. TimelyAnswer(visit'[r])
            BY <1>0, <1>a, <2>1, AnswerIs DEF TimelyAnswer
      <2> QED BY <1>a, <2>2, AnswerIs DEF TimelyInv
<1>away. Away \in Visit /\ TimelyAnswer(Away)
         BY DEF Away, Visit, VisitSteps, Reasons, TimelyAnswer
<1>1. ASSUME NEW r \in Requests, NEW for \in {"token", "watch", "page"}, Send(r, for)
      PROVE  TimelyInv'
      <2> DEFINE v == [Away EXCEPT !.at = "sent", !.for = for, !.carries = cookie,
                                   !.since = IF for = "token" THEN clock ELSE 0]
      <2>1. v \in Visit /\ v.at = "sent" /\ v.since <= clock
            <3>1. v \in Visit /\ v.at = "sent"
                  BY <1>0 DEF Away, Visit, VisitSteps, Reasons
            <3>2. CASE for = "token"
                  <4>1. v.since = clock
                        BY <3>2 DEF Away
                  <4> QED BY <1>0, <3>1, <4>1
            <3>3. CASE for # "token"
                  <4>1. v.since = 0
                        BY <3>3 DEF Away
                  <4> QED BY <1>0, <3>1, <4>1
            <3> QED BY <3>2, <3>3
      <2>2. visit' = [visit EXCEPT ![r] = v] /\ UNCHANGED <<clock, tokenCache, late>>
            BY <1>1 DEF Send
      <2> HIDE DEF v
      <2>3. TimelyAnswer(v)
            BY <2>1 DEF TimelyAnswer
      <2> QED BY <1>v, <1>k, <2>1, <2>2, <2>3
<1>2. ASSUME NEW r \in Requests, Jwt(r) PROVE TimelyInv'
      <2>1. UNCHANGED <<clock, tokenCache, late>> /\ visit[r].at = "sent"
            BY <1>2 DEF Jwt
      <2> DEFINE c == visit[r].carries
      <2>2. CASE Answered(r, c) /\ (c = NoCookie \/ StillValid(c))
            <3>1. c \in CookieRow \cup {NoCookie}
                  BY <1>0 DEF Visit
            <3>2. c # NoCookie => c.until > clock + Skew
                  BY <1>0, <2>2, <3>1 DEF StillValid, CookieRow
            <3> HIDE DEF c
            <3> QED BY <1>a, <1>k, <2>1, <2>2, <3>1, <3>2
      <2>3. CASE visit' = [visit EXCEPT ![r].at = "calling"]
            <3> DEFINE v == [visit[r] EXCEPT !.at = "calling"]
            <3>1. v \in Visit /\ v.at = "calling" /\ v.since = visit[r].since
                  BY <1>0 DEF Visit, VisitSteps
            <3>2. visit' = [visit EXCEPT ![r] = v]
                  BY <2>3
            <3> HIDE DEF v
            <3>3. TimelyAnswer(v)
                  BY <2>1, <3>1 DEF TimelyAnswer, TimelyInv
            <3> QED BY <1>v, <1>k, <2>1, <3>1, <3>2, <3>3
      <2> QED BY <1>2, <2>2, <2>3 DEF Jwt
<1>3. ASSUME NEW r \in Requests, NEW t \in RefreshTokens, RefreshRead(r, t) PROVE TimelyInv'
      <2> DEFINE v == [visit[r] EXCEPT !.at = "waiting"]
      <2>1. /\ UNCHANGED <<clock, tokenCache, late>> /\ visit[r].at = "calling"
            /\ visit' = [visit EXCEPT ![r] = v]
            BY <1>3 DEF RefreshRead
      <2>2. v \in Visit /\ v.at = "waiting" /\ v.since = visit[r].since
            BY <1>0 DEF Visit, VisitSteps
      <2> HIDE DEF v
      <2>3. TimelyAnswer(v)
            BY <2>1, <2>2 DEF TimelyAnswer, TimelyInv
      <2> QED BY <1>v, <1>k, <2>1, <2>2, <2>3
<1>4. ASSUME NEW r \in Requests, RefreshFails(r) PROVE TimelyInv'
      <2> DEFINE c == [visit[r].carries EXCEPT !.error = "RefreshTokenExpired"]
      <2>1. UNCHANGED <<clock, tokenCache, late>> /\ Answered(r, c) /\ visit[r].at # "none"
            BY <1>4 DEF RefreshFails
      <2>2. visit[r].carries \in CookieRow
            BY <1>0, <1>4 DEF RefreshFails, VisitTypes, VisitsHold, Visit
      <2>3. c \in CookieRow /\ c.error # "none"
            BY <2>2 DEF CookieRow, Errors
      <2> HIDE DEF c
      <2> QED BY <1>a, <1>k, <2>1, <2>3
<1>5. ASSUME NEW r \in Requests, NEW t \in RefreshTokens, TokensIssued(r, t) PROVE TimelyInv'
      <2>1. UNCHANGED <<clock, tokenCache, late>>
            BY <1>5 DEF TokensIssued
      <2>2. CASE visit' = visit
            BY <1>k, <2>1, <2>2 DEF TimelyInv
      <2>3. CASE visit[r].at = "waiting" /\ Answered(r, Refreshed(r, t))
            <3> DEFINE c == Refreshed(r, t)
            <3>1. c \in CookieRow /\ c.until > clock + Skew
                  BY <1>0 DEF Refreshed, CookieRow, Errors
            <3> HIDE DEF c
            <3> QED BY <1>a, <1>k, <2>1, <2>3, <3>1 DEF c
      <2> QED BY <1>5, <2>2, <2>3 DEF TokensIssued
<1>6. ASSUME NEW r \in Requests, NEW u \in Users, SignIn(r, u) PROVE TimelyInv'
      <2> DEFINE v == [Away EXCEPT !.at = "waiting", !.for = "sign-in"]
      <2>1. v \in Visit /\ v.at = "waiting" /\ v.since = 0
            BY <1>0 DEF Away, Visit, VisitSteps, Reasons
      <2>2. visit' = [visit EXCEPT ![r] = v] /\ UNCHANGED <<clock, tokenCache, late>>
            BY <1>6 DEF SignIn
      <2> HIDE DEF v
      <2>3. TimelyAnswer(v)
            BY <1>0, <2>1 DEF TimelyAnswer
      <2> QED BY <1>v, <1>k, <2>1, <2>2, <2>3
<1>7. ASSUME NEW r \in Requests, SignInFails(r) PROVE TimelyInv'
      <2> DEFINE c == [refresh |-> NoToken, until |-> 0, error |-> "OAuthExchangeFailed"]
      <2>1. UNCHANGED <<clock, tokenCache, late>> /\ visit[r].at # "none"
            BY <1>7 DEF SignInFails
      <2>2. CASE visit' = [visit EXCEPT ![r] = Away]
            BY <1>v, <1>k, <1>away, <2>1, <2>2
      <2>3. CASE Answered(r, c)
            <3>1. c \in CookieRow /\ c.error # "none"
                  BY DEF CookieRow, Errors
            <3> HIDE DEF c
            <3> QED BY <1>a, <1>k, <2>1, <2>3, <3>1
      <2> QED BY <1>7, <2>2, <2>3 DEF SignInFails
<1>8. ASSUME NEW r \in Requests, SignOut(r) PROVE TimelyInv'
      <2> DEFINE v == [Away EXCEPT !.at = "answered", !.for = "sign-out",
                                   !.carries = cookie, !.read = clock]
      <2>1. /\ v \in Visit /\ v.at = "answered" /\ v.since = 0 /\ v.read = clock
            /\ v.result = NoCookie
            BY <1>0 DEF Away, Visit, VisitSteps, Reasons
      <2>2. /\ visit' = [visit EXCEPT ![r] = v] /\ UNCHANGED <<clock, late>>
            /\ tokenCache' = NoCookie
            BY <1>8 DEF SignOut
      <2> HIDE DEF v
      <2>3. TimelyAnswer(v)
            BY <1>0, <2>1 DEF TimelyAnswer
      <2> QED BY <1>v, <1>k, <2>1, <2>2, <2>3
<1>9. ASSUME NEW r \in Requests, Deliver(r) PROVE TimelyInv'
      <2> DEFINE c == visit[r].result
                 v == [Away EXCEPT !.at = "answered", !.for = "sign-out", !.carries = c,
                                   !.read = clock]
      <2>1. c \in CookieRow \cup {NoCookie} /\ visit[r].since \in Nat /\ visit[r].read \in Nat
            BY <1>0 DEF Visit
      <2>2. /\ v \in Visit /\ v.at = "answered" /\ v.since = 0 /\ v.read = clock
            /\ v.result = NoCookie
            BY <1>0, <2>1 DEF Away, Visit, VisitSteps, Reasons
      <2>3. /\ visit' \in {[visit EXCEPT ![r] = v], [visit EXCEPT ![r] = Away]}
            /\ clock' = clock /\ visit[r].at = "answered"
            /\ tokenCache' \in {tokenCache, NoCookie, Cached(r, c)}
            /\ late' = (late \/ (visit[r].for = "token" /\ ExpiredNow(c)))
            BY <1>9 DEF Deliver
      <2> HIDE DEF v
      <2>9. TimelyAnswer(v)
            BY <1>0, <2>2 DEF TimelyAnswer
      <2>4. \A q \in Requests : TimelyAnswer(visit'[q])
            BY <1>v, <1>away, <2>2, <2>3, <2>9
      <2>5. c # NoCookie /\ c.error = "none"
               => c.until > clock /\ c.until > visit[r].since + Keep
            BY <1>0, <2>1, <2>3 DEF TimelyInv, TimelyAnswer, CookieRow
      <2>6. ~ExpiredNow(c)
            BY <1>0, <2>1, <2>5 DEF ExpiredNow, CookieRow
      <2>7. tokenCache' # NoCookie /\ tokenCache'.error = "none"
               => tokenCache'.until > tokenCache'.fetchedAt + Keep
            BY <2>3, <2>5 DEF Cached, TimelyInv
      <2>8. ~late'
            BY <2>3, <2>6 DEF TimelyInv, TokenSentIsUnexpired
      <2> QED BY <2>3, <2>4, <2>7, <2>8 DEF TimelyInv, TokenSentIsUnexpired, TimelyAnswer
<1>10. ASSUME NEW r \in Requests, Lose(r) PROVE TimelyInv'
      <2>1. UNCHANGED <<clock, tokenCache, late>> /\ visit' = [visit EXCEPT ![r] = Away]
            BY <1>10 DEF Lose
      <2> QED BY <1>v, <1>k, <1>away, <2>1
<1>11. CASE UNCHANGED webVars
      BY <1>11, <1>k DEF webVars, TimelyInv
<1>12. CASE SendKept
      <2>1. UNCHANGED <<clock, visit, tokenCache>> /\ Kept /\ late' = (late \/ ExpiredNow(tokenCache))
            BY <1>12 DEF SendKept
      <2>2. ~ExpiredNow(tokenCache)
            BY <1>0, <2>1 DEF Kept, ExpiredNow, TimelyInv, KeptRow
      <2> QED BY <2>1, <2>2 DEF TimelyInv, TokenSentIsUnexpired, TimelyAnswer
<1>13. CASE Tick
      <2>1. /\ clock' = clock + 1 /\ UNCHANGED <<visit, tokenCache, late>>
            /\ \A r \in Requests : visit[r].at = "answered" => clock - visit[r].read < Lag
            BY <1>13 DEF Tick
      <2>2. ASSUME NEW r \in Requests PROVE TimelyAnswer(visit[r])'
            <3>1. visit[r] \in Visit /\ TimelyAnswer(visit[r])
                  BY <1>0 DEF TimelyInv
            <3>2. visit[r].since \in Nat /\ visit[r].read \in Nat
                  BY <3>1 DEF Visit
            <3> QED BY <1>0, <2>1, <3>1, <3>2 DEF TimelyAnswer
      <2> QED BY <2>1, <2>2 DEF TimelyInv, TokenSentIsUnexpired
<1>14. ASSUME NEW r \in Requests, RefreshRevoke(r) PROVE TimelyInv'
      BY <1>11, <1>14 DEF RefreshRevoke
<1> QED
    BY <1>1, <1>2, <1>3, <1>4, <1>5, <1>6, <1>7, <1>8, <1>9, <1>10, <1>11, <1>12, <1>13, <1>14
    DEF WebNext, GetClientToken, WatchSession, OpenPage

-----------------------------------------------------------------------------
\* The tokens somebody has exchanged or is about to, and those that exist.
Used ==
    {t \in RefreshTokens :
        \/ \E x \in RefreshTokens : parent[x] = t
        \/ \E q \in Requests : (At(q, "rotate") \/ At(q, "issue")) /\ req[q].token = t}
Known == {NoToken} \cup {t \in RefreshTokens : owner[t] # Nobody}

\* Whatever a cookie, an answer or a handler holds has been issued.
KnownCookie(c) ==
    c # NoCookie => c.refresh \in Known /\ (c.error = "none" => c.refresh # NoToken)
KnownInv ==
    /\ KnownCookie(cookie)
    /\ \A r \in Requests : KnownCookie(visit[r].carries) /\ KnownCookie(visit[r].result)
    /\ \A t \in RefreshTokens : parent[t] \in Known
    /\ \A r \in Requests : At(r, "rotate") \/ At(r, "issue") => req[r].token \in Known

\* A token an answer brings for the first time is nowhere else yet.
Without(t, c) == c # NoCookie => c.refresh # t
FreshInv ==
    \A r \in Requests :
        LET c == visit[r].result IN
        c # NoCookie /\ c.error = "none" /\ c # visit[r].carries =>
           /\ c.refresh \notin Used /\ Without(c.refresh, cookie)
           /\ \A q \in Requests : Without(c.refresh, visit[q].carries)
           /\ \A q \in Requests \ {r} : Without(c.refresh, visit[q].result)

\* Until answers cross or are lost: one who exchanges the token of the cookie
\* is on a visit that carries the cookie and brings another one back.
Exchanging ==
    {q \in Requests : /\ visit[q].at \in {"waiting", "answered"} /\ visit[q].carries = cookie
                      /\ visit[q].at = "answered" => visit[q].result # cookie}
CurrentInv ==
    ~disturbed /\ cookie # NoCookie /\ cookie.error = "none" =>
       /\ cookie.refresh \in Used => Exchanging # {}
       /\ \A q \in Requests : visit[q].carries = cookie \/ Without(cookie.refresh, visit[q].carries)

WebInv == KnownInv /\ FreshInv /\ CurrentInv

\* A step of one visit that brings no new token and uses none.
LEMMA QuietStep ==
    ASSUME TypeInv, VisitTypes, WebInv,
           NEW r \in Requests, \A q \in Requests \ {r} : visit'[q] = visit[q],
           cookie' = cookie, ~disturbed' => ~disturbed,
           Used' \subseteq Used, Known \subseteq Known',
           \A t \in RefreshTokens : parent'[t] \in Known',
           \A q \in Requests : (At(q, "rotate") \/ At(q, "issue"))' => req'[q].token \in Known',
           visit'[r].carries \in {visit[r].carries, cookie, NoCookie},
           \/ visit'[r].result = NoCookie
           \/ visit'[r].carries = visit[r].carries /\ visit'[r].result = visit[r].result
           \/ visit'[r].carries = visit[r].carries /\ visit'[r].result = visit[r].carries
           \/ /\ visit'[r].result.error # "none"
              /\ \/ visit'[r].result.refresh = NoToken
                 \/ /\ visit[r].carries # NoCookie
                    /\ visit'[r].result.refresh = visit[r].carries.refresh,
           ~disturbed' /\ cookie # NoCookie /\ cookie.error = "none" /\ r \in Exchanging
              => r \in Exchanging'
    PROVE  WebInv'
<1> USE DEF WebInv, KnownInv, FreshInv, CurrentInv, KnownCookie, Without
<1>0. /\ \A q \in Requests : /\ visit[q].carries \in CookieRow \cup {NoCookie}
                             /\ visit[q].result \in CookieRow \cup {NoCookie}
      /\ cookie \in CookieRow \cup {NoCookie}
      BY DEF VisitTypes, WebTypes, Visit
<1>1. NoToken \in Known
      BY DEF Known
<1>2. KnownInv'
      <2>1. KnownCookie(visit[r].carries)' /\ KnownCookie(visit[r].result)'
            BY <1>1
      <2>2. \A q \in Requests : KnownCookie(visit[q].carries)' /\ KnownCookie(visit[q].result)'
            BY <1>1, <2>1
      <2> QED BY <1>1, <2>2
<1>3. FreshInv'
      <2> SUFFICES ASSUME NEW q \in Requests, visit'[q].result # NoCookie,
                          visit'[q].result.error = "none", visit'[q].result # visit'[q].carries
                   PROVE  LET t == visit'[q].result.refresh IN
                          /\ t \notin Used' /\ Without(t, cookie')
                          /\ \A p \in Requests : Without(t, visit'[p].carries)
                          /\ \A p \in Requests \ {q} : Without(t, visit'[p].result)
          OBVIOUS
      <2> DEFINE t == visit[q].result.refresh
      <2>1. /\ visit'[q].result = visit[q].result /\ visit'[q].carries = visit[q].carries
            /\ t # NoToken
            BY <1>0
      <2>2. /\ t \notin Used /\ Without(t, cookie)
            /\ \A p \in Requests : Without(t, visit[p].carries)
            /\ \A p \in Requests \ {q} : Without(t, visit[p].result)
            BY <2>1
      <2>3. t \notin Used' /\ Without(t, cookie')
            BY <2>2
      <2>4. \A p \in Requests : Without(t, visit'[p].carries)
            BY <2>2
      <2>5. \A p \in Requests \ {q} : Without(t, visit'[p].result)
            BY <2>1, <2>2
      <2> QED BY <2>1, <2>3, <2>4, <2>5
<1>4. CurrentInv'
      <2> SUFFICES ASSUME ~disturbed', cookie # NoCookie, cookie.error = "none"
                   PROVE  /\ cookie.refresh \in Used' => Exchanging' # {}
                          /\ \A q \in Requests : visit'[q].carries = cookie
                                                \/ Without(cookie.refresh, visit'[q].carries)
          OBVIOUS
      <2>1. Exchanging # {} => Exchanging' # {}
            BY DEF Exchanging
      <2> QED BY <2>1
<1> QED BY <1>2, <1>3, <1>4

LEMMA WebInvStep ==
    TypeInv /\ VisitTypes /\ WebInv /\ [WebNext]_<<vars, webVars>> => WebInv'
<1> USE WebSessionAssumption, ConstantsAssumption
<1> SUFFICES ASSUME TypeInv, VisitTypes, WebInv, [WebNext]_<<vars, webVars>> PROVE WebInv'
    OBVIOUS
<1>0. /\ \A q \in Requests : /\ visit[q] \in Visit
                             /\ visit[q].carries \in CookieRow \cup {NoCookie}
                             /\ visit[q].result \in CookieRow \cup {NoCookie}
      /\ clock \in Nat /\ cookie \in CookieRow \cup {NoCookie}
      /\ visit \in [Requests -> Visit]
      BY DEF VisitTypes, WebTypes, Visit
<1>q. ASSUME UNCHANGED vars
      PROVE  /\ Used' = Used /\ Known' = Known
             /\ \A t \in RefreshTokens : parent'[t] \in Known'
             /\ \A q \in Requests : (At(q, "rotate") \/ At(q, "issue"))' => req'[q].token \in Known'
      BY <1>q DEF vars, Used, Known, At, WebInv, KnownInv
<1>away. Away.carries = NoCookie /\ Away.result = NoCookie /\ Away.at = "none"
         BY DEF Away
<1>1. ASSUME NEW r \in Requests, NEW for, Send(r, for) PROVE WebInv'
      <2> DEFINE v == [Away EXCEPT !.at = "sent", !.for = for, !.carries = cookie,
                                   !.since = IF for = "token" THEN clock ELSE 0]
      <2>1. v.carries = cookie /\ v.result = NoCookie
            BY DEF Away
      <2>2. /\ visit' = [visit EXCEPT ![r] = v] /\ UNCHANGED <<vars, cookie, disturbed>>
            /\ visit[r].at = "none"
            BY <1>1 DEF Send, Ready
      <2> HIDE DEF v
      <2>3. visit'[r] = v /\ \A q \in Requests \ {r} : visit'[q] = visit[q]
            BY <1>0, <2>2
      <2>4. r \notin Exchanging
            BY <2>2 DEF Exchanging
      <2> QED BY <1>q, <2>1, <2>2, <2>3, <2>4, QuietStep
<1>2. ASSUME NEW r \in Requests, Jwt(r) PROVE WebInv'
      <2>1. UNCHANGED <<vars, cookie, disturbed>> /\ visit[r].at = "sent"
            BY <1>2 DEF Jwt
      <2>2. r \notin Exchanging
            BY <2>1 DEF Exchanging
      <2>3. CASE Answered(r, visit[r].carries)
            <3>1. /\ visit'[r].carries = visit[r].carries /\ visit'[r].result = visit[r].carries
                  /\ \A q \in Requests \ {r} : visit'[q] = visit[q]
                  BY <1>0, <2>3, AnswerIs
            <3> QED BY <1>q, <2>1, <2>2, <3>1, QuietStep
      <2>4. CASE visit' = [visit EXCEPT ![r].at = "calling"]
            <3>1. /\ visit'[r].carries = visit[r].carries /\ visit'[r].result = visit[r].result
                  /\ \A q \in Requests \ {r} : visit'[q] = visit[q]
                  BY <1>0, <2>4 DEF Visit
            <3> QED BY <1>q, <2>1, <2>2, <3>1, QuietStep
      <2> QED BY <1>2, <2>3, <2>4 DEF Jwt
<1>3. ASSUME NEW r \in Requests, RefreshFails(r) PROVE WebInv'
      <2> DEFINE c == [visit[r].carries EXCEPT !.error = "RefreshTokenExpired"]
      <2>1. UNCHANGED <<vars, cookie, disturbed>> /\ Answered(r, c)
            BY <1>3 DEF RefreshFails
      <2>2. visit[r].carries \in CookieRow /\ visit[r].carries # NoCookie
            BY <1>0, <1>3 DEF RefreshFails, VisitTypes, VisitsHold
      <2>3. c \in CookieRow /\ c.error = "RefreshTokenExpired" /\ c.refresh = visit[r].carries.refresh
            BY <2>2 DEF CookieRow, Errors
      <2> HIDE DEF c
      <2>4. /\ visit'[r].carries = visit[r].carries /\ visit'[r].result = c
            /\ visit'[r].at = "answered"
            /\ \A q \in Requests \ {r} : visit'[q] = visit[q]
            BY <1>0, <2>1, <2>3, AnswerIs
      <2>5. cookie.error = "none" /\ r \in Exchanging => r \in Exchanging'
            BY <2>1, <2>3, <2>4 DEF Exchanging
      <2> QED BY <1>q, <2>1, <2>2, <2>3, <2>4, <2>5, QuietStep
<1>4. ASSUME NEW r \in Requests, SignInFails(r) PROVE WebInv'
      <2> DEFINE c == [refresh |-> NoToken, until |-> 0, error |-> "OAuthExchangeFailed"]
      <2>1. UNCHANGED <<vars, cookie, disturbed>> /\ visit[r].for = "sign-in"
            BY <1>4 DEF SignInFails
      <2>2. cookie # NoCookie => r \notin Exchanging
            BY <2>1 DEF Exchanging, VisitTypes, VisitsHold
      <2>3. CASE visit' = [visit EXCEPT ![r] = Away]
            <3>1. visit'[r] = Away /\ \A q \in Requests \ {r} : visit'[q] = visit[q]
                  BY <1>0, <2>3
            <3> QED BY <1>q, <1>away, <2>1, <2>2, <3>1, QuietStep
      <2>4. CASE Answered(r, c)
            <3>1. c \in CookieRow /\ c.error # "none" /\ c.refresh = NoToken
                  BY DEF CookieRow, Errors
            <3> HIDE DEF c
            <3>2. /\ visit'[r].carries = visit[r].carries /\ visit'[r].result = c
                  /\ \A q \in Requests \ {r} : visit'[q] = visit[q]
                  BY <1>0, <2>4, <3>1, AnswerIs
            <3> QED BY <1>q, <2>1, <2>2, <3>1, <3>2, QuietStep
      <2> QED BY <1>4, <2>3, <2>4 DEF SignInFails
<1>5. ASSUME NEW r \in Requests, SignOut(r) PROVE WebInv'
      <2> DEFINE v == [Away EXCEPT !.at = "answered", !.for = "sign-out",
                                   !.carries = cookie, !.read = clock]
      <2>1. v.carries = cookie /\ v.result = NoCookie
            BY DEF Away
      <2>2. /\ visit' = [visit EXCEPT ![r] = v] /\ UNCHANGED <<vars, cookie, disturbed>>
            /\ visit[r].at = "none"
            BY <1>5 DEF SignOut, Ready
      <2> HIDE DEF v
      <2>3. visit'[r] = v /\ \A q \in Requests \ {r} : visit'[q] = visit[q]
            BY <1>0, <2>2
      <2>4. r \notin Exchanging
            BY <2>2 DEF Exchanging
      <2> QED BY <1>q, <2>1, <2>2, <2>3, <2>4, QuietStep
<1>6. ASSUME NEW r \in Requests, Lose(r) PROVE WebInv'
      <2>1. /\ UNCHANGED <<vars, cookie>> /\ visit' = [visit EXCEPT ![r] = Away]
            /\ visit[r].at = "answered"
            /\ disturbed' = (disturbed \/ visit[r].result # visit[r].carries)
            BY <1>6 DEF Lose
      <2>2. visit'[r] = Away /\ \A q \in Requests \ {r} : visit'[q] = visit[q]
            BY <1>0, <2>1
      <2>3. ~disturbed' => ~disturbed /\ r \notin Exchanging
            BY <2>1 DEF Exchanging
      <2> QED BY <1>q, <1>away, <2>1, <2>2, <2>3, QuietStep
<1>7. CASE UNCHANGED <<vars, webVars>> \/ SendKept \/ Tick
      BY <1>7 DEF vars, webVars, SendKept, Tick, WebInv, KnownInv, FreshInv, CurrentInv, Used,
                  Known, KnownCookie, Without, Exchanging, At
<1>8. ASSUME NEW r \in Requests, RefreshRevoke(r) PROVE WebInv'
      <2>1. /\ UNCHANGED webVars /\ UNCHANGED <<owner, parent>>
            /\ At(r, "rotate") /\ Go(r, "issue", req[r].user, req[r].token)
            BY <1>8 DEF RefreshRevoke, RotateRevoke, users, resets, history
      <2>2. req \in [Requests -> Request]
            BY DEF TypeInv, TypeOK
      <2>3. /\ req'[r].token = req[r].token /\ req'[r].at = "issue"
            /\ \A q \in Requests \ {r} : req'[q] = req[q]
            BY <2>1, <2>2 DEF Go
      <2>4. Used' \subseteq Used
            BY <2>1, <2>3 DEF Used, At
      <2>5. /\ \A q \in Requests : (At(q, "rotate") \/ At(q, "issue"))' => req'[q].token \in Known'
            /\ Known' = Known /\ \A t \in RefreshTokens : parent'[t] \in Known'
            BY <2>1, <2>3 DEF At, WebInv, KnownInv, Known
      <2>6. UNCHANGED <<visit, cookie, disturbed>>
            BY <2>1 DEF webVars
      <2>7. Exchanging' = Exchanging
            BY <2>6 DEF Exchanging
      <2> QED BY <2>1, <2>4, <2>5, <2>6, <2>7, QuietStep
<1>9. ASSUME NEW r \in Requests, NEW u \in Users, SignIn(r, u) PROVE WebInv'
      <2> DEFINE v == [Away EXCEPT !.at = "waiting", !.for = "sign-in"]
      <2>1. v.carries = NoCookie /\ v.result = NoCookie
            BY DEF Away
      <2>2. /\ visit' = [visit EXCEPT ![r] = v] /\ UNCHANGED <<cookie, disturbed, owner, parent>>
            /\ visit[r].at = "none" /\ Go(r, "issue", u, NoToken)
            BY <1>9 DEF SignIn, LoginRead, GoogleLoginRead, sessions, history
      <2> HIDE DEF v
      <2>3. visit'[r] = v /\ \A q \in Requests \ {r} : visit'[q] = visit[q]
            BY <1>0, <2>2
      <2>4. r \notin Exchanging
            BY <2>2 DEF Exchanging
      <2>5. req \in [Requests -> Request]
            BY DEF TypeInv, TypeOK
      <2>6. req'[r].token = NoToken /\ \A q \in Requests \ {r} : req'[q] = req[q]
            BY <2>2, <2>5 DEF Go
      <2>7. Used' \subseteq Used
            BY <2>2, <2>6 DEF Used, At
      <2>8. /\ \A q \in Requests : (At(q, "rotate") \/ At(q, "issue"))' => req'[q].token \in Known'
            /\ Known' = Known /\ \A t \in RefreshTokens : parent'[t] \in Known'
            BY <2>2, <2>6 DEF At, WebInv, KnownInv, Known
      <2> QED BY <2>1, <2>2, <2>3, <2>4, <2>7, <2>8, QuietStep
<1>10. ASSUME NEW r \in Requests, NEW t \in RefreshTokens, RefreshRead(r, t) PROVE WebInv'
      <2>1. /\ UNCHANGED <<cookie, disturbed, owner, parent>> /\ visit[r].at = "calling"
            /\ visit[r].carries.refresh = t /\ owner[t] # Nobody
            /\ visit' = [visit EXCEPT ![r].at = "waiting"]
            /\ Go(r, "rotate", owner[t], t)
            BY <1>10 DEF RefreshRead, RotateRead, sessions, history
      <2>2. visit[r].carries # NoCookie
            BY <2>1 DEF VisitTypes, VisitsHold
      <2>3. /\ visit'[r].carries = visit[r].carries /\ visit'[r].result = visit[r].result
            /\ visit'[r].at = "waiting"
            /\ \A q \in Requests \ {r} : visit'[q] = visit[q]
            BY <1>0, <2>1 DEF Visit
      <2>4. req'[r].token = t /\ \A q \in Requests \ {r} : req'[q] = req[q]
            BY <2>1 DEF Go, TypeInv, TypeOK
      <2>5. Used' \subseteq Used \cup {t} /\ Known' = Known /\ t \in Known
            BY <2>1, <2>4 DEF Used, Known, At
      <2>6. KnownInv'
            BY <2>1, <2>3, <2>4, <2>5 DEF WebInv, KnownInv, KnownCookie, At
      <2>7. FreshInv'
            BY <2>1, <2>2, <2>3, <2>5 DEF WebInv, FreshInv, Without
      <2>8. CurrentInv'
            <3> SUFFICES ASSUME ~disturbed, cookie # NoCookie, cookie.error = "none"
                         PROVE  /\ cookie.refresh \in Used' => Exchanging' # {}
                                /\ \A q \in Requests :
                                      \/ visit'[q].carries = cookie
                                      \/ Without(cookie.refresh, visit'[q].carries)
                BY <2>1 DEF CurrentInv
            <3>1. cookie.refresh = t => r \in Exchanging'
                  BY <2>1, <2>2, <2>3 DEF WebInv, CurrentInv, Without, Exchanging
            <3>2. Exchanging \subseteq Exchanging'
                  BY <2>1, <2>3 DEF Exchanging
            <3>3. cookie.refresh \in Used => Exchanging # {}
                  BY DEF WebInv, CurrentInv
            <3>4. \A q \in Requests : \/ visit[q].carries = cookie
                                      \/ Without(cookie.refresh, visit[q].carries)
                  BY DEF WebInv, CurrentInv
            <3> QED BY <2>3, <2>5, <3>1, <3>2, <3>3, <3>4
      <2> QED BY <2>6, <2>7, <2>8 DEF WebInv
<1>11. ASSUME NEW r \in Requests, NEW t \in RefreshTokens, TokensIssued(r, t) PROVE WebInv'
      <2>1. /\ UNCHANGED <<cookie, disturbed>> /\ At(r, "issue") /\ owner[t] = Nobody
            /\ owner' = [owner EXCEPT ![t] = req[r].user]
            /\ parent' = [parent EXCEPT ![t] = req[r].token] /\ Finish(r)
            BY <1>11 DEF TokensIssued, Issue
      <2>2. /\ req'[r].at = "idle" /\ \A q \in Requests \ {r} : req'[q] = req[q]
            /\ parent'[t] = req[r].token /\ \A x \in RefreshTokens \ {t} : parent'[x] = parent[x]
            BY <2>1 DEF Finish, Idle, TypeInv, TypeOK
      <2>3. Known' = Known \cup {t} /\ t \notin Known /\ t # NoToken
            BY <2>1 DEF Known, TypeInv, TypeOK, Held, At
      <2>4. Used' \subseteq Used
            BY <2>1, <2>2 DEF Used, At
      <2>5. /\ \A x \in RefreshTokens : parent'[x] \in Known'
            /\ \A q \in Requests : (At(q, "rotate") \/ At(q, "issue"))' => req'[q].token \in Known'
            BY <2>1, <2>2, <2>3 DEF At, WebInv, KnownInv
      <2>6. CASE visit' = visit
            <3>1. Exchanging' = Exchanging
                  BY <2>1, <2>6 DEF Exchanging
            <3> QED BY <2>1, <2>3, <2>4, <2>5, <2>6, <3>1, QuietStep
      <2>7. CASE visit[r].at = "waiting" /\ Answered(r, Refreshed(r, t))
            <3> DEFINE c == Refreshed(r, t)
            <3>1. c \in CookieRow /\ c.refresh = t /\ c.error = "none"
                  BY <1>0 DEF Refreshed, CookieRow, Errors
            <3> HIDE DEF c
            <3>2. /\ visit'[r].carries = visit[r].carries /\ visit'[r].result = c
                  /\ visit'[r].at = "answered"
                  /\ \A q \in Requests \ {r} : visit'[q] = visit[q]
                  BY <1>0, <2>7, <3>1, AnswerIs DEF c
            <3>3. t \notin Used
                  BY <2>3 DEF Used, WebInv, KnownInv
            <3>4. KnownInv'
                  BY <2>1, <2>3, <2>5, <3>1, <3>2 DEF WebInv, KnownInv, KnownCookie
            <3>5. /\ Without(t, cookie)
                  /\ \A q \in Requests : Without(t, visit[q].carries) /\ Without(t, visit[q].result)
                  BY <2>3 DEF WebInv, KnownInv, KnownCookie, Without
            <3>6. FreshInv'
                  BY <2>1, <2>4, <3>1, <3>2, <3>3, <3>5 DEF WebInv, FreshInv, Without
            <3>7. cookie # NoCookie => Exchanging \subseteq Exchanging'
                  BY <2>1, <3>1, <3>2, <3>5 DEF Exchanging, Without
            <3>8. CurrentInv'
                  BY <2>1, <2>4, <3>2, <3>7 DEF WebInv, CurrentInv
            <3> QED BY <3>4, <3>6, <3>8 DEF WebInv
      <2> QED BY <1>11, <2>6, <2>7 DEF TokensIssued
<1>12. ASSUME NEW r \in Requests, Deliver(r) PROVE WebInv'
      <2> DEFINE c == visit[r].result
                 v == [Away EXCEPT !.at = "answered", !.for = "sign-out", !.carries = c,
                                   !.read = clock]
      <2>1. UNCHANGED vars /\ cookie' = c /\ visit[r].at = "answered"
            BY <1>12 DEF Deliver
      <2>2. disturbed' = (disturbed \/ (visit[r].for # "sign-in" /\ cookie # visit[r].carries))
            BY <1>12 DEF Deliver
      <2>3. \/ visit' = [visit EXCEPT ![r] = Away]
            \/ visit' = [visit EXCEPT ![r] = v] /\ c # NoCookie /\ c.error = "RefreshTokenExpired"
            BY <1>12 DEF Deliver, IsLoggedIn
      <2>4. v.carries = c /\ v.result = NoCookie
            BY DEF Away
      <2>5. visit[r].for = "sign-in" => visit[r].carries = NoCookie
            BY DEF VisitTypes, VisitsHold
      <2> HIDE DEF v
      <2>6. /\ \A q \in Requests \ {r} : visit'[q] = visit[q]
            /\ visit'[r].result = NoCookie
            /\ \/ visit'[r].carries = NoCookie
               \/ visit'[r].carries = c /\ c # NoCookie /\ c.error = "RefreshTokenExpired"
            BY <1>0, <1>away, <2>3, <2>4
      <2> HIDE DEF c
      <2>7. KnownInv'
            BY <1>q, <2>1, <2>6 DEF WebInv, KnownInv, KnownCookie, c
      <2>8. FreshInv'
            BY <1>q, <2>1, <2>6 DEF WebInv, FreshInv, Without, c
      <2>9. CurrentInv'
            <3> SUFFICES ASSUME ~disturbed', c # NoCookie, c.error = "none"
                         PROVE  /\ c.refresh \in Used' => Exchanging' # {}
                                /\ \A q \in Requests :
                                      \/ visit'[q].carries = c
                                      \/ Without(c.refresh, visit'[q].carries)
                BY <2>1 DEF CurrentInv
            <3>1. CASE c # visit[r].carries
                  <4>1. /\ c.refresh \notin Used
                        /\ \A q \in Requests : Without(c.refresh, visit[q].carries)
                        BY <3>1 DEF WebInv, FreshInv, c
                  <4> QED BY <1>q, <2>1, <2>6, <4>1 DEF Without
            <3>2. CASE c = visit[r].carries
                  <4>1. ~disturbed /\ cookie = c
                        BY <2>2, <2>5, <3>2
                  <4>2. r \notin Exchanging
                        BY <2>1, <4>1 DEF Exchanging, c
                  <4>3. Exchanging \subseteq Exchanging'
                        BY <2>1, <2>6, <4>1, <4>2 DEF Exchanging
                  <4> QED BY <1>q, <2>1, <2>6, <4>1, <4>3 DEF WebInv, CurrentInv, Without
            <3> QED BY <3>1, <3>2
      <2> QED BY <2>7, <2>8, <2>9 DEF WebInv
<1> QED
    BY <1>1, <1>2, <1>3, <1>4, <1>5, <1>6, <1>7, <1>8, <1>9, <1>10, <1>11, <1>12
    DEF WebNext, GetClientToken, WatchSession, OpenPage

LEMMA WebInitial == Init /\ WebInit => VisitTypes /\ TimelyInv /\ WebInv
<1> SUFFICES ASSUME Init, WebInit PROVE VisitTypes /\ TimelyInv /\ WebInv
    OBVIOUS
<1>1. /\ Away \in Visit /\ Away.at = "none" /\ Away.for = "none"
      /\ Away.carries = NoCookie /\ Away.result = NoCookie
      BY DEF Away, Visit, VisitSteps, Reasons
<1>2. /\ visit \in [Requests -> Visit] /\ \A r \in Requests : visit[r] = Away
      /\ clock = 0 /\ cookie = NoCookie /\ tokenCache = NoCookie /\ late = FALSE
      BY <1>1 DEF WebInit
<1>3. VisitTypes
      BY <1>1, <1>2 DEF VisitTypes, WebTypes, VisitsHold
<1>4. TimelyInv
      BY <1>1, <1>2 DEF TimelyInv, TokenSentIsUnexpired, TimelyAnswer
<1>5. WebInv
      BY <1>1, <1>2 DEF Init, At, Idle, Known, KnownCookie, WebInv, KnownInv, FreshInv, CurrentInv
<1> QED BY <1>3, <1>4, <1>5

LEMMA VisitsTyped == WebSpec => [](TypeInv /\ VisitTypes)
BY TypeInit, TypeStep, WebInitial, VisitTypesStep, WebStepsAreSteps, PTL DEF WebSpec

\* lib/api.ts and auth.ts: no access token is sent after it has expired, as
\* long as one lives longer than the thirty seconds at the end of its life
\* that are not counted on.
THEOREM SentTokenGood ==
    ASSUME Ttl > Skew
    PROVE  WebSpec => []TokenSentIsUnexpired
<1>1. TimelyInv => TokenSentIsUnexpired
      BY DEF TimelyInv
<1>2. VisitTypes /\ TimelyInv /\ [WebNext]_<<vars, webVars>> => TimelyInv'
      BY TimelyStep
<1> QED BY <1>1, <1>2, WebInitial, VisitsTyped, PTL DEF WebSpec

\* auth.ts: until answers cross or get lost, the session of the browser holds
\* a refresh token that has not been exchanged.
THEOREM CookieCurrent == WebSpec => []CookieIsCurrent
<1>1. TypeInv /\ VisitTypes /\ WebInv => CookieIsCurrent
      <2> SUFFICES ASSUME TypeInv, VisitTypes, WebInv, ~disturbed, cookie # NoCookie,
                          cookie.error = "none", NEW t \in RefreshTokens, parent[t] = cookie.refresh
                   PROVE  \E r \in Requests : visit[r].at # "none" /\ visit[r].carries = cookie
          BY DEF CookieIsCurrent
      <2>1. cookie.refresh # NoToken
            BY DEF WebInv, KnownInv, KnownCookie
      <2>2. cookie.refresh \in Used
            BY <2>1 DEF Used, TypeInv, TypeOK
      <2> QED BY <2>2 DEF WebInv, CurrentInv, Exchanging
<1> QED BY <1>1, WebInitial, WebInvStep, VisitsTyped, PTL DEF WebSpec
=============================================================================
