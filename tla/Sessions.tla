------------------------------ MODULE Sessions ------------------------------
(***************************************************************************)
(* Refresh tokens, password resets and account deletion: token.service.ts, *)
(* the session half of auth.service.ts, and UsersService.deleteAccount.    *)
(*                                                                         *)
(* Every handler is cut at its awaits: one action is one database          *)
(* statement together with the synchronous code around it, so requests     *)
(* interleave here exactly where the event loop and the replicas let them. *)
(* A request keeps what it has read in req[r] and may act on it after the  *)
(* rows have changed.  Fail(r) is a rejected await or a dead process: what *)
(* was already written stays, the rest of the handler never runs.          *)
(***************************************************************************)
EXTENDS Naturals, FiniteSets

CONSTANTS Users,        \* account rows
          RefreshTokens, \* refresh tokens that may be issued (bounds issuing)
          ResetTokens,  \* PASSWORD_RESET tokens that may be minted (same)
          Requests,     \* handlers that can be in flight at once
          Nobody,       \* owner of a token that does not exist yet
          NoToken       \* a request that carries no token

ASSUME ConstantsAssumption ==
    /\ Nobody \notin Users
    /\ NoToken \notin RefreshTokens \cup ResetTokens

VARIABLES
    hasPassword, \* users whose passwordHash is not NULL
    deleted,    \* users with deletedAt set
    owner,      \* owner[t]: refresh_tokens.userId, Nobody before creation
    revoked,    \* refresh tokens with revokedAt set
    expired,    \* refresh tokens past expiresAt
    minted,     \* minted[k]: verification_tokens.userId of a reset token
    used,       \* reset tokens with usedAt set
    lapsed,     \* reset tokens past expiresAt
    req,        \* req[r]: what the handler in flight as r has read so far
    parent,     \* history: the token a refresh token was exchanged for
    posthumous, \* history: refresh tokens created for a deleted account
    applied,    \* history: how often a reset token changed a password
    before,     \* history: before[r], sessions that r's new password ends
    ended       \* history: sessions that completed resets must have ended

users == <<hasPassword, deleted>>
sessions == <<owner, revoked, expired>>
resets == <<minted, used, lapsed>>
history == <<parent, posthumous, applied, before, ended>>
vars == <<hasPassword, deleted, owner, revoked, expired, minted, used, lapsed, req,
          parent, posthumous, applied, before, ended>>

-----------------------------------------------------------------------------
Steps == {"idle", "issue", "rotate", "mint", "consume", "rehash",
          "revokeAll", "delete", "purge"}

Request == [at : Steps, user : Users \cup {Nobody},
            token : RefreshTokens \cup ResetTokens \cup {NoToken}]

Idle == [at |-> "idle", user |-> Nobody, token |-> NoToken]

At(r, step) == req[r].at = step

\* The handler r goes on to `step` holding user u and token t.
Go(r, step, u, t) ==
    req' = [req EXCEPT ![r] = [at |-> step, user |-> u, token |-> t]]

Finish(r) == req' = [req EXCEPT ![r] = Idle]

TokensOf(u) == {t \in RefreshTokens : owner[t] = u}

Init ==
    /\ hasPassword \in SUBSET Users   \* Google accounts start without one
    /\ deleted = {}
    /\ owner = [t \in RefreshTokens |-> Nobody]
    /\ revoked = {}
    /\ expired = {}
    /\ minted = [k \in ResetTokens |-> Nobody]
    /\ used = {}
    /\ lapsed = {}
    /\ req = [r \in Requests |-> Idle]
    /\ parent = [t \in RefreshTokens |-> NoToken]
    /\ posthumous = {}
    /\ applied = [k \in ResetTokens |-> 0]
    /\ before = [r \in Requests |-> {}]
    /\ ended = {}

-----------------------------------------------------------------------------
(* Login and the token pair.                                               *)

\* login(): the row is read once and the right password checked against it.
LoginRead(r, u) ==
    /\ At(r, "idle")
    /\ u \in hasPassword \ deleted
    /\ Go(r, "issue", u, NoToken)
    /\ UNCHANGED <<users, sessions, resets, history>>

\* loginWithGoogle() for an account already linked to the Google identity;
\* linking and creating accounts belong to the account-identity component.
GoogleLoginRead(r, u) ==
    /\ At(r, "idle")
    /\ u \notin deleted
    /\ Go(r, "issue", u, NoToken)
    /\ UNCHANGED <<users, sessions, resets, history>>

\* issueTokenPair(): the last statement of login, Google login and refresh.
Issue(r, t) ==
    /\ At(r, "issue")
    /\ owner[t] = Nobody
    /\ owner' = [owner EXCEPT ![t] = req[r].user]
    /\ parent' = [parent EXCEPT ![t] = req[r].token]
    /\ posthumous' = IF req[r].user \in deleted
                     THEN posthumous \cup {t} ELSE posthumous
    /\ Finish(r)
    /\ UNCHANGED <<users, revoked, expired, resets, applied, before, ended>>

-----------------------------------------------------------------------------
(* Refresh and logout.                                                     *)

\* Mutant: the user row is not consulted.
RotateReadDeleted(r, t) ==
    /\ At(r, "idle")
    /\ owner[t] # Nobody
    /\ t \notin revoked \cup expired
    /\ Go(r, "rotate", owner[t], t)
    /\ UNCHANGED <<users, sessions, resets, history>>

\* Mutant: the pair is issued before the old row is revoked.
RotateReadIssueFirst(r, t) ==
    /\ At(r, "idle")
    /\ owner[t] \in Users \ deleted
    /\ t \notin revoked \cup expired
    /\ Go(r, "issue", owner[t], t)
    /\ UNCHANGED <<users, sessions, resets, history>>

\* rotateRefreshToken(), findUnique with the user row and the five refusals.
RotateRead(r, t) ==
    /\ At(r, "idle")
    /\ owner[t] # Nobody
    /\ t \notin revoked
    /\ t \notin expired
    /\ owner[t] \notin deleted
    /\ Go(r, "rotate", owner[t], t)
    /\ UNCHANGED <<users, sessions, resets, history>>

\* rotateRefreshToken(), the update by id: it does not look at revokedAt.
RotateRevoke(r) ==
    /\ At(r, "rotate")
    /\ revoked' = revoked \cup {req[r].token}
    /\ Go(r, "issue", req[r].user, req[r].token)
    /\ UNCHANGED <<users, owner, expired, resets, history>>

\* revokeRefreshToken(): one conditional update, a no-op when already revoked.
Logout(t) ==
    /\ owner[t] # Nobody
    /\ t \notin revoked
    /\ revoked' = revoked \cup {t}
    /\ UNCHANGED <<users, owner, expired, resets, req, history>>

-----------------------------------------------------------------------------
(* Password reset.                                                         *)

ForgotRead(r, u) ==
    /\ At(r, "idle")
    /\ u \notin deleted
    /\ Go(r, "mint", u, NoToken)
    /\ UNCHANGED <<users, sessions, resets, history>>

\* createVerificationToken(): earlier reset tokens stay valid.
ForgotMint(r, k) ==
    /\ At(r, "mint")
    /\ minted[k] = Nobody
    /\ minted' = [minted EXCEPT ![k] = req[r].user]
    /\ Finish(r)
    /\ UNCHANGED <<users, sessions, used, lapsed, history>>

ResetRead(r, k) ==
    /\ At(r, "idle")
    /\ minted[k] # Nobody
    /\ k \notin used
    /\ k \notin lapsed
    /\ Go(r, "consume", minted[k], k)
    /\ UNCHANGED <<users, sessions, resets, history>>

\* Mutant: the update is by id alone, without usedAt: null.
ResetConsumeUnconditional(r) ==
    /\ At(r, "consume")
    /\ used' = used \cup {req[r].token}
    /\ Go(r, "rehash", req[r].user, req[r].token)
    /\ UNCHANGED <<users, sessions, minted, lapsed, history>>

\* The conditional update; a count of 0 ends the request with 400.
ResetConsume(r) ==
    /\ At(r, "consume")
    /\ IF req[r].token \in used
       THEN Finish(r) /\ UNCHANGED used
       ELSE /\ used' = used \cup {req[r].token}
            /\ Go(r, "rehash", req[r].user, req[r].token)
    /\ UNCHANGED <<users, sessions, minted, lapsed, history>>

\* The new hash is written without reading the account again.
ResetRehash(r) ==
    /\ At(r, "rehash")
    /\ hasPassword' = hasPassword \cup {req[r].user}
    /\ Go(r, "revokeAll", req[r].user, req[r].token)
    /\ applied' = [applied EXCEPT ![req[r].token] = @ + 1]
    /\ before' = [before EXCEPT ![r] = TokensOf(req[r].user)]
    /\ UNCHANGED <<deleted, sessions, resets, parent, posthumous, ended>>

\* Mutant: update instead of updateMany, so that one session is revoked.
ResetRevokeOne(r) ==
    /\ At(r, "revokeAll")
    /\ \E t \in TokensOf(req[r].user) : revoked' = revoked \cup {t}
    /\ ended' = ended \cup before[r]
    /\ before' = [before EXCEPT ![r] = {}]
    /\ Finish(r)
    /\ UNCHANGED <<users, owner, expired, resets, parent, posthumous, applied>>

\* revokeAllForUser() as the last step of resetPassword().
ResetRevokeAll(r) ==
    /\ At(r, "revokeAll")
    /\ revoked' = revoked \cup TokensOf(req[r].user)
    /\ ended' = ended \cup before[r]
    /\ before' = [before EXCEPT ![r] = {}]
    /\ Finish(r)
    /\ UNCHANGED <<users, owner, expired, resets, parent, posthumous, applied>>

-----------------------------------------------------------------------------
(* Account deletion.                                                       *)

DeleteRead(r, u) ==
    /\ At(r, "idle")
    /\ u \notin deleted
    /\ Go(r, "delete", u, NoToken)
    /\ UNCHANGED <<users, sessions, resets, history>>

DeleteMark(r) ==
    /\ At(r, "delete")
    /\ deleted' = deleted \cup {req[r].user}
    /\ hasPassword' = hasPassword \ {req[r].user}
    /\ Go(r, "purge", req[r].user, NoToken)
    /\ UNCHANGED <<sessions, resets, history>>

\* revokeAllForUser() as the last step of deleteAccount().
DeletePurge(r) ==
    /\ At(r, "purge")
    /\ revoked' = revoked \cup TokensOf(req[r].user)
    /\ Finish(r)
    /\ UNCHANGED <<users, owner, expired, resets, history>>

-----------------------------------------------------------------------------
(* Time and failures.                                                      *)

Expire(t) ==
    /\ owner[t] # Nobody
    /\ t \notin expired
    /\ expired' = expired \cup {t}
    /\ UNCHANGED <<users, owner, revoked, resets, req, history>>

Lapse(k) ==
    /\ minted[k] # Nobody
    /\ k \notin lapsed
    /\ lapsed' = lapsed \cup {k}
    /\ UNCHANGED <<users, sessions, minted, used, req, history>>

Fail(r) ==
    /\ ~At(r, "idle")
    /\ Finish(r)
    /\ before' = [before EXCEPT ![r] = {}]
    /\ UNCHANGED <<users, sessions, resets, parent, posthumous, applied, ended>>

-----------------------------------------------------------------------------
Step(r) ==
    \/ \E u \in Users :
          LoginRead(r, u) \/ GoogleLoginRead(r, u) \/ ForgotRead(r, u) \/ DeleteRead(r, u)
    \/ \E t \in RefreshTokens : RotateRead(r, t) \/ Issue(r, t)
    \/ \E k \in ResetTokens : ForgotMint(r, k) \/ ResetRead(r, k)
    \/ RotateRevoke(r)
    \/ ResetConsume(r)
    \/ ResetRehash(r)
    \/ ResetRevokeAll(r)
    \/ DeleteMark(r)
    \/ DeletePurge(r)
    \/ Fail(r)

Next ==
    \/ \E r \in Requests : Step(r)
    \/ \E t \in RefreshTokens : Logout(t) \/ Expire(t)
    \/ \E k \in ResetTokens : Lapse(k)

Spec == Init /\ [][Next]_vars

-----------------------------------------------------------------------------
(* Properties.                                                             *)

\* Every row, token and request in flight has the shape the schema gives it.
TypeOK ==
    /\ hasPassword \subseteq Users
    /\ deleted \subseteq Users
    /\ owner \in [RefreshTokens -> Users \cup {Nobody}]
    /\ revoked \subseteq RefreshTokens
    /\ expired \subseteq RefreshTokens
    /\ minted \in [ResetTokens -> Users \cup {Nobody}]
    /\ used \subseteq ResetTokens
    /\ lapsed \subseteq ResetTokens
    /\ req \in [Requests -> Request]
    /\ parent \in [RefreshTokens -> RefreshTokens \cup {NoToken}]
    /\ posthumous \subseteq RefreshTokens
    /\ applied \in [ResetTokens -> Nat]
    /\ before \in [Requests -> SUBSET RefreshTokens]
    /\ ended \subseteq RefreshTokens

\* A refresh token for which a successor exists can no longer be exchanged,
\* even when the refresh died between its two statements: the old row is
\* revoked before the new one is created.
ExchangedTokenIsSpent ==
    \A t \in RefreshTokens : parent[t] # NoToken => parent[t] \in revoked

\* Concurrent or repeated submissions of one reset token change the password
\* at most once: only the request whose conditional update counted a row goes on.
ResetTokenAppliedOnce ==
    \A k \in ResetTokens : applied[k] <= 1

\* Every session that existed when a completed reset wrote the new password
\* is revoked and stays so, whatever refreshes, logouts and resets overlapped.
ResetEndsEarlierSessions == ended \subseteq revoked

\* A token handed to an account deleted while the handler was running is a
\* dead end: no refresh ever exchanges it.
NoPosthumousRefresh ==
    \A t \in RefreshTokens : parent[t] \notin posthumous

Live(t) == owner[t] # Nobody /\ t \notin revoked \cup expired

\* What auth.service.ts says after writing the new hash ("Force re-login
\* everywhere after a password change"): once a reset has completed, no live
\* session descends from one of the sessions it ended.
ForcedReloginEverywhere ==
    \A t \in RefreshTokens : Live(t) => parent[t] \notin ended

\* Cut at every await, the handlers of token.service.ts and the two callers of
\* revokeAllForUser() keep the promise of a store that does each thing at once:
\* a successor belongs to the account of the token it was exchanged for, which
\* is over by then, whatever the handler read before and whatever ran between;
\* a token, once over, stays so; and the end of an account's sessions is one step.
Store == INSTANCE SessionStore
             WITH Tokens <- RefreshTokens, Accounts <- Users,
                  holder <- owner, heirOf <- parent, over <- revoked

ImplementsStore == Store!Spec
=============================================================================
