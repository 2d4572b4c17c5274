------------------------------- MODULE Sessions -------------------------------
(***************************************************************************)
(* The sessions of one account (src/wms-backend/src/auth/auth.service.ts):  *)
(* login with its lockout and its limit of sessions, rotation of refresh    *)
(* tokens, logout, the reset of a forgotten password by a link, and the     *)
(* administrator's changes of the account (users/users.service.ts).         *)
(* Nothing runs in a transaction; every await is a step.  Passwords are     *)
(* numbered in the order they are chosen, 0 is a wrong one; access tokens   *)
(* are left out.                                                            *)
(***************************************************************************)
EXTENDS Server

CONSTANTS
  SessionLimit,  \* MAX_SESSIONS
  MaxAttempts,   \* MAX_ATTEMPTS
  LockTime,      \* LOCKOUT_MINUTES
  LastMinute,    \* bound: the clock stops
  MaxTokens,     \* bound: refresh tokens ever issued
  MaxResets,     \* bound: reset links ever sent
  MaxPasswords   \* bound: passwords chosen, the first included, that let an
                 \* administrator choose one more

ASSUME SessionsAssumption ==
  /\ {SessionLimit, MaxAttempts, LockTime} \subseteq Nat \ {0}
  /\ {LastMinute, MaxTokens, MaxResets, MaxPasswords} \subseteq Nat

VARIABLES
  account,   \* users: password, failed_login_count, locked_until (0: null),
             \* is_active
  tokens,    \* refresh_tokens, in the order of created_at: whether revoked, and
             \* the password their session was opened with
  resets,    \* password_reset_tokens: is_used
  minute,    \* the time
  heirs,     \* history: tokens each token was exchanged for
  chosen,    \* history: the passwords chosen so far
  reset,     \* history: the one that the last reset by link stored, 0 before
  misses     \* history: logins refused for the password, one after another,
             \* since one succeeded or the password was reset by link

histories     == <<heirs, chosen, reset, misses>>
sessionTables == <<account, tokens, resets, histories>>
sessionVars   == <<sessionTables, minute, serverVars>>

NoAccount == [password |-> 1, failed |-> 0, locked |-> 0, active |-> TRUE]
\* what a handler keeps: the account it read (or will store), the password it
\* was given, the token or link it works on, the tokens it must revoke, the
\* columns it will write
FirstCall == [pc |-> "verify", account |-> NoAccount, password |-> 0,
              token |-> 0, over |-> {}, dirty |-> {}]

Live == {t \in DOMAIN tokens : ~tokens[t].revoked}

RevokeTokens(S) ==
  tokens' = [t \in DOMAIN tokens |->
               IF t \in S THEN [tokens[t] EXCEPT !.revoked = TRUE] ELSE tokens[t]]

-----------------------------------------------------------------------------
(* login *)

\* is_active and checkLockout, on the account as it was read
\* Mutant: the lockout is not looked at.
Login_Unlocked(h) ==
  /\ account.active
  /\ \E p \in {0, account.password} :
       Begin(h, [FirstCall EXCEPT !.account = account, !.password = p])
  /\ UNCHANGED <<sessionTables, minute>>

Login(h) ==
  /\ account.active /\ account.locked <= minute
  /\ \E p \in {0, account.password} :
       Begin(h, [FirstCall EXCEPT !.account = account, !.password = p])
  /\ UNCHANGED <<sessionTables, minute>>

\* bcrypt.compare with the hash that was read
Verify(h) ==
  /\ At(h, "verify")
  /\ Goto(h, IF call[h].password = call[h].account.password THEN "clear" ELSE "fail")
  /\ UNCHANGED <<sessionTables, minute>>

\* applyFailedAttempt writes both columns from the count that was read
\* Mutant: it counts from 1 again once the account is locked.
FailAttempt_Restart(h) ==
  LET count == call[h].account.failed + 1 IN
  /\ At(h, "fail")
  /\ account' = IF count >= MaxAttempts
                  THEN [account EXCEPT !.failed = 0, !.locked = minute + LockTime]
                  ELSE [account EXCEPT !.failed = count, !.locked = 0]
  /\ misses' = misses + 1
  /\ Return(h)
  /\ UNCHANGED <<tokens, resets, minute, heirs, chosen, reset>>

FailAttempt(h) ==
  LET count == call[h].account.failed + 1 IN
  /\ At(h, "fail")
  /\ account' = [account EXCEPT !.failed = count,
                   !.locked = IF count >= MaxAttempts THEN minute + LockTime ELSE 0]
  /\ misses' = misses + 1
  /\ Return(h)
  /\ UNCHANGED <<tokens, resets, minute, heirs, chosen, reset>>

ClearFailures(h) ==
  /\ At(h, "clear")
  /\ account' = [account EXCEPT !.failed = 0, !.locked = 0]
  /\ misses' = 0
  /\ Goto(h, "sessions")
  /\ UNCHANGED <<tokens, resets, minute, heirs, chosen, reset>>

\* the oldest live tokens that must go to make room for one
\* Mutant: room is made down to the limit, not below it.
Surplus_NoRoom == {t \in Live : Cardinality({u \in Live : u >= t}) > SessionLimit}
Surplus == {t \in Live : Cardinality({u \in Live : u >= t}) >= SessionLimit}

ListSessions(h) ==
  /\ At(h, "sessions")
  /\ Become(h, [call[h] EXCEPT !.pc = "revoke", !.over = Surplus])
  /\ UNCHANGED <<sessionTables, minute>>

RevokeOldest(h) ==
  /\ At(h, "revoke")
  /\ IF call[h].over = {}
     THEN Goto(h, "issue") /\ UNCHANGED tokens
     ELSE LET t == CHOOSE u \in call[h].over : \A w \in call[h].over : u <= w
          IN  /\ Become(h, [call[h] EXCEPT !.over = @ \ {t}])
              /\ RevokeTokens({t})
  /\ UNCHANGED <<account, resets, minute, histories>>

IssueToken(h) ==
  /\ At(h, "issue")
  /\ Len(tokens) < MaxTokens
  /\ tokens' = Append(tokens, [password |-> call[h].password, revoked |-> FALSE])
  /\ heirs' = Append(heirs, 0)
  /\ Return(h)
  /\ UNCHANGED <<account, resets, minute, chosen, reset, misses>>

-----------------------------------------------------------------------------
(* refreshTokens, logout *)

\* A token that was revoked already ends every session.
\* Mutant: a revoked token is exchanged like any other.
Exchangeable_Any(t) == TRUE
Exchangeable(t) == ~tokens[t].revoked

RefreshTokens(h) ==
  /\ \E t \in DOMAIN tokens :
       Begin(h, [FirstCall EXCEPT !.token = t,
                   !.pc = IF Exchangeable(t) THEN "rotate" ELSE "revokeAll"])
  /\ UNCHANGED <<sessionTables, minute>>

RotateToken(h) ==
  /\ At(h, "rotate")
  /\ RevokeTokens({call[h].token})
  /\ Goto(h, "renew")
  /\ UNCHANGED <<account, resets, minute, histories>>

RenewToken(h) ==
  LET t == call[h].token IN
  /\ At(h, "renew")
  /\ Len(tokens) < MaxTokens
  /\ tokens' = Append(tokens, [password |-> tokens[t].password, revoked |-> FALSE])
  /\ heirs' = Append([heirs EXCEPT ![t] = @ + 1], 0)
  /\ Return(h)
  /\ UNCHANGED <<account, resets, minute, chosen, reset, misses>>

\* Mutant: a reset leaves the sessions alone.
RevokeAll_Nothing(h) ==
  At(h, "revokeAll") /\ Return(h) /\ UNCHANGED <<sessionTables, minute>>
RevokeAll(h) ==
  /\ At(h, "revokeAll")
  /\ RevokeTokens(DOMAIN tokens)
  /\ Return(h)
  /\ UNCHANGED <<account, resets, minute, histories>>

Logout(h) ==
  /\ \E t \in DOMAIN tokens : Begin(h, [FirstCall EXCEPT !.pc = "logout", !.token = t])
  /\ UNCHANGED <<sessionTables, minute>>

RevokeToken(h) ==
  /\ At(h, "logout")
  /\ RevokeTokens({call[h].token})
  /\ Return(h)
  /\ UNCHANGED <<account, resets, minute, histories>>

-----------------------------------------------------------------------------
(* forgotPassword, resetPassword *)

ForgotPassword(h) ==
  /\ Len(resets) < MaxResets
  /\ Begin(h, [FirstCall EXCEPT !.pc = "invalidate"])
  /\ UNCHANGED <<sessionTables, minute>>

InvalidateLinks(h) ==
  /\ At(h, "invalidate")
  /\ resets' = [r \in DOMAIN resets |-> TRUE]
  /\ Goto(h, "send")
  /\ UNCHANGED <<account, tokens, minute, histories>>

SendLink(h) ==
  /\ At(h, "send")
  /\ Len(resets) < MaxResets
  /\ resets' = Append(resets, FALSE)
  /\ Return(h)
  /\ UNCHANGED <<account, tokens, minute, histories>>

ResetPassword(h) ==
  /\ \E r \in DOMAIN resets :
       ~resets[r] /\ Begin(h, [FirstCall EXCEPT !.pc = "use", !.token = r])
  /\ UNCHANGED <<sessionTables, minute>>

UseLink(h) ==
  /\ At(h, "use")
  /\ resets' = [resets EXCEPT ![call[h].token] = TRUE]
  /\ Goto(h, "store")
  /\ UNCHANGED <<account, tokens, minute, histories>>

StorePassword(h) ==
  /\ At(h, "store")
  /\ account' = [account EXCEPT !.password = chosen + 1, !.failed = 0, !.locked = 0]
  /\ chosen' = chosen + 1 /\ reset' = chosen + 1 /\ misses' = 0
  /\ Goto(h, "revokeAll")
  /\ UNCHANGED <<tokens, resets, minute, heirs>>

-----------------------------------------------------------------------------
(* UsersService.update: the account is loaded whole, given a password, is_active *)
(* or both, and saved.  Its sessions stay as they are.                        *)

UpdateUser(h) ==
  \E p \in {account.password, chosen + 1}, on \in BOOLEAN :
    /\ p = account.password \/ chosen < MaxPasswords
    /\ Begin(h, [FirstCall EXCEPT !.pc = "select",
                    !.account = [account EXCEPT !.password = p, !.active = on]])
    /\ chosen' = IF p = account.password THEN chosen ELSE p
    /\ UNCHANGED <<account, tokens, resets, minute, heirs, reset, misses>>

SelectUser(h) ==
  /\ At(h, "select")
  /\ Become(h, [call[h] EXCEPT !.pc = "save", !.dirty = Dirty(call[h].account, account)])
  /\ UNCHANGED <<sessionTables, minute>>

SaveUser(h) ==
  /\ At(h, "save")
  /\ account' = Merge(account, call[h].account, call[h].dirty)
  /\ Return(h)
  /\ UNCHANGED <<tokens, resets, minute, histories>>

-----------------------------------------------------------------------------
Minute == minute < LastMinute /\ minute' = minute + 1
          /\ UNCHANGED <<sessionTables, serverVars>>

SessionCrash(h) == Crash(h) /\ UNCHANGED <<sessionTables, minute>>

SessionInit ==
  /\ account = NoAccount /\ tokens = <<>> /\ resets = <<>> /\ minute = 0
  /\ heirs = <<>> /\ chosen = 1 /\ reset = 0 /\ misses = 0 /\ ServerInit

SessionArrive(h) == Login(h) \/ RefreshTokens(h) \/ Logout(h) \/ ForgotPassword(h)
                    \/ ResetPassword(h) \/ UpdateUser(h)
SessionContinue(h) ==
  \/ Verify(h) \/ FailAttempt(h) \/ ClearFailures(h) \/ ListSessions(h)
  \/ RevokeOldest(h) \/ IssueToken(h) \/ RotateToken(h) \/ RenewToken(h)
  \/ RevokeAll(h) \/ RevokeToken(h) \/ InvalidateLinks(h) \/ SendLink(h)
  \/ UseLink(h) \/ StorePassword(h) \/ SelectUser(h) \/ SaveUser(h)

SessionNext == Minute \/ \E h \in Handlers :
                 SessionArrive(h) \/ SessionContinue(h) \/ SessionCrash(h)

SessionSpec == SessionInit /\ [][SessionNext]_sessionVars

-----------------------------------------------------------------------------
(* Properties *)

\* An account has SessionLimit live sessions at most, and one more for every
\* call that came in the way of another or died: a login makes room for the
\* session it opens, a rotation ends the one it renews.
SessionsBounded == Cardinality(Live) <= SessionLimit + overlaps

\* A refresh token is exchanged once, and one reset link at most is usable, but
\* for one exchange or link more with every call that came in the way of another.
TokensOnce ==
  /\ \A t \in DOMAIN heirs : heirs[t] <= 1 + overlaps
  /\ Cardinality({r \in DOMAIN resets : ~resets[r]}) <= 1 + overlaps

\* Failed logins are counted from the account as it was read: of those in a row,
\* no more are lost from the count that locks the account than calls came in
\* the way of another.
FailuresCounted == misses <= account.failed + overlaps

\* When each call runs alone and to its end: an account that is locked stays
\* locked until its time or a reset of the password, whatever an administrator
\* changes in it.
LockHolds ==
  [][Calm' /\ account.locked > minute =>
       account'.locked = account.locked \/ reset' > reset]_sessionVars

\* When each call runs alone and to its end: a reset by link ends every session
\* of a password chosen before, and none of these comes back by a rotation, by a
\* login, or after the administrator has changed the password again.
ResetEndsSessions ==
  Calm /\ Quiet => \A t \in Live : tokens[t].password >= reset

\* After a change of the password every refresh token is revoked
\* (docs/specs/auth-business-spec.md:76): a live session has the password the
\* account has now.  UpdateUser violates it.
SessionsOfPassword ==
  Calm /\ Quiet => \A t \in Live : tokens[t].password = account.password
=============================================================================
