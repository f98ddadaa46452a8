----------------------------- MODULE AuthSessions -----------------------------
(***************************************************************************)
(* Sessions of one account of a control plane (modules/auth in both; the   *)
(* organization plane's modules/users suspends and resets), as the portal  *)
(* in a browser uses them: login behind the lockout, rotation of refresh   *)
(* tokens, logout, change of password.                                     *)
(*                                                                         *)
(* A request is a database transaction, one statement at a time, at READ   *)
(* COMMITTED: a statement sees what was committed when it began, an UPDATE *)
(* waits for a row that another transaction has changed and then looks at  *)
(* it again, an INSERT is seen once committed.                             *)
(***************************************************************************)
EXTENDS Naturals, Sequences, FiniteSets

CONSTANTS Requests,     \* requests in progress at one time
          MaxAttempts,  \* login_max_attempts
          MaxTokens,    \* bound on the refresh tokens issued
          MaxTokensAtMiss, \* bound on them when a wrong password is tried
          MaxTokensElsewhere, \* bound on them when a login comes from elsewhere
          MaxPasswords, \* bound on the passwords
          MaxRevocations, \* bound on the changes of password and suspensions
          MaxLost       \* bound on the commands that Redis fails

ASSUME MaxAttemptsAssumption == MaxAttempts \in Nat \ {0}
ASSUME MaxLostAssumption == MaxLost \in Nat
ASSUME RequestsAssumption == IsFiniteSet(Requests)

VARIABLES user, tokens, requests,
          redis,  \* counter and lock of the account at one address; misses, lost:
                  \* history, the wrong passwords since and the commands that failed
          era     \* history: the revocations of everything, counted

vars == <<user, tokens, requests, redis, era>>

NoToken == 0

Idle == [op |-> "none", at |-> "idle", token |-> NoToken,
         password |-> 0, here |-> FALSE, rows |-> {}, era |-> 0, raced |-> FALSE]

Live(t) == ~tokens[t].revoked
LiveTokens == {t \in DOMAIN tokens : Live(t)}

\* The rows that a transaction has changed and not committed.
Rotating(r) == requests[r].op = "refresh" /\ requests[r].at \in {"rotated", "commit", "revokeAll", "revoking"}
                 /\ requests[r].token # NoToken /\ Live(requests[r].token)
LockedFor(r, t) == \E q \in Requests \ {r} : Rotating(q) /\ requests[q].token = t
Closes(q) == requests[q].op \in {"password", "suspend"} /\ requests[q].at = "revoking"
UserLockedFor(r) == \E q \in Requests \ {r} : Closes(q)

Init ==
  /\ user = [password |-> 1, active |-> TRUE]
  /\ tokens = << >>
  /\ requests = [r \in Requests |-> Idle]
  /\ redis = [fail |-> 0, expires |-> TRUE, lock |-> FALSE, misses |-> 0, lost |-> 0]
  /\ era = 0

-----------------------------------------------------------------------------
(* Helpers of the steps *)

Set(r, request) == requests' = [requests EXCEPT ![r] = request]
Goes(r, at) == Set(r, [requests[r] EXCEPT !.at = at])
Done(r) == Set(r, Idle)
At(r, op, at) == requests[r].op = op /\ requests[r].at = at

Begin(r, op, at, token, password) ==
  /\ requests[r] = Idle
  /\ Set(r, [Idle EXCEPT !.op = op, !.at = at, !.token = token, !.password = password])
  /\ UNCHANGED <<user, tokens, redis, era>>

-----------------------------------------------------------------------------
(* Login *)

\* From the address that redis is about,
SendLogin(r) ==
  \E offered \in {user.password, 0} :
     /\ offered = 0 => Len(tokens) <= MaxTokensAtMiss
     /\ requests[r] = Idle
     /\ Set(r, [Idle EXCEPT !.op = "login", !.at = "gate", !.password = offered, !.here = TRUE])
     /\ UNCHANGED <<user, tokens, redis, era>>

\* or from another one, whose lock lets it through.  A wrong password there leaves
\* nothing behind that is kept here.
SendElsewhere(r) ==
  /\ Len(tokens) <= MaxTokensElsewhere
  /\ Begin(r, "login", "verify", NoToken, user.password)

\* A command of Redis fails.
Lose(n) ==
  /\ redis.lost < MaxLost
  /\ redis' = [redis EXCEPT !.lost = @ + 1, !.misses = @ + n]

\* lockout.check_locked.  A read that fails lets the login through, lock or not;
\* with login_lockout_fail_open off it ends the request, lock or not.
CheckLocked(r) ==
  /\ At(r, "login", "gate")
  /\ \/ Done(r) /\ UNCHANGED redis
     \/ Goes(r, "verify") /\ ~redis.lock /\ UNCHANGED redis
     \/ Goes(r, "verify") /\ redis.lock /\ Lose(0)
  /\ UNCHANGED <<user, tokens, era>>

\* The account is being revoked, not yet committed.
Closing == \E q \in Requests : Closes(q)

Verify(r) ==
  /\ At(r, "login", "verify")
  /\ IF requests[r].password # user.password
     THEN IF requests[r].here THEN Goes(r, "miss") ELSE Done(r)
     ELSE IF ~user.active THEN Done(r)
     ELSE Set(r, [requests[r] EXCEPT !.at = "clear", !.era = era, !.raced = Closing])
  /\ UNCHANGED <<user, tokens, redis, era>>

\* INCR; a first failure has no expiry until the next command gives it one.
Incr(r) ==
  /\ At(r, "login", "miss")
  /\ redis' = [redis EXCEPT !.fail = IF @ = MaxAttempts THEN @ ELSE @ + 1, !.misses = @ + 1,
                            !.expires = IF redis.fail = 0 THEN FALSE ELSE @]
  /\ Set(r, [requests[r] EXCEPT !.at = "counted", !.rows = {redis.fail + 1}])
  /\ UNCHANGED <<user, tokens, era>>

Count(r) == CHOOSE n \in requests[r].rows : TRUE

\* Mutant: one attempt more than the setting allows.
Trips_Late(n) == n > MaxAttempts
Trips(n) == n >= MaxAttempts

\* The rest of record_failure.
ExpireAndLock(r) ==
  /\ At(r, "login", "counted")
  /\ redis' = [redis EXCEPT !.expires = @ \/ Count(r) = 1, !.lock = @ \/ Trips(Count(r))]
  /\ Done(r)
  /\ UNCHANGED <<user, tokens, era>>

\* A RedisError is swallowed: the failure, or what should follow it, is lost.
NotRecorded(r) ==
  /\ \/ At(r, "login", "miss") /\ Lose(1)
     \/ At(r, "login", "counted") /\ Lose(0)
  /\ Done(r)
  /\ UNCHANGED <<user, tokens, era>>

\* Only the keys of its own address; a RedisError leaves them as they are.
clear(r) ==
  /\ At(r, "login", "clear")
  /\ \/ ~requests[r].here /\ UNCHANGED redis
     \/ requests[r].here /\ Lose(0)
     \/ /\ requests[r].here
        /\ redis' = [redis EXCEPT !.fail = 0, !.expires = TRUE, !.lock = FALSE, !.misses = 0]
  /\ Goes(r, "commit")
  /\ UNCHANGED <<user, tokens, era>>

\* The time to live of the lock, and of the counter.
LockExpires ==
  /\ redis.lock
  /\ redis' = [redis EXCEPT !.lock = FALSE, !.misses = 0]
  /\ UNCHANGED <<user, tokens, requests, era>>

WindowEnds ==
  /\ redis.fail > 0 /\ redis.expires
  /\ redis' = [redis EXCEPT !.fail = 0, !.misses = 0]
  /\ UNCHANGED <<user, tokens, requests, era>>

-----------------------------------------------------------------------------
(* Sessions *)

\* Every token is one row; a successor remembers whose it is.
_issue(r) ==
  /\ Len(tokens) < MaxTokens
  /\ LET q == requests[r]
         burnt == [t \in DOMAIN tokens |->
                     IF t = q.token THEN [tokens[t] EXCEPT !.revoked = TRUE] ELSE tokens[t]]
     IN tokens' = Append(burnt, [revoked |-> FALSE, parent |-> q.token, era |-> q.era,
                                 raced |-> q.raced])

\* Login stamps last_login_at, for which it waits for the user's row.
CommitSession(r) ==
  /\ requests[r].at = "commit"
  /\ requests[r].op = "login" => ~UserLockedFor(r)
  /\ _issue(r)
  /\ Done(r)
  /\ UNCHANGED <<user, redis, era>>

\* refreshAccessToken.  Each token was some browser's cookie, and still is
\* where a later answer was lost or came too soon; two tabs send the same one.
SendRefresh(r) == \E t \in DOMAIN tokens : Begin(r, "refresh", "read", t, 0)

\* An expired token ends it here; a revoked one ends everybody's session.
ReadToken(r) ==
  /\ At(r, "refresh", "read")
  /\ LET t == requests[r].token
     IN \/ Goes(r, IF Live(t) THEN "rotate" ELSE "revokeAll")
        \/ Live(t) /\ Done(r)
  /\ UNCHANGED <<user, tokens, redis, era>>

\* Mutant: the update that found nothing to revoke goes on.
RotationWins_Unchecked(t) == t \in DOMAIN tokens
\* UPDATE ... WHERE revoked_at IS NULL touched the row.
RotationWins(t) == Live(t)

Rotate(r) ==
  /\ At(r, "refresh", "rotate") /\ ~LockedFor(r, requests[r].token)
  /\ LET t == requests[r].token
     IN IF RotationWins(t)
        THEN Set(r, [requests[r] EXCEPT !.at = "rotated", !.era = tokens[t].era,
                                        !.raced = tokens[t].raced \/ Closing])
        ELSE Done(r)
  /\ UNCHANGED <<user, tokens, redis, era>>

LoadUser(r) ==
  /\ At(r, "refresh", "rotated")
  /\ Goes(r, IF user.active THEN "commit" ELSE "revokeAll")
  /\ UNCHANGED <<user, tokens, redis, era>>

Logout(r) ==
  \E t \in LiveTokens :
     /\ requests[r] = Idle /\ ~LockedFor(r, t)
     /\ tokens' = [tokens EXCEPT ![t].revoked = TRUE]
     /\ UNCHANGED <<user, requests, redis, era>>

-----------------------------------------------------------------------------
(* Revocation of everything: reuse, inactive user, new password, suspension *)

\* Mutant: only the family of the presented token's own device.
RowsToRevoke_Presented(r) == LiveTokens \cap {requests[r].token}
\* The rows with revoked_at NULL when the UPDATE begins.
RowsToRevoke(r) == LiveTokens

\* History: the requests past the check of their credential by then.
Overtaken(q) == requests[q].at \in {"clear", "commit", "rotated"}

StartRevoking(r) ==
  /\ requests[r].at = "revokeAll"
  /\ requests[r].op # "refresh" => ~UserLockedFor(r)
  /\ requests' = [q \in Requests |->
       IF q = r THEN [requests[r] EXCEPT !.at = "revoking", !.rows = RowsToRevoke(r)]
       ELSE [requests[q] EXCEPT !.raced = @ \/ (requests[r].op # "refresh" /\ Overtaken(q))]]
  /\ UNCHANGED <<user, tokens, redis, era>>

\* Mutant: the new hash is stored as none.
NewUser_Unset(r) ==
  CASE requests[r].op = "password" -> [user EXCEPT !.password = 0]
    [] requests[r].op = "suspend" -> [user EXCEPT !.active = FALSE]
    [] OTHER -> user

\* The password that is set last is the one that counts.
NewUser(r) ==
  CASE requests[r].op = "password" ->
         [user EXCEPT !.password = @ + 1]
    [] requests[r].op = "suspend" -> [user EXCEPT !.active = FALSE]
    [] OTHER -> user

CommitRevoking(r) ==
  /\ requests[r].at = "revoking"
  /\ \A t \in requests[r].rows : ~LockedFor(r, t)
  /\ tokens' = [t \in DOMAIN tokens |->
                  IF t \in requests[r].rows \cup {requests[r].token}
                  THEN [tokens[t] EXCEPT !.revoked = TRUE] ELSE tokens[t]]
  /\ user' = NewUser(r)
  /\ era' = IF requests[r].op = "refresh" THEN era ELSE era + 1
  /\ Done(r)
  /\ UNCHANGED <<redis>>

\* Two transactions that wait for each other's row: the database aborts one.
Waits(r, q) ==
  requests[r].at = "revoking" /\ Rotating(q) /\ requests[q].token \in requests[r].rows
AbortDeadlocked(r) ==
  /\ \E q \in Requests \ {r} : Waits(r, q) /\ Waits(q, r)
  /\ Done(r)
  /\ UNCHANGED <<user, tokens, redis, era>>

SendChangePassword(r) ==
  /\ user.password < MaxPasswords /\ era < MaxRevocations
  /\ Begin(r, "password", "current", NoToken, user.password)

VerifyCurrent(r) ==
  /\ At(r, "password", "current")
  /\ IF requests[r].password = user.password THEN Goes(r, "revokeAll") ELSE Done(r)
  /\ UNCHANGED <<user, tokens, redis, era>>

\* update_user, status to something else than active.
Suspend(r) ==
  /\ user.active /\ era < MaxRevocations
  /\ Begin(r, "suspend", "revokeAll", NoToken, 0)

\* update_user, other fields: what it does not revoke stays.
Reactivate ==
  /\ ~user.active /\ \A r \in Requests : ~UserLockedFor(r)
  /\ user' = [user EXCEPT !.active = TRUE]
  /\ UNCHANGED <<tokens, requests, redis, era>>

AdminResets ==
  /\ user.password < MaxPasswords /\ \A r \in Requests : ~UserLockedFor(r)
  /\ user' = [user EXCEPT !.password = @ + 1]
  /\ UNCHANGED <<tokens, requests, redis, era>>

-----------------------------------------------------------------------------
ServerStep(r) ==
  \/ CheckLocked(r) \/ Verify(r) \/ Incr(r) \/ ExpireAndLock(r) \/ clear(r)
  \/ CommitSession(r) \/ ReadToken(r) \/ Rotate(r) \/ LoadUser(r)
  \/ StartRevoking(r) \/ CommitRevoking(r) \/ AbortDeadlocked(r) \/ VerifyCurrent(r)

Next ==
  \/ \E r \in Requests :
        \/ SendLogin(r) \/ SendElsewhere(r) \/ SendRefresh(r) \/ Logout(r) \/ SendChangePassword(r)
        \/ Suspend(r) \/ ServerStep(r) \/ NotRecorded(r)
  \/ LockExpires \/ WindowEnds \/ Reactivate \/ AdminResets

Spec == Init /\ [][Next]_vars

-----------------------------------------------------------------------------
(* Properties *)

Token == [revoked : BOOLEAN, parent : Nat, era : Nat, raced : BOOLEAN]
Request == [op : {"none", "login", "refresh", "password", "suspend"},
            at : {"idle", "gate", "verify", "miss", "counted", "clear", "commit",
                  "read", "rotate", "rotated", "current", "revokeAll", "revoking"},
            token : Nat, password : Nat, here : BOOLEAN, rows : SUBSET Nat, era : Nat,
            raced : BOOLEAN]
Redis == [fail : 0 .. MaxAttempts, expires : BOOLEAN, lock : BOOLEAN,
          misses : Nat, lost : 0 .. MaxLost]

TypeOK ==
  /\ user \in [password : Nat \ {0}, active : BOOLEAN]
  /\ tokens \in Seq(Token)
  /\ requests \in [Requests -> Request]
  /\ redis \in Redis
  /\ era \in Nat

\* A refresh token is exchanged once, however many tabs present it at once and
\* whatever becomes of the answers.
OneSuccessor ==
  \A s, t \in DOMAIN tokens :
     s # t /\ tokens[s].parent # NoToken => tokens[s].parent # tokens[t].parent

\* What outlives a change of password or a suspension was being issued while
\* it was committed: its credential had been checked before.  Nothing else
\* that was open then can be used again.
OutlivesOnlyByRace ==
  \A t \in LiveTokens : tokens[t].era < era => tokens[t].raced

\* From one address, and until its lock or the window of its counter ends, no
\* more wrong passwords are tried than the setting allows, those already past
\* the check of the lock, and those let through or not counted because a command
\* failed.  An account has no such bound: each address has keys of its own.
GuessesBounded ==
  redis.misses <= (MaxAttempts - 1) + Cardinality(Requests) + redis.lost
=============================================================================
