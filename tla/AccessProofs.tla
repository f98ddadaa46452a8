------------------------------ MODULE AccessProofs ------------------------------
(***************************************************************************)
(* Proofs about the two modules that decide who gets in: AuthSessions and  *)
(* RateLimiter.                                                            *)
(*                                                                         *)
(* Sessions, for any number of overlapping requests, tokens, passwords and *)
(* revocations on one account: a refresh token is exchanged once, and what *)
(* outlives a revocation of everything was being issued while it happened. *)
(* Neither is inductive.  The first rests on the lock that a rotation      *)
(* holds on its row until it commits (Exclusive), the second on what every *)
(* request in progress owes to a revocation that is not committed yet      *)
(* (RacedByCloser).                                                        *)
(*                                                                         *)
(* The limiter, for any number of calls, subscriptions, ticks and errors:  *)
(* what a check compares is true (LimiterInv).  Its counters are sums over *)
(* the calls; the lemmas about them go by a smallest set of calls for      *)
(* which they fail.                                                        *)
(***************************************************************************)
EXTENDS AuthSessions, RateLimiter, FiniteSetTheorems, TLAPS

\* What a request holds at each statement: a token only in a refresh, and
\* past the conditional UPDATE a live one.
RequestOK(r) ==
  /\ requests[r].at = "commit" => requests[r].op \in {"login", "refresh"}
  /\ requests[r].at \in {"revokeAll", "revoking"}
        => requests[r].op \in {"refresh", "password", "suspend"}
  /\ requests[r].op # "refresh" => requests[r].token = NoToken
  /\ requests[r].op = "refresh" => requests[r].token \in DOMAIN tokens
  /\ requests[r].op = "refresh" /\ requests[r].at \in {"rotated", "commit"}
        => Live(requests[r].token)

RequestsOK == \A r \in Requests : RequestOK(r)

\* No two transactions have rotated one token.
Exclusive ==
  \A q, r \in Requests :
     q # r /\ Rotating(q) /\ Rotating(r) => requests[q].token # requests[r].token

\* A token that has a successor is revoked.
ParentsBurnt ==
  \A t \in DOMAIN tokens : tokens[t].parent # NoToken =>
     tokens[t].parent \in DOMAIN tokens /\ ~Live(tokens[t].parent)

\* The user's row is locked by one revocation at a time.
OneCloser == \A q, r \in Requests : Closes(q) /\ Closes(r) => q = r

\* While it is open, what it will not revoke is known to be raced.
RacedByCloser ==
  \A r \in Requests : Closes(r) =>
     /\ \A q \in Requests : Overtaken(q) => requests[q].raced
     /\ \A t \in LiveTokens : t \in requests[r].rows \/ tokens[t].raced

\* A request that passed its check before a revocation was committed.
OldIsRaced ==
  \A q \in Requests : Overtaken(q) /\ requests[q].era < era => requests[q].raced

Families == RequestsOK /\ Exclusive /\ ParentsBurnt /\ OneSuccessor
Revocations == OneCloser /\ RacedByCloser /\ OldIsRaced /\ OutlivesOnlyByRace

IInv == TypeOK /\ Families /\ Revocations

-------------------------------------------------------------------------------
\* A counter that is started again, and a lock that is over.
LEMMA RedisReset ==
  ASSUME redis \in Redis
  PROVE  /\ [redis EXCEPT !.fail = 0, !.misses = 0] \in Redis
         /\ [redis EXCEPT !.lock = FALSE, !.misses = 0] \in Redis
         /\ [redis EXCEPT !.fail = 0, !.expires = TRUE, !.lock = FALSE, !.misses = 0] \in Redis
         /\ redis.fail \in Nat
<1>1. 0 \in 0 .. MaxAttempts /\ 0 \in Nat /\ MaxAttempts \in Nat
  BY MaxAttemptsAssumption
<1>2. redis.fail \in Nat
  BY <1>1 DEF Redis
<1>3. [redis EXCEPT !.fail = 0, !.misses = 0] \in Redis
  BY <1>1 DEF Redis
<1>4. [redis EXCEPT !.lock = FALSE, !.misses = 0] \in Redis
  BY <1>1 DEF Redis
<1>5. [redis EXCEPT !.fail = 0, !.expires = TRUE, !.lock = FALSE, !.misses = 0] \in Redis
  BY <1>1 DEF Redis
<1> QED
  BY <1>2, <1>3, <1>4, <1>5

\* A command that fails.
LEMMA LoseTypes ==
  ASSUME redis \in Redis, NEW n \in {0, 1}, Lose(n)
  PROVE  redis' \in Redis
<1>1. redis.lost + 1 \in 0 .. MaxLost /\ redis.misses + n \in Nat
  BY MaxLostAssumption DEF Redis, Lose
<1>2. redis' = [redis EXCEPT !.lost = redis.lost + 1, !.misses = redis.misses + n]
  BY DEF Lose
<1> QED
  BY <1>1, <1>2 DEF Redis

LEMMA InitOK == Init => IInv
BY MaxAttemptsAssumption, MaxLostAssumption
   DEF Init, IInv, TypeOK, Families, Revocations, Idle, NoToken, Token, Request, Redis,
       RequestsOK, RequestOK, Exclusive, ParentsBurnt, OneSuccessor, OneCloser,
       RacedByCloser, OldIsRaced, OutlivesOnlyByRace, Rotating, Closes, Overtaken,
       LiveTokens, Live

-------------------------------------------------------------------------------
(* Steps that write a request and leave the tokens and the era alone. Such  *)
(* a step keeps the invariant if the request it writes is in order:         *)

\* what it holds,
Fits(request) ==
  /\ request \in Request
  /\ request.at = "commit" => request.op \in {"login", "refresh"}
  /\ request.at \in {"revokeAll", "revoking"}
        => request.op \in {"refresh", "password", "suspend"}
  /\ request.op # "refresh" => request.token = NoToken
  /\ request.op = "refresh" => request.token \in DOMAIN tokens
  /\ request.op = "refresh" /\ request.at \in {"rotated", "commit"} => Live(request.token)

\* a lock only where it had it or could take it,
TakesLockOf(r, request) ==
  request.op = "refresh" /\ request.at \in {"rotated", "commit", "revokeAll", "revoking"}
     /\ Live(request.token)
  => ~LockedFor(r, request.token)

\* and, past its check, the race it is in.
OwnsUp(request) ==
  request.at \in {"clear", "commit", "rotated"} =>
     /\ Closing => request.raced
     /\ request.era < era => request.raced

LEMMA SetKeeps ==
  ASSUME IInv, NEW r \in Requests, NEW request, Set(r, request),
         Fits(request), TakesLockOf(r, request), OwnsUp(request),
         ~(request.op \in {"password", "suspend"} /\ request.at = "revoking"),
         UNCHANGED <<tokens, era>>
  PROVE  requests' \in [Requests -> Request] /\ Families' /\ Revocations'
<1> USE DEF IInv, Families, Revocations
<1>1. requests' = [requests EXCEPT ![r] = request] /\ requests \in [Requests -> Request]
      /\ tokens' = tokens /\ era' = era
  BY DEF Set, TypeOK
<1>2. requests' \in [Requests -> Request]
  BY <1>1 DEF Fits
<1>3. RequestsOK'
  BY <1>1 DEF RequestsOK, RequestOK, Fits, Live
<1>4. Exclusive'
  BY <1>1 DEF Exclusive, Rotating, TakesLockOf, LockedFor, Live, Fits
<1>5. ParentsBurnt' /\ OneSuccessor'
  BY <1>1 DEF ParentsBurnt, OneSuccessor, Live
<1>6. OneCloser'
  BY <1>1 DEF OneCloser, Closes
<1>7. RacedByCloser'
  BY <1>1 DEF RacedByCloser, Closes, Closing, Overtaken, OwnsUp, LiveTokens, Live
<1>8. OldIsRaced'
  BY <1>1 DEF OldIsRaced, Overtaken, OwnsUp
<1>9. OutlivesOnlyByRace'
  BY <1>1 DEF OutlivesOnlyByRace, LiveTokens, Live
<1> QED
  BY <1>2, <1>3, <1>4, <1>5, <1>6, <1>7, <1>8, <1>9

-------------------------------------------------------------------------------
(* Login.                                                                  *)

LEMMA IdleFits ==
  ASSUME IInv
  PROVE  Fits(Idle) /\ OwnsUp(Idle) /\ \A r \in Requests : TakesLockOf(r, Idle)
BY DEF IInv, TypeOK, Idle, Fits, OwnsUp, TakesLockOf, Request, NoToken

\* A step that ends its request.
LEMMA DoneKeeps ==
  ASSUME IInv, NEW r \in Requests, Done(r), UNCHANGED <<tokens, era>>
  PROVE  requests' \in [Requests -> Request] /\ Families' /\ Revocations'
<1>1. ~(Idle.op \in {"password", "suspend"} /\ Idle.at = "revoking")
  BY DEF Idle
<1> QED
  BY <1>1, IdleFits, SetKeeps DEF Done

\* A step to a statement at which nothing new is held and no check is passed.
LEMMA PlainStepKeeps ==
  ASSUME IInv, NEW r \in Requests, NEW request, Set(r, request),
         request \in Request,
         request.op # "refresh" => request.token = NoToken,
         request.op = "refresh" => request.token \in DOMAIN tokens,
         request.at \notin {"clear", "commit", "rotated", "revokeAll", "revoking"},
         UNCHANGED <<tokens, era>>
  PROVE  requests' \in [Requests -> Request] /\ Families' /\ Revocations'
<1>1. Fits(request) /\ TakesLockOf(r, request) /\ OwnsUp(request)
  BY DEF Fits, TakesLockOf, OwnsUp
<1> QED
  BY <1>1, SetKeeps

LEMMA BeginKeeps ==
  ASSUME IInv, NEW r \in Requests,
         SendLogin(r) \/ SendElsewhere(r) \/ SendRefresh(r) \/ SendChangePassword(r)
  PROVE  IInv'
<1> USE DEF IInv
<1>1. UNCHANGED <<user, tokens, redis, era>>
  BY DEF SendLogin, SendElsewhere, SendRefresh, SendChangePassword, Begin
<1>2. TypeOK' /\ Families' /\ Revocations'
  <2>1. CASE SendLogin(r)
    <3>1. PICK offered \in {user.password, 0} :
            Set(r, [Idle EXCEPT !.op = "login", !.at = "gate", !.password = offered, !.here = TRUE])
      BY <2>1 DEF SendLogin
    <3> DEFINE q == [Idle EXCEPT !.op = "login", !.at = "gate", !.password = offered, !.here = TRUE]
    <3>2. q \in Request /\ q.op = "login" /\ q.at = "gate" /\ q.token = NoToken
      <4>1. offered \in Nat
        BY DEF TypeOK
      <4> QED
        BY <4>1 DEF Idle, Request, NoToken
    <3> QED
      BY <1>1, <3>1, <3>2, PlainStepKeeps DEF TypeOK
  <2>4. CASE SendElsewhere(r)
    <3>1. Begin(r, "login", "verify", NoToken, user.password)
      BY <2>4 DEF SendElsewhere
    <3> DEFINE q == [Idle EXCEPT !.op = "login", !.at = "verify", !.token = NoToken,
                                 !.password = user.password]
    <3>2. q \in Request /\ q.op = "login" /\ q.at = "verify" /\ q.token = NoToken
      BY DEF Idle, Request, NoToken, TypeOK
    <3> QED
      BY <1>1, <3>1, <3>2, PlainStepKeeps DEF Begin, TypeOK
  <2>2. CASE SendRefresh(r)
    <3>1. PICK t \in DOMAIN tokens : Begin(r, "refresh", "read", t, 0)
      BY <2>2 DEF SendRefresh
    <3> DEFINE q == [Idle EXCEPT !.op = "refresh", !.at = "read", !.token = t,
                                 !.password = 0]
    <3>2. q \in Request /\ q.op = "refresh" /\ q.at = "read" /\ q.token = t
      <4>1. t \in Nat
        BY DEF TypeOK
      <4> QED
        BY <4>1 DEF Idle, Request, NoToken
    <3> QED
      BY <1>1, <3>1, <3>2, PlainStepKeeps DEF Begin, TypeOK
  <2>3. CASE SendChangePassword(r)
    <3>1. Begin(r, "password", "current", NoToken, user.password)
      BY <2>3 DEF SendChangePassword
    <3> DEFINE q == [Idle EXCEPT !.op = "password", !.at = "current", !.token = NoToken,
                                 !.password = user.password]
    <3>2. q \in Request /\ q.op = "password" /\ q.at = "current" /\ q.token = NoToken
      BY DEF Idle, Request, NoToken, TypeOK
    <3> QED
      BY <1>1, <3>1, <3>2, PlainStepKeeps DEF Begin, TypeOK
  <2> QED
    BY <2>1, <2>2, <2>3, <2>4
<1> QED
  BY <1>2

\* A request goes on to a statement at which no check is passed.
LEMMA GoesKeeps ==
  ASSUME IInv, NEW r \in Requests, NEW at, Goes(r, at),
         at \in {"verify", "miss", "rotate"}, UNCHANGED <<tokens, era>>
  PROVE  requests' \in [Requests -> Request] /\ Families' /\ Revocations'
<1> DEFINE q == [requests[r] EXCEPT !.at = at]
<1>1. /\ q \in Request /\ q.op = requests[r].op /\ q.token = requests[r].token
      /\ q.at = at
  BY DEF IInv, TypeOK, Request
<1>2. RequestOK(r)
  BY DEF IInv, Families, RequestsOK
<1> QED
  BY <1>1, <1>2, PlainStepKeeps DEF Goes, RequestOK

LEMMA CheckLockedKeeps ==
  ASSUME IInv, NEW r \in Requests, CheckLocked(r) PROVE IInv'
<1>1. UNCHANGED <<user, tokens, era>> /\ (Done(r) \/ Goes(r, "verify"))
      /\ (UNCHANGED redis \/ Lose(0))
  BY DEF CheckLocked
<1>2. redis' \in Redis
  BY <1>1, LoseTypes DEF IInv, TypeOK
<1> QED
  BY <1>1, <1>2, DoneKeeps, GoesKeeps DEF IInv, TypeOK

LEMMA VerifyKeeps ==
  ASSUME IInv, NEW r \in Requests, Verify(r) PROVE IInv'
<1>1. UNCHANGED <<user, tokens, redis, era>>
  BY DEF Verify
<1> DEFINE q == [requests[r] EXCEPT !.at = "clear", !.era = era, !.raced = Closing]
<1>2. Goes(r, "miss") \/ Done(r) \/ Set(r, q)
  BY DEF Verify
<1>3. CASE Set(r, q)
  <2>1. /\ q \in Request /\ q.at = "clear" /\ q.op = requests[r].op
        /\ q.token = requests[r].token /\ q.era = era /\ q.raced = Closing
    BY DEF IInv, TypeOK, Request, Closing
  <2>2. requests[r].op = "login"
    BY DEF Verify, At
  <2>3. RequestOK(r) /\ era \in Nat
    BY DEF IInv, Families, RequestsOK, TypeOK
  <2>4. Fits(q) /\ TakesLockOf(r, q)
    BY <2>1, <2>2, <2>3 DEF Fits, TakesLockOf, RequestOK
  <2>5. OwnsUp(q)
    BY <2>1, <2>3 DEF OwnsUp
  <2> QED
    BY <1>1, <1>3, <2>1, <2>2, <2>4, <2>5, SetKeeps DEF IInv, TypeOK
<1> QED
  BY <1>1, <1>2, <1>3, DoneKeeps, GoesKeeps DEF IInv, TypeOK

\* The commands of the lockout.
LEMMA LockoutKeeps ==
  ASSUME IInv, NEW r \in Requests,
         Incr(r) \/ ExpireAndLock(r) \/ NotRecorded(r) PROVE IInv'
<1>1. UNCHANGED <<user, tokens, era>>
  BY DEF Incr, ExpireAndLock, NotRecorded
<1>2. redis' \in Redis
  <2>1. redis \in Redis
    BY DEF IInv, TypeOK
  <2>2. CASE Incr(r)
    <3>1. /\ redis.fail \in 0 .. MaxAttempts /\ redis.misses + 1 \in Nat
          /\ MaxAttempts \in Nat
      BY <2>1, MaxAttemptsAssumption DEF Redis
    <3> DEFINE fail == IF redis.fail = MaxAttempts THEN redis.fail ELSE redis.fail + 1
               expires == IF redis.fail = 0 THEN FALSE ELSE redis.expires
    <3>2. fail \in 0 .. MaxAttempts
      BY <3>1
    <3>3. expires \in BOOLEAN
      BY <2>1 DEF Redis
    <3>4. redis' = [redis EXCEPT !.fail = fail, !.misses = redis.misses + 1,
                                 !.expires = expires]
      BY <2>2 DEF Incr
    <3> QED
      BY <2>1, <3>1, <3>2, <3>3, <3>4 DEF Redis
  <2>3. CASE ExpireAndLock(r)
    <3>1. redis' = [redis EXCEPT !.expires = redis.expires \/ Count(r) = 1,
                                 !.lock = redis.lock \/ Trips(Count(r))]
      BY <2>3 DEF ExpireAndLock
    <3>2. (redis.expires \/ Count(r) = 1) \in BOOLEAN /\ (redis.lock \/ Trips(Count(r))) \in BOOLEAN
      OBVIOUS
    <3> QED
      BY <2>1, <3>1, <3>2 DEF Redis
  <2>4. CASE NotRecorded(r)
    BY <2>1, <2>4, LoseTypes DEF NotRecorded
  <2> QED
    BY <2>2, <2>3, <2>4
<1>3. requests' \in [Requests -> Request] /\ Families' /\ Revocations'
  <2>1. CASE Incr(r)
    <3> DEFINE q == [requests[r] EXCEPT !.at = "counted", !.rows = {redis.fail + 1}]
    <3>1. /\ q \in Request /\ q.at = "counted" /\ q.op = requests[r].op
          /\ q.token = requests[r].token
      <4>1. redis.fail + 1 \in Nat
        BY RedisReset DEF IInv, TypeOK
      <4>2. requests[r] \in Request
        BY DEF IInv, TypeOK
      <4> HIDE DEF q
      <4>3. q = [requests[r] EXCEPT !.at = "counted", !.rows = {redis.fail + 1}]
        BY DEF q
      <4> QED
        BY <4>1, <4>2, <4>3 DEF Request
    <3>2. RequestOK(r)
      BY DEF IInv, Families, RequestsOK
    <3> QED
      BY <1>1, <2>1, <3>1, <3>2, PlainStepKeeps DEF Incr, RequestOK
  <2>2. CASE ExpireAndLock(r) \/ NotRecorded(r)
    BY <1>1, <2>2, DoneKeeps DEF ExpireAndLock, NotRecorded
  <2> QED
    BY <2>1, <2>2
<1> QED
  BY <1>1, <1>2, <1>3 DEF IInv, TypeOK

LEMMA clearKeeps ==
  ASSUME IInv, NEW r \in Requests, clear(r) PROVE IInv'
<1> DEFINE q == [requests[r] EXCEPT !.at = "commit"]
<1>1. /\ q \in Request /\ q.at = "commit" /\ q.op = "login" /\ q.token = requests[r].token
      /\ q.era = requests[r].era /\ q.raced = requests[r].raced /\ Set(r, q)
  BY DEF IInv, TypeOK, Request, clear, At, Goes
<1>2. RequestOK(r) /\ Overtaken(r)
  BY DEF IInv, Families, RequestsOK, clear, At, Overtaken
<1>3. Fits(q) /\ TakesLockOf(r, q)
  BY <1>1, <1>2 DEF Fits, TakesLockOf, RequestOK, clear, At
<1>4. OwnsUp(q)
  BY <1>1, <1>2 DEF OwnsUp, IInv, Revocations, RacedByCloser, OldIsRaced, Closing
<1>5. requests' \in [Requests -> Request] /\ Families' /\ Revocations'
  BY <1>1, <1>3, <1>4, SetKeeps DEF clear
<1>6. redis' \in Redis
  BY RedisReset, LoseTypes DEF clear, IInv, TypeOK
<1> QED
  BY <1>5, <1>6 DEF clear, IInv, TypeOK

LEMMA TimePassesKeeps ==
  ASSUME IInv, LockExpires \/ WindowEnds PROVE IInv'
<1>1. UNCHANGED <<user, tokens, requests, era>>
  BY DEF LockExpires, WindowEnds
<1>2. TypeOK'
  BY <1>1, RedisReset DEF IInv, TypeOK, LockExpires, WindowEnds
<1>3. Families'
  BY <1>1 DEF IInv, Families, RequestsOK, RequestOK, Exclusive, ParentsBurnt, OneSuccessor,
              Rotating, Live
<1>4. Revocations'
  BY <1>1 DEF IInv, Revocations, OneCloser, RacedByCloser, OldIsRaced, OutlivesOnlyByRace,
              Closes, Overtaken, LiveTokens, Live
<1> QED
  BY <1>2, <1>3, <1>4 DEF IInv

-------------------------------------------------------------------------------
(* Refresh, up to its commit.                                              *)

LEMMA ReadTokenKeeps ==
  ASSUME IInv, NEW r \in Requests, ReadToken(r) PROVE IInv'
<1>1. UNCHANGED <<user, tokens, redis, era>> /\ requests[r].op = "refresh"
  BY DEF ReadToken, At
<1>2. \/ Goes(r, "rotate") \/ Done(r)
      \/ Goes(r, "revokeAll") /\ ~Live(requests[r].token)
  BY DEF ReadToken
<1>3. CASE Goes(r, "revokeAll") /\ ~Live(requests[r].token)
  <2> DEFINE q == [requests[r] EXCEPT !.at = "revokeAll"]
  <2>1. /\ q \in Request /\ q.op = "refresh" /\ q.at = "revokeAll"
        /\ q.token = requests[r].token /\ Set(r, q)
    BY <1>1, <1>3 DEF IInv, TypeOK, Request, Goes
  <2>2. RequestOK(r)
    BY DEF IInv, Families, RequestsOK
  <2>3. Fits(q) /\ TakesLockOf(r, q) /\ OwnsUp(q)
    BY <1>1, <1>3, <2>1, <2>2 DEF Fits, TakesLockOf, OwnsUp, RequestOK
  <2> QED
    BY <1>1, <2>1, <2>3, SetKeeps DEF IInv, TypeOK
<1> QED
  BY <1>1, <1>2, <1>3, DoneKeeps, GoesKeeps DEF IInv, TypeOK

LEMMA RotateKeeps ==
  ASSUME IInv, NEW r \in Requests, Rotate(r) PROVE IInv'
<1> DEFINE t == requests[r].token
           q == [requests[r] EXCEPT !.at = "rotated", !.era = tokens[t].era,
                                    !.raced = tokens[t].raced \/ Closing]
<1>1. UNCHANGED <<user, tokens, redis, era>> /\ requests[r].op = "refresh" /\ ~LockedFor(r, t)
  BY DEF Rotate, At
<1>2. (Set(r, q) /\ Live(t)) \/ Done(r)
  BY DEF Rotate, RotationWins
<1>3. CASE Set(r, q) /\ Live(t)
  <2>1. t \in DOMAIN tokens /\ tokens[t] \in Token /\ requests[r] \in Request /\ era \in Nat
    BY <1>1 DEF IInv, TypeOK, Families, RequestsOK, RequestOK
  <2>2. tokens[t].era \in Nat /\ (tokens[t].raced \/ Closing) \in BOOLEAN
    BY <2>1 DEF Token
  <2>3. /\ q \in Request /\ q.op = "refresh" /\ q.at = "rotated" /\ q.token = t
        /\ q.era = tokens[t].era /\ q.raced = (tokens[t].raced \/ Closing)
    BY <1>1, <2>1, <2>2 DEF Request
  <2>4. Fits(q) /\ TakesLockOf(r, q)
    BY <1>1, <1>3, <2>1, <2>3 DEF Fits, TakesLockOf
  <2>5. tokens[t].era < era => tokens[t].raced
    BY <1>3, <2>1 DEF IInv, Revocations, OutlivesOnlyByRace, LiveTokens
  <2>6. OwnsUp(q)
    BY <2>3, <2>5 DEF OwnsUp
  <2> QED
    BY <1>1, <1>3, <2>3, <2>4, <2>6, SetKeeps DEF IInv, TypeOK
<1> QED
  BY <1>1, <1>2, <1>3, DoneKeeps DEF IInv, TypeOK

LEMMA LoadUserKeeps ==
  ASSUME IInv, NEW r \in Requests, LoadUser(r) PROVE IInv'
<1>1. UNCHANGED <<user, tokens, redis, era>> /\ At(r, "refresh", "rotated")
  BY DEF LoadUser
<1>2. PICK at \in {"commit", "revokeAll"} : Goes(r, at)
  BY DEF LoadUser
<1> DEFINE q == [requests[r] EXCEPT !.at = at]
<1>3. /\ q \in Request /\ q.op = "refresh" /\ q.at = at /\ q.token = requests[r].token
      /\ q.era = requests[r].era /\ q.raced = requests[r].raced /\ Set(r, q)
  BY <1>1, <1>2 DEF IInv, TypeOK, Request, Goes, At
<1>4. RequestOK(r) /\ Overtaken(r)
  BY <1>1 DEF IInv, Families, RequestsOK, At, Overtaken
<1>5. Fits(q)
  BY <1>1, <1>3, <1>4 DEF Fits, RequestOK, At
<1>6. TakesLockOf(r, q)
  <2>1. Rotating(r)
    BY <1>1, <1>4 DEF Rotating, RequestOK, At, NoToken, IInv, TypeOK
  <2> QED
    BY <1>3, <2>1 DEF TakesLockOf, LockedFor, IInv, Families, Exclusive
<1>7. OwnsUp(q)
  BY <1>3, <1>4 DEF OwnsUp, IInv, Revocations, RacedByCloser, OldIsRaced, Closing
<1> QED
  BY <1>1, <1>3, <1>5, <1>6, <1>7, SetKeeps DEF IInv, TypeOK

-------------------------------------------------------------------------------
(* The requests that will revoke everything, before they do.               *)

LEMMA RevocationBeginsKeeps ==
  ASSUME IInv, NEW r \in Requests, VerifyCurrent(r) \/ Suspend(r) PROVE IInv'
<1>1. UNCHANGED <<user, tokens, redis, era>>
  BY DEF VerifyCurrent, Suspend, Begin
<1>2. RequestOK(r) /\ requests[r] \in Request
  BY DEF IInv, Families, RequestsOK, TypeOK
<1>3. CASE VerifyCurrent(r) /\ Goes(r, "revokeAll")
  <2> DEFINE q == [requests[r] EXCEPT !.at = "revokeAll"]
  <2>1. /\ q \in Request /\ q.op = "password" /\ q.at = "revokeAll"
        /\ q.token = NoToken /\ Set(r, q)
    BY <1>2, <1>3 DEF Request, Goes, VerifyCurrent, At, RequestOK
  <2>2. Fits(q) /\ TakesLockOf(r, q) /\ OwnsUp(q)
    BY <2>1 DEF Fits, TakesLockOf, OwnsUp
  <2> QED
    BY <1>1, <2>1, <2>2, SetKeeps DEF IInv, TypeOK
<1>4. CASE Suspend(r)
  <2> DEFINE q == [Idle EXCEPT !.op = "suspend", !.at = "revokeAll", !.token = NoToken,
                               !.password = 0]
  <2>1. q \in Request /\ q.op = "suspend" /\ q.at = "revokeAll" /\ q.token = NoToken
    BY DEF Idle, Request, NoToken
  <2>2. Set(r, q)
    BY <1>4 DEF Suspend, Begin
  <2>3. Fits(q) /\ TakesLockOf(r, q) /\ OwnsUp(q)
    BY <2>1 DEF Fits, TakesLockOf, OwnsUp
  <2> QED
    BY <1>1, <2>1, <2>2, <2>3, SetKeeps DEF IInv, TypeOK
<1>5. VerifyCurrent(r) => Goes(r, "revokeAll") \/ Done(r)
  BY DEF VerifyCurrent
<1> QED
  BY <1>1, <1>3, <1>4, <1>5, DoneKeeps DEF IInv, TypeOK

LEMMA AbortDeadlockedKeeps ==
  ASSUME IInv, NEW r \in Requests, AbortDeadlocked(r) PROVE IInv'
BY DoneKeeps DEF AbortDeadlocked, IInv, TypeOK

\* The UPDATE of every live token begins: it waits, and owes.
LEMMA StartRevokingKeeps ==
  ASSUME IInv, NEW r \in Requests, StartRevoking(r) PROVE IInv'
<1> USE DEF IInv, Families, Revocations
<1>1. /\ UNCHANGED <<user, tokens, redis, era>> /\ requests[r].at = "revokeAll"
      /\ requests[r].op # "refresh" => ~UserLockedFor(r)
  BY DEF StartRevoking
<1>2. /\ requests[r] \in Request /\ RequestOK(r)
      /\ \A q \in Requests : requests[q] \in Request
  BY DEF TypeOK, RequestsOK
<1>3. /\ requests'[r] = [requests[r] EXCEPT !.at = "revoking", !.rows = LiveTokens]
      /\ \A q \in Requests \ {r} : requests'[q] =
            [requests[q] EXCEPT !.raced =
               requests[q].raced \/ (requests[r].op # "refresh" /\ Overtaken(q))]
      /\ DOMAIN requests' = Requests
  BY DEF StartRevoking, RowsToRevoke
<1>4. /\ requests'[r].op = requests[r].op /\ requests'[r].token = requests[r].token
      /\ requests'[r].at = "revoking" /\ requests'[r].rows = LiveTokens
      /\ requests'[r] \in Request
  <2>1. LiveTokens \in SUBSET Nat
    BY DEF LiveTokens, TypeOK
  <2> QED
    BY <1>2, <1>3, <2>1 DEF Request
<1>5. \A q \in Requests \ {r} :
         /\ requests'[q].op = requests[q].op /\ requests'[q].token = requests[q].token
         /\ requests'[q].at = requests[q].at /\ requests'[q].rows = requests[q].rows
         /\ requests'[q].era = requests[q].era
         /\ requests'[q].raced =
               (requests[q].raced \/ (requests[r].op # "refresh" /\ Overtaken(q)))
         /\ requests'[q] \in Request
  <2> TAKE q \in Requests \ {r}
  <2> DEFINE raced == requests[q].raced \/ (requests[r].op # "refresh" /\ Overtaken(q))
  <2>1. raced \in BOOLEAN
    BY <1>2 DEF Request
  <2>2. requests'[q] = [requests[q] EXCEPT !.raced = raced] /\ requests[q] \in Request
    BY <1>2, <1>3
  <2> QED
    BY <2>1, <2>2 DEF Request
<1>6. TypeOK'
  <2>1. requests' \in [Requests -> Request]
    BY <1>4, <1>5 DEF StartRevoking
  <2> QED
    BY <1>1, <2>1 DEF TypeOK
<1>7. Families'
  <2>1. RequestsOK'
    BY <1>1, <1>2, <1>4, <1>5 DEF RequestsOK, RequestOK, Live
  <2>2. Exclusive'
    <3>1. \A q \in Requests : Rotating(q)' => Rotating(q)
      BY <1>1, <1>4, <1>5 DEF Rotating, Live
    <3> QED
      BY <3>1, <1>4, <1>5 DEF Exclusive
  <2> QED
    BY <1>1, <2>1, <2>2 DEF ParentsBurnt, OneSuccessor, Live
<1>8. OneCloser'
  BY <1>1, <1>4, <1>5 DEF OneCloser, Closes, UserLockedFor
<1>9. RacedByCloser'
  <2> SUFFICES ASSUME NEW p \in Requests, Closes(p)'
               PROVE  /\ \A q \in Requests : Overtaken(q)' => requests'[q].raced
                      /\ \A t \in LiveTokens' : t \in requests'[p].rows \/ tokens[t].raced
    BY <1>1 DEF RacedByCloser
  <2>1. LiveTokens' = LiveTokens
    BY <1>1 DEF LiveTokens, Live
  <2>2. CASE p = r
    <3>1. requests[r].op # "refresh"
      BY <1>4, <2>2 DEF Closes
    <3> QED
      BY <1>4, <1>5, <2>1, <2>2, <3>1 DEF Overtaken
  <2>3. CASE p # r
    <3>1. Closes(p)
      BY <1>5, <2>3 DEF Closes
    <3> QED
      BY <1>4, <1>5, <2>1, <2>3, <3>1 DEF Overtaken, RacedByCloser
  <2> QED
    BY <2>2, <2>3
<1>10. OldIsRaced'
  BY <1>1, <1>4, <1>5 DEF OldIsRaced, Overtaken
<1>11. OutlivesOnlyByRace'
  BY <1>1 DEF OutlivesOnlyByRace, LiveTokens, Live
<1> QED
  BY <1>6, <1>7, <1>8, <1>9, <1>10, <1>11

-------------------------------------------------------------------------------
(* Steps that write tokens.                                                *)

\* A request that is past the conditional UPDATE has its token locked.
LEMMA HoldersRotate ==
  ASSUME IInv, NEW r \in Requests, requests[r].op = "refresh",
         requests[r].at \in {"rotated", "commit"}
  PROVE  Rotating(r)
BY DEF IInv, TypeOK, Families, RequestsOK, RequestOK, Rotating, NoToken

\* What is left of the tokens: no more are live, and the rest stays.
Fewer(kept) ==
  /\ kept \in Seq(Token) /\ Len(kept) = Len(tokens)
  /\ \A t \in DOMAIN tokens :
        /\ kept[t].parent = tokens[t].parent /\ kept[t].era = tokens[t].era
        /\ kept[t].raced = tokens[t].raced
        /\ tokens[t].revoked => kept[t].revoked

LEMMA RevokingSome ==
  ASSUME tokens \in Seq(Token), NEW dead
  PROVE  Fewer([t \in DOMAIN tokens |->
                  IF t \in dead THEN [tokens[t] EXCEPT !.revoked = TRUE] ELSE tokens[t]])
<1> DEFINE kept == [t \in DOMAIN tokens |->
                  IF t \in dead THEN [tokens[t] EXCEPT !.revoked = TRUE] ELSE tokens[t]]
<1>1. \A t \in DOMAIN tokens : tokens[t] \in Token /\ kept[t] \in Token
  <2> TAKE t \in DOMAIN tokens
  <2>1. tokens[t] \in Token
    OBVIOUS
  <2>2. [tokens[t] EXCEPT !.revoked = TRUE] \in Token
    BY <2>1 DEF Token
  <2> QED
    BY <2>1, <2>2
<1>2. kept \in [1 .. Len(tokens) -> Token]
  BY <1>1
<1>3. kept \in Seq(Token) /\ Len(kept) = Len(tokens)
  BY <1>2
<1>4. \A t \in DOMAIN tokens :
        /\ kept[t].parent = tokens[t].parent /\ kept[t].era = tokens[t].era
        /\ kept[t].raced = tokens[t].raced
        /\ tokens[t].revoked => kept[t].revoked
  BY <1>1 DEF Token
<1> QED
  BY <1>3, <1>4 DEF Fewer

LEMMA LogoutKeeps ==
  ASSUME IInv, NEW r \in Requests, Logout(r) PROVE IInv'
<1> USE DEF IInv, Families, Revocations
<1>1. PICK t \in LiveTokens :
         /\ requests[r] = Idle /\ ~LockedFor(r, t)
         /\ tokens' = [tokens EXCEPT ![t].revoked = TRUE]
         /\ UNCHANGED <<user, requests, redis, era>>
  BY DEF Logout
<1>2. tokens' = [u \in DOMAIN tokens |->
                   IF u \in {t} THEN [tokens[u] EXCEPT !.revoked = TRUE] ELSE tokens[u]]
  BY <1>1 DEF TypeOK
<1>3. Fewer(tokens')
  BY <1>2, RevokingSome DEF TypeOK
<1>4. /\ DOMAIN tokens' = DOMAIN tokens
      /\ \A u \in DOMAIN tokens : Live(u)' => Live(u)
      /\ \A u \in DOMAIN tokens \ {t} : tokens'[u] = tokens[u]
  BY <1>2, <1>3 DEF Fewer, Live, TypeOK
<1>5. TypeOK'
  BY <1>1, <1>3 DEF TypeOK, Fewer
<1>6. RequestsOK'
  <2> SUFFICES ASSUME NEW p \in Requests PROVE RequestOK(p)'
    BY DEF RequestsOK
  <2>1. ASSUME requests[p].op = "refresh", requests[p].at \in {"rotated", "commit"}
        PROVE  requests[p].token # t
    <3>1. p # r
      BY <1>1, <2>1 DEF Idle
    <3> QED
      BY <1>1, <2>1, <3>1, HoldersRotate DEF LockedFor
  <2> QED
    BY <1>1, <1>4, <2>1 DEF RequestsOK, RequestOK, Live
<1>7. Exclusive'
  <2>1. \A q \in Requests : Rotating(q)' => Rotating(q)
    BY <1>1, <1>4 DEF Rotating, RequestsOK, RequestOK
  <2> QED
    BY <1>1, <2>1 DEF Exclusive
<1>8. ParentsBurnt' /\ OneSuccessor'
  BY <1>3, <1>4 DEF ParentsBurnt, OneSuccessor, Fewer
<1>9. OneCloser' /\ OldIsRaced'
  BY <1>1 DEF OneCloser, OldIsRaced, Closes, Overtaken
<1>10. RacedByCloser'
  BY <1>1, <1>3, <1>4 DEF RacedByCloser, Closes, Overtaken, LiveTokens, Fewer
<1>11. OutlivesOnlyByRace'
  BY <1>1, <1>3, <1>4 DEF OutlivesOnlyByRace, LiveTokens, Fewer
<1> QED
  BY <1>5, <1>6, <1>7, <1>8, <1>9, <1>10, <1>11

LEMMA CommitSessionKeeps ==
  ASSUME IInv, NEW r \in Requests, CommitSession(r) PROVE IInv'
<1> USE DEF IInv, Families, Revocations
<1> DEFINE q == requests[r]
           n == Len(tokens)
           burnt == [t \in DOMAIN tokens |->
                       IF t \in {q.token} THEN [tokens[t] EXCEPT !.revoked = TRUE]
                       ELSE tokens[t]]
           new == [revoked |-> FALSE, parent |-> q.token, era |-> q.era, raced |-> q.raced]
<1>1. /\ q.at = "commit" /\ Done(r) /\ UNCHANGED <<user, redis, era>>
      /\ q \in Request /\ RequestOK(r) /\ Overtaken(r)
  BY DEF CommitSession, TypeOK, RequestsOK, Overtaken
<1>2. tokens' = Append(burnt, new)
  BY DEF CommitSession, _issue
<1>3. Fewer(burnt) /\ n \in Nat /\ DOMAIN tokens = 1 .. n
  <2>1. tokens \in Seq(Token)
    BY DEF TypeOK
  <2>2. Fewer(burnt)
    BY <2>1, RevokingSome
  <2>3. n \in Nat /\ DOMAIN tokens = 1 .. n
    BY <2>1
  <2> QED
    BY <2>2, <2>3
<1>4. new \in Token
  BY <1>1 DEF Token, Request
<1>5. /\ tokens' \in Seq(Token) /\ DOMAIN tokens' = 1 .. n + 1 /\ tokens'[n + 1] = new
      /\ \A t \in DOMAIN tokens : tokens'[t] = burnt[t]
  <2> HIDE DEF burnt, new
  <2> QED
    BY <1>2, <1>3, <1>4 DEF Fewer
<1>6. \A t \in DOMAIN tokens :
         /\ tokens'[t].parent = tokens[t].parent /\ tokens'[t].era = tokens[t].era
         /\ tokens'[t].raced = tokens[t].raced
         /\ Live(t)' => Live(t) /\ t # q.token
         /\ Live(t) /\ t # q.token => Live(t)'
  <2> TAKE t \in DOMAIN tokens
  <2>1. tokens[t] \in Token /\ tokens'[t] = burnt[t]
    BY <1>5 DEF TypeOK
  <2>2. burnt[t].revoked <=> tokens[t].revoked \/ t = q.token
    BY <2>1 DEF Token
  <2> HIDE DEF burnt
  <2> QED
    BY <1>3, <2>1, <2>2 DEF Fewer, Live
<1>7. requests' = [requests EXCEPT ![r] = Idle] /\ Idle \in Request
  BY <1>1 DEF Done, Set, Idle, Request, NoToken
<1>8. /\ q.token # NoToken => q.op = "refresh" /\ q.token \in DOMAIN tokens /\ Live(q.token)
                               /\ Rotating(r)
      /\ q.token = NoToken => q.token \notin DOMAIN tokens
  BY <1>1, <1>3, HoldersRotate DEF RequestOK, NoToken
<1>9. TypeOK'
  BY <1>1, <1>5, <1>7 DEF TypeOK
<1>10. RequestsOK'
  <2> SUFFICES ASSUME NEW p \in Requests PROVE RequestOK(p)'
    BY DEF RequestsOK
  <2>1. CASE p = r
    BY <1>7, <2>1 DEF RequestOK, Idle, TypeOK
  <2>2. CASE p # r
    <3>1. requests'[p] = requests[p] /\ RequestOK(p)
      BY <1>7, <2>2 DEF RequestsOK
    <3>2. ASSUME requests[p].op = "refresh", requests[p].at \in {"rotated", "commit"}
          PROVE  requests[p].token # q.token /\ requests[p].token \in DOMAIN tokens
      BY <1>8, <2>2, <3>1, <3>2, HoldersRotate DEF Exclusive, RequestOK
    <3>3. DOMAIN tokens \subseteq DOMAIN tokens'
      BY <1>3, <1>5
    <3> QED
      BY <1>6, <3>1, <3>2, <3>3 DEF RequestOK
  <2> QED
    BY <2>1, <2>2
<1>11. Exclusive'
  <2>1. \A p \in Requests : Rotating(p)' => p # r /\ requests'[p] = requests[p] /\ Rotating(p)
    <3> TAKE p \in Requests
    <3>1. CASE p = r
      BY <1>7, <3>1 DEF Rotating, Idle, TypeOK
    <3>2. CASE p # r
      BY <1>6, <1>7, <3>2 DEF Rotating, RequestsOK, RequestOK
    <3> QED
      BY <3>1, <3>2
  <2> QED
    BY <2>1 DEF Exclusive
<1>12. ParentsBurnt'
  BY <1>3, <1>5, <1>6, <1>8 DEF ParentsBurnt
<1>13. OneSuccessor'
  BY <1>3, <1>5, <1>6, <1>8 DEF ParentsBurnt, OneSuccessor
<1>14. \A p \in Requests : p # r => requests'[p] = requests[p]
  BY <1>7
<1>15. requests'[r] = Idle
  BY <1>7 DEF TypeOK
<1>16. OneCloser'
  BY <1>14, <1>15 DEF OneCloser, Closes, Idle
<1>17. RacedByCloser'
  <2> SUFFICES ASSUME NEW p \in Requests, Closes(p)'
               PROVE  /\ \A x \in Requests : Overtaken(x)' => requests'[x].raced
                      /\ \A t \in LiveTokens' : t \in requests'[p].rows \/ tokens'[t].raced
    BY DEF RacedByCloser
  <2>1. p # r /\ Closes(p) /\ requests'[p] = requests[p]
    BY <1>14, <1>15 DEF Closes, Idle
  <2>2. \A x \in Requests : Overtaken(x)' => requests'[x].raced
    BY <1>14, <1>15, <2>1 DEF RacedByCloser, Overtaken, Idle
  <2>3. q.raced
    BY <1>1, <2>1 DEF RacedByCloser
  <2>4. \A t \in LiveTokens' : t \in requests'[p].rows \/ tokens'[t].raced
    BY <1>3, <1>5, <1>6, <2>1, <2>3 DEF RacedByCloser, LiveTokens
  <2> QED
    BY <2>2, <2>4
<1>18. OldIsRaced'
  BY <1>1, <1>14, <1>15 DEF OldIsRaced, Overtaken, Idle
<1>19. OutlivesOnlyByRace'
  <2>1. q.era < era => q.raced
    BY <1>1 DEF OldIsRaced
  <2> QED
    BY <1>1, <1>3, <1>5, <1>6, <2>1 DEF OutlivesOnlyByRace, LiveTokens
<1> QED
  BY <1>9, <1>10, <1>11, <1>12, <1>13, <1>16, <1>17, <1>18, <1>19

LEMMA CommitRevokingKeeps ==
  ASSUME IInv, NEW r \in Requests, CommitRevoking(r) PROVE IInv'
<1> USE DEF IInv, Families, Revocations
<1> DEFINE q == requests[r]
           dead == q.rows \cup {q.token}
<1>1. /\ q.at = "revoking" /\ Done(r) /\ redis' = redis /\ user' = NewUser(r)
      /\ era' = IF q.op = "refresh" THEN era ELSE era + 1
      /\ \A t \in q.rows : ~LockedFor(r, t)
  BY DEF CommitRevoking
<1>2. tokens' = [t \in DOMAIN tokens |->
                   IF t \in dead THEN [tokens[t] EXCEPT !.revoked = TRUE] ELSE tokens[t]]
  BY DEF CommitRevoking
<1>3. Fewer(tokens')
  <2>1. tokens \in Seq(Token)
    BY DEF TypeOK
  <2> QED
    BY <1>2, <2>1, RevokingSome
<1>4. /\ DOMAIN tokens' = DOMAIN tokens
      /\ \A t \in DOMAIN tokens : /\ Live(t)' => Live(t) /\ t \notin dead
                                  /\ Live(t) /\ t \notin dead => Live(t)'
  <2>1. DOMAIN tokens' = DOMAIN tokens
    BY <1>2
  <2>2. \A t \in DOMAIN tokens : tokens[t] \in Token
    BY DEF TypeOK
  <2> QED
    BY <1>2, <2>1, <2>2 DEF Live, Token
<1>5. /\ q \in Request /\ RequestOK(r) /\ q.op \in {"refresh", "password", "suspend"}
      /\ q.op # "refresh" => Closes(r)
  BY <1>1 DEF TypeOK, RequestsOK, RequestOK, Closes
<1>6. /\ requests'[r] = Idle
      /\ \A p \in Requests : p # r => requests'[p] = requests[p]
      /\ requests' \in [Requests -> Request]
  BY <1>1 DEF Done, Set, TypeOK, Idle, Request, NoToken
<1>7. TypeOK'
  <2>1. user' \in [password : Nat \ {0}, active : BOOLEAN]
    <3>1. user.password + 1 \in Nat \ {0} /\ user \in [password : Nat \ {0}, active : BOOLEAN]
      BY DEF TypeOK
    <3>2. \/ user' = [user EXCEPT !.password = user.password + 1]
          \/ user' = [user EXCEPT !.active = FALSE]
          \/ user' = user
      BY <1>1 DEF NewUser
    <3> QED
      BY <3>1, <3>2
  <2>2. era' \in Nat
    BY <1>1 DEF TypeOK
  <2> QED
    BY <1>1, <1>3, <1>6, <2>1, <2>2 DEF TypeOK, Fewer
<1>8. RequestsOK'
  <2> SUFFICES ASSUME NEW p \in Requests PROVE RequestOK(p)'
    BY DEF RequestsOK
  <2>1. CASE p = r
    BY <1>6, <2>1 DEF RequestOK, Idle
  <2>2. CASE p # r
    <3>1. requests'[p] = requests[p] /\ RequestOK(p)
      BY <1>6, <2>2 DEF RequestsOK
    <3>2. ASSUME requests[p].op = "refresh", requests[p].at \in {"rotated", "commit"}
          PROVE  requests[p].token \notin dead
      <4>1. Rotating(p) /\ Live(requests[p].token) /\ requests[p].token \in DOMAIN tokens
        BY <3>1, <3>2, HoldersRotate DEF RequestOK
      <4>2. requests[p].token \notin q.rows
        BY <1>1, <2>2, <4>1 DEF LockedFor
      <4>3. requests[p].token # q.token
        <5>1. CASE q.op = "refresh"
          <6>1. q.token # NoToken
            BY <1>5, <5>1 DEF RequestOK, NoToken, TypeOK
          <6> QED
            BY <1>1, <2>2, <4>1, <5>1, <6>1 DEF Rotating, Exclusive
        <5>2. CASE q.op # "refresh"
          BY <1>5, <4>1, <5>2 DEF RequestOK, NoToken, TypeOK
        <5> QED
          BY <5>1, <5>2
      <4> QED
        BY <4>2, <4>3
    <3> QED
      BY <1>4, <3>1, <3>2 DEF RequestOK
  <2> QED
    BY <2>1, <2>2
<1>9. Exclusive'
  <2>1. \A p \in Requests : Rotating(p)' => p # r /\ requests'[p] = requests[p] /\ Rotating(p)
    <3> TAKE p \in Requests
    <3>1. CASE p = r
      BY <1>6, <3>1 DEF Rotating, Idle
    <3>2. CASE p # r
      BY <1>4, <1>6, <3>2 DEF Rotating, RequestsOK, RequestOK
    <3> QED
      BY <3>1, <3>2
  <2> QED
    BY <2>1 DEF Exclusive
<1>10. ParentsBurnt' /\ OneSuccessor'
  BY <1>3, <1>4 DEF ParentsBurnt, OneSuccessor, Fewer
<1>11. OneCloser'
  BY <1>6 DEF OneCloser, Closes, Idle
<1>12. RacedByCloser'
  <2> SUFFICES ASSUME NEW p \in Requests, Closes(p)'
               PROVE  /\ \A x \in Requests : Overtaken(x)' => requests'[x].raced
                      /\ \A t \in LiveTokens' : t \in requests'[p].rows \/ tokens'[t].raced
    BY DEF RacedByCloser
  <2>1. p # r /\ Closes(p) /\ requests'[p] = requests[p]
    BY <1>6 DEF Closes, Idle
  <2>2. \A x \in Requests : Overtaken(x)' => requests'[x].raced
    BY <1>6, <2>1 DEF RacedByCloser, Overtaken, Idle
  <2>3. \A t \in LiveTokens' : t \in requests'[p].rows \/ tokens'[t].raced
    BY <1>3, <1>4, <2>1 DEF RacedByCloser, LiveTokens, Fewer
  <2> QED
    BY <2>2, <2>3
<1>13. OldIsRaced'
  <2>1. CASE q.op = "refresh"
    BY <1>1, <1>6, <2>1 DEF OldIsRaced, Overtaken, Idle
  <2>2. CASE q.op # "refresh"
    BY <1>5, <1>6, <2>2 DEF RacedByCloser, OldIsRaced, Overtaken, Idle
  <2> QED
    BY <2>1, <2>2
<1>14. OutlivesOnlyByRace'
  <2>1. CASE q.op = "refresh"
    BY <1>1, <1>3, <1>4, <2>1 DEF OutlivesOnlyByRace, LiveTokens, Fewer
  <2>2. CASE q.op # "refresh"
    <3>1. \A t \in DOMAIN tokens : Live(t)' => Live(t) /\ t \notin q.rows
      BY <1>4
    <3>2. \A t \in LiveTokens : t \in q.rows \/ tokens[t].raced
      BY <1>5, <2>2 DEF RacedByCloser
    <3> QED
      BY <1>3, <1>4, <3>1, <3>2 DEF OutlivesOnlyByRace, LiveTokens, Fewer
  <2> QED
    BY <2>1, <2>2
<1> QED
  BY <1>7, <1>8, <1>9, <1>10, <1>11, <1>12, <1>13, <1>14

LEMMA AdministratorKeeps ==
  ASSUME IInv, Reactivate \/ AdminResets PROVE IInv'
<1>1. UNCHANGED <<tokens, requests, redis, era>>
  BY DEF Reactivate, AdminResets
<1>2. TypeOK'
  <2>1. user' \in [password : Nat \ {0}, active : BOOLEAN]
    <3>1. user.password + 1 \in Nat \ {0} /\ user \in [password : Nat \ {0}, active : BOOLEAN]
      BY DEF IInv, TypeOK
    <3>2. \/ user' = [user EXCEPT !.password = user.password + 1]
          \/ user' = [user EXCEPT !.active = TRUE]
      BY DEF Reactivate, AdminResets
    <3> QED
      BY <3>1, <3>2
  <2> QED
    BY <1>1, <2>1 DEF IInv, TypeOK
<1>3. Families'
  BY <1>1 DEF IInv, Families, RequestsOK, RequestOK, Exclusive, ParentsBurnt, OneSuccessor,
              Rotating, Live
<1>4. Revocations'
  BY <1>1 DEF IInv, Revocations, OneCloser, RacedByCloser, OldIsRaced, OutlivesOnlyByRace,
              Closes, Overtaken, LiveTokens, Live
<1> QED
  BY <1>2, <1>3, <1>4 DEF IInv

LEMMA StutterKeeps == ASSUME IInv, UNCHANGED vars PROVE IInv'
<1>1. UNCHANGED <<user, tokens, requests, redis, era>>
  BY DEF vars
<1>2. TypeOK' /\ Families'
  BY <1>1 DEF IInv, TypeOK, Families, RequestsOK, RequestOK, Exclusive, ParentsBurnt,
              OneSuccessor, Rotating, Live
<1>3. Revocations'
  BY <1>1 DEF IInv, Revocations, OneCloser, RacedByCloser, OldIsRaced, OutlivesOnlyByRace,
              Closes, Overtaken, LiveTokens, Live
<1> QED
  BY <1>2, <1>3 DEF IInv

-------------------------------------------------------------------------------
\* Types, families and revocations together are kept by every statement of
\* every request (modules/auth/service.py and lockout.py of both planes).
THEOREM Inductive == Spec => []IInv
<1>1. IInv /\ [Next]_vars => IInv'
  <2> SUFFICES ASSUME IInv, [Next]_vars PROVE IInv'
    OBVIOUS
  <2>1. CASE \E r \in Requests : ServerStep(r)
    BY <2>1, CheckLockedKeeps, VerifyKeeps, LockoutKeeps, clearKeeps, CommitSessionKeeps,
       ReadTokenKeeps, RotateKeeps, LoadUserKeeps, StartRevokingKeeps,
       CommitRevokingKeeps, AbortDeadlockedKeeps, RevocationBeginsKeeps DEF ServerStep
  <2>2. CASE \E r \in Requests : \/ SendLogin(r) \/ SendElsewhere(r) \/ SendRefresh(r) \/ Logout(r)
                                 \/ SendChangePassword(r) \/ Suspend(r) \/ NotRecorded(r)
    BY <2>2, BeginKeeps, LogoutKeeps, RevocationBeginsKeeps, LockoutKeeps
  <2>3. CASE LockExpires \/ WindowEnds \/ Reactivate \/ AdminResets
    BY <2>3, TimePassesKeeps, AdministratorKeeps
  <2>4. CASE UNCHANGED vars
    BY <2>4, StutterKeeps
  <2> QED
    BY <2>1, <2>2, <2>3, <2>4 DEF Next
<1> QED
  BY InitOK, <1>1, PTL DEF Spec

\* Type correctness of an account's sessions, for any number of requests.
THEOREM SessionTypes == Spec => []TypeOK
<1>1. IInv => TypeOK
  BY DEF IInv
<1> QED
  BY Inductive, <1>1, PTL

\* A refresh token is exchanged once (refresh_session's conditional UPDATE),
\* for any number of tabs, requests and tokens.
THEOREM TokensExchangedOnce == Spec => []OneSuccessor
<1>1. IInv => OneSuccessor
  BY DEF IInv, Families
<1> QED
  BY Inductive, <1>1, PTL

\* What outlives a change of password or a suspension was being issued while
\* it was committed (change_password, update_user).
THEOREM RevocationsReachAllButRaced == Spec => []OutlivesOnlyByRace
<1>1. IInv => OutlivesOnlyByRace
  BY DEF IInv, Revocations
<1> QED
  BY Inductive, <1>1, PTL
-------------------------------------------------------------------------------
(* The lockout.  A wrong password that was tried is one that the counter   *)
(* counted, or one that came when the counter had reached the limit: then  *)
(* its request is about to set the lock, unless Redis loses that.  Once    *)
(* the lock is there no request passes it, and what is still to be tried   *)
(* is in the hands of those that did before, and of those that a failed    *)
(* read lets through.                                                      *)

\* The requests past the lock with their password still to be refused,
Past == {r \in Requests : \/ At(r, "login", "verify") /\ requests[r].here
                          \/ At(r, "login", "miss")}

\* and those that have counted to the limit and are about to set the lock.
Trippers == {r \in Requests : At(r, "login", "counted") /\ Trips(Count(r))}

Counted ==
  /\ redis.fail < MaxAttempts => redis.misses <= redis.fail + redis.lost
  /\ ~redis.lock =>
       redis.misses <= (MaxAttempts - 1) + Cardinality(Trippers) + redis.lost
  /\ redis.lock =>
       redis.misses + Cardinality(Past)
         <= (MaxAttempts - 1) + Cardinality(Requests) + redis.lost

-------------------------------------------------------------------------------
\* How many requests two disjoint sets of them hold.
LEMMA Sizes ==
  ASSUME NEW S \in SUBSET Requests, NEW T \in SUBSET Requests, S \cap T = {}
  PROVE  /\ Cardinality(S) \in Nat /\ Cardinality(T) \in Nat /\ Cardinality(Requests) \in Nat
         /\ Cardinality(S) + Cardinality(T) <= Cardinality(Requests)
<1>1. IsFiniteSet(S) /\ IsFiniteSet(T) /\ S \cup T \in SUBSET Requests
  BY RequestsAssumption, FS_Subset
<1>2. Cardinality(S) \in Nat /\ Cardinality(T) \in Nat /\ Cardinality(Requests) \in Nat
  BY <1>1, RequestsAssumption, FS_CardinalityType
<1>3. Cardinality(S \cup T) = Cardinality(S) + Cardinality(T) - Cardinality({})
  BY <1>1, FS_Union
<1>4. Cardinality(S \cup T) <= Cardinality(Requests)
  BY <1>1, RequestsAssumption, FS_Subset
<1>5. Cardinality({}) = 0
  BY FS_EmptySet
<1> QED
  BY <1>2, <1>3, <1>4, <1>5

LEMMA Without ==
  ASSUME NEW S \in SUBSET Requests, NEW r \in S
  PROVE  Cardinality(S) = Cardinality(S \ {r}) + 1 /\ Cardinality(S \ {r}) \in Nat
<1>1. IsFiniteSet(S) /\ IsFiniteSet(S \ {r})
  BY RequestsAssumption, FS_Subset, FS_RemoveElement
<1>2. Cardinality(S \ {r}) = Cardinality(S) - 1
  BY <1>1, FS_RemoveElement
<1> QED
  BY <1>1, <1>2, FS_CardinalityType

LEMMA SizesHere ==
  /\ Past \in SUBSET Requests /\ Trippers \in SUBSET Requests /\ Past \cap Trippers = {}
  /\ Cardinality(Past) \in Nat /\ Cardinality(Trippers) \in Nat
  /\ Cardinality(Requests) \in Nat
  /\ Cardinality(Past) + Cardinality(Trippers) <= Cardinality(Requests)
<1>1. Past \in SUBSET Requests /\ Trippers \in SUBSET Requests /\ Past \cap Trippers = {}
  BY DEF Past, Trippers, At
<1> QED
  BY <1>1, Sizes

\* A statement of r leaves the others where they are.
LEMMA OthersStay ==
  ASSUME NEW r \in Requests, \A q \in Requests \ {r} : requests'[q] = requests[q]
  PROVE  Past' \ {r} = Past \ {r} /\ Trippers' \ {r} = Trippers \ {r}
<1>1. \A q \in Requests \ {r} : (q \in Past' <=> q \in Past)
  BY DEF Past, At
<1>2. \A q \in Requests \ {r} : (q \in Trippers' <=> q \in Trippers)
  BY DEF Trippers, At, Count
<1>3. /\ Past \in SUBSET Requests /\ Trippers \in SUBSET Requests
      /\ Past' \in SUBSET Requests /\ Trippers' \in SUBSET Requests
  BY DEF Past, Trippers
<1> QED
  BY <1>1, <1>2, <1>3

LEMMA RedisNumbers ==
  ASSUME TypeOK
  PROVE  /\ redis.fail \in Nat /\ redis.misses \in Nat /\ redis.lost \in Nat
         /\ redis.lock \in BOOLEAN /\ MaxAttempts \in Nat \ {0}
BY MaxAttemptsAssumption, MaxLostAssumption DEF TypeOK, Redis

-------------------------------------------------------------------------------
\* A statement that leaves Redis alone, about to set no lock, and lets nobody
\* pass one.
LEMMA QuietKeeps ==
  ASSUME TypeOK, Counted, UNCHANGED redis, NEW r \in Requests,
         \A q \in Requests \ {r} :
            /\ requests'[q].op = requests[q].op /\ requests'[q].at = requests[q].at
            /\ requests'[q].rows = requests[q].rows /\ requests'[q].here = requests[q].here,
         ~At(r, "login", "counted"), ~At(r, "login", "counted")',
         r \in Past' => r \in Past \/ ~redis.lock
  PROVE  Counted'
<1>1. Trippers' = Trippers
  BY DEF Trippers, At, Count
<1>2. Past' \subseteq Past \cup {r}
  BY DEF Past, At
<1>3. ASSUME redis.lock PROVE Cardinality(Past') <= Cardinality(Past) /\ Cardinality(Past') \in Nat
  <2>1. Past' \in SUBSET Past
    BY <1>2, <1>3
  <2> QED
    BY <2>1, SizesHere, RequestsAssumption, FS_Subset, FS_CardinalityType
<1>4. redis.lock => redis.misses + Cardinality(Past')
                      <= (MaxAttempts - 1) + Cardinality(Requests) + redis.lost
  BY <1>3, SizesHere, RedisNumbers DEF Counted
<1> QED
  BY <1>1, <1>4 DEF Counted

\* A command that fails lets at most one request past the lock, or loses one
\* that was to set it, or one wrong password.
LEMMA LoseCounts ==
  ASSUME IInv, Counted, NEW n \in {0, 1}, Lose(n),
         Cardinality(Past') + n <= Cardinality(Past) + 1,
         Cardinality(Trippers) + n <= Cardinality(Trippers') + 1,
         Cardinality(Past') \in Nat, Cardinality(Trippers') \in Nat
  PROVE  Counted'
<1>1. /\ redis \in Redis /\ redis.fail \in Nat /\ redis.misses \in Nat /\ redis.lost \in Nat
      /\ redis.lock \in BOOLEAN /\ MaxAttempts \in Nat \ {0}
  BY RedisNumbers DEF IInv, TypeOK
<1>2. /\ redis'.fail = redis.fail /\ redis'.misses = redis.misses + n
      /\ redis'.lost = redis.lost + 1 /\ redis'.lock = redis.lock
  BY <1>1 DEF Lose, Redis
<1>3. redis.fail < MaxAttempts => redis.misses + n <= redis.fail + (redis.lost + 1)
  BY <1>1 DEF Counted
<1>4. ~redis.lock => redis.misses + n
                       <= (MaxAttempts - 1) + Cardinality(Trippers') + (redis.lost + 1)
  BY <1>1, SizesHere DEF Counted
<1>5. redis.lock => redis.misses + n + Cardinality(Past')
                      <= (MaxAttempts - 1) + Cardinality(Requests) + (redis.lost + 1)
  BY <1>1, SizesHere DEF Counted
<1> QED
  BY <1>2, <1>3, <1>4, <1>5 DEF Counted

LEMMA GateCounts ==
  ASSUME IInv, Counted, NEW r \in Requests, CheckLocked(r)
  PROVE  Counted'
<1>1. requests \in [Requests -> Request] /\ TypeOK
  BY DEF IInv, TypeOK
<1> DEFINE passed == [requests[r] EXCEPT !.at = "verify"]
<1>2. /\ passed.at = "verify" /\ passed.op = "login" /\ Idle.at = "idle" /\ Idle.op = "none"
      /\ requests[r].at = "gate"
  BY <1>1 DEF Request, Idle, CheckLocked, At
<1>3. \/ requests' = [requests EXCEPT ![r] = Idle] /\ UNCHANGED redis
      \/ requests' = [requests EXCEPT ![r] = passed] /\ ~redis.lock /\ UNCHANGED redis
      \/ requests' = [requests EXCEPT ![r] = passed] /\ redis.lock /\ Lose(0)
  BY DEF CheckLocked, Done, Goes, Set
<1> HIDE DEF passed
<1>4. /\ requests'[r] \in {Idle, passed}
      /\ \A q \in Requests \ {r} : requests'[q] = requests[q]
  BY <1>1, <1>3
<1>5. ~At(r, "login", "counted") /\ ~At(r, "login", "counted")'
  BY <1>2, <1>4 DEF At
<1>6. CASE UNCHANGED redis
  <2>1. r \in Past' => r \in Past \/ ~redis.lock
    <3>1. CASE redis.lock /\ Lose(0)
      <4>1. redis \in Redis /\ redis.lost \in Nat
        BY <1>1, RedisNumbers DEF TypeOK
      <4>2. redis'.lost = redis.lost + 1
        BY <3>1, <4>1 DEF Lose, Redis
      <4> QED
        BY <1>6, <4>1, <4>2
    <3>2. CASE requests' = [requests EXCEPT ![r] = Idle]
      BY <1>1, <1>2, <3>2 DEF Past, At
    <3> QED
      BY <1>3, <3>1, <3>2
  <2> QED
    BY <1>1, <1>4, <1>5, <1>6, <2>1, QuietKeeps
<1>7. CASE Lose(0)
  <2>1. Past' \in SUBSET Requests /\ Past' \ {r} = Past \ {r} /\ r \notin Past
    <3>1. Past' \ {r} = Past \ {r}
      BY <1>4, OthersStay
    <3> QED
      BY <1>2, <3>1 DEF Past, At
  <2>2. Cardinality(Past') <= Cardinality(Past) + 1 /\ Cardinality(Past') \in Nat
    <3>1. CASE r \in Past'
      <4>1. Cardinality(Past') = Cardinality(Past' \ {r}) + 1
        BY <2>1, <3>1, Without
      <4>2. Past' \ {r} = Past
        BY <2>1
      <4> QED
        BY <4>1, <4>2, SizesHere
    <3>2. CASE r \notin Past'
      <4>1. Past' = Past
        BY <2>1, <3>2
      <4> QED
        BY <4>1, SizesHere
    <3> QED
      BY <3>1, <3>2
  <2>3. Trippers' = Trippers
    <3>1. r \notin Trippers /\ r \notin Trippers'
      BY <1>5 DEF Trippers, At
    <3>2. Trippers' \ {r} = Trippers \ {r}
      BY <1>4, OthersStay
    <3> QED
      BY <3>1, <3>2
  <2>4. /\ Cardinality(Past') + 0 <= Cardinality(Past) + 1
        /\ Cardinality(Trippers) + 0 <= Cardinality(Trippers') + 1
        /\ Cardinality(Trippers') \in Nat
    BY <2>2, <2>3, SizesHere
  <2> QED
    BY <1>7, <2>2, <2>4, LoseCounts
<1> QED
  BY <1>3, <1>6, <1>7

LEMMA VerifyCounts ==
  ASSUME IInv, Counted, NEW r \in Requests, Verify(r)
  PROVE  Counted'
<1>1. requests \in [Requests -> Request] /\ TypeOK /\ UNCHANGED redis
  BY DEF IInv, TypeOK, Verify
<1> DEFINE missed == [requests[r] EXCEPT !.at = "miss"]
           passed == [requests[r] EXCEPT !.at = "clear", !.era = era, !.raced = Closing]
<1>2. missed.at = "miss" /\ passed.at = "clear" /\ Idle.at = "idle"
  BY <1>1 DEF Request, Idle
<1>3. \/ requests' = [requests EXCEPT ![r] = Idle]
      \/ requests' = [requests EXCEPT ![r] = missed] /\ requests[r].here
      \/ requests' = [requests EXCEPT ![r] = passed]
  BY Zenon DEF Verify, Done, Goes, Set
<1> HIDE DEF missed, passed
<1>4. /\ requests'[r] \in {Idle, missed, passed}
      /\ \A q \in Requests \ {r} : requests'[q] = requests[q]
  BY <1>1, <1>3
<1>5. ~At(r, "login", "counted") /\ ~At(r, "login", "counted")'
  BY <1>2, <1>4 DEF Verify, At
<1>6. r \in Past' => r \in Past
  <2>1. CASE requests[r].here
    BY <2>1 DEF Verify, Past
  <2>2. CASE ~requests[r].here
    <3>1. requests'[r] \in {Idle, passed}
      BY <1>1, <1>3, <2>2
    <3> QED
      BY <1>2, <3>1 DEF Past, At
  <2> QED
    BY <2>1, <2>2
<1> QED
  BY <1>1, <1>4, <1>5, <1>6, QuietKeeps

LEMMA BeginCount ==
  ASSUME IInv, Counted, NEW r \in Requests,
         SendLogin(r) \/ SendElsewhere(r) \/ SendRefresh(r) \/ SendChangePassword(r) \/ Suspend(r)
  PROVE  Counted'
<1>1. requests \in [Requests -> Request] /\ TypeOK
  BY DEF IInv, TypeOK
<1>2. PICK to : /\ requests[r] = Idle /\ UNCHANGED redis
                /\ requests' = [requests EXCEPT ![r] = to]
                /\ to.at \in {"gate", "read", "current", "revokeAll", "verify"}
                /\ to.at = "verify" => ~to.here
  <2>1. CASE SendLogin(r)
    <3>1. PICK offered \in {user.password, 0} :
            Set(r, [Idle EXCEPT !.op = "login", !.at = "gate", !.password = offered, !.here = TRUE])
      BY <2>1 DEF SendLogin
    <3> DEFINE q == [Idle EXCEPT !.op = "login", !.at = "gate", !.password = offered, !.here = TRUE]
    <3>2. q.at = "gate"
      BY DEF Idle
    <3> QED
      BY <2>1, <3>1, <3>2 DEF SendLogin, Set
  <2>2. CASE SendElsewhere(r) \/ SendRefresh(r) \/ SendChangePassword(r) \/ Suspend(r)
    <3>1. PICK op, at, token, password :
            /\ Begin(r, op, at, token, password)
            /\ at \in {"verify", "read", "current", "revokeAll"}
      BY <2>2 DEF SendElsewhere, SendRefresh, SendChangePassword, Suspend
    <3> DEFINE q == [Idle EXCEPT !.op = op, !.at = at, !.token = token, !.password = password]
    <3>2. q.at = at /\ ~q.here
      BY DEF Idle
    <3>3. requests[r] = Idle /\ UNCHANGED redis /\ requests' = [requests EXCEPT ![r] = q]
      BY <3>1 DEF Begin, Set
    <3> HIDE DEF q
    <3> QED
      BY <3>1, <3>2, <3>3
  <2> QED
    BY <2>1, <2>2
<1>3. requests'[r] = to /\ \A q \in Requests \ {r} : requests'[q] = requests[q]
  BY <1>1, <1>2
<1>4. ~At(r, "login", "counted") /\ ~At(r, "login", "counted")' /\ r \notin Past'
  BY <1>2, <1>3 DEF At, Past, Idle
<1> QED
  BY <1>1, <1>2, <1>3, <1>4, QuietKeeps

\* Every other statement of a request is past the password or has none.
LEMMA OthersCount ==
  ASSUME IInv, Counted, NEW r \in Requests,
         \/ CommitSession(r) \/ ReadToken(r) \/ Rotate(r) \/ LoadUser(r)
         \/ StartRevoking(r) \/ CommitRevoking(r) \/ AbortDeadlocked(r) \/ VerifyCurrent(r)
  PROVE  Counted'
<1>1. requests \in [Requests -> Request] /\ TypeOK /\ UNCHANGED redis
  BY DEF IInv, TypeOK, CommitSession, ReadToken, Rotate, LoadUser, StartRevoking,
         CommitRevoking, AbortDeadlocked, VerifyCurrent
<1>2. requests[r].at \in {"commit", "read", "rotate", "rotated", "revokeAll", "revoking", "current"}
  BY DEF CommitSession, ReadToken, Rotate, LoadUser, StartRevoking, CommitRevoking,
         AbortDeadlocked, Waits, VerifyCurrent, At
<1>3. /\ requests'[r].at \in {"idle", "commit", "rotate", "rotated", "revokeAll", "revoking"}
      /\ \A q \in Requests \ {r} :
            /\ requests'[q].op = requests[q].op /\ requests'[q].at = requests[q].at
            /\ requests'[q].rows = requests[q].rows /\ requests'[q].here = requests[q].here
  <2>1. CASE StartRevoking(r)
    BY <1>1, <2>1 DEF StartRevoking, Request
  <2>2. CASE \/ CommitSession(r) \/ CommitRevoking(r) \/ AbortDeadlocked(r)
    BY <1>1, <2>2 DEF CommitSession, CommitRevoking, AbortDeadlocked, Done, Set, Idle
  <2>3. CASE ReadToken(r) \/ Rotate(r) \/ LoadUser(r) \/ VerifyCurrent(r)
    <3>1. PICK to : /\ requests' = [requests EXCEPT ![r] = to]
                    /\ to.at \in {"idle", "commit", "rotate", "rotated", "revokeAll"}
      <4>1. CASE Rotate(r)
        <5> DEFINE t == requests[r].token
                   won == [requests[r] EXCEPT !.at = "rotated", !.era = tokens[t].era,
                                              !.raced = tokens[t].raced \/ Closing]
        <5>1. won.at = "rotated" /\ Idle.at = "idle"
          BY <1>1 DEF Request, Idle
        <5>2. \/ requests' = [requests EXCEPT ![r] = Idle]
              \/ requests' = [requests EXCEPT ![r] = won]
          BY <4>1, Zenon DEF Rotate, Done, Set
        <5> QED
          BY <5>1, <5>2
      <4>2. CASE ReadToken(r) \/ LoadUser(r) \/ VerifyCurrent(r)
        <5>1. \/ requests' = [requests EXCEPT ![r] = Idle]
              \/ \E at \in {"commit", "rotate", "revokeAll"} :
                    requests' = [requests EXCEPT ![r] = [requests[r] EXCEPT !.at = at]]
          BY <4>2 DEF ReadToken, LoadUser, VerifyCurrent, Done, Goes, Set
        <5> QED
          BY <1>1, <5>1 DEF Request, Idle
      <4> QED
        BY <2>3, <4>1, <4>2
    <3> QED
      BY <1>1, <3>1
  <2> QED
    BY <2>1, <2>2, <2>3
<1>4. ~At(r, "login", "counted") /\ ~At(r, "login", "counted")' /\ r \notin Past'
  BY <1>2, <1>3 DEF At, Past
<1> QED
  BY <1>1, <1>3, <1>4, QuietKeeps

LEMMA UntouchedCount ==
  ASSUME Counted, UNCHANGED <<requests, redis>> PROVE Counted'
BY DEF Counted, Past, Trippers, At, Count

-------------------------------------------------------------------------------
(* The statements that change Redis.                                       *)

\* A counter, or a lock, that starts again with no wrong password tried.
LEMMA FreshCount ==
  ASSUME IInv, Counted, redis'.misses = 0, redis'.fail \in Nat, redis'.lost \in Nat
  PROVE  Counted'
<1>1. /\ Past' \in SUBSET Requests /\ Trippers' \in SUBSET Requests
      /\ Past' \cap Trippers' = {}
  BY DEF Past, Trippers, At
<1>2. /\ Cardinality(Past') \in Nat /\ Cardinality(Trippers') \in Nat
      /\ Cardinality(Requests) \in Nat
      /\ Cardinality(Past') + Cardinality(Trippers') <= Cardinality(Requests)
  BY <1>1, Sizes
<1> QED
  BY <1>2, MaxAttemptsAssumption DEF Counted

LEMMA StartOverCount ==
  ASSUME IInv, Counted,
         \/ LockExpires \/ WindowEnds
         \/ redis' = [redis EXCEPT !.fail = 0, !.expires = TRUE, !.lock = FALSE, !.misses = 0]
  PROVE  Counted'
<1>1. redis \in Redis /\ redis.fail \in Nat /\ redis.lost \in Nat
  BY RedisNumbers DEF IInv, TypeOK
<1>2. \/ redis' = [redis EXCEPT !.lock = FALSE, !.misses = 0]
      \/ redis' = [redis EXCEPT !.fail = 0, !.misses = 0]
      \/ redis' = [redis EXCEPT !.fail = 0, !.expires = TRUE, !.lock = FALSE, !.misses = 0]
  BY DEF LockExpires, WindowEnds
<1>3. redis'.misses = 0 /\ redis'.fail \in Nat /\ redis'.lost \in Nat
  <2>1. CASE redis' = [redis EXCEPT !.lock = FALSE, !.misses = 0]
    BY <1>1, <2>1 DEF Redis
  <2>2. CASE redis' = [redis EXCEPT !.fail = 0, !.misses = 0]
    BY <1>1, <2>2 DEF Redis
  <2>3. CASE redis' = [redis EXCEPT !.fail = 0, !.expires = TRUE, !.lock = FALSE, !.misses = 0]
    BY <1>1, <2>3 DEF Redis
  <2> QED
    BY <1>2, <2>1, <2>2, <2>3
<1> QED
  BY <1>3, FreshCount

\* A login that got in starts its address over, unless that fails.
LEMMA clearCounts ==
  ASSUME IInv, Counted, NEW r \in Requests, clear(r) PROVE Counted'
<1>1. requests \in [Requests -> Request] /\ TypeOK
  BY DEF IInv, TypeOK
<1> DEFINE q == [requests[r] EXCEPT !.at = "commit"]
<1>2. q.at = "commit" /\ requests[r].at = "clear" /\ requests' = [requests EXCEPT ![r] = q]
  BY <1>1 DEF Request, clear, At, Goes, Set
<1> HIDE DEF q
<1>3. requests'[r].at = "commit" /\ \A p \in Requests \ {r} : requests'[p] = requests[p]
  BY <1>1, <1>2
<1>4. ~At(r, "login", "counted") /\ ~At(r, "login", "counted")' /\ r \notin Past' /\ r \notin Past
  BY <1>2, <1>3 DEF At, Past
<1>5. CASE UNCHANGED redis
  BY <1>1, <1>3, <1>4, <1>5, QuietKeeps
<1>6. CASE Lose(0)
  <2>1. Past' = Past /\ Trippers' = Trippers
    <3>1. r \notin Trippers /\ r \notin Trippers'
      BY <1>4 DEF Trippers
    <3>2. Past' \ {r} = Past \ {r} /\ Trippers' \ {r} = Trippers \ {r}
      BY <1>3, OthersStay
    <3> QED
      BY <1>4, <3>1, <3>2
  <2>2. /\ Cardinality(Past') + 0 <= Cardinality(Past) + 1
        /\ Cardinality(Trippers) + 0 <= Cardinality(Trippers') + 1
        /\ Cardinality(Past') \in Nat /\ Cardinality(Trippers') \in Nat
    BY <2>1, SizesHere
  <2> QED
    BY <1>6, <2>2, LoseCounts
<1>7. CASE redis' = [redis EXCEPT !.fail = 0, !.expires = TRUE, !.lock = FALSE, !.misses = 0]
  BY <1>7, StartOverCount
<1> QED
  BY <1>5, <1>6, <1>7 DEF clear

\* One more wrong password: the counter has it, or its request will lock.
LEMMA IncrCount ==
  ASSUME IInv, Counted, NEW r \in Requests, Incr(r) PROVE Counted'
<1>1. /\ requests \in [Requests -> Request] /\ redis \in Redis /\ At(r, "login", "miss")
      /\ redis.fail \in Nat /\ redis.misses \in Nat /\ redis.lost \in Nat
      /\ MaxAttempts \in Nat \ {0}
  BY RedisNumbers DEF IInv, TypeOK, Incr
<1>2. /\ requests'[r] = [requests[r] EXCEPT !.at = "counted", !.rows = {redis.fail + 1}]
      /\ \A q \in Requests \ {r} : requests'[q] = requests[q]
  BY <1>1 DEF Incr, Set
<1>3. /\ At(r, "login", "counted")' /\ requests'[r].rows = {redis.fail + 1}
  BY <1>1, <1>2 DEF At, Request
<1>4. Count(r)' = redis.fail + 1
  BY <1>3 DEF Count
<1>5. /\ redis'.fail = IF redis.fail = MaxAttempts THEN redis.fail ELSE redis.fail + 1
      /\ redis'.misses = redis.misses + 1
      /\ redis'.lock = redis.lock /\ redis'.lost = redis.lost
  BY <1>1 DEF Incr, Redis
<1>6. r \in Past /\ Past' = Past \ {r}
  <2>1. r \in Past /\ r \notin Past'
    BY <1>1, <1>3 DEF Past, At
  <2> QED
    BY <1>2, <2>1, OthersStay
<1>7. Cardinality(Past) = Cardinality(Past') + 1 /\ Cardinality(Past') \in Nat
  <2>1. Cardinality(Past) = Cardinality(Past \ {r}) + 1 /\ Cardinality(Past \ {r}) \in Nat
    BY <1>6, SizesHere, Without
  <2> QED
    BY <1>6, <2>1
<1>8. r \notin Trippers /\ Trippers' \in SUBSET Requests /\ Trippers = Trippers' \ {r}
  <2>1. r \notin Trippers
    BY <1>1 DEF Trippers, At
  <2>2. Trippers' \in SUBSET Requests
    BY DEF Trippers
  <2> QED
    BY <1>2, <2>1, <2>2, OthersStay
<1>9. Cardinality(Trippers') \in Nat
  <2>1. Trippers' \cap {} = {}
    OBVIOUS
  <2> QED
    BY <1>8, <2>1, Sizes
<1>10. ASSUME ~(redis.fail + 1 >= MaxAttempts) PROVE Trippers' = Trippers
  BY <1>4, <1>8, <1>10 DEF Trippers, Trips
<1>11. ASSUME redis.fail + 1 >= MaxAttempts
       PROVE  Cardinality(Trippers') = Cardinality(Trippers) + 1
  <2>1. r \in Trippers'
    BY <1>3, <1>4, <1>11 DEF Trippers, Trips
  <2>2. Cardinality(Trippers') = Cardinality(Trippers' \ {r}) + 1
    BY <1>8, <2>1, Without
  <2> QED
    BY <1>8, <2>2
<1>12. redis'.fail < MaxAttempts => redis'.misses <= redis'.fail + redis'.lost
  BY <1>1, <1>5 DEF Counted
<1>13. ASSUME ~redis.lock
       PROVE  redis.misses + 1 <= (MaxAttempts - 1) + Cardinality(Trippers') + redis.lost
  <2>1. redis.misses <= (MaxAttempts - 1) + Cardinality(Trippers) + redis.lost
    BY <1>13 DEF Counted
  <2>2. CASE redis.fail + 1 >= MaxAttempts
    BY <1>1, <1>11, <2>1, <2>2, SizesHere
  <2>3. CASE ~(redis.fail + 1 >= MaxAttempts)
    BY <1>1, <1>9, <2>3 DEF Counted
  <2> QED
    BY <2>2, <2>3
<1>14. ASSUME redis.lock
       PROVE  redis.misses + 1 + Cardinality(Past')
                <= (MaxAttempts - 1) + Cardinality(Requests) + redis.lost
  <2>1. redis.misses + Cardinality(Past)
                <= (MaxAttempts - 1) + Cardinality(Requests) + redis.lost
    BY <1>14 DEF Counted
  <2> QED
    BY <1>1, <1>7, <2>1, SizesHere
<1> QED
  BY <1>5, <1>12, <1>13, <1>14 DEF Counted

\* The request that sets the lock was the one to; whoever is past the lock
\* now is another.
LEMMA ExpireAndLockCount ==
  ASSUME IInv, Counted, NEW r \in Requests, ExpireAndLock(r) PROVE Counted'
<1>1. /\ requests \in [Requests -> Request] /\ redis \in Redis /\ At(r, "login", "counted")
      /\ redis.fail \in Nat /\ redis.misses \in Nat /\ redis.lost \in Nat
      /\ MaxAttempts \in Nat \ {0}
  BY RedisNumbers DEF IInv, TypeOK, ExpireAndLock
<1>2. requests'[r] = Idle /\ \A q \in Requests \ {r} : requests'[q] = requests[q]
  BY <1>1 DEF ExpireAndLock, Done, Set
<1>3. /\ redis'.fail = redis.fail /\ redis'.misses = redis.misses /\ redis'.lost = redis.lost
  BY <1>1 DEF ExpireAndLock, Redis
<1>4. redis'.lock = (redis.lock \/ Trips(Count(r)))
  BY <1>1, Zenon DEF ExpireAndLock, Redis
<1>5. Past' = Past
  BY <1>1, <1>2 DEF Past, At, Idle
<1>6. Trippers' = Trippers \ {r}
  <2>1. r \notin Trippers'
    BY <1>2 DEF Trippers, At, Idle
  <2> QED
    BY <1>2, <2>1, OthersStay
<1>7. CASE Trips(Count(r))
  <2>1. redis.misses + Cardinality(Past)
          <= (MaxAttempts - 1) + Cardinality(Requests) + redis.lost
    <3>1. CASE redis.lock
      BY <3>1 DEF Counted
    <3>2. CASE ~redis.lock
      <4>1. redis.misses <= (MaxAttempts - 1) + Cardinality(Trippers) + redis.lost
        BY <3>2 DEF Counted
      <4> QED
        BY <1>1, <4>1, SizesHere
    <3> QED
      BY <3>1, <3>2
  <2>2. redis'.lock
    BY <1>4, <1>7, Zenon
  <2> QED
    BY <1>3, <1>5, <2>1, <2>2 DEF Counted
<1>8. CASE ~Trips(Count(r))
  <2>1. Trippers' = Trippers
    BY <1>6, <1>8, Zenon DEF Trippers
  <2>2. redis'.lock <=> redis.lock
    BY <1>4, <1>8, Zenon
  <2> QED
    BY <1>3, <1>5, <2>1, <2>2 DEF Counted
<1> QED
  BY <1>7, <1>8

\* A failure that Redis does not record is one that counts as lost.
LEMMA NotRecordedCount ==
  ASSUME IInv, Counted, NEW r \in Requests, NotRecorded(r) PROVE Counted'
<1>1. requests \in [Requests -> Request]
  BY DEF IInv, TypeOK
<1>2. requests'[r] = Idle /\ \A q \in Requests \ {r} : requests'[q] = requests[q]
  BY <1>1 DEF NotRecorded, Done, Set
<1>4. Past' = Past \ {r} /\ Trippers' = Trippers \ {r}
  <2>1. r \notin Past' /\ r \notin Trippers'
    BY <1>2 DEF Past, Trippers, At, Idle
  <2> QED
    BY <1>2, <2>1, OthersStay
<1>5. Cardinality(Past') <= Cardinality(Past) /\ Cardinality(Past') \in Nat
  <2>1. CASE r \in Past
    <3>1. Cardinality(Past) = Cardinality(Past \ {r}) + 1 /\ Cardinality(Past \ {r}) \in Nat
      BY <2>1, SizesHere, Without
    <3> QED
      BY <1>4, <3>1
  <2>2. CASE r \notin Past
    <3>1. Past' = Past
      BY <1>4, <2>2
    <3> QED
      BY <3>1, SizesHere
  <2> QED
    BY <2>1, <2>2
<1>6. Cardinality(Trippers) <= Cardinality(Trippers') + 1 /\ Cardinality(Trippers') \in Nat
  <2>1. CASE r \in Trippers
    <3>1. /\ Cardinality(Trippers) = Cardinality(Trippers \ {r}) + 1
          /\ Cardinality(Trippers \ {r}) \in Nat
      BY <2>1, SizesHere, Without
    <3> QED
      BY <1>4, <3>1
  <2>2. CASE r \notin Trippers
    <3>1. Trippers' = Trippers
      BY <1>4, <2>2
    <3> QED
      BY <3>1, SizesHere
  <2> QED
    BY <2>1, <2>2
<1>7. CASE At(r, "login", "miss") /\ Lose(1)
  <2>1. r \in Past /\ r \notin Trippers
    BY <1>7 DEF Past, Trippers, At
  <2>2. Cardinality(Past) = Cardinality(Past') + 1
    BY <1>4, <2>1, SizesHere, Without
  <2>3. Trippers' = Trippers
    BY <1>4, <2>1
  <2>4. /\ Cardinality(Past') + 1 <= Cardinality(Past) + 1
        /\ Cardinality(Trippers) + 1 <= Cardinality(Trippers') + 1
    BY <1>5, <1>6, <2>2, <2>3, SizesHere
  <2> QED
    BY <1>5, <1>6, <1>7, <2>4, LoseCounts
<1>8. CASE At(r, "login", "counted") /\ Lose(0)
  <2>1. /\ Cardinality(Past') + 0 <= Cardinality(Past) + 1
        /\ Cardinality(Trippers) + 0 <= Cardinality(Trippers') + 1
    BY <1>5, <1>6, SizesHere
  <2> QED
    BY <1>5, <1>6, <1>8, <2>1, LoseCounts
<1> QED
  BY <1>7, <1>8 DEF NotRecorded

-------------------------------------------------------------------------------
\* The count is kept by every statement (modules/auth/lockout.py).
LEMMA Counting == Spec => []Counted
<1>1. Init => Counted
  <2>1. Init => Counted \/ ~(Cardinality(Trippers) \in Nat)
    BY MaxAttemptsAssumption DEF Init, Counted
  <2> QED
    BY <2>1, SizesHere
<1>2. IInv /\ Counted /\ [Next]_vars => Counted'
  <2> SUFFICES ASSUME IInv, Counted, [Next]_vars PROVE Counted'
    OBVIOUS
  <2>1. CASE \E r \in Requests : ServerStep(r)
    BY <2>1, GateCounts, VerifyCounts, OthersCount, IncrCount, ExpireAndLockCount, clearCounts
    DEF ServerStep
  <2>2. CASE \E r \in Requests : \/ SendLogin(r) \/ SendElsewhere(r) \/ SendRefresh(r)
                                 \/ SendChangePassword(r) \/ Suspend(r) \/ NotRecorded(r)
    BY <2>2, BeginCount, NotRecordedCount
  <2>3. CASE LockExpires \/ WindowEnds
    BY <2>3, StartOverCount
  <2>4. CASE UNCHANGED vars \/ Reactivate \/ AdminResets \/ \E r \in Requests : Logout(r)
    <3>1. UNCHANGED <<requests, redis>>
      BY <2>4 DEF vars, Reactivate, AdminResets, Logout
    <3> QED
      BY <3>1, UntouchedCount
  <2> QED
    BY <2>1, <2>2, <2>3, <2>4 DEF Next
<1> QED
  BY <1>1, <1>2, Inductive, PTL DEF Spec

\* From one address, until its lock or the window of its counter ends, no more
\* wrong passwords are tried than the setting allows, those already past the check
\* of the lock, and those for which Redis failed (check_locked fails open,
\* record_failure swallows): whatever the interleaving of INCR and the lock that
\* follows it.
THEOREM GuessesLimited == Spec => []GuessesBounded
<1>1. IInv /\ Counted => GuessesBounded
  <2> SUFFICES ASSUME IInv, Counted PROVE GuessesBounded
    OBVIOUS
  <2>1. /\ redis.misses \in Nat /\ redis.lost \in Nat /\ MaxAttempts \in Nat \ {0}
        /\ redis.lock \in BOOLEAN
    BY RedisNumbers DEF IInv
  <2>2. CASE redis.lock
    BY <2>1, <2>2, SizesHere DEF Counted, GuessesBounded
  <2>3. CASE ~redis.lock
    BY <2>1, <2>3, SizesHere DEF Counted, GuessesBounded
  <2> QED
    BY <2>2, <2>3
<1> QED
  BY <1>1, Inductive, Counting, PTL

-------------------------------------------------------------------------------
(* The limiter: the invariant.                                                *)

\* Every tick of minute m comes before u.
Outlives(u, m) == \A t \in 0..MaxTime : t \div Window = m => t < u

\* A minute's counter is what was counted in it, and lives until it is over.
WindowsTrue ==
  \A m \in Minutes :
    IF counter[m].until = 0 THEN \A r \in Calls : counts[r][m] = 0
    ELSE counter[m].n = CountedIn(m) /\ Outlives(counter[m].until, m)

\* What was counted is remembered until its minute is over.
SeenOutlives ==
  errors = 0 =>
    \A r \in Calls, m \in Minutes :
      counts[r][m] # 0 => m <= minute /\ Outlives(seen[r], m)

\* A callback between the SET and the INCR: it comes at most a tick later, and
\* its event was counted in earlier minutes only.
CountingFits ==
  \A s \in Subs : callback[s].pc = "incr" =>
    LET r == callback[s].r  at == callback[s].at IN
    /\ at <= now /\ now <= at + 1
    /\ errors = 0 =>
         /\ seen[r] >= at + DedupeTtl
         /\ \A m \in Minutes : counts[r][m] # 0 => m < at \div Window

\* No two callbacks count one event.
OneCounts ==
  errors = 0 =>
    \A s, u \in Subs : callback[s].pc = "incr" /\ callback[u].pc = "incr"
                       /\ callback[s].r = callback[u].r => s = u

\* A limit that is not the plan's was cached before the plan changed.
CacheAge ==
  /\ cache.until <= now + PlanTtl
  /\ cache.value \in {plan, Unknown} \/ cache.until <= planSince + PlanTtl

\* What a callback has in hand was published.
CallbacksFit ==
  /\ callback \in [Subs -> Callback \cup {NoMsg}]
  /\ \A s \in Subs : callback[s] # NoMsg => event[callback[s].r] # "none"

LimiterInv ==
  /\ LimiterTypeOK /\ CallbacksFit
  /\ WindowsTrue /\ SeenOutlives /\ CountingFits /\ OneCounts /\ WindowCountsOnce /\ CacheAge

Pick(T) == CHOOSE x \in T : TRUE

SumsUp(g, w, S) ==
  g = [T \in SUBSET S |-> IF T = {} THEN 0 ELSE w[Pick(T)] + g[T \ {Pick(T)}]]

LEMMA Unfold ==
  ASSUME NEW w, NEW S
  PROVE  SumFunctionOnSet(w, S) = (CHOOSE g : SumsUp(g, w, S))[S]
BY DEF SumFunctionOnSet, FoldFunctionOnSet, MapThenFoldSet, SumsUp, Pick

LEMMA SmallestSubset ==
  ASSUME NEW S, IsFiniteSet(S), NEW Bad \in SUBSET SUBSET S, Bad # {}
  PROVE  \E T \in Bad : \A U \in SUBSET T : U # T => U \notin Bad
<1>1. IsWellFoundedOn(StrictSubsetOrdering(S), SUBSET S)
  BY FS_StrictSubsetOrderingWellFounded, FS_FiniteSubsetsOfFinite
<1>2. PICK T \in Bad : \A U \in Bad : <<U, T>> \notin StrictSubsetOrdering(S)
  BY <1>1, WFMin
<1>3. ASSUME NEW U \in SUBSET T, U # T, U \in Bad PROVE FALSE
  BY <1>2, <1>3 DEF StrictSubsetOrdering
<1> QED
  BY <1>3

\* Whatever sums up on two sets agrees on what they share.
LEMMA SumsAgree ==
  ASSUME NEW w, NEW S, IsFiniteSet(S), NEW g, SumsUp(g, w, S), NEW R, NEW h, SumsUp(h, w, R)
  PROVE  \A T \in SUBSET S : T \in SUBSET R => g[T] = h[T]
<1> DEFINE Bad == {T \in SUBSET S : T \in SUBSET R /\ g[T] # h[T]}
<1>1. SUFFICES ASSUME Bad # {} PROVE FALSE
  OBVIOUS
<1>2. PICK T \in Bad : \A U \in SUBSET T : U # T => U \notin Bad
  <2>1. Bad \in SUBSET SUBSET S
    OBVIOUS
  <2> HIDE DEF Bad
  <2> QED
    BY <1>1, <2>1, SmallestSubset
<1>3. CASE T = {}
  BY <1>2, <1>3 DEF SumsUp
<1>4. CASE T # {}
  <2>1. Pick(T) \in T
    BY <1>4 DEF Pick
  <2> DEFINE U == T \ {Pick(T)}
  <2>2. g[U] = h[U]
    BY <1>2, <2>1
  <2> HIDE DEF U
  <2>3. g[T] = w[Pick(T)] + g[U]
    BY <1>2, <1>4 DEF SumsUp, U
  <2>4. h[T] = w[Pick(T)] + h[U]
    BY <1>2, <1>4 DEF SumsUp, U
  <2> QED
    BY <1>2, <2>2, <2>3, <2>4
<1> QED
  BY <1>3, <1>4

\* There is one.
LEMMA SumsExist ==
  ASSUME NEW w, NEW S, IsFiniteSet(S)
  PROVE  \E g : SumsUp(g, w, S)
<1> DEFINE Bad == {T \in SUBSET S : ~ \E g : SumsUp(g, w, T)}
<1>1. SUFFICES ASSUME Bad # {} PROVE FALSE
  OBVIOUS
<1>2. PICK T \in Bad : \A U \in SUBSET T : U # T => U \notin Bad
  <2>1. Bad \in SUBSET SUBSET S
    OBVIOUS
  <2> HIDE DEF Bad
  <2> QED
    BY <1>1, <2>1, SmallestSubset
<1> DEFINE Rest(U) == U \ {Pick(U)}
           G(U) == CHOOSE g : SumsUp(g, w, U)
           h == [U \in SUBSET T |-> IF U = {} THEN 0 ELSE w[Pick(U)] + G(Rest(U))[Rest(U)]]
<1>3. ASSUME NEW U \in SUBSET T, U # T PROVE SumsUp(G(U), w, U)
  BY <1>2, <1>3
<1>4. ASSUME NEW U \in SUBSET T, U # {}
      PROVE  Rest(U) \in SUBSET T /\ Rest(U) # T /\ Rest(U) \in SUBSET U /\ IsFiniteSet(Rest(U))
  <2>1. Pick(U) \in U
    BY <1>4 DEF Pick
  <2>2. U \in SUBSET S
    BY <1>2
  <2> QED
    BY <1>4, <2>1, <2>2, FS_Subset
<1> HIDE DEF Rest, G
<1>5. ASSUME NEW U \in SUBSET T, U # T PROVE h[U] = G(U)[U]
  <2>1. SumsUp(G(U), w, U)
    BY <1>3, <1>5
  <2>2. CASE U = {}
    BY <2>1, <2>2 DEF SumsUp
  <2>3. CASE U # {}
    <3>1. G(U)[U] = w[Pick(U)] + G(U)[Rest(U)]
      BY <2>1, <2>3 DEF SumsUp, Rest
    <3>2. SumsUp(G(Rest(U)), w, Rest(U))
      BY <1>3, <1>4, <2>3
    <3>3. G(Rest(U))[Rest(U)] = G(U)[Rest(U)]
      <4>1. IsFiniteSet(Rest(U)) /\ Rest(U) \in SUBSET Rest(U) /\ Rest(U) \in SUBSET U
        BY <1>4, <2>3
      <4> QED
        BY <2>1, <3>2, <4>1, SumsAgree
    <3> QED
      BY <2>3, <3>1, <3>3
  <2> QED
    BY <2>2, <2>3
<1>6. ASSUME NEW U \in SUBSET T PROVE h[U] = IF U = {} THEN 0 ELSE w[Pick(U)] + h[U \ {Pick(U)}]
  <2>1. CASE U # {}
    <3>1. h[Rest(U)] = G(Rest(U))[Rest(U)]
      BY <1>4, <1>5, <2>1
    <3> QED
      BY <2>1, <3>1 DEF Rest
  <2> QED
    BY <2>1
<1>7. SumsUp(h, w, T)
  BY <1>6 DEF SumsUp
<1> QED
  BY <1>2, <1>7
\* The fold of the community modules does what its definition says.
LEMMA SumEquation ==
  ASSUME NEW w, NEW S, IsFiniteSet(S)
  PROVE  \E g : SumsUp(g, w, S) /\ SumFunctionOnSet(w, S) = g[S]
BY Unfold, SumsExist

LEMMA SumIsNat ==
  ASSUME NEW S, IsFiniteSet(S), NEW w \in [S -> Nat]
  PROVE  SumFunctionOnSet(w, S) \in Nat
<1>1. PICK g : SumsUp(g, w, S) /\ SumFunctionOnSet(w, S) = g[S]
  BY SumEquation
<1> DEFINE Bad == {T \in SUBSET S : g[T] \notin Nat}
<1>2. SUFFICES ASSUME Bad # {} PROVE FALSE
  BY <1>1
<1>3. PICK T \in Bad : \A U \in SUBSET T : U # T => U \notin Bad
  <2>1. Bad \in SUBSET SUBSET S
    OBVIOUS
  <2> HIDE DEF Bad
  <2> QED
    BY <1>2, <2>1, SmallestSubset
<1>4. g[T] = IF T = {} THEN 0 ELSE w[Pick(T)] + g[T \ {Pick(T)}]
  BY <1>1, <1>3 DEF SumsUp
<1>5. T # {}
  BY <1>3, <1>4
<1>6. Pick(T) \in T
  BY <1>5 DEF Pick
<1>7. g[T \ {Pick(T)}] \in Nat /\ w[Pick(T)] \in Nat
  BY <1>3, <1>6
<1> QED
  BY <1>3, <1>4, <1>5, <1>7

LEMMA SumOfNothing ==
  ASSUME NEW S, IsFiniteSet(S), NEW w, \A x \in S : w[x] = 0
  PROVE  SumFunctionOnSet(w, S) = 0
<1>1. PICK g : SumsUp(g, w, S) /\ SumFunctionOnSet(w, S) = g[S]
  BY SumEquation
<1> DEFINE Bad == {T \in SUBSET S : g[T] # 0}
<1>2. SUFFICES ASSUME Bad # {} PROVE FALSE
  BY <1>1
<1>3. PICK T \in Bad : \A U \in SUBSET T : U # T => U \notin Bad
  <2>1. Bad \in SUBSET SUBSET S
    OBVIOUS
  <2> HIDE DEF Bad
  <2> QED
    BY <1>2, <2>1, SmallestSubset
<1>4. g[T] = IF T = {} THEN 0 ELSE w[Pick(T)] + g[T \ {Pick(T)}]
  BY <1>1, <1>3 DEF SumsUp
<1>5. T # {}
  BY <1>3, <1>4
<1>6. Pick(T) \in T
  BY <1>5 DEF Pick
<1>7. g[T \ {Pick(T)}] = 0 /\ w[Pick(T)] = 0
  BY <1>3, <1>6
<1> QED
  BY <1>3, <1>4, <1>5, <1>7

LEMMA SumOfOneMore ==
  ASSUME NEW S, IsFiniteSet(S), NEW w \in [S -> Nat], NEW v \in [S -> Nat],
         NEW x \in S, NEW a \in Nat, v[x] = w[x] + a, \A y \in S : y # x => v[y] = w[y]
  PROVE  SumFunctionOnSet(v, S) = SumFunctionOnSet(w, S) + a
<1>1. PICK g : SumsUp(g, w, S) /\ SumFunctionOnSet(w, S) = g[S]
  BY SumEquation
<1>2. PICK h : SumsUp(h, v, S) /\ SumFunctionOnSet(v, S) = h[S]
  BY SumEquation
<1> DEFINE More(T) == IF x \in T THEN a ELSE 0
           Bad == {T \in SUBSET S : g[T] \notin Nat \/ h[T] # g[T] + More(T)}
<1>3. SUFFICES ASSUME Bad # {} PROVE FALSE
  BY <1>1, <1>2
<1>4. PICK T \in Bad : \A U \in SUBSET T : U # T => U \notin Bad
  <2>1. Bad \in SUBSET SUBSET S
    OBVIOUS
  <2> HIDE DEF Bad
  <2> QED
    BY <1>3, <2>1, SmallestSubset
<1> DEFINE p == Pick(T)
           U == T \ {p}
<1>5. g[T] = (IF T = {} THEN 0 ELSE w[p] + g[U]) /\ h[T] = (IF T = {} THEN 0 ELSE v[p] + h[U])
  BY <1>1, <1>2, <1>4 DEF SumsUp
<1>6. T # {}
  BY <1>4, <1>5
<1>7. p \in T
  BY <1>6 DEF Pick
<1>8. U \in SUBSET T /\ U # T /\ U \in SUBSET S /\ p \in S /\ (x \in U <=> x \in T /\ x # p)
  BY <1>4, <1>7
<1> HIDE DEF p, U
<1>9. g[U] \in Nat /\ h[U] = g[U] + More(U)
  BY <1>4, <1>8
<1>10. w[p] \in Nat /\ v[p] = w[p] + (IF p = x THEN a ELSE 0)
  BY <1>8
<1> QED
  BY <1>4, <1>5, <1>6, <1>7, <1>8, <1>9, <1>10
\* A minute has Window ticks.
LEMMA DivFacts ==
  ASSUME NEW a \in Nat, NEW c \in Nat, NEW b \in Nat \ {0}
  PROVE  /\ a \div b \in Nat
         /\ a <= c => a \div b <= c \div b
         /\ a \div b = c \div b => a < c + b
OBVIOUS

LEMMA MinuteFacts ==
  ASSUME LimiterTypeOK
  PROVE  /\ now \in Nat /\ now <= MaxTime /\ minute \in Minutes /\ minute \in Nat
         /\ \A t \in 0..MaxTime : t \div Window \in Minutes /\ t \div Window \in Nat
         /\ \A t \in 0..MaxTime : t \div Window = minute => t < now + Window
         /\ \A t \in 0..MaxTime : t <= now => t \div Window <= minute
<1> USE LimiterAssumption
<1>1. now \in Nat /\ now <= MaxTime /\ Window \in Nat \ {0} /\ MaxTime \in Nat
  BY DEF LimiterTypeOK
<1>2. \A t \in 0..MaxTime : /\ t \div Window \in Nat
                            /\ t \div Window <= MaxTime \div Window
                            /\ t \div Window = minute => t < now + Window
                            /\ t <= now => t \div Window <= minute
  BY <1>1, DivFacts DEF minute
<1>3. /\ minute = now \div Window /\ minute \in Nat /\ minute <= MaxTime \div Window
      /\ MaxTime \div Window \in Nat
  BY <1>1, <1>2, DivFacts DEF minute
<1>4. \A i \in Nat : i <= MaxTime \div Window => i \in Minutes
  BY <1>3 DEF Minutes
<1>5. minute \in Minutes /\ \A t \in 0..MaxTime : t \div Window \in Minutes
  BY <1>2, <1>3, <1>4
<1> QED
  BY <1>1, <1>2, <1>3, <1>5

\* What a minute has counted, and what one more event adds to it.
LEMMA CountedType ==
  ASSUME LimiterTypeOK, NEW m \in Minutes
  PROVE  CountedIn(m) \in Nat
<1> DEFINE w == [r \in Calls |-> Amount[r] * counts[r][m]]
<1>1. w \in [Calls -> Nat]
  <2>1. ASSUME NEW r \in Calls PROVE Amount[r] * counts[r][m] \in Nat
    <3>1. Amount[r] \in Nat /\ counts[r][m] \in Nat
      BY LimiterAssumption DEF LimiterTypeOK
    <3> QED
      BY <3>1
  <2> QED
    BY <2>1
<1>2. CountedIn(m) = SumFunctionOnSet(w, Calls)
  BY DEF CountedIn, SumFunction
<1> HIDE DEF w
<1> QED
  BY <1>1, <1>2, SumIsNat, LimiterAssumption

LEMMA NothingCounted ==
  ASSUME LimiterTypeOK, NEW m \in Minutes, \A r \in Calls : counts[r][m] = 0
  PROVE  CountedIn(m) = 0
<1> DEFINE w == [r \in Calls |-> Amount[r] * counts[r][m]]
<1>1. \A r \in Calls : w[r] = 0
  <2>1. \A a \in Nat : a * 0 = 0
    OBVIOUS
  <2> QED
    BY <2>1, LimiterAssumption
<1>2. CountedIn(m) = SumFunctionOnSet(w, Calls)
  BY DEF CountedIn, SumFunction
<1> HIDE DEF w
<1> QED
  BY <1>1, <1>2, SumOfNothing, LimiterAssumption

LEMMA OneMoreCounted ==
  ASSUME LimiterTypeOK, NEW r \in Calls, NEW m \in Minutes,
         counts' = [counts EXCEPT ![r][m] = @ + 1]
  PROVE  /\ CountedIn(m)' = CountedIn(m) + Amount[r]
         /\ \A k \in Minutes : k # m => CountedIn(k)' = CountedIn(k)
<1> DEFINE w(k) == [q \in Calls |-> Amount[q] * counts[q][k]]
           v(k) == [q \in Calls |-> Amount[q] * counts'[q][k]]
<1>1. /\ \A q \in Calls, k \in Minutes : counts[q][k] \in Nat
      /\ \A q \in Calls, k \in Minutes :
           counts'[q][k] = IF q = r /\ k = m THEN counts[q][k] + 1 ELSE counts[q][k]
  BY DEF LimiterTypeOK
<1>2. \A q \in Calls : Amount[q] \in Nat
  BY LimiterAssumption
<1>3. \A k \in Minutes : CountedIn(k) = SumFunctionOnSet(w(k), Calls)
  BY DEF CountedIn, SumFunction
<1>4. \A k \in Minutes : CountedIn(k)' = SumFunctionOnSet(v(k), Calls)
  BY DEF CountedIn, SumFunction
<1>5. CountedIn(m)' = CountedIn(m) + Amount[r]
  <2>1. \A a, n \in Nat : a * n \in Nat /\ a * (n + 1) = a * n + a
    OBVIOUS
  <2>2. w(m) \in [Calls -> Nat] /\ v(m) \in [Calls -> Nat]
    BY <1>1, <1>2, <2>1
  <2>3. v(m)[r] = w(m)[r] + Amount[r] /\ \A q \in Calls : q # r => v(m)[q] = w(m)[q]
    BY <1>1, <1>2, <2>1
  <2> HIDE DEF w, v
  <2> QED
    BY <1>2, <1>3, <1>4, <2>2, <2>3, SumOfOneMore, LimiterAssumption
<1>6. ASSUME NEW k \in Minutes, k # m PROVE CountedIn(k)' = CountedIn(k)
  <2>1. v(k) = w(k)
    BY <1>1, <1>6
  <2> QED
    BY <1>3, <1>4, <2>1
<1> QED
  BY <1>5, <1>6

LEMMA LimiterInitOK == LimiterInit => LimiterInv
<1> SUFFICES ASSUME LimiterInit PROVE LimiterInv
  OBVIOUS
<1> USE LimiterAssumption
<1>1. LimiterTypeOK /\ CallbacksFit
  <2>1. 0 \in 0..MaxTime /\ 0 \in 0..MaxErrors /\ 0 \in 0..MaxFaults /\ 0 \in 0..0
        /\ 0 \in 0..(MaxTime + Window) /\ 0 \in 0..(MaxTime + DedupeTtl)
        /\ 0 \in 0..(MaxTime + PlanTtl)
    OBVIOUS
  <2> QED
    BY <2>1 DEF LimiterInit, LimiterTypeOK, CallbacksFit
<1>2. WindowsTrue
  BY DEF LimiterInit, WindowsTrue
<1>3. SeenOutlives /\ WindowCountsOnce
  BY DEF LimiterInit, SeenOutlives, WindowCountsOnce
<1>4. CountingFits /\ OneCounts
  BY DEF LimiterInit, CountingFits, OneCounts, NoMsg
<1>5. CacheAge
  BY DEF LimiterInit, CacheAge
<1> QED
  BY <1>1, <1>2, <1>3, <1>4, <1>5 DEF LimiterInv

\* Steps that touch neither Valkey nor the clock, and bring no callback to its INCR.
LEMMA StillCounted ==
  ASSUME LimiterInv, UNCHANGED <<now, valkey, counts>>, errors' = 0 => errors = 0,
         \A s \in Subs : callback'[s].pc = "incr" => callback'[s] = callback[s]
  PROVE  /\ WindowsTrue' /\ SeenOutlives' /\ CountingFits' /\ OneCounts' /\ WindowCountsOnce'
<1>1. WindowsTrue'
  <2>1. \A m \in Minutes : CountedIn(m)' = CountedIn(m)
    BY DEF CountedIn
  <2> QED
    BY <2>1 DEF LimiterInv, WindowsTrue, valkey, Outlives
<1>2. SeenOutlives' /\ WindowCountsOnce'
  BY DEF LimiterInv, SeenOutlives, WindowCountsOnce, valkey, Outlives, minute
<1>3. CountingFits'
  BY DEF LimiterInv, CountingFits, valkey
<1>4. OneCounts'
  BY DEF LimiterInv, OneCounts
<1> QED
  BY <1>1, <1>2, <1>3, <1>4

LEMMA SameLimit ==
  ASSUME CacheAge, UNCHANGED <<now, planVars>> PROVE CacheAge'
BY DEF CacheAge, planVars

\* The cache stays of its age: PlanClient never prolongs what it has.
LEMMA PlanLimitKeeps ==
  ASSUME LimiterInv, NEW v, PlanLimit(v), UNCHANGED <<now, plan, planSince>>
  PROVE  /\ CacheAge' /\ errors' = errors /\ faults' \in 0..MaxFaults
         /\ cache' \in [value : Plans \cup {Unknown}, until : 0..(MaxTime + PlanTtl)]
<1> USE LimiterAssumption
<1>1. /\ now \in Nat /\ now <= MaxTime /\ planSince \in Nat /\ planSince <= now
      /\ cache \in [value : Plans \cup {Unknown}, until : 0..(MaxTime + PlanTtl)]
      /\ plan \in Plans /\ faults \in 0..MaxFaults
  BY DEF LimiterInv, LimiterTypeOK
<1>2. now + PlanTtl \in 0..(MaxTime + PlanTtl)
  BY <1>1
<1>3. CASE cache' = cache /\ NoFault
  BY <1>1, <1>3 DEF LimiterInv, CacheAge, NoFault, bounds
<1>4. CASE cache' = [value |-> plan, until |-> now + PlanTtl] /\ NoFault
  BY <1>1, <1>2, <1>4 DEF LimiterInv, CacheAge, NoFault, bounds
<1>5. CASE cache' = [value |-> Unknown, until |-> now + PlanTtl] /\ Fault
  BY <1>1, <1>2, <1>5 DEF LimiterInv, CacheAge, Fault
<1> QED
  BY <1>3, <1>4, <1>5 DEF PlanLimit

\* Where a callback goes.
LEMMA GoesOn ==
  ASSUME LimiterInv, NEW s \in Subs, callback[s] # NoMsg,
         NEW pc \in {"scopes", "dedupe", "incr", "ack"}, GoOn(s, pc)
  PROVE  /\ callback[s].r \in Calls /\ (UNCHANGED event => CallbacksFit')
         /\ callback' \in [Subs -> Callback \cup {NoMsg}]
         /\ callback'[s].r = callback[s].r /\ callback'[s].pc = pc
         /\ callback'[s].at = IF pc = "incr" THEN now ELSE 0
         /\ \A u \in Subs : u # s => callback'[u] = callback[u]
<1>1. callback \in [Subs -> Callback \cup {NoMsg}] /\ callback[s] \in Callback /\ now \in 0..MaxTime
  BY DEF LimiterInv, LimiterTypeOK, CallbacksFit
<1> DEFINE time == IF pc = "incr" THEN now ELSE 0
           c == [r |-> callback[s].r, at |-> time, pc |-> pc]
<1>0. time \in 0..MaxTime
  BY <1>1, LimiterAssumption
<1>2. c \in Callback /\ c.r = callback[s].r /\ c.at = time /\ c.pc = pc /\ c.r \in Calls
  BY <1>0, <1>1 DEF Callback
<1>3. /\ callback' \in [Subs -> Callback \cup {NoMsg}] /\ callback'[s] = c
      /\ \A u \in Subs : u # s => callback'[u] = callback[u]
  <2>1. callback' = [[callback EXCEPT ![s].pc = pc] EXCEPT ![s].at = time]
    BY DEF GoOn
  <2> DEFINE f == [callback EXCEPT ![s].pc = pc]
  <2>2. /\ DOMAIN f = Subs /\ f[s] = [r |-> callback[s].r, at |-> callback[s].at, pc |-> pc]
        /\ \A u \in Subs : u # s => f[u] = callback[u]
    BY <1>1 DEF Callback
  <2> HIDE DEF f
  <2>3. callback' = [u \in Subs |-> IF u = s THEN [f[s] EXCEPT !.at = time] ELSE f[u]]
    BY <2>1, <2>2 DEF f
  <2>4. [f[s] EXCEPT !.at = time] = c
    BY <2>2
  <2> HIDE DEF c
  <2> QED
    BY <1>1, <1>2, <2>2, <2>3, <2>4
<1>4. event[callback[s].r] # "none"
  BY DEF LimiterInv, CallbacksFit
<1>5. UNCHANGED event => CallbacksFit'
  BY <1>2, <1>3, <1>4 DEF LimiterInv, CallbacksFit
<1> QED
  BY <1>2, <1>3, <1>5

LEMMA StutterKeepsLimits == ASSUME LimiterInv, UNCHANGED limiterVars PROVE LimiterInv'
<1>1. UNCHANGED <<now, valkey, counts>> /\ callback' = callback /\ errors' = errors
      /\ UNCHANGED <<now, planVars>>
  BY DEF limiterVars, valkey, planVars
<1>2. LimiterTypeOK' /\ CallbacksFit'
  BY DEF LimiterInv, LimiterTypeOK, CallbacksFit, limiterVars
<1> QED
  BY <1>1, <1>2, StillCounted, SameLimit DEF LimiterInv

LEMMA TickKeeps == ASSUME LimiterInv, Tick PROVE LimiterInv'
<1> USE LimiterAssumption
<1>1. /\ LimiterTypeOK /\ now \in Nat /\ now' = now + 1 /\ now' \in 0..MaxTime
      /\ UNCHANGED <<valkey, planVars, verdict, event, link, callback, counts, bounds>>
      /\ \A s \in Subs : callback[s].pc = "incr" => callback[s].at = now
  BY DEF LimiterInv, LimiterTypeOK, Tick
<1>2. LimiterTypeOK' /\ CallbacksFit'
  BY <1>1 DEF LimiterInv, LimiterTypeOK, CallbacksFit, valkey, planVars, bounds, link
<1>3. WindowsTrue'
  <2>1. \A m \in Minutes : CountedIn(m)' = CountedIn(m)
    BY <1>1 DEF CountedIn
  <2> QED
    BY <1>1, <2>1 DEF LimiterInv, WindowsTrue, valkey, Outlives
<1>4. SeenOutlives' /\ WindowCountsOnce'
  <2>1. minute \in Nat /\ minute' \in Nat /\ minute <= minute'
    BY <1>1, DivFacts DEF minute
  <2>2. \A m \in Minutes : m \in Nat
    BY DivFacts DEF Minutes
  <2>3. \A m \in Minutes : m <= minute => m <= minute'
    BY <2>1, <2>2
  <2> QED
    BY <1>1, <2>3 DEF LimiterInv, SeenOutlives, WindowCountsOnce, valkey, bounds, Outlives
<1>5. CountingFits'
  BY <1>1 DEF LimiterInv, CountingFits, valkey, bounds
<1>6. OneCounts'
  BY <1>1 DEF LimiterInv, OneCounts, bounds
<1>7. CacheAge'
  BY <1>1 DEF LimiterInv, LimiterTypeOK, CacheAge, planVars, link
<1> QED
  BY <1>2, <1>3, <1>4, <1>5, <1>6, <1>7 DEF LimiterInv

LEMMA PlanChangesKeeps == ASSUME LimiterInv, PlanChanges PROVE LimiterInv'
<1> USE LimiterAssumption
<1>1. /\ UNCHANGED <<now, valkey, counts>> /\ callback' = callback /\ errors' = errors
      /\ UNCHANGED <<now, valkey, cache, verdict, event, link, callback, counts, bounds>>
      /\ plan' \in Plans /\ planSince' = now
  BY DEF PlanChanges, bounds
<1>2. LimiterTypeOK' /\ CallbacksFit'
  <2>1. planSince' \in 0..now'
    BY <1>1 DEF LimiterInv, LimiterTypeOK, CallbacksFit
  <2> QED
    BY <1>1, <2>1 DEF LimiterInv, LimiterTypeOK, CallbacksFit, valkey, bounds, link
<1>3. CacheAge'
  BY <1>1 DEF LimiterInv, CacheAge
<1> QED
  BY <1>1, <1>2, <1>3, StillCounted DEF LimiterInv

LEMMA CheckKeeps == ASSUME LimiterInv, NEW r \in Calls, Check(r) PROVE LimiterInv'
<1> USE LimiterAssumption
<1>1. /\ UNCHANGED <<now, valkey, counts>> /\ callback' = callback
      /\ UNCHANGED <<now, valkey, plan, planSince, event, link, callback, counts>>
      /\ verdict[r] = "new" /\ \E d \in {"allowed", "denied"} : Decide(r, d)
  BY DEF Check
<1>2. /\ CacheAge' /\ (errors' = 0 => errors = 0) /\ errors' \in 0..MaxErrors
      /\ faults' \in 0..MaxFaults
      /\ cache' \in [value : Plans \cup {Unknown}, until : 0..(MaxTime + PlanTtl)]
  <2>1. CASE \E v \in Plans \cup {Unknown} : PlanLimit(v)
    BY <1>1, <2>1, PlanLimitKeeps DEF LimiterInv, LimiterTypeOK
  <2>2. CASE ValkeyError /\ UNCHANGED cache
    <3>1. CacheAge'
      BY <1>1, <2>2 DEF LimiterInv, CacheAge
    <3> QED
      BY <2>2, <3>1 DEF LimiterInv, LimiterTypeOK, ValkeyError
  <2> QED
    BY <2>1, <2>2 DEF Check
<1>3. LimiterTypeOK' /\ CallbacksFit'
  <2>1. verdict' \in [Calls -> {"new", "allowed", "denied"}]
    BY <1>1 DEF LimiterInv, LimiterTypeOK, CallbacksFit, Decide
  <2>2. \A q \in Calls : event'[q] # "none" => verdict'[q] = "allowed"
    BY <1>1 DEF LimiterInv, LimiterTypeOK, CallbacksFit, Decide
  <2> QED
    BY <1>1, <1>2, <2>1, <2>2 DEF LimiterInv, LimiterTypeOK, CallbacksFit, valkey, link
<1> QED
  BY <1>1, <1>2, <1>3, StillCounted DEF LimiterInv

LEMMA PublishKeeps == ASSUME LimiterInv, NEW r \in Calls, Publish(r) PROVE LimiterInv'
<1>1. /\ UNCHANGED <<now, valkey, counts>> /\ callback' = callback /\ errors' = errors
      /\ UNCHANGED <<now, planVars>>
  BY DEF Publish, bounds
<1>2. LimiterTypeOK' /\ CallbacksFit'
  BY DEF LimiterInv, LimiterTypeOK, CallbacksFit, Publish, valkey, planVars, bounds, link
<1> QED
  BY <1>1, <1>2, StillCounted, SameLimit DEF LimiterInv

\* The first subscribe skips what the stream holds.
LEMMA SkipFits ==
  ASSUME LimiterInv, Skip, UNCHANGED <<verdict, callback>>
  PROVE  /\ event' \in [Calls -> {"none", "stored", "skipped", "acked"}]
         /\ \A r \in Calls : event'[r] # "none" => verdict'[r] = "allowed"
         /\ CallbacksFit'
<1>1. /\ event \in [Calls -> {"none", "stored", "skipped", "acked"}]
      /\ \A r \in Calls : event[r] # "none" => verdict[r] = "allowed"
  BY DEF LimiterInv, LimiterTypeOK
<1>2. /\ event' \in [Calls -> {"none", "stored", "skipped", "acked"}]
      /\ \A r \in Calls : event'[r] # "none" <=> event[r] # "none"
  BY <1>1 DEF Skip
<1>3. CallbacksFit'
  BY <1>2 DEF LimiterInv, CallbacksFit, Callback
<1> QED
  BY <1>1, <1>2, <1>3

LEMMA BindKeeps == ASSUME LimiterInv, NEW s \in Subs, Bind(s) PROVE LimiterInv'
<1>1. /\ UNCHANGED <<now, valkey, counts>> /\ callback' = callback /\ errors' = errors
      /\ UNCHANGED <<now, planVars>> /\ UNCHANGED <<verdict, callback>> /\ Skip
  BY DEF Bind, bounds
<1>2. LimiterTypeOK' /\ CallbacksFit'
  BY <1>1, SkipFits DEF LimiterInv, LimiterTypeOK, Bind, valkey, planVars, bounds, link
<1> QED
  BY <1>1, <1>2, StillCounted, SameLimit DEF LimiterInv

LEMMA BindFailsKeeps == ASSUME LimiterInv, BindFails PROVE LimiterInv'
<1> USE LimiterAssumption
<1>1. /\ UNCHANGED <<now, valkey, counts>> /\ callback' = callback /\ errors' = errors
      /\ UNCHANGED <<now, planVars>> /\ UNCHANGED <<verdict, callback>>
      /\ sub' = sub /\ unbound' = TRUE /\ faults' \in 0..MaxFaults
  BY DEF LimiterInv, LimiterTypeOK, BindFails, Fault
<1>2. CASE UNCHANGED <<durable, event>>
  <2>1. LimiterTypeOK' /\ CallbacksFit'
    BY <1>1, <1>2 DEF LimiterInv, LimiterTypeOK, CallbacksFit, valkey, planVars, link
  <2> QED
    BY <1>1, <2>1, StillCounted, SameLimit DEF LimiterInv
<1>3. CASE durable' = TRUE /\ Skip
  <2>1. LimiterTypeOK' /\ CallbacksFit'
    BY <1>1, <1>3, SkipFits DEF LimiterInv, LimiterTypeOK, valkey, planVars, link
  <2> QED
    BY <1>1, <2>1, StillCounted, SameLimit DEF LimiterInv
<1> QED
  BY <1>2, <1>3 DEF BindFails

LEMMA DisconnectKeeps == ASSUME LimiterInv, Disconnect PROVE LimiterInv'
<1> USE LimiterAssumption
<1>1. /\ UNCHANGED <<now, valkey, counts>> /\ callback' = callback /\ errors' = errors
      /\ UNCHANGED <<now, planVars>> /\ UNCHANGED <<verdict, event, durable>>
      /\ sub' = NoSub /\ unbound' = FALSE /\ faults' \in 0..MaxFaults
  BY DEF LimiterInv, LimiterTypeOK, Disconnect, Fault, NoFault, bounds, link
<1>2. LimiterTypeOK' /\ CallbacksFit'
  BY <1>1 DEF LimiterInv, LimiterTypeOK, CallbacksFit, valkey, planVars, link
<1> QED
  BY <1>1, <1>2, StillCounted, SameLimit DEF LimiterInv

LEMMA CrashKeeps == ASSUME LimiterInv, Crash PROVE LimiterInv'
<1> USE LimiterAssumption
<1>1. /\ UNCHANGED <<now, valkey, counts>> /\ errors' = errors
      /\ UNCHANGED <<now, planVars>>
      /\ \A s \in Subs : callback'[s] = NoMsg /\ callback'[s].pc # "incr"
      /\ callback' \in [Subs -> Callback \cup {NoMsg}]
      /\ UNCHANGED <<verdict, event, durable>> /\ sub' = NoSub /\ unbound' = FALSE
      /\ faults' \in 0..MaxFaults
  BY DEF LimiterInv, LimiterTypeOK, Crash, Fault, NoMsg
<1>2. CallbacksFit'
  BY <1>1 DEF CallbacksFit
<1>3. LimiterTypeOK'
  BY <1>1, <1>2 DEF LimiterInv, LimiterTypeOK, CallbacksFit, valkey, planVars
<1> QED
  BY <1>1, <1>2, <1>3, StillCounted, SameLimit DEF LimiterInv

LEMMA DeliverKeeps == ASSUME LimiterInv, NEW r \in Calls, Deliver(r) PROVE LimiterInv'
<1> USE LimiterAssumption
<1> DEFINE c == [r |-> r, at |-> 0, pc |-> IF Amount[r] = 0 THEN "ack" ELSE "scopes"]
<1>1. /\ UNCHANGED <<now, valkey, counts>> /\ errors' = errors /\ UNCHANGED <<now, planVars>>
      /\ sub \in Subs /\ callback' = [callback EXCEPT ![sub] = c]
      /\ UNCHANGED <<now, valkey, planVars, verdict, event, link, counts, bounds>>
  BY DEF LimiterInv, LimiterTypeOK, Deliver, bounds, link
<1>2. c \in Callback /\ c.pc # "incr"
  BY DEF LimiterInv, LimiterTypeOK, Callback
<1> HIDE DEF c
<1>3. CallbacksFit' /\ \A s \in Subs : callback'[s].pc = "incr" => callback'[s] = callback[s]
  <2>1. event[c.r] # "none"
    BY DEF Deliver, c
  <2> QED
    BY <1>1, <1>2, <2>1 DEF LimiterInv, CallbacksFit
<1>4. LimiterTypeOK'
  BY <1>1, <1>3 DEF LimiterInv, LimiterTypeOK, CallbacksFit, valkey, planVars, bounds, link
<1> QED
  BY <1>1, <1>3, <1>4, StillCounted, SameLimit DEF LimiterInv

LEMMA ScopesKeeps == ASSUME LimiterInv, NEW s \in Subs, Scopes(s) PROVE LimiterInv'
<1> USE LimiterAssumption
<1>1. /\ UNCHANGED <<now, valkey, counts>>
      /\ UNCHANGED <<now, valkey, plan, planSince, verdict, event, link, counts>>
      /\ callback[s] # NoMsg
  BY DEF Scopes, NoMsg
<1>2. PICK v \in Plans \cup {Unknown} :
        PlanLimit(v) /\ GoOn(s, IF Limit(v) = 0 THEN "ack" ELSE "dedupe")
  BY DEF Scopes
<1>3. PICK pc \in {"ack", "dedupe"} : GoOn(s, pc)
  BY <1>2
<1>4. CallbacksFit' /\ \A u \in Subs : callback'[u].pc = "incr" => callback'[u] = callback[u]
  BY <1>1, <1>3, GoesOn
<1>5. /\ CacheAge' /\ errors' = errors /\ faults' \in 0..MaxFaults
      /\ cache' \in [value : Plans \cup {Unknown}, until : 0..(MaxTime + PlanTtl)]
  BY <1>1, <1>2, PlanLimitKeeps
<1>6. LimiterTypeOK'
  BY <1>1, <1>4, <1>5 DEF LimiterInv, LimiterTypeOK, CallbacksFit, valkey, link
<1> QED
  BY <1>1, <1>4, <1>5, <1>6, StillCounted DEF LimiterInv

LEMMA AckKeeps == ASSUME LimiterInv, NEW s \in Subs, Ack(s) PROVE LimiterInv'
<1> USE LimiterAssumption
<1>1. /\ UNCHANGED <<now, valkey, counts>> /\ UNCHANGED <<now, planVars>>
      /\ UNCHANGED <<now, valkey, planVars, verdict, link, counts>>
      /\ callback' = [callback EXCEPT ![s] = NoMsg] /\ callback[s] # NoMsg
  BY DEF Ack, NoMsg
<1>2. \A u \in Subs : callback'[u].pc = "incr" => callback'[u] = callback[u]
  BY <1>1 DEF LimiterInv, CallbacksFit, NoMsg
<1>3. callback[s].r \in Calls /\ event[callback[s].r] # "none" /\ verdict[callback[s].r] = "allowed"
  BY <1>1 DEF LimiterInv, LimiterTypeOK, CallbacksFit, Callback
<1>4. event' = event \/ event' = [event EXCEPT ![callback[s].r] = "acked"]
  BY DEF Ack
<1>5. CallbacksFit'
  BY <1>1, <1>3, <1>4 DEF LimiterInv, LimiterTypeOK, CallbacksFit, Callback
<1>6. LimiterTypeOK' /\ errors' = errors
  <2>1. errors' = errors /\ faults' \in 0..MaxFaults
    BY DEF LimiterInv, LimiterTypeOK, Ack, Fault, NoFault, bounds, link
  <2> QED
    BY <1>1, <1>3, <1>4, <1>5, <2>1 DEF LimiterInv, LimiterTypeOK, CallbacksFit, valkey, planVars, link
<1> QED
  BY <1>1, <1>2, <1>5, <1>6, StillCounted, SameLimit DEF LimiterInv

\* The SET: a callback goes on to its INCR only where nothing remembers its
\* event, so what was counted was counted in minutes that are over, and no other
\* callback is between its own SET and INCR with it.
LEMMA DedupeKeeps == ASSUME LimiterInv, NEW s \in Subs, Dedupe(s) PROVE LimiterInv'
<1> USE LimiterAssumption
<1> DEFINE r == callback[s].r
<1>1. /\ UNCHANGED <<now, counter, planVars, verdict, event, link, counts>>
      /\ callback[s] # NoMsg
  BY DEF Dedupe, NoMsg
<1>2. PICK pc \in {"ack", "incr"} : GoOn(s, pc)
  BY DEF Dedupe
<1>3. /\ r \in Calls /\ CallbacksFit' /\ callback'[s].r = r /\ (pc = "incr" => callback'[s].at = now)
      /\ callback'[s].pc = pc /\ \A u \in Subs : u # s => callback'[u] = callback[u]
  BY <1>1, <1>2, GoesOn
<1>4. /\ now \in Nat /\ now <= MaxTime /\ seen \in [Calls -> 0..(MaxTime + DedupeTtl)]
      /\ now + DedupeTtl \in 0..(MaxTime + DedupeTtl)
  BY DEF LimiterInv, LimiterTypeOK
<1>5. seen' = seen \/ (seen[r] <= now /\ seen' = [seen EXCEPT ![r] = now + DedupeTtl])
  BY DEF Dedupe, SeenUntil
<1>6. /\ seen' \in [Calls -> 0..(MaxTime + DedupeTtl)]
      /\ \A q \in Calls : seen[q] <= seen'[q] /\ seen[q] \in Nat /\ seen'[q] \in Nat
  <2>1. CASE seen' = seen
    BY <1>4, <2>1
  <2>2. CASE seen[r] <= now /\ seen' = [seen EXCEPT ![r] = now + DedupeTtl]
    BY <1>3, <1>4, <2>2
  <2> QED
    BY <1>5, <2>1, <2>2
<1>7. errors' \in 0..MaxErrors /\ faults' = faults /\ (errors' = 0 => errors = 0)
  BY DEF LimiterInv, LimiterTypeOK, Dedupe, NoFault, ValkeyError, bounds, link
<1>8. ASSUME errors' = 0, pc = "incr"
      PROVE  seen[r] <= now /\ seen'[r] = now + DedupeTtl
  <2>1. ~ValkeyError
    BY <1>8 DEF ValkeyError, LimiterInv, LimiterTypeOK
  <2>2. ~GoOn(s, "ack")
    BY <1>1, <1>3, <1>8, GoesOn
  <2>3. seen[r] <= now /\ seen' = [seen EXCEPT ![r] = now + DedupeTtl]
    BY <2>1, <2>2 DEF Dedupe, SeenUntil
  <2> QED
    BY <1>3, <1>4, <2>3
<1> HIDE DEF r
<1>9. LimiterTypeOK'
  BY <1>1, <1>3, <1>6, <1>7 DEF LimiterInv, LimiterTypeOK, CallbacksFit, planVars, link
<1>10. WindowsTrue'
  <2>1. \A m \in Minutes : CountedIn(m)' = CountedIn(m)
    BY <1>1 DEF CountedIn
  <2> QED
    BY <1>1, <2>1 DEF LimiterInv, WindowsTrue, Outlives
<1>11. SeenOutlives'
  <2>1. ASSUME errors' = 0, NEW q \in Calls, NEW m \in Minutes, counts[q][m] # 0
        PROVE  m <= minute /\ Outlives(seen'[q], m)
    <3>1. m <= minute /\ Outlives(seen[q], m)
      BY <1>7, <2>1 DEF LimiterInv, SeenOutlives
    <3>2. seen[q] <= seen'[q] /\ seen[q] \in Nat /\ seen'[q] \in Nat
      BY <1>6
    <3>3. ASSUME NEW t \in 0..MaxTime, t \div Window = m
          PROVE  t < seen'[q]
      <4>1. t < seen[q]
        BY <3>1, <3>3 DEF Outlives
      <4> QED
        BY <3>2, <4>1
    <3> QED
      BY <3>1, <3>3 DEF Outlives
  <2> QED
    BY <1>1, <2>1 DEF SeenOutlives, minute, Outlives
<1>12. WindowCountsOnce' /\ CacheAge'
  BY <1>1, <1>7 DEF LimiterInv, WindowCountsOnce, CacheAge, planVars
<1>13. CountingFits'
  <2>1. ASSUME NEW u \in Subs, u # s, callback[u].pc = "incr"
        PROVE  /\ callback[u].at <= now /\ now <= callback[u].at + 1 /\ callback[u].r \in Calls
               /\ callback[u].at \in Nat
               /\ errors' = 0 =>
                    /\ seen'[callback[u].r] >= callback[u].at + DedupeTtl
                    /\ \A m \in Minutes :
                         counts[callback[u].r][m] # 0 => m < callback[u].at \div Window
    <3>1. callback[u].r \in Calls /\ callback[u].at \in Nat
      BY <2>1 DEF LimiterInv, CallbacksFit, Callback, NoMsg
    <3> QED
      BY <1>6, <1>7, <2>1, <3>1 DEF LimiterInv, CountingFits
  <2>2. ASSUME pc = "incr", errors' = 0
        PROVE  /\ seen'[r] >= now + DedupeTtl
               /\ \A m \in Minutes : counts[r][m] # 0 => m < now \div Window
    <3>1. seen[r] <= now /\ seen'[r] = now + DedupeTtl
      BY <1>8, <2>2
    <3>2. ASSUME NEW m \in Minutes, counts[r][m] # 0 PROVE m < minute
      <4>1. m <= minute /\ Outlives(seen[r], m)
        BY <1>3, <1>7, <2>2, <3>2 DEF LimiterInv, SeenOutlives
      <4>2. m # minute
        BY <1>4, <1>6, <1>3, <3>1, <4>1 DEF Outlives, minute
      <4>3. m \in Nat /\ minute \in Nat
        BY MinuteFacts, DivFacts DEF Minutes, LimiterInv
      <4> QED
        BY <4>1, <4>2, <4>3
    <3> QED
      BY <1>4, <3>1, <3>2 DEF minute
  <2> QED
    BY <1>1, <1>3, <1>4, <2>1, <2>2 DEF CountingFits
<1>14. OneCounts'
  <2>1. ASSUME errors' = 0, pc = "incr", NEW u \in Subs, u # s, callback[u].pc = "incr"
        PROVE  callback[u].r # r
    <3>1. seen[r] <= now
      BY <1>8, <2>1
    <3>2. /\ callback[u].at \in Nat /\ now <= callback[u].at + 1
          /\ seen[callback[u].r] >= callback[u].at + DedupeTtl /\ callback[u].r \in Calls
      BY <1>7, <2>1 DEF LimiterInv, CountingFits, CallbacksFit, Callback, NoMsg
    <3>3. DedupeTtl > 1
      OBVIOUS
    <3> QED
      BY <1>3, <1>4, <1>6, <3>1, <3>2, <3>3
  <2> QED
    BY <1>3, <1>7, <2>1 DEF LimiterInv, OneCounts
<1> QED
  BY <1>3, <1>9, <1>10, <1>11, <1>12, <1>13, <1>14 DEF LimiterInv

\* The INCR: it raises the value the check reads by the event's amount, prolongs
\* the key past its window, and is the first of its event in this one.
LEMMA IncrByCounts ==
  ASSUME LimiterInv, NEW r \in Calls, IncrBy(r), UNCHANGED now
  PROVE  /\ counter' \in [Minutes -> [n : Nat, until : 0..(MaxTime + Window)]]
         /\ counts' \in [Calls -> [Minutes -> Nat]]
         /\ \A q \in Calls, m \in Minutes :
              counts'[q][m] = IF q = r /\ m = minute THEN counts[q][m] + 1 ELSE counts[q][m]
         /\ WindowsTrue'
<1> USE LimiterAssumption
<1> DEFINE c == [n |-> Value(minute) + Amount[r], until |-> now + Window]
<1>1. /\ counter \in [Minutes -> [n : Nat, until : 0..(MaxTime + Window)]]
      /\ counts \in [Calls -> [Minutes -> Nat]] /\ LimiterTypeOK
      /\ minute \in Minutes /\ now \in Nat /\ now <= MaxTime /\ now \div Window = minute
      /\ \A t \in 0..MaxTime : t \div Window = minute => t < now + Window
  BY MinuteFacts DEF LimiterInv, LimiterTypeOK, minute
<1>2. counter' = [counter EXCEPT ![minute] = c] /\ counts' = [counts EXCEPT ![r][minute] = @ + 1]
  BY DEF IncrBy
<1>3. Value(minute) = CountedIn(minute)
  <2>1. CASE counter[minute].until = 0
    BY <1>1, <2>1, NothingCounted DEF LimiterInv, WindowsTrue, Value
  <2>2. CASE counter[minute].until # 0
    <3>1. now < counter[minute].until
      BY <1>1, <2>2 DEF LimiterInv, WindowsTrue, Outlives
    <3> QED
      BY <1>1, <2>2, <3>1 DEF LimiterInv, WindowsTrue, Value
  <2> QED
    BY <2>1, <2>2
<1>4. CountedIn(minute) \in Nat /\ Amount[r] \in Nat
  BY <1>1, CountedType
<1>5. /\ c.n = CountedIn(minute) + Amount[r] /\ c.until = now + Window /\ now + Window # 0
      /\ c \in [n : Nat, until : 0..(MaxTime + Window)]
  <2>1. CountedIn(minute) + Amount[r] \in Nat
    BY <1>4
  <2>2. now + Window \in 0..(MaxTime + Window) /\ now + Window # 0
    BY <1>1
  <2> QED
    BY <1>3, <2>1, <2>2
<1> HIDE DEF c
<1>6. counter' \in [Minutes -> [n : Nat, until : 0..(MaxTime + Window)]]
  BY <1>1, <1>2, <1>5
<1>7. /\ counts' \in [Calls -> [Minutes -> Nat]]
      /\ \A q \in Calls, m \in Minutes :
           counts'[q][m] = IF q = r /\ m = minute THEN counts[q][m] + 1 ELSE counts[q][m]
  BY <1>1, <1>2
<1>8. ASSUME NEW m \in Minutes
      PROVE  IF counter'[m].until = 0 THEN \A q \in Calls : counts'[q][m] = 0
             ELSE CountedIn(m)' = counter'[m].n /\ Outlives(counter'[m].until, m)
  <2>1. CASE m = minute
    <3>1. counter'[m] = c
      BY <1>1, <1>2, <2>1
    <3>2. CountedIn(m)' = c.n
      BY <1>1, <1>2, <1>5, <2>1, OneMoreCounted
    <3>3. Outlives(c.until, m)
      BY <1>1, <1>5, <2>1 DEF Outlives
    <3> QED
      BY <1>5, <3>1, <3>2, <3>3
  <2>2. CASE m # minute
    <3>1. counter'[m] = counter[m] /\ \A q \in Calls : counts'[q][m] = counts[q][m]
      BY <1>1, <1>2, <1>7, <2>2
    <3>2. CountedIn(m)' = CountedIn(m)
      BY <1>1, <1>2, <2>2, OneMoreCounted
    <3> QED
      BY <3>1, <3>2 DEF LimiterInv, WindowsTrue
  <2> QED
    BY <2>1, <2>2
<1>9. WindowsTrue'
  BY <1>8 DEF WindowsTrue, Outlives
<1> QED
  BY <1>6, <1>7, <1>9

LEMMA CountEventKeeps == ASSUME LimiterInv, NEW s \in Subs, CountEvent(s) PROVE LimiterInv'
<1> USE LimiterAssumption
<1> DEFINE r == callback[s].r
<1>1. /\ UNCHANGED <<now, seen, planVars, verdict, event, link>>
      /\ callback[s] # NoMsg /\ callback[s].pc = "incr" /\ GoOn(s, "ack")
  BY DEF CountEvent, NoMsg
<1>2. /\ r \in Calls /\ CallbacksFit' /\ callback'[s].pc = "ack"
      /\ \A u \in Subs : u # s => callback'[u] = callback[u]
  BY <1>1, GoesOn
<1>3. /\ errors' \in 0..MaxErrors /\ faults' = faults /\ (errors' = 0 => errors = 0)
      /\ errors' # 0 \/ IncrBy(r)
      /\ IncrBy(r) \/ UNCHANGED <<counter, counts>>
  BY DEF LimiterInv, LimiterTypeOK, CountEvent, NoFault, ValkeyError, bounds, link
<1> HIDE DEF r
<1>4. CASE UNCHANGED <<counter, counts>> /\ errors' # 0
  <2>1. LimiterTypeOK'
    BY <1>1, <1>2, <1>3, <1>4 DEF LimiterInv, LimiterTypeOK, CallbacksFit, planVars, link
  <2>2. CacheAge'
    BY <1>1 DEF LimiterInv, CacheAge, planVars
  <2>3. UNCHANGED <<now, valkey, counts>>
    BY <1>1, <1>4 DEF valkey
  <2>4. \A u \in Subs : callback'[u].pc = "incr" => callback'[u] = callback[u]
    BY <1>2
  <2> QED
    BY <1>2, <1>3, <2>1, <2>2, <2>3, <2>4, StillCounted DEF LimiterInv
<1>5. CASE IncrBy(r)
  <2>1. /\ counter' \in [Minutes -> [n : Nat, until : 0..(MaxTime + Window)]]
        /\ counts' \in [Calls -> [Minutes -> Nat]]
        /\ \A q \in Calls, m \in Minutes :
             counts'[q][m] = IF q = r /\ m = minute THEN counts[q][m] + 1 ELSE counts[q][m]
        /\ WindowsTrue'
    BY <1>1, <1>2, <1>5, IncrByCounts
  <2>2. LimiterTypeOK' /\ CacheAge'
    BY <1>1, <1>2, <1>3, <2>1 DEF LimiterInv, LimiterTypeOK, CallbacksFit, CacheAge, planVars, link
  <2>3. /\ now \in Nat /\ now <= MaxTime /\ minute \in Minutes /\ minute \in Nat
        /\ \A t \in 0..MaxTime : t \div Window = minute => t < now + Window
        /\ seen[r] \in Nat /\ callback[s].at \in Nat /\ callback[s].at \in 0..MaxTime
        /\ callback[s].at <= now /\ now <= callback[s].at + 1
        /\ \A m \in Minutes : m \in Nat
    <3>1. LimiterTypeOK /\ \A m \in Minutes : m \in Nat
      BY DivFacts DEF LimiterInv, Minutes
    <3>2. callback[s] \in Callback /\ seen[r] \in Nat
      BY <1>1, <1>2 DEF LimiterInv, LimiterTypeOK, CallbacksFit
    <3>3. callback[s].at \in 0..MaxTime /\ callback[s].at \in Nat
      BY <3>2 DEF Callback
    <3>4. callback[s].at <= now /\ now <= callback[s].at + 1
      BY <1>1 DEF LimiterInv, CountingFits
    <3> QED
      BY <3>1, <3>2, <3>3, <3>4, MinuteFacts
  <2>4. ASSUME errors' = 0
        PROVE  /\ seen[r] >= now + Window
               /\ \A m \in Minutes : counts[r][m] # 0 => m < minute
    <3>1. /\ seen[r] >= callback[s].at + DedupeTtl
          /\ \A m \in Minutes : counts[r][m] # 0 => m < callback[s].at \div Window
      BY <1>1, <1>3, <2>4 DEF LimiterInv, CountingFits, r
    <3>2. callback[s].at \div Window <= minute /\ callback[s].at \div Window \in Nat
      BY <2>3, MinuteFacts DEF LimiterInv
    <3>3. seen[r] >= now + Window
      BY <2>3, <3>1
    <3>4. ASSUME NEW m \in Minutes, counts[r][m] # 0 PROVE m < minute
      <4>1. m < callback[s].at \div Window /\ m \in Nat
        BY <2>3, <3>1, <3>4
      <4> HIDE DEF minute
      <4> QED
        BY <2>3, <3>2, <4>1
    <3> QED
      BY <3>3, <3>4
  <2>5. SeenOutlives'
    <3>1. ASSUME errors' = 0, NEW q \in Calls, NEW m \in Minutes, counts'[q][m] # 0
          PROVE  m <= minute /\ Outlives(seen[q], m)
      <4>1. CASE q = r /\ m = minute
        BY <2>3, <2>4, <3>1, <4>1 DEF Outlives
      <4>2. CASE ~(q = r /\ m = minute)
        BY <1>3, <2>1, <3>1, <4>2 DEF LimiterInv, SeenOutlives
      <4> QED
        BY <4>1, <4>2
    <3> QED
      BY <1>1, <3>1 DEF SeenOutlives, Outlives, minute
  <2>6. WindowCountsOnce'
    <3>1. ASSUME errors' = 0, NEW q \in Calls, NEW m \in Minutes PROVE counts'[q][m] <= 1
      <4>1. CASE q = r /\ m = minute
        <5>1. counts[q][m] \in Nat
          BY DEF LimiterInv, LimiterTypeOK
        <5>2. ~(m < minute)
          BY <2>3, <4>1
        <5>3. counts[q][m] = 0
          BY <2>4, <3>1, <4>1, <5>2
        <5> QED
          BY <2>1, <4>1, <5>3
      <4>2. CASE ~(q = r /\ m = minute)
        BY <1>3, <2>1, <3>1, <4>2 DEF LimiterInv, WindowCountsOnce
      <4> QED
        BY <4>1, <4>2
    <3> QED
      BY <3>1 DEF WindowCountsOnce
  <2>7. ASSUME NEW u \in Subs, callback'[u].pc = "incr"
        PROVE  u # s /\ callback'[u] = callback[u] /\ callback[u].r \in Calls
               /\ (errors' = 0 => callback[u].r # r)
    <3>1. u # s /\ callback'[u] = callback[u]
      BY <1>2, <2>7
    <3>2. callback[u].r \in Calls
      BY <2>7, <3>1 DEF LimiterInv, CallbacksFit, Callback, NoMsg
    <3>3. errors' = 0 => callback[u].r # r
      BY <1>1, <1>3, <2>7, <3>1 DEF LimiterInv, OneCounts, r
    <3> QED
      BY <3>1, <3>2, <3>3
  <2>8. CountingFits'
    <3>1. ASSUME NEW u \in Subs, callback'[u].pc = "incr"
          PROVE  /\ callback[u].at <= now /\ now <= callback[u].at + 1
                 /\ errors' = 0 =>
                      /\ seen[callback[u].r] >= callback[u].at + DedupeTtl
                      /\ \A m \in Minutes : counts'[callback[u].r][m] # 0
                                               => m < callback[u].at \div Window
      <4>1. /\ callback[u].pc = "incr" /\ callback[u].r \in Calls
            /\ errors' = 0 => callback[u].r # r
        BY <2>7, <3>1
      <4>2. errors' = 0 => \A m \in Minutes : counts'[callback[u].r][m] = counts[callback[u].r][m]
        BY <2>1, <4>1
      <4> QED
        BY <1>3, <4>1, <4>2 DEF LimiterInv, CountingFits
    <3> QED
      BY <1>1, <2>7, <3>1 DEF CountingFits
  <2>9. OneCounts'
    BY <1>3, <2>7 DEF LimiterInv, OneCounts
  <2> QED
    BY <1>2, <2>1, <2>2, <2>5, <2>6, <2>8, <2>9 DEF LimiterInv
<1> QED
  BY <1>3, <1>4, <1>5

-------------------------------------------------------------------------------

\* Every step of the limiter keeps the invariant.
THEOREM LimiterInductive == LimiterSpec => []LimiterInv
<1>1. LimiterInit => LimiterInv
  BY LimiterInitOK
<1>2. LimiterInv /\ [LimiterNext]_limiterVars => LimiterInv'
  <2> SUFFICES ASSUME LimiterInv, [LimiterNext]_limiterVars PROVE LimiterInv'
    OBVIOUS
  <2>1. CASE Tick
    BY <2>1, TickKeeps
  <2>2. CASE PlanChanges
    BY <2>2, PlanChangesKeeps
  <2>3. CASE Gateway
    BY <2>3, CheckKeeps, PublishKeeps DEF Gateway
  <2>4. CASE Consumer
    <3>1. ASSUME NEW s \in Subs, Bind(s) \/ OnMsg(s) PROVE LimiterInv'
      BY <3>1, BindKeeps, ScopesKeeps, DedupeKeeps, CountEventKeeps, AckKeeps DEF OnMsg
    <3>2. ASSUME NEW r \in Calls, Deliver(r) PROVE LimiterInv'
      BY <3>2, DeliverKeeps
    <3> QED
      BY <2>4, <3>1, <3>2 DEF Consumer
  <2>5. CASE Disconnect
    BY <2>5, DisconnectKeeps
  <2>6. CASE Crash
    BY <2>6, CrashKeeps
  <2>7. CASE BindFails
    BY <2>7, BindFailsKeeps
  <2>8. CASE UNCHANGED limiterVars
    BY <2>8, StutterKeepsLimits
  <2> QED
    BY <2>1, <2>2, <2>3, <2>4, <2>5, <2>6, <2>7, <2>8 DEF LimiterNext
<1> QED
  BY <1>1, <1>2, PTL DEF LimiterSpec

\* The limiter's variables, the cached limit and every callback keep their types,
\* and only what was allowed is published.
THEOREM LimiterTypes == LimiterSpec => []LimiterTypeOK
BY LimiterInductive, PTL DEF LimiterInv

\* RateLimiterService.check compares true values: the counter it reads is what was
\* counted in this minute, a minute counts an event once as long as Valkey answers
\* (the TTL of the seen key exceeds the window), and a limit that the plan no
\* longer has is gone a TTL after the change.
THEOREM TrueValuesCompared == LimiterSpec => []CheckComparesTrueValues
<1>1. LimiterInv => CheckComparesTrueValues
  <2> SUFFICES ASSUME LimiterInv PROVE CheckComparesTrueValues
    OBVIOUS
  <2> USE LimiterAssumption
  <2>1. CounterIsWindow
    <3>1. /\ LimiterTypeOK /\ now \in 0..MaxTime /\ now \div Window = minute
          /\ minute \in Minutes /\ counter[minute].until \in Nat
      BY MinuteFacts DEF LimiterInv, LimiterTypeOK, minute
    <3>2. CASE counter[minute].until = 0
      BY <3>1, <3>2, NothingCounted DEF LimiterInv, WindowsTrue, Value, CounterIsWindow
    <3>3. CASE counter[minute].until # 0
      <4>1. now < counter[minute].until
        BY <3>1, <3>3 DEF LimiterInv, WindowsTrue, Outlives
      <4> QED
        BY <3>1, <3>3, <4>1 DEF LimiterInv, WindowsTrue, Value, CounterIsWindow
    <3> QED
      BY <3>2, <3>3
  <2>2. PlanTakesEffect
    BY DEF LimiterInv, LimiterTypeOK, CacheAge, PlanTakesEffect, link
  <2> QED
    BY <2>1, <2>2 DEF LimiterInv, CheckComparesTrueValues
<1> QED
  BY <1>1, LimiterInductive, PTL
===============================================================================
