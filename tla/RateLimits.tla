------------------------------ MODULE RateLimits ------------------------------
(***************************************************************************)
(* The gateway's three limits on requests, each kept per key under a lock: *)
(*   - RateLimiter (ilink/ratelimit.go): a token bucket per bot or client  *)
(*     for the iLink API, with buckets that are not used swept away;       *)
(*   - checkRateLimit (notify/handler.go): so many notifications per token *)
(*     in a window that starts with the first request after the last one;  *)
(*   - handleLogin (api/token_handler.go): a pause after so many wrong     *)
(*     passwords from one client.                                          *)
(*                                                                         *)
(* Time is counted in ticks.  In the bucket a tick is also the measure of  *)
(* tokens: it is the time in which the bucket gains one part, a request    *)
(* costs Cost parts and a full bucket holds Burst parts.                   *)
(***************************************************************************)
EXTENDS Naturals

CONSTANTS Clients,    \* bots, clients and tokens
          Cost,       \* ticks in which a token is refilled (1/10 s)
          Burst,      \* ticks in which a bucket is filled (20 tokens, 2 s)
          MaxIdle,    \* ticks after which a bucket is swept (5 min)
          Window,     \* ticks of a window of notifications (1 s)
          PerWindow,  \* notifications in a window (5)
          Pause,      \* ticks of the pause after wrong passwords (30 s)
          MaxWrong,   \* wrong passwords before the pause (5)
          MaxNow      \* bound on time

VARIABLES now,
          known,     \* keys that have a bucket
          tokens,    \* TokenBucket.tokens, in parts
          refilled,  \* TokenBucket.lastRefill
          opened,    \* keys with a window of notifications
          counts,    \* rateCounts
          reset,     \* rateReset
          wrong,     \* loginAttempt.count
          blocked,   \* loginAttempt.blocked
          blockedAt, \* loginAttempt.blockedAt
          mark,      \* history: the moment since which the following count
          spent,     \* history: parts the bucket gave for requests
          notified,  \* history: notifications let through
          tried      \* history: wrong passwords compared since the last right one

bucket == <<known, tokens, refilled>>
window == <<opened, counts, reset>>
login == <<wrong, blocked, blockedAt>>
limitVars == <<now, bucket, window, login, mark, spent, notified, tried>>

Zero == [k \in Clients |-> 0]

LimitsInit ==
    /\ now = 0
    /\ known = {} /\ tokens = Zero /\ refilled = Zero
    /\ opened = {} /\ counts = Zero /\ reset = Zero
    /\ wrong = Zero /\ blocked = {} /\ blockedAt = Zero
    /\ mark = Zero /\ spent = Zero /\ notified = Zero /\ tried = Zero

-----------------------------------------------------------------------------
\* The parts in the bucket of k at this moment; a new bucket is full
Available(k) ==
    IF k \notin known \/ tokens[k] + (now - refilled[k]) > Burst THEN Burst
    ELSE tokens[k] + (now - refilled[k])

\* RateLimiter.Allow: refill, then take a token if there is one
Allow(k) ==
    /\ known' = known \cup {k}
    /\ refilled' = [refilled EXCEPT ![k] = now]
    /\ IF Available(k) >= Cost
       THEN /\ tokens' = [tokens EXCEPT ![k] = Available(k) - Cost]
            /\ spent' = [spent EXCEPT ![k] = @ + Cost]
       ELSE /\ tokens' = [tokens EXCEPT ![k] = Available(k)]
            /\ UNCHANGED spent
    /\ UNCHANGED <<now, window, login, mark, notified, tried>>

\* cleanupBuckets, on the ticker of cleanupLoop
Cleanup ==
    /\ known' = known \ {k \in known : now - refilled[k] > MaxIdle}
    /\ UNCHANGED <<now, tokens, refilled, window, login, mark, spent, notified, tried>>

\* checkRateLimit: a request after the window opens the next one
Notify(k) ==
    LET opens == k \notin opened \/ now > reset[k]
        count == (IF opens THEN 0 ELSE counts[k]) + 1
    IN  /\ opened' = opened \cup {k}
        /\ reset' = IF opens THEN [reset EXCEPT ![k] = now + Window] ELSE reset
        /\ counts' = [counts EXCEPT ![k] = count]
        /\ notified' = IF count <= PerWindow THEN [notified EXCEPT ![k] = @ + 1]
                       ELSE notified
        /\ UNCHANGED <<now, bucket, login, mark, spent, tried>>

\* handleLogin: the pause is over, if there was one, and it is read what was sent
Admitted(k) == k \in blocked => now - blockedAt[k] >= Pause
Counted(k) == IF k \in blocked THEN 0 ELSE wrong[k]

LoginBad(k) ==
    /\ Admitted(k)
    /\ wrong' = [wrong EXCEPT ![k] = Counted(k)]
    /\ blocked' = blocked \ {k}
    /\ UNCHANGED <<now, bucket, window, blockedAt, mark, spent, notified, tried>>

LoginWrong(k) ==
    /\ Admitted(k)
    /\ wrong' = [wrong EXCEPT ![k] = Counted(k) + 1]
    /\ IF Counted(k) + 1 >= MaxWrong
       THEN /\ blocked' = blocked \cup {k}
            /\ blockedAt' = [blockedAt EXCEPT ![k] = now]
       ELSE /\ blocked' = blocked \ {k}
            /\ UNCHANGED blockedAt
    /\ tried' = [tried EXCEPT ![k] = @ + 1]
    /\ UNCHANGED <<now, bucket, window, mark, spent, notified>>

LoginRight(k) ==
    /\ Admitted(k)
    /\ wrong' = [wrong EXCEPT ![k] = 0]
    /\ blocked' = blocked \ {k}
    /\ tried' = [tried EXCEPT ![k] = 0]
    /\ UNCHANGED <<now, bucket, window, blockedAt, mark, spent, notified>>

\* Time passes; and one begins to count from this moment on
Tick ==
    /\ now < MaxNow
    /\ now' = now + 1
    /\ UNCHANGED <<bucket, window, login, mark, spent, notified, tried>>

Mark(k) ==
    /\ mark' = [mark EXCEPT ![k] = now]
    /\ spent' = [spent EXCEPT ![k] = 0]
    /\ notified' = [notified EXCEPT ![k] = 0]
    /\ tried' = [tried EXCEPT ![k] = 0]
    /\ UNCHANGED <<now, bucket, window, login>>

LimitsNext ==
    \/ \E k \in Clients : \/ Allow(k)
                          \/ Notify(k)
                          \/ LoginBad(k) \/ LoginWrong(k) \/ LoginRight(k)
                          \/ Mark(k)
    \/ Cleanup
    \/ Tick

LimitsSpec == LimitsInit /\ [][LimitsNext]_limitVars

-----------------------------------------------------------------------------
\* The shape of the state.
LimitsTypeOK ==
    /\ now \in Nat
    /\ known \subseteq Clients
    /\ opened \subseteq Clients
    /\ blocked \subseteq Clients
    /\ tokens \in [Clients -> Nat] /\ refilled \in [Clients -> Nat]
    /\ counts \in [Clients -> Nat] /\ reset \in [Clients -> Nat]
    /\ wrong \in [Clients -> Nat] /\ blockedAt \in [Clients -> Nat]
    /\ mark \in [Clients -> Nat] /\ spent \in [Clients -> Nat]
    /\ notified \in [Clients -> Nat] /\ tried \in [Clients -> Nat]

\* RateLimiter: since any moment a key got no more than a full bucket and what was
\* refilled, although a bucket that is swept comes back full.
BucketLimits == \A k \in Clients : spent[k] <= Burst + (now - mark[k])

\* checkRateLimit: in any stretch of time as long as a window, at most the
\* notifications of two windows get through, however the windows lie.
WindowLimits ==
    \A k \in Clients : now - mark[k] <= Window => notified[k] <= 2 * PerWindow

\* handleLogin: in any stretch of time shorter than the pause, at most MaxWrong wrong
\* passwords are compared without a right one between them.
LoginLimits ==
    \A k \in Clients : now - mark[k] < Pause => tried[k] <= MaxWrong

===============================================================================
