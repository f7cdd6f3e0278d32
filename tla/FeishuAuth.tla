----------------------------- MODULE FeishuAuth -----------------------------
(***************************************************************************)
(* FeishuAuthService.getAccessToken for one Feishu app: the rate limit,    *)
(* the token cache in Redis with a cache in memory behind it, and the      *)
(* request of a new token.  Callers are concurrent calls in one process;   *)
(* a step ends at an await.  Time is counted in units of the model.        *)
(*                                                                         *)
(* A cache entry that is not there is Empty: its expiresAt is 0, so it is  *)
(* never served.  A counter that is not there has n = 0; dies = 0 is a key *)
(* without a time to live.                                                 *)
(***************************************************************************)
EXTENDS Naturals, Sequences, FiniteSets

CONSTANTS Callers,
          TokenTtl, RefreshBuffer,   \* authConfig
          WindowSize, MaxRequests,   \* of checkRateLimit
          Lifetimes,      \* how long an issued token is valid
          MaxLatency,     \* timeout of the token request
          MaxTime, MaxCalls, MaxRedisFaults, MaxCrashes   \* bounds

\* A token lives long enough for the refresh ahead of its expiry to come
\* before the token has expired.
ASSUME AuthAssumption ==
    /\ {TokenTtl, RefreshBuffer, WindowSize, MaxRequests, MaxLatency,
        MaxTime, MaxCalls, MaxRedisFaults, MaxCrashes} \subseteq Nat
    /\ RefreshBuffer <= TokenTtl
    /\ WindowSize > 0
    /\ Lifetimes \subseteq Nat
    /\ \A l \in Lifetimes : /\ TokenTtl + MaxLatency < l + 2 * RefreshBuffer
                            /\ MaxLatency < l

VARIABLES now,
          pc,       \* where each call is
          token,    \* the token each call holds: [issued, life]
          at,       \* when each call got its token
          redis,    \* the token cached in Redis
          memory,   \* the token cached in the process
          counter,  \* the counter of the rate limit in Redis: [n, dies]
          requests, \* the times of the requests let through by the process
          log,      \* history: what the counter let through, and when
          faults    \* Redis operations that failed, and crashes

vars == <<now, pc, token, at, redis, memory, counter, requests, log, faults>>

Token == [issued : Nat, life : Nat]
Entry == [issued : Nat, life : Nat, expiresAt : Nat]

NoToken == [issued |-> 0, life |-> 0]

Empty == [issued |-> 0, life |-> 0, expiresAt |-> 0]

Init ==
    /\ now = 1
    /\ pc = [c \in Callers |-> "idle"]
    /\ token = [c \in Callers |-> NoToken]
    /\ at = [c \in Callers |-> 0]
    /\ redis = Empty /\ memory = Empty
    /\ counter = [n |-> 0, dies |-> 0]
    /\ requests = <<>>
    /\ log = <<>>
    /\ faults = [redis |-> 0, crash |-> 0]

Go(c, where) == pc' = [pc EXCEPT ![c] = where]

RedisFails ==
    /\ faults.redis < MaxRedisFaults
    /\ faults' = [faults EXCEPT !.redis = faults.redis + 1]

-----------------------------------------------------------------------------
(* checkRateLimit.                                                         *)

\* Mutant: one request too many.
OverByOne(n) == n > MaxRequests + 1

\* More requests than the window allows.
Over(n) == n > MaxRequests

\* Mutant: the time to live is twice the window.
WindowEndDoubled(t) == t + 2 * WindowSize

WindowEnd(t) == t + WindowSize

Recent(rs) == SelectSeq(rs, LAMBDA t : t + WindowSize > now)

Full(rs) == Len(rs) >= MaxRequests

\* The limit without Redis: the times of the last requests, in memory.
LimitInMemory(c) ==
    IF Full(Recent(requests))
    THEN Go(c, "refused") /\ UNCHANGED requests
    ELSE Go(c, "cached") /\ requests' = Append(Recent(requests), now)

\* The calls counted by Redis, let through or not.
Logged(ok) == log' = Append(log, [t |-> now, ok |-> ok])

CheckRateLimit(c) ==
    /\ pc[c] = "idle"
    /\ Len(log) < MaxCalls
    /\ \/ /\ counter' = [counter EXCEPT !.n = counter.n + 1]
          /\ Logged(~Over(counter'.n))
          /\ Go(c, IF counter'.n = 1 THEN "expire"
                   ELSE IF Over(counter'.n) THEN "refused" ELSE "cached")
          /\ UNCHANGED <<requests, faults>>
       \/ RedisFails /\ LimitInMemory(c) /\ UNCHANGED <<counter, log>>
    /\ UNCHANGED <<now, token, at, redis, memory>>

\* The first request of a window gives the counter its time to live.
ExpireCounter(c) ==
    /\ pc[c] = "expire"
    /\ \/ /\ counter' = [counter EXCEPT !.dies = WindowEnd(now)]
          /\ Go(c, IF Over(1) THEN "refused" ELSE "cached")
          /\ UNCHANGED <<requests, faults>>
       \/ RedisFails /\ LimitInMemory(c) /\ UNCHANGED counter
    /\ UNCHANGED <<now, token, at, redis, memory, log>>

-----------------------------------------------------------------------------
(* The token.                                                              *)

\* An entry is served while it is not about to expire.
Fresh(entry) == entry.expiresAt > now + RefreshBuffer

Serve(c, entry) ==
    /\ token' = [token EXCEPT ![c] = [issued |-> entry.issued,
                                      life |-> entry.life]]
    /\ at' = [at EXCEPT ![c] = now]
    /\ Go(c, "got")

\* A stale entry of the memory is dropped, one of Redis is left.
GetCachedToken(c) ==
    /\ pc[c] = "cached"
    /\ \/ /\ IF Fresh(redis) THEN Serve(c, redis)
             ELSE Go(c, "request") /\ UNCHANGED <<token, at>>
          /\ UNCHANGED <<memory, faults>>
       \/ /\ RedisFails
          /\ IF Fresh(memory) THEN Serve(c, memory) /\ UNCHANGED memory
             ELSE /\ Go(c, "request")
                  /\ memory' = Empty
                  /\ UNCHANGED <<token, at>>
    /\ UNCHANGED <<now, redis, counter, requests, log>>

\* Feishu issues a token, or the request fails after its retries.
RequestNewToken(c) ==
    /\ pc[c] = "request"
    /\ \/ /\ \E l \in Lifetimes :
               token' = [token EXCEPT ![c] = [issued |-> now, life |-> l]]
          /\ Go(c, "reply")
       \/ Go(c, "failed") /\ UNCHANGED token
    /\ UNCHANGED <<now, at, redis, memory, counter, requests, log, faults>>

\* Mutant: the buffer is added.
ExpiresLate(t) == t + TokenTtl + RefreshBuffer

\* The expiry is reckoned from the answer, with the configured life time.
ExpiresAt(t) == t + TokenTtl - RefreshBuffer

NewEntry(c) == [issued |-> token[c].issued, life |-> token[c].life,
                expiresAt |-> ExpiresAt(now)]

CacheToken(c) ==
    /\ pc[c] = "reply"
    /\ \/ redis' = NewEntry(c) /\ UNCHANGED <<memory, faults>>
       \/ RedisFails /\ memory' = NewEntry(c) /\ UNCHANGED redis
    /\ at' = [at EXCEPT ![c] = now]
    /\ Go(c, "got")
    /\ UNCHANGED <<now, token, counter, requests, log>>

Return(c) ==
    /\ pc[c] \in {"got", "refused", "failed"}
    /\ Go(c, "idle")
    /\ token' = [token EXCEPT ![c] = NoToken]
    /\ at' = [at EXCEPT ![c] = 0]
    /\ UNCHANGED <<now, redis, memory, counter, requests, log, faults>>

\* clearTokenCache throws, and clears nothing, when Redis fails.
ClearTokenCache ==
    /\ redis' = Empty /\ memory' = Empty
    /\ UNCHANGED <<now, pc, token, at, counter, requests, log, faults>>

\* The process dies: its calls and its memory are gone.
Crash ==
    /\ faults.crash < MaxCrashes
    /\ faults' = [faults EXCEPT !.crash = faults.crash + 1]
    /\ pc' = [c \in Callers |-> "idle"]
    /\ token' = [c \in Callers |-> NoToken]
    /\ at' = [c \in Callers |-> 0]
    /\ memory' = Empty
    /\ requests' = <<>>
    /\ UNCHANGED <<now, redis, counter, log>>

\* A token request is answered within MaxLatency or not at all, a Redis
\* command within the unit of time.  Redis drops its keys when their time has
\* come.
Tick ==
    /\ now < MaxTime
    /\ \A c \in Callers : /\ pc[c] # "expire"
                          /\ pc[c] = "reply" => now < token[c].issued + MaxLatency
    /\ now' = now + 1
    /\ counter' = IF counter.dies = now + 1 THEN [n |-> 0, dies |-> 0]
                  ELSE counter
    /\ redis' = IF redis.expiresAt + RefreshBuffer <= now + 1 THEN Empty
                ELSE redis
    /\ UNCHANGED <<pc, token, at, memory, requests, log, faults>>

Call(c) ==
    \/ CheckRateLimit(c)
    \/ ExpireCounter(c)
    \/ GetCachedToken(c)
    \/ RequestNewToken(c)
    \/ CacheToken(c)
    \/ Return(c)

Next ==
    \/ \E c \in Callers : Call(c)
    \/ ClearTokenCache
    \/ Crash
    \/ Tick

Spec == Init /\ [][Next]_vars

-----------------------------------------------------------------------------
(* Properties.                                                             *)

\* Type invariant; the process remembers at most MaxRequests requests.
TypeOK ==
    /\ now \in Nat
    /\ pc \in [Callers -> {"idle", "expire", "cached", "request", "reply",
                           "got", "refused", "failed"}]
    /\ token \in [Callers -> Token]
    /\ at \in [Callers -> Nat]
    /\ redis \in Entry /\ memory \in Entry
    /\ counter \in [n : Nat, dies : Nat]
    /\ requests \in Seq(Nat) /\ Len(requests) <= MaxRequests
    /\ log \in Seq([t : Nat, ok : BOOLEAN])
    /\ faults \in [redis : Nat, crash : Nat]

\* getAccessToken never returns a token that has expired, wherever it was
\* cached and however long its request was under way.
TokenUsable ==
    \A c \in Callers : pc[c] = "got" => at[c] < token[c].issued + token[c].life

Counted(from, oks) ==
    Cardinality({i \in DOMAIN log : /\ log[i].ok \in oks
                                    /\ log[i].t >= from
                                    /\ log[i].t < from + WindowSize})

\* checkRateLimit counts in fixed windows: over any interval as long as a
\* window, the counter lets through at most twice the limit.
WindowBound ==
    \A t \in 1 .. now : Counted(t, {TRUE}) <= 2 * MaxRequests

\* checkRateLimit refuses a call only when the limit was reached within the
\* last window, unless Redis failed or the process died, which can leave the
\* counter without a time to live.
RefusedOnlyIfBusy ==
    [][\A c \in Callers :
         /\ pc[c] \in {"idle", "expire"} /\ pc'[c] = "refused"
         /\ faults' = [redis |-> 0, crash |-> 0]
         => Cardinality({i \in DOMAIN log : log[i].t + WindowSize > now})
              >= MaxRequests]_vars
=============================================================================
