-------------------------- MODULE FeishuAuthProofs --------------------------
(***************************************************************************)
(* getAccessToken: no cache ever serves an expired token, and the rate     *)
(* limit lets at most two windows' worth of calls through in the length of *)
(* one and refuses none that it need not, for all life times, buffers,     *)
(* latencies, windows and limits that satisfy AuthAssumption.              *)
(***************************************************************************)
EXTENDS FeishuAuth, FiniteSetTheorems, TLAPS

\* The part of the type invariant the argument needs.
CacheTypeOK ==
    /\ now \in Nat
    /\ pc \in [Callers -> {"idle", "expire", "cached", "request", "reply",
                           "got", "refused", "failed"}]
    /\ token \in [Callers -> Token]
    /\ at \in [Callers -> Nat]
    /\ redis \in Entry /\ memory \in Entry

\* A cached token is dropped from the cache before it expires: its recorded
\* expiry, less the buffer, is before its real one.
EntrySafe(e) == e = Empty \/ e.expiresAt < e.issued + e.life + RefreshBuffer

\* An answer under way is not older than the timeout allows.
ReplySafe(c) ==
    pc[c] = "reply" =>
      /\ token[c].life \in Lifetimes
      /\ token[c].issued <= now
      /\ now <= token[c].issued + MaxLatency

IInv ==
    /\ CacheTypeOK
    /\ EntrySafe(redis) /\ EntrySafe(memory)
    /\ \A c \in Callers : ReplySafe(c)
    /\ TokenUsable

-----------------------------------------------------------------------------
\* getCachedToken: an entry that is fresh holds a token that is valid now.
LEMMA FreshIsValid ==
    ASSUME NEW e \in Entry, now \in Nat, EntrySafe(e), Fresh(e)
    PROVE  now < e.issued + e.life
  BY AuthAssumption DEF Entry, EntrySafe, Fresh, Empty

\* cacheToken: the entry made from an answer is safe.
LEMMA NewEntrySafe ==
    ASSUME IInv, NEW c \in Callers, pc[c] = "reply"
    PROVE  /\ NewEntry(c) \in Entry
           /\ EntrySafe(NewEntry(c))
           /\ now < token[c].issued + token[c].life
  <1>1. /\ token[c] \in Token
        /\ token[c].issued \in Nat /\ token[c].life \in Nat
    BY DEF IInv, CacheTypeOK, Token
  <1>2. /\ token[c].life \in Lifetimes
        /\ now <= token[c].issued + MaxLatency
        /\ now \in Nat
    BY DEF IInv, CacheTypeOK, ReplySafe
  <1>3. /\ TokenTtl \in Nat /\ RefreshBuffer \in Nat /\ MaxLatency \in Nat
        /\ RefreshBuffer <= TokenTtl
        /\ TokenTtl + MaxLatency < token[c].life + 2 * RefreshBuffer
        /\ MaxLatency < token[c].life
    BY <1>2, AuthAssumption, Zenon
  <1>4. ExpiresAt(now) \in Nat
    BY <1>2, <1>3 DEF ExpiresAt
  <1>5. ExpiresAt(now) < token[c].issued + token[c].life + RefreshBuffer
    BY <1>1, <1>2, <1>3 DEF ExpiresAt
  <1> QED
    BY <1>1, <1>2, <1>3, <1>4, <1>5 DEF NewEntry, Entry, EntrySafe

\* Facts about the empty cache and the absent token.
LEMMA EmptySafe == Empty \in Entry /\ EntrySafe(Empty) /\ NoToken \in Token
  BY DEF Empty, Entry, EntrySafe, NoToken, Token

LEMMA InitIInv == Init => IInv
  BY EmptySafe DEF Init, IInv, CacheTypeOK, ReplySafe, TokenUsable

\* A step that moves one caller somewhere other than to an answer or a token,
\* and leaves tokens, caches and time alone, keeps the invariant.
LEMMA MoveKeeps ==
    ASSUME IInv, NEW c \in Callers,
           NEW where \in {"idle", "expire", "cached", "request", "refused",
                          "failed"},
           Go(c, where), UNCHANGED <<now, token, at, redis>>,
           memory' \in {memory, Empty}
    PROVE  IInv'
  <1>1. CacheTypeOK'
    BY EmptySafe DEF IInv, CacheTypeOK, Go
  <1>2. EntrySafe(redis)' /\ EntrySafe(memory)'
    BY EmptySafe DEF IInv, EntrySafe
  <1>3. \A d \in Callers : pc'[d] \in {"reply", "got"} => pc'[d] = pc[d]
    BY DEF IInv, CacheTypeOK, Go
  <1>4. (\A d \in Callers : ReplySafe(d))'
    BY <1>3 DEF IInv, ReplySafe
  <1>5. TokenUsable'
    BY <1>3 DEF IInv, TokenUsable
  <1> QED BY <1>1, <1>2, <1>4, <1>5 DEF IInv

\* Serving a safe and fresh entry keeps the invariant.
LEMMA ServeKeeps ==
    ASSUME IInv, NEW c \in Callers, NEW e \in Entry, EntrySafe(e), Fresh(e),
           Serve(c, e), UNCHANGED <<now, redis, memory>>
    PROVE  IInv'
  <1>1. now < e.issued + e.life
    BY FreshIsValid DEF IInv, CacheTypeOK
  <1>2. [issued |-> e.issued, life |-> e.life] \in Token
    BY DEF Entry, Token
  <1>3. CacheTypeOK'
    BY <1>2 DEF IInv, CacheTypeOK, Serve, Go
  <1>4. EntrySafe(redis)' /\ EntrySafe(memory)'
    BY DEF IInv, EntrySafe
  <1>5. (\A d \in Callers : ReplySafe(d))'
    BY DEF IInv, CacheTypeOK, ReplySafe, Serve, Go
  <1>6. TokenUsable'
    BY <1>1 DEF IInv, CacheTypeOK, TokenUsable, Serve, Go
  <1> QED BY <1>3, <1>4, <1>5, <1>6 DEF IInv

-----------------------------------------------------------------------------
\* Every step keeps the invariant.
LEMMA NextIInv == IInv /\ [Next]_vars => IInv'
  <1> SUFFICES ASSUME IInv, [Next]_vars PROVE IInv'
    OBVIOUS
  <1>1. ASSUME NEW c \in Callers, CheckRateLimit(c) PROVE IInv'
    <2>1. PICK w \in {"expire", "refused", "cached"} : Go(c, w)
      BY <1>1 DEF CheckRateLimit, LimitInMemory
    <2> QED BY <1>1, <2>1, MoveKeeps DEF CheckRateLimit
  <1>2. ASSUME NEW c \in Callers, ExpireCounter(c) PROVE IInv'
    <2>1. PICK w \in {"refused", "cached"} : Go(c, w)
      BY <1>2 DEF ExpireCounter, LimitInMemory
    <2> QED BY <1>2, <2>1, MoveKeeps DEF ExpireCounter
  <1>3. ASSUME NEW c \in Callers, GetCachedToken(c) PROVE IInv'
    <2>1. redis \in Entry /\ memory \in Entry
          /\ EntrySafe(redis) /\ EntrySafe(memory)
      BY DEF IInv, CacheTypeOK
    <2>2. CASE Fresh(redis) /\ Serve(c, redis) /\ UNCHANGED memory
      BY <1>3, <2>1, <2>2, ServeKeeps DEF GetCachedToken
    <2>3. CASE Fresh(memory) /\ Serve(c, memory) /\ UNCHANGED memory
      BY <1>3, <2>1, <2>3, ServeKeeps DEF GetCachedToken
    <2>4. CASE Go(c, "request") /\ UNCHANGED <<token, at>>
               /\ memory' \in {memory, Empty}
      BY <1>3, <2>4, MoveKeeps DEF GetCachedToken
    <2> QED BY <1>3, <2>2, <2>3, <2>4 DEF GetCachedToken
  <1>4. ASSUME NEW c \in Callers, RequestNewToken(c) PROVE IInv'
    <2>1. CASE Go(c, "failed") /\ UNCHANGED token
      BY <1>4, <2>1, MoveKeeps DEF RequestNewToken
    <2>2. ASSUME NEW l \in Lifetimes, Go(c, "reply"),
                 token' = [token EXCEPT ![c] = [issued |-> now, life |-> l]]
          PROVE  IInv'
      <3>1. UNCHANGED <<now, at, redis, memory>>
        BY <1>4 DEF RequestNewToken
      <3>2. [issued |-> now, life |-> l] \in Token
        BY AuthAssumption DEF IInv, CacheTypeOK, Token
      <3>3. CacheTypeOK'
        BY <2>2, <3>1, <3>2 DEF IInv, CacheTypeOK, Go
      <3>4. EntrySafe(redis)' /\ EntrySafe(memory)'
        BY <3>1 DEF IInv, EntrySafe
      <3>5. now \in Nat /\ MaxLatency \in Nat /\ now <= now + MaxLatency
        BY AuthAssumption DEF IInv, CacheTypeOK
      <3>6. (\A d \in Callers : ReplySafe(d))'
        BY <2>2, <3>1, <3>5 DEF IInv, CacheTypeOK, ReplySafe, Go
      <3>7. TokenUsable'
        BY <2>2, <3>1 DEF IInv, CacheTypeOK, TokenUsable, Go
      <3> QED BY <3>3, <3>4, <3>6, <3>7 DEF IInv
    <2> QED BY <1>4, <2>1, <2>2 DEF RequestNewToken
  <1>5. ASSUME NEW c \in Callers, CacheToken(c) PROVE IInv'
    <2>1. /\ pc[c] = "reply" /\ Go(c, "got")
          /\ at' = [at EXCEPT ![c] = now]
          /\ UNCHANGED <<now, token>>
          /\ redis' \in {redis, NewEntry(c)}
          /\ memory' \in {memory, NewEntry(c)}
      BY <1>5 DEF CacheToken
    <2>2. /\ NewEntry(c) \in Entry /\ EntrySafe(NewEntry(c))
          /\ now < token[c].issued + token[c].life
      BY <2>1, NewEntrySafe
    <2>3. CacheTypeOK'
      BY <2>1, <2>2 DEF IInv, CacheTypeOK, Go
    <2>4. EntrySafe(redis)' /\ EntrySafe(memory)'
      BY <2>1, <2>2 DEF IInv, EntrySafe
    <2>5. (\A d \in Callers : ReplySafe(d))'
      BY <2>1 DEF IInv, CacheTypeOK, ReplySafe, Go
    <2>6. TokenUsable'
      BY <2>1, <2>2 DEF IInv, CacheTypeOK, TokenUsable, Go
    <2> QED BY <2>3, <2>4, <2>5, <2>6 DEF IInv
  <1>6. ASSUME NEW c \in Callers, Return(c) PROVE IInv'
    <2>1. CacheTypeOK'
      BY <1>6, EmptySafe DEF Return, IInv, CacheTypeOK, Go
    <2>2. EntrySafe(redis)' /\ EntrySafe(memory)'
      BY <1>6 DEF Return, IInv, EntrySafe
    <2>3. (\A d \in Callers : ReplySafe(d))'
      BY <1>6 DEF Return, IInv, CacheTypeOK, ReplySafe, Go
    <2>4. TokenUsable'
      BY <1>6 DEF Return, IInv, CacheTypeOK, TokenUsable, Go
    <2> QED BY <2>1, <2>2, <2>3, <2>4 DEF IInv
  <1>7. CASE ClearTokenCache
    BY <1>7, EmptySafe
    DEF ClearTokenCache, IInv, CacheTypeOK, EntrySafe, ReplySafe, TokenUsable
  <1>8. CASE Crash
    BY <1>8, EmptySafe
    DEF Crash, IInv, CacheTypeOK, EntrySafe, ReplySafe, TokenUsable
  <1>9. CASE Tick
    <2>1. /\ now' = now + 1 /\ now \in Nat
          /\ UNCHANGED <<pc, token, at, memory>>
          /\ redis' \in {redis, Empty}
          /\ \A c \in Callers :
               pc[c] = "reply" => now < token[c].issued + MaxLatency
      BY <1>9 DEF Tick, IInv, CacheTypeOK
    <2>2. CacheTypeOK'
      BY <2>1, EmptySafe DEF IInv, CacheTypeOK
    <2>3. EntrySafe(redis)' /\ EntrySafe(memory)'
      BY <2>1, EmptySafe DEF IInv, EntrySafe
    <2>4. \A c \in Callers : token[c].issued \in Nat
      BY DEF IInv, CacheTypeOK, Token
    <2>5. (\A c \in Callers : ReplySafe(c))'
      BY <2>1, <2>4, AuthAssumption DEF IInv, ReplySafe
    <2>6. TokenUsable'
      BY <2>1 DEF IInv, TokenUsable
    <2> QED BY <2>2, <2>3, <2>5, <2>6 DEF IInv
  <1>10. CASE UNCHANGED vars
    BY <1>10 DEF vars, IInv, CacheTypeOK, EntrySafe, ReplySafe, TokenUsable
  <1> QED
    BY <1>1, <1>2, <1>3, <1>4, <1>5, <1>6, <1>7, <1>8, <1>9, <1>10
    DEF Next, Call

\* getAccessToken never returns a token that has expired.
THEOREM TokensUsable == Spec => []TokenUsable
  <1>1. IInv => TokenUsable
    BY DEF IInv
  <1> QED
    BY InitIInv, NextIInv, <1>1, PTL DEF Spec

-----------------------------------------------------------------------------
(***************************************************************************)
(* The limit of checkRateLimit.  INCR counts every call it logs, so the    *)
(* last counter.n entries of the log are those of the current window.      *)
(***************************************************************************)
NoFaults == [redis |-> 0, crash |-> 0]

LimitTypeOK ==
    /\ now \in Nat
    /\ pc \in [Callers -> {"idle", "expire", "cached", "request", "reply",
                           "got", "refused", "failed"}]
    /\ counter \in [n : Nat, dies : Nat]
    /\ log \in Seq([t : Nat, ok : BOOLEAN])
    /\ faults \in [redis : Nat, crash : Nat]
    /\ counter.n <= Len(log)

\* The entries of the windows before the current one are 1 .. Old.
Old == Len(log) - counter.n

\* The entries are in the order of their times, none later than now.
LogOrdered ==
    /\ \A i \in 1 .. Len(log) : log[i].t <= now
    /\ \A i, j \in 1 .. Len(log) : i <= j => log[i].t <= log[j].t

\* The counter lets the first MaxRequests calls of its window through.
FirstPass ==
    \A i \in 1 .. Len(log) : i > Old /\ log[i].ok => i <= Old + MaxRequests

\* A counter with a time to live dies one window after its first call.
Dies ==
    counter.dies # 0 =>
      /\ counter.n > 0
      /\ counter.dies = log[Old + 1].t + WindowSize
      /\ counter.dies > now

\* The call that is about to give the counter its time to live opened the
\* window at this very time, and is alone.
Opening ==
    \A c \in Callers : pc[c] = "expire" =>
      /\ counter.n > 0 /\ counter.dies = 0
      /\ log[Old + 1].t = now
      /\ \A d \in Callers : pc[d] = "expire" => d = c

\* Only a fault leaves a counter without a time to live for longer.
NoTtl ==
    faults = NoFaults /\ counter.n > 0 /\ counter.dies = 0
      => \E c \in Callers : pc[c] = "expire"

\* When the current window opened; now, if the next call opens it.
Opened == IF counter.n > 0 THEN log[Old + 1].t ELSE now

\* What earlier windows let through less than a window before that.
Before == {i \in 1 .. Old : log[i].ok /\ log[i].t + WindowSize > Opened}


LimitInv ==
    /\ LimitTypeOK /\ LogOrdered /\ FirstPass /\ Dies /\ Opening /\ NoTtl
    /\ Cardinality(Before) <= MaxRequests
    /\ \A from \in Nat : Counted(from, {TRUE}) <= 2 * MaxRequests

-----------------------------------------------------------------------------
\* A set of at most as many indices as a window lets calls through.
LEMMA AtMostMax ==
    ASSUME NEW a \in Nat, NEW S \in SUBSET ((a + 1) .. (a + MaxRequests))
    PROVE  IsFiniteSet(S) /\ Cardinality(S) \in Nat /\ Cardinality(S) <= MaxRequests
  <1>1. MaxRequests \in Nat
    BY AuthAssumption
  <1>2. /\ IsFiniteSet((a + 1) .. (a + MaxRequests))
        /\ Cardinality((a + 1) .. (a + MaxRequests)) <= MaxRequests
    <2>1. a + 1 \in Int /\ a + MaxRequests \in Int
      BY <1>1
    <2>2. /\ IsFiniteSet((a + 1) .. (a + MaxRequests))
          /\ Cardinality((a + 1) .. (a + MaxRequests)) =
               IF a + 1 > a + MaxRequests THEN 0 ELSE (a + MaxRequests) - (a + 1) + 1
      BY <2>1, FS_Interval, Zenon
    <2> QED BY <1>1, <2>2
  <1>3. IsFiniteSet(S) /\ Cardinality(S) <= Cardinality((a + 1) .. (a + MaxRequests))
    BY <1>2, FS_Subset, Zenon
  <1>4. Cardinality(S) \in Nat /\ Cardinality((a + 1) .. (a + MaxRequests)) \in Nat
    BY <1>2, <1>3, FS_CardinalityType
  <1> QED BY <1>1, <1>2, <1>3, <1>4

\* Two windows let at most twice as many calls through.
LEMMA AtMostTwice ==
    ASSUME NEW A, NEW B, NEW S \in SUBSET (A \cup B),
           IsFiniteSet(A), IsFiniteSet(B),
           Cardinality(A) <= MaxRequests, Cardinality(B) <= MaxRequests
    PROVE  Cardinality(S) <= 2 * MaxRequests
  <1>1. IsFiniteSet(A \cup B) /\ IsFiniteSet(A \cap B)
    BY FS_Union, FS_Subset
  <1>2. Cardinality(A \cup B) = Cardinality(A) + Cardinality(B) - Cardinality(A \cap B)
    BY FS_Union
  <1>3. IsFiniteSet(S) /\ Cardinality(S) <= Cardinality(A \cup B)
    BY <1>1, FS_Subset
  <1>4. /\ Cardinality(A) \in Nat /\ Cardinality(B) \in Nat /\ Cardinality(S) \in Nat
        /\ Cardinality(A \cap B) \in Nat /\ Cardinality(A \cup B) \in Nat
    BY <1>1, <1>3, FS_CardinalityType
  <1> QED BY <1>2, <1>3, <1>4, AuthAssumption

\* The types of the log, entry by entry.
LEMMA LogTypes ==
    ASSUME LimitTypeOK
    PROVE  /\ Len(log) \in Nat /\ DOMAIN log = 1 .. Len(log)
           /\ counter.n \in Nat /\ counter.dies \in Nat /\ counter.n <= Len(log)
           /\ Old \in Nat /\ Old + counter.n = Len(log)
           /\ \A i \in 1 .. Len(log) : log[i].t \in Nat /\ log[i].ok \in BOOLEAN
  <1>1. /\ Len(log) \in Nat /\ DOMAIN log = 1 .. Len(log)
        /\ \A i \in 1 .. Len(log) : log[i] \in [t : Nat, ok : BOOLEAN]
    <2>1. ASSUME NEW R, log \in Seq(R)
          PROVE  /\ Len(log) \in Nat /\ DOMAIN log = 1 .. Len(log)
                 /\ \A i \in 1 .. Len(log) : log[i] \in R
      BY <2>1
    <2> QED BY <2>1, Zenon DEF LimitTypeOK
  <1>2. counter.n \in Nat /\ counter.dies \in Nat /\ counter.n <= Len(log)
    BY DEF LimitTypeOK
  <1>3. Old \in Nat /\ Old + counter.n = Len(log)
    BY <1>1, <1>2 DEF Old
  <1> QED BY <1>1, <1>2, <1>3

\* What the counter let through in [from, from + WindowSize).
Through(from) == {i \in DOMAIN log : /\ log[i].ok \in {TRUE}
                                     /\ log[i].t >= from
                                     /\ log[i].t < from + WindowSize}

LEMMA CountedThrough == \A from : Counted(from, {TRUE}) = Cardinality(Through(from))
  BY DEF Counted, Through

LEMMA InitLimit == Init => LimitInv
  <1> SUFFICES ASSUME Init PROVE LimitInv
    OBVIOUS
  <1>1. /\ Len(log) = 0 /\ Old = 0 /\ counter.n = 0 /\ counter.dies = 0
        /\ now = 1 /\ faults = NoFaults /\ DOMAIN log = {}
    BY DEF Init, Old, NoFaults
  <1>2. LimitTypeOK
    BY <1>1 DEF Init, LimitTypeOK, NoFaults
  <1>3. LogOrdered /\ FirstPass /\ Dies /\ Opening /\ NoTtl
    BY <1>1 DEF Init, LogOrdered, FirstPass, Dies, Opening, NoTtl
  <1>4. Before = {} /\ \A from \in Nat : Through(from) = {}
    BY <1>1 DEF Before, Through
  <1>5. Cardinality({}) = 0
    BY FS_EmptySet
  <1>6. Cardinality(Before) <= MaxRequests
    BY <1>4, <1>5, AuthAssumption
  <1>7. \A from \in Nat : Counted(from, {TRUE}) <= 2 * MaxRequests
    BY <1>4, <1>5, CountedThrough, AuthAssumption
  <1> QED BY <1>2, <1>3, <1>6, <1>7 DEF LimitInv

\* A step that leaves the counter, its log and the time alone keeps the
\* invariant, unless it takes a call away from expire without a fault.
LEMMA AsideKeeps ==
    ASSUME LimitInv, UNCHANGED <<now, counter, log>>,
           pc' \in [Callers -> {"idle", "expire", "cached", "request", "reply",
                                "got", "refused", "failed"}],
           faults' \in [redis : Nat, crash : Nat],
           \A d \in Callers : pc'[d] = "expire" => pc[d] = "expire",
           faults' = NoFaults =>
             /\ faults = NoFaults
             /\ \A d \in Callers : pc[d] = "expire" => pc'[d] = "expire"
    PROVE  LimitInv'
  <1>1. LimitTypeOK'
    BY DEF LimitInv, LimitTypeOK
  <1>2. Old' = Old
    BY DEF Old
  <1>3. (LogOrdered /\ FirstPass /\ Dies)'
    BY <1>2 DEF LimitInv, LogOrdered, FirstPass, Dies
  <1>4. Opening'
    BY <1>2 DEF LimitInv, Opening
  <1>5. NoTtl'
    BY DEF LimitInv, NoTtl
  <1>6. Before' = Before
    BY <1>2 DEF Before, Opened
  <1>7. \A from \in Nat : Counted(from, {TRUE})' = Counted(from, {TRUE})
    BY DEF Counted
  <1> QED BY <1>1, <1>3, <1>4, <1>5, <1>6, <1>7 DEF LimitInv

\* A call that Redis counts keeps the invariant: the new entry belongs to the
\* current window, and an interval that reaches it reaches back to no earlier
\* window than the one before.
LEMMA CountKeeps ==
    ASSUME LimitInv, NEW c \in Callers, pc[c] = "idle",
           counter' = [counter EXCEPT !.n = counter.n + 1],
           Logged(~Over(counter'.n)),
           Go(c, IF counter'.n = 1 THEN "expire"
                 ELSE IF Over(counter'.n) THEN "refused" ELSE "cached"),
           UNCHANGED <<now, faults>>
    PROVE  LimitInv'
  <1> DEFINE L == Len(log)
             e == [t |-> now, ok |-> ~Over(counter'.n)]
  <1>1. /\ L \in Nat /\ counter.n \in Nat /\ counter.dies \in Nat
        /\ counter.n <= L /\ Old \in Nat /\ Old + counter.n = L
        /\ \A i \in 1 .. L : log[i].t \in Nat /\ log[i].ok \in BOOLEAN
        /\ DOMAIN log = 1 .. L
    BY LogTypes DEF LimitInv
  <1>2. /\ counter'.n = counter.n + 1 /\ counter'.dies = counter.dies
        /\ counter' \in [n : Nat, dies : Nat]
    BY <1>1 DEF LimitInv, LimitTypeOK
  <1>3. now \in Nat /\ MaxRequests \in Nat /\ WindowSize \in Nat /\ WindowSize > 0
    BY AuthAssumption DEF LimitInv, LimitTypeOK
  <1>4. /\ e.t = now /\ e.ok \in BOOLEAN /\ e.ok = (counter.n + 1 <= MaxRequests)
        /\ e \in [t : Nat, ok : BOOLEAN]
    BY <1>1, <1>2, <1>3 DEF Over
  <1> HIDE DEF e
  <1>5. /\ log' \in Seq([t : Nat, ok : BOOLEAN])
        /\ Len(log') = L + 1 /\ DOMAIN log' = 1 .. (L + 1)
        /\ log'[L + 1] = e
        /\ \A i \in 1 .. L : log'[i] = log[i]
    <2>1. ASSUME NEW R, log \in Seq(R), e \in R
          PROVE  /\ Append(log, e) \in Seq(R)
                 /\ Len(Append(log, e)) = L + 1
                 /\ DOMAIN Append(log, e) = 1 .. (L + 1)
                 /\ Append(log, e)[L + 1] = e
                 /\ \A i \in 1 .. L : Append(log, e)[i] = log[i]
      BY <2>1
    <2>2. log' = Append(log, e)
      BY DEF Logged, e
    <2>3. log \in Seq([t : Nat, ok : BOOLEAN])
      BY DEF LimitInv, LimitTypeOK
    <2> QED BY <2>1, <2>2, <2>3, <1>4, Zenon
  <1>6. Old' = Old /\ Len(log)' = L + 1
    BY <1>1, <1>2, <1>5 DEF Old
  <1> HIDE DEF L
  <1>7. LimitTypeOK'
    <2>1. pc' \in [Callers -> {"idle", "expire", "cached", "request", "reply",
                               "got", "refused", "failed"}]
      BY DEF LimitInv, LimitTypeOK, Go
    <2>2. counter'.n <= Len(log)'
      BY <1>1, <1>2, <1>6
    <2>3. now' \in Nat /\ faults' \in [redis : Nat, crash : Nat]
      BY DEF LimitInv, LimitTypeOK
    <2> QED BY <1>2, <1>5, <2>1, <2>2, <2>3, Zenon DEF LimitTypeOK
  <1>8. LogOrdered'
    <2>1. /\ \A i \in 1 .. L : log[i].t <= now
          /\ \A i, j \in 1 .. L : i <= j => log[i].t <= log[j].t
      BY DEF LimitInv, LogOrdered, L
    <2>2. \A i \in 1 .. (L + 1) : i = L + 1 \/ i \in 1 .. L
      BY <1>1
    <2>3. \A i \in 1 .. (L + 1) : log'[i].t <= now
      BY <1>3, <1>4, <1>5, <2>1, <2>2
    <2>4. \A i, j \in 1 .. (L + 1) : i <= j => log'[i].t <= log'[j].t
      <3> TAKE i, j \in 1 .. (L + 1)
      <3> HAVE i <= j
      <3>1. CASE j = L + 1
        BY <1>4, <1>5, <2>3, <3>1
      <3>2. CASE j \in 1 .. L
        BY <1>1, <1>5, <2>1, <3>2
      <3> QED BY <2>2, <3>1, <3>2
    <2> QED BY <1>6, <2>3, <2>4 DEF LogOrdered
  <1>9. FirstPass'
    <2> SUFFICES ASSUME NEW i \in 1 .. (L + 1), i > Old, log'[i].ok
                 PROVE  i <= Old + MaxRequests
      BY <1>6 DEF FirstPass
    <2>1. CASE i = L + 1
      BY <1>1, <1>3, <1>4, <1>5, <2>1
    <2>2. CASE i \in 1 .. L
      BY <1>5, <2>2 DEF LimitInv, FirstPass, L
    <2> QED BY <1>1, <2>1, <2>2
  <1>10. log'[Old + 1].t = IF counter.n > 0 THEN log[Old + 1].t ELSE now
    <2>1. CASE counter.n > 0
      <3>1. Old + 1 \in 1 .. L
        BY <1>1, <2>1
      <3> QED BY <1>5, <2>1, <3>1
    <2>2. CASE counter.n = 0
      <3>1. Old + 1 = L + 1
        BY <1>1, <2>2
      <3> QED BY <1>4, <1>5, <2>2, <3>1
    <2> QED BY <1>1, <2>1, <2>2
  <1>11. Dies'
    BY <1>1, <1>2, <1>6, <1>10 DEF LimitInv, Dies
  <1>12. \A d \in Callers :
           pc'[d] = "expire" <=> pc[d] = "expire" \/ (d = c /\ counter.n = 0)
    BY <1>1, <1>2 DEF LimitInv, LimitTypeOK, Go
  <1>13. Opening'
    <2> SUFFICES ASSUME NEW d \in Callers, pc'[d] = "expire"
                 PROVE  /\ counter'.n > 0 /\ counter'.dies = 0
                        /\ log'[Old + 1].t = now
                        /\ \A x \in Callers : pc'[x] = "expire" => x = d
      BY <1>6 DEF Opening
    <2>1. CASE counter.n = 0
      <3>1. \A x \in Callers : pc[x] # "expire"
        BY <2>1 DEF LimitInv, Opening
      <3>2. counter.dies = 0
        BY <2>1 DEF LimitInv, Dies
      <3> QED BY <1>2, <1>10, <1>12, <2>1, <3>1, <3>2
    <2>2. CASE counter.n > 0
      <3>1. \A x \in Callers : pc'[x] = "expire" => pc[x] = "expire"
        BY <1>12, <2>2
      <3> QED BY <1>1, <1>2, <1>10, <2>2, <3>1 DEF LimitInv, Opening
    <2> QED BY <1>1, <2>1, <2>2
  <1>14. NoTtl'
    <2>1. CASE counter.n = 0
      BY <1>12, <2>1 DEF NoTtl
    <2>2. CASE counter.n > 0
      BY <1>2, <1>12, <2>2 DEF LimitInv, NoTtl
    <2> QED BY <1>1, <2>1, <2>2
  <1>15. Opened' = Opened
    BY <1>1, <1>2, <1>6, <1>10 DEF Opened
  <1>16. Before' = Before
    <2>1. \A i \in 1 .. Old : i \in 1 .. L
      BY <1>1
    <2> QED BY <1>5, <1>6, <1>15, <2>1 DEF Before
  <1>17. ASSUME NEW from \in Nat PROVE Cardinality(Through(from)') <= 2 * MaxRequests
    <2>1. CASE ~(counter.n + 1 <= MaxRequests /\ from <= now /\ now < from + WindowSize)
      <3>1. L + 1 \notin Through(from)'
        BY <1>3, <1>4, <1>5, <2>1, Zenon DEF Through
      <3>2. \A i : i \in 1 .. (L + 1) /\ i # L + 1 => i \in 1 .. L
        BY <1>1
      <3>3. \A i \in 1 .. L : i \in 1 .. (L + 1)
        BY <1>1
      <3>4. Through(from)' = Through(from)
        BY <1>1, <1>5, <3>1, <3>2, <3>3, Zenon DEF Through
      <3> QED BY <3>4, CountedThrough DEF LimitInv
    <2>2. CASE counter.n + 1 <= MaxRequests /\ from <= now /\ now < from + WindowSize
      <3> DEFINE B == (Old + 1) .. (Old + MaxRequests)
      <3>1. IsFiniteSet(B) /\ Cardinality(B) <= MaxRequests
        BY <1>1, AtMostMax, Zenon
      <3>2. IsFiniteSet(Before) /\ Cardinality(Before) <= MaxRequests
        <4>1. IsFiniteSet(1 .. Old)
          <5>1. 1 \in Int /\ Old \in Int
            BY <1>1
          <5> QED BY <5>1, FS_Interval, Zenon
        <4> QED BY <4>1, FS_Subset, Zenon DEF Before, LimitInv
      <3>3. Opened \in Nat /\ Opened <= now
        <4>1. CASE counter.n > 0
          <5>1. Old + 1 \in 1 .. L
            BY <1>1, <4>1
          <5> QED BY <1>1, <4>1, <5>1 DEF Opened, LimitInv, LogOrdered, L
        <4>2. CASE counter.n = 0
          BY <1>3, <4>2 DEF Opened
        <4> QED BY <1>1, <4>1, <4>2
      <3>4. ASSUME NEW i \in Through(from)' PROVE i \in Before \cup B
        <4>1. i \in 1 .. (L + 1) /\ log'[i].t >= from /\ log'[i].ok = TRUE
          BY <1>5, Zenon DEF Through
        <4>2. CASE i \in 1 .. Old
          <5>1. i \in 1 .. L
            BY <1>1, <4>2
          <5>2. log[i].t >= from /\ log[i].ok /\ log[i].t \in Nat
            BY <1>1, <1>5, <4>1, <5>1
          <5>3. log[i].t + WindowSize > Opened
            BY <1>3, <2>2, <3>3, <5>2
          <5> QED BY <4>2, <5>2, <5>3 DEF Before
        <4>3. CASE i \in (Old + 1) .. (L + 1)
          BY <1>1, <1>3, <2>2, <4>3, SMTT(30)
        <4> QED BY <1>1, <4>1, <4>2, <4>3
      <3> HIDE DEF B
      <3> QED BY <3>1, <3>2, <3>4, AtMostTwice
    <2> QED BY <2>1, <2>2
  <1>18. \A from \in Nat : (Counted(from, {TRUE}) <= 2 * MaxRequests)'
    BY <1>17, Zenon DEF Counted, Through
  <1>19. (Cardinality(Before) <= MaxRequests)'
    BY <1>16 DEF LimitInv
  <1> QED
    BY <1>7, <1>8, <1>9, <1>11, <1>13, <1>14, <1>18, <1>19 DEF LimitInv

\* EXPIRE gives the counter the time to live of a whole window.
LEMMA ExpireKeeps ==
    ASSUME LimitInv, NEW c \in Callers, pc[c] = "expire",
           counter' = [counter EXCEPT !.dies = WindowEnd(now)],
           Go(c, IF Over(1) THEN "refused" ELSE "cached"),
           UNCHANGED <<now, log, faults>>
    PROVE  LimitInv'
  <1>1. /\ now \in Nat /\ WindowSize \in Nat /\ WindowSize > 0
        /\ counter \in [n : Nat, dies : Nat]
    BY AuthAssumption DEF LimitInv, LimitTypeOK
  <1>2. /\ counter'.n = counter.n /\ counter'.dies = now + WindowSize
        /\ counter' \in [n : Nat, dies : Nat]
    BY <1>1 DEF WindowEnd
  <1>3. Old' = Old
    BY <1>2 DEF Old
  <1>4. LimitTypeOK'
    <2>1. pc' \in [Callers -> {"idle", "expire", "cached", "request", "reply",
                               "got", "refused", "failed"}]
      BY DEF LimitInv, LimitTypeOK, Go
    <2> QED BY <1>2, <2>1 DEF LimitInv, LimitTypeOK
  <1>5. (LogOrdered /\ FirstPass)'
    BY <1>3 DEF LimitInv, LogOrdered, FirstPass
  <1>6. counter.n > 0 /\ log[Old + 1].t = now
    BY DEF LimitInv, Opening
  <1>7. Dies'
    BY <1>1, <1>2, <1>3, <1>6 DEF Dies
  <1>8. \A d \in Callers : pc'[d] # "expire"
    BY DEF LimitInv, LimitTypeOK, Opening, Go
  <1>9. Opening' /\ NoTtl'
    BY <1>1, <1>2, <1>8 DEF Opening, NoTtl
  <1>10. Before' = Before
    BY <1>2, <1>3 DEF Before, Opened
  <1>11. \A from \in Nat : Counted(from, {TRUE})' = Counted(from, {TRUE})
    BY DEF Counted
  <1> QED BY <1>4, <1>5, <1>7, <1>9, <1>10, <1>11 DEF LimitInv

\* Time passes.  When the counter dies, what its window let through after the
\* moment it was opened is at most the limit, and the entries of earlier windows
\* are as old as that moment.
LEMMA TickKeeps == ASSUME LimitInv, Tick PROVE LimitInv'
  <1>1. /\ now \in Nat /\ WindowSize \in Nat /\ WindowSize > 0 /\ MaxRequests \in Nat
        /\ now' = now + 1 /\ UNCHANGED <<pc, log, faults>>
        /\ \A c \in Callers : pc[c] # "expire"
    BY AuthAssumption DEF LimitInv, LimitTypeOK, Tick
  <1>2. /\ Len(log) \in Nat /\ DOMAIN log = 1 .. Len(log)
        /\ counter.n \in Nat /\ counter.dies \in Nat /\ counter.n <= Len(log)
        /\ Old \in Nat /\ Old + counter.n = Len(log)
        /\ \A i \in 1 .. Len(log) : log[i].t \in Nat /\ log[i].ok \in BOOLEAN
    BY LogTypes DEF LimitInv
  <1>3. LogOrdered'
    BY <1>1, <1>2 DEF LimitInv, LogOrdered
  <1>4. Opening'
    BY <1>1 DEF Opening
  <1>5. \A from \in Nat : Counted(from, {TRUE})' = Counted(from, {TRUE})
    BY <1>1 DEF Counted
  <1>6. CASE counter.dies = now + 1
    <2>1. counter' = [n |-> 0, dies |-> 0]
      BY <1>6 DEF Tick
    <2>2. counter'.n = 0 /\ counter'.dies = 0 /\ counter' \in [n : Nat, dies : Nat]
      BY <2>1
    <2>3. LimitTypeOK'
      BY <1>1, <1>2, <2>2 DEF LimitInv, LimitTypeOK
    <2>4. Old' = Len(log)
      BY <1>1, <1>2, <2>2 DEF Old
    <2>5. FirstPass'
      BY <1>1, <1>2, <2>4 DEF FirstPass
    <2>6. Dies' /\ NoTtl'
      BY <2>2 DEF Dies, NoTtl
    <2>7. counter.n > 0 /\ now + 1 = log[Old + 1].t + WindowSize
      BY <1>1, <1>6 DEF LimitInv, Dies
    <2>8. Old + 1 \in 1 .. Len(log)
      BY <1>2, <2>7
    <2>9. ASSUME NEW i \in Before' PROVE i \in (Old + 1) .. (Old + MaxRequests)
      <3>1. i \in 1 .. Len(log) /\ log[i].ok /\ log[i].t + WindowSize > now + 1
        BY <1>1, <2>2, <2>4 DEF Before, Opened
      <3>2. ~(i <= Old + 1 /\ i <= Old)
        BY <1>1, <1>2, <2>7, <2>8, <3>1 DEF LimitInv, LogOrdered
      <3>3. i > Old
        BY <1>2, <3>1, <3>2
      <3> QED BY <1>1, <1>2, <3>1, <3>3 DEF LimitInv, FirstPass
    <2>10. Cardinality(Before') <= MaxRequests
      BY <1>2, <2>9, AtMostMax
    <2> QED BY <1>3, <1>4, <1>5, <2>3, <2>5, <2>6, <2>10 DEF LimitInv
  <1>7. CASE counter.dies # now + 1
    <2>1. counter' = counter
      BY <1>7 DEF Tick
    <2>2. LimitTypeOK'
      BY <1>1, <1>2, <2>1 DEF LimitInv, LimitTypeOK
    <2>3. Old' = Old
      BY <1>1, <2>1 DEF Old
    <2>4. FirstPass' /\ NoTtl'
      BY <1>1, <2>1, <2>3 DEF LimitInv, FirstPass, NoTtl
    <2>5. Dies'
      BY <1>1, <1>2, <1>7, <2>1, <2>3 DEF LimitInv, Dies
    <2>6. ASSUME NEW i \in Before' PROVE i \in Before
      <3>1. i \in 1 .. Old /\ i \in 1 .. Len(log)
        BY <1>2, <2>3 DEF Before
      <3>2. log[i].ok /\ log[i].t + WindowSize > Opened' /\ log[i].t \in Nat
        BY <1>1, <1>2, <3>1 DEF Before
      <3>3. Opened' = IF counter.n > 0 THEN log[Old + 1].t ELSE now + 1
        BY <1>1, <2>1, <2>3 DEF Opened
      <3>4. log[i].t + WindowSize > Opened
        BY <1>1, <3>2, <3>3 DEF Opened
      <3> QED BY <3>1, <3>2, <3>4 DEF Before
    <2>7. Cardinality(Before') <= MaxRequests
      <3>1. IsFiniteSet(Before) /\ Cardinality(Before) <= MaxRequests
        <4>1. 1 \in Int /\ Old \in Int
          BY <1>2
        <4>2. IsFiniteSet(1 .. Old)
          BY <4>1, FS_Interval, Zenon
        <4> QED BY <4>2, FS_Subset, Zenon DEF Before, LimitInv
      <3>2. IsFiniteSet(Before') /\ Cardinality(Before') <= Cardinality(Before)
        BY <2>6, <3>1, FS_Subset
      <3>3. Cardinality(Before) \in Nat /\ Cardinality(Before') \in Nat
        BY <3>1, <3>2, FS_CardinalityType
      <3> QED BY <1>1, <3>1, <3>2, <3>3
    <2> QED BY <1>3, <1>4, <1>5, <2>2, <2>4, <2>5, <2>7 DEF LimitInv
  <1> QED BY <1>6, <1>7

\* A Redis operation that fails is counted as a fault.
LEMMA FaultCounted ==
    ASSUME LimitInv, RedisFails
    PROVE  faults' \in [redis : Nat, crash : Nat] /\ faults' # NoFaults
  <1>1. faults \in [redis : Nat, crash : Nat] /\ faults.redis \in Nat
    BY DEF LimitInv, LimitTypeOK
  <1>2. faults' = [faults EXCEPT !.redis = faults.redis + 1]
    BY DEF RedisFails
  <1>3. faults'.redis = faults.redis + 1 /\ faults' \in [redis : Nat, crash : Nat]
    BY <1>1, <1>2
  <1>4. NoFaults.redis = 0
    BY DEF NoFaults
  <1> QED BY <1>1, <1>3, <1>4

\* A call that moves between two places other than expire keeps the invariant.
LEMMA ElsewhereKeeps ==
    ASSUME LimitInv, NEW c \in Callers, pc[c] # "expire",
           NEW where \in {"idle", "cached", "request", "reply", "got", "refused",
                          "failed"},
           Go(c, where), UNCHANGED <<now, counter, log>>,
           UNCHANGED faults \/ RedisFails
    PROVE  LimitInv'
  <1>1. /\ pc' \in [Callers -> {"idle", "expire", "cached", "request", "reply",
                                "got", "refused", "failed"}]
        /\ \A d \in Callers : pc'[d] = "expire" <=> pc[d] = "expire"
    BY DEF LimitInv, LimitTypeOK, Go
  <1>2. /\ faults' \in [redis : Nat, crash : Nat]
        /\ faults' = NoFaults => faults = NoFaults
    BY FaultCounted DEF LimitInv, LimitTypeOK
  <1> QED BY <1>1, <1>2, AsideKeeps

\* Every step keeps the invariant of the limit.
LEMMA LimitNext == LimitInv /\ [Next]_vars => LimitInv'
  <1> SUFFICES ASSUME LimitInv, [Next]_vars PROVE LimitInv'
    OBVIOUS
  <1>1. ASSUME NEW c \in Callers, CheckRateLimit(c) PROVE LimitInv'
    <2>1. CASE RedisFails /\ LimitInMemory(c) /\ UNCHANGED <<counter, log>>
      <3>1. PICK w \in {"refused", "cached"} : Go(c, w)
        BY <2>1 DEF LimitInMemory
      <3> QED BY <1>1, <2>1, <3>1, ElsewhereKeeps DEF CheckRateLimit
    <2>2. CASE /\ counter' = [counter EXCEPT !.n = counter.n + 1]
               /\ Logged(~Over(counter'.n))
               /\ Go(c, IF counter'.n = 1 THEN "expire"
                        ELSE IF Over(counter'.n) THEN "refused" ELSE "cached")
               /\ UNCHANGED faults
      BY <1>1, <2>2, CountKeeps DEF CheckRateLimit
    <2> QED BY <1>1, <2>1, <2>2 DEF CheckRateLimit
  <1>2. ASSUME NEW c \in Callers, ExpireCounter(c) PROVE LimitInv'
    <2>1. CASE RedisFails /\ LimitInMemory(c) /\ UNCHANGED counter
      <3>1. PICK w \in {"refused", "cached"} : Go(c, w)
        BY <2>1 DEF LimitInMemory
      <3>2. /\ pc' \in [Callers -> {"idle", "expire", "cached", "request", "reply",
                                    "got", "refused", "failed"}]
            /\ \A d \in Callers : pc'[d] = "expire" => pc[d] = "expire"
        BY <3>1 DEF LimitInv, LimitTypeOK, Go
      <3>3. UNCHANGED <<now, counter, log>>
        BY <1>2, <2>1 DEF ExpireCounter
      <3> QED BY <2>1, <3>2, <3>3, FaultCounted, AsideKeeps
    <2>2. CASE /\ counter' = [counter EXCEPT !.dies = WindowEnd(now)]
               /\ Go(c, IF Over(1) THEN "refused" ELSE "cached")
               /\ UNCHANGED faults
      BY <1>2, <2>2, ExpireKeeps DEF ExpireCounter
    <2> QED BY <1>2, <2>1, <2>2 DEF ExpireCounter
  <1>3. ASSUME NEW c \in Callers, GetCachedToken(c) PROVE LimitInv'
    <2>1. PICK w \in {"got", "request"} : Go(c, w)
      BY <1>3 DEF GetCachedToken, Serve
    <2> QED BY <1>3, <2>1, ElsewhereKeeps DEF GetCachedToken
  <1>4. ASSUME NEW c \in Callers, RequestNewToken(c) PROVE LimitInv'
    <2>1. PICK w \in {"reply", "failed"} : Go(c, w)
      BY <1>4 DEF RequestNewToken
    <2> QED BY <1>4, <2>1, ElsewhereKeeps DEF RequestNewToken
  <1>5. ASSUME NEW c \in Callers, CacheToken(c) PROVE LimitInv'
    BY <1>5, ElsewhereKeeps DEF CacheToken
  <1>6. ASSUME NEW c \in Callers, Return(c) PROVE LimitInv'
    BY <1>6, ElsewhereKeeps DEF Return
  <1>7. CASE ClearTokenCache
    BY <1>7, AsideKeeps DEF ClearTokenCache, LimitInv, LimitTypeOK
  <1>8. CASE Crash
    <2>1. /\ pc' \in [Callers -> {"idle", "expire", "cached", "request", "reply",
                                  "got", "refused", "failed"}]
          /\ \A d \in Callers : pc'[d] # "expire"
          /\ UNCHANGED <<now, counter, log>>
      BY <1>8 DEF Crash
    <2>2. faults' \in [redis : Nat, crash : Nat] /\ faults' # NoFaults
      <3>1. faults \in [redis : Nat, crash : Nat] /\ faults.crash \in Nat
        BY DEF LimitInv, LimitTypeOK
      <3>2. /\ faults'.crash = faults.crash + 1
            /\ faults' \in [redis : Nat, crash : Nat]
        BY <1>8, <3>1 DEF Crash
      <3>3. NoFaults.crash = 0
        BY DEF NoFaults
      <3> QED BY <3>1, <3>2, <3>3
    <2> QED BY <2>1, <2>2, AsideKeeps
  <1>9. CASE Tick
    BY <1>9, TickKeeps
  <1>10. CASE UNCHANGED vars
    BY <1>10, AsideKeeps DEF vars, LimitInv, LimitTypeOK
  <1> QED
    BY <1>1, <1>2, <1>3, <1>4, <1>5, <1>6, <1>7, <1>8, <1>9, <1>10
    DEF Next, Call

-----------------------------------------------------------------------------
\* Over any interval as long as a window, the counter of checkRateLimit lets at
\* most twice the limit through, whatever fails.
THEOREM LimitHolds == Spec => []WindowBound
  <1>1. LimitInv => WindowBound
    <2> SUFFICES ASSUME LimitInv, NEW t \in 1 .. now
                 PROVE  Counted(t, {TRUE}) <= 2 * MaxRequests
      BY DEF WindowBound
    <2>1. t \in Nat
      BY DEF LimitInv, LimitTypeOK
    <2> QED BY <2>1 DEF LimitInv
  <1> QED BY InitLimit, LimitNext, <1>1, PTL DEF Spec

\* The calls of the last window, in the log.
Busy == {i \in DOMAIN log : log[i].t + WindowSize > now}

\* While nothing has failed, a counter above the limit has that many calls of
\* the last window to show.
LEMMA CountedCallsAreRecent ==
    ASSUME LimitInv, faults = NoFaults, Over(counter.n + 1)
    PROVE  Cardinality(Busy) >= MaxRequests
  <1>1. /\ now \in Nat /\ WindowSize \in Nat /\ WindowSize > 0 /\ MaxRequests \in Nat
    BY AuthAssumption DEF LimitInv, LimitTypeOK
  <1>2. /\ Len(log) \in Nat /\ DOMAIN log = 1 .. Len(log)
        /\ counter.n \in Nat /\ counter.dies \in Nat /\ counter.n <= Len(log)
        /\ Old \in Nat /\ Old + counter.n = Len(log)
        /\ \A i \in 1 .. Len(log) : log[i].t \in Nat /\ log[i].ok \in BOOLEAN
    BY LogTypes DEF LimitInv
  <1>3. counter.n >= MaxRequests
    BY <1>1, <1>2 DEF Over
  <1>4. IsFiniteSet(Busy) /\ Cardinality(Busy) \in Nat
    <2>1. 1 \in Int /\ Len(log) \in Int
      BY <1>2
    <2>2. IsFiniteSet(1 .. Len(log))
      BY <2>1, FS_Interval, Zenon
    <2>3. Busy \subseteq 1 .. Len(log)
      BY <1>2 DEF Busy
    <2> QED BY <2>2, <2>3, FS_Subset, FS_CardinalityType, Zenon
  <1>5. CASE counter.n = 0
    BY <1>1, <1>3, <1>4, <1>5
  <1>6. CASE counter.n > 0
    <2>1. log[Old + 1].t + WindowSize > now
      <3>1. CASE counter.dies = 0
        <4>1. PICK c \in Callers : pc[c] = "expire"
          BY <1>6, <3>1 DEF LimitInv, NoTtl
        <4> QED BY <1>1, <4>1 DEF LimitInv, Opening
      <3>2. CASE counter.dies # 0
        BY <3>2 DEF LimitInv, Dies
      <3> QED BY <3>1, <3>2
    <2>2. Old + 1 \in 1 .. Len(log)
      BY <1>2, <1>6
    <2>3. ASSUME NEW i \in (Old + 1) .. Len(log) PROVE i \in Busy
      <3>1. i \in 1 .. Len(log) /\ Old + 1 <= i
        BY <1>2
      <3>2. log[Old + 1].t <= log[i].t
        BY <2>2, <3>1 DEF LimitInv, LogOrdered
      <3>3. log[i].t + WindowSize > now
        BY <1>1, <1>2, <2>1, <2>2, <3>1, <3>2
      <3> QED BY <1>2, <3>1, <3>3 DEF Busy
    <2>4. Cardinality((Old + 1) .. Len(log)) = counter.n
      <3>1. Old + 1 \in Int /\ Len(log) \in Int
        BY <1>2
      <3>2. Cardinality((Old + 1) .. Len(log)) =
              IF Old + 1 > Len(log) THEN 0 ELSE Len(log) - (Old + 1) + 1
        BY <3>1, FS_Interval, Zenon
      <3> QED BY <1>2, <1>6, <3>2
    <2>5. Cardinality((Old + 1) .. Len(log)) <= Cardinality(Busy)
      BY <1>4, <2>3, FS_Subset, Zenon
    <2> QED BY <1>1, <1>2, <1>3, <1>4, <2>4, <2>5
  <1> QED BY <1>2, <1>5, <1>6

\* What a step that refuses a call has to satisfy.
Refuses ==
    \A c \in Callers :
       /\ pc[c] \in {"idle", "expire"} /\ pc'[c] = "refused"
       /\ faults' = NoFaults
       => Cardinality(Busy) >= MaxRequests

\* checkRateLimit refuses a call only when the limit was reached within the last
\* window, as long as Redis did not fail and the process did not die.
THEOREM RefusalsJustified == Spec => RefusedOnlyIfBusy
  <1>1. ASSUME LimitInv, [Next]_vars PROVE [Refuses]_vars
    <2> SUFFICES ASSUME Next, NEW c \in Callers,
                        pc[c] \in {"idle", "expire"}, pc'[c] = "refused",
                        faults' = NoFaults
                 PROVE  Cardinality(Busy) >= MaxRequests
      BY <1>1 DEF Refuses
    <2>1. pc \in [Callers -> {"idle", "expire", "cached", "request", "reply",
                              "got", "refused", "failed"}]
      BY <1>1 DEF LimitInv, LimitTypeOK
    <2>2. ~RedisFails
      BY <1>1, FaultCounted
    <2>3. \A d \in Callers : \A w : Go(d, w) /\ d # c => pc'[c] = pc[c]
      BY <2>1 DEF Go
    <2>4. \A w : Go(c, w) => w = "refused"
      BY <2>1 DEF Go
    <2>5. ASSUME NEW d \in Callers, CheckRateLimit(d)
          PROVE  Cardinality(Busy) >= MaxRequests
      <3>1. /\ counter' = [counter EXCEPT !.n = counter.n + 1]
            /\ Go(d, IF counter'.n = 1 THEN "expire"
                     ELSE IF Over(counter'.n) THEN "refused" ELSE "cached")
            /\ UNCHANGED faults
        BY <2>2, <2>5 DEF CheckRateLimit
      <3>2. d = c
        BY <2>3, <3>1
      <3>3. counter'.n = counter.n + 1
        BY <1>1, <3>1 DEF LimitInv, LimitTypeOK
      <3>4. Over(counter.n + 1)
        BY <2>4, <3>1, <3>2, <3>3
      <3> QED BY <1>1, <3>1, <3>4, CountedCallsAreRecent
    <2>6. ASSUME NEW d \in Callers, ExpireCounter(d)
          PROVE  Cardinality(Busy) >= MaxRequests
      <3>1. Go(d, IF Over(1) THEN "refused" ELSE "cached") /\ UNCHANGED faults
        BY <2>2, <2>6 DEF ExpireCounter
      <3>2. d = c
        BY <2>3, <3>1
      <3>3. Over(1)
        BY <2>4, <3>1, <3>2
      <3>4. counter.n \in Nat /\ MaxRequests \in Nat
        BY <1>1, LogTypes, AuthAssumption DEF LimitInv
      <3>5. Over(counter.n + 1)
        BY <3>3, <3>4 DEF Over
      <3> QED BY <1>1, <3>1, <3>5, CountedCallsAreRecent
    <2>7. ASSUME NEW d \in Callers,
                 \/ GetCachedToken(d) \/ RequestNewToken(d)
                 \/ CacheToken(d) \/ Return(d)
          PROVE  FALSE
      <3>1. PICK w \in {"got", "request", "reply", "failed", "idle"} : Go(d, w)
        BY <2>7 DEF GetCachedToken, Serve, RequestNewToken, CacheToken, Return
      <3> QED BY <2>3, <2>4, <3>1
    <2>8. ~ClearTokenCache /\ ~Crash /\ ~Tick
      BY DEF ClearTokenCache, Crash, Tick
    <2> QED BY <2>5, <2>6, <2>7, <2>8 DEF Next, Call
  <1>2. Spec => [][Refuses]_vars
    BY InitLimit, LimitNext, <1>1, PTL DEF Spec
  <1>3. [][Refuses]_vars => RefusedOnlyIfBusy
    BY Zenon DEF Refuses, RefusedOnlyIfBusy, Busy, NoFaults
  <1> QED BY <1>2, <1>3, PTL
=============================================================================
