---------------------------- MODULE RedisClients ----------------------------
(***************************************************************************)
(* One Redis server and its clients: transactions guarded by WATCH         *)
(* (multi.c), clients blocked on lists (blocked.c, t_list.c), client side  *)
(* caching (tracking.c) and expiring keys (db.c, expire.c).                *)
(*                                                                         *)
(* The server runs one command at a time, so an action is a whole command: *)
(* processCommand with everything call(), handleClientsBlockedOnKeys and   *)
(* afterCommand do.  What can go wrong lies between commands: a key is     *)
(* changed, expires, is flushed or swapped away between a WATCH and its    *)
(* EXEC, while a client waits for it, or (a swap excepted, which the code  *)
(* does not tell the clients of) while a client caches it.  An operator    *)
(* named after a C function maps a world to the world after it.            *)
(*                                                                         *)
(* A key holds a list (the empty list: no such key).  A time to live is    *)
(* "none", "set" or "past"; a key past its time is there until somebody    *)
(* looks it up or the active expire cycle meets it.                        *)
(***************************************************************************)
EXTENDS Integers, Sequences, FiniteSets, SequencesExt, FiniteSetsExt

CONSTANTS
    None,
    Clients,
    Dbs,
    Keys,
    Scenarios   \* what the clients may do in a behaviour, how often, and the settings

VARIABLES
    db,         \* the databases
    server,     \* watched_keys, blocking_keys, ready_keys, the tracking table, the current client
    clients,    \* the connections, and what each client has cached
    budget      \* the scenario: the commands each client may send, and what is left

vars == <<db, server, clients, budget>>

Absent == [val |-> <<>>, ttl |-> "none"]

Exists(e) == e.val # <<>>
keyIsExpired(e) == e.ttl = "past"
Live(e) == Exists(e) /\ ~keyIsExpired(e)

\* What a client can tell about a key.
View(e) == IF Live(e) THEN e ELSE Absent

NewClient ==
    [multi |-> FALSE, queue |-> <<>>, dirtyCas |-> FALSE, dirtyExec |-> FALSE, watch |-> {},
     blocked |-> None, mode |-> "off", noloop |-> FALSE, out |-> <<>>,
     cache |-> [k \in Keys |-> None], got |-> None, exec |-> None, seen |-> {}, moved |-> FALSE,
     swapped |-> {}]

Init ==
    /\ budget \in Scenarios
    /\ db = [d \in Dbs |-> [k \in Keys |-> Absent]]
    /\ server = [watched |-> [d \in Dbs |-> [k \in Keys |-> <<>>]],
                 blocking |-> [d \in Dbs |-> [k \in Keys |-> <<>>]], ready |-> <<>>,
                 table |-> [k \in Keys |-> {}], bcast |-> [k \in Keys |-> None],
                 pending |-> <<>>, current |-> None, executing |-> FALSE, replied |-> TRUE,
                 pushed |-> 0]
    /\ clients = [c \in Clients |-> NewClient]

World == [db |-> db, s |-> server, cl |-> clients]

Become(new) ==
    \E w \in {new} : db' = w.db /\ server' = w.s /\ clients' = w.cl

Spend(what) == budget[what] > 0 /\ budget' = [budget EXCEPT ![what] = @ - 1]

\* The database a client has selected.
Home(c) == budget.home[c]

\* Change the databases.  "moved" is history: a key the client watches is no longer what it
\* was when the client issued WATCH.
Store(w, new) ==
    [w EXCEPT !.db = new,
              !.cl = [c \in Clients |->
                 [@[c] EXCEPT !.moved = @ \/ \E t \in w.cl[c].seen : View(new[t.db][t.key]) # t.was]]]

SetKey(w, d, k, e) == Store(w, [w.db EXCEPT ![d][k] = e])

-----------------------------------------------------------------------------
(* Client side caching *)

IsBcast(w, c) == w.cl[c].mode = "bcast"

sendTrackingMessage(w, c, what) == [w EXCEPT !.cl[c].out = Append(@, what)]

Invalidate(k) == [type |-> "invalidate", key |-> k]
InvalidateAll == [type |-> "invalidate all"]

\* Mutant: the first client that changed the key is remembered.
KeepFirstModifier(w, c, k) ==
    IF w.s.bcast[k] # None THEN w ELSE [w EXCEPT !.s.bcast[k] = [by |-> c]]

\* The client that made the last change is remembered, for NOLOOP.
trackingRememberKeyToBroadcast(w, c, k) == [w EXCEPT !.s.bcast[k] = [by |-> c]]

\* Tell one client of the table; the client whose command is running hears after the reply.
InvalidateFor(w, t, k) ==
    IF w.cl[t].mode # "default" \/ (w.cl[t].noloop /\ t = w.s.current) THEN w
    ELSE IF t = w.s.current /\ w.s.executing THEN [w EXCEPT !.s.pending = Append(@, Invalidate(k))]
    ELSE sendTrackingMessage(w, t, Invalidate(k))

trackingInvalidateKey(w, c, k, bcast) ==
    LET w1 == IF bcast /\ \E t \in Clients : IsBcast(w, t)
              THEN trackingRememberKeyToBroadcast(w, c, k) ELSE w
        w2 == FoldSet(LAMBDA t, v : InvalidateFor(v, t, k), w1, w.s.table[k])
    IN  [w2 EXCEPT !.s.table[k] = {}]

\* Messages for the client whose command ran, once the command is over.
trackingHandlePendingKeyInvalidations(w) ==
    LET all == w.s.pending
    IN  [w EXCEPT !.s.pending = <<>>,
                  !.cl = IF w.s.current = None THEN @ ELSE [@ EXCEPT ![w.s.current].out = @ \o all]]

trackingInvalidateKeysOnFlush(w) ==
    LET tell(v, t) == IF t = v.s.current THEN [v EXCEPT !.s.pending = Append(@, InvalidateAll)]
                      ELSE sendTrackingMessage(v, t, InvalidateAll)
        told == FoldSet(LAMBDA t, v : tell(v, t), w, {t \in Clients : w.cl[t].mode # "off"})
    IN  [told EXCEPT !.s.table = [k \in Keys |-> {}]]

trackingRememberKeys(w, k) ==
    IF w.s.current # None /\ w.cl[w.s.current].mode = "default"
    THEN [w EXCEPT !.s.table[k] = @ \cup {w.s.current}] ELSE w

\* The table has a limit; keys chosen at random are forgotten, and their readers told.
trackingLimitUsedSlots(w, gone) ==
    FoldSet(LAMBDA k, v : trackingInvalidateKey(v, None, k, FALSE), w, gone)

Used(w) == {k \in Keys : w.s.table[k] # {}}

Evictions(w) ==
    IF \/ ~\E c \in Clients : w.cl[c].mode # "off"
       \/ budget.tableMaxKeys = 0
       \/ Cardinality(Used(w)) <= budget.tableMaxKeys
    THEN {{}}
    ELSE kSubset(Cardinality(Used(w)) - budget.tableMaxKeys, Used(w))

-----------------------------------------------------------------------------
(* WATCH *)

IsOn(wk, d, k) == wk.db = d /\ wk.key = k

\* Clients watching a key are told in the order of their WATCHes.  A key that was past its
\* time when it was watched may be deleted: nothing changed.  A client that watched such a
\* key, with a key there now, ends the loop ("break").
Unlinked(w, c) ==
    [w EXCEPT !.cl[c].watch = {},
              !.s.watched = [d \in Dbs |-> [k \in Keys |-> SelectSeq(@[d][k], LAMBDA x : x # c)]]]

TouchWatcher(w, c, d, k) ==
    LET wk == CHOOSE x \in w.cl[c].watch : IsOn(x, d, k)
    IN  IF ~wk.expired THEN Unlinked([w EXCEPT !.cl[c].dirtyCas = TRUE], c)
        ELSE [w EXCEPT !.cl[c].watch = (@ \ {wk}) \cup {[wk EXCEPT !.expired = FALSE]}]

touchWatchedKey(w, d, k) ==
    LET all  == w.s.watched[d][k]
        stop == IF ~Exists(w.db[d][k]) THEN 0
                ELSE SelectInSeq(all, LAMBDA c : \E wk \in w.cl[c].watch : IsOn(wk, d, k) /\ wk.expired)
    IN  FoldLeft(LAMBDA v, c : TouchWatcher(v, c, d, k), w,
                 IF stop = 0 THEN all ELSE SubSeq(all, 1, stop - 1))

\* What a FLUSHDB or SWAPDB means to one watched key; "by" is Absent for a flush.
Replaced(wk, old, by) ==
    IF ~Exists(old) /\ ~Exists(by) THEN [wk |-> wk, dirty |-> FALSE]
    ELSE IF wk.expired /\ ~Exists(by) THEN [wk |-> [wk EXCEPT !.expired = FALSE], dirty |-> FALSE]
    ELSE IF wk.expired /\ keyIsExpired(by) THEN [wk |-> wk, dirty |-> FALSE]
    ELSE IF ~wk.expired /\ ~Exists(old) /\ keyIsExpired(by)
         THEN [wk |-> [wk EXCEPT !.expired = TRUE], dirty |-> FALSE]
    ELSE [wk |-> wk, dirty |-> TRUE]

touchAllWatchedKeysInDb(w, d, emptied, by) ==
    LET after(wk) == IF wk.db = d THEN Replaced(wk, emptied[wk.key], by[wk.key])
                     ELSE [wk |-> wk, dirty |-> FALSE]
        touched(c) == [c EXCEPT !.watch = {after(wk).wk : wk \in @},
                                !.dirtyCas = @ \/ \E wk \in c.watch : after(wk).dirty]
    IN  [w EXCEPT !.cl = [c \in Clients |-> touched(@[c])]]

\* Mutant: a watched key whose time passed, but which nobody deleted, is not a change.
ExpiryIgnored(w, c) == FALSE

isWatchedKeyExpired(w, c) ==
    \E wk \in w.cl[c].watch : ~wk.expired /\ keyIsExpired(w.db[wk.db][wk.key])

watchForKey(w, c, k) ==
    LET d == Home(c)
    IN  IF \E wk \in w.cl[c].watch : IsOn(wk, d, k) THEN w
        ELSE [w EXCEPT !.cl[c].watch = @ \cup {[db |-> d, key |-> k, expired |-> keyIsExpired(w.db[d][k])]},
                       !.s.watched[d][k] = Append(@, c),
                       !.cl[c].seen = @ \cup {[db |-> d, key |-> k, was |-> View(w.db[d][k])]}]

\* UNWATCH, or the end of a transaction: the client's WATCHes are over.
unwatchAllKeys(w, c) ==
    [Unlinked(w, c) EXCEPT !.cl[c].dirtyCas = FALSE, !.cl[c].seen = {}, !.cl[c].moved = FALSE]

-----------------------------------------------------------------------------
(* Keys *)

signalModifiedKey(w, c, d, k) ==
    trackingInvalidateKey(touchWatchedKey(w, d, k), c, k, TRUE)

\* A new key wakes the clients blocked on it; a key is queued once.
signalKeyAsReady(w, d, k) ==
    IF w.s.blocking[d][k] = <<>> \/ Contains(w.s.ready, <<d, k>>) THEN w
    ELSE [w EXCEPT !.s.ready = Append(@, <<d, k>>)]

dbAdd(w, d, k, val) == signalKeyAsReady(SetKey(w, d, k, [val |-> val, ttl |-> "none"]), d, k)

\* A key past its time goes when it is looked up, and the change is nobody's.
expireIfNeeded(w, d, k) ==
    IF ~keyIsExpired(w.db[d][k]) THEN w
    ELSE signalModifiedKey(SetKey(w, d, k, Absent), None, d, k)

lookupKey(w, d, k) == expireIfNeeded(w, d, k)

-----------------------------------------------------------------------------
(* Blocked clients *)

Without(q, c) == SelectSeq(q, LAMBDA x : x # c)

blockForKeys(w, c, cmd) ==
    LET d == Home(c)
    IN  [w EXCEPT !.cl[c].blocked = cmd,
                  !.s.blocking[d] = [k \in Keys |-> IF Contains(cmd.keys, k) THEN Append(@[k], c) ELSE @[k]]]

unblockClient(w, c) ==
    [w EXCEPT !.cl[c].blocked = None,
              !.s.blocking = [d \in Dbs |-> [k \in Keys |-> Without(@[d][k], c)]]]

-----------------------------------------------------------------------------
(* Commands.  A client that caches keeps what it reads; with NOLOOP it forgets by itself what *)
(* it writes.                                                                                 *)

Answer(w, c, what) ==
    IF w.cl[c].mode = "off" THEN w ELSE [w EXCEPT !.cl[c].out = Append(@, what)]

Value(k, val) == [type |-> "value", key |-> k, val |-> val]

Wrote(w, c, k) ==
    signalModifiedKey(IF w.cl[c].noloop THEN Answer(w, c, Invalidate(k)) ELSE w, c, Home(c), k)

pushGenericCommand(w, c, k) ==
    LET d  == Home(c)
        w1 == lookupKey(w, d, k)
        e  == w1.s.pushed + 1
        w2 == IF Exists(w1.db[d][k]) THEN SetKey(w1, d, k, [w1.db[d][k] EXCEPT !.val = Append(@, e)])
              ELSE dbAdd(w1, d, k, <<e>>)
    IN  Wrote([w2 EXCEPT !.s.pushed = e], c, k)

\* Take the head of a list that exists; a list that becomes empty is deleted.
listElementsRemoved(w, c, k) ==
    LET d == Home(c)
        e == w.db[d][k]
    IN  Wrote(SetKey(w, d, k, IF Len(e.val) = 1 THEN Absent ELSE [e EXCEPT !.val = Tail(@)]), c, k)

Got(w, c, k) == [w EXCEPT !.cl[c].got = [key |-> k, elem |-> Head(w.db[Home(c)][k].val)]]

\* inExec: CLIENT_DENY_BLOCKING, the command answers nil instead of waiting.
blockingPopGenericCommand(w, c, cmd, inExec) ==
    LET d  == Home(c)
        i  == SelectInSeq(cmd.keys, LAMBDA k : Live(w.db[d][k]))
        w1 == FoldLeft(LAMBDA v, k : lookupKey(v, d, k), w,
                       IF i = 0 THEN cmd.keys ELSE SubSeq(cmd.keys, 1, i))
    IN  IF i # 0 THEN listElementsRemoved(Got(w1, c, cmd.keys[i]), c, cmd.keys[i])
        ELSE IF inExec THEN w1
        ELSE blockForKeys(w1, c, cmd)

lmoveHandlePush(w, c, k, e) ==
    LET d  == Home(c)
        w1 == IF Exists(w.db[d][k]) THEN SetKey(w, d, k, [w.db[d][k] EXCEPT !.val = Append(@, e)])
              ELSE dbAdd(w, d, k, <<e>>)
    IN  Wrote(w1, c, k)

blmoveGenericCommand(w, c, cmd, inExec) ==
    LET d  == Home(c)
        k  == cmd.keys[1]
        w1 == lookupKey(w, d, k)
        w2 == Got(lookupKey(w1, d, cmd.dst), c, k)
    IN  IF Exists(w1.db[d][k])
        THEN listElementsRemoved(lmoveHandlePush(w2, c, cmd.dst, w2.cl[c].got.elem), c, k)
        ELSE IF inExec THEN w1
        ELSE blockForKeys(w1, c, cmd)

\* LRANGE key 0 -1, after which a SWAPDB of before is no matter; call() then enters the key in the tracking table.
lrangeCommand(w, c, k) ==
    LET w1 == lookupKey(w, Home(c), k)
        w2 == [Answer(w1, c, Value(k, w1.db[Home(c)][k].val)) EXCEPT !.cl[c].swapped = @ \ {k}]
    IN  trackingRememberKeys(w2, k)

delGenericCommand(w, c, k) ==
    LET w1 == expireIfNeeded(w, Home(c), k)
    IN  IF Exists(w1.db[Home(c)][k]) THEN Wrote(SetKey(w1, Home(c), k, Absent), c, k) ELSE w1

\* With a time to come; with a time in the past the command is a DEL.
expireGenericCommand(w, c, k) ==
    LET w1 == lookupKey(w, Home(c), k)
    IN  IF Exists(w1.db[Home(c)][k])
        THEN Wrote(SetKey(w1, Home(c), k, [w1.db[Home(c)][k] EXCEPT !.ttl = "set"]), c, k) ELSE w1

Empty == [k \in Keys |-> Absent]

signalFlushedDb(w, d) ==
    trackingInvalidateKeysOnFlush(touchAllWatchedKeysInDb(w, d, w.db[d], Empty))

flushdbCommand(w, c) ==
    LET d == Home(c) IN Store(signalFlushedDb(w, d), [w.db EXCEPT ![d] = Empty])

\* Mutant: blocked clients are not looked for after a swap.
NoScan(w, d) == w

\* After a swap a key may exist where clients wait for it.
scanDatabaseForReadyKeys(w, d) ==
    FoldSet(LAMBDA k, v : IF Exists(v.db[d][k]) THEN signalKeyAsReady(v, d, k) ELSE v, w, Keys)

\* No invalidation message is sent; "swapped" is history: a client's keys that another
\* database may have replaced since it last read them.
swapdbCommand(w, d1, d2) ==
    LET w1 == touchAllWatchedKeysInDb(w, d1, w.db[d1], w.db[d2])
        w2 == touchAllWatchedKeysInDb(w1, d2, w.db[d2], w.db[d1])
        w3 == Store(w2, [w2.db EXCEPT ![d1] = w2.db[d2], ![d2] = w2.db[d1]])
        w4 == [w3 EXCEPT !.cl = [c \in Clients |->
                 IF Home(c) \in {d1, d2} THEN [@[c] EXCEPT !.swapped = Keys] ELSE @[c]]]
    IN  scanDatabaseForReadyKeys(scanDatabaseForReadyKeys(w4, d1), d2)

\* A command that is not about connections or transactions.
Perform(w, c, cmd, inExec) ==
    CASE cmd.op = "rpush"  -> pushGenericCommand(w, c, cmd.keys[1])
      [] cmd.op = "blpop"  -> blockingPopGenericCommand(w, c, cmd, inExec)
      [] cmd.op = "blmove" -> blmoveGenericCommand(w, c, cmd, inExec)
      [] cmd.op = "lrange" -> lrangeCommand(w, c, cmd.keys[1])
      [] cmd.op = "del"    -> delGenericCommand(w, c, cmd.keys[1])
      [] cmd.op = "expire" -> expireGenericCommand(w, c, cmd.keys[1])
      [] cmd.op = "flushdb" -> flushdbCommand(w, c)
      [] cmd.op = "swapdb" -> swapdbCommand(w, Home(c), cmd.dst)

afterCommand(w) == trackingHandlePendingKeyInvalidations([w EXCEPT !.s.executing = FALSE])

\* The command the client is blocked in runs again, as the client's own command.
unblockClientOnKey(w, c) ==
    LET cmd == w.cl[c].blocked
        w1  == [unblockClient(w, c) EXCEPT !.s.current = c, !.s.executing = TRUE]
    IN  [afterCommand(Perform(w1, c, cmd, FALSE)) EXCEPT !.s.current = w.s.current]

\* Serve the clients blocked on a key, first come first served, as long as the key is there.
handleClientsBlockedOnKey(w, d, k) ==
    FoldLeft(LAMBDA v, c : IF Live(v.db[d][k]) THEN unblockClientOnKey(v, c) ELSE v,
             w, w.s.blocking[d][k])

RECURSIVE handleClientsBlockedOnKeys(_)
handleClientsBlockedOnKeys(w) ==
    IF w.s.ready = <<>> THEN w
    ELSE LET rl == Head(w.s.ready)
         IN  handleClientsBlockedOnKeys(
                 handleClientsBlockedOnKey([w EXCEPT !.s.ready = Tail(@)], rl[1], rl[2]))

-----------------------------------------------------------------------------
(* Transactions *)

Queued == {"rpush", "blpop", "blmove", "lrange", "del", "expire", "flushdb", "swapdb"}

discardTransaction(w, c) ==
    [unwatchAllKeys(w, c) EXCEPT !.cl[c].multi = FALSE, !.cl[c].queue = <<>>, !.cl[c].dirtyExec = FALSE]

queueMultiCommand(w, c, cmd) ==
    IF w.cl[c].dirtyCas \/ w.cl[c].dirtyExec THEN w
    ELSE [w EXCEPT !.cl[c].queue = Append(@, cmd)]

execCommand(w, c) ==
    LET cas  == w.cl[c].dirtyCas \/ isWatchedKeyExpired(w, c)
        ran  == FoldLeft(LAMBDA v, cmd : Perform(v, c, cmd, TRUE), unwatchAllKeys(w, c), w.cl[c].queue)
        done == IF w.cl[c].dirtyExec \/ cas THEN w ELSE ran
    IN  [discardTransaction(done, c) EXCEPT
           !.cl[c].exec = IF w.cl[c].dirtyExec THEN "aborted" ELSE IF cas THEN "nil" ELSE "ran"]

-----------------------------------------------------------------------------
(* Actions *)

\* The tracking table is brought below its limit before the command of c runs.
BeforeCommand(w, c, gone) ==
    [trackingLimitUsedSlots([w EXCEPT !.s.current = c, !.s.replied = FALSE], gone)
       EXCEPT !.s.executing = TRUE]

\* processCommand: a client that is not blocked sends a command, which runs to its end.
processCommand(c, Handler(_)) ==
    /\ clients[c].blocked = None
    /\ Spend("commands")
    /\ \E gone \in Evictions(World) :
         LET done == afterCommand(Handler(BeforeCommand(World, c, gone)))
         IN  Become([handleClientsBlockedOnKeys(done) EXCEPT !.s.current = None])

May(c, op) == \E cmd \in budget.ask[c] : cmd.op = op

Command(c) ==
    \E cmd \in budget.ask[c] :
        /\ cmd.op \in Queued
        /\ LET queue(w) == queueMultiCommand(w, c, cmd)
               run(w)   == Perform(w, c, cmd, FALSE)
           IN  processCommand(c, LAMBDA w : IF clients[c].multi THEN queue(w) ELSE run(w))

watchCommand(c) ==
    \E cmd \in budget.ask[c] :
        /\ cmd.op = "watch"
        /\ ~clients[c].multi
        /\ processCommand(c, LAMBDA w : IF w.cl[c].dirtyCas THEN w ELSE watchForKey(w, c, cmd.keys[1]))

unwatchCommand(c) ==
    /\ May(c, "unwatch")
    /\ ~clients[c].multi
    /\ processCommand(c, LAMBDA w : unwatchAllKeys(w, c))

multiCommand(c) ==
    /\ May(c, "multi")
    /\ ~clients[c].multi
    /\ processCommand(c, LAMBDA w : [w EXCEPT !.cl[c].multi = TRUE, !.cl[c].exec = None])

\* rejectCommand inside MULTI: an unknown command, a wrong arity, no memory...
flagTransaction(c) ==
    /\ May(c, "error")
    /\ clients[c].multi
    /\ processCommand(c, LAMBDA w : [w EXCEPT !.cl[c].dirtyExec = TRUE])

Exec(c) ==
    /\ clients[c].multi
    /\ processCommand(c, LAMBDA w : execCommand(w, c))

discardCommand(c) ==
    /\ May(c, "discard")
    /\ clients[c].multi
    /\ processCommand(c, LAMBDA w : discardTransaction(w, c))

\* CLIENT TRACKING ON: the client starts with nothing cached.
enableTracking(c) ==
    \E cmd \in budget.ask[c] :
        /\ cmd.op = "track"
        /\ clients[c].mode = "off"
        /\ ~clients[c].multi
        /\ processCommand(c, LAMBDA w :
              [w EXCEPT !.cl[c].mode = cmd.mode, !.cl[c].noloop = cmd.noloop,
                        !.cl[c].out = Append(@, InvalidateAll)])

\* The last client in BCAST mode takes the keys to broadcast with it.
TrackingOff(w, c) ==
    [w EXCEPT !.cl[c].mode = "off", !.cl[c].noloop = FALSE,
              !.cl[c].out = Append(@, InvalidateAll),
              !.s.bcast = IF \E t \in Clients \ {c} : IsBcast(w, t) THEN @ ELSE [k \in Keys |-> None]]

disableTracking(c) ==
    /\ May(c, "untrack")
    /\ clients[c].mode # "off"
    /\ ~clients[c].multi
    /\ processCommand(c, LAMBDA w : TrackingOff(w, c))

\* Before the event loop waits: keys are broadcast, then replies are written.
trackingBroadcastInvalidationMessages(w) ==
    LET told(c) == {k \in Keys : /\ w.s.bcast[k] # None
                                 /\ ~(w.cl[c].noloop /\ w.s.bcast[k].by = c)}
        all(c)  == IF IsBcast(w, c) THEN SetToSeq({Invalidate(k) : k \in told(c)}) ELSE <<>>
    IN  [w EXCEPT !.cl = [c \in Clients |-> [@[c] EXCEPT !.out = @ \o all(c)]],
                  !.s.bcast = [k \in Keys |-> None]]

beforeSleep ==
    /\ ~server.replied
    /\ Become([trackingBroadcastInvalidationMessages(World) EXCEPT !.s.replied = TRUE])
    /\ UNCHANGED budget

\* The client's cache after a message.
Heard(cache, m) ==
    CASE m.type = "value" -> [cache EXCEPT ![m.key] = m.val]
      [] m.type = "invalidate" -> [cache EXCEPT ![m.key] = None]
      [] m.type = "invalidate all" -> [k \in Keys |-> None]

Drained(c) == FoldLeft(Heard, c.cache, c.out)

\* The client reads what the server wrote.
Receive(c) ==
    /\ server.replied
    /\ clients[c].out # <<>>
    /\ clients' = [clients EXCEPT ![c].cache = Drained(clients[c]), ![c].out = <<>>]
    /\ UNCHANGED <<db, server, budget>>

\* handleBlockedClientsTimeout
BlockedTimeout(c) ==
    /\ clients[c].blocked # None
    /\ Spend("timeouts")
    /\ Become(unblockClient(World, c))

\* A connection ends; a new one, with a new id, takes its place.
freeClient(c) ==
    /\ Spend("disconnects")
    /\ LET w == unblockClient(Unlinked(TrackingOff(World, c), c), c)
       IN  Become([w EXCEPT !.cl[c] = NewClient,
                            !.s.table = [k \in Keys |-> @[k] \ {c}]])

\* A key's time is over.
Clock ==
    \E d \in Dbs, k \in Keys :
        /\ db[d][k].ttl = "set"
        /\ Become(SetKey(World, d, k, [db[d][k] EXCEPT !.ttl = "past"]))
        /\ UNCHANGED budget

activeExpireCycle ==
    \E d \in Dbs, k \in Keys :
        /\ keyIsExpired(db[d][k])
        /\ Become([expireIfNeeded(World, d, k) EXCEPT !.s.replied = FALSE])
        /\ UNCHANGED budget

Next ==
    \/ \E c \in Clients :
        \/ Command(c)
        \/ watchCommand(c)
        \/ unwatchCommand(c)
        \/ multiCommand(c)
        \/ flagTransaction(c)
        \/ Exec(c)
        \/ discardCommand(c)
        \/ enableTracking(c)
        \/ disableTracking(c)
        \/ Receive(c)
        \/ BlockedTimeout(c)
        \/ freeClient(c)
    \/ beforeSleep
    \/ Clock
    \/ activeExpireCycle

Spec == Init /\ [][Next]_vars

-----------------------------------------------------------------------------
(* Properties *)

Entry == [val : Seq(Nat), ttl : {"none", "set", "past"}]

\* Every structure names clients, databases and keys that exist; between commands no key is
\* ready, no message is pending and nobody is the current client; a client waits in the list
\* of each key of the command it is blocked in, and in no other.
TypeOK ==
    /\ db \in [Dbs -> [Keys -> Entry]]
    /\ \A d \in Dbs, k \in Keys : ~Exists(db[d][k]) => db[d][k] = Absent
    /\ server.ready = <<>> /\ server.pending = <<>> /\ server.current = None /\ ~server.executing
    /\ server.table \in [Keys -> SUBSET Clients]
    /\ \A d \in Dbs, k \in Keys, c \in Clients :
         Len(SelectSeq(server.blocking[d][k], LAMBDA x : x = c)) =
             (IF clients[c].blocked # None /\ Home(c) = d /\ Contains(clients[c].blocked.keys, k) THEN 1 ELSE 0)
    /\ \A d \in Dbs, k \in Keys :
         ToSet(server.watched[d][k]) = {c \in Clients : \E wk \in clients[c].watch : IsOn(wk, d, k)}
    /\ \A c \in Clients :
         /\ \A wk \in clients[c].watch : wk.expired /\ ~clients[c].dirtyCas => keyIsExpired(db[wk.db][wk.key])
         /\ ~clients[c].multi => clients[c].queue = <<>> /\ ~clients[c].dirtyExec

\* An EXEC runs its commands only if no watched key changed since it was watched: not by a
\* write of any client, by a client served from a blocking list, by its time passing, by
\* FLUSHDB, and not by SWAPDB putting another key, or none, in its place (execCommand,
\* touchWatchedKey, touchAllWatchedKeysInDb, isWatchedKeyExpired).  And it is given up only
\* for a change of a key that existed: not because a key already past its time when it was
\* watched is deleted, flushed, or swapped for another such key or for none (the "logically no
\* change" cases of the same functions).
WatchExact ==
    [][\A c \in Clients :
         clients'[c].exec # clients[c].exec =>
            /\ clients'[c].exec = "ran" => ~clients[c].moved
            /\ clients'[c].exec = "nil" =>
                 clients[c].moved \/ \E t \in clients[c].seen : t.was # Absent]_vars

\* No lost wake-up: when a command is over, nobody is still blocked on a list that has
\* elements, whether it was pushed, filled by another client's BLMOVE, by a transaction, or
\* swapped in (signalKeyAsReady, scanDatabaseForReadyKeys, handleClientsBlockedOnKeys).
NoLostWakeup ==
    \A c \in Clients :
        clients[c].blocked # None =>
            \A i \in DOMAIN clients[c].blocked.keys : ~Live(db[Home(c)][clients[c].blocked.keys[i]])

\* A client that caches what it reads, and obeys the messages, holds no stale value once it
\* has read what the server sent it: every value it would still hold is the stored one, or
\* its invalidation is about to be broadcast (trackingInvalidateKey and its callers).  A
\* value read before a SWAPDB of the client's database is excepted until the client reads
\* the key again: dbSwapDatabases invalidates nothing.
CacheCoherent ==
    \A c \in Clients :
        clients[c].mode # "off" =>
            LET cache == Drained(clients[c])
            IN  \A k \in Keys :
                  \/ cache[k] \in {None, db[Home(c)][k].val}
                  \/ k \in clients[c].swapped
                  \/ /\ IsBcast(World, c)
                     /\ server.bcast[k] # None
                     /\ ~(clients[c].noloop /\ server.bcast[k].by = c)
=============================================================================
