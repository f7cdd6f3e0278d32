----------------------------- MODULE SyncSession -----------------------------
(***************************************************************************)
(* One attempt of SyncProcessor.handleSync as the browser sees it: the     *)
(* user's books are scraped page by page and one by one from Douban, whose *)
(* list the user may change meanwhile; every stage is reported with        *)
(* updateSyncProgress (a write and a read of the task's row, then a        *)
(* message to the rooms of the gateway); the engine reports too, but       *)
(* nobody waits for those reports.                                         *)
(*                                                                         *)
(* Every await of the code is a place where the other jobs, the sockets,   *)
(* Douban and the unawaited reports may step.                              *)
(***************************************************************************)
EXTENDS Naturals, Sequences, FiniteSets, Functions

CONSTANTS
    Users,       \* each with one task, so that the user also names the task
    Sockets,
    UserOf,      \* the user a socket's token names
    Unreadable,  \* books whose list entry parseListPage skips
    PageSize,    \* 30
    MaxRetries,  \* 3
    Scenarios    \* what may happen in a behaviour, see MCSyncSession

ASSUME SessionAssumption ==
    /\ UserOf \in [Sockets -> Users]
    /\ PageSize \in Nat \ {0}
    /\ MaxRetries \in Nat \ {0}

VARIABLES
    lists,            \* Douban: the books of each user, newest first
    jobs,             \* the local variables of each handleSync
    late,             \* unawaited updateProgress calls under way
    rooms,            \* of each socket; {} once it is gone
    inbox,            \* the sync-progress events each socket received of each task
    scene             \* the scenario, with what is left of its budgets

vars == <<lists, jobs, late, rooms, inbox, scene>>

Categories == <<"books", "movies", "tv">>
Kinds == {"validate", "page", "detail"}
NewJob ==
    [pc |-> "queued", next |-> "queued", sent |-> 0, final |-> "no", category |-> 1,
     kind |-> "validate", attempt |-> 1, start |-> 0, items |-> <<>>, books |-> <<>>,
     failed |-> {}, cut |-> FALSE, data |-> <<>>, lost |-> FALSE,
     base |-> <<>>, shifts |-> 0]
\* base and shifts are history: the list when its first page was asked for, and
\* how often it changed before the last page came. lost: the final report was lost.

NoEvents == [u \in Users |-> <<>>]

Has(what) == scene[what] > 0
Spend(what) == Has(what) /\ scene' = [scene EXCEPT ![what] = @ - 1]

(***************************************************************************)
(* updateSyncProgress: the row is written, its user read back, the rooms   *)
(* told. A database error at either await is logged and nothing is sent;   *)
(* the caller goes on in any case.                                         *)
(***************************************************************************)
Report(j, next) == [j EXCEPT !.pc = "write", !.next = next, !.sent = @ + 1]

\* Mutant: the copy for the task's room goes to the user's room.
EmitTwice(u, event) ==
    inbox' = [s \in Sockets |->
                IF <<"user", u>> \in rooms[s]
                THEN [inbox[s] EXCEPT ![u] = @ \o <<event, event>>] ELSE inbox[s]]

\* notifyProgress: one emit to the user's room, one to the task's.
notifyProgress(u, event) ==
    inbox' = [s \in Sockets |->
                [inbox[s] EXCEPT ![u] =
                   @ \o (IF <<"user", u>> \in rooms[s]
                         THEN <<[event EXCEPT !.room = "user"]>> ELSE <<>>)
                     \o (IF <<"sync", u>> \in rooms[s]
                         THEN <<[event EXCEPT !.room = "sync"]>> ELSE <<>>)]]

Event(n, type) == [n |-> n, type |-> type, room |-> "user"]

Unheard(j) == [j EXCEPT !.pc = j.next, !.lost = j.final # "no"]

updateSyncProgressWrites(u) ==
    /\ jobs[u].pc = "write"
    /\ \/ /\ jobs' = [jobs EXCEPT ![u].pc = "read"]
          /\ UNCHANGED scene
       \/ /\ Spend("dbErrors")
          /\ jobs' = [jobs EXCEPT ![u] = Unheard(@)]
    /\ UNCHANGED <<lists, late, rooms, inbox>>

updateSyncProgressNotifies(u) ==
    /\ jobs[u].pc = "read"
    /\ \/ /\ jobs' = [jobs EXCEPT ![u].pc = jobs[u].next]
          /\ notifyProgress(u, Event(jobs[u].sent,
                                  IF jobs[u].final = "no" THEN "step" ELSE jobs[u].final))
          /\ UNCHANGED scene
       \/ /\ Spend("dbErrors")
          /\ jobs' = [jobs EXCEPT ![u] = Unheard(@)]
          /\ UNCHANGED inbox
    /\ UNCHANGED <<lists, late, rooms>>

(***************************************************************************)
(* handleSync up to the first request.                                     *)
(***************************************************************************)
\* Mutant: the catch block does not report.
FailSilently(j) == [j EXCEPT !.pc = "over", !.final = "FAILED"]

Fail(j) == Report([j EXCEPT !.final = "FAILED"], "over")

Advance(u, j) ==
    /\ jobs' = [jobs EXCEPT ![u] = j]
    /\ UNCHANGED <<lists, late, rooms, inbox>>

handleSync(u) ==
    /\ jobs[u].pc = "queued" /\ u \in scene.active
    /\ Advance(u, Report(jobs[u], "starting"))
    /\ UNCHANGED scene

FetchingCredentials(u) ==
    /\ jobs[u].pc = "starting"
    /\ Advance(u, Report(jobs[u], "credentials"))
    /\ UNCHANGED scene

\* The read of the credentials; it throws when they are missing or do not decrypt.
getUserCredentials(u) ==
    /\ jobs[u].pc = "credentials"
    /\ \/ /\ Advance(u, Report(jobs[u], "category"))
          /\ UNCHANGED scene
       \/ /\ Spend("broken")
          /\ Advance(u, Fail(jobs[u]))

\* The head of fetchDoubanData's loop.
NextCategory(u) ==
    /\ jobs[u].pc = "category"
    /\ Advance(u, IF jobs[u].category <= Len(Categories)
                  THEN Report(jobs[u], "fetchUserData")
                  ELSE Report(jobs[u], "configuration"))
    /\ UNCHANGED scene

SkipCategory(j) == [j EXCEPT !.pc = "category", !.category = @ + 1]
Ask(j, kind) == [j EXCEPT !.pc = "request", !.kind = kind, !.attempt = 1]

\* A task without a cookie skips every category.
fetchUserData(u) ==
    /\ jobs[u].pc = "fetchUserData"
    /\ Advance(u, IF scene.cookie THEN Ask(jobs[u], "validate") ELSE SkipCategory(jobs[u]))
    /\ UNCHANGED scene

(***************************************************************************)
(* fetchUserBooks. items are the list entries so far, books the details    *)
(* fetched; the detail asked for next is that of items[i], i being the     *)
(* number of details that came or failed.                                  *)
(***************************************************************************)
Done(j) == Len(j.books) + Cardinality(j.failed)

\* The loop over the details, or its end: the scraped books are the data, and
\* the report that says so is awaited before the next category.
Details(j) ==
    IF Done(j) < Len(j.items)
    THEN Ask(j, "detail")
    ELSE Report([j EXCEPT !.data = j.books, !.category = @ + 1], "category")

\* The loop over the pages ends here: slice(0, limit).
EndOfList(j) ==
    Details([j EXCEPT !.items = SubSeq(@, 1, IF Len(@) < scene.limit THEN Len(@) ELSE scene.limit)])

pageAt(list, start) == SubSeq(list, start + 1,
                              IF start + PageSize < Len(list) THEN start + PageSize ELSE Len(list))
parseListPage(list, start) == SelectSeq(pageAt(list, start), LAMBDA b : b \notin Unreadable)

\* Mutant: the next page is asked for from one entry too far.
SkipOne(j, list) ==
    LET page == parseListPage(list, j.start)
        read == [j EXCEPT !.items = @ \o page, !.start = @ + PageSize + 1]
    IN IF page = <<>> \/ Len(page) < PageSize \/ Len(read.items) >= scene.limit
       THEN EndOfList(read)
       ELSE Ask(read, "page")

fetchBookList(j, list) ==
    LET page == parseListPage(list, j.start)
        read == [j EXCEPT !.items = @ \o page, !.start = @ + PageSize]
    IN IF page = <<>> THEN EndOfList(j)
       ELSE IF Len(page) < PageSize \/ Len(read.items) >= scene.limit
       THEN EndOfList(read)
       ELSE Ask(read, "page")

Answered(u, j) ==
    CASE j.kind = "validate" ->
           IF Categories[j.category] = "books"
           THEN Ask([j EXCEPT !.base = lists[u]], "page")
           ELSE SkipCategory(j)                          \* "not implemented yet"
      [] j.kind = "page" -> fetchBookList(j, lists[u])
      [] j.kind = "detail" -> Details([j EXCEPT !.books = Append(@, j.items[Done(j) + 1])])

\* What the caller of makeRequest does with the exception.
Refused(j) ==
    CASE j.kind = "validate" -> SkipCategory(j)
      [] j.kind = "page" -> EndOfList([j EXCEPT !.cut = TRUE])
      [] j.kind = "detail" -> Details([j EXCEPT !.failed = @ \cup {Done(j) + 1}])

(***************************************************************************)
(* makeRequest, one attempt: an answer; a failure that is retried unless   *)
(* it was the last attempt; or a 403 or a page that asks for a human,      *)
(* which is not retried. A page that asks for a login is an answer to      *)
(* makeRequest; validateCookie finds the cookie invalid then, and the list *)
(* has no entries and ends, both as if the request had been refused.       *)
(***************************************************************************)
makeRequest(u) ==
    /\ jobs[u].pc = "request"
    /\ \/ /\ Advance(u, Answered(u, jobs[u]))
          /\ UNCHANGED scene
       \/ /\ Spend("failures")
          /\ Advance(u, IF jobs[u].attempt < MaxRetries
                        THEN [jobs[u] EXCEPT !.attempt = @ + 1]
                        ELSE Refused(jobs[u]))
       \/ /\ Spend("bans")
          /\ Advance(u, Refused(jobs[u]))

(***************************************************************************)
(* syncToFeishu. The engine itself is module SyncEngine; here it reports   *)
(* some progress and ends.                                                 *)
(***************************************************************************)
syncToFeishu(u) ==
    /\ jobs[u].pc = "configuration"
    /\ \/ /\ Advance(u, Report(jobs[u], "engine"))
          /\ UNCHANGED scene
       \/ /\ Spend("broken")                           \* no configuration or no table
          /\ Advance(u, Fail(jobs[u]))

\* onProgress: `void this.updateProgress(...)'.
onProgress(u) ==
    /\ jobs[u].pc = "engine"
    /\ Spend("reports")
    /\ jobs' = [jobs EXCEPT ![u].sent = @ + 1]
    /\ late' = late \cup {[task |-> u, n |-> jobs[u].sent + 1, step |-> "write"]}
    /\ UNCHANGED <<lists, rooms, inbox>>

EngineReturns(u) ==
    /\ jobs[u].pc = "engine"
    /\ \/ /\ Advance(u, Report([jobs[u] EXCEPT !.final = "SUCCESS"], "over"))
          /\ UNCHANGED scene
       \/ /\ Spend("broken")
          /\ Advance(u, Fail(jobs[u]))

LateReport(r) ==
    /\ \/ /\ r.step = "write"
          /\ late' = (late \ {r}) \cup {[r EXCEPT !.step = "read"]}
          /\ UNCHANGED <<inbox, scene>>
       \/ /\ r.step = "read"
          /\ late' = late \ {r}
          /\ notifyProgress(r.task, Event(r.n, "late"))
          /\ UNCHANGED scene
       \/ /\ Spend("dbErrors")
          /\ late' = late \ {r}
          /\ UNCHANGED inbox
    /\ UNCHANGED <<lists, jobs, rooms>>

(***************************************************************************)
(* The gateway. join with the in-process adapter completes at once, so     *)
(* handleConnection is one step; a socket without a user is disconnected.  *)
(* A client names the syncs it wants to hear of, and nothing asks whose    *)
(* they are.                                                               *)
(***************************************************************************)
handleConnection(s) ==
    /\ rooms[s] = {} /\ inbox[s] = NoEvents /\ Spend("connects")
    /\ \/ rooms' = [rooms EXCEPT ![s] = {<<"user", UserOf[s]>>}]
       \/ UNCHANGED rooms                              \* rejected
    /\ UNCHANGED <<lists, jobs, late, inbox>>

handleDisconnect(s) ==
    /\ rooms[s] # {} /\ Spend("disconnects")
    /\ rooms' = [rooms EXCEPT ![s] = {}]
    /\ UNCHANGED <<lists, jobs, late, inbox>>

handleSubscribeSync(s) ==
    /\ rooms[s] # {} /\ Spend("subscribes")
    /\ \E syncIds \in SUBSET Users : rooms' = [rooms EXCEPT ![s] = @ \cup ({"sync"} \X syncIds)]
    /\ UNCHANGED <<lists, jobs, late, inbox>>

handleUnsubscribeSync(s) ==
    /\ rooms[s] # {} /\ Spend("unsubscribes")
    /\ \E syncIds \in SUBSET Users : rooms' = [rooms EXCEPT ![s] = @ \ ({"sync"} \X syncIds)]
    /\ UNCHANGED <<lists, jobs, late, inbox>>

(***************************************************************************)
(* Douban: the user marks a book, which puts it first in the list, or      *)
(* takes its mark away. Only a change between two pages is a step here: an *)
(* earlier one is another initial list, and a later one nobody reads.      *)
(***************************************************************************)
Paging(j) == j.pc = "request" /\ j.kind = "page"

ChangeList(u, list) ==
    /\ Paging(jobs[u]) /\ lists[u] # list /\ Spend("changes")
    /\ lists' = [lists EXCEPT ![u] = list]
    /\ jobs' = [jobs EXCEPT ![u].shifts = @ + 1]
    /\ UNCHANGED <<late, rooms, inbox>>

Without(list, b) == SelectSeq(list, LAMBDA c : c # b)
MarkBook(u, b) == ChangeList(u, <<b>> \o Without(lists[u], b))
UnmarkBook(u, b) == ChangeList(u, Without(lists[u], b))

-----------------------------------------------------------------------------
Init ==
    /\ scene \in Scenarios
    /\ lists = scene.lists
    /\ jobs = [u \in Users |-> NewJob]
    /\ late = {}
    /\ rooms = [s \in Sockets |-> IF s \in scene.online THEN {<<"user", UserOf[s]>>} ELSE {}]
    /\ inbox = [s \in Sockets |-> NoEvents]

Process(u) ==
    \/ handleSync(u) \/ FetchingCredentials(u) \/ getUserCredentials(u) \/ NextCategory(u)
    \/ fetchUserData(u) \/ makeRequest(u) \/ syncToFeishu(u) \/ EngineReturns(u)
    \/ updateSyncProgressWrites(u) \/ updateSyncProgressNotifies(u)

Environment ==
    \/ \E u \in Users : onProgress(u)
    \/ \E s \in Sockets : \/ handleConnection(s) \/ handleDisconnect(s)
                          \/ handleSubscribeSync(s) \/ handleUnsubscribeSync(s)
    \/ \E u \in Users, b \in scene.marks : MarkBook(u, b) \/ UnmarkBook(u, b)

Next ==
    \/ \E u \in Users : Process(u)
    \/ \E r \in late : LateReport(r)
    \/ Environment

\* The process keeps running a job it has begun: every promise it awaits settles
\* (requests and queries time out), so each step of the job is eventually taken.
\* Nothing is assumed of the browser, of Douban's user or of the engine's reports.
Spec == Init /\ [][Next]_vars /\ \A u \in Users : WF_vars(Process(u))

-----------------------------------------------------------------------------
Event_ == [n : Nat, type : {"step", "late", "SUCCESS", "FAILED"},
           room : {"user", "sync"}]

\* Every variable has its type: jobs hold the locals of handleSync and fetchUserBooks,
\* and a socket is in the room of no user but its own.
TypeOK ==
    /\ \A u \in Users :
         /\ lists[u] \in Seq(scene.books)
         /\ jobs[u].kind \in Kinds /\ jobs[u].attempt \in 1..MaxRetries
         /\ jobs[u].category \in 1..(Len(Categories) + 1)
         /\ Done(jobs[u]) <= Len(jobs[u].items)
         /\ jobs[u].data \in Seq(scene.books)
    /\ \A r \in late : r.task \in Users /\ r.step \in {"write", "read"}
    /\ \A s \in Sockets : /\ rooms[s] \subseteq {<<"user", UserOf[s]>>} \cup ({"sync"} \X Users)
                          /\ inbox[s] \in [Users -> Seq(Event_)]

\* What fetchBookList makes of a list that the user changes between its pages: each change
\* moves the later pages by one entry, so a book may come again at the head of the next
\* page, or slip past its start. The data repeats at most one book per change; and when
\* the list fits the limit, no page was refused and every entry could be read, it misses
\* of the books that are in the list from the first page to the end only one per change,
\* besides those whose own detail was refused.
PagingBounded ==
    \A u \in Users :
      LET j == jobs[u]
          stayed == Range(j.base) \cap Range(lists[u])
          refused == {j.items[i] : i \in j.failed}
      IN /\ Len(j.data) - Cardinality(Range(j.data)) <= j.shifts
         /\ j.category = 2 /\ j.data # <<>> /\ ~j.cut
              /\ Len(j.base) + j.shifts <= scene.limit /\ scene.books \cap Unreadable = {}
            => Cardinality(stayed \ (Range(j.data) \cup refused)) <= j.shifts

\* In each room a socket hears the reports that the handleSync of a task awaits in the
\* order they were made, none of them twice, and the final one after all the others,
\* whatever tasks it has subscribed to; only the reports of onProgress, which nobody
\* awaits, may overtake and be overtaken.
HeardInOrder ==
    \A s \in Sockets, u \in Users : \A i, j \in DOMAIN inbox[s][u] :
      LET e == inbox[s][u][i]
          f == inbox[s][u][j]
      IN i < j /\ e.room = f.room /\ e.type # "late" /\ f.type # "late"
         => e.n < f.n /\ e.type = "step"

\* A browser connected before its user's job ends hears how it ended, unless it goes away or
\* the database fails on that very report (updateSyncProgress only logs the failure).
FinalHeard ==
    \A s \in Sockets :
      rooms[s] # {} /\ UserOf[s] \in scene.active /\ jobs[UserOf[s]].pc # "over"
      ~> \/ rooms[s] = {} \/ jobs[UserOf[s]].lost
         \/ \E i \in DOMAIN inbox[s][UserOf[s]] :
              inbox[s][UserOf[s]][i].type \in {"SUCCESS", "FAILED"}
=============================================================================
