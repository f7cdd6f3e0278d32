------------------------- MODULE SyncSessionProofs --------------------------
(***************************************************************************)
(* The reports a browser hears of a sync: the awaited ones come in their   *)
(* order, each once per room, and the final one last, for any number of    *)
(* users, sockets, books and failures.                                     *)
(***************************************************************************)
EXTENDS SyncSession, TLAPS

-----------------------------------------------------------------------------
(* The control of one handleSync. *)

\* The variables of a job that its reports depend on.
ControlFields == {"pc", "next", "sent", "final", "kind"}

\* Where a job is when no report of it is under way; it ends in "over".
Working == {"queued", "starting", "credentials", "category", "fetchUserData",
            "request", "configuration", "engine"}

\* Where a report may lead to.
Places == Working \cup {"over"}

\* How a job ends, once it is about to.
Finals == {"no", "SUCCESS", "FAILED"}

\* The types of these variables.
Control(j) ==
    /\ ControlFields \subseteq DOMAIN j
    /\ j.next \in Places /\ j.sent \in Nat /\ j.final \in Finals /\ j.kind \in Kinds

\* Between two reports, n of them made.
Idle(j, n) == Control(j) /\ j.pc \in Working /\ j.sent = n /\ j.final = "no"

\* Report n is under way; the final one leads to the end.
Telling(j, n) ==
    /\ Control(j) /\ j.pc \in {"write", "read"} /\ j.sent = n
    /\ j.final # "no" <=> j.next = "over"

\* The job has ended.
Over(j) == Control(j) /\ j.pc = "over" /\ j.final # "no"

\* What a step between two reports may lead to.
Goes(k, n) == Idle(k, n) \/ Telling(k, n + 1)

\* A job at any place.
JobOK(j) == Idle(j, j.sent) \/ Telling(j, j.sent) \/ Over(j)

\* A new request, with the attempts counted from one.
LEMMA AskIdle ==
    ASSUME NEW j, NEW n, Idle(j, n), NEW kind \in Kinds
    PROVE  Idle(Ask(j, kind), n)
  BY DEF Ask, Idle, Control, ControlFields, Working

\* The next category.
LEMMA SkipIdle ==
    ASSUME NEW j, NEW n, Idle(j, n)
    PROVE  Idle(SkipCategory(j), n)
  BY DEF SkipCategory, Idle, Control, ControlFields, Working

\* A report that is not the final one.
LEMMA ReportTells ==
    ASSUME NEW j, NEW n, Idle(j, n), NEW next \in Working
    PROVE  Telling(Report(j, next), n + 1)
  BY DEF Report, Idle, Telling, Control, ControlFields, Working, Places, Finals

\* The final report.
LEMMA FinalTells ==
    ASSUME NEW j, NEW n, Idle(j, n), NEW how \in {"SUCCESS", "FAILED"}
    PROVE  Telling(Report([j EXCEPT !.final = how], "over"), n + 1)
  BY DEF Report, Idle, Telling, Control, ControlFields, Working, Places, Finals

\* The loop over the details, and its end.
LEMMA DetailsGo ==
    ASSUME NEW j, NEW n, Idle(j, n)
    PROVE  Goes(Details(j), n)
  <1> DEFINE k == [j EXCEPT !.data = j.books, !.category = @ + 1]
  <1>1. Idle(k, n)
    BY DEF Idle, Control, ControlFields
  <1> HIDE DEF k
  <1>2. Idle(Ask(j, "detail"), n)
    BY AskIdle DEF Kinds
  <1>3. Telling(Report(k, "category"), n + 1)
    BY <1>1, ReportTells DEF Working
  <1> QED BY <1>2, <1>3 DEF Details, Goes, k

\* The end of the loop over the pages.
LEMMA EndGoes ==
    ASSUME NEW j, NEW n, Idle(j, n)
    PROVE  Goes(EndOfList(j), n)
  <1> DEFINE end == IF Len(j.items) < scene.limit THEN Len(j.items) ELSE scene.limit
             k == [j EXCEPT !.items = SubSeq(@, 1, end)]
  <1>1. Idle(k, n)
    BY DEF Idle, Control, ControlFields
  <1>2. EndOfList(j) = Details(k)
    BY DEF EndOfList
  <1> HIDE DEF k
  <1> QED BY <1>1, <1>2, DetailsGo

\* One page of the list.
LEMMA PageGoes ==
    ASSUME NEW j, NEW n, NEW list, Idle(j, n)
    PROVE  Goes(fetchBookList(j, list), n)
  <1> DEFINE page == parseListPage(list, j.start)
             k == [j EXCEPT !.items = @ \o page, !.start = @ + PageSize]
  <1>1. Idle(k, n)
    BY DEF Idle, Control, ControlFields
  <1>2. fetchBookList(j, list) \in {EndOfList(j), EndOfList(k), Ask(k, "page")}
    BY DEF fetchBookList
  <1> HIDE DEF k
  <1>3. Goes(EndOfList(j), n) /\ Goes(EndOfList(k), n)
    BY <1>1, EndGoes
  <1>4. Goes(Ask(k, "page"), n)
    BY <1>1, AskIdle DEF Goes, Kinds
  <1> QED BY <1>2, <1>3, <1>4

\* An answer of Douban.
LEMMA AnswerGoes ==
    ASSUME NEW j, NEW n, NEW u, Idle(j, n)
    PROVE  Goes(Answered(u, j), n)
  <1> DEFINE b == [j EXCEPT !.base = lists[u]]
             d == [j EXCEPT !.books = Append(@, j.items[Done(j) + 1])]
  <1>1. Idle(b, n) /\ Idle(d, n)
    BY DEF Idle, Control, ControlFields
  <1>2. \/ Answered(u, j) \in {Ask(b, "page"), SkipCategory(j)}
        \/ Answered(u, j) \in {fetchBookList(j, lists[u]), Details(d)}
    <2>1. j.kind \in Kinds
      BY DEF Idle, Control
    <2> QED BY <2>1 DEF Answered, Kinds
  <1> HIDE DEF b, d
  <1>3. Goes(Ask(b, "page"), n) /\ Goes(SkipCategory(j), n)
    BY <1>1, AskIdle, SkipIdle DEF Goes, Kinds
  <1>4. Goes(fetchBookList(j, lists[u]), n) /\ Goes(Details(d), n)
    BY <1>1, PageGoes, DetailsGo
  <1> QED BY <1>2, <1>3, <1>4

\* A request that is given up.
LEMMA RefusalGoes ==
    ASSUME NEW j, NEW n, Idle(j, n)
    PROVE  Goes(Refused(j), n)
  <1> DEFINE c == [j EXCEPT !.cut = TRUE]
             d == [j EXCEPT !.failed = @ \cup {Done(j) + 1}]
  <1>1. Idle(c, n) /\ Idle(d, n)
    BY DEF Idle, Control, ControlFields
  <1>2. Refused(j) \in {SkipCategory(j), EndOfList(c), Details(d)}
    <2>1. j.kind \in Kinds
      BY DEF Idle, Control
    <2> QED BY <2>1 DEF Refused, Kinds
  <1> HIDE DEF c, d
  <1>3. Goes(SkipCategory(j), n)
    BY SkipIdle DEF Goes
  <1>4. Goes(EndOfList(c), n) /\ Goes(Details(d), n)
    BY <1>1, EndGoes, DetailsGo
  <1> QED BY <1>2, <1>3, <1>4

-----------------------------------------------------------------------------
(* The inductive invariant. *)

\* The awaited reports of one room are in order, the final one at the end.
InOrder(q) ==
    \A i, k \in DOMAIN q :
      i < k /\ q[i].room = q[k].room /\ q[i].type # "late" /\ q[k].type # "late"
      => q[i].n < q[k].n /\ q[i].type = "step"

\* What was heard, q, is of the past of the job j: of its reports made so far, not of
\* the one under way, and the final one only of a job that has ended.
Past(q, j) ==
    \A i \in DOMAIN q : q[i].type # "late" =>
      /\ q[i].n <= j.sent
      /\ j.pc \in {"write", "read"} => q[i].n < j.sent
      /\ q[i].type = "step" \/ j.pc = "over"

\* What a socket heard of one job.
Heard(q, j) == q \in Seq(Event_) /\ Past(q, j) /\ InOrder(q)

\* One socket, and what it heard of each job. The rooms it is in do not matter: it may
\* have subscribed to any of the tasks.
SocketOK(s) ==
    /\ DOMAIN inbox[s] = Users
    /\ \A v \in Users : Heard(inbox[s][v], jobs[v])

\* The reports that nobody awaits.
LateOK == late \subseteq [task : Users, n : Nat, step : {"write", "read"}]

\* The jobs, the sockets and the reports nobody awaits, all as above.
Inv ==
    /\ DOMAIN jobs = Users
    /\ \A u \in Users : JobOK(jobs[u])
    /\ \A s \in Sockets : SocketOK(s)
    /\ LateOK

\* k can follow j in a step that sends nothing: j has not ended, and a report that is
\* under way then is a new one or was under way already.
Passes(j, k) ==
    /\ j.pc # "over" /\ k.sent >= j.sent
    /\ k.pc \in {"write", "read"} => k.sent > j.sent \/ j.pc \in {"write", "read"}

\* What was heard stays of the past.
LEMMA PastPasses ==
    ASSUME NEW q \in Seq(Event_), NEW j, NEW k, j.sent \in Nat, k.sent \in Nat,
           Past(q, j), Passes(j, k)
    PROVE  Past(q, k)
  <1> SUFFICES ASSUME NEW i \in DOMAIN q, q[i].type # "late"
               PROVE  /\ q[i].n <= k.sent
                      /\ k.pc \in {"write", "read"} => q[i].n < k.sent
                      /\ q[i].type = "step" \/ k.pc = "over"
    BY DEF Past
  <1>1. q[i].n \in Nat
    <2>1. q[i] \in Event_
      OBVIOUS
    <2> QED BY <2>1 DEF Event_
  <1>2. /\ q[i].n <= j.sent
        /\ j.pc \in {"write", "read"} => q[i].n < j.sent
        /\ q[i].type = "step" \/ j.pc = "over"
    BY DEF Past
  <1> QED BY <1>1, <1>2 DEF Passes

\* A socket in the next state.
LEMMA SocketLater ==
    ASSUME NEW s, DOMAIN inbox'[s] = Users, \A v \in Users : Heard(inbox'[s][v], jobs'[v])
    PROVE  SocketOK(s)'
  BY Zenon DEF SocketOK, Heard, Past, InOrder

\* The number of reports of a job.
LEMMA SentIs ==
    ASSUME NEW j, JobOK(j)
    PROVE  j.sent \in Nat
  BY DEF JobOK, Idle, Telling, Over, Control

\* A step of one job that sends nothing.
LEMMA QuietStep ==
    ASSUME Inv, NEW u \in Users, NEW k, jobs' = [jobs EXCEPT ![u] = k], JobOK(k),
           Passes(jobs[u], k), UNCHANGED <<rooms, inbox>>, LateOK'
    PROVE  Inv'
  <1>1. DOMAIN jobs' = Users
        /\ jobs'[u] = k /\ \A v \in Users : v # u => jobs'[v] = jobs[v]
    BY DEF Inv
  <1>2. \A v \in Users : JobOK(jobs[v])'
    <2>1. \A v \in Users : JobOK(jobs'[v])
      BY <1>1 DEF Inv
    <2> QED BY <2>1 DEF JobOK, Idle, Telling, Over, Control
  <1>3. ASSUME NEW s \in Sockets PROVE SocketOK(s)'
    <2>1. SocketOK(s)
      BY DEF Inv
    <2>2. ASSUME NEW v \in Users PROVE Heard(inbox[s][v], jobs'[v])
      <3>1. Heard(inbox[s][v], jobs[v])
        BY <2>1 DEF SocketOK
      <3>2. CASE v = u
        <4>1. jobs[u].sent \in Nat /\ k.sent \in Nat
          BY SentIs DEF Inv
        <4> QED BY <1>1, <3>1, <3>2, <4>1, PastPasses DEF Heard
      <3>3. CASE v # u
        BY <1>1, <3>1, <3>3
      <3> QED BY <3>2, <3>3
    <2>3. inbox'[s] = inbox[s] /\ DOMAIN inbox[s] = Users
      BY <2>1 DEF SocketOK
    <2> QED BY <2>2, <2>3, SocketLater
  <1> QED BY <1>1, <1>2, <1>3 DEF Inv

\* A step between two reports.
LEMMA GoesStep ==
    ASSUME Inv, NEW u \in Users, jobs[u].pc \in Working, NEW k, Goes(k, jobs[u].sent),
           jobs' = [jobs EXCEPT ![u] = k], UNCHANGED <<late, rooms, inbox>>
    PROVE  Inv'
  <1>1. jobs[u].sent \in Nat
    BY SentIs DEF Inv
  <1>2. JobOK(k)
    BY DEF Goes, JobOK, Idle, Telling
  <1>3. Passes(jobs[u], k)
    BY <1>1 DEF Goes, Idle, Telling, Passes, Working
  <1>4. LateOK'
    BY DEF Inv, LateOK
  <1> QED BY <1>2, <1>3, <1>4, QuietStep, Zenon

\* The job of a step between two reports.
LEMMA WorkingIdle ==
    ASSUME Inv, NEW u \in Users, jobs[u].pc \in Working
    PROVE  Idle(jobs[u], jobs[u].sent)
  BY DEF Inv, JobOK, Idle, Telling, Over, Working

-----------------------------------------------------------------------------
(* A message to the rooms of a user. *)

\* What a socket heard of a job was q and is r: the messages that reach it are new, and at
\* most one per room.
Reached(q, r, event) ==
    /\ r \in Seq(Event_) /\ Len(q) <= Len(r)
    /\ \A i \in 1 .. Len(q) : r[i] = q[i]
    /\ \A i \in 1 .. Len(r) : i > Len(q) => r[i].n = event.n /\ r[i].type = event.type
    /\ \A i, k \in 1 .. Len(r) : i > Len(q) /\ i < k => r[i].room # r[k].room

\* r is q with at most the one entry x more.
OneMore(q, r, x) ==
    /\ Len(q) \in Nat /\ Len(r) \in Nat
    /\ Len(r) = Len(q) \/ (Len(r) = Len(q) + 1 /\ r[Len(r)] = x)
    /\ \A i \in 1 .. Len(q) : r[i] = q[i]

\* An emit to one room.
LEMMA EmitAdds ==
    ASSUME NEW S, NEW q \in Seq(S), NEW x \in S, NEW in \in BOOLEAN
    PROVE  LET r == q \o (IF in THEN <<x>> ELSE <<>>)
           IN r \in Seq(S) /\ OneMore(q, r, x) /\ (~in => r = q)
  <1>1. CASE in
    <2>1. /\ q \o <<x>> \in Seq(S) /\ Len(q \o <<x>>) = Len(q) + 1 /\ Len(q) \in Nat
          /\ (q \o <<x>>)[Len(q) + 1] = x
          /\ \A i \in 1 .. Len(q) : (q \o <<x>>)[i] = q[i]
      OBVIOUS
    <2> QED BY <1>1, <2>1 DEF OneMore
  <1>2. CASE ~in
    <2>1. q \o <<>> = q
      OBVIOUS
    <2> QED BY <1>2, <2>1 DEF OneMore
  <1> QED BY <1>1, <1>2

\* notifyProgress, whichever of the two rooms the socket is in.
LEMMA NotifyReaches ==
    ASSUME Inv, NEW u \in Users, NEW event \in Event_, notifyProgress(u, event),
           NEW s \in Sockets
    PROVE  /\ DOMAIN inbox'[s] = Users
           /\ Reached(inbox[s][u], inbox'[s][u], event)
           /\ \A v \in Users : v # u => inbox'[s][v] = inbox[s][v]
  <1> DEFINE q == inbox[s][u]
             x == [event EXCEPT !.room = "user"]
             y == [event EXCEPT !.room = "sync"]
             m == q \o (IF <<"user", u>> \in rooms[s] THEN <<x>> ELSE <<>>)
             r == m \o (IF <<"sync", u>> \in rooms[s] THEN <<y>> ELSE <<>>)
  <1>1. DOMAIN inbox[s] = Users /\ q \in Seq(Event_)
    BY DEF Inv, SocketOK, Heard
  <1>2. inbox'[s] = [inbox[s] EXCEPT ![u] = r]
    BY Zenon DEF notifyProgress
  <1>3. x \in Event_ /\ x.room = "user" /\ x.n = event.n /\ x.type = event.type
    BY DEF Event_
  <1>4. y \in Event_ /\ y.room = "sync" /\ y.n = event.n /\ y.type = event.type
    BY DEF Event_
  <1> HIDE DEF q, x, y
  <1>5. m \in Seq(Event_) /\ OneMore(q, m, x)
    BY <1>1, <1>3, EmitAdds, Zenon
  <1> HIDE DEF m
  <1>6. r \in Seq(Event_) /\ OneMore(m, r, y)
    BY <1>4, <1>5, EmitAdds, Zenon
  <1> HIDE DEF r
  <1>7. /\ Len(q) \in Nat /\ Len(m) \in Nat /\ Len(r) \in Nat
        /\ Len(q) <= Len(m) /\ Len(m) <= Len(r)
        /\ \A i \in 1 .. Len(q) : r[i] = q[i]
    BY <1>5, <1>6 DEF OneMore
  <1>8. \A i \in 1 .. Len(r) : i > Len(q) =>
          \/ i = Len(m) /\ r[i] = x
          \/ i = Len(m) + 1 /\ r[i] = y
    BY <1>5, <1>6, <1>7 DEF OneMore
  <1>9. ASSUME NEW i \in 1 .. Len(r), i > Len(q)
        PROVE  r[i].n = event.n /\ r[i].type = event.type
    BY <1>3, <1>4, <1>8, <1>9
  <1>10. ASSUME NEW i \in 1 .. Len(r), NEW k \in 1 .. Len(r), i > Len(q), i < k
         PROVE  r[i].room # r[k].room
    <2>1. r[i] = x /\ r[k] = y
      BY <1>7, <1>8, <1>10
    <2> QED BY <1>3, <1>4, <2>1
  <1>11. Reached(q, r, event)
    BY <1>6, <1>7, <1>9, <1>10 DEF Reached
  <1>12. /\ DOMAIN inbox'[s] = Users /\ inbox'[s][u] = r
         /\ \A v \in Users : v # u => inbox'[s][v] = inbox[s][v]
    BY <1>1, <1>2
  <1> QED BY <1>11, <1>12 DEF q

\* What a socket heard stays in order when a message reaches it that is late or the
\* newest of its job.
LEMMA ReachedOrder ==
    ASSUME NEW q \in Seq(Event_), NEW r, NEW event \in Event_, Reached(q, r, event),
           InOrder(q),
           event.type # "late" =>
             \A i \in DOMAIN q : q[i].type # "late" => q[i].n < event.n /\ q[i].type = "step"
    PROVE  InOrder(r)
  <1>1. /\ r \in Seq(Event_) /\ Len(q) <= Len(r)
        /\ \A i \in 1 .. Len(q) : r[i] = q[i]
        /\ \A i \in 1 .. Len(r) : i > Len(q) => r[i].n = event.n /\ r[i].type = event.type
        /\ \A i, k \in 1 .. Len(r) : i > Len(q) /\ i < k => r[i].room # r[k].room
    BY DEF Reached
  <1>2. DOMAIN q = 1 .. Len(q) /\ DOMAIN r = 1 .. Len(r) /\ Len(q) \in Nat /\ Len(r) \in Nat
    BY <1>1
  <1>3. /\ \A i, k \in 1 .. Len(q) :
             i < k /\ q[i].room = q[k].room /\ q[i].type # "late" /\ q[k].type # "late"
             => q[i].n < q[k].n /\ q[i].type = "step"
        /\ event.type # "late" =>
             \A i \in 1 .. Len(q) : q[i].type # "late" => q[i].n < event.n /\ q[i].type = "step"
    BY <1>2, ZenonT(40) DEF InOrder
  <1> SUFFICES ASSUME NEW i \in 1 .. Len(r), NEW k \in 1 .. Len(r), i < k,
                      r[i].room = r[k].room, r[i].type # "late", r[k].type # "late"
               PROVE  r[i].n < r[k].n /\ r[i].type = "step"
    BY <1>2 DEF InOrder
  <1>4. CASE i > Len(q)
    BY <1>1, <1>4
  <1>5. CASE i \in 1 .. Len(q) /\ k \in 1 .. Len(q)
    BY <1>1, <1>3, <1>5
  <1>6. CASE i \in 1 .. Len(q) /\ k > Len(q)
    BY <1>1, <1>3, <1>6
  <1> QED BY <1>2, <1>4, <1>5, <1>6

\* ... and is of the past of a job that has made the report.
LEMMA ReachedPast ==
    ASSUME NEW q \in Seq(Event_), NEW r, NEW event \in Event_, Reached(q, r, event),
           NEW j, Past(q, j),
           event.type # "late" =>
             /\ event.n <= j.sent /\ j.pc \notin {"write", "read"}
             /\ event.type = "step" \/ j.pc = "over"
    PROVE  Past(r, j)
  <1>1. /\ r \in Seq(Event_) /\ Len(q) <= Len(r)
        /\ \A i \in 1 .. Len(q) : r[i] = q[i]
        /\ \A i \in 1 .. Len(r) : i > Len(q) => r[i].n = event.n /\ r[i].type = event.type
    BY DEF Reached
  <1>2. DOMAIN q = 1 .. Len(q) /\ DOMAIN r = 1 .. Len(r) /\ Len(q) \in Nat /\ Len(r) \in Nat
    BY <1>1
  <1> SUFFICES ASSUME NEW i \in 1 .. Len(r), r[i].type # "late"
               PROVE  /\ r[i].n <= j.sent
                      /\ j.pc \in {"write", "read"} => r[i].n < j.sent
                      /\ r[i].type = "step" \/ j.pc = "over"
    BY <1>2 DEF Past
  <1>3. CASE i \in 1 .. Len(q)
    <2>1. r[i] = q[i] /\ i \in DOMAIN q
      BY <1>1, <1>2, <1>3
    <2> QED BY <2>1 DEF Past
  <1>4. CASE i > Len(q)
    BY <1>1, <1>4
  <1> QED BY <1>2, <1>3, <1>4

-----------------------------------------------------------------------------
(* The steps. *)

\* A message that is late, or the newest of a job which has gone on after it.
LEMMA NotifyStep ==
    ASSUME Inv, NEW u \in Users, NEW event \in Event_, notifyProgress(u, event),
           LateOK', DOMAIN jobs' = Users,
           \A v \in Users : JobOK(jobs'[v]),
           \A s \in Sockets, v \in Users : Past(inbox[s][v], jobs'[v]),
           event.type # "late" =>
             /\ \A s \in Sockets : \A i \in DOMAIN inbox[s][u] :
                  inbox[s][u][i].type # "late" =>
                    inbox[s][u][i].n < event.n /\ inbox[s][u][i].type = "step"
             /\ event.n <= jobs'[u].sent /\ jobs'[u].pc \notin {"write", "read"}
             /\ event.type = "step" \/ jobs'[u].pc = "over"
    PROVE  Inv'
  <1>1. \A v \in Users : JobOK(jobs[v])'
    BY ZenonT(40) DEF JobOK, Idle, Telling, Over, Control
  <1>2. ASSUME NEW s \in Sockets PROVE SocketOK(s)'
    <2>1. SocketOK(s)
      BY DEF Inv
    <2>2. /\ DOMAIN inbox'[s] = Users
          /\ Reached(inbox[s][u], inbox'[s][u], event)
          /\ \A v \in Users : v # u => inbox'[s][v] = inbox[s][v]
      BY NotifyReaches
    <2>3. ASSUME NEW v \in Users PROVE Heard(inbox'[s][v], jobs'[v])
      <3>1. inbox[s][v] \in Seq(Event_) /\ InOrder(inbox[s][v]) /\ Past(inbox[s][v], jobs'[v])
        BY <2>1 DEF SocketOK, Heard
      <3>2. CASE v = u
        <4> DEFINE q == inbox[s][u]
                   r == inbox'[s][u]
        <4>1. InOrder(r)
          BY <2>2, <3>1, <3>2, ReachedOrder
        <4>2. Past(r, jobs'[u])
          BY <2>2, <3>1, <3>2, ReachedPast
        <4>3. r \in Seq(Event_)
          BY <2>2 DEF Reached
        <4> QED BY <3>2, <4>1, <4>2, <4>3 DEF Heard
      <3>3. CASE v # u
        BY <2>2, <3>1, <3>3 DEF Heard
      <3> QED BY <3>2, <3>3
    <2> QED BY <2>2, <2>3, SocketLater
  <1> QED BY <1>1, <1>2 DEF Inv

\* The job of a step of updateSyncProgress.
LEMMA TellingJob ==
    ASSUME Inv, NEW u \in Users, jobs[u].pc \in {"write", "read"}
    PROVE  Telling(jobs[u], jobs[u].sent)
  BY DEF Inv, JobOK, Idle, Telling, Over, Working

\* After a report, and after one that was lost, the caller goes on.
LEMMA CallerGoesOn ==
    ASSUME NEW j, Telling(j, j.sent), NEW k \in {Unheard(j), [j EXCEPT !.pc = j.next]}
    PROVE  /\ JobOK(k) /\ k.sent = j.sent /\ k.pc \notin {"write", "read"}
           /\ j.final # "no" => k.pc = "over"
  <1>1. /\ DOMAIN k = DOMAIN j /\ k.pc = j.next /\ k.next = j.next /\ k.sent = j.sent
        /\ k.final = j.final /\ k.kind = j.kind
    BY Zenon DEF Unheard, Telling, Control, ControlFields
  <1>2. Control(k)
    BY <1>1 DEF Telling, Control
  <1>3. CASE j.next = "over"
    BY <1>1, <1>2, <1>3 DEF JobOK, Over, Telling
  <1>4. CASE j.next # "over"
    <2>1. j.next \in Working /\ j.final = "no"
      BY <1>4 DEF Telling, Control, Places
    <2>2. Idle(k, k.sent)
      BY <1>1, <1>2, <2>1 DEF Idle
    <2> QED BY <1>1, <2>1, <2>2 DEF JobOK, Working
  <1> QED BY <1>3, <1>4

\* A lost report.
LEMMA LostStep ==
    ASSUME Inv, NEW u \in Users, jobs[u].pc \in {"write", "read"},
           jobs' = [jobs EXCEPT ![u] = Unheard(@)], UNCHANGED <<late, rooms, inbox>>
    PROVE  Inv'
  <1> DEFINE k == Unheard(jobs[u])
  <1>1. JobOK(k) /\ k.sent = jobs[u].sent /\ k.pc \notin {"write", "read"}
    BY TellingJob, CallerGoesOn, Zenon
  <1>2. jobs' = [jobs EXCEPT ![u] = k]
    OBVIOUS
  <1> HIDE DEF k
  <1>3. Passes(jobs[u], k)
    <2>1. jobs[u].sent \in Nat
      BY SentIs DEF Inv
    <2> QED BY <1>1, <2>1 DEF Passes
  <1>4. LateOK'
    BY DEF Inv, LateOK
  <1> QED BY <1>1, <1>2, <1>3, <1>4, QuietStep, Zenon

\* updateSyncProgress, the write of the row.
LEMMA WriteStep ==
    ASSUME Inv, NEW u \in Users, updateSyncProgressWrites(u)
    PROVE  Inv'
  <1> DEFINE k == [jobs[u] EXCEPT !.pc = "read"]
  <1>1. jobs[u].pc = "write" /\ UNCHANGED <<late, rooms, inbox>>
    BY DEF updateSyncProgressWrites
  <1>2. CASE jobs' = [jobs EXCEPT ![u].pc = "read"]
    <2>1. Telling(jobs[u], jobs[u].sent)
      BY <1>1, TellingJob
    <2>2. Telling(k, k.sent) /\ k.sent = jobs[u].sent /\ k.sent \in Nat
      BY <2>1 DEF Telling, Control, ControlFields
    <2>3. jobs' = [jobs EXCEPT ![u] = k]
      BY <1>2
    <2> HIDE DEF k
    <2>4. Passes(jobs[u], k)
      BY <1>1, <2>2 DEF Passes
    <2>5. LateOK'
      BY <1>1 DEF Inv, LateOK
    <2>6. JobOK(k)
      BY <2>2 DEF JobOK
    <2> QED BY <1>1, <2>3, <2>4, <2>5, <2>6, QuietStep, Zenon
  <1>3. CASE jobs' = [jobs EXCEPT ![u] = Unheard(@)]
    BY <1>1, <1>3, LostStep, Zenon
  <1> QED BY <1>2, <1>3 DEF updateSyncProgressWrites

\* updateSyncProgress, the message after the read of the row.
LEMMA ReadStep ==
    ASSUME Inv, NEW u \in Users, updateSyncProgressNotifies(u)
    PROVE  Inv'
  <1> DEFINE j == jobs[u]
             k == [j EXCEPT !.pc = j.next]
             event == Event(j.sent, IF j.final = "no" THEN "step" ELSE j.final)
  <1>1. j.pc = "read" /\ UNCHANGED <<late, rooms>>
    BY DEF updateSyncProgressNotifies
  <1>2. CASE jobs' = [jobs EXCEPT ![u].pc = jobs[u].next] /\ notifyProgress(u, event)
    <2>1. Telling(j, j.sent)
      BY <1>1, TellingJob
    <2>2. /\ JobOK(k) /\ k.sent = j.sent /\ k.pc \notin {"write", "read"}
          /\ j.final # "no" => k.pc = "over"
      BY <2>1, CallerGoesOn
    <2>3. event \in Event_ /\ event.n = j.sent /\ event.type # "late"
          /\ (event.type = "step" \/ j.final # "no")
      BY <2>1 DEF Event, Event_, Telling, Control, Finals
    <2>4. jobs' = [jobs EXCEPT ![u] = k]
      BY <1>2
    <2>5. notifyProgress(u, event)
      BY <1>2
    <2>6. j.sent \in Nat
      BY <2>1 DEF Telling, Control
    <2> HIDE DEF k, event
    <2>7. DOMAIN jobs' = Users /\ jobs'[u] = k /\ \A v \in Users : v # u => jobs'[v] = jobs[v]
      BY <2>4 DEF Inv
    <2>8. \A v \in Users : JobOK(jobs'[v])
      BY <2>2, <2>7 DEF Inv
    <2>9. Passes(j, k)
      BY <1>1, <2>2, <2>6 DEF Passes
    <2>10. ASSUME NEW s \in Sockets, NEW v \in Users PROVE Past(inbox[s][v], jobs'[v])
      <3>1. Past(inbox[s][v], jobs[v]) /\ inbox[s][v] \in Seq(Event_)
        BY DEF Inv, SocketOK, Heard
      <3>2. CASE v = u
        BY <2>2, <2>6, <2>7, <2>9, <3>1, <3>2, PastPasses
      <3> QED BY <2>7, <3>1, <3>2
    <2>11. ASSUME NEW s \in Sockets, NEW i \in DOMAIN inbox[s][u],
                  inbox[s][u][i].type # "late"
           PROVE  inbox[s][u][i].n < event.n /\ inbox[s][u][i].type = "step"
      <3>1. Past(inbox[s][u], j)
        BY DEF Inv, SocketOK, Heard
      <3> QED BY <1>1, <2>3, <2>11, <3>1 DEF Past
    <2>12. event.n <= jobs'[u].sent /\ jobs'[u].pc \notin {"write", "read"}
           /\ (event.type = "step" \/ jobs'[u].pc = "over")
      BY <2>2, <2>3, <2>6, <2>7
    <2>13. LateOK'
      BY <1>1 DEF Inv, LateOK
    <2> QED BY <1>1, <2>3, <2>5, <2>7, <2>8, <2>10, <2>11, <2>12, <2>13, NotifyStep
  <1>3. CASE jobs' = [jobs EXCEPT ![u] = Unheard(@)] /\ UNCHANGED inbox
    BY <1>1, <1>3, LostStep, Zenon
  <1> QED BY <1>2, <1>3 DEF updateSyncProgressNotifies

\* handleSync up to the engine: each of these steps lies between two reports, or begins
\* one.
LEMMA WorkStep ==
    ASSUME Inv, NEW u \in Users,
           \/ handleSync(u) \/ FetchingCredentials(u) \/ getUserCredentials(u)
           \/ NextCategory(u) \/ fetchUserData(u) \/ syncToFeishu(u) \/ EngineReturns(u)
    PROVE  Inv'
  <1> DEFINE j == jobs[u]
             n == jobs[u].sent
  <1>1. \A k : Goes(k, n) /\ j.pc \in Working /\ Advance(u, k) => Inv'
    BY GoesStep, Zenon DEF Advance
  <1>2. j.pc \in Working => Idle(j, n)
    BY WorkingIdle
  <1> HIDE DEF j, n
  <1>3. ASSUME j.pc \in Working
        PROVE  /\ \A next \in Working : Goes(Report(j, next), n)
               /\ Goes(Fail(j), n)
               /\ Goes(Report([j EXCEPT !.final = "SUCCESS"], "over"), n)
               /\ Goes(SkipCategory(j), n)
               /\ Goes(Ask(j, "validate"), n)
    BY <1>2, <1>3, ReportTells, FinalTells, SkipIdle, AskIdle DEF Goes, Fail, Kinds
  <1> USE <1>1, <1>3
  <1>4. CASE handleSync(u)
    BY <1>4 DEF handleSync, Working, j
  <1>5. CASE FetchingCredentials(u)
    BY <1>5 DEF FetchingCredentials, Working, j
  <1>6. CASE getUserCredentials(u)
    BY <1>6 DEF getUserCredentials, Working, j
  <1>7. CASE NextCategory(u)
    BY <1>7 DEF NextCategory, Working, j
  <1>8. CASE fetchUserData(u)
    BY <1>8 DEF fetchUserData, Working, j
  <1>9. CASE syncToFeishu(u)
    BY <1>9 DEF syncToFeishu, Working, j
  <1>10. CASE EngineReturns(u)
    BY <1>10 DEF EngineReturns, Working, j
  <1> QED BY <1>4, <1>5, <1>6, <1>7, <1>8, <1>9, <1>10

\* makeRequest: an answer, a retry or a refusal.
LEMMA RequestStep ==
    ASSUME Inv, NEW u \in Users, makeRequest(u)
    PROVE  Inv'
  <1> DEFINE j == jobs[u]
             n == jobs[u].sent
             again == [j EXCEPT !.attempt = @ + 1]
  <1>1. j.pc \in Working
    BY DEF makeRequest, Working
  <1>2. Idle(j, n)
    BY <1>1, WorkingIdle
  <1>3. \A k : Goes(k, n) /\ Advance(u, k) => Inv'
    BY <1>1, GoesStep, Zenon DEF Advance
  <1>4. Goes(Answered(u, j), n) /\ Goes(Refused(j), n)
    BY <1>2, AnswerGoes, RefusalGoes
  <1>5. Goes(again, n)
    BY <1>2 DEF Goes, Idle, Control, ControlFields
  <1>6. \E k \in {Answered(u, j), Refused(j), again} : Advance(u, k)
    BY DEF makeRequest
  <1> HIDE DEF again
  <1> QED BY <1>3, <1>4, <1>5, <1>6

\* onProgress: the engine reports, and nobody awaits it.
LEMMA EngineReportStep ==
    ASSUME Inv, NEW u \in Users, onProgress(u)
    PROVE  Inv'
  <1> DEFINE j == jobs[u]
             k == [j EXCEPT !.sent = @ + 1]
  <1>1. j.pc = "engine" /\ jobs' = [jobs EXCEPT ![u] = k] /\ UNCHANGED <<rooms, inbox>>
    BY DEF onProgress
  <1>2. Idle(j, j.sent)
    BY <1>1, WorkingIdle DEF Working
  <1>3. Idle(k, j.sent + 1) /\ k.sent = j.sent + 1 /\ k.pc = "engine" /\ j.sent \in Nat
    BY <1>1, <1>2 DEF Idle, Control, ControlFields
  <1>4. JobOK(k)
    BY <1>3 DEF JobOK
  <1>5. Passes(j, k)
    BY <1>1, <1>3 DEF Passes
  <1>6. LateOK'
    BY <1>3 DEF Inv, LateOK, onProgress
  <1> HIDE DEF k
  <1> QED BY <1>1, <1>4, <1>5, <1>6, QuietStep, Zenon

\* A step that leaves the jobs and what was heard alone, whatever becomes of the rooms.
LEMMA StillStep ==
    ASSUME Inv, UNCHANGED <<jobs, inbox>>, LateOK'
    PROVE  Inv'
  <1>1. DOMAIN jobs' = Users
    BY DEF Inv
  <1>2. ASSUME NEW u \in Users PROVE JobOK(jobs[u])'
    <2>1. JobOK(jobs'[u])
      BY DEF Inv
    <2> QED BY ONLY <2>1 DEF JobOK, Idle, Telling, Over, Control
  <1>3. ASSUME NEW s \in Sockets PROVE SocketOK(s)'
    <2>1. SocketOK(s)
      BY DEF Inv
    <2> QED BY <2>1, SocketLater DEF SocketOK
  <1> QED BY <1>1, <1>2, <1>3 DEF Inv

\* The rest of a report that nobody awaited: its message is late.
LEMMA LateStep ==
    ASSUME Inv, NEW r \in late, LateReport(r)
    PROVE  Inv'
  <1>1. r \in [task : Users, n : Nat, step : {"write", "read"}] /\ LateOK
    BY DEF Inv, LateOK
  <1>2. LateOK' /\ UNCHANGED <<jobs, rooms>>
    BY <1>1 DEF LateOK, LateReport
  <1>3. CASE UNCHANGED inbox
    BY <1>2, <1>3, StillStep
  <1>4. CASE notifyProgress(r.task, Event(r.n, "late"))
    <2> DEFINE event == Event(r.n, "late")
    <2>1. event \in Event_ /\ event.type = "late" /\ r.task \in Users
      BY <1>1 DEF Event, Event_
    <2>2. /\ DOMAIN jobs' = Users /\ \A v \in Users : JobOK(jobs'[v])
          /\ \A s \in Sockets, v \in Users : Past(inbox[s][v], jobs'[v])
      BY <1>2 DEF Inv, SocketOK, Heard
    <2> HIDE DEF event
    <2>3. notifyProgress(r.task, event)
      BY <1>4 DEF event
    <2> QED BY <1>2, <2>1, <2>2, <2>3, NotifyStep
  <1> QED BY <1>3, <1>4 DEF LateReport

\* The gateway: a socket comes or is turned away, goes, or enters and leaves the rooms of
\* any tasks, its user's or not.
LEMMA SocketStep ==
    ASSUME Inv, NEW s \in Sockets,
           \/ handleConnection(s) \/ handleDisconnect(s)
           \/ handleSubscribeSync(s) \/ handleUnsubscribeSync(s)
    PROVE  Inv'
  <1>1. UNCHANGED <<jobs, late, inbox>>
    BY DEF handleConnection, handleDisconnect, handleSubscribeSync, handleUnsubscribeSync
  <1>2. LateOK'
    BY <1>1 DEF Inv, LateOK
  <1> QED BY <1>1, <1>2, StillStep

\* Douban: the list changes between two pages.
LEMMA ListStep ==
    ASSUME Inv, NEW u \in Users, NEW list, ChangeList(u, list)
    PROVE  Inv'
  <1> DEFINE j == jobs[u]
             k == [j EXCEPT !.shifts = @ + 1]
  <1>1. j.pc \in Working /\ jobs' = [jobs EXCEPT ![u] = k] /\ UNCHANGED <<late, rooms, inbox>>
    BY DEF ChangeList, Paging, Working
  <1>2. Idle(j, j.sent)
    BY <1>1, WorkingIdle
  <1>3. Goes(k, j.sent)
    BY <1>2 DEF Goes, Idle, Control, ControlFields
  <1> HIDE DEF k
  <1> QED BY <1>1, <1>3, GoesStep, Zenon

-----------------------------------------------------------------------------
(* The theorem. *)

\* Before any job has begun.
LEMMA InitInv ==
    ASSUME Init
    PROVE  Inv
  <1>1. JobOK(NewJob)
    BY DEF NewJob, JobOK, Idle, Control, ControlFields, Working, Places, Finals, Kinds
  <1>2. ASSUME NEW s \in Sockets PROVE SocketOK(s)
    <2>1. inbox[s] = NoEvents
      BY DEF Init
    <2>2. DOMAIN inbox[s] = Users
      BY <2>1 DEF NoEvents
    <2>3. ASSUME NEW v \in Users PROVE Heard(inbox[s][v], jobs[v])
      <3>1. inbox[s][v] = <<>>
        BY <2>1 DEF NoEvents
      <3>2. inbox[s][v] \in Seq(Event_) /\ DOMAIN inbox[s][v] = {}
        BY ONLY <3>1
      <3> QED BY <3>2, Zenon DEF Heard, Past, InOrder
    <2> QED BY <2>2, <2>3 DEF SocketOK
  <1>3. \A u \in Users : jobs[u] = NewJob
    BY DEF Init
  <1>4. DOMAIN jobs = Users /\ LateOK
    BY DEF Init, LateOK
  <1> QED BY <1>1, <1>2, <1>3, <1>4 DEF Inv

\* Every step keeps the invariant.
LEMMA NextInv ==
    ASSUME Inv, [Next]_vars
    PROVE  Inv'
  <1>1. CASE \E u \in Users : Process(u)
    BY <1>1, WorkStep, RequestStep, WriteStep, ReadStep DEF Process
  <1>2. CASE \E r \in late : LateReport(r)
    BY <1>2, LateStep
  <1>3. CASE \E u \in Users : onProgress(u)
    BY <1>3, EngineReportStep
  <1>4. CASE \E s \in Sockets : \/ handleConnection(s) \/ handleDisconnect(s)
                                \/ handleSubscribeSync(s) \/ handleUnsubscribeSync(s)
    BY <1>4, SocketStep
  <1>5. CASE \E u \in Users, b \in scene.marks : MarkBook(u, b) \/ UnmarkBook(u, b)
    BY <1>5, ListStep DEF MarkBook, UnmarkBook
  <1>6. CASE UNCHANGED vars
    <2>1. LateOK'
      BY <1>6 DEF Inv, LateOK, vars
    <2> QED BY <1>6, <2>1, StillStep DEF vars
  <1> QED BY <1>1, <1>2, <1>3, <1>4, <1>5, <1>6 DEF Next, Environment

\* In each room a socket hears the reports that the handleSync of a task awaits in the
\* order they were made, none of them twice and the final one last, whatever tasks it has
\* subscribed to (the gateway joins any), and whatever the other jobs, the reports nobody
\* awaits, the database errors and the comings and goings of sockets do.
THEOREM OrderHolds == Spec => []HeardInOrder
  <1>1. Inv => HeardInOrder
    BY DEF Inv, SocketOK, Heard, InOrder, HeardInOrder
  <1> QED BY <1>1, InitInv, NextInv, PTL DEF Spec

=============================================================================
