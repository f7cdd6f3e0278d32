---------------------------- MODULE MCSyncSession ----------------------------
(***************************************************************************)
(* SyncSession on small instances: pages of two entries, two attempts per  *)
(* request. A scenario fixes the lists, the limit and how often each kind  *)
(* of trouble may happen.                                                  *)
(***************************************************************************)
EXTENDS SyncSession

MCUsers == {"ann", "bob"}
MCSockets == {"s1", "s2"}
MCUserOf == [s1 |-> "ann", s2 |-> "bob"]
MCUnreadable == {"x"}

Quiet ==
    [lists |-> [u \in MCUsers |-> <<>>], books |-> {"a", "b", "c", "d", "e"},
     marks |-> {"b", "d", "e"}, limit |-> 4,
     active |-> {"ann"}, cookie |-> TRUE, failures |-> 0, bans |-> 0, broken |-> 0,
     dbErrors |-> 0, reports |-> 0, online |-> {}, connects |-> 0, disconnects |-> 0,
     subscribes |-> 0, unsubscribes |-> 0, changes |-> 0]

Ann(list) == [u \in MCUsers |-> IF u = "ann" THEN list ELSE <<>>]

MCScenarios ==
    \* the list moves under the paging, and requests fail
    {[Quiet EXCEPT !.lists = Ann(list), !.limit = limit, !.changes = 2, !.failures = 2] :
       list \in {<<>>, <<"a">>, <<"a", "b">>, <<"a", "b", "c">>, <<"a", "b", "c", "d">>},
       limit \in {3, 8}}
    \cup
    {[Quiet EXCEPT !.lists = Ann(<<"a", "b", "c">>), !.changes = 1, !.bans = 2]}
    \cup
    \* an entry that parseListPage cannot read
    {[Quiet EXCEPT !.lists = Ann(<<"a", "x", "c", "d">>), !.books = @ \cup {"x"},
                   !.marks = {"x", "d"}, !.changes = 2]}
    \cup
    \* browsers that come, subscribe and go; a failing database; unawaited reports
    {[Quiet EXCEPT !.cookie = FALSE, !.broken = 1, !.dbErrors = 1, !.reports = 1,
                   !.connects = 1, !.disconnects = 1, !.subscribes = 1, !.unsubscribes = 1],
     [Quiet EXCEPT !.lists = Ann(<<"a">>), !.dbErrors = 1, !.reports = 2, !.connects = 1]}
    \cup
    \* two users at once, one of them subscribed to the other's task or to both; and a
    \* list that ends with its page and the limit
    {[Quiet EXCEPT !.cookie = FALSE, !.active = MCUsers, !.online = {"s1"}, !.subscribes = 1],
     [Quiet EXCEPT !.lists = Ann(<<"a", "b", "c", "d">>), !.changes = 1]}
=============================================================================
