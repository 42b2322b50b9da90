-------------------------- MODULE NotificationInbox --------------------------
(****************************************************************************)
(* A client's inbox: apps/api/src/notifications/notifications.service.ts,   *)
(* the proxies of customer-web and app/notifications.tsx, which lists it    *)
(* page by page with a cursor and marks a notice as read when it is         *)
(* visited.  The notices are NotificationWorker's; they may become visible  *)
(* in another order than that of their timestamps.  The count of unread     *)
(* notices, the rate limit and the audit rows are left out.                 *)
(****************************************************************************)
EXTENDS Integers, Sequences, SequencesExt

CONSTANTS Notices,    \* the notices' ids, numbers
          CreatedAt,  \* CreatedAt[n]: when the transaction that makes it begins
          PageSize,   \* the limit of a list, 20 in the program
          MaxReads,   \* bound on the marks
          Loads,      \* lists under way at the same time
          Visits      \* marks under way at the same time

VARIABLES there,       \* notices whose transaction is committed
          readAt,      \* readAt[n]: when it was read first, or 0
          clock,       \* marks made
          page,        \* what the page shows, or NoPage
          load,        \* load[l]: where a list stands
          visit,       \* visit[v]: where a mark stands
          mixed        \* history: a page was added to another list than it continues

vars == <<there, readAt, clock, page, load, visit, mixed>>

Items == [id : Notices, readAt : 0..MaxReads]
NoCursor == [createdAt |-> 0, id |-> 0]
Cursors == [createdAt : {CreatedAt[n] : n \in Notices}, id : Notices] \cup {NoCursor}

(* existed: the notices there were when the first page was read.            *)
NoPage == [items |-> <<>>, cursor |-> NoCursor, existed |-> {}]
Idle == [pc |-> "idle"]

Ids(items) == [i \in 1..Len(items) |-> items[i].id]
ShownList == <<Ids(page.items), page.existed>>

(* ORDER BY createdAt DESC, id DESC, each row at its rank, and the rows past *)
(* a cursor.                                                                *)
Before(m, n) ==
    \/ CreatedAt[m] > CreatedAt[n]
    \/ CreatedAt[m] = CreatedAt[n] /\ m > n
InOrder(S) ==
    [i \in 1..Cardinality(S) |->
       CHOOSE n \in S : Cardinality({m \in S : Before(m, n)}) = i - 1]
Past_TimeOnly(n, cursor) ==   \* mutant
    cursor = NoCursor \/ CreatedAt[n] < cursor.createdAt
Past(n, cursor) ==
    \/ cursor = NoCursor
    \/ CreatedAt[n] < cursor.createdAt
    \/ CreatedAt[n] = cursor.createdAt /\ n < cursor.id

Init ==
    /\ there = {}
    /\ readAt = [n \in Notices |-> 0]
    /\ clock = 0
    /\ page = NoPage
    /\ load = [l \in Loads |-> Idle]
    /\ visit = [v \in Visits |-> Idle]
    /\ mixed = FALSE

Arrives(n) ==
    /\ n \notin there
    /\ there' = there \cup {n}
    /\ UNCHANGED <<readAt, clock, page, load, visit, mixed>>

-----------------------------------------------------------------------------
(* load: the first page, anew, or the next one, appended.                   *)

Refresh(l) ==
    /\ load[l] = Idle
    /\ load' = [load EXCEPT ![l] = [pc |-> "sent", append |-> FALSE, cursor |-> NoCursor,
                                    onto |-> <<>>]]
    /\ UNCHANGED <<there, readAt, clock, page, visit, mixed>>

(* The model does not go on with a list that is mixed up: it would grow     *)
(* without bound.                                                           *)
LoadMore(l) ==
    /\ load[l] = Idle
    /\ ~mixed
    /\ page.cursor # NoCursor
    /\ load' = [load EXCEPT ![l] = [pc |-> "sent", append |-> TRUE, cursor |-> page.cursor,
                                    onto |-> ShownList]]
    /\ UNCHANGED <<there, readAt, clock, page, visit, mixed>>

CursorOf(items) ==
    LET n == Last(items).id IN [createdAt |-> CreatedAt[n], id |-> n]

(* list.                                                                    *)
ServeList(l) ==
    LET rows  == InOrder({n \in there : Past(n, load[l].cursor)})
        some  == SubSeq(rows, 1, IF Len(rows) > PageSize THEN PageSize ELSE Len(rows))
        items == [i \in 1..Len(some) |-> [id |-> some[i], readAt |-> readAt[some[i]]]]
    IN  /\ load[l].pc = "sent"
        /\ load' = [load EXCEPT ![l] =
             [pc |-> "served", append |-> @.append, onto |-> @.onto, items |-> items,
              cursor |-> IF Len(rows) > PageSize THEN CursorOf(items) ELSE NoCursor,
              existed |-> IF @.append THEN {} ELSE there]]
        /\ UNCHANGED <<there, readAt, clock, page, visit, mixed>>

(* The page appends to what it shows by now, or shows the first page alone. *)
Listed(l) ==
    LET c == load[l]
        appended == c.append /\ page # NoPage
    IN  /\ c.pc = "served"
        /\ page' = [items |-> IF appended THEN page.items \o c.items ELSE c.items,
                    cursor |-> c.cursor,
                    existed |-> IF appended THEN page.existed ELSE c.existed]
        /\ mixed' = IF c.append THEN mixed \/ ShownList # c.onto ELSE FALSE
        /\ load' = [load EXCEPT ![l] = Idle]
        /\ UNCHANGED <<there, readAt, clock, visit>>

(* No session, no connection, or an answer that is lost.                    *)
NotListed(l) ==
    /\ load[l] # Idle
    /\ load' = [load EXCEPT ![l] = Idle]
    /\ UNCHANGED <<there, readAt, clock, page, visit, mixed>>

-----------------------------------------------------------------------------
(* visit, of a notice shown as unread.                                      *)

Visit(v, n) ==
    /\ visit[v] = Idle
    /\ \E i \in 1..Len(page.items) : page.items[i] = [id |-> n, readAt |-> 0]
    /\ visit' = [visit EXCEPT ![v] = [pc |-> "sent", id |-> n]]
    /\ UNCHANGED <<there, readAt, clock, page, load, mixed>>

FirstReading(n) == IF readAt[n] = 0 THEN clock + 1 ELSE readAt[n]

(* markRead writes, and reads the row again in a second statement.          *)
Mark(v) ==
    LET n == visit[v].id
    IN  /\ visit[v].pc = "sent"
        /\ clock < MaxReads
        /\ clock' = clock + 1
        /\ readAt' = [readAt EXCEPT ![n] = FirstReading(n)]
        /\ visit' = [visit EXCEPT ![v].pc = "reread"]
        /\ UNCHANGED <<there, page, load, mixed>>

Reread(v) ==
    LET n == visit[v].id
    IN  /\ visit[v].pc = "reread"
        /\ visit' = [visit EXCEPT ![v] = [pc |-> "answer", item |-> [id |-> n,
                                                              readAt |-> readAt[n]]]]
        /\ UNCHANGED <<there, readAt, clock, page, load, mixed>>

Visited(v) ==
    LET item == visit[v].item
    IN  /\ visit[v].pc = "answer"
        /\ page' = [page EXCEPT !.items = [i \in 1..Len(@) |->
                                             IF @[i].id = item.id THEN item ELSE @[i]]]
        /\ visit' = [visit EXCEPT ![v] = Idle]
        /\ UNCHANGED <<there, readAt, clock, load, mixed>>

(* Before or after the mark was made: the notice stays unread on the page.  *)
NotVisited(v) ==
    /\ visit[v] # Idle
    /\ visit' = [visit EXCEPT ![v] = Idle]
    /\ UNCHANGED <<there, readAt, clock, page, load, mixed>>

Next ==
    \/ \E n \in Notices : Arrives(n)
    \/ \E l \in Loads :
         Refresh(l) \/ LoadMore(l) \/ ServeList(l) \/ Listed(l) \/ NotListed(l)
    \/ \E v \in Visits :
         \/ \E n \in Notices : Visit(v, n)
         \/ Mark(v) \/ Reread(v) \/ Visited(v) \/ NotVisited(v)

Spec == Init /\ [][Next]_vars

-----------------------------------------------------------------------------
(* Properties.                                                              *)

TypeOK ==
    /\ there \subseteq Notices
    /\ readAt \in [Notices -> 0..MaxReads]
    /\ clock \in 0..MaxReads
    /\ page.items \in Seq(Items) /\ page.cursor \in Cursors /\ page.existed \subseteq Notices
    /\ \A l \in Loads : load[l].pc \in {"idle", "sent", "served"}
    /\ \A v \in Visits : visit[v].pc \in {"idle", "sent", "reread", "answer"}
    /\ mixed \in BOOLEAN

(* feat-009 test plan, "inserciones posteriores no duplican ni omiten filas *)
(* al continuar un cursor": of the notices there were when the first page   *)
(* was read, none is passed over and none listed twice, whatever arrives    *)
(* while the list is continued.  It fails only when a page is appended to a *)
(* list that was refreshed, or appended to, since it was asked for.         *)
ListHasNoGap ==
    mixed \/
      /\ IsInjective(Ids(page.items))
      /\ \A n \in page.existed :
           (page.cursor = NoCursor \/ ~Past(n, page.cursor)) => Contains(Ids(page.items), n)

(* REQ-009-004: a notice is read once.  Whoever marks it again, at the same *)
(* time or after an answer was lost, is shown when it was read first, and   *)
(* that is what the row keeps.                                              *)
ShownReadingIsFirst ==
    \A i \in 1..Len(page.items) :
      page.items[i].readAt \in {0, readAt[page.items[i].id]}

=============================================================================
