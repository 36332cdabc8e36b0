----------------------------- MODULE Deadlines -----------------------------
(***************************************************************************)
(* The deadlines of the connections in connsByFd (fdtable_unix.go):        *)
(* minDeadlines lets checkDeadlines skip a page while nothing on it is     *)
(* due.  No lock is taken: tasks store and remove connections, goroutines  *)
(* set deadlines, of connections already closed too, and the tickers of    *)
(* several servers scan the pages, all at the same time.  Every step is    *)
(* one atomic access, with the thread-local code around it.                *)
(***************************************************************************)
EXTENDS FdTable

CONSTANTS
    Setters,   \* goroutines that call SetDeadline
    Scanners,  \* tickers that call checkDeadlines
    MaxTime,   \* bound: where the clock stops
    MaxSets    \* bound: the calls of SetDeadline

ASSUME DeadlinesAssumption == MaxTime \in Nat /\ MaxSets \in Nat

\* Pages and slots are visited in the order of their indexes.
ASSUME IndexAssumption == Fds \subseteq Nat /\ Pages \subseteq Nat

VARIABLES
    now,       \* the engine's clock
    min,       \* minDeadlines of each page, 0 when none
    deadline,  \* conn.deadline, 0 when none
    expired,   \* evExpired is pending for the connection
    setter,    \* where each SetDeadline is in lowerDeadline
    scanner,   \* where each checkDeadlines is
    sets       \* the calls of SetDeadline not yet made

deadlineVars == <<now, min, deadline, expired, setter, scanner, sets>>
allVars == <<vars, deadlineVars>>

SetterStates == [pc : {"idle", "load", "cas"}, index : Pages \cup {nil}, d : Nat, cur : Nat]
ScannerStates == [pc : {"due", "reset", "page", "scan", "conn", "load", "cas"},
                  now : Nat, todo : SUBSET Pages, index : Pages \cup {nil}, page : Conns \cup {nil},
                  left : SUBSET Fds, conn : Conns \cup {nil}, next : Nat, cur : Nat]

DeadlinesTypeOK ==
    /\ TypeOK
    /\ now \in Nat /\ sets \in Nat
    /\ min \in [Pages -> Nat]
    /\ deadline \in [Conns -> Nat]
    /\ expired \in [Conns -> BOOLEAN]
    /\ setter \in [Setters -> SetterStates]
    /\ scanner \in [Scanners -> ScannerStates]

\* What a SetDeadline, and the scan of a page, start from and leave behind.
Idle == [pc |-> "idle", index |-> nil, d |-> 0, cur |-> 0]
Between(at, todo) == [pc |-> "due", now |-> at, todo |-> todo, index |-> nil, page |-> nil, left |-> {},
                      conn |-> nil, next |-> 0, cur |-> 0]

DeadlinesInit ==
    /\ Init
    /\ now = 0 /\ sets = MaxSets
    /\ min = [p \in Pages |-> 0]
    /\ deadline = [c \in Conns |-> 0]
    /\ expired = [c \in Conns |-> FALSE]
    /\ setter = [s \in Setters |-> Idle]
    /\ scanner = [k \in Scanners |-> Between(0, {})]

tick == /\ now < MaxTime
        /\ now' = now + 1
        /\ UNCHANGED <<vars, min, deadline, expired, setter, scanner, sets>>

\* The table's steps: a connection is stored, or removed and closed for some reason.
tableStep(c) == ConnStep(c) /\ UNCHANGED deadlineVars

(***************************************************************************)
(* SetDeadline                                                             *)
(***************************************************************************)

\* The handler has a connection from OnOpen on, and may keep it after OnClose.
Opened(c) == pc[c] \in {"open", "removed", "closed"} /\ fd[c] \in InRange

\* A time on the engine's clock; one in the past still is a deadline.
Since(t) == IF t < 1 THEN 1 ELSE t

\* deadline.Store(d); the deadline of a connection that is closed matters no more,
\* but it is noted on the page of the fd as well.
SetDeadline(s, c, t) ==
    /\ setter[s].pc = "idle" /\ sets > 0 /\ Opened(c)
    /\ sets' = sets - 1
    /\ deadline' = [deadline EXCEPT ![c] = Since(t)]
    /\ setter' = [setter EXCEPT ![s] = [pc |-> "load", index |-> PageOf[fd[c]], d |-> Since(t), cur |-> 0]]
    /\ UNCHANGED <<vars, now, min, expired, scanner>>

\* The zero time removes the deadline, and is not noted.
ClearDeadline(s, c) ==
    /\ setter[s].pc = "idle" /\ sets > 0 /\ Opened(c)
    /\ sets' = sets - 1
    /\ deadline' = [deadline EXCEPT ![c] = 0]
    /\ UNCHANGED <<vars, now, min, expired, setter, scanner>>

\* Mutant of Covers: no minimum, 0, counts as the earliest.
CoversZero(cur, d) == cur <= d

\* lowerDeadline keeps a minimum that is as early already.
Covers(cur, d) == cur # 0 /\ cur <= d

noteLoad(s) ==
    /\ setter[s].pc = "load"
    /\ LET m == min[setter[s].index]
       IN setter' = [setter EXCEPT ![s] = IF Covers(m, setter[s].d) THEN Idle
                                          ELSE [@ EXCEPT !.pc = "cas", !.cur = m]]
    /\ UNCHANGED <<vars, now, min, deadline, expired, scanner, sets>>

noteCas(s) ==
    /\ setter[s].pc = "cas"
    /\ IF min[setter[s].index] = setter[s].cur
       THEN /\ min' = [min EXCEPT ![setter[s].index] = setter[s].d]
            /\ setter' = [setter EXCEPT ![s] = Idle]
       ELSE /\ setter' = [setter EXCEPT ![s] = [@ EXCEPT !.pc = "load"]]
            /\ UNCHANGED min
    /\ UNCHANGED <<vars, now, deadline, expired, scanner, sets>>

(***************************************************************************)
(* checkDeadlines                                                          *)
(***************************************************************************)

\* The scan of a page is over.
pageDone(k) == Between(scanner[k].now, scanner[k].todo)

\* A ticker reads the clock, once for all pages.
scanBegin(k) ==
    /\ scanner[k].pc = "due" /\ scanner[k].todo = {}
    /\ scanner' = [scanner EXCEPT ![k] = Between(now, Pages)]
    /\ UNCHANGED <<vars, now, min, deadline, expired, setter, sets>>

\* The next page is skipped unless its minimum is due by then.
scanDue(k) ==
    /\ scanner[k].pc = "due"
    /\ \E p \in scanner[k].todo :
          /\ \A q \in scanner[k].todo : p <= q
          /\ scanner' = [scanner EXCEPT ![k] =
                 IF min[p] = 0 \/ min[p] > scanner[k].now
                 THEN [@ EXCEPT !.todo = scanner[k].todo \ {p}]
                 ELSE [@ EXCEPT !.todo = scanner[k].todo \ {p}, !.pc = "reset", !.index = p]]
    /\ UNCHANGED <<vars, now, min, deadline, expired, setter, sets>>

\* minDeadlines[i].Store(0), before any connection is looked at.
scanReset(k) ==
    /\ scanner[k].pc = "reset"
    /\ min' = [min EXCEPT ![scanner[k].index] = 0]
    /\ scanner' = [scanner EXCEPT ![k] = [@ EXCEPT !.pc = "page"]]
    /\ UNCHANGED <<vars, now, deadline, expired, setter, sets>>

\* The page is loaded; a page nobody has stored into has no connections.
scanPage(k) ==
    /\ scanner[k].pc = "page"
    /\ LET loaded == page[scanner[k].index]
       IN scanner' = [scanner EXCEPT ![k] =
              IF loaded = nil THEN pageDone(k)
              ELSE [@ EXCEPT !.pc = "scan",
                             !.page = loaded,
                             !.left = {f \in InRange : PageOf[f] = scanner[k].index}]]
    /\ UNCHANGED <<vars, now, min, deadline, expired, setter, sets>>

\* The next slot of the page is loaded.
scanSlot(k) ==
    /\ scanner[k].pc = "scan"
    /\ \E f \in scanner[k].left :
          /\ \A g \in scanner[k].left : f <= g
          /\ LET c == slot[scanner[k].page][f]
             IN scanner' = [scanner EXCEPT ![k] =
                    [@ EXCEPT !.pc = IF c = nil THEN "scan" ELSE "conn",
                              !.left = scanner[k].left \ {f},
                              !.conn = c]]
    /\ UNCHANGED <<vars, now, min, deadline, expired, setter, sets>>

\* The earliest deadline of a scan that has found d.
Earlier(next, d) == IF next = 0 \/ d < next THEN d ELSE next

\* Its connection, closed by now perhaps, is notified when it is due, and any other
\* deadline counts for the page's next minimum.
scanConn(k) ==
    /\ scanner[k].pc = "conn"
    /\ LET c == scanner[k].conn
           d == deadline[c]
       IN /\ expired' = [expired EXCEPT ![c] = @ \/ (d # 0 /\ d <= scanner[k].now)]
          /\ scanner' = [scanner EXCEPT ![k] =
                 [@ EXCEPT !.pc = "scan",
                           !.conn = nil,
                           !.next = IF d # 0 /\ d > scanner[k].now
                                    THEN Earlier(scanner[k].next, d)
                                    ELSE scanner[k].next]]
    /\ UNCHANGED <<vars, now, min, deadline, setter, sets>>

\* Mutant of scanEnd: the minimum found replaces the page's.
scanEndStores(k) ==
    /\ scanner[k].pc = "scan" /\ scanner[k].left = {}
    /\ min' = [min EXCEPT ![scanner[k].index] = scanner[k].next]
    /\ scanner' = [scanner EXCEPT ![k] = pageDone(k)]
    /\ UNCHANGED <<vars, now, deadline, expired, setter, sets>>

scanEnd(k) ==
    /\ scanner[k].pc = "scan" /\ scanner[k].left = {}
    /\ scanner' = [scanner EXCEPT ![k] =
           IF scanner[k].next > 0 THEN [@ EXCEPT !.pc = "load"] ELSE pageDone(k)]
    /\ UNCHANGED <<vars, now, min, deadline, expired, setter, sets>>

\* The minimum found is folded back in by lowerDeadline.
foldLoad(k) ==
    /\ scanner[k].pc = "load"
    /\ LET m == min[scanner[k].index]
       IN scanner' = [scanner EXCEPT ![k] =
              IF Covers(m, scanner[k].next) THEN pageDone(k) ELSE [@ EXCEPT !.pc = "cas", !.cur = m]]
    /\ UNCHANGED <<vars, now, min, deadline, expired, setter, sets>>

foldCas(k) ==
    /\ scanner[k].pc = "cas"
    /\ IF min[scanner[k].index] = scanner[k].cur
       THEN /\ min' = [min EXCEPT ![scanner[k].index] = scanner[k].next]
            /\ scanner' = [scanner EXCEPT ![k] = pageDone(k)]
       ELSE /\ scanner' = [scanner EXCEPT ![k] = [@ EXCEPT !.pc = "load"]]
            /\ UNCHANGED min
    /\ UNCHANGED <<vars, now, deadline, expired, setter, sets>>

\* The connection's task on evExpired: it closes when the deadline, read again,
\* has passed (expiredBy).
expire(c) ==
    /\ expired[c]
    /\ expired' = [expired EXCEPT ![c] = FALSE]
    /\ IF pc[c] = "open" /\ deadline[c] # 0 /\ deadline[c] <= now
       THEN remove(c)
       ELSE UNCHANGED vars
    /\ UNCHANGED <<now, min, deadline, setter, scanner, sets>>

SetterStep(s) == noteLoad(s) \/ noteCas(s)
ScannerStep(k) == \/ scanBegin(k) \/ scanDue(k) \/ scanReset(k) \/ scanPage(k) \/ scanSlot(k)
                  \/ scanConn(k) \/ scanEnd(k) \/ foldLoad(k) \/ foldCas(k)

DeadlinesNext ==
    \/ tick
    \/ \E c \in Conns : tableStep(c) \/ expire(c)
    \/ \E s \in Setters : \/ \E c \in Conns, t \in -1..MaxTime : SetDeadline(s, c, t)
                          \/ \E c \in Conns : ClearDeadline(s, c)
                          \/ SetterStep(s)
    \/ \E k \in Scanners : ScannerStep(k)

DeadlinesSpec == DeadlinesInit /\ [][DeadlinesNext]_allVars

\* The tickers keep scanning, SetDeadline finishes and the executor runs tasks.
FairSpec == /\ DeadlinesSpec
            /\ \A s \in Setters : WF_allVars(SetterStep(s))
            /\ \A k \in Scanners : WF_allVars(ScannerStep(k))
            /\ \A c \in Conns : WF_allVars(expire(c))

(***************************************************************************)
(* Properties                                                              *)
(***************************************************************************)

\* The scan r has yet to come to connection c, or folds in a deadline as early as d.
Visits(r, c, d) ==
    /\ r.index = PageOf[fd[c]]
    /\ \/ r.pc = "page"
       \/ r.pc \in {"scan", "conn"} /\ fd[c] \in r.left
       \/ r.pc = "conn" /\ r.conn = c
       \/ r.pc \in {"scan", "conn", "load", "cas"} /\ r.next # 0 /\ r.next <= d

\* A deadline d of connection c will be found: by its page's minimum, by a
\* SetDeadline or a scan that is about to lower it or to find it, or because the
\* connection has been notified already.
Found(c, d) ==
    \/ Covers(min[PageOf[fd[c]]], d)
    \/ \E s \in Setters : setter[s].pc # "idle" /\ setter[s].index = PageOf[fd[c]] /\ setter[s].d <= d
    \/ \E k \in Scanners : Visits(scanner[k], c, d)
    \/ expired[c] /\ d <= now

\* The comment on fdTable: a deadline set concurrently with a scan, or with
\* several, is never overwritten, so no connection outlives its deadline because
\* its page is skipped.
NoDeadlineLost ==
    \A c \in Conns : pc[c] = "open" /\ deadline[c] # 0 => Found(c, deadline[c])

\* A connection whose deadline has passed closes, unless the deadline is changed.
DeadlineFires ==
    \A c \in Conns, d \in 1..MaxTime :
        (pc[c] = "open" /\ deadline[c] = d /\ d <= now) ~> (pc[c] # "open" \/ deadline[c] # d)

=============================================================================
