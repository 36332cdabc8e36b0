------------------------------ MODULE FdTable ------------------------------
(***************************************************************************)
(* connsByFd (fdtable_unix.go): the table that maps an fd to its           *)
(* connection without a lock. Every shared word is read and written on its *)
(* own: pages that several tasks may allocate at once, and slots that the  *)
(* connections which get the same fd one after the other write in turn.    *)
(* A page is named by the connection whose task built it.                  *)
(***************************************************************************)
EXTENDS Integers

CONSTANTS Conns,    \* the connections accepted in the course of time
          Fds,      \* the fd numbers the kernel hands out
          InRange,  \* those the table can hold
          Pages,    \* the indexes of the first level
          PageOf,   \* the page each fd is on
          nil

ASSUME FdTableAssumption ==
    /\ InRange \subseteq Fds
    /\ PageOf \in [Fds -> Pages]
    /\ nil \notin Conns \cup Fds

VARIABLES
    fd,    \* conn.fd, nil until the connection is accepted
    pc,    \* where its task is
    page,  \* fdTable.pages
    mine,  \* the page its task has loaded
    slot   \* the slots of every page that was ever built

vars == <<fd, pc, page, mine, slot>>

Steps == {"new", "store", "cas", "reload", "put", "open", "removed", "closed"}

TypeOK == /\ fd \in [Conns -> Fds \cup {nil}]
          /\ pc \in [Conns -> Steps]
          /\ page \in [Pages -> Conns \cup {nil}]
          /\ mine \in [Conns -> Conns \cup {nil}]
          /\ slot \in [Conns -> [Fds -> Conns \cup {nil}]]

Init == /\ fd = [c \in Conns |-> nil]
        /\ pc = [c \in Conns |-> "new"]
        /\ page = [p \in Pages |-> nil]
        /\ mine = [c \in Conns |-> nil]
        /\ slot = [c \in Conns |-> [f \in Fds |-> nil]]

goes(c, step) == pc' = [pc EXCEPT ![c] = step]

\* The connections whose fd is open.
HasFd == {"store", "cas", "reload", "put", "open", "removed"}

\* The kernel hands a free fd to a new connection.
accept(c) ==
    /\ pc[c] = "new"
    /\ \E f \in Fds :
          /\ \A d \in Conns : pc[d] \in HasFd => fd[d] # f
          /\ fd' = [fd EXCEPT ![c] = f]
    /\ goes(c, "store")
    /\ UNCHANGED <<page, mine, slot>>

\* store loads the page of the fd; a connection beyond the table's range is abandoned.
store(c) ==
    /\ pc[c] = "store"
    /\ mine' = [mine EXCEPT ![c] = IF fd[c] \in InRange THEN page[PageOf[fd[c]]] ELSE nil]
    /\ goes(c, IF fd[c] \notin InRange THEN "removed" ELSE IF mine'[c] = nil THEN "cas" ELSE "put")
    /\ UNCHANGED <<fd, page, slot>>

\* Mutant of storeCas: the page is stored whether or not there is one by now.
storeCasBlind(c) ==
    /\ pc[c] = "cas"
    /\ page' = [page EXCEPT ![PageOf[fd[c]]] = c]
    /\ goes(c, "reload")
    /\ UNCHANGED <<fd, mine, slot>>

\* The compare-and-swap of a new page.
storeCas(c) ==
    /\ pc[c] = "cas"
    /\ page' = [page EXCEPT ![PageOf[fd[c]]] = IF @ = nil THEN c ELSE @]
    /\ goes(c, "reload")
    /\ UNCHANGED <<fd, mine, slot>>

storeReload(c) ==
    /\ pc[c] = "reload"
    /\ mine' = [mine EXCEPT ![c] = page[PageOf[fd[c]]]]
    /\ goes(c, "put")
    /\ UNCHANGED <<fd, page, slot>>

storePut(c) ==
    /\ pc[c] = "put"
    /\ slot' = [slot EXCEPT ![mine[c]][fd[c]] = c]
    /\ goes(c, "open")
    /\ UNCHANGED <<fd, page, mine>>

\* remove's compare-and-swap, by close, Detach or a watch that failed.
remove(c) ==
    /\ pc[c] = "open"
    /\ slot' = IF page[PageOf[fd[c]]] = nil
               THEN slot
               ELSE [slot EXCEPT ![page[PageOf[fd[c]]]][fd[c]] = IF @ = c THEN nil ELSE @]
    /\ goes(c, "removed")
    /\ UNCHANGED <<fd, page, mine>>

\* The fd is closed, which frees its number; the connection still knows it.
closeFd(c) ==
    /\ pc[c] = "removed"
    /\ goes(c, "closed")
    /\ UNCHANGED <<fd, page, mine, slot>>

ConnStep(c) == \/ accept(c) \/ store(c) \/ storeCas(c) \/ storeReload(c) \/ storePut(c)
               \/ remove(c) \/ closeFd(c)

Next == \E c \in Conns : ConnStep(c)

Spec == Init /\ [][Next]_vars

\* lookup, of a worker with an event for f; each and checkDeadlines read the same words.
lookup(f) ==
    IF f \notin InRange THEN nil
    ELSE IF page[PageOf[f]] = nil THEN nil
    ELSE slot[page[PageOf[f]]][f]

(***************************************************************************)
(* Properties                                                              *)
(***************************************************************************)

\* store's "a stored conn never ends up in a page that was dropped": an open
\* connection is what lookup finds for its fd, so its events reach it.
LookupFindsOpen == \A c \in Conns : pc[c] = "open" => lookup(fd[c]) = c

\* lookup finds an open connection that has the fd, or nothing: never one that is
\* closed or whose fd has gone to another.
LookupFindsNothingElse ==
    \A f \in Fds : \A c \in Conns : lookup(f) = c => pc[c] = "open" /\ fd[c] = f

\* An event finds exactly the open connection that has its fd.
LookupIsExact == LookupFindsOpen /\ LookupFindsNothingElse

\* The third fact fdTable relies on: "a slot goes nil -> conn A -> nil -> conn B".
SlotsGoThroughNil ==
    [][\A d \in Conns, f \in Fds : slot[d][f] # nil => slot'[d][f] \in {slot[d][f], nil}]_vars

=============================================================================
