-------------------------- MODULE DeadlinesProofs --------------------------
(***************************************************************************)
(* The table of connections and the deadlines in it, for any number of     *)
(* connections, fds, pages, goroutines and tickers and however far the     *)
(* clock runs.  The table (FdTable) needs no lock: lookup finds exactly    *)
(* the open connections, and a slot goes through nil between two of them.  *)
(* And no deadline is lost (Deadlines).  NoDeadlineLost is inductive       *)
(* together with what the threads in lowerDeadline know of the minimum     *)
(* they loaded, with what a scan knows of its page, and with the invariant *)
(* of the table, which says that a scan that comes to the slot of an open  *)
(* connection finds it there.                                              *)
(***************************************************************************)
EXTENDS Deadlines, TLAPS

(***************************************************************************)
(* The table                                                               *)
(***************************************************************************)

\* An fd belongs to one live connection at a time.
FdsAreOwned ==
    /\ \A c \in Conns : pc[c] # "new" => fd[c] # nil
    /\ \A c, d \in Conns : pc[c] \in HasFd /\ pc[d] \in HasFd /\ fd[c] = fd[d] => c = d
    /\ \A c \in Conns : pc[c] \in {"cas", "reload", "put", "open"} => fd[c] \in InRange

\* A task past the compare-and-swap has the page everybody has.
PageIsThere ==
    \A c \in Conns :
        /\ pc[c] \in {"reload", "put", "open"} => page[PageOf[fd[c]]] # nil
        /\ pc[c] = "put" => mine[c] = page[PageOf[fd[c]]]

\* A slot that is not nil holds the open connection that has its fd, and its page is
\* the one in the first level.
SlotsAreOwned ==
    \A d, c \in Conns, f \in Fds :
        slot[d][f] = c => pc[c] = "open" /\ fd[c] = f /\ page[PageOf[f]] = d

IInv == TypeOK /\ FdsAreOwned /\ PageIsThere /\ SlotsAreOwned /\ LookupFindsOpen

\* No connection has an fd yet, and connsByFd has no page.
LEMMA InitIInv == Init => IInv
  BY FdTableAssumption DEF Init, IInv, TypeOK, FdsAreOwned, PageIsThere, SlotsAreOwned, LookupFindsOpen,
     HasFd, Steps

\* A step that leaves pages, slots and the open connections alone keeps what
\* lookup finds.
LEMMA TableUntouched ==
    ASSUME IInv, NEW c \in Conns, NEW step \in Steps \ {"open"}, goes(c, step), pc[c] # "open",
           UNCHANGED <<page, slot>>,
           \A d \in Conns : d # c => fd'[d] = fd[d]
    PROVE  SlotsAreOwned' /\ LookupFindsOpen'
  <1>1. \A d \in Conns : pc'[d] = "open" <=> pc[d] = "open"
    BY DEF goes, IInv, TypeOK
  <1>2. \A d \in Conns : pc[d] = "open" => fd'[d] = fd[d]
    OBVIOUS
  <1>3. SlotsAreOwned'
    BY <1>1, <1>2 DEF IInv, SlotsAreOwned
  <1>4. LookupFindsOpen'
    BY <1>1, <1>2 DEF IInv, LookupFindsOpen, lookup
  <1>5. QED
    BY <1>3, <1>4

\* Every step of store, lookup's callers and remove keeps the invariant.
LEMMA StepIInv ==
    ASSUME IInv, NEW c \in Conns, ConnStep(c)
    PROVE  IInv'
  <1> USE FdTableAssumption
  <1>0. TypeOK /\ FdsAreOwned /\ PageIsThere /\ SlotsAreOwned /\ LookupFindsOpen
    BY DEF IInv
  <1>1. CASE accept(c)
    <2>1. PICK f \in Fds : (\A d \in Conns : pc[d] \in HasFd => fd[d] # f) /\ fd' = [fd EXCEPT ![c] = f]
      BY <1>1, Zenon DEF accept
    <2>2. TypeOK'
      BY <1>0, <1>1, <2>1 DEF accept, goes, TypeOK, Steps
    <2>3. FdsAreOwned'
      BY <1>0, <1>1, <2>1 DEF accept, goes, TypeOK, FdsAreOwned, HasFd
    <2>4. PageIsThere'
      BY <1>0, <1>1, <2>1 DEF accept, goes, TypeOK, PageIsThere
    <2>5. SlotsAreOwned' /\ LookupFindsOpen'
      BY <1>1, <2>1, TableUntouched DEF accept, IInv, TypeOK, Steps
    <2>6. QED
      BY <2>2, <2>3, <2>4, <2>5 DEF IInv
  <1>2. CASE store(c)
    <2>1. PICK step \in {"removed", "cas", "put"} :
              /\ goes(c, step)
              /\ step # "removed" => fd[c] \in InRange
              /\ step = "put" => mine'[c] = page[PageOf[fd[c]]] /\ mine'[c] # nil
      <3>1. fd[c] \in InRange => mine'[c] = page[PageOf[fd[c]]]
        BY <1>0, <1>2 DEF store, TypeOK
      <3>2. QED
        BY <1>2, <3>1 DEF store
    <2>2. TypeOK'
      <3>1. mine' \in [Conns -> Conns \cup {nil}]
        BY <1>0, <1>2 DEF store, TypeOK
      <3>2. pc' \in [Conns -> Steps]
        BY <1>0, <2>1 DEF goes, TypeOK, Steps
      <3>3. QED
        BY <1>0, <1>2, <3>1, <3>2 DEF store, TypeOK
    <2>3. FdsAreOwned'
      BY <1>0, <1>2, <2>1 DEF store, goes, TypeOK, FdsAreOwned, HasFd
    <2>4. PageIsThere'
      <3>1. \A d \in Conns : d # c => mine'[d] = mine[d]
        BY <1>0, <1>2 DEF store, TypeOK
      <3>2. fd' = fd /\ page' = page /\ \A d \in Conns : pc'[d] = IF d = c THEN step ELSE pc[d]
        BY <1>0, <1>2, <2>1 DEF store, goes, TypeOK
      <3>3. QED
        BY <1>0, <2>1, <3>1, <3>2 DEF PageIsThere
    <2>5. SlotsAreOwned' /\ LookupFindsOpen'
      BY <1>2, <2>1, TableUntouched DEF store, Steps
    <2>6. QED
      BY <2>2, <2>3, <2>4, <2>5 DEF IInv
  <1>3. CASE storeCas(c)
    <2>1. fd[c] \in InRange /\ PageOf[fd[c]] \in Pages
      BY <1>0, <1>3 DEF storeCas, FdsAreOwned
    <2>2. /\ \A p \in Pages : page[p] # nil => page'[p] = page[p]
          /\ page'[PageOf[fd[c]]] # nil
      BY <1>0, <1>3, <2>1 DEF storeCas, TypeOK
    <2>3. TypeOK'
      BY <1>0, <1>3, Zenon DEF storeCas, goes, TypeOK, Steps
    <2>4. FdsAreOwned'
      BY <1>0, <1>3 DEF storeCas, goes, TypeOK, FdsAreOwned, HasFd
    <2>5. \A d \in Conns : pc[d] = "open" => fd[d] \in InRange /\ PageOf[fd[d]] \in Pages
      BY <1>0 DEF FdsAreOwned
    <2>6. fd' = fd /\ slot' = slot /\ mine' = mine /\ \A d \in Conns : pc'[d] = IF d = c THEN "reload" ELSE pc[d]
      BY <1>0, <1>3 DEF storeCas, goes, TypeOK
    <2>7. PageIsThere'
      BY <1>0, <1>3, <2>1, <2>2, <2>6 DEF storeCas, PageIsThere, FdsAreOwned
    <2>8. SlotsAreOwned'
      BY <1>0, <1>3, <2>2, <2>5, <2>6 DEF storeCas, SlotsAreOwned
    <2>9. LookupFindsOpen'
      BY <1>0, <1>3, <2>2, <2>5, <2>6 DEF storeCas, LookupFindsOpen, lookup, PageIsThere
    <2>10. QED
      BY <2>3, <2>4, <2>7, <2>8, <2>9 DEF IInv
  <1>4. CASE storeReload(c)
    <2>1. TypeOK'
      BY <1>0, <1>4 DEF storeReload, goes, TypeOK, FdsAreOwned, Steps
    <2>2. FdsAreOwned'
      BY <1>0, <1>4 DEF storeReload, goes, TypeOK, FdsAreOwned, HasFd
    <2>3. PageIsThere'
      BY <1>0, <1>4 DEF storeReload, goes, TypeOK, PageIsThere
    <2>4. SlotsAreOwned' /\ LookupFindsOpen'
      BY <1>4, TableUntouched DEF storeReload, Steps
    <2>5. QED
      BY <2>1, <2>2, <2>3, <2>4 DEF IInv
  <1>5. CASE storePut(c)
    <2>1. fd[c] \in InRange /\ mine[c] \in Conns /\ mine[c] = page[PageOf[fd[c]]]
      BY <1>0, <1>5 DEF storePut, TypeOK, FdsAreOwned, PageIsThere
    <2>2. \A d \in Conns, f \in Fds :
              slot'[d][f] = IF d = mine[c] /\ f = fd[c] THEN c ELSE slot[d][f]
      BY <1>0, <1>5, <2>1 DEF storePut, TypeOK
    <2>3. TypeOK'
      BY <1>0, <1>5, <2>1 DEF storePut, goes, TypeOK, Steps
    <2>4. FdsAreOwned'
      BY <1>0, <1>5, <2>1 DEF storePut, goes, TypeOK, FdsAreOwned, HasFd
    <2>5. PageIsThere'
      BY <1>0, <1>5, <2>1 DEF storePut, goes, TypeOK, PageIsThere
    <2>6. fd' = fd /\ page' = page /\ \A d \in Conns : pc'[d] = IF d = c THEN "open" ELSE pc[d]
      BY <1>0, <1>5 DEF storePut, goes, TypeOK
    <2>7. SlotsAreOwned'
      BY <1>0, <2>1, <2>2, <2>6 DEF SlotsAreOwned
    <2>8. LookupFindsOpen'
      BY <1>0, <1>5, <2>1, <2>2, <2>6 DEF storePut, LookupFindsOpen, lookup, FdsAreOwned, HasFd, PageIsThere, TypeOK
    <2>9. QED
      BY <2>3, <2>4, <2>5, <2>7, <2>8 DEF IInv
  <1>6. CASE remove(c)
    <2>1. fd[c] \in InRange /\ page[PageOf[fd[c]]] \in Conns /\ slot[page[PageOf[fd[c]]]][fd[c]] = c
      BY <1>0, <1>6 DEF remove, TypeOK, FdsAreOwned, PageIsThere, LookupFindsOpen, lookup
    <2>2. slot' = [slot EXCEPT ![page[PageOf[fd[c]]]][fd[c]] = nil]
      BY <1>0, <1>6, <2>1 DEF remove, TypeOK
    <2>3. \A d \in Conns, f \in Fds :
              slot'[d][f] = IF d = page[PageOf[fd[c]]] /\ f = fd[c] THEN nil ELSE slot[d][f]
      BY <1>0, <2>1, <2>2 DEF TypeOK
    <2>4. TypeOK'
      BY <1>0, <1>6, <2>1, <2>2 DEF remove, goes, TypeOK, Steps
    <2>5. FdsAreOwned'
      BY <1>0, <1>6 DEF remove, goes, TypeOK, FdsAreOwned, HasFd
    <2>6. PageIsThere'
      BY <1>0, <1>6 DEF remove, goes, TypeOK, PageIsThere
    <2>7. fd' = fd /\ page' = page /\ \A d \in Conns : pc'[d] = IF d = c THEN "removed" ELSE pc[d]
      BY <1>0, <1>6 DEF remove, goes, TypeOK
    <2>8. SlotsAreOwned'
      BY <1>0, <2>1, <2>3, <2>7 DEF SlotsAreOwned
    <2>9. LookupFindsOpen'
      <3>1. \A d \in Conns : d # c /\ pc[d] = "open" => fd[d] # fd[c] /\ fd[d] \in InRange
        BY <1>0, <1>6 DEF remove, FdsAreOwned, HasFd
      <3>2. QED
        BY <1>0, <2>1, <2>3, <2>7, <3>1 DEF LookupFindsOpen, lookup, PageIsThere, TypeOK
    <2>10. QED
      BY <2>4, <2>5, <2>6, <2>8, <2>9 DEF IInv
  <1>7. CASE closeFd(c)
    <2>1. TypeOK'
      BY <1>0, <1>7 DEF closeFd, goes, TypeOK, Steps
    <2>2. FdsAreOwned'
      BY <1>0, <1>7 DEF closeFd, goes, TypeOK, FdsAreOwned, HasFd
    <2>3. PageIsThere'
      BY <1>0, <1>7 DEF closeFd, goes, TypeOK, PageIsThere
    <2>4. SlotsAreOwned' /\ LookupFindsOpen'
      BY <1>0, <1>7, TableUntouched DEF closeFd, TypeOK, Steps
    <2>5. QED
      BY <2>1, <2>2, <2>3, <2>4 DEF IInv
  <1>8. QED
    BY <1>1, <1>2, <1>3, <1>4, <1>5, <1>6, <1>7 DEF ConnStep

\* The inductive invariant holds throughout.
THEOREM Invariance == Spec => []IInv
  <1>1. IInv /\ UNCHANGED vars => IInv'
    BY DEF IInv, TypeOK, FdsAreOwned, PageIsThere, SlotsAreOwned, LookupFindsOpen, lookup, vars
  <1>2. IInv /\ [Next]_vars => IInv'
    BY <1>1, StepIInv DEF Next
  <1>3. QED
    BY InitIInv, <1>2, PTL DEF Spec

\* The event of an open connection finds it, however many tasks allocated its page;
\* one left over for a closed connection finds nothing, or the one that has the fd now.
THEOREM OpenIsFound == Spec => []LookupIsExact
  <1>1. IInv => LookupFindsNothingElse
    BY FdTableAssumption DEF IInv, TypeOK, SlotsAreOwned, LookupFindsNothingElse, lookup
  <1>2. IInv => LookupIsExact
    BY <1>1 DEF IInv, LookupIsExact
  <1>3. QED
    BY <1>2, Invariance, PTL

\* fdTable's argument that a slot has one writer at a time.
THEOREM OneWriter == Spec => SlotsGoThroughNil
  <1>1. IInv /\ [Next]_vars =>
            [\A d \in Conns, f \in Fds : slot[d][f] # nil => slot'[d][f] \in {slot[d][f], nil}]_vars
    <2> SUFFICES ASSUME IInv, NEW c \in Conns, ConnStep(c), NEW d \in Conns, NEW f \in Fds, slot[d][f] # nil
                 PROVE  slot'[d][f] \in {slot[d][f], nil}
      BY DEF Next
    <2> USE FdTableAssumption
    <2>0. TypeOK /\ FdsAreOwned /\ PageIsThere /\ SlotsAreOwned
      BY DEF IInv
    <2>1. CASE storePut(c)
      <3>1. slot[d][f] \in Conns
        BY <2>0 DEF TypeOK
      <3>2. PICK b \in Conns : slot[d][f] = b
        BY <3>1
      <3>3. pc[b] = "open" /\ fd[b] = f /\ f # nil
        BY <2>0, <3>2 DEF SlotsAreOwned
      <3>4. ~(f = fd[c])
        BY <2>0, <2>1, <3>3, Zenon DEF storePut, FdsAreOwned, HasFd
      <3>5. QED
        BY <2>0, <2>1, <3>4 DEF storePut, TypeOK
    <2>2. CASE remove(c)
      BY <2>0, <2>2 DEF remove, TypeOK
    <2>3. CASE accept(c) \/ store(c) \/ storeCas(c) \/ storeReload(c) \/ closeFd(c)
      BY <2>3 DEF accept, store, storeCas, storeReload, closeFd
    <2>4. QED
      BY <2>1, <2>2, <2>3 DEF ConnStep
  <1>2. QED
    BY <1>1, Invariance, PTL DEF Spec, SlotsGoThroughNil

(***************************************************************************)
(* The deadlines                                                           *)
(***************************************************************************)

\* A thread about to compare-and-swap its deadline d in has found the minimum
\* missing or later, so that its success only lowers the minimum.
SettersLower == \A s \in Setters : setter[s].pc # "idle" =>
    /\ setter[s].index \in Pages
    /\ setter[s].d # 0
    /\ setter[s].pc = "cas" => ~Covers(setter[s].cur, setter[s].d)

\* A scan is at a page of the table, and folds in a deadline it has found.
ScanLower(r) ==
    /\ r.now <= now
    /\ r.pc # "due" => r.index \in Pages
    /\ r.pc \in {"scan", "conn"} => r.page # nil /\ r.page = page[r.index]
    /\ r.pc = "conn" => r.conn \in Conns
    /\ r.pc \in {"load", "cas"} => r.next # 0
    /\ r.pc = "cas" => ~Covers(r.cur, r.next)

ScannersLower == \A k \in Scanners : ScanLower(scanner[k])

\* Nobody has set a deadline of a connection that is still being stored.
NewHaveNone == \A c \in Conns : pc[c] \notin {"open", "removed", "closed"} => deadline[c] = 0

Threads == DeadlinesTypeOK /\ SettersLower /\ ScannersLower /\ NewHaveNone

DInv == IInv /\ Threads /\ NoDeadlineLost

\* Nothing is open yet.
LEMMA InitDInv == DeadlinesInit => DInv
  <1> SUFFICES ASSUME DeadlinesInit PROVE DInv
    OBVIOUS
  <1>1. IInv
    BY InitIInv DEF DeadlinesInit
  <1>2. DeadlinesTypeOK
    BY <1>1, DeadlinesAssumption DEF DeadlinesInit, DeadlinesTypeOK, IInv, SetterStates, ScannerStates, Idle, Between
  <1>3. SettersLower /\ ScannersLower /\ NewHaveNone
    BY DEF DeadlinesInit, SettersLower, ScannersLower, ScanLower, NewHaveNone, Idle, Between
  <1>4. NoDeadlineLost
    BY DEF DeadlinesInit, Init, NoDeadlineLost
  <1>5. QED
    BY <1>1, <1>2, <1>3, <1>4 DEF DInv, Threads

\* A step of another thread leaves the table as it is.
LEMMA StutterIInv == ASSUME IInv, UNCHANGED vars PROVE IInv'
  BY DEF vars, IInv, TypeOK, FdsAreOwned, PageIsThere, SlotsAreOwned, LookupFindsOpen, lookup

\* A page in the first level stays there, and a connection keeps its fd once it is open.
LEMMA TableKeeps ==
    ASSUME IInv, NEW c \in Conns, ConnStep(c)
    PROVE  /\ \A p \in Pages : page[p] # nil => page'[p] = page[p]
           /\ \A d \in Conns : pc'[d] = "open" => fd'[d] = fd[d] /\ (pc[d] = "open" \/ pc[d] = "put")
           /\ \A d \in Conns : pc[d] \in {"open", "removed", "closed"} => pc'[d] \in {"open", "removed", "closed"}
  <1>0. TypeOK
    BY DEF IInv
  <1>1. CASE accept(c)
    BY <1>0, <1>1 DEF accept, goes, TypeOK
  <1>2. CASE store(c)
    BY <1>0, <1>2 DEF store, goes, TypeOK
  <1>3. CASE storeCas(c)
    BY <1>0, <1>3 DEF storeCas, goes, TypeOK
  <1>4. CASE storeReload(c)
    BY <1>0, <1>4 DEF storeReload, goes, TypeOK
  <1>5. CASE storePut(c)
    BY <1>0, <1>5 DEF storePut, goes, TypeOK
  <1>6. CASE remove(c)
    BY <1>0, <1>6 DEF remove, goes, TypeOK
  <1>7. CASE closeFd(c)
    BY <1>0, <1>7 DEF closeFd, goes, TypeOK
  <1>8. QED
    BY <1>1, <1>2, <1>3, <1>4, <1>5, <1>6, <1>7 DEF ConnStep

\* The clock and the table: a new connection has no deadline, and one that goes
\* needs none.
LEMMA TableDInv ==
    ASSUME DInv, \/ tick
                 \/ \E c \in Conns : tableStep(c) \/ expire(c)
    PROVE  DInv'
  <1>0. /\ IInv /\ DeadlinesTypeOK /\ SettersLower /\ ScannersLower /\ NewHaveNone /\ NoDeadlineLost
        /\ TypeOK
    BY DEF DInv, Threads, DeadlinesTypeOK
  <1>1. CASE tick
    <2>1. IInv'
      BY <1>0, <1>1 DEF tick, vars, IInv, TypeOK, FdsAreOwned, PageIsThere, SlotsAreOwned, LookupFindsOpen, lookup
    <2>2. DeadlinesTypeOK'
      BY <1>0, <1>1, <2>1 DEF tick, DeadlinesTypeOK, IInv
    <2>3. SettersLower' /\ NewHaveNone'
      BY <1>0, <1>1 DEF tick, vars, SettersLower, Covers, NewHaveNone
    <2>4. ScannersLower'
      BY <1>0, <1>1 DEF tick, vars, DeadlinesTypeOK, ScannerStates, ScannersLower, ScanLower, Covers
    <2>5. \A c \in Conns : Found(c, deadline[c]) => Found(c, deadline[c])'
      BY <1>0, <1>1 DEF tick, vars, DeadlinesTypeOK, Found, Visits, Covers
    <2>6. NoDeadlineLost'
      BY <1>0, <1>1, <2>5 DEF tick, vars, NoDeadlineLost
    <2>7. QED
      BY <2>1, <2>2, <2>3, <2>4, <2>6 DEF DInv, Threads
  <1>2. ASSUME NEW b \in Conns, ConnStep(b) \/ UNCHANGED vars,
               UNCHANGED <<now, min, deadline, setter, scanner, sets>>,
               expired' \in [Conns -> BOOLEAN],
               \A c \in Conns : pc'[c] = "open" /\ expired[c] /\ deadline[c] # 0 /\ deadline[c] <= now => expired'[c]
        PROVE  DInv'
    <2>1. IInv'
      BY <1>0, <1>2, StepIInv, StutterIInv, Zenon
    <2>2. DeadlinesTypeOK'
      BY <1>0, <1>2, <2>1 DEF DeadlinesTypeOK, IInv
    <2>3. /\ \A p \in Pages : page[p] # nil => page'[p] = page[p]
          /\ \A c \in Conns : pc'[c] = "open" => fd'[c] = fd[c] /\ (pc[c] = "open" \/ pc[c] = "put")
          /\ \A c \in Conns : pc[c] \in {"open", "removed", "closed"} => pc'[c] \in {"open", "removed", "closed"}
      BY <1>0, <1>2, TableKeeps DEF vars
    <2>4. SettersLower' /\ NewHaveNone'
      BY <1>0, <1>2, <2>3 DEF SettersLower, Covers, NewHaveNone
    <2>5. ScannersLower'
      BY <1>0, <1>2, <2>3 DEF ScannersLower, ScanLower, Covers
    <2>6. \A c \in Conns : pc'[c] = "open" /\ deadline[c] # 0 => pc[c] = "open" /\ fd'[c] = fd[c]
      BY <1>0, <2>3 DEF NewHaveNone
    <2>7. \A c \in Conns : pc'[c] = "open" /\ deadline[c] # 0 => Found(c, deadline[c])'
      <3> SUFFICES ASSUME NEW c \in Conns, pc'[c] = "open", deadline[c] # 0
                   PROVE  Found(c, deadline[c])'
        OBVIOUS
      <3>1. Found(c, deadline[c]) /\ fd'[c] = fd[c] /\ deadline'[c] = deadline[c]
        BY <1>0, <1>2, <2>6, Zenon DEF NoDeadlineLost
      <3>2. expired[c] /\ deadline[c] <= now => expired'[c] /\ deadline'[c] <= now'
        BY <1>2
      <3>3. QED
        BY <1>2, <3>1, <3>2, Zenon DEF Found, Visits, Covers
    <2>8. NoDeadlineLost'
      BY <1>2, <2>7 DEF NoDeadlineLost
    <2>9. QED
      BY <2>1, <2>2, <2>4, <2>5, <2>8, SMTT(30) DEF DInv, Threads
  <1>3. ASSUME NEW b \in Conns, tableStep(b)
        PROVE  DInv'
    BY <1>0, <1>2, <1>3 DEF tableStep, deadlineVars, DeadlinesTypeOK
  <1>4. ASSUME NEW b \in Conns, expire(b)
        PROVE  DInv'
    <2>1. ConnStep(b) \/ UNCHANGED vars
      BY <1>4 DEF expire, ConnStep
    <2>2. expired' \in [Conns -> BOOLEAN]
      BY <1>0, <1>4 DEF expire, DeadlinesTypeOK
    <2>3. \A c \in Conns : pc'[c] = "open" /\ expired[c] /\ deadline[c] # 0 /\ deadline[c] <= now => expired'[c]
      <3>1. \A c \in Conns : c # b => expired'[c] = expired[c]
        BY <1>0, <1>4, SMTT(30) DEF expire, DeadlinesTypeOK
      <3>2. deadline[b] # 0 /\ deadline[b] <= now => pc'[b] # "open"
        BY <1>0, <1>4, Zenon DEF expire, remove, goes, vars, TypeOK
      <3>3. QED
        BY <3>1, <3>2
    <2>4. QED
      BY <1>2, <1>4, <2>1, <2>2, <2>3, Zenon DEF expire
  <1>5. QED
    BY <1>1, <1>3, <1>4

\* A step of a goroutine or a ticker leaves the table alone.
LEMMA ThreadStep ==
    ASSUME DInv, UNCHANGED vars, Threads',
           \A c \in Conns : pc[c] = "open" /\ deadline'[c] # 0 => Found(c, deadline[c])'
    PROVE  DInv'
  <1>1. IInv'
    BY StutterIInv, Zenon DEF DInv
  <1>2. NoDeadlineLost'
    BY DEF NoDeadlineLost, vars
  <1>3. QED
    BY <1>1, <1>2, Zenon DEF DInv

\* An open connection is on a page of the table.
LEMMA OpenHasPage ==
    ASSUME DInv, NEW c \in Conns, pc[c] = "open"
    PROVE  fd[c] \in InRange /\ PageOf[fd[c]] \in Pages
  BY FdTableAssumption DEF DInv, IInv, FdsAreOwned

\* SetDeadline and its lowerDeadline: a deadline stored is in the hands of the
\* goroutine that stored it until the minimum is as early.
LEMMA SetterDInv ==
    ASSUME DInv, NEW s \in Setters,
           \/ \E c \in Conns, t \in -1..MaxTime : SetDeadline(s, c, t)
           \/ \E c \in Conns : ClearDeadline(s, c)
           \/ SetterStep(s)
    PROVE  DInv'
  <1>0. /\ DeadlinesTypeOK /\ SettersLower /\ ScannersLower /\ NewHaveNone /\ NoDeadlineLost
        /\ TypeOK
    BY DEF DInv, Threads, DeadlinesTypeOK
  <1>1. ASSUME NEW b \in Conns, NEW t \in -1..MaxTime, SetDeadline(s, b, t)
        PROVE  DInv'
    <2> DEFINE d == Since(t)
               p == PageOf[fd[b]]
               new == [pc |-> "load", index |-> p, d |-> d, cur |-> 0]
    <2>0. d \in Nat /\ d # 0 /\ p \in Pages
      BY <1>1, DeadlinesAssumption, FdTableAssumption DEF Since, SetDeadline, Opened
    <2>1. /\ setter' = [setter EXCEPT ![s] = new]
          /\ deadline' = [deadline EXCEPT ![b] = d]
          /\ sets' = sets - 1 /\ sets > 0 /\ UNCHANGED <<vars, now, min, expired, scanner>>
          /\ pc[b] \in {"open", "removed", "closed"}
      BY <1>1 DEF SetDeadline, Opened
    <2> HIDE DEF d, p
    <2>2. new \in SetterStates /\ new.pc = "load" /\ new.d = d /\ new.index = p
      BY <2>0 DEF SetterStates
    <2> HIDE DEF new
    <2>3. \A r \in Setters : setter'[r] = IF r = s THEN new ELSE setter[r]
      BY <1>0, <2>1, Zenon DEF DeadlinesTypeOK
    <2>4. DeadlinesTypeOK'
      BY <1>0, <2>0, <2>1, <2>2 DEF DeadlinesTypeOK, vars, TypeOK
    <2>5. SettersLower'
      BY <1>0, <2>0, <2>2, <2>3, SMTT(30) DEF SettersLower, Covers
    <2>6. ScannersLower' /\ NewHaveNone'
      BY <1>0, <2>1, Zenon DEF ScannersLower, ScanLower, NewHaveNone, Covers, vars, DeadlinesTypeOK
    <2>7. \A c \in Conns : pc[c] = "open" /\ deadline'[c] # 0 => Found(c, deadline[c])'
      <3> SUFFICES ASSUME NEW c \in Conns, pc[c] = "open", deadline'[c] # 0
                   PROVE  Found(c, deadline[c])'
        OBVIOUS
      <3>1. CASE c = b
        <4>1. /\ setter'[s].pc # "idle" /\ setter'[s].d <= deadline'[c] /\ setter'[s].index = PageOf[fd[c]]
              /\ fd' = fd
          BY <1>0, <2>0, <2>1, <2>2, <3>1, SMTT(30) DEF DeadlinesTypeOK, vars, p
        <4>2. QED
          BY <4>1, Zenon DEF Found, Visits
      <3>2. CASE c # b
        <4>1. deadline'[c] = deadline[c] /\ Found(c, deadline[c])
          BY <1>0, <2>1, <3>2, SMTT(30) DEF DeadlinesTypeOK, NoDeadlineLost
        <4>2. setter[s].pc = "idle"
          BY <1>1, Zenon DEF SetDeadline
        <4>3. QED
          BY <2>1, <2>3, <4>1, <4>2 DEF Found, Visits, Covers, vars
      <3>3. QED
        BY <3>1, <3>2
    <2>8. QED
      BY <2>1, <2>4, <2>5, <2>6, <2>7, ThreadStep DEF Threads
  <1>2. ASSUME NEW b \in Conns, ClearDeadline(s, b)
        PROVE  DInv'
    <2>0. /\ deadline' = [deadline EXCEPT ![b] = 0] /\ sets' = sets - 1 /\ sets > 0
          /\ UNCHANGED <<now, min, expired, setter, scanner>> /\ UNCHANGED vars
      BY <1>2, Zenon DEF ClearDeadline
    <2>1. Threads'
      <3>1. sets' \in Nat
        BY <1>0, <2>0 DEF DeadlinesTypeOK
      <3>2. deadline' \in [Conns -> Nat]
        BY <1>0, <2>0 DEF DeadlinesTypeOK
      <3>3. DeadlinesTypeOK'
        BY <1>0, <2>0, <3>1, <3>2, Zenon DEF DeadlinesTypeOK, TypeOK, vars
      <3>4. SettersLower' /\ ScannersLower'
        BY <1>0, <2>0, Zenon DEF SettersLower, ScannersLower, ScanLower, Covers, vars
      <3>5. NewHaveNone'
        BY <1>0, <2>0, Zenon DEF NewHaveNone, DeadlinesTypeOK, vars
      <3>6. QED
        BY <3>3, <3>4, <3>5, Zenon DEF Threads
    <2>2. \A c \in Conns : deadline'[c] # 0 => deadline'[c] = deadline[c]
      BY <1>0, <1>2, Zenon DEF ClearDeadline, DeadlinesTypeOK
    <2>3. \A c \in Conns : pc[c] = "open" /\ deadline'[c] # 0 => Found(c, deadline[c])'
      BY <1>0, <1>2, <2>2, ZenonT(60) DEF ClearDeadline, NoDeadlineLost, Found, Visits, Covers, vars
    <2>4. QED
      BY <2>0, <2>1, <2>3, ThreadStep, Zenon
  <1>3. CASE noteLoad(s)
    <2> DEFINE m == min[setter[s].index]
    <2>0. setter[s] \in SetterStates /\ setter[s].index \in Pages /\ m \in Nat
      BY <1>0, <1>3 DEF noteLoad, DeadlinesTypeOK, SettersLower
    <2>1. Threads'
      <3>1. DeadlinesTypeOK'
        BY <1>0, <1>3, <2>0, Zenon DEF noteLoad, DeadlinesTypeOK, SetterStates, Idle, vars, TypeOK
      <3>2. SettersLower'
        BY <1>0, <1>3, <2>0 DEF noteLoad, DeadlinesTypeOK, SettersLower, SetterStates, Idle, Covers
      <3>3. ScannersLower' /\ NewHaveNone'
        BY <1>0, <1>3, Zenon DEF noteLoad, ScannersLower, ScanLower, NewHaveNone, Covers, vars
      <3>4. QED
        BY <3>1, <3>2, <3>3 DEF Threads
    <2>2. \A c \in Conns : pc[c] = "open" /\ deadline'[c] # 0 => Found(c, deadline[c])'
      <3> SUFFICES ASSUME NEW c \in Conns, pc[c] = "open", deadline'[c] # 0
                   PROVE  Found(c, deadline[c])'
        BY Zenon
      <3>1. Found(c, deadline[c]) /\ deadline[c] \in Nat
        BY <1>0, <1>3 DEF noteLoad, NoDeadlineLost, DeadlinesTypeOK
      <3>2. \A r \in Setters : r # s => setter'[r] = setter[r]
        BY <1>0, <1>3 DEF noteLoad, DeadlinesTypeOK
      <3>3. \/ setter'[s].pc # "idle" /\ setter'[s].d = setter[s].d /\ setter'[s].index = setter[s].index
            \/ Covers(m, setter[s].d)
        BY <1>0, <1>3, <2>0 DEF noteLoad, DeadlinesTypeOK, SetterStates
      <3>4. QED
        BY <1>3, <2>0, <3>1, <3>2, <3>3 DEF noteLoad, Found, Visits, Covers, vars, SetterStates
    <2>3. QED
      BY <1>3, <2>1, <2>2, ThreadStep DEF noteLoad
  <1>4. CASE noteCas(s)
    <2> DEFINE x == setter[s].index
    <2>0. setter[s] \in SetterStates /\ x \in Pages /\ min[x] \in Nat /\ setter[s].d # 0
      BY <1>0, <1>4 DEF noteCas, DeadlinesTypeOK, SettersLower
    <2>1. Threads'
      <3>1. DeadlinesTypeOK'
        <4>1. setter' \in [Setters -> SetterStates]
          <5>1. Idle \in SetterStates /\ [setter[s] EXCEPT !.pc = "load"] \in SetterStates
            BY <2>0 DEF SetterStates, Idle
          <5>2. setter' \in {[setter EXCEPT ![s] = Idle], [setter EXCEPT ![s] = [setter[s] EXCEPT !.pc = "load"]]}
            BY <1>4 DEF noteCas
          <5>3. QED
            BY <1>0, <5>1, <5>2 DEF DeadlinesTypeOK
        <4>2. min' \in [Pages -> Nat]
          BY <1>0, <1>4, <2>0 DEF noteCas, DeadlinesTypeOK, SetterStates
        <4>3. QED
          BY <1>0, <1>4, <4>1, <4>2 DEF noteCas, DeadlinesTypeOK, vars, TypeOK
      <3>2. SettersLower'
        <4>1. \A r \in Setters : r # s => setter'[r] = setter[r]
          BY <1>0, <1>4 DEF noteCas, DeadlinesTypeOK
        <4>2. setter'[s].pc # "idle" =>
                  setter'[s].pc = "load" /\ setter'[s].index = x /\ setter'[s].d = setter[s].d
          BY <1>0, <1>4, <2>0 DEF noteCas, DeadlinesTypeOK, SetterStates, Idle
        <4>3. QED
          BY <1>0, <2>0, <4>1, <4>2 DEF SettersLower, Covers
      <3>3. ScannersLower' /\ NewHaveNone'
        BY <1>0, <1>4 DEF noteCas, ScannersLower, ScanLower, NewHaveNone, Covers, vars
      <3>4. QED
        BY <3>1, <3>2, <3>3 DEF Threads
    <2>2. \A c \in Conns : pc[c] = "open" /\ deadline'[c] # 0 => Found(c, deadline[c])'
      <3> SUFFICES ASSUME NEW c \in Conns, pc[c] = "open", deadline'[c] # 0
                   PROVE  Found(c, deadline[c])'
        OBVIOUS
      <3> DEFINE y == PageOf[fd[c]]
      <3>1. Found(c, deadline[c]) /\ deadline[c] \in Nat /\ y \in Pages /\ deadline' = deadline
        BY <1>0, <1>4, OpenHasPage DEF noteCas, NoDeadlineLost, DeadlinesTypeOK
      <3>2. \A r \in Setters : r # s => setter'[r] = setter[r]
        BY <1>0, <1>4 DEF noteCas, DeadlinesTypeOK
      <3>3. \/ min' = min /\ setter'[s].pc = "load" /\ setter'[s].d = setter[s].d /\ setter'[s].index = x
            \/ min' = [min EXCEPT ![x] = setter[s].d] /\ ~Covers(min[x], setter[s].d)
        BY <1>0, <1>4, <2>0, ZenonT(60) DEF noteCas, DeadlinesTypeOK, SettersLower, SetterStates
      <3>4. Covers(min[y], deadline[c]) => Covers(min'[y], deadline[c])
        BY <1>0, <2>0, <3>1, <3>3 DEF DeadlinesTypeOK, SetterStates, Covers
      <3>5. setter[s].index = y /\ setter[s].d <= deadline[c] =>
                \/ Covers(min'[y], deadline[c])
                \/ setter'[s].pc # "idle" /\ setter'[s].d <= deadline[c] /\ setter'[s].index = y
        BY <1>0, <2>0, <3>1, <3>3, SMTT(30) DEF DeadlinesTypeOK, SetterStates, Covers
      <3>6. QED
        BY <1>4, <3>1, <3>2, <3>4, <3>5 DEF noteCas, Found, Visits, vars
    <2>3. QED
      BY <1>4, <2>1, <2>2, ThreadStep DEF noteCas
  <1>5. QED
    BY <1>1, <1>2, <1>3, <1>4 DEF SetterStep

\* A step of one scan that lowers no minimum it does not carry, and that notifies or
\* carries along the connections it comes to.
LEMMA ScanStep ==
    ASSUME DInv, NEW k \in Scanners, NEW r \in ScannerStates, ScanLower(r),
           scanner' = [scanner EXCEPT ![k] = r],
           min' \in [Pages -> Nat], expired' \in [Conns -> BOOLEAN],
           UNCHANGED <<vars, now, deadline, setter, sets>>,
           \A c \in Conns : expired[c] => expired'[c],
           \A c \in Conns : LET d == deadline[c] m == PageOf[fd[c]] IN
               pc[c] = "open" /\ d # 0 /\ (Covers(min[m], d) \/ Visits(scanner[k], c, d)) =>
                   Covers(min'[m], d) \/ Visits(r, c, d) \/ (expired'[c] /\ d <= now)
    PROVE  DInv'
  <1>0. /\ DeadlinesTypeOK /\ SettersLower /\ ScannersLower /\ NewHaveNone /\ NoDeadlineLost
    BY Zenon DEF DInv, Threads
  <1>1. \A q \in Scanners : scanner'[q] = IF q = k THEN r ELSE scanner[q]
    BY <1>0 DEF DeadlinesTypeOK
  <1>2. DeadlinesTypeOK'
    BY <1>0, SMTT(30) DEF DeadlinesTypeOK, TypeOK, vars
  <1>3. SettersLower' /\ NewHaveNone'
    BY <1>0, Zenon DEF SettersLower, NewHaveNone, Covers, vars
  <1>4. ScannersLower'
    BY <1>0, <1>1, SMTT(30) DEF ScannersLower, ScanLower, Covers, vars
  <1>5. \A c \in Conns : pc[c] = "open" /\ deadline'[c] # 0 => Found(c, deadline[c])'
    <2> SUFFICES ASSUME NEW c \in Conns, pc[c] = "open", deadline'[c] # 0
                 PROVE  Found(c, deadline[c])'
      BY Zenon
    <2>1. Found(c, deadline[c]) /\ deadline'[c] = deadline[c] /\ fd' = fd /\ setter' = setter /\ now' = now
      BY <1>0, Zenon DEF NoDeadlineLost, vars
    <2>2. CASE Covers(min[PageOf[fd[c]]], deadline[c]) \/ Visits(scanner[k], c, deadline[c])
      <3>1. Covers(min'[PageOf[fd[c]]], deadline[c]) \/ Visits(r, c, deadline[c])
                \/ (expired'[c] /\ deadline[c] <= now)
        BY <2>1, <2>2, Zenon
      <3>2. CASE Visits(r, c, deadline[c])
        <4>1. Visits(scanner[k], c, deadline[c])'
          <5>1. scanner'[k] = r
            BY <1>1, Zenon
          <5>2. QED
            BY <2>1, <3>2, <5>1, Zenon DEF Visits
        <4>2. QED
          BY <4>1 DEF Found
      <3>3. CASE Covers(min'[PageOf[fd[c]]], deadline[c]) \/ (expired'[c] /\ deadline[c] <= now)
        BY <2>1, <3>3, SMTT(30) DEF Found, Covers
      <3>4. QED
        BY <3>1, <3>2, <3>3, Zenon
    <2>3. ASSUME NEW q \in Scanners, q # k, Visits(scanner[q], c, deadline[c])
          PROVE  Found(c, deadline[c])'
      <3>1. scanner'[q] = scanner[q]
        BY <1>1, <2>3, Zenon
      <3>2. Visits(scanner[q], c, deadline[c])'
        BY <2>1, <2>3, <3>1, Zenon DEF Visits
      <3>3. QED
        BY <3>2, Zenon DEF Found
    <2>4. CASE \/ \E s \in Setters : setter[s].pc # "idle" /\ setter[s].index = PageOf[fd[c]]
                                       /\ setter[s].d <= deadline[c]
               \/ expired[c] /\ deadline[c] <= now
      BY <2>1, <2>4 DEF Found
    <2>5. QED
      BY <2>1, <2>2, <2>3, <2>4, Zenon DEF Found
  <1>6. QED
    BY <1>2, <1>3, <1>4, <1>5, ThreadStep, Zenon DEF Threads

\* checkDeadlines: what the reset forgets is what the scan has yet to visit, and
\* what it visits it notifies or carries along until the minimum is as early.
LEMMA ScannerDInv ==
    ASSUME DInv, NEW k \in Scanners, ScannerStep(k)
    PROVE  DInv'
  <1> DEFINE o == scanner[k]
             Rest == Between(o.now, o.todo)
             Carried(r, m) == \A c \in Conns : LET d == deadline[c] p == PageOf[fd[c]] IN
               pc[c] = "open" /\ d # 0 /\ (Covers(min[p], d) \/ Visits(o, c, d)) =>
                   Covers(m[p], d) \/ Visits(r, c, d) \/ (expired'[c] /\ d <= now)
  <1>0. /\ DeadlinesTypeOK /\ SettersLower /\ ScannersLower /\ NewHaveNone /\ NoDeadlineLost /\ IInv
        /\ TypeOK /\ o \in ScannerStates /\ ScanLower(o)
    BY DEF DInv, Threads, DeadlinesTypeOK, ScannersLower
  <1>1. \A c \in Conns : pc[c] = "open" =>
            /\ fd[c] \in InRange /\ PageOf[fd[c]] \in Pages
            /\ page[PageOf[fd[c]]] # nil /\ slot[page[PageOf[fd[c]]]][fd[c]] = c
    BY <1>0, OpenHasPage, FdTableAssumption, SMTT(30) DEF IInv, LookupFindsOpen, lookup
  <1>2. Rest \in ScannerStates /\ ScanLower(Rest)
    BY <1>0, ZenonT(30) DEF Between, ScannerStates, ScanLower
  <1>3. ASSUME NEW r \in ScannerStates, ScanLower(r),
               scanner' = [scanner EXCEPT ![k] = r],
               UNCHANGED <<vars, now, min, deadline, expired, setter, sets>>,
               Carried(r, min)
        PROVE  DInv'
    BY <1>0, <1>3, ScanStep, Zenon DEF DeadlinesTypeOK
  <1>4. CASE scanBegin(k)
    <2> DEFINE r == Between(now, Pages)
    <2>0. now \in Nat /\ now <= now /\ Pages \in SUBSET Pages /\ {} \in SUBSET Fds
      BY <1>0, SMTT(30) DEF DeadlinesTypeOK
    <2>1. r \in ScannerStates /\ ScanLower(r)
      BY <2>0, Zenon DEF Between, ScannerStates, ScanLower
    <2>2. Carried(r, min)
      BY <1>4 DEF scanBegin, Visits
    <2>3. QED
      BY <1>3, <1>4, <2>1, <2>2, Zenon DEF scanBegin
  <1>5. CASE scanDue(k)
    <2>1. PICK p \in o.todo : scanner' = [scanner EXCEPT ![k] =
                 IF min[p] = 0 \/ min[p] > o.now
                 THEN [o EXCEPT !.todo = o.todo \ {p}]
                 ELSE [o EXCEPT !.todo = o.todo \ {p}, !.pc = "reset", !.index = p]]
      BY <1>5, Zenon DEF scanDue
    <2>2. p \in Pages
      BY <1>0, <2>1 DEF ScannerStates
    <2>3. PICK r \in {[o EXCEPT !.todo = o.todo \ {p}], [o EXCEPT !.todo = o.todo \ {p}, !.pc = "reset", !.index = p]} :
              scanner' = [scanner EXCEPT ![k] = r]
      BY <2>1, Zenon
    <2>4. r \in ScannerStates
      <3> DEFINE rest == o.todo \ {p}
      <3>1. rest \in SUBSET Pages
        BY <1>0 DEF ScannerStates
      <3> HIDE DEF rest
      <3>2. [o EXCEPT !.todo = rest] \in ScannerStates
        BY <1>0, <3>1 DEF ScannerStates
      <3>3. [o EXCEPT !.todo = rest, !.pc = "reset", !.index = p] \in ScannerStates
        BY <1>0, <2>2, <3>1, Zenon DEF ScannerStates
      <3>4. QED
        BY <2>3, <3>2, <3>3 DEF rest
    <2>5. ScanLower(r)
      <3>1. o.pc = "due" /\ r.now = o.now /\ r.pc \in {"due", "reset"} /\ (r.pc = "reset" => r.index = p)
        BY <1>0, <1>5, <2>3, Zenon DEF scanDue, ScannerStates
      <3>2. QED
        BY <1>0, <2>2, <3>1 DEF ScanLower
    <2>6. Carried(r, min)
      BY <1>5 DEF scanDue, Visits
    <2>7. QED
      BY <1>3, <1>5, <2>3, <2>4, <2>5, <2>6, Zenon DEF scanDue
  <1>6. CASE scanReset(k)
    <2> DEFINE r == [o EXCEPT !.pc = "page"]
    <2>1. r \in ScannerStates
      BY <1>0 DEF ScannerStates
    <2>2. ScanLower(r) /\ o.index \in Pages
      BY <1>0, <1>6 DEF scanReset, ScanLower, ScannerStates
    <2>3. min' \in [Pages -> Nat] /\ \A p \in Pages : p # o.index => min'[p] = min[p]
      BY <1>0, <1>6, Zenon DEF scanReset, DeadlinesTypeOK
    <2>4. Carried(r, min')
      BY <1>0, <1>1, <1>6, <2>3 DEF scanReset, Visits, ScannerStates
    <2>5. scanner' = [scanner EXCEPT ![k] = r] /\ UNCHANGED <<vars, now, deadline, expired, setter, sets>>
      BY <1>6 DEF scanReset
    <2> HIDE DEF r
    <2>6. QED
      BY <1>0, <2>1, <2>2, <2>3, <2>4, <2>5, ScanStep, Zenon DEF DeadlinesTypeOK
  <1>7. CASE scanPage(k)
    <2>0. o.index \in Pages /\ o.pc = "page"
      BY <1>0, <1>7 DEF scanPage, ScanLower
    <2>1. CASE page[o.index] = nil
      <3>1. Carried(Rest, min)
        BY <1>1, <2>0, <2>1 DEF Visits
      <3>2. QED
        BY <1>2, <1>3, <1>7, <2>1, <3>1, Zenon DEF scanPage, pageDone
    <2>2. CASE page[o.index] # nil
      <3> DEFINE all == {f \in InRange : PageOf[f] = o.index}
                 r == [o EXCEPT !.pc = "scan", !.page = page[o.index], !.left = all]
      <3>1. page[o.index] \in Conns /\ all \in SUBSET Fds
        BY <1>0, <2>0, <2>2, FdTableAssumption, SMTT(30) DEF TypeOK
      <3>2. r \in ScannerStates
        BY <1>0, <3>1, Zenon DEF ScannerStates
      <3>3. ScanLower(r)
        BY <1>0, <2>0, <2>2 DEF ScanLower, ScannerStates
      <3>4. Carried(r, min)
        BY <1>0, <1>1, <2>0 DEF Visits, ScannerStates
      <3>5. QED
        BY <1>3, <1>7, <2>2, <3>2, <3>3, <3>4, Zenon DEF scanPage
    <2>3. QED
      BY <2>1, <2>2
  <1>8. CASE scanSlot(k)
    <2>0. /\ o.index \in Pages /\ o.pc = "scan" /\ o.page = page[o.index] /\ o.page \in Conns
      BY <1>0, <1>8 DEF scanSlot, ScanLower, TypeOK
    <2>1. PICK f \in o.left : scanner' = [scanner EXCEPT ![k] =
              [o EXCEPT !.pc = IF slot[o.page][f] = nil THEN "scan" ELSE "conn",
                        !.left = o.left \ {f}, !.conn = slot[o.page][f]]]
      BY <1>8, Zenon DEF scanSlot
    <2> DEFINE b == slot[o.page][f]
               r == [o EXCEPT !.pc = IF b = nil THEN "scan" ELSE "conn", !.left = o.left \ {f}, !.conn = b]
    <2>2. b \in Conns \cup {nil} /\ f \in Fds
      BY <1>0, <2>0 DEF TypeOK, ScannerStates
    <2> HIDE DEF b
    <2>3. r \in ScannerStates
      BY <1>0, <2>2, Zenon DEF ScannerStates
    <2>4. ScanLower(r)
      BY <1>0, <2>0, <2>2 DEF ScanLower, ScannerStates
    <2>5. Carried(r, min)
      <3> SUFFICES ASSUME NEW c \in Conns, pc[c] = "open", Visits(o, c, deadline[c])
                   PROVE  Visits(r, c, deadline[c])
        OBVIOUS
      <3>1. CASE fd[c] = f /\ f \in o.left
        <4>1. b = c
          BY <1>1, <2>0, <3>1 DEF Visits, b
        <4>2. r.pc = "conn" /\ r.conn = c /\ r.index = o.index
          BY <1>0, <4>1, <2>2, FdTableAssumption DEF ScannerStates
        <4>3. QED
          BY <4>2 DEF Visits
      <3>2. CASE fd[c] # f
        BY <1>0, <2>0, <3>2 DEF Visits, ScannerStates
      <3>3. QED
        BY <2>1, <3>1, <3>2
    <2>6. QED
      BY <1>3, <1>8, <2>1, <2>3, <2>4, <2>5, Zenon DEF scanSlot, b
  <1>9. CASE scanConn(k)
    <2>0. o.pc = "conn" /\ o.conn \in Conns /\ o.now \in Nat /\ o.next \in Nat /\ o.now <= now /\ now \in Nat
      BY <1>0, <1>9 DEF scanConn, ScanLower, ScannerStates, DeadlinesTypeOK
    <2> DEFINE b == o.conn
               e == deadline[b]
               n == IF e # 0 /\ e > o.now THEN Earlier(o.next, e) ELSE o.next
               r == [o EXCEPT !.pc = "scan", !.conn = nil, !.next = n]
    <2>1. e \in Nat /\ n \in Nat
      BY <1>0, <2>0 DEF DeadlinesTypeOK, Earlier
    <2>2. /\ e # 0 /\ e > o.now => n # 0 /\ n <= e
          /\ o.next # 0 => n # 0 /\ n <= o.next
      BY <2>0, <2>1 DEF Earlier
    <2>3. /\ expired' = [expired EXCEPT ![b] = @ \/ (e # 0 /\ e <= o.now)]
          /\ scanner' = [scanner EXCEPT ![k] = r]
      BY <1>9 DEF scanConn
    <2> HIDE DEF n
    <2>4. r \in ScannerStates
      BY <1>0, <2>1, Zenon DEF ScannerStates
    <2>5. ScanLower(r)
      BY <1>0, <2>0 DEF ScanLower, ScannerStates
    <2>6. /\ expired' \in [Conns -> BOOLEAN]
          /\ \A c \in Conns : expired[c] => expired'[c]
          /\ e # 0 /\ e <= o.now => expired'[b]
      BY <1>0, <2>0, <2>3, Zenon DEF DeadlinesTypeOK
    <2>7. Carried(r, min)
      <3> SUFFICES ASSUME NEW c \in Conns, pc[c] = "open", deadline[c] # 0, Visits(o, c, deadline[c])
                   PROVE  Visits(r, c, deadline[c]) \/ (expired'[c] /\ deadline[c] <= now)
        OBVIOUS
      <3>0. deadline[c] \in Nat
        BY <1>0 DEF DeadlinesTypeOK
      <3>1. CASE fd[c] \in o.left
        BY <1>0, <3>1 DEF Visits, ScannerStates
      <3>2. CASE o.next # 0 /\ o.next <= deadline[c]
        BY <1>0, <2>0, <2>1, <2>2, <3>0, <3>2 DEF Visits, ScannerStates
      <3>3. CASE o.conn = c /\ e <= o.now
        BY <2>0, <2>1, <2>6, <3>3
      <3>4. CASE o.conn = c /\ e > o.now
        BY <1>0, <2>0, <2>1, <2>2, <3>0, <3>4 DEF Visits, ScannerStates
      <3>5. QED
        BY <2>0, <2>1, <3>1, <3>2, <3>3, <3>4 DEF Visits
    <2>8. QED
      BY <1>0, <1>9, <2>3, <2>4, <2>5, <2>6, <2>7, ScanStep, ZenonT(60) DEF scanConn, DeadlinesTypeOK
  <1>10. CASE scanEnd(k)
    <2>1. CASE o.next > 0
      <3> DEFINE r == [o EXCEPT !.pc = "load"]
      <3>1. r \in ScannerStates
        BY <1>0 DEF ScannerStates
      <3>2. ScanLower(r)
        BY <1>0, <1>10, <2>1 DEF scanEnd, ScanLower, ScannerStates
      <3>3. Carried(r, min)
        BY <1>0, <1>10 DEF scanEnd, Visits, ScannerStates
      <3>4. QED
        BY <1>3, <1>10, <2>1, <3>1, <3>2, <3>3, Zenon DEF scanEnd
    <2>2. CASE ~(o.next > 0)
      <3>1. Carried(Rest, min)
        BY <1>0, <1>10, <2>2 DEF scanEnd, Visits, ScannerStates
      <3>2. QED
        BY <1>2, <1>3, <1>10, <2>2, <3>1, Zenon DEF scanEnd, pageDone
    <2>3. QED
      BY <2>1, <2>2
  <1>11. CASE foldLoad(k)
    <2>0. o.pc = "load" /\ o.index \in Pages /\ min[o.index] \in Nat /\ o.next \in Nat
      BY <1>0, <1>11 DEF foldLoad, ScanLower, ScannerStates, DeadlinesTypeOK
    <2>1. CASE Covers(min[o.index], o.next)
      <3>1. Carried(Rest, min)
        <4>1. \A d \in Nat : o.next <= d => Covers(min[o.index], d)
          BY <2>0, <2>1 DEF Covers
        <4>2. QED
          BY <1>0, <2>0, <4>1 DEF Visits, DeadlinesTypeOK
      <3>2. QED
        BY <1>2, <1>3, <1>11, <2>1, <3>1, Zenon DEF foldLoad, pageDone
    <2>2. CASE ~Covers(min[o.index], o.next)
      <3> DEFINE m == min[o.index]
                 r == [o EXCEPT !.pc = "cas", !.cur = m]
      <3>0. m \in Nat
        BY <2>0
      <3> HIDE DEF m
      <3>1. r \in ScannerStates
        BY <1>0, <3>0, Zenon DEF ScannerStates
      <3>2. ScanLower(r)
        BY <1>0, <2>0, <2>2 DEF ScanLower, ScannerStates, m
      <3>3. Carried(r, min)
        BY <1>0, <2>0 DEF Visits, ScannerStates
      <3>4. QED
        BY <1>3, <1>11, <2>2, <3>1, <3>2, <3>3, Zenon DEF foldLoad, m
    <2>3. QED
      BY <2>1, <2>2
  <1>12. CASE foldCas(k)
    <2>0. /\ o.pc = "cas" /\ o.index \in Pages /\ min[o.index] \in Nat /\ o.next \in Nat /\ o.next # 0
          /\ ~Covers(o.cur, o.next) /\ o.cur \in Nat
      BY <1>0, <1>12 DEF foldCas, ScanLower, ScannerStates, DeadlinesTypeOK
    <2>1. CASE min[o.index] = o.cur
      <3>1. min' = [min EXCEPT ![o.index] = o.next] /\ scanner' = [scanner EXCEPT ![k] = Rest]
        BY <1>12, <2>1 DEF foldCas, pageDone
      <3>2. min' \in [Pages -> Nat] /\ \A p \in Pages : min'[p] = IF p = o.index THEN o.next ELSE min[p]
        BY <1>0, <2>0, <3>1 DEF DeadlinesTypeOK
      <3>3. Carried(Rest, min')
        <4> SUFFICES ASSUME NEW c \in Conns, pc[c] = "open",
                            Covers(min[PageOf[fd[c]]], deadline[c]) \/ Visits(o, c, deadline[c])
                     PROVE  Covers(min'[PageOf[fd[c]]], deadline[c])
          BY Zenon
        <4>1. deadline[c] \in Nat /\ PageOf[fd[c]] \in Pages
          BY <1>0, <1>1 DEF DeadlinesTypeOK
        <4>2. QED
          BY <2>0, <2>1, <3>2, <4>1 DEF Visits, Covers
      <3>4. QED
        BY <1>0, <1>2, <1>12, <3>1, <3>2, <3>3, ScanStep, Zenon DEF foldCas, DeadlinesTypeOK
    <2>2. CASE min[o.index] # o.cur
      <3> DEFINE r == [o EXCEPT !.pc = "load"]
      <3>1. r \in ScannerStates
        BY <1>0 DEF ScannerStates
      <3>2. ScanLower(r)
        BY <1>0, <2>0 DEF ScanLower, ScannerStates
      <3>3. Carried(r, min)
        BY <1>0, <2>0 DEF Visits, ScannerStates
      <3>4. QED
        BY <1>3, <1>12, <2>2, <3>1, <3>2, <3>3 DEF foldCas
    <2>3. QED
      BY <2>1, <2>2
  <1>13. QED
    BY <1>4, <1>5, <1>6, <1>7, <1>8, <1>9, <1>10, <1>11, <1>12 DEF ScannerStep

\* The inductive invariant holds throughout.
THEOREM DeadlinesInvariance == DeadlinesSpec => []DInv
  <1>1. DInv /\ UNCHANGED allVars => DInv'
    <2> SUFFICES ASSUME DInv, UNCHANGED vars, UNCHANGED deadlineVars
                 PROVE  DInv'
      BY SMTT(30) DEF allVars
    <2>1. IInv'
      BY DEF DInv, vars, IInv, TypeOK, FdsAreOwned, PageIsThere, SlotsAreOwned, LookupFindsOpen, lookup
    <2>2. DeadlinesTypeOK'
      BY <2>1, Zenon DEF DInv, Threads, deadlineVars, IInv, DeadlinesTypeOK
    <2>3. SettersLower' /\ NewHaveNone'
      BY SMTT(30) DEF DInv, Threads, deadlineVars, vars, SettersLower, NewHaveNone, Covers
    <2>4. ScannersLower'
      BY ZenonT(30) DEF DInv, Threads, deadlineVars, vars, ScannersLower, ScanLower, Covers
    <2>5. NoDeadlineLost'
      BY DEF DInv, deadlineVars, vars, NoDeadlineLost, Found, Visits, Covers
    <2>6. QED
      BY <2>1, <2>2, <2>3, <2>4, <2>5 DEF DInv, Threads
  <1>2. DInv /\ [DeadlinesNext]_allVars => DInv'
    BY <1>1, TableDInv, SetterDInv, ScannerDInv DEF DeadlinesNext
  <1>3. QED
    BY InitDInv, <1>2, PTL DEF DeadlinesSpec

\* The comment on fdTable: no deadline set during a scan is lost, so the page of
\* a connection with a deadline is never skipped past it.
THEOREM DeadlinesAreFound == DeadlinesSpec => []NoDeadlineLost
  BY DeadlinesInvariance, PTL DEF DInv

\* The table stays exact while deadlines are set and expire: the event of an open
\* connection finds it, one left over for a closed connection never finds another's.
THEOREM TableStaysExact == DeadlinesSpec => []LookupIsExact
  <1>1. DInv => LookupIsExact
    <2> SUFFICES ASSUME DInv PROVE LookupIsExact
      OBVIOUS
    <2>1. LookupFindsNothingElse
      BY FdTableAssumption DEF DInv, IInv, TypeOK, SlotsAreOwned, LookupFindsNothingElse, lookup
    <2>2. QED
      BY <2>1 DEF DInv, IInv, LookupIsExact
  <1>2. QED
    BY <1>1, DeadlinesInvariance, PTL

=============================================================================
