-------------------------------- MODULE Tls --------------------------------
(***************************************************************************)
(* A TLS connection of package ftls on a connection of the engine: the     *)
(* handshake that OnData runs as a coroutine, decrypted data passed on to  *)
(* the wrapped handler or held while reading is paused, close_notify, and  *)
(* Detach.  crypto/tls is modelled by what ftls.Conn calls of it.          *)
(*                                                                         *)
(* The client sends records, each in two halves: hello and finished, then  *)
(* data.  The wrapped handler is any one that fnet.Handler allows: it may  *)
(* leave data unconsumed, pause reading or close in OnData, keep the       *)
(* connection on a half-close; a goroutine of its own pauses and resumes   *)
(* reading, writes, closes or detaches the connection.                     *)
(***************************************************************************)
EXTENDS Engine

CONSTANTS
    MaxBatch   \* recordSize, in records: what is decrypted before it is passed on

ASSUME TlsAssumption == MaxBatch \in Nat \ {0}

VARIABLES
    t,     \* the fields of ftls.Conn and of its tls.Conn, and where the task and the app are in their calls
    app,   \* a goroutine of the wrapped handler: the calls it has left, whether it has to resume reading
    hist   \* history: the callbacks, the plaintext consumed, left and handed over, and whether
           \* Close has closed the connection: "no", "during" a callback that still runs, or "before"

tls == <<t, app, hist>>

TlsInit ==
    /\ t = [handshaking |-> TRUE, coroutine |-> "none", fed |-> 0, read |-> 0, plaintext |-> <<>>,
            batch |-> <<>>, err |-> "nil", readPaused |-> FALSE, closing |-> FALSE, readClosed |-> FALSE,
            closeErr |-> "nil", detached |-> FALSE, closed |-> FALSE, notified |-> FALSE, alerted |-> FALSE,
            writing |-> FALSE, at |-> [task |-> "none", app |-> "none"]]
    /\ app = [calls |-> sc.inputs \cap {"pause", "write", "close", "detach"}, resumes |-> FALSE]
    /\ hist = [calls |-> <<>>, consumed |-> <<>>, left |-> <<>>, rest |-> <<>>, raced |-> FALSE,
               shut |-> "no", late |-> FALSE]

In(at) == e.task = "tls" /\ t.at.task = at
Inside(th, at) == t.at[th] = at /\ (th = "task" => e.task = "tls")
\* Where a call of PauseRead or Close returns to: OnData's caller, or the app.
back(th) == IF th = "task" THEN "ended" ELSE "none"

(***************************************************************************)
(* crypto/tls, as ftls uses it                                             *)
(***************************************************************************)

\* The records TLS has in full, and those among them that a read decrypts together.
Complete(i) == i <= Len(sc.requests) /\ 2 * i <= t.fed
Readable(n) == n <= MaxBatch /\ \A i \in t.read + 1..t.read + n : Complete(i) /\ Kind(i) = "data"
\* What ends a read: a full buffer, the ciphertext used up, the peer's close_notify, a bad record.
ends(n) == LET i == t.read + n + 1 IN
           IF n = MaxBatch THEN "nil" ELSE IF ~Complete(i) THEN "wouldBlock"
           ELSE IF Kind(i) = "notify" THEN "EOF" ELSE "bad"

Record(part) == [i |-> 0, part |-> part]

\* tls.Conn.Close: the first call closes, and sends close_notify unless a Write is in flight.
tlsClose(th) ==
    /\ Inside(th, "tlsClose")
    /\ t' = [t EXCEPT !.closed = TRUE, !.at[th] = IF t.closed THEN back(th) ELSE IF t.writing THEN "rawClose" ELSE "closeNotify"]
    /\ hist' = [hist EXCEPT !.raced = @ \/ (~t.closed /\ t.writing)]
    /\ UNCHANGED <<sc, cl, e, app>>

notify == Written(IF t.notified THEN <<>> ELSE <<Record("notify")>>)
closeNotify(th) ==
    /\ Inside(th, "closeNotify")
    /\ e' = notify
    /\ t' = [t EXCEPT !.notified = TRUE, !.at[th] = "rawClose"]
    /\ UNCHANGED <<sc, cl, app, hist>>

rawClose(th) ==
    /\ Inside(th, "rawClose")
    /\ e' = [e EXCEPT !.closing = TRUE]
    /\ t' = [t EXCEPT !.at[th] = back(th)]
    /\ hist' = [hist EXCEPT !.shut = IF e.task \in {"OnData", "tls"} THEN "during" ELSE "before"]
    /\ UNCHANGED <<sc, cl, app>>

(***************************************************************************)
(* The methods of ftls.Conn, called in OnData or by the app                *)
(***************************************************************************)

\* PauseRead: the engine's reading first.
PauseRead(th) ==
    /\ Inside(th, "pause")
    /\ e' = [e EXCEPT !.paused = TRUE]
    /\ t' = [t EXCEPT !.at[th] = "readPaused"]
    /\ UNCHANGED <<sc, cl, app, hist>>

readPaused(th) ==
    /\ Inside(th, "readPaused")
    /\ t' = [t EXCEPT !.readPaused = TRUE, !.at[th] = back(th)]
    /\ app' = [app EXCEPT !.resumes = TRUE]
    /\ UNCHANGED <<sc, cl, e, hist>>

\* ResumeRead, by the app: the engine's reading last.
ResumeRead ==
    /\ t.at.app = "none" /\ app.resumes
    /\ t' = [t EXCEPT !.readPaused = FALSE, !.at.app = "resume"]
    /\ app' = [app EXCEPT !.resumes = FALSE]
    /\ UNCHANGED <<sc, cl, e, hist>>

resumeEngine ==
    /\ t.at.app = "resume"
    /\ e' = Resumed
    /\ t' = [t EXCEPT !.at.app = "none"]
    /\ UNCHANGED <<sc, cl, app, hist>>

Close(th) ==
    /\ Inside(th, "close")
    /\ t' = [t EXCEPT !.closing = @ \/ ~t.detached, !.at[th] = IF t.detached THEN back(th) ELSE "tlsClose"]
    /\ UNCHANGED <<sc, cl, e, app, hist>>

\* Write: refused once TLS is closed; in flight from there until the record is written.
TlsWrite ==
    /\ t.at.app = "write"
    /\ LET may == ~t.detached /\ ~t.closed
       IN t' = [t EXCEPT !.writing = may, !.at.app = IF may THEN "writing" ELSE "none"]
    /\ UNCHANGED <<sc, cl, e, app, hist>>

written ==
    /\ t.at.app = "writing"
    /\ e' = IF t.notified \/ t.alerted THEN e ELSE Written(<<Record("record")>>)
    /\ t' = [t EXCEPT !.writing = FALSE, !.at.app = "none"]
    /\ UNCHANGED <<sc, cl, app, hist>>

\* Detach waits for the task, and hands over the plaintext held; it fails on a connection
\* that is closing.
Detach ==
    /\ t.at.app = "detach" /\ (Refused \/ e.task = "idle")
    /\ t' = [t EXCEPT !.at.app = "none", !.detached = ~Refused, !.plaintext = IF Refused THEN @ ELSE <<>>]
    /\ e' = IF Refused THEN e ELSE Detached
    /\ cl' = IF Refused THEN cl ELSE [cl EXCEPT !.got = wire]
    /\ hist' = [hist EXCEPT !.rest = IF Refused THEN @ ELSE t.plaintext]
    /\ UNCHANGED <<sc, app>>

\* The detached connection: Read returns the plaintext handed over, then what TLS reads.
detachedRead ==
    /\ t.detached /\ t.at.app = "none" /\ hist.rest # <<>>
    /\ hist' = [hist EXCEPT !.consumed = @ \o hist.rest, !.rest = <<>>]
    /\ UNCHANGED <<sc, cl, e, t, app>>

rawRead ==
    /\ t.detached /\ t.at.app = "none" /\ hist.rest = <<>> /\ e.rx > 0
    /\ e' = [e EXCEPT !.rx = 0]
    /\ t' = [t EXCEPT !.fed = @ + e.rx]
    /\ UNCHANGED <<sc, cl, app, hist>>

tlsRead ==
    /\ t.detached /\ t.at.app = "none" /\ hist.rest = <<>> /\ Readable(1)
    /\ t' = [t EXCEPT !.read = @ + 1]
    /\ hist' = [hist EXCEPT !.consumed = Append(@, t.read + 1)]
    /\ UNCHANGED <<sc, cl, e, app>>

\* The app makes its calls once the connection is open, in any order; it detaches what
\* the handler has paused.
appCalls ==
    /\ t.at.app = "none" /\ ~t.handshaking
    /\ \E call \in app.calls :
         /\ call = "detach" => app.resumes
         /\ call = "pause" => ~app.resumes
         /\ t' = [t EXCEPT !.at.app = call]
         /\ app' = [app EXCEPT !.calls = @ \ {call}, !.resumes = @ /\ call # "detach"]
    /\ UNCHANGED <<sc, cl, e, hist>>

(***************************************************************************)
(* The engine's callbacks                                                  *)
(***************************************************************************)

returns == [e EXCEPT !.task = "idle"]
over(s) == [s EXCEPT !.shut = IF @ = "during" THEN "before" ELSE @]
\* A callback of the wrapped handler; of calls of OnData and OnResume in a row the first is
\* noted.
Repeats == {"OnData", "OnResume"}
upcall(name) == [hist EXCEPT !.calls = IF Len(@) > 0 /\ {Last(@), name} \subseteq Repeats THEN @ ELSE Append(@, name)]

TlsOnData ==
    /\ e.task = "OnData"
    /\ IF t.readClosed
       THEN e' = [returns EXCEPT !.data = 0] /\ hist' = over(hist) /\ UNCHANGED t
       ELSE /\ e' = [e EXCEPT !.data = 0, !.task = "tls"]
            /\ t' = [t EXCEPT !.fed = @ + e.data, !.at.task = IF t.handshaking THEN "open" ELSE "drain"]
            /\ UNCHANGED hist
    /\ UNCHANGED <<sc, cl, app>>

\* open: the coroutine goes on with the handshake's records at hand, and waits for more.
openWaits ==
    /\ In("open") /\ t.read < 2 /\ ~Complete(t.read + 1)
    /\ t' = [t EXCEPT !.coroutine = "waiting", !.at.task = "none"]
    /\ e' = returns
    /\ UNCHANGED <<sc, cl, app, hist>>

handshake ==
    /\ In("open") /\ t.read < 2 /\ Complete(t.read + 1) /\ Kind(t.read + 1) \in {"hello", "finished"}
    /\ t' = [t EXCEPT !.coroutine = "waiting", !.read = @ + 1]
    /\ e' = IF t.read = 0 THEN Written(<<Record("hello")>>) ELSE e
    /\ UNCHANGED <<sc, cl, app, hist>>

openFails ==
    /\ In("open") /\ t.read < 2 /\ Complete(t.read + 1) /\ Kind(t.read + 1) \notin {"hello", "finished"}
    /\ t' = [t EXCEPT !.coroutine = "over", !.at.task = "none"]
    /\ e' = [Written(<<Record("alert")>>) EXCEPT !.closing = TRUE, !.task = "idle"]
    /\ UNCHANGED <<sc, cl, app, hist>>

open ==
    /\ In("open") /\ t.read = 2
    /\ t' = [t EXCEPT !.handshaking = FALSE, !.coroutine = "none", !.at.task = "drain"]
    /\ e' = [e EXCEPT !.deadline = "none"]
    /\ hist' = upcall("OnOpen")
    /\ UNCHANGED <<sc, cl, app>>

\* readPlaintext: the records at hand are decrypted together, as many as fit.
readPlaintext ==
    /\ In("drain")
    /\ \E n \in 0..MaxBatch :
         /\ Readable(n) /\ ~Readable(n + 1)
         /\ t' = [t EXCEPT !.batch = [j \in 1..n |-> t.read + j], !.read = @ + n, !.err = ends(n),
                           !.at.task = IF n > 0 THEN "deliver" ELSE "ended"]
    /\ UNCHANGED <<sc, cl, e, app, hist>>

deliverHolds ==
    /\ In("deliver") /\ t.readPaused
    /\ t' = [t EXCEPT !.plaintext = @ \o t.batch, !.batch = <<>>, !.at.task = "ended"]
    /\ UNCHANGED <<sc, cl, e, app, hist>>

\* Fresh: newly decrypted, and not only what OnResume passes on again.
Fresh == t.batch # <<>>

\* The handler consumes all it is given, or leaves the last record, and returns, pauses
\* reading or closes the connection.
deliverData ==
    /\ In("deliver") /\ ~t.readPaused
    /\ LET data == t.plaintext \o t.batch
       IN \E left \in 0..1, does \in {"ended", "pause", "close"} :
            /\ left = 1 => May("leaves") /\ data # <<>>
            /\ does = "pause" => May("pauses")
            /\ does = "close" => May("closes")
            /\ t' = [t EXCEPT !.plaintext = SubSeq(data, Len(data) - left + 1, Len(data)), !.batch = <<>>, !.at.task = does]
            /\ hist' = [upcall("OnData") EXCEPT !.consumed = @ \o SubSeq(data, 1, Len(data) - left),
                                                !.left = SubSeq(data, Len(data) - left + 1, Len(data)),
                                                !.late = @ \/ (Fresh /\ hist.shut = "before")]
    /\ UNCHANGED <<sc, cl, e, app>>

\* drain reads on after a full buffer, whatever the handler did in OnData.
drainGoesOn ==
    /\ In("ended") /\ t.err \in {"nil", "wouldBlock"}
    /\ t' = [t EXCEPT !.at.task = IF t.err = "nil" THEN "drain" ELSE "none"]
    /\ e' = IF t.err = "nil" THEN e ELSE returns
    /\ hist' = IF t.err = "nil" THEN hist ELSE over(hist)
    /\ UNCHANGED <<sc, cl, app>>

\* The peer's close_notify: the handler is asked once whether it keeps the connection.
asks == upcall("OnHalfClose")
drainHalfCloses ==
    /\ In("ended") /\ t.err = "EOF" /\ (t.readClosed \/ May("keep"))
    /\ t' = [t EXCEPT !.readClosed = TRUE, !.at.task = "none"]
    /\ hist' = over(IF t.readClosed THEN hist ELSE asks)
    /\ e' = returns
    /\ UNCHANGED <<sc, cl, app>>

drainCloses ==
    /\ In("ended") /\ (t.err = "bad" \/ (t.err = "EOF" /\ ~t.readClosed /\ ~May("keep")))
    /\ t' = [t EXCEPT !.closeErr = IF t.closing THEN @ ELSE t.err, !.alerted = @ \/ t.err = "bad", !.err = "wouldBlock",
                      !.at.task = "tlsClose"]
    /\ hist' = IF t.err = "EOF" THEN asks ELSE hist
    /\ e' = IF t.err = "bad" THEN Written(<<Record("alert")>>) ELSE e
    /\ UNCHANGED <<sc, cl, app>>

TlsOnHalfClose ==
    /\ e.task = "OnHalfClose"
    /\ LET kept == ~t.handshaking /\ (t.readClosed \/ May("keep"))
       IN /\ e' = [e EXCEPT !.task = IF kept \/ e.closing THEN "idle" ELSE "OnClosing", !.readClosed = kept]
          /\ t' = [t EXCEPT !.readClosed = @ \/ kept]
    /\ hist' = IF t.handshaking \/ t.readClosed THEN hist ELSE asks
    /\ UNCHANGED <<sc, cl, app>>

\* Mutant of OnClosing: only Close sends close_notify.
OnClosingSilent ==
    /\ e.task = "OnClosing"
    /\ e' = [e EXCEPT !.task = "requestClose"]
    /\ t' = IF t.handshaking THEN t ELSE [t EXCEPT !.closing = TRUE]
    /\ hist' = IF t.handshaking THEN hist ELSE upcall("OnClosing")
    /\ UNCHANGED <<sc, cl, app>>

\* OnClosing: close_notify goes out before the engine closes the connection on its own,
\* after the wrapped handler's OnClosing.
OnClosing ==
    /\ e.task = "OnClosing"
    /\ e' = [(IF t.handshaking THEN e ELSE notify) EXCEPT !.task = "requestClose"]
    /\ t' = IF t.handshaking THEN t ELSE [t EXCEPT !.closing = TRUE, !.notified = TRUE]
    /\ hist' = IF t.handshaking THEN hist ELSE upcall("OnClosing")
    /\ UNCHANGED <<sc, cl, app>>

TlsOnWritable ==
    /\ e.task = "OnWritable"
    /\ e' = returns
    /\ UNCHANGED <<sc, cl, tls>>

\* Mutant of TlsOnResume: the plaintext held waits for more data to arrive.
TlsOnResumeWaits ==
    /\ e.task = "OnResume"
    /\ e' = returns
    /\ hist' = IF t.handshaking THEN hist ELSE upcall("OnResume")
    /\ UNCHANGED <<sc, cl, t, app>>

\* OnResume: what is held is passed on, without waiting for more; then comes the wrapped
\* handler's OnResume.
TlsOnResume ==
    /\ e.task = "OnResume"
    /\ IF ~t.handshaking /\ t.plaintext # <<>> /\ ~t.readPaused
       THEN t' = [t EXCEPT !.at.task = "deliver", !.err = "resumed"] /\ e' = [e EXCEPT !.task = "tls"] /\ UNCHANGED hist
       ELSE e' = returns /\ hist' = (IF t.handshaking THEN hist ELSE upcall("OnResume")) /\ UNCHANGED t
    /\ UNCHANGED <<sc, cl, app>>

TlsResumed ==
    /\ In("ended") /\ t.err = "resumed"
    /\ t' = [t EXCEPT !.err = "wouldBlock", !.at.task = "none"]
    /\ e' = returns
    /\ hist' = over(upcall("OnResume"))
    /\ UNCHANGED <<sc, cl, app>>

\* Mutant of TlsOnClose: the coroutine of a handshake that waits for data is left alone.
TlsOnCloseLeaves ==
    /\ e.task = "OnClose"
    /\ t' = IF t.handshaking THEN t ELSE [t EXCEPT !.plaintext = <<>>]
    /\ hist' = IF t.handshaking THEN hist ELSE [upcall("OnClose") EXCEPT !.rest = t.plaintext]
    /\ e' = [e EXCEPT !.task = "done"]
    /\ UNCHANGED <<sc, cl, app>>

\* OnClose ends a handshake that waits, or is passed on and drops the plaintext held.
TlsOnClose ==
    /\ e.task = "OnClose"
    /\ t' = IF t.handshaking THEN [t EXCEPT !.coroutine = IF @ = "waiting" THEN "over" ELSE @]
            ELSE [t EXCEPT !.plaintext = <<>>]
    /\ hist' = IF t.handshaking THEN hist ELSE [upcall("OnClose") EXCEPT !.rest = t.plaintext]
    /\ e' = [e EXCEPT !.task = "done"]
    /\ UNCHANGED <<sc, cl, app>>

TlsOnDataStep == \/ TlsOnData \/ openWaits \/ handshake \/ openFails \/ open
                 \/ readPlaintext \/ deliverHolds \/ deliverData \/ drainGoesOn \/ drainHalfCloses \/ drainCloses
ConnStep == \/ \E th \in {"task", "app"} :
                 tlsClose(th) \/ closeNotify(th) \/ rawClose(th) \/ PauseRead(th) \/ readPaused(th) \/ Close(th)
            \/ ResumeRead \/ resumeEngine \/ TlsWrite \/ written \/ Detach \/ detachedRead \/ rawRead \/ tlsRead \/ appCalls
TlsStep == TlsOnDataStep \/ ConnStep \/ TlsOnHalfClose \/ OnClosing \/ TlsOnWritable \/ TlsOnResume \/ TlsResumed \/ TlsOnClose

\* The client finishes the handshake once it has the server's flight.
TlsClient ==
    /\ (clientSends /\ (cl.sent >= 2 => cl.got # <<>>)) \/ clientCloses
    /\ UNCHANGED tls

TlsNext == TlsStep \/ (EngineStep /\ UNCHANGED tls) \/ TlsClient

(***************************************************************************)
(* Properties                                                              *)
(***************************************************************************)

TlsTypeOK ==
    /\ t.fed \in 0..2 * Len(sc.requests) /\ t.read \in 0..Len(sc.requests)
    /\ t.coroutine \in {"none", "waiting", "over"} /\ t.err \in {"nil", "wouldBlock", "EOF", "bad", "resumed"}
    /\ app.calls \subseteq sc.inputs /\ app.resumes \in BOOLEAN

\* Plaintext reaches the wrapped handler exactly once and in the order the peer sent it,
\* whatever pauses, closes and Detach do between OnData and OnResume, and none of it is
\* left behind: between two callbacks TLS has read every record it has in full, and what
\* is held without the handler having seen it waits for a ResumeRead, or for the OnResume
\* that one has asked for.
DataRecords == SelectSeq([i \in 1..t.read |-> i], LAMBDA i : Kind(i) = "data")
PlaintextIsExact ==
    /\ hist.consumed \o hist.rest \o t.plaintext \o t.batch = DataRecords
    /\ (Free /\ ~t.handshaking /\ ~t.closed) =>
         /\ ~t.readClosed => ~Complete(t.read + 1)
         /\ t.plaintext # hist.left => app.resumes \/ e.resumed \/ t.at.app \in {"resume", "detach"}
    /\ t.detached => e.data = 0 /\ (t.readClosed \/ t.fed + e.rx = cl.sent)

\* The wrapped handler sees a connection from OnOpen to OnClose, once the handshake has
\* succeeded and not at all when it fails: OnOpen is the first callback and OnClose the
\* last one, which comes unless the connection was detached; a half-close is asked about
\* once, by the peer's close_notify or its FIN; OnClosing comes once at most; and no
\* handshake outlives its connection.
Calls(name) == {i \in DOMAIN hist.calls : hist.calls[i] = name}
HandshakeIsExact ==
    /\ TlsTypeOK
    /\ Calls("OnOpen") = IF t.handshaking THEN {} ELSE {1}
    /\ t.handshaking => hist.calls = <<>>
    /\ \A i \in Calls("OnClose") : i = Len(hist.calls)
    /\ \A name \in {"OnHalfClose", "OnClosing"} : \A i, j \in Calls(name) : i = j
    /\ (e.task = "done" /\ ~t.handshaking) => (Calls("OnClose") # {} <=> ~t.detached)
    /\ (e.task = "done" /\ t.handshaking) => t.coroutine # "waiting"

\* Once Close has closed the connection, no callback that begins afterwards passes on
\* newly decrypted plaintext. This is less than fnet.go:153 promises of Close ("OnData is
\* not called again", but for one call when another goroutine closes): ftls calls OnData
\* again, as often as the records at hand fill a buffer, in the callback that Close was
\* called in or during (drainGoesOn does not look at closing), and once more for the
\* plaintext held when OnResume comes after Close (TlsOnResume does not either). Both
\* cases are excepted here by name: shut = "during", and ~Fresh.
NothingAfterClose == ~hist.late

\* What the wrapped handler sees of a TLS connection: its plaintext, the callbacks of
\* fnet.Handler in their order, and nothing new after Close but for the two cases that
\* NothingAfterClose excepts.
HandlerSeesPlaintext == PlaintextIsExact /\ HandshakeIsExact /\ NothingAfterClose

\* close_notify goes out before an open connection is closed, whoever closes it, unless
\* the connection failed or tls.Conn.Close found a Write in flight; no record of Write
\* follows it.
Parts(part) == {i \in DOMAIN wire : wire[i].part = part}
CloseNotifyIsSent ==
    /\ (~t.handshaking /\ e.closing /\ ~e.closed /\ ~May("reset")) => Parts("notify") # {} \/ hist.raced
    /\ \A i \in Parts("notify") : \A j \in i + 1..Len(wire) : wire[j].part = "alert"

=============================================================================
