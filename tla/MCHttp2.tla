------------------------------ MODULE MCHttp2 ------------------------------
(* Instances of Http2 for TLC.  Every scenario asks one question and       *)
(* leaves the budgets it does not need at zero.                            *)
EXTENDS Http2

Upload == [end |-> FALSE, len |-> -1, kind |-> "good", more |-> FALSE]
Fetch  == [Upload EXCEPT !.end = TRUE]

Quiet == [streams |-> << Upload >>, data |-> 0, sizes |-> {[n |-> 1, pad |-> 0]}, trailers |-> FALSE,
          rsts |-> 0, grants |-> 0, settings |-> << >>, pings |-> 0, read |-> FALSE, writes |-> 0,
          chunk |-> 1, ends |-> {"empty"}, returns |-> {TRUE}, closing |-> FALSE, drop |-> FALSE,
          stalls |-> 0, timeout |-> FALSE, limit |-> 2]

(* Bodies that are read, dropped or cut short, padded DATA.                *)
Uploading == [Quiet EXCEPT !.data = 4, !.sizes = {[n |-> 1, pad |-> 0], [n |-> 1, pad |-> 1]},
                           !.read = TRUE, !.returns = BOOLEAN]

(* A content length the client does not keep, and trailers.                *)
Mismatched == [Quiet EXCEPT !.streams = << [Upload EXCEPT !.len = 1] >>, !.data = 2, !.trailers = TRUE,
                            !.read = TRUE]

(* Two responses share the connection window; the client grants and        *)
(* shrinks or grows windows, the socket fills, writes time out.            *)
Downloading == [Quiet EXCEPT !.streams = << Fetch, Fetch >>, !.grants = 2, !.writes = 1, !.chunk = 2,
                             !.ends = {"body"}]
Resizing == [Quiet EXCEPT !.streams = << Fetch >>, !.grants = 1, !.writes = 2, !.chunk = 1,
                          !.ends = {"empty"}, !.settings = << 0 >>]
Growing == [Resizing EXCEPT !.settings = << 2 >>, !.ends = {"body"}, !.chunk = 2, !.writes = 1]
Stalling == [Quiet EXCEPT !.streams = << Fetch, Fetch >>, !.grants = 1, !.writes = 1, !.stalls = 2,
                          !.ends = {"body"}, !.timeout = TRUE]

(* Resets of the client against responses and bodies under way.            *)
Resetting == [Quiet EXCEPT !.streams = << Upload, Fetch >>, !.rsts = 2, !.data = 1, !.read = TRUE,
                           !.ends = {"body", "trailers"}]

(* Requests that are refused, malformed or answered with a status.         *)
Refusing == [Quiet EXCEPT !.streams = << [Upload EXCEPT !.kind = "status", !.more = TRUE],
                                        [Upload EXCEPT !.kind = "bad"] >>,
                          !.data = 2, !.trailers = TRUE]
Crowding == [Quiet EXCEPT !.streams = << Upload, Upload >>, !.limit = 1, !.trailers = TRUE,
                          !.data = 1, !.pings = 1]

(* More uploads answered early than resets are remembered, with trailers   *)
(* under way; a response without a body that is flushed.                   *)
Evicting == [Quiet EXCEPT !.streams = << Upload, Upload, Upload >>, !.limit = 3, !.trailers = TRUE]
Bodiless == [Quiet EXCEPT !.streams = << Upload, Fetch >>, !.writes = 2, !.chunk = 0, !.trailers = TRUE,
                          !.rsts = 1]

(* "Connection: close", and connections that go away.                      *)
GoingAway == [Quiet EXCEPT !.streams = << Fetch, Upload >>, !.closing = TRUE, !.ends = {"empty", "short"},
                           !.returns = BOOLEAN, !.data = 1, !.pings = 1]
GivingUp == [Quiet EXCEPT !.streams = << Fetch >>, !.closing = TRUE, !.writes = 1, !.chunk = 3,
                          !.timeout = TRUE]
Dropping == [Quiet EXCEPT !.streams = << Upload, Fetch >>, !.drop = TRUE, !.read = TRUE, !.data = 1,
                          !.chunk = 2, !.writes = 1]
SafetyScenarios == {Uploading, Mismatched, Downloading, Resizing, Growing, Stalling, Resetting,
                    Refusing, Crowding, Evicting, Bodiless, GoingAway, GivingUp, Dropping}
=============================================================================
