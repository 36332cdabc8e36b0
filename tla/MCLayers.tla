------------------------------ MODULE MCLayers ------------------------------
(***************************************************************************)
(* Instances of Fhttp, WebSocket and Tls for TLC, each on the engine's     *)
(* connection: a handful of clients, each with up to five requests, frames *)
(* or records, and with what may happen to the connection meanwhile.       *)
(***************************************************************************)
EXTENDS WebSocket, Tls

Scenario(requests, inputs) == [layer |-> "http", requests |-> requests, inputs |-> inputs]

HttpScenarios == {
    Scenario(<<"get", "large", "last">>, {"fin", "context"}),
    Scenario(<<"get", "get", "get">>, {"fin"}),
    Scenario(<<"large", "expect">>, {"expire"}),
    Scenario(<<"get", "torn", "get">>, {"reset"}),
    Scenario(<<"panic", "get">>, {"context"}),
    Scenario(<<"get", "unframed", "get">>, {"fin"}),
    Scenario(<<"invalid", "get">>, {}),
    Scenario(<<"get", "short", "get">>, {"fin"}),
    Scenario(<<"get", "upgrade", "get">>, {"pause", "context", "fin"}),
    Scenario(<<"get", "get", "upgrade", "get">>, {"pause"}),
    Scenario(<<"large", "upgrade", "get">>, {"reset", "context"}),
    Scenario(<<"get", "large", "get", "expect">>, {"fin"}),
    Scenario(<<"get", "large", "stream">>, {"context", "expire"}),
    Scenario(<<"get", "get", "stream">>, {"reset", "fin"}) }

WsScenarios == {
    Scenario(<<"websocket", "text", "begin", "ping", "rest">>, {"full"}),
    Scenario(<<"websocket", "begin", "rest">>, {"close"}),
    Scenario(<<"websocket", "begin", "rest">>, {"push"}),
    Scenario(<<"websocket", "text", "close">>, {"push", "full"}),
    Scenario(<<"websocket", "ping", "bye", "text">>, {"fin"}),
    Scenario(<<"websocket", "boom">>, {"close"}),
    Scenario(<<"websocket", "begin", "more", "rest">>, {}),
    Scenario(<<"websocket", "notUtf8">>, {"push"}),
    Scenario(<<"websocket", "begin", "text">>, {"close"}),
    Scenario(<<"websocket", "big">>, {"reset"}),
    Scenario(<<"get", "websocket", "get">>, {"fin"}),
    Scenario(<<"websocket", "text">>, {"openPanics", "shutdown"}),
    Scenario(<<"websocket", "text">>, {"openCloses", "shutdown"}),
    Scenario(<<"websocket", "text", "text">>, {"close"}),
    Scenario(<<"websocket", "text">>, {"expire", "close"}),
    Scenario(<<"websocket", "text">>, {"push", "close"}) }

TlsScenario(records, inputs) == [layer |-> "tls", requests |-> records, inputs |-> inputs]
Shakes == <<"hello", "finished">>
Data(n) == [i \in 1..n |-> "data"]
TlsScenarios ==
{
    TlsScenario(Shakes \o Data(2), {"leaves", "pauses", "full"}),
    TlsScenario(Shakes \o Data(3), {"pauses", "leaves", "detach"}),
    TlsScenario(Shakes \o Data(2), {"pause", "leaves", "write", "closes"}),
    TlsScenario(Shakes \o Data(1), {"write", "close", "shutdown"}),
    TlsScenario(Shakes \o Data(1), {"write", "close", "fin"}),
    TlsScenario(Shakes \o Data(1), {"write", "reset", "pause", "closes"}),
    TlsScenario(Shakes \o Data(1) \o <<"notify">>, {"fin", "keep", "write", "close"}),
    TlsScenario(Shakes \o Data(1) \o <<"notify">>, {"fin", "write", "closes"}),
    TlsScenario(Shakes \o Data(1) \o <<"garbage">>, {"write", "close", "pause"}),
    TlsScenario(<<"hello", "garbage">>, {"expire"}),
    TlsScenario(<<"garbage">>, {"fin", "shutdown"}),
    TlsScenario(Shakes, {"fin", "expire"}) }

MCScenarios == HttpScenarios \cup WsScenarios \cup TlsScenarios

\* A client that awaits the 101, on a connection whose next read is already due.
OpeningScenarios == {Scenario(<<"websocket", "text">>, {"full"})}

vars == <<sc, e, cl, http, websocket, tls>>
Init == EngineInit /\ HttpInit /\ WsInit /\ TlsInit
Next == \/ sc.layer = "http" /\ WebNext /\ UNCHANGED tls
        \/ sc.layer = "tls" /\ TlsNext /\ UNCHANGED <<http, websocket>>
Spec == Init /\ [][Next]_vars

=============================================================================
