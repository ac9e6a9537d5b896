------------------------------ MODULE MCReactor ------------------------------
EXTENDS Reactor, TLC

CONSTANTS h1, h2

(* one client publishes to both or disconnects, the other asks *)
PublishAndAsk == (h1 :> {"publish", "disconnect"}) @@ (h2 :> {"answer"})

(* one client asks and disconnects, the other only connects *)
AskAndDisconnect == (h1 :> {"answer", "disconnect"}) @@ (h2 :> {})

(* a client that errs, or disconnects without asking for a receipt *)
ErrAndQuit == (h1 :> {"error", "quit"})
=============================================================================
