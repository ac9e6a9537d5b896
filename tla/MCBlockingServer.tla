-------------------------- MODULE MCBlockingServer --------------------------
EXTENDS BlockingServer

Event(date, city, name, active, description) ==
  [city |-> city, name |-> name, date |-> date, description |-> description,
   info |-> (<<"active">> :> <<active>>) @@ (<<"forces_arrival_at_scene">> :> <<"true">>)]

(* Two events of one date, reported against the order of their names, one    *)
(* with a colon in its city and one with a colon after it; descriptions at   *)
(* both sides of the lengths.                                                *)
AnnsFile ==
  <<Event(2, <<"Haifa", Colon>>, <<"theft">>, "true", <<"a", NL, "c">>),
    Event(2, <<"Kfar", Colon, "Saba">>, <<"fire">>, "false", <<"a", "b", "c", Colon, "e">>)>>

BobsFile == <<Event(1, <<"Haifa">>, <<"fire">>, "true", <<"a">>)>>

User(file, commands) == [file |-> file, commands |-> commands]

(* One client reports a file of three events to two; both report an event;   *)
(* and one reports to a client that may log out or be lost at any moment.    *)
MCUsers ==
  {("ann" :> User(AnnsFile \o BobsFile, {"join"})) @@ ("bob" :> User(<<>>, {"join"})),
   ("ann" :> User(Front(AnnsFile), {"join"})) @@ ("bob" :> User(BobsFile, {"join"})),
   ("ann" :> User(Tail(AnnsFile), {"join"}))
     @@ ("bob" :> User(<<>>, {"join", "logout", "leave"}))}

MCWords == STRING \ {NL, Colon, NUL}

MCCode == ("fire" :> 1) @@ ("theft" :> 2)
=============================================================================
