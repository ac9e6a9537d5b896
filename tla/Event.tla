-------------------------------- MODULE Event --------------------------------
(***************************************************************************)
(* The events that clients report: how report puts one in the body of a    *)
(* SEND frame (StompClient.cpp), how a MESSAGE body becomes an Event again *)
(* (event.cpp), and the summary that is written of the events of a user    *)
(* (summarizeEmergencyChannel). An event has a date, general information   *)
(* (a function from keys) and the texts user, city, name and description.  *)
(***************************************************************************)
EXTENDS StompFrame, FiniteSets

CONSTANTS
  Dates,       \* the values of date_time, which to_string and stoi convert
  Code,        \* Code[s]: the place of a symbol in the order of characters
  ShortLength, \* a description is cut to so many characters (27),
  LongLength   \* and marked as cut when it has more than so many (30)

ASSUME EventAssumption ==
  /\ Dates \subseteq Nat
  /\ \A s \in DOMAIN Code : Code[s] \in Nat
  /\ ShortLength \in Nat /\ LongLength \in Nat /\ ShortLength <= LongLength
  /\ {" ", "user", "city", "event name", "date time", "general information",
      "d", "escription"} \subseteq Words
  /\ \A n \in Dates : ToString(n) \in Words
  /\ \A m, n \in Dates : ToString(m) = ToString(n) => m = n

to_string(n) == <<ToString(n)>>
stoi(text) == CHOOSE n \in Dates : to_string(n) = text

DescriptionKey == <<"d", "escription">>

-----------------------------------------------------------------------------
(* The body that report writes *)

reportLines(user, e) ==
  Line(<<"user">>, user) \o Line(<<"city">>, e.city)
    \o Line(<<"event name">>, e.name) \o Line(<<"date time">>, to_string(e.date))
    \o Line(<<"general information">>, <<>>) \o Lines(<<" ">>, e.info)
    \o Line(DescriptionKey, <<>>)

(* Mutant: the description is not ended. *)
reportBodyUnended(user, e) == reportLines(user, e) \o e.description

reportBody(user, e) == reportLines(user, e) \o e.description \o <<NL>>

-----------------------------------------------------------------------------
(* Event(frame_body) *)

(* the tokens of a line, as places in its split; what is empty is none *)
split_str(pieces) == {i \in DOMAIN pieces : pieces[i] # <<>>}

(* the first token, and the second of two: a value with a colon is in three *)
KeyOf[line \in Text] ==
  LET pieces == Split(Colon)[line]
  IN  IF Has(line, Colon) THEN pieces[Min(split_str(pieces))] ELSE <<>>
ValueOf[line \in Text] ==
  LET pieces == Split(Colon)[line]
  IN  IF Cardinality(split_str(pieces)) = 2 THEN pieces[Max(split_str(pieces))] ELSE <<>>

(***************************************************************************)
(* The loop over the lines. From general on, where it has read "general    *)
(* information:", every line is taken for general information too and      *)
(* loses its first character, the line that starts the description         *)
(* included; there the inner loop begins, which reads the rest.            *)
(***************************************************************************)
EventOfLines[lines \in Seq(Text)] ==
  LET keys == [i \in DOMAIN lines |-> KeyOf[lines[i]]]
      firstOf(key) == Min({i \in DOMAIN lines : keys[i] = key} \cup {Len(lines) + 1})
      start == firstOf(DescriptionKey)
      general == firstOf(<<"general information">>)
      lineOf(key) == Max({i \in 1..start - 1 : keys[i] = key} \cup {0})
      valueOf(key) == IF lineOf(key) = 0 THEN <<>> ELSE ValueOf[lines[lineOf(key)]]
      inGeneral == {i \in general + 1..start \cap DOMAIN lines :
                      keys[i] \notin {<<>>, <<"general information">>}}
      last(key) == Max({i \in inGeneral : Tail(keys[i]) = key})
  IN  [user |-> valueOf(<<"user">>), city |-> valueOf(<<"city">>),
       name |-> valueOf(<<"event name">>),
       date |-> IF lineOf(<<"date time">>) = 0 THEN 0 ELSE stoi(valueOf(<<"date time">>)),
       info |-> [key \in {Tail(keys[i]) : i \in inGeneral} |-> ValueOf[lines[last(key)]]],
       description |-> FlattenSeq([i \in 1..Len(lines) - start |-> Append(lines[start + i], NL)])]

EventOf[body \in Text] == EventOfLines[getLines[body]]

-----------------------------------------------------------------------------
(* The summary of the events of a user *)

(* operator< of std::string *)
Less(a, b) ==
  \/ IsStrictPrefix(a, b)
  \/ \E i \in DOMAIN a \cap DOMAIN b :
       /\ \A j \in 1..i - 1 : a[j] = b[j]
       /\ Code[a[i]] < Code[b[i]]

(* Mutant: the dates alone decide. *)
PrecedesByDate(a, b) == a.date < b.date

Precedes(a, b) == IF a.date = b.date THEN Less(a.name, b.name) ELSE a.date < b.date

(* std::sort is not stable: any order in which nothing precedes a former one *)
Sorted(events) ==
  {s \in {[i \in DOMAIN events |-> events[p[i]]] : p \in Permutations(DOMAIN events)} :
     IsSorted(s, LAMBDA a, b : ~Precedes(b, a))}

SubStr(text, n) == SubSeq(text, 1, IF n < Len(text) THEN n ELSE Len(text))

ShortDescription(e) ==
  SubStr(e.description, ShortLength)
    \o IF Len(e.description) > LongLength THEN <<"...">> ELSE <<>>

Says(e, key) == key \in DOMAIN e.info /\ e.info[key] = <<"true">>

(* what may be written of the events of user, in the order of their reports *)
Summaries(events, user) ==
  LET relevant == SelectSeq(events, LAMBDA e : e.user = user)
      count(key) == Cardinality({i \in DOMAIN relevant : Says(relevant[i], key)})
  IN  {[total |-> Len(relevant), active |-> count(<<"active">>),
        forces |-> count(<<"forces_arrival_at_scene">>),
        reports |-> [i \in DOMAIN s |->
          [city |-> s[i].city, date |-> s[i].date, name |-> s[i].name,
           summary |-> ShortDescription(s[i])]]] : s \in Sorted(relevant)}
=============================================================================
