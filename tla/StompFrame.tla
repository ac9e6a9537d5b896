----------------------------- MODULE StompFrame -----------------------------
(***************************************************************************)
(* A frame and the text that carries it, on both sides: StompFrame.java    *)
(* and StompMessageEncoderDecoder.java of the server, send, parseFrame and *)
(* getFrameAscii of the client. A text is a sequence of symbols: the       *)
(* separators, which the code looks for, and words, in which it looks for  *)
(* nothing. A frame has a command, headers (a function from their keys) and *)
(* a body, all of them texts. What is computed of a text is a function of   *)
(* it, which TLC applies to the text and not to the expression it is from.  *)
(***************************************************************************)
EXTENDS Integers, Sequences, SequencesExt, Functions

CONSTANT Words  \* the symbols that are no separator

NL == "\n"
Colon == ":"
NUL == "NUL"  \* the character 0
Symbol == Words \cup {NL, Colon, NUL}
Text == Seq(Symbol)

ASSUME WordsAssumption == NL \notin Words /\ Colon \notin Words /\ NUL \notin Words

-----------------------------------------------------------------------------
(* Splitting *)

Has(text, symbol) == \E i \in DOMAIN text : text[i] = symbol

(* indexOf; a text that has the symbol is cut there in two *)
First(text, symbol) == Min({i \in DOMAIN text : text[i] = symbol})
Before(text, i) == SubSeq(text, 1, i - 1)
After(text, i) == SubSeq(text, i + 1, Len(text))

(* the pieces of a text between the occurrences of a separator *)
Split(separator) ==
  LET split[text \in Text] ==
        IF ~Has(text, separator) THEN <<text>>
        ELSE LET i == First(text, separator)
             IN  <<Before(text, i)>> \o split[After(text, i)]
  IN  split

(* What a loop of getline reads: nothing after the last newline is no line. *)
getLines[text \in Text] ==
  LET lines == Split(NL)[text]
  IN  IF Last(lines) = <<>> THEN Front(lines) ELSE lines

(* The header part ends at the first empty line; the rest is the body. *)
HeaderEnd(text) ==
  Min({i \in 1..Len(text) - 1 : text[i] = NL /\ text[i + 1] = NL} \cup {Len(text) + 1})

(* split(":", 2): a line without a colon is no header, the last of a key counts *)
Headers[lines \in Seq(Text)] ==
  LET headers == {i \in DOMAIN lines : Has(lines[i], Colon)}
      colon(i) == First(lines[i], Colon)
      key(i) == Before(lines[i], colon(i))
      lineOf(k) == Max({i \in headers : key(i) = k})
  IN  [k \in {key(i) : i \in headers} |-> After(lines[lineOf(k)], colon(lineOf(k)))]

(***************************************************************************)
(* Command, headers and body of a text without its terminator. Java's      *)
(* split drops trailing empty lines; they have no colon, and are no        *)
(* headers. Only of the text that is one newline no line is left, and      *)
(* lines[0] throws: nobody writes that text, but it may be what is left of *)
(* a frame whose beginning was thrown away (ServeFails in StompClient).    *)
(***************************************************************************)
Parsed[text \in Text] ==
  LET end == HeaderEnd(text)
      lines == Split(NL)[Before(text, end)]
  IN  [command |-> Head(lines), headers |-> Headers[Tail(lines)],
       body |-> After(text, end + 1)]

-----------------------------------------------------------------------------
(* Writing *)

Line(key, value) == key \o <<Colon>> \o value \o <<NL>>

(* a line for every key of a map, in whatever order the map has them *)
Lines(indent, map) ==
  FoldSet(LAMBDA k, lines : lines \o (indent \o Line(k, map[k])), <<>>, DOMAIN map)

FrameLines(f) == f.command \o <<NL>> \o Lines(<<>>, f.headers) \o <<NL>>

-----------------------------------------------------------------------------
(* The server *)

toString(f) ==
  FrameLines(f)
    \o (IF f.body = <<>> THEN <<>> ELSE f.body \o <<NL>>) \o <<NUL>>

fromString[message \in Text] ==
  Parsed[IF message # <<>> /\ Last(message) = NUL THEN Front(message) ELSE message]

(* The decoder: bytes is an array that keeps what was in it, len its use *)
NewDecoder(capacity) == [bytes |-> [i \in 1..capacity |-> NUL], len |-> 0]

(* Mutant: the array that replaces a full one is new, nothing is copied. *)
copyOfNothing(bytes, size) == [i \in 1..size |-> NUL]

(* Arrays.copyOf: a longer array is filled with zeros *)
copyOf(bytes, size) == [i \in 1..size |-> IF i <= Len(bytes) THEN bytes[i] ELSE NUL]

pushByte(d, byte) ==
  LET bytes == IF d.len >= Len(d.bytes) THEN copyOf(d.bytes, d.len * 2) ELSE d.bytes
  IN  [bytes |-> [bytes EXCEPT ![d.len + 1] = byte], len |-> d.len + 1]

popFrame(d) ==
  [decoder |-> [d EXCEPT !.len = 0], frame |-> fromString[SubSeq(d.bytes, 1, d.len)]]

(* decodeNextByte for the bytes of one message and for its terminator *)
decodeMessage(d, message) ==
  LET push[i \in 0..Len(message)] ==
        IF i = 0 THEN d ELSE pushByte(push[i - 1], message[i])
  IN  popFrame(push[Len(message)])

-----------------------------------------------------------------------------
(* The client *)

(* send, with the terminator that sendFrameAscii writes after the frame *)
serialize(f) == FrameLines(f) \o f.body \o <<NUL>>

(* getFrameAscii takes the bytes before the first NUL from a stream. *)
FrameReady(bytes) == Has(bytes, NUL)
getFrameAscii(bytes) == Before(bytes, First(bytes, NUL))
AfterFrame(bytes) == After(bytes, First(bytes, NUL))

(* parseFrame: lines up to an empty one are headers, the rest is the body *)
parseFrame == Parsed
=============================================================================
