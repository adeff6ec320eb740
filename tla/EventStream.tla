---------------------------- MODULE EventStream ----------------------------
(***************************************************************************)
(* From the event bus of a session to the client: encodeServerSentEvent    *)
(* puts an event into text, the handler session writes one text after the  *)
(* other to the connection, and the client takes apart what arrives, symbol*)
(* by symbol, as the standard for server-sent events has it.               *)
(*                                                                         *)
(* Text is a sequence of symbols, one for a field's name with its colon,   *)
(* one for the name of an event, "nl" for a line break, and "x" for        *)
(* anything else.  The data of most events is JSON or a number and has no  *)
(* line break.  That of the event typing contains the display name as it   *)
(* is, which is trimmed at the ends but may have a line break inside.      *)
(***************************************************************************)
EXTENDS Naturals, Sequences

CONSTANTS
  NameSymbol,    \* the symbols of display names
  MaxName,       \* bound on their length
  Capacity,      \* of the event bus
  MaxEvents      \* bound on the events emitted

VARIABLES
  greeting,  \* the events the handler has yet to write before it reads the bus
  emitted,   \* the events put on the bus, in that order
  eventBus,  \* those not yet taken from it, encoded
  wire,      \* the texts written that have not arrived in full
  arrived,   \* how much of the first of them has
  client,    \* where the client is in its parsing
  received,  \* for each text that arrived in full, the events it brought
  open       \* the connection holds

vars == <<greeting, emitted, eventBus, wire, arrived, client, received, open>>

(***************************************************************************)
(* Events and their text                                                   *)
(***************************************************************************)
Trimmed(name) == name[1] # "nl" /\ name[Len(name)] # "nl"
DisplayName == {name \in UNION {[1..n -> NameSymbol] : n \in 1..MaxName} : Trimmed(name)}

(* "1 987654321 displayname", or data without a line break; "unnamed" is   *)
(* the empty string, with which no line for the event's name is written.   *)
Event == {[event |-> "typing", data |-> <<"x">> \o name] : name \in DisplayName}
         \cup {[event |-> "user_info", data |-> <<"x">>],
               [event |-> "unnamed", data |-> <<"x", "x">>]}

(* The client is told its user and its session first.                      *)
Greeting == <<[event |-> "user_id", data |-> <<"x">>], [event |-> "session_id", data |-> <<"x">>]>>

(* Mutant: the blank line after an event is forgotten.                     *)
EncodeWithoutBlankLine(e) ==
  (IF e.event # "unnamed" THEN <<"event_field", e.event, "nl">> ELSE <<>>)
    \o <<"data_field">> \o e.data \o <<"nl">>

Encode(e) ==
  (IF e.event # "unnamed" THEN <<"event_field", e.event, "nl">> ELSE <<>>)
    \o <<"data_field">> \o e.data \o <<"nl", "nl">>

(* The client: at the end of each line a field is complete; a blank line   *)
(* delivers the event, if it has data.  A line that is no field is ignored.*)
(* The events that the present text brought are collected in made.         *)
Begin == [field |-> "blank", event |-> "unnamed", data |-> <<>>, made |-> <<>>]

Parse(c, symbol) ==
  CASE c.field = "blank" /\ symbol = "nl" ->
         [Begin EXCEPT !.made = IF c.data = <<>> THEN c.made
            ELSE Append(c.made, [event |-> c.event, data |-> c.data])]
    [] c.field # "blank" /\ symbol = "nl" -> [c EXCEPT !.field = "blank"]
    [] c.field = "blank" /\ symbol # "nl" ->
         [c EXCEPT !.field = IF symbol \in {"event_field", "data_field"} THEN symbol ELSE "ignored"]
    [] c.field = "event_field" /\ symbol # "nl" -> [c EXCEPT !.event = symbol]
    [] c.field = "data_field" /\ symbol # "nl" -> [c EXCEPT !.data = Append(@, symbol)]
    [] OTHER -> c

Init ==
  /\ greeting = Greeting
  /\ emitted = <<>> /\ eventBus = <<>>
  /\ wire = <<>> /\ arrived = 0 /\ client = Begin /\ received = <<>>
  /\ open = TRUE

(***************************************************************************)
(* SessionManager.emit and the loop of the handler session                 *)
(***************************************************************************)
(* Mutant: a full bus takes the event.                                     *)
EmitUnbounded(e) ==
  /\ open /\ Len(emitted) < MaxEvents
  /\ emitted' = Append(emitted, e)
  /\ eventBus' = Append(eventBus, Encode(e))
  /\ UNCHANGED <<greeting, wire, arrived, client, received, open>>

(* A full bus drops the event.                                             *)
Emit(e) ==
  /\ open /\ Len(emitted) < MaxEvents /\ Len(eventBus) < Capacity
  /\ emitted' = Append(emitted, e)
  /\ eventBus' = Append(eventBus, Encode(e))
  /\ UNCHANGED <<greeting, wire, arrived, client, received, open>>

Greet ==
  /\ open /\ greeting # <<>>
  /\ wire' = Append(wire, Encode(Head(greeting)))
  /\ greeting' = Tail(greeting)
  /\ UNCHANGED <<emitted, eventBus, arrived, client, received, open>>

(* Mutant: the bus gives what came last.                                   *)
WriteNewest ==
  /\ open /\ greeting = <<>> /\ eventBus # <<>>
  /\ wire' = Append(wire, eventBus[Len(eventBus)])
  /\ eventBus' = SubSeq(eventBus, 1, Len(eventBus) - 1)
  /\ UNCHANGED <<greeting, emitted, arrived, client, received, open>>

Write ==
  /\ open /\ greeting = <<>> /\ eventBus # <<>>
  /\ wire' = Append(wire, Head(eventBus))
  /\ eventBus' = Tail(eventBus)
  /\ UNCHANGED <<greeting, emitted, arrived, client, received, open>>

(* A symbol arrives, and another is to follow.                             *)
Arrive ==
  /\ open /\ wire # <<>> /\ arrived + 1 < Len(Head(wire))
  /\ client' = Parse(client, Head(wire)[arrived + 1])
  /\ arrived' = arrived + 1
  /\ UNCHANGED <<greeting, emitted, eventBus, wire, received, open>>

(* The last symbol of a text.                                              *)
ArriveLast ==
  LET parsed == Parse(client, Head(wire)[arrived + 1]) IN
  /\ open /\ wire # <<>> /\ arrived + 1 = Len(Head(wire))
  /\ client' = [parsed EXCEPT !.made = <<>>]
  /\ received' = Append(received, parsed.made)
  /\ wire' = Tail(wire) /\ arrived' = 0
  /\ UNCHANGED <<greeting, emitted, eventBus, open>>

(* The connection breaks, and what has not arrived does not arrive.        *)
Break ==
  /\ open
  /\ open' = FALSE
  /\ UNCHANGED <<greeting, emitted, eventBus, wire, arrived, client, received>>

(* The client comes back, with a new session.                              *)
Reconnect ==
  /\ ~open
  /\ greeting' = Greeting /\ emitted' = <<>> /\ eventBus' = <<>>
  /\ wire' = <<>> /\ arrived' = 0 /\ client' = Begin /\ received' = <<>>
  /\ open' = TRUE

Next ==
  \/ \E e \in Event : Emit(e)
  \/ Greet \/ Write \/ Arrive \/ ArriveLast \/ Break \/ Reconnect

Spec == Init /\ [][Next]_vars

(***************************************************************************)
(* Properties                                                              *)
(***************************************************************************)
TypeOK ==
  /\ greeting \in {Greeting, Tail(Greeting), <<>>}
  /\ emitted \in Seq(Event) /\ Len(emitted) <= MaxEvents
  /\ Len(eventBus) <= Capacity
  /\ \A i \in DOMAIN eventBus : \E e \in Event : eventBus[i] = Encode(e)
  /\ arrived \in Nat /\ (arrived # 0 => wire # <<>> /\ arrived < Len(Head(wire)))
  /\ client.field \in {"blank", "event_field", "data_field", "ignored"}
  /\ open \in BOOLEAN

(* What a line-based protocol leaves of an event: of a display name with a *)
(* line break, the first line.                                             *)
Breaks(e) == {i \in DOMAIN e.data : e.data[i] = "nl"}

FirstLine(e) ==
  IF Breaks(e) = {} THEN e
  ELSE LET first == CHOOSE i \in Breaks(e) : \A j \in Breaks(e) : i <= j
       IN  [e EXCEPT !.data = SubSeq(@, 1, first - 1)]

(* No line of the data but the first reads like a field.                   *)
Plain(e) == \A i \in Breaks(e) : e.data[i + 1] \notin {"event_field", "data_field"}

(* The client receives its user, its session and then the events that were *)
(* put on the session's bus, also while the first two were being written,  *)
(* each once, with its name and its data, in that order; and of the text   *)
(* that is arriving, or of which the end is lost, it makes the event or    *)
(* nothing.  encodeServerSentEvent does not break up data of several lines:*)
(* the client gets the first, and the others spoil no other event; nothing *)
(* is said of data in which another line reads like a field, except that   *)
(* what comes before and after it is received all the same.                *)
ReceivedAsEmitted ==
  LET events == Greeting \o emitted   next == Len(received) + 1 IN
  /\ \A i \in DOMAIN received :
       i \in DOMAIN events /\ (Plain(events[i]) => received[i] = <<FirstLine(events[i])>>)
  /\ arrived = 0 => client = Begin
  /\ arrived # 0 =>
       next \in DOMAIN events
       /\ (Plain(events[next]) => client.made \in {<<>>, <<FirstLine(events[next])>>})

(* Nothing is lost before the connection breaks: what was put on the bus is*)
(* there, or on its way, or received.                                      *)
NothingLost ==
  Len(greeting) + Len(eventBus) + Len(wire) + Len(received) = Len(Greeting) + Len(emitted)
=============================================================================
