------------------------------ MODULE Subscribe ------------------------------
(***************************************************************************)
(* subscribe (src/src/subscribe.rs): a task reads the chunks of an event   *)
(* stream, cuts them into lines, collects events and passes them through a *)
(* bounded channel to the receiver that the caller holds.                  *)
(*                                                                         *)
(* The stream is a sequence of bytes: "data", "event" and "id" stand for   *)
(* the prefixes of a line (cutting one has no effect that cutting next to  *)
(* it has not), "v" for a character of text, "m1" and "m2" for the two     *)
(* bytes of another, and "nl" for a newline.  Text is UTF-8, so it has the *)
(* same bytes, and "?" for a replacement character.  External: the         *)
(* server's lines, the places where the network cuts them, the end of the  *)
(* stream.                                                                 *)
(***************************************************************************)
EXTENDS Naturals, Sequences, FiniteSets, SequencesExt

CONSTANTS
    Lines,          \* lines that the server sends, without their newlines
    MaxLines,       \* bound on the length of a stream, in lines
    MaxChunk,       \* bound on the length of a chunk, in bytes
    Capacity        \* of the channel: 64 in the code

Chars == {"data", "event", "id", "v", "m1", "m2"}

\* A line has no newline, and is UTF-8.
ASSUME LinesAssumption ==
    \A line \in Lines :
        /\ line \in Seq(Chars)
        /\ \A i \in DOMAIN line :
              /\ line[i] = "m1" => i < Len(line) /\ line[i + 1] = "m2"
              /\ line[i] = "m2" => i > 1 /\ line[i - 1] = "m1"
ASSUME CapacityAssumption == Capacity \in Nat \ {0}

VARIABLES
    stream,         \* what the server sends in all
    pos,            \* bytes of it that have been read
    cut,            \* a character has been cut by the end of a chunk
    reader,         \* where the task is: "reading", "parsing", "sending", "ended"
    buffer,
    event,          \* event_type, event_id, event_data
    evt,            \* the SseEvent in hand
    channel,
    receiver,       \* "open", "done" after a None, or "dropped"
    received

parseVars == <<buffer, event, evt>>
vars == <<stream, pos, cut, reader, parseVars, channel, receiver, received>>

Empty == [type |-> <<>>, id |-> <<>>, data |-> <<>>]

Bytes(lines) == FlattenSeq([i \in DOMAIN lines |-> lines[i] \o <<"nl">>])

Init ==
    /\ stream \in {Bytes(lines) : lines \in SeqOf(Lines, MaxLines)}
    /\ pos = 0
    /\ cut = FALSE
    /\ reader = "reading"
    /\ buffer = <<>>
    /\ event = Empty
    /\ evt = Empty
    /\ channel = <<>>
    /\ receiver = "open"
    /\ received = <<>>

-----------------------------------------------------------------------------
(* The task *)

\* String::from_utf8_lossy on one chunk: a byte without its other half becomes
\* a replacement character.
Lossy(chunk) ==
    LET Alone(i) == \/ chunk[i] = "m1" /\ i = Len(chunk)
                    \/ chunk[i] = "m2" /\ i = 1
    IN [i \in DOMAIN chunk |-> IF Alone(i) THEN "?" ELSE chunk[i]]

\* stream.next() is Some(Ok(chunk)).
ChunkArrives(n) ==
    /\ reader = "reading"
    /\ pos + n <= Len(stream)
    /\ pos' = pos + n
    /\ cut' = (cut \/ stream[pos + n] = "m1")
    /\ buffer' = buffer \o Lossy(SubSeq(stream, pos + 1, pos + n))
    /\ reader' = "parsing"
    /\ UNCHANGED <<stream, event, evt, channel, receiver, received>>

\* It is None, or an Err that nobody is told of; the sender is dropped.
StreamEnds ==
    /\ reader = "reading"
    /\ reader' = "ended"
    /\ UNCHANGED <<stream, pos, cut, parseVars, channel, receiver, received>>

HasLine == Contains(buffer, "nl")
Newline == SelectInSeq(buffer, LAMBDA c : c = "nl")
Line == SubSeq(buffer, 1, Newline - 1)

\* Mutant: what is left of a chunk after its last newline is dropped.
NoLineLeftForgets ==
    /\ reader = "parsing"
    /\ ~HasLine
    /\ buffer' = <<>>
    /\ reader' = "reading"
    /\ UNCHANGED <<stream, pos, cut, event, evt, channel, receiver, received>>

NoLineLeft ==
    /\ reader = "parsing"
    /\ ~HasLine
    /\ reader' = "reading"
    /\ UNCHANGED <<stream, pos, cut, parseVars, channel, receiver, received>>

\* The next line is taken off the buffer and tells what becomes of the event.
TakeLine ==
    /\ reader = "parsing"
    /\ HasLine
    /\ buffer' = SubSeq(buffer, Newline + 1, Len(buffer))
    /\ UNCHANGED <<stream, pos, cut, channel, receiver, received>>

BlankLine ==
    /\ TakeLine
    /\ Line = <<>>
    /\ event.data = <<>>
    /\ event' = [event EXCEPT !.type = <<>>]
    /\ UNCHANGED <<reader, evt>>

Dispatch ==
    /\ TakeLine
    /\ Line = <<>>
    /\ event.data # <<>>
    /\ evt' = [event EXCEPT !.type = IF @ = <<>> THEN <<"message">> ELSE @]
    /\ event' = Empty
    /\ reader' = "sending"

\* A line of no known prefix is passed over.
FieldLine ==
    /\ TakeLine
    /\ Line # <<>>
    /\ event' = CASE Line[1] = "event" -> [event EXCEPT !.type = Tail(Line)]
                  [] Line[1] = "id"    -> [event EXCEPT !.id = Tail(Line)]
                  [] Line[1] = "data"  -> [event EXCEPT !.data =
                                              IF @ = <<>> THEN Tail(Line)
                                              ELSE @ \o <<"nl">> \o Tail(Line)]
                  [] OTHER             -> event
    /\ UNCHANGED <<reader, evt>>

\* tx.send(evt).await
Send ==
    /\ reader = "sending"
    /\ receiver = "open"
    /\ Len(channel) < Capacity
    /\ channel' = Append(channel, evt)
    /\ evt' = Empty
    /\ reader' = "parsing"
    /\ UNCHANGED <<stream, pos, cut, buffer, event, receiver, received>>

\* Mutant: the error of the send is ignored, and the task reads on.
ReceiverGoneReadsOn ==
    /\ reader = "sending"
    /\ receiver = "dropped"
    /\ evt' = Empty
    /\ reader' = "parsing"
    /\ UNCHANGED <<stream, pos, cut, buffer, event, channel, receiver, received>>

ReceiverGone ==
    /\ reader = "sending"
    /\ receiver = "dropped"
    /\ reader' = "ended"
    /\ UNCHANGED <<stream, pos, cut, parseVars, channel, receiver, received>>

Parse == NoLineLeft \/ BlankLine \/ Dispatch \/ FieldLine \/ Send \/ ReceiverGone

-----------------------------------------------------------------------------
(* The caller *)

Recv ==
    /\ receiver = "open"
    /\ channel # <<>>
    /\ received' = Append(received, Head(channel))
    /\ channel' = Tail(channel)
    /\ UNCHANGED <<stream, pos, cut, reader, parseVars, receiver>>

\* recv() is None: the sender is gone and the channel is empty.
RecvNone ==
    /\ receiver = "open"
    /\ channel = <<>>
    /\ reader = "ended"
    /\ receiver' = "done"
    /\ UNCHANGED <<stream, pos, cut, reader, parseVars, channel, received>>

DropReceiver ==
    /\ receiver = "open"
    /\ receiver' = "dropped"
    /\ channel' = <<>>
    /\ UNCHANGED <<stream, pos, cut, reader, parseVars, received>>

Over == reader = "ended" /\ receiver # "open" /\ UNCHANGED vars

Next ==
    \/ \E n \in 1..MaxChunk : ChunkArrives(n)
    \/ StreamEnds
    \/ Parse
    \/ Recv
    \/ RecvNone
    \/ DropReceiver
    \/ Over

\* The task runs and the caller's loop goes on; nothing is asked of the server.
Spec == Init /\ [][Next]_vars /\ WF_vars(Parse) /\ WF_vars(Recv \/ RecvNone)

-----------------------------------------------------------------------------
(* Properties *)

\* A line is known by the position of its newline.
NewLines(text) == {i \in DOMAIN text : text[i] = "nl"}

\* The last of the positions S before position i, or 0.
Before(S, i) == Max({0} \cup {j \in S : j < i})

LineAt(text, i) == SubSeq(text, Before(NewLines(text), i) + 1, i - 1)

Blanks(text) == {i \in NewLines(text) : LineAt(text, i) = <<>>}

FieldLines(text, field) ==
    {i \in NewLines(text) : LineAt(text, i) # <<>> /\ LineAt(text, i)[1] = field}

\* What the last line of a field before i says, if it comes after the last of S.
LastValue(text, field, S, i) ==
    LET k == Before(FieldLines(text, field), i)
    IN IF k > Before(S, i) THEN Tail(LineAt(text, k)) ELSE <<>>

\* The lines of data since the last blank line, after each number of bytes.  Empty ones
\* count only after one that is not.
DataOf(text) ==
    LET data[i \in 0..Len(text)] ==
            IF i = 0 \/ i \in Blanks(text) THEN <<>>
            ELSE IF i \notin FieldLines(text, "data") THEN data[i - 1]
            ELSE IF data[i - 1] = <<>> THEN Tail(LineAt(text, i))
            ELSE data[i - 1] \o <<"nl">> \o Tail(LineAt(text, i))
    IN data

\* The blank lines that end an event.
Ends(text) == {i \in Blanks(text) : DataOf(text)[i - 1] # <<>>}

\* An id is kept over blank lines that end none.
EventAt(text, i) ==
    LET type == LastValue(text, "event", Blanks(text), i)
    IN [type |-> IF type = <<>> THEN <<"message">> ELSE type,
        id   |-> LastValue(text, "id", Ends(text), i),
        data |-> DataOf(text)[i - 1]]

Nth(S, n) == CHOOSE i \in S : Cardinality({j \in S : j <= i}) = n

\* The events that a text holds, from its lines alone.
Events(text) == [n \in 1..Cardinality(Ends(text)) |-> EventAt(text, Nth(Ends(text), n))]

\* A text with its two-byte characters unreadable.
Blur(text) == [i \in DOMAIN text |-> IF text[i] \in {"m1", "m2"} THEN "?" ELSE text[i]]

BlurEvent(e) == [type |-> Blur(e.type), id |-> Blur(e.id), data |-> Blur(e.data)]

BlurAll(events) == [n \in DOMAIN events |-> BlurEvent(events[n])]

\* However the network cuts the stream, the caller receives its events whole, in
\* order, once, and none that was not ended by a blank line before the connection
\* broke; a caller that reads to the end has them all.  A character on the edge of
\* two chunks is the one thing lost: it arrives as replacement characters.
EventsWhole ==
    LET Expected == Events(Lossy(SubSeq(stream, 1, pos)))
        InHand   == IF reader = "sending" THEN Append(channel, evt) ELSE channel
        Known    == IF receiver = "dropped" THEN received ELSE received \o InHand
    IN /\ IsPrefix(BlurAll(Known), BlurAll(Expected))
       /\ ~cut => IsPrefix(Known, Expected)
       /\ receiver = "done" => Len(received) = Len(Expected)

\* A full channel does not keep the task from its connection for ever; a task whose
\* receiver was dropped ends with the first event it has for it, also when it was waiting
\* in the full channel; and the caller's loop ends after the task.  (subscribe.rs:50 has
\* the caller "drop the receiver to disconnect": while the task waits for the stream it
\* does not notice, and a server that sends no further event keeps the connection.)
SubscriptionEnds ==
    /\ reader \in {"parsing", "sending"} ~> reader \in {"reading", "ended"}
    /\ receiver = "dropped" /\ reader = "sending" ~> reader = "ended"
    /\ reader = "ended" ~> receiver # "open"
=============================================================================
