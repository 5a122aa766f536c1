------------------------------ MODULE SSEParser ------------------------------
(***************************************************************************)
(* The parser of the event stream, src/src/dualeai/events/sse_parser.py:   *)
(* a state machine over the lines of a byte stream that arrives in chunks  *)
(* cut anywhere.  A line is what the parser tells apart in it, its size,   *)
(* and the size of its value; a checksum is the event type and the data it *)
(* was computed from (an equal checksum means equal content).              *)
(***************************************************************************)
EXTENDS Integers, Sequences, FiniteSets

Seqs == INSTANCE SequencesExt

CONSTANTS
  MaxBytes,  \* _MAX_SSE_EVENT_BYTES, for a line and for the data of an event
  Lines,     \* the lines a stream may hold, blank lines aside
  Cursors,   \* the ids that BridgeSSEEvent accepts, "<sequence>:<index>"
  MaxBlock,  \* bound: lines between two blank lines
  MaxAhead   \* bound: lines on the wire that are not parsed

ASSUME BoundsAssumption == {MaxBytes, MaxBlock, MaxAhead} \subseteq Nat

\* "garbled" is a line that is not UTF-8.
Kinds == {"data", "id", "null_id", "event", "crc", "bad_crc", "comment", "garbled"}

ASSUME LinesAssumption ==
  /\ Lines \subseteq [kind : Kinds, value : Seq(STRING), size : Nat, weight : Nat]
  /\ \A line \in Lines :
       /\ line.weight <= line.size /\ line.size > 0
       /\ line.kind \in {"data", "id", "event"} => line.value # << >>

VARIABLES
  ahead,     \* lines sent and not parsed yet, the first of them partly received
  got,       \* len(buffer)
  reading,   \* a chunk is being worked off
  id, type, data, dataBytes, checksum,  \* the event under way
  verdict,   \* what the line parsed last gave the consumer
  failed,    \* the parser has raised
  block,     \* history: the lines since the last blank line
  judged     \* history: the lines of the event it ended

eventVars == <<id, type, data, dataBytes, checksum>>
vars == <<ahead, got, reading, eventVars, verdict, failed, block, judged>>

NoId == "no_id"
NoChecksum == << >>
Checksum(t, pieces) == <<t>> \o pieces

ASSUME CursorsAssumption == NoId \notin Cursors

Blank == [kind |-> "blank", value |-> << >>, size |-> 0, weight |-> 0]

Skipped == [outcome |-> "skipped", id |-> NoId]
ChecksumError == [outcome |-> "checksum", id |-> NoId]
ParseError == [outcome |-> "parse", id |-> NoId]
Event(i) == [outcome |-> "event", id |-> i]

\* A line and its line feed.
Bytes(line) == line.size + 1
LineComplete == ahead # << >> /\ got >= Bytes(Head(ahead))

\* How many bytes pieces of these sizes have together.
Total(sizes) == Cardinality(UNION {{i} \X (1 .. sizes[i]) : i \in DOMAIN sizes})

Sent == Total([i \in DOMAIN ahead |-> Bytes(ahead[i])])

\* data_str.strip() is empty
Empty(pieces) == \A i \in 1 .. Len(pieces) : pieces[i] = "space"

\* The document json.loads reads: blanks between its tokens do not matter.
Document(pieces) == SelectSeq(pieces, LAMBDA piece : piece # "space")

\* Its discriminator.  A document is one piece, or two halves of one.
PayloadType(pieces) ==
  IF Document(pieces) \in {<<"whole">>, <<"head", "tail">>, <<"misfit">>} THEN "delta" ELSE "broken"

\* BridgeSSEEvent validates the id and the payload, which may be of the right type
\* and lack a field.
Validates(i, pieces) == i \in Cursors /\ Document(pieces) # <<"misfit">>

Init ==
  /\ ahead = << >> /\ got = 0 /\ reading = FALSE
  /\ id = NoId /\ type = "message" /\ data = << >> /\ dataBytes = 0 /\ checksum = NoChecksum
  /\ verdict = Skipped /\ failed = FALSE
  /\ block = << >> /\ judged = << >>

\* The consumer has what the last line gave.
Forget == verdict' = Skipped /\ judged' = << >>

\* The next chunk: any part of what was sent, over as many lines as it holds.
Chunk(line) ==
  /\ ~reading /\ ~failed
  /\ \/ /\ Len(ahead) < MaxAhead
        /\ Len(block) + Len(ahead) < MaxBlock \/ line.kind = "blank"
        /\ ahead' = Append(ahead, line)
     \/ UNCHANGED ahead
  /\ \E n \in got + 1 .. Sent' : got' = n
  /\ reading' = TRUE
  /\ Forget
  /\ UNCHANGED <<eventVars, failed, block>>

\* No complete line is left: what remains in the buffer must not exceed a line.
ChunkDone ==
  /\ reading /\ ~failed
  /\ ~LineComplete
  /\ reading' = FALSE
  /\ failed' = (got > MaxBytes)
  /\ UNCHANGED <<ahead, got, eventVars, verdict, block, judged>>

\* Mutant: an event that is not dispatched leaves its fields to the next.
ResetDispatched ==
  IF verdict'.outcome = "skipped"
    THEN UNCHANGED eventVars
    ELSE id' = NoId /\ type' = "message" /\ data' = << >> /\ dataBytes' = 0 /\ checksum' = NoChecksum

Reset == id' = NoId /\ type' = "message" /\ data' = << >> /\ dataBytes' = 0 /\ checksum' = NoChecksum

Dispatched ==
  IF Empty(data) THEN Skipped
  ELSE IF checksum = NoChecksum THEN ParseError
  ELSE IF checksum # Checksum(type, data) THEN ChecksumError
  ELSE IF PayloadType(data) # type \/ ~Validates(id, data) THEN ParseError
  ELSE Event(id)

\* A blank line ends the event: nothing, an event for the consumer, or an exception.
Dispatch ==
  /\ verdict' = Dispatched
  /\ failed' = (verdict'.outcome \in {"checksum", "parse"})
  /\ Reset
  /\ judged' = block
  /\ block' = << >>

\* A field or a comment.  An id that holds a null character, a comment and an unknown
\* field change nothing; a line that cannot be decoded raises before it is looked at.
Field(line) ==
  LET longer == dataBytes + line.weight + (IF data = << >> THEN 0 ELSE 1)
  IN /\ id' = IF line.kind = "id" THEN line.value[1] ELSE id
     /\ type' = IF line.kind = "event" THEN line.value[1] ELSE type
     /\ checksum' = IF line.kind = "crc" THEN line.value ELSE checksum
     /\ IF line.kind = "data" /\ longer <= MaxBytes
          THEN data' = Append(data, line.value[1]) /\ dataBytes' = longer
          ELSE UNCHANGED <<data, dataBytes>>
     /\ failed' = \/ line.kind \in {"bad_crc", "garbled"}
                  \/ line.kind = "data" /\ longer > MaxBytes
     /\ block' = Append(block, line)
     /\ Forget

\* A line longer than the bound is rejected unread.
Oversized(line) ==
  /\ failed' = TRUE
  /\ block' = Append(block, line)
  /\ Forget
  /\ UNCHANGED eventVars

ParseLine ==
  /\ reading /\ ~failed
  /\ LineComplete
  /\ ahead' = Tail(ahead)
  /\ got' = got - Bytes(Head(ahead))
  /\ UNCHANGED reading
  /\ \/ Head(ahead).size > MaxBytes /\ Oversized(Head(ahead))
     \/ Head(ahead).kind = "blank" /\ Dispatch
     \/ Head(ahead).kind # "blank" /\ Head(ahead).size <= MaxBytes /\ Field(Head(ahead))

Next ==
  \/ \E line \in Lines \cup {Blank} : Chunk(line)
  \/ ParseLine
  \/ ChunkDone

Spec == Init /\ [][Next]_vars

-----------------------------------------------------------------------------
(* Reference: what the lines between two blank lines say, read as a whole. *)

\* Where the lines of a kind stand.
Places(lines, kind) == {i \in DOMAIN lines : lines[i].kind = kind}

LastOf(lines, kind, default) ==
  LET places == Places(lines, kind)
  IN IF places = {} THEN default ELSE lines[Seqs!Max(places)].value

\* The n-th of some places: the one with n - 1 of them before it.
Nth(places, n) ==
  CHOOSE i \in {p \in places : Cardinality({q \in places : q <= p}) = n} : TRUE

Pieces(lines) ==
  LET places == Places(lines, "data")
  IN [n \in 1 .. Cardinality(places) |-> lines[Nth(places, n)].value[1]]

\* The values of the data lines, and a line feed between any two.
DataSize(lines) ==
  LET places == Places(lines, "data")
  IN Total([i \in DOMAIN lines |-> IF i \in places THEN lines[i].weight ELSE 0])
       + (IF places = {} THEN 0 ELSE Cardinality(places) - 1)

Malformed(lines) ==
  \/ \E i \in DOMAIN lines : lines[i].kind \in {"bad_crc", "garbled"} \/ lines[i].size > MaxBytes
  \/ DataSize(lines) > MaxBytes

Decoded(lines) ==
  LET values == Pieces(lines)
      crc == LastOf(lines, "crc", NoChecksum)
      named == LastOf(lines, "event", <<"message">>)[1]
      cursor == LastOf(lines, "id", <<NoId>>)[1]
  IN IF Empty(values) THEN Skipped
     ELSE IF crc = NoChecksum THEN ParseError
     ELSE IF crc # Checksum(named, values) THEN ChecksumError
     ELSE IF PayloadType(values) # named \/ ~Validates(cursor, values) THEN ParseError
     ELSE Event(cursor)

-----------------------------------------------------------------------------
(* Properties *)

TypeOK ==
  /\ Len(ahead) <= MaxAhead
  /\ got \in 0 .. Sent
  /\ {reading, failed} \subseteq BOOLEAN
  /\ dataBytes \in Nat
  /\ verdict.outcome \in {"skipped", "event", "checksum", "parse"}

\* However the stream is cut into chunks, every event is judged by the lines of its
\* own block and by nothing before them, and the parser raises for the blocks that
\* the reference rejects (damaged, oversized, without a checksum or a valid cursor, or
\* with a payload outside the schema), by their end at the latest, and for no others.
\* While it waits for the next chunk it holds one line and the data of one event at
\* most, each within the bound.
DecodesBlocks ==
  /\ TypeOK
  /\ ~reading /\ ~failed => got <= MaxBytes /\ dataBytes <= MaxBytes
  /\ verdict = Decoded(judged)
  /\ ~Malformed(judged)
  /\ ~failed => ~Malformed(block) /\ verdict.outcome \in {"skipped", "event"}
  /\ failed => \/ verdict.outcome \in {"checksum", "parse"}
               \/ Malformed(block)
               \/ ahead # << >> /\ Head(ahead).size > MaxBytes
=============================================================================
