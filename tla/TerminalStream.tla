--------------------------- MODULE TerminalStream ---------------------------
(***************************************************************************)
(* The way of a shell's output to the screen of the web terminal.          *)
(*                                                                         *)
(* Server (SSHWebSocketHandler): the thread of a Kubernetes exec appends   *)
(* what a shell writes to a byte array; the thread that handles a message  *)
(* of the page sleeps, copies the array, resets it and sends the copy.     *)
(* Browser (terminal.js, terminal.html, Terminal.write, innerWrite and     *)
(* Renderer): a message is one chunk of the write buffer; a timer parses   *)
(* batches of chunks; animation frames draw the rows that changed.         *)
(*                                                                         *)
(* The page does not use flow control.  What the handlers of the parser do *)
(* to the screen is TerminalScreen; here one may throw.                    *)
(***************************************************************************)
EXTENDS TerminalParser

CONSTANTS
    Null,
    Alphabets,     \* sets of bytes, one of which a shell writes
    BatchSize,     \* WRITE_BATCH_SIZE
    MaxFrameSkip,  \* MAX_REFRESH_FRAME_SKIP
    MaxInFlight,   \* bound of the characters on the way
    MaxRequests,   \* bound of the messages, to and fro, when the user types
    MaxChunks      \* bound of the write buffer

ASSUME StreamAssumption ==
    /\ BatchSize \in Nat \ {0} /\ MaxFrameSkip \in Nat
    /\ MaxInFlight \in Nat /\ MaxRequests \in Nat /\ MaxChunks \in Nat
    /\ Null \notin {"bash", "sh", "command"}

VARIABLES
    alphabet, image,         \* what the shell writes; which shell the image has
    socket,                  \* the web socket: open, lost, and the page knows
    requests,                \* messages of the page: "connect", "command"
    shells, watch,           \* execs that run, the last one that was started
    output,                  \* SSHContext.baos
    handler, content,        \* the thread that handles a message; its copy
    closed,                  \* afterConnectionClosed has run
    messages,                \* messages to the page
    writeBuffer, writeInProgress, timers,
    parser,
    stopped,                 \* an exception has left innerWrite
    toRefresh, frame, skipped,   \* _refreshRowsQueue is not empty, its frame, frames skipped
    reader, aligned, agreed  \* history: the reference parser of TerminalParser

server  == <<socket, requests, shells, watch, output, handler, content, closed, messages>>
writing == <<writeBuffer, writeInProgress, timers, parser, stopped>>
drawing == <<toRefresh, frame, skipped>>
history == <<reader, aligned, agreed>>
fixed   == <<alphabet, image>>
vars    == <<fixed, server, writing, drawing, history>>

-----------------------------------------------------------------------------
Chars(chunks) == LET n[k \in 0 .. Len(chunks)] ==
                         IF k = 0 THEN 0 ELSE n[k - 1] + Len(chunks[k])
                 IN n[Len(chunks)]
InFlight == Len(output) + Len(content) + Chars(messages) + Chars(writeBuffer)

(* ByteArrayOutputStream.toString: "w1" and "w2" are the bytes of one      *)
(* character; a copy that has only one of them has a replacement character.*)
Decoded(text, byte) ==
    IF byte = "w2" /\ text # <<>> /\ text[Len(text)] = "w1"
    THEN [text EXCEPT ![Len(text)] = "w"] ELSE Append(text, byte)

\* Mutant: bytes are sent as they are.
DecodeNothing(bytes) == bytes

Decode(bytes) ==
    LET text[k \in 0 .. Len(bytes)] ==
            IF k = 0 THEN <<>> ELSE Decoded(text[k - 1], bytes[k])
        whole == text[Len(bytes)]
    IN [k \in DOMAIN whole |-> IF whole[k] \in {"w1", "w2"} THEN "bad" ELSE whole[k]]

\* The error text of an exec whose executable is not in the image.
NotFound == "notfound"

Idle == [at |-> "idle", doing |-> Null]

-----------------------------------------------------------------------------
(* The page.  It asks to connect when the socket opens and sends what the  *)
(* user types.  Bound: nothing is typed into a terminal that has stopped.  *)
sendClientData ==
    /\ socket = "open" /\ ~ stopped
    /\ Len(requests) + Len(messages) + Len(writeBuffer) < MaxRequests
    /\ requests' = Append(requests, "command")
    /\ UNCHANGED <<fixed, socket, shells, watch, output, handler, content, closed,
                   messages, writing, drawing, history>>

(* The server.  An exec runs until it ends; the error of one that cannot   *)
(* start comes as output.  Bound: none is followed that a stopped terminal *)
(* would not show.                                                         *)
shellWrites(s) ==
    /\ s \in shells /\ ~ stopped
    /\ InFlight < MaxInFlight
    /\ IF s = image
       THEN /\ \E byte \in alphabet : output' = Append(output, byte)
            /\ UNCHANGED shells
       ELSE output' = Append(output, NotFound) /\ shells' = shells \ {s}
    /\ UNCHANGED <<fixed, socket, requests, watch, handler, content, closed, messages,
                   writing, drawing, history>>

\* doConnect and transToSSH up to their sleep.
Exec(s) == shells' = shells \union {s} /\ watch' = s

\* Unknown users and environments get a text; nothing is started.
refuse ==
    /\ handler = Idle /\ ~ closed
    /\ requests # <<>> /\ Head(requests) = "connect"
    /\ requests' = Tail(requests)
    /\ messages' = IF socket = "open" THEN Append(messages, <<"a">>) ELSE messages
    /\ UNCHANGED <<fixed, socket, shells, watch, output, handler, content, closed,
                   writing, drawing, history>>

connect ==
    /\ handler = Idle /\ ~ closed
    /\ requests # <<>> /\ Head(requests) = "connect"
    /\ requests' = Tail(requests)
    /\ Exec("bash")
    /\ handler' = [at |-> "asleep", doing |-> "bash"]
    /\ UNCHANGED <<fixed, socket, output, content, closed, messages, writing, drawing, history>>

transToSSH ==
    /\ handler = Idle /\ ~ closed
    /\ requests # <<>> /\ Head(requests) = "command"
    /\ requests' = Tail(requests)
    /\ handler' = IF watch = Null THEN Idle ELSE [at |-> "asleep", doing |-> "command"]
    /\ UNCHANGED <<fixed, socket, shells, watch, output, content, closed, messages,
                   writing, drawing, history>>

\* output(): toString, and then reset; a shell may write in between.
copy ==
    /\ handler.at = "asleep"
    /\ handler' = [handler EXCEPT !.at = "copied"]
    /\ content' = Decode(output)
    /\ UNCHANGED <<fixed, socket, requests, shells, watch, output, closed, messages,
                   writing, drawing, history>>

Failed(text) == text = <<>> \/ \E k \in DOMAIN text : text[k] = NotFound

\* A shell that said nothing in time counts as missing, and sh is started too.
resetAndSend ==
    /\ handler.at = "copied"
    /\ output' = <<>> /\ content' = <<>>
    /\ IF handler.doing # "command" /\ Failed(content)
       THEN /\ IF handler.doing = "bash"
               THEN Exec("sh") /\ handler' = [at |-> "asleep", doing |-> "sh"]
               ELSE UNCHANGED <<shells, watch>> /\ handler' = Idle
            /\ UNCHANGED messages
       ELSE /\ messages' = IF socket = "open" THEN Append(messages, content) ELSE messages
            /\ handler' = Idle
            /\ UNCHANGED <<shells, watch>>
    /\ UNCHANGED <<fixed, socket, requests, closed, writing, drawing, history>>

disconnect ==
    /\ socket = "open" /\ socket' = "lost"
    /\ requests' = <<>>
    /\ messages' \in {messages, <<>>}
    /\ UNCHANGED <<fixed, shells, watch, output, handler, content, closed,
                   writing, drawing, history>>

(* afterConnectionClosed.  Without a watch it ends with an exception;      *)
(* otherwise closing the client ends every exec of it.                     *)
\* Mutant: only the exec of the last watch ends.
closeWatch ==
    /\ socket # "open" /\ ~ closed /\ handler = Idle
    /\ closed' = TRUE
    /\ output' = <<>>
    /\ shells' = shells \ {watch}
    /\ UNCHANGED <<fixed, socket, requests, watch, handler, content, messages,
                   writing, drawing, history>>

close ==
    /\ socket # "open" /\ ~ closed /\ handler = Idle
    /\ closed' = TRUE
    /\ output' = <<>>
    /\ shells' = IF watch = Null THEN shells ELSE {}
    /\ UNCHANGED <<fixed, socket, requests, watch, handler, content, messages,
                   writing, drawing, history>>

-----------------------------------------------------------------------------
(* Terminal.write: the first chunk starts a timer.                         *)
write(chunk) ==
    /\ Len(writeBuffer) < MaxChunks
    /\ writeBuffer' = Append(writeBuffer, chunk)
    /\ IF writeInProgress THEN UNCHANGED <<writeInProgress, timers>>
       ELSE writeInProgress' = TRUE /\ timers' = timers + 1
    /\ UNCHANGED <<parser, stopped>>

onData ==
    /\ messages # <<>>
    /\ write(Head(messages))
    /\ messages' = Tail(messages)
    /\ UNCHANGED <<fixed, socket, requests, shells, watch, output, handler, content, closed,
                   drawing, history>>

\* "\rconnection closed", once nothing is left to come.
onClose ==
    /\ socket = "lost" /\ messages = <<>>
    /\ socket' = "told"
    /\ write(<<"a">>)
    /\ UNCHANGED <<fixed, requests, shells, watch, output, handler, content, closed,
                   messages, drawing, history>>

\* The chunks of a batch, one after the other, by the parser and the reader.
\* Once a message has ended at such a place, the reader is not followed on.
Both(b, r, w) ==
    LET follows == b.aligned /\ ~ r.beyond
    IN [parser |-> r.parser, calls |-> b.calls \o r.calls, aligned |-> follows,
        reader |-> IF follows THEN [parser |-> w.parser, skip |-> w.skip] ELSE NewReader,
        agreed |-> b.agreed /\ (b.aligned => r.calls = w.calls)]

\* Mutant: every chunk is parsed from the start state.
ParseChunkAnew(b, chunk) == Both(b, Parse(Start, chunk), Read(b.reader, chunk))

ParseChunk(b, chunk) == Both(b, Parse(b.parser, chunk), Read(b.reader, chunk))

ParsedBatch(batch) ==
    LET after[k \in 0 .. Len(batch)] ==
            IF k = 0 THEN [parser |-> parser, reader |-> reader, calls |-> <<>>,
                           aligned |-> aligned, agreed |-> agreed]
                     ELSE ParseChunk(after[k - 1], batch[k])
    IN after[Len(batch)]

Resets(calls) == \E k \in DOMAIN calls : calls[k].on = "ESCAPED" /\ calls[k].char = "c"

\* ESC c empties the write buffer, but not the batch that is parsed.
Batch == SubSeq(writeBuffer, 1, IF BatchSize < Len(writeBuffer) THEN BatchSize
                                                               ELSE Len(writeBuffer))
Rest(calls) == IF Resets(calls) THEN <<>>
               ELSE SubSeq(writeBuffer, Len(Batch) + 1, Len(writeBuffer))

\* Renderer.queueRefresh, for every chunk that was parsed.
queueRefresh == toRefresh' = TRUE /\ frame' = TRUE /\ UNCHANGED skipped

\* Mutant: no timer for the chunks that a batch leaves.
innerWriteOnce ==
    /\ timers > 0
    /\ LET parsed == ParsedBatch(Batch)
           rest   == Rest(parsed.calls)
       IN /\ parser' = parsed.parser
          /\ reader' = parsed.reader
          /\ aligned' = parsed.aligned
          /\ agreed' = parsed.agreed
          /\ writeBuffer' = rest
          /\ writeInProgress' = (rest # <<>>)
          /\ timers' = timers - 1
    /\ queueRefresh
    /\ UNCHANGED <<fixed, server, stopped>>

innerWrite ==
    /\ timers > 0
    /\ LET parsed == ParsedBatch(Batch)
           rest   == Rest(parsed.calls)
       IN /\ parser' = parsed.parser
          /\ reader' = parsed.reader
          /\ aligned' = parsed.aligned
          /\ agreed' = parsed.agreed
          /\ writeBuffer' = rest
          /\ writeInProgress' = (rest # <<>>)
          /\ timers' = IF rest = <<>> THEN timers - 1 ELSE timers
    /\ queueRefresh
    /\ UNCHANGED <<fixed, server, stopped>>

\* A handler throws: writeInProgress stays, and no timer follows.
innerWriteThrows ==
    /\ timers > 0
    /\ ParsedBatch(Batch).calls # <<>>
    /\ stopped' = TRUE
    /\ timers' = timers - 1
    /\ writeBuffer' = SubSeq(writeBuffer, Len(Batch) + 1, Len(writeBuffer))
    /\ UNCHANGED <<fixed, server, writeInProgress, parser, drawing, history>>

(* Renderer._refreshLoop: while output waits, some frames are skipped.     *)
\* Mutant: frames are skipped as long as output waits.
refreshLoopAfterOutput ==
    /\ frame
    /\ writeBuffer = <<>>
    /\ skipped' = 0 /\ toRefresh' = FALSE /\ frame' = FALSE
    /\ UNCHANGED <<fixed, server, writing, history>>

refreshLoop ==
    /\ frame
    /\ IF writeBuffer # <<>> /\ skipped <= MaxFrameSkip
       THEN skipped' = skipped + 1 /\ UNCHANGED <<toRefresh, frame>>
       ELSE skipped' = 0 /\ toRefresh' = FALSE /\ frame' = FALSE
    /\ UNCHANGED <<fixed, server, writing, history>>

-----------------------------------------------------------------------------
Init ==
    /\ alphabet \in Alphabets /\ image \in {"bash", "sh", "none"}
    /\ socket = "open" /\ requests = <<"connect">>
    /\ shells = {} /\ watch = Null
    /\ output = <<>> /\ handler = Idle /\ content = <<>> /\ closed = FALSE
    /\ messages = <<>>
    /\ writeBuffer = <<>> /\ writeInProgress = FALSE /\ timers = 0
    /\ parser = Start /\ stopped = FALSE
    /\ toRefresh = FALSE /\ frame = FALSE /\ skipped = 0
    /\ reader = NewReader /\ aligned = TRUE /\ agreed = TRUE

Server == \/ refuse \/ connect \/ transToSSH \/ copy \/ resetAndSend
          \/ disconnect \/ close
          \/ \E s \in {"bash", "sh"} : shellWrites(s)

Browser == \/ sendClientData \/ onData \/ onClose
           \/ innerWrite \/ innerWriteThrows \/ refreshLoop

Next == Server \/ Browser

Spec == Init /\ [][Next]_vars

(* The browser draws the frames that are requested.                        *)
FairSpec == Spec /\ WF_vars(refreshLoop)

-----------------------------------------------------------------------------
(* The type of every variable; only whole characters reach the browser.    *)
Characters == ((UNION Alphabets) \ {"w1", "w2"}) \union {"a", "w", "bad", NotFound}

ChunksOf(chunks) == \A k \in DOMAIN chunks :
                       \A j \in DOMAIN chunks[k] : chunks[k][j] \in Characters

ParserType == [state : ParserStates, prefix : BOOLEAN, params : 0 .. MaxParams]

TypeOK ==
    /\ alphabet \in Alphabets /\ image \in {"bash", "sh", "none"}
    /\ socket \in {"open", "lost", "told"} /\ closed \in BOOLEAN
    /\ \A k \in DOMAIN requests : requests[k] \in {"connect", "command"}
    /\ shells \subseteq {"bash", "sh"} /\ watch \in {Null, "bash", "sh"}
    /\ \A k \in DOMAIN output : output[k] \in alphabet \union {NotFound}
    /\ handler \in [at : {"idle", "asleep", "copied"},
                    doing : {Null, "bash", "sh", "command"}]
    /\ ChunksOf(<<content>>) /\ ChunksOf(messages) /\ ChunksOf(writeBuffer)
    /\ writeInProgress \in BOOLEAN /\ timers \in Nat
    /\ parser \in ParserType /\ reader \in [parser : ParserType, skip : BOOLEAN]
    /\ stopped \in BOOLEAN /\ aligned \in BOOLEAN /\ agreed \in BOOLEAN
    /\ toRefresh \in BOOLEAN /\ frame \in BOOLEAN /\ skipped \in 0 .. MaxFrameSkip + 1

(* How the server cuts the output into messages, and how the browser       *)
(* batches them, makes no difference to the handlers that are called, as   *)
(* long as no message ends within 'ESC %' or the ESC that ends a string:   *)
(* there the loop of Parser.parse forgets what it was to skip.             *)
ChunksInvisible == agreed /\ (aligned => parser = reader.parser)

(* Nothing waits without somebody to come for it: chunks have exactly one  *)
(* timer, unless a handler has thrown, and refreshes have a frame          *)
(* (writeInProgress in write, innerWrite and ESC c; _refreshRowsQueue[0]   *)
(* exists when a frame is drawn).                                          *)
NothingWaitsAlone ==
    /\ timers <= 1
    /\ timers = 1 => writeInProgress /\ writeBuffer # <<>>
    /\ (writeBuffer # <<>> /\ ~ stopped) => timers = 1
    /\ frame <=> toRefresh

(* When the connection is gone and its handler has run, no shell is left   *)
(* in the container, although a slow start may have started two.           *)
NoOrphanShell == closed => shells = {}

(* Output that never pauses does not keep the screen from being drawn: the *)
(* frames that _refreshLoop skips are bounded.                             *)
ScreenIsDrawn == toRefresh ~> ~ toRefresh

=============================================================================
