------------------------ MODULE TerminalStreamProofs ------------------------
(***************************************************************************)
(* Theorems about TerminalStream, for any alphabets, batch size, number of *)
(* skipped frames and any bounds: nothing waits alone, no shell outlives   *)
(* its connection, and chunks are invisible.  The last one is about what   *)
(* Decode, Parse and Read compute, recursive functions, whose values are   *)
(* typed and compared by induction (FiniteRecursion).                      *)
(***************************************************************************)
EXTENDS TerminalStream, FiniteRecursion

-----------------------------------------------------------------------------
(* The write buffer is a sequence, of whatever the server sends.           *)
IsSeq(s) == \E S : s \in Seq(S)

LEMMA AppendIsSeq ==
  ASSUME NEW s, NEW e, IsSeq(s)
  PROVE  IsSeq(Append(s, e)) /\ Append(s, e) # <<>>
<1>1. PICK S : s \in Seq(S)
  BY DEF IsSeq
<1>. DEFINE T == S \union {e}
<1>2. s \in Seq(T) /\ e \in T
  BY <1>1
<1>. HIDE DEF T
<1>3. Append(s, e) \in Seq(T)
  BY <1>2
<1>4. Len(Append(s, e)) = Len(s) + 1 /\ Len(s) \in Nat
  BY <1>2
<1>5. Append(s, e) # <<>>
  BY <1>4
<1>. QED  BY <1>3, <1>5 DEF IsSeq

\* What a batch leaves of the buffer.
LEMMA RestIsSeq ==
  ASSUME IsSeq(writeBuffer)
  PROVE  /\ IsSeq(SubSeq(writeBuffer, Len(Batch) + 1, Len(writeBuffer)))
         /\ IsSeq(<<>>)
<1>1. PICK S : writeBuffer \in Seq(S)
  BY DEF IsSeq
<1>. DEFINE n == IF BatchSize < Len(writeBuffer) THEN BatchSize ELSE Len(writeBuffer)
<1>2. n \in Nat /\ n <= Len(writeBuffer) /\ Len(writeBuffer) \in Nat
  BY <1>1, StreamAssumption
<1>. HIDE DEF n
<1>3. Batch = SubSeq(writeBuffer, 1, n)
  BY DEF Batch, n
<1>4. Len(Batch) \in Nat /\ Len(Batch) <= Len(writeBuffer)
  BY <1>1, <1>2, <1>3
<1>5. SubSeq(writeBuffer, Len(Batch) + 1, Len(writeBuffer)) \in Seq(S)
  BY <1>1, <1>2, <1>4
<1>6. <<>> \in Seq(S)
  OBVIOUS
<1>. QED  BY <1>5, <1>6 DEF IsSeq

-----------------------------------------------------------------------------
(* A timer is set exactly while a write is in progress, until an exception *)
(* ends one for good; the buffer is empty otherwise.                       *)
WritingInv ==
    /\ IsSeq(writeBuffer)
    /\ timers \in 0 .. 1 /\ writeInProgress \in BOOLEAN /\ stopped \in BOOLEAN
    /\ stopped => writeInProgress /\ timers = 0
    /\ ~ stopped => (writeInProgress <=> timers = 1)
    /\ writeBuffer # <<>> => writeInProgress
    /\ timers = 1 => writeBuffer # <<>>

DrawingInv == frame = toRefresh

LEMMA WriteWritingInv ==
  ASSUME WritingInv, NEW chunk, write(chunk)
  PROVE  WritingInv'
<1>1. IsSeq(writeBuffer') /\ writeBuffer' # <<>>
  BY AppendIsSeq DEF WritingInv, write
<1>2. CASE writeInProgress
  BY <1>1, <1>2 DEF WritingInv, write
<1>3. CASE ~ writeInProgress
  BY <1>1, <1>3 DEF WritingInv, write
<1>. QED  BY <1>2, <1>3

LEMMA NextWritingInv == WritingInv /\ DrawingInv /\ [Next]_vars => WritingInv' /\ DrawingInv'
<1>. SUFFICES ASSUME WritingInv, DrawingInv, [Next]_vars PROVE WritingInv' /\ DrawingInv'
  OBVIOUS
<1>1. ASSUME UNCHANGED <<writeBuffer, writeInProgress, timers, stopped>>
      PROVE  WritingInv'
  BY <1>1 DEF WritingInv
<1>2. ASSUME UNCHANGED <<toRefresh, frame>> PROVE DrawingInv'
  BY <1>2 DEF DrawingInv
<1>3. CASE Server \/ UNCHANGED vars \/ sendClientData
  BY <1>1, <1>2, <1>3 DEF Server, sendClientData, vars, writing, drawing, refuse, connect,
     transToSSH, copy, resetAndSend, disconnect, close, shellWrites
<1>4. CASE onData \/ onClose
  BY <1>2, <1>4, WriteWritingInv DEF onData, onClose, drawing
<1>5. CASE innerWrite
  <2>. DEFINE rest == Rest(ParsedBatch(Batch).calls)
  <2>1. /\ timers > 0 /\ stopped' = stopped
        /\ writeBuffer' = rest /\ writeInProgress' = (rest # <<>>)
        /\ timers' = IF rest = <<>> THEN timers - 1 ELSE timers
        /\ toRefresh' = TRUE /\ frame' = TRUE
    BY <1>5 DEF innerWrite, queueRefresh
  <2>2. IsSeq(rest)
    BY RestIsSeq DEF Rest, WritingInv
  <2>. HIDE DEF rest
  <2>3. timers = 1 /\ ~ stopped
    BY <2>1 DEF WritingInv
  <2>4. CASE rest = <<>>
    BY <2>1, <2>2, <2>3, <2>4 DEF WritingInv, DrawingInv
  <2>5. CASE rest # <<>>
    <3>1. timers' = 1 /\ writeInProgress' = TRUE
      BY <2>1, <2>3, <2>5
    <3>. QED  BY <2>1, <2>2, <2>3, <2>5, <3>1 DEF WritingInv, DrawingInv
  <2>. QED  BY <2>4, <2>5
<1>6. CASE innerWriteThrows
  <2>1. /\ timers > 0 /\ stopped' = TRUE /\ timers' = timers - 1
        /\ writeBuffer' = SubSeq(writeBuffer, Len(Batch) + 1, Len(writeBuffer))
        /\ writeInProgress' = writeInProgress /\ UNCHANGED <<toRefresh, frame>>
    BY <1>6 DEF innerWriteThrows, drawing
  <2>2. IsSeq(writeBuffer')
    BY <2>1, RestIsSeq DEF WritingInv
  <2>3. timers = 1 /\ writeInProgress
    BY <2>1 DEF WritingInv
  <2>4. WritingInv'
    BY <2>1, <2>2, <2>3 DEF WritingInv
  <2>. QED  BY <1>2, <2>1, <2>4
<1>7. CASE refreshLoop
  <2>1. WritingInv'
    BY <1>1, <1>7 DEF refreshLoop, writing
  <2>2. UNCHANGED <<toRefresh, frame>> \/ (toRefresh' = FALSE /\ frame' = FALSE)
    BY <1>7 DEF refreshLoop
  <2>. QED  BY <1>2, <2>1, <2>2 DEF DrawingInv
<1>. QED  BY <1>3, <1>4, <1>5, <1>6, <1>7 DEF Next, Browser

LEMMA WritingDrawing == Spec => [](WritingInv /\ DrawingInv)
<1>1. Init => WritingInv /\ DrawingInv
  <2>1. <<>> \in Seq({})
    OBVIOUS
  <2>2. IsSeq(<<>>)
    BY <2>1 DEF IsSeq
  <2>3. Init => writeBuffer = <<>> /\ ~ writeInProgress /\ timers = 0 /\ ~ stopped
                /\ writeInProgress \in BOOLEAN /\ stopped \in BOOLEAN /\ frame = toRefresh
    BY DEF Init
  <2>. QED  BY <2>2, <2>3 DEF WritingInv, DrawingInv
<1>. QED  BY <1>1, NextWritingInv, PTL DEF Spec

(* Chunks always have their one timer, unless a handler has thrown, and    *)
(* rows to be drawn their frame: whatever the batch size, wherever a       *)
(* message or a reset comes (Terminal.write, innerWrite, queueRefresh).    *)
THEOREM SomebodyComes == Spec => []NothingWaitsAlone
<1>1. WritingInv /\ DrawingInv => NothingWaitsAlone
  BY DEF WritingInv, DrawingInv, NothingWaitsAlone
<1>. QED  BY <1>1, WritingDrawing, PTL

-----------------------------------------------------------------------------
(* Shells run only after a watch was set, and only until the connection's  *)
(* handler has run; no message is handled at that time or afterwards.      *)
ShellInv ==
    /\ watch = Null => shells = {}
    /\ closed => shells = {} /\ handler = Idle

LEMMA NextShellInv == ShellInv /\ [Next]_vars => ShellInv'
<1>. SUFFICES ASSUME ShellInv, [Next]_vars PROVE ShellInv'
  OBVIOUS
<1>1. ASSUME UNCHANGED <<shells, watch, handler, closed>> PROVE ShellInv'
  BY <1>1 DEF ShellInv
<1>2. CASE Browser \/ refuse \/ disconnect \/ UNCHANGED vars
  BY <1>1, <1>2 DEF Browser, sendClientData, onData, onClose, innerWrite, innerWriteThrows,
     refreshLoop, refuse, disconnect, vars, server
<1>3. CASE connect
  BY <1>3, StreamAssumption DEF connect, Exec, ShellInv
<1>4. CASE transToSSH
  BY <1>4 DEF transToSSH, ShellInv
<1>5. CASE copy
  BY <1>5 DEF copy, ShellInv, Idle
<1>6. CASE resetAndSend
  <2>1. ~ closed
    BY <1>6 DEF resetAndSend, ShellInv, Idle
  <2>2. closed' = closed /\ ((UNCHANGED <<shells, watch>>) \/ watch' # Null)
    BY <1>6, StreamAssumption DEF resetAndSend, Exec
  <2>. QED  BY <2>1, <2>2 DEF ShellInv
<1>7. CASE close
  BY <1>7 DEF close, ShellInv
<1>8. ASSUME NEW s \in {"bash", "sh"}, shellWrites(s) PROVE ShellInv'
  BY <1>8 DEF shellWrites, ShellInv
<1>. QED  BY <1>2, <1>3, <1>4, <1>5, <1>6, <1>7, <1>8 DEF Next, Server

(* Once afterConnectionClosed has run, no shell runs, although two may     *)
(* have been started for one connection (doConnect, close).                *)
THEOREM ShellsEnd == Spec => []NoOrphanShell
<1>1. Init => ShellInv
  BY DEF Init, ShellInv
<1>2. ShellInv => NoOrphanShell
  BY DEF ShellInv, NoOrphanShell
<1>. QED  BY <1>1, <1>2, NextShellInv, PTL DEF Spec

-----------------------------------------------------------------------------
(* The types of what one character does (TerminalParser.React), for any    *)
(* set C of characters: the parser after it, the calls, the move.          *)
CallType(C) == [on : ParserStates, char : C, params : 0 .. MaxParams, prefix : BOOLEAN]

ReactionType(C) == [parser : ParserType, calls : Seq(CallType(C)), move : {-1, 0, 1}]

LEMMA CallsType ==
  ASSUME NEW C, NEW p \in ParserType, NEW ch \in C
  PROVE  Calls(p, ch) \in Seq(CallType(C)) /\ <<>> \in Seq(CallType(C))
  BY DEF Calls, CallType, ParserType

LEMMA CountType == MaxParams \in Nat /\ 0 \in 0 .. MaxParams /\ 1 \in 0 .. MaxParams
  BY ParserAssumption

LEMMA InType ==
  ASSUME NEW p \in ParserType, NEW s \in ParserStates
  PROVE  /\ In(p, s) \in ParserType /\ In(p, s).state = s
         /\ [In(p, s) EXCEPT !.params = 0] \in ParserType
         /\ [In(p, s) EXCEPT !.prefix = FALSE] \in ParserType
<1>1. In(p, s) \in ParserType /\ In(p, s).state = s
  BY DEF ParserType, In
<1>2. ASSUME NEW q \in ParserType, NEW b \in BOOLEAN
      PROVE  [q EXCEPT !.params = 0] \in ParserType /\ [q EXCEPT !.prefix = b] \in ParserType
  BY CountType DEF ParserType
<1>. QED  BY <1>1, <1>2

LEMMA StringStateType ==
  ASSUME NEW C, NEW p \in ParserType, NEW ch \in C
  PROVE  StringState(p, ch) \in ReactionType(C) /\ StringState(p, ch).move # -1
<1>. DEFINE q == IF p.state = "OSC" /\ ch = ";" /\ p.params = 0
                 THEN [p EXCEPT !.params = 1] ELSE p
            e == CASE p.state = "OSC" -> [In(p, "NORMAL") EXCEPT !.params = 0]
                   [] p.state = "DCS" -> [In(p, "NORMAL") EXCEPT !.prefix = FALSE]
                   [] OTHER           -> In(p, "NORMAL")
            c == IF p.state = "IGNORE" THEN <<>> ELSE Calls(p, ch)
            m == IF ch = "ESC" THEN 1 ELSE 0
<1>1. q \in ParserType
  <2>1. [p EXCEPT !.params = 1] \in ParserType
    BY CountType DEF ParserType
  <2>. QED  BY <2>1
<1>2. e \in ParserType
  <2>1. CASE p.state = "OSC"
    BY <2>1, InType DEF ParserStates
  <2>2. CASE p.state = "DCS"
    BY <2>2, InType DEF ParserStates
  <2>3. CASE p.state \notin {"OSC", "DCS"}
    BY <2>3, InType DEF ParserStates
  <2>. QED  BY <2>1, <2>2, <2>3
<1>3. c \in Seq(CallType(C)) /\ <<>> \in Seq(CallType(C))
  BY CallsType
<1>4. StringState(p, ch) = IF ch \in {"ESC", "BEL"} THEN To(e, c, m) ELSE To(q, <<>>, 0)
  BY DEF StringState, Ends
<1>. HIDE DEF q, e, c
<1>. QED  BY <1>1, <1>2, <1>3, <1>4 DEF To, ReactionType

LEMMA CsiParamStateType ==
  ASSUME NEW C, NEW p \in ParserType, NEW ch \in C
  PROVE  CsiParamState(p, ch) \in ReactionType(C) /\ CsiParamState(p, ch).move = 0
<1>1. One(p.params) \in 0 .. MaxParams
  BY ParserAssumption DEF One, ParserType
<1>2. /\ [p EXCEPT !.prefix = TRUE] \in ParserType
      /\ [p EXCEPT !.params = One(@)] \in ParserType
      /\ In(p, "NORMAL") \in ParserType
      /\ [In(p, "NORMAL") EXCEPT !.params = One(@), !.prefix = FALSE] \in ParserType
  BY <1>1 DEF ParserType, ParserStates, In
<1>. QED  BY <1>2, CallsType DEF CsiParamState, To, ReactionType

LEMMA EscapedStateType ==
  ASSUME NEW C, NEW p \in ParserType, NEW ch \in C
  PROVE  /\ EscapedState(p, ch) \in ReactionType(C)
         /\ EscapedState(p, ch).move = -1 =>
              EscapedState(p, ch).calls = <<>> /\ EscapedState(p, ch).parser.state = "CHARSET"
<1>1. [p EXCEPT !.params = 0, !.prefix = FALSE] \in ParserType
  <2>1. ASSUME NEW b \in BOOLEAN PROVE [p EXCEPT !.params = 0, !.prefix = b] \in ParserType
    BY CountType DEF ParserType
  <2>. QED  BY <2>1
<1>2. ASSUME NEW q \in ParserType, NEW c \in Seq(CallType(C)), NEW m \in {-1, 0, 1}
      PROVE  To(q, c, m) \in ReactionType(C)
  BY DEF To, ReactionType
<1>3. ASSUME NEW s \in ParserStates, NEW c \in Seq(CallType(C)), NEW m \in {-1, 0, 1}
      PROVE  /\ To(In(p, s), c, m) \in ReactionType(C)
             /\ To([In(p, s) EXCEPT !.params = 0], c, m) \in ReactionType(C)
  BY <1>2, InType
<1>4. /\ \A q, c, m : To(q, c, m).move = m /\ To(q, c, m).calls = c /\ To(q, c, m).parser = q
      /\ Calls(p, ch) \in Seq(CallType(C)) /\ <<>> \in Seq(CallType(C))
  BY CallsType DEF To
<1>. DEFINE r == EscapedState(p, ch)
<1>5. \/ \E s \in {"CSI_PARAM", "OSC", "DCS"} : r = To([In(p, s) EXCEPT !.params = 0], <<>>, 0)
      \/ \E s \in {"IGNORE", "CHARSET"} : r = To(In(p, s), <<>>, 0)
      \/ r = To([p EXCEPT !.params = 0, !.prefix = FALSE], Calls(p, ch), 0)
      \/ r = To(p, Calls(p, ch), 0)
      \/ r = To(In(p, "CHARSET"), <<>>, -1)
      \/ \E m \in {0, 1} : r = To(In(p, "NORMAL"), Calls(p, ch), m)
  BY DEF EscapedState
<1>. SUFFICES /\ r \in ReactionType(C)
              /\ r.move = -1 => r.calls = <<>> /\ r.parser.state = "CHARSET"
  OBVIOUS
<1>. HIDE DEF r
<1>6. ParserStates = {"CSI_PARAM", "OSC", "DCS", "IGNORE", "CHARSET", "NORMAL", "ESCAPED"}
  BY DEF ParserStates
<1>7. CASE \E s \in {"CSI_PARAM", "OSC", "DCS"} : r = To([In(p, s) EXCEPT !.params = 0], <<>>, 0)
  <2>1. PICK s \in {"CSI_PARAM", "OSC", "DCS"} : r = To([In(p, s) EXCEPT !.params = 0], <<>>, 0)
    BY <1>7
  <2>2. s \in ParserStates
    BY <1>6
  <2>3. r \in ReactionType(C)
    BY <2>1, <2>2, <1>3, <1>4
  <2>4. r.move = 0
    BY <2>1, <1>4
  <2>. QED  BY <2>3, <2>4
<1>8. CASE \E s \in {"IGNORE", "CHARSET"} : r = To(In(p, s), <<>>, 0)
  <2>1. PICK s \in {"IGNORE", "CHARSET"} : r = To(In(p, s), <<>>, 0)
    BY <1>8
  <2>2. s \in ParserStates
    BY <1>6
  <2>3. r \in ReactionType(C)
    BY <2>1, <2>2, <1>3, <1>4
  <2>4. r.move = 0
    BY <2>1, <1>4
  <2>. QED  BY <2>3, <2>4
<1>9. CASE r = To([p EXCEPT !.params = 0, !.prefix = FALSE], Calls(p, ch), 0)
  BY <1>1, <1>2, <1>4, <1>9
<1>10. CASE r = To(p, Calls(p, ch), 0)
  BY <1>2, <1>4, <1>10
<1>11. CASE r = To(In(p, "CHARSET"), <<>>, -1)
  <2>1. "CHARSET" \in ParserStates
    BY <1>6
  <2>2. r \in ReactionType(C)
    BY <2>1, <1>3, <1>4, <1>11
  <2>3. r.calls = <<>> /\ r.parser = In(p, "CHARSET")
    BY <1>4, <1>11
  <2>4. In(p, "CHARSET").state = "CHARSET"
    BY <2>1, InType
  <2>. QED  BY <2>2, <2>3, <2>4
<1>12. CASE \E m \in {0, 1} : r = To(In(p, "NORMAL"), Calls(p, ch), m)
  <2>1. PICK m \in {0, 1} : r = To(In(p, "NORMAL"), Calls(p, ch), m)
    BY <1>12
  <2>2. "NORMAL" \in ParserStates /\ m \in {-1, 0, 1} /\ m # -1
    BY <1>6
  <2>3. r \in ReactionType(C)
    BY <2>1, <2>2, <1>3, <1>4
  <2>4. r.move = m
    BY <2>1, <1>4
  <2>. QED  BY <2>2, <2>3, <2>4
<1>. QED  BY <1>5, <1>7, <1>8, <1>9, <1>10, <1>11, <1>12

LEMMA ReactType ==
  ASSUME NEW C, NEW p \in ParserType, NEW ch \in C
  PROVE  /\ React(p, ch) \in ReactionType(C)
         /\ React(p, ch).move = -1 => /\ React(p, ch).calls = <<>>
                                      /\ React(React(p, ch).parser, ch).move = 0
<1>1. ASSUME p.state = "NORMAL"
      PROVE  NormalState(p, ch) \in ReactionType(C) /\ NormalState(p, ch).move = 0
  <2>1. In(p, "ESCAPED") \in ParserType
    BY DEF ParserType, ParserStates, In
  <2>. QED  BY <2>1, CallsType DEF NormalState, To, ReactionType
<1>2. /\ To(In(p, "NORMAL"), Calls(p, ch), 0) \in ReactionType(C)
      /\ To(In(p, "NORMAL"), Calls(p, ch), 0).move = 0
  <2>1. In(p, "NORMAL") \in ParserType
    BY DEF ParserType, ParserStates, In
  <2>. QED  BY <2>1, CallsType DEF To, ReactionType
<1>3. ASSUME NEW q, q.state = "CHARSET" PROVE React(q, ch).move = 0
  BY <1>3 DEF React, To
<1>. QED  BY <1>1, <1>2, <1>3, StringStateType, CsiParamStateType, EscapedStateType DEF React

-----------------------------------------------------------------------------
RoundType(C)  == [parser : ParserType, at : Nat \ {0}, calls : Seq(CallType(C))]
ReadType(C)   == [parser : ParserType, skip : BOOLEAN, calls : Seq(CallType(C))]

LEMMA RoundTyped ==
  ASSUME NEW C, NEW chunk \in Seq(C), NEW r \in RoundType(C)
  PROVE  Round(r, chunk) \in RoundType(C)
<1>1. CASE r.at > Len(chunk)
  BY <1>1 DEF Round
<1>2. CASE ~ (r.at > Len(chunk))
  <2>1. chunk[r.at] \in C /\ r.parser \in ParserType /\ r.at \in Nat \ {0}
    BY <1>2 DEF RoundType
  <2>. DEFINE x == React(r.parser, chunk[r.at])
  <2>2. x \in ReactionType(C)
    BY <2>1, ReactType
  <2>3. Round(r, chunk) = Moved(r, x)
    BY <1>2 DEF Round
  <2>. HIDE DEF x
  <2>4. /\ r.calls \o x.calls \in Seq(CallType(C))
        /\ r.at + 1 + x.move \in Nat \ {0} /\ x.parser \in ParserType
    BY <2>1, <2>2 DEF ReactionType, RoundType
  <2>. QED  BY <2>3, <2>4 DEF Moved, RoundType
<1>. QED  BY <1>1, <1>2

LEMMA ReadOneTyped ==
  ASSUME NEW C, NEW ch \in C, NEW r \in ReadType(C)
  PROVE  ReadOne(r, ch) \in ReadType(C)
<1>1. ASSUME NEW x \in ReactionType(C) PROVE Reading(r, x) \in ReadType(C)
  <2>1. r.calls \o x.calls \in Seq(CallType(C)) /\ x.parser \in ParserType
    BY DEF ReactionType, ReadType
  <2>2. (x.move = 1) \in BOOLEAN
    OBVIOUS
  <2>. QED  BY <2>1, <2>2 DEF Reading, ReadType
<1>2. React(r.parser, ch) \in ReactionType(C) /\ r.parser \in ParserType
  BY ReactType DEF ReadType
<1>3. React(React(r.parser, ch).parser, ch) \in ReactionType(C)
  BY <1>2, ReactType DEF ReactionType
<1>4. ASSUME NEW b \in BOOLEAN PROVE [r EXCEPT !.skip = b] \in ReadType(C)
  BY DEF ReadType
<1>. QED  BY <1>1, <1>2, <1>3, <1>4 DEF ReadOne

\* What Parse computes in one round after the other.
LEMMA ParseRounds ==
  ASSUME NEW C, NEW p \in ParserType, NEW chunk \in Seq(C)
  PROVE  \E f : /\ f[0] = [parser |-> p, at |-> 1, calls |-> <<>>]
                /\ \A k \in 0 .. 2 * Len(chunk) - 1 : f[k + 1] = Round(f[k], chunk)
                /\ \A k \in 0 .. 2 * Len(chunk) : f[k] \in RoundType(C)
                /\ Parse(p, chunk) = Parsed(f[2 * Len(chunk)], chunk)
<1>. DEFINE n == 2 * Len(chunk)
            b == [parser |-> p, at |-> 1, calls |-> <<>>]
            F == [x \in (1 .. n) \X RoundType(C) |-> Round(x[2], chunk)]
            Q(h) == h = [k \in 0 .. n |-> IF k = 0 THEN b ELSE Round(h[k - 1], chunk)]
            f == CHOOSE h : Q(h)
<1>1. n \in Nat /\ b \in RoundType(C)
  BY DEF RoundType
<1>2. F \in [(1 .. n) \X RoundType(C) -> RoundType(C)]
  BY RoundTyped
<1>3. Parse(p, chunk) = Parsed(f[n], chunk)
  BY DEF Parse
<1>. HIDE DEF n, b
<1>4. \E h : Q(h)
  <2>. HIDE DEF F
  <2>1. DefinesRecursion(n, RoundType(C), b, F)
    BY <1>1, <1>2, RecursionExists
  <2>2. PICK h \in [0 .. n -> RoundType(C)] :
           h[0] = b /\ \A k \in 1 .. n : h[k] = F[<<k, h[k - 1]>>]
    BY <2>1 DEF DefinesRecursion
  <2>3. ASSUME NEW k \in 0 .. n
        PROVE  h[k] = IF k = 0 THEN b ELSE Round(h[k - 1], chunk)
    <3>1. CASE k = 0
      BY <2>2, <3>1
    <3>2. CASE k # 0
      <4>1. k \in 1 .. n /\ h[k - 1] \in RoundType(C)
        BY <1>1, <3>2
      <4>2. F[<<k, h[k - 1]>>] = Round(h[k - 1], chunk)
        BY <4>1 DEF F
      <4>. QED  BY <2>2, <3>2, <4>1, <4>2
    <3>. QED  BY <3>1, <3>2
  <2>4. Q(h)
    BY <2>3
  <2>. QED  BY <2>4
<1>5. Q(f)
  <2>. HIDE DEF Q
  <2>. QED  BY <1>4, Zenon
<1>. HIDE DEF f
<1>6. f[0] = b /\ \A k \in 0 .. n - 1 : f[k + 1] = Round(f[k], chunk)
  BY <1>1, <1>5
<1>7. \A k \in 0 .. n : f[k] \in RoundType(C)
  <2>. DEFINE S == {k \in 0 .. n : f[k] \in RoundType(C)}
  <2>1. 0 \in S
    BY <1>1, <1>6
  <2>2. \A k \in 0 .. n - 1 : k \in S => k + 1 \in S
    BY <1>1, <1>6, RoundTyped
  <2>. HIDE DEF S
  <2>3. \A k \in 0 .. n : k \in S
    BY <1>1, <2>1, <2>2, InductionUpTo
  <2>. QED  BY <2>3 DEF S
<1>. QED  BY <1>3, <1>6, <1>7 DEF n, b

\* What Read computes for one character after the other.
LEMMA ReadSteps ==
  ASSUME NEW C, NEW r \in [parser : ParserType, skip : BOOLEAN], NEW chunk \in Seq(C)
  PROVE  \E f : /\ f[0] = [parser |-> r.parser, skip |-> r.skip, calls |-> <<>>]
                /\ \A k \in 0 .. Len(chunk) - 1 : f[k + 1] = ReadOne(f[k], chunk[k + 1])
                /\ \A k \in 0 .. Len(chunk) : f[k] \in ReadType(C)
                /\ Read(r, chunk) = f[Len(chunk)]
<1>. DEFINE n == Len(chunk)
            b == [parser |-> r.parser, skip |-> r.skip, calls |-> <<>>]
            F == [x \in (1 .. n) \X ReadType(C) |-> ReadOne(x[2], chunk[x[1]])]
            Q(h) == h = [k \in 0 .. n |-> IF k = 0 THEN b ELSE ReadOne(h[k - 1], chunk[k])]
            f == CHOOSE h : Q(h)
<1>1. n \in Nat /\ \A k \in 1 .. n : chunk[k] \in C
  OBVIOUS
<1>2. b \in ReadType(C)
  BY DEF ReadType
<1>3. F \in [(1 .. n) \X ReadType(C) -> ReadType(C)]
  BY <1>1, ReadOneTyped
<1>4. Read(r, chunk) = f[n]
  BY DEF Read
<1>. HIDE DEF n, b
<1>5. \E h : Q(h)
  <2>. HIDE DEF F
  <2>1. DefinesRecursion(n, ReadType(C), b, F)
    BY <1>1, <1>2, <1>3, RecursionExists
  <2>2. PICK h \in [0 .. n -> ReadType(C)] :
           h[0] = b /\ \A k \in 1 .. n : h[k] = F[<<k, h[k - 1]>>]
    BY <2>1 DEF DefinesRecursion
  <2>3. ASSUME NEW k \in 0 .. n
        PROVE  h[k] = IF k = 0 THEN b ELSE ReadOne(h[k - 1], chunk[k])
    <3>1. CASE k = 0
      BY <2>2, <3>1
    <3>2. CASE k # 0
      <4>1. k \in 1 .. n /\ h[k - 1] \in ReadType(C)
        BY <1>1, <3>2
      <4>2. F[<<k, h[k - 1]>>] = ReadOne(h[k - 1], chunk[k])
        BY <4>1 DEF F
      <4>. QED  BY <2>2, <3>2, <4>1, <4>2
    <3>. QED  BY <3>1, <3>2
  <2>4. Q(h)
    BY <2>3
  <2>. QED  BY <2>4
<1>6. Q(f)
  <2>. HIDE DEF Q
  <2>. QED  BY <1>5, Zenon
<1>. HIDE DEF f
<1>7. f[0] = b /\ \A k \in 0 .. n - 1 : f[k + 1] = ReadOne(f[k], chunk[k + 1])
  BY <1>1, <1>6
<1>8. \A k \in 0 .. n : f[k] \in ReadType(C)
  <2>. DEFINE S == {k \in 0 .. n : f[k] \in ReadType(C)}
  <2>1. 0 \in S
    BY <1>1, <1>2, <1>7
  <2>2. \A k \in 0 .. n - 1 : k \in S => k + 1 \in S
    <3>. TAKE k \in 0 .. n - 1
    <3>1. chunk[k + 1] \in C /\ k + 1 \in 0 .. n
      BY <1>1
    <3>. QED  BY <1>7, <3>1, ReadOneTyped
  <2>. HIDE DEF S
  <2>3. \A k \in 0 .. n : k \in S
    BY <1>1, <2>1, <2>2, InductionUpTo
  <2>. QED  BY <2>3 DEF S
<1>. QED  BY <1>4, <1>7, <1>8 DEF n, b

-----------------------------------------------------------------------------
(* The loop over a chunk and the reader call the same handlers.  Before a  *)
(* round the loop is at a character that the reader has not read (AtNext), *)
(* has read one half of one that takes two rounds (Half), or is beyond the *)
(* chunk while the reader is to skip one more (Beyond).                    *)
AtNext(r, a, chunk) ==
    r.at \in 1 .. Len(chunk) + 1
    /\ LET w == a[r.at - 1]
       IN ~ w.skip /\ w.parser = r.parser /\ w.calls = r.calls

Half(r, a, chunk) ==
    r.at \in 1 .. Len(chunk)
    /\ LET w == a[r.at - 1]
           x == React(w.parser, chunk[r.at])
       IN ~ w.skip /\ x.move = -1 /\ r.parser = x.parser /\ r.calls = w.calls

Beyond(r, a, chunk) ==
    r.at = Len(chunk) + 2
    /\ LET w == a[Len(chunk)]
       IN w.skip /\ w.parser = r.parser /\ w.calls = r.calls

\* How far the loop is: two rounds for a character are enough.
Rounds(r, a, chunk, k) ==
    \/ Beyond(r, a, chunk)
    \/ AtNext(r, a, chunk) /\ (2 * (r.at - 1) >= k \/ r.at = Len(chunk) + 1)
    \/ Half(r, a, chunk) /\ 2 * (r.at - 1) + 1 >= k

LEMMA RoundFollowsReader ==
  ASSUME NEW C, NEW chunk \in Seq(C), NEW a, NEW r \in RoundType(C), NEW k \in Nat,
         \A j \in 0 .. Len(chunk) - 1 : a[j + 1] = ReadOne(a[j], chunk[j + 1]),
         \A j \in 0 .. Len(chunk) : a[j] \in ReadType(C),
         Rounds(r, a, chunk, k)
  PROVE  Rounds(Round(r, chunk), a, chunk, k + 1)
<1>. DEFINE n == Len(chunk)
            w == a[r.at - 1]
            ch == chunk[r.at]
            x == React(r.parser, ch)
<1>0. n \in Nat /\ r.at \in Nat \ {0}
  BY DEF RoundType
<1>1. CASE r.at > n
  <2>1. Round(r, chunk) = r
    BY <1>1 DEF Round
  <2>2. ~ Half(r, a, chunk) /\ (AtNext(r, a, chunk) => r.at = n + 1)
    BY <1>0, <1>1 DEF AtNext, Half
  <2>. QED  BY <2>1, <2>2 DEF Rounds
<1>2. CASE r.at <= n
  <2>1. /\ ch \in C /\ r.parser \in ParserType /\ r.calls \in Seq(CallType(C))
        /\ x \in ReactionType(C)
        /\ x.move = -1 => x.calls = <<>> /\ React(x.parser, ch).move = 0
    <3>1. ch \in C /\ r.parser \in ParserType /\ r.calls \in Seq(CallType(C))
      BY <1>0, <1>2 DEF RoundType
    <3>. QED  BY <3>1, ReactType
  <2>2. /\ Round(r, chunk) = Moved(r, x)
        /\ r.at - 1 \in 0 .. n - 1 /\ w \in ReadType(C) /\ a[r.at] = ReadOne(w, ch)
    BY <1>0, <1>2 DEF Round
  <2>3. /\ Moved(r, x).parser = x.parser /\ Moved(r, x).calls = r.calls \o x.calls
        /\ Moved(r, x).at = r.at + 1 + x.move
    BY DEF Moved
  <2>. DEFINE m == Moved(r, x)
  <2>10. /\ Reading(w, x).parser = x.parser /\ Reading(w, x).calls = w.calls \o x.calls
         /\ Reading(w, x).skip <=> x.move = 1
    BY DEF Reading
  <2>. HIDE DEF m, x, ch, w
  <2>4. ~ Beyond(r, a, chunk)
    BY <1>0, <1>2 DEF Beyond
  <2>5. CASE AtNext(r, a, chunk) /\ 2 * (r.at - 1) >= k /\ x.move = -1
    <3>1. m.at = r.at /\ m.parser = x.parser /\ m.calls = r.calls
      <4>1. \A s \in Seq(CallType(C)) : s \o <<>> = s
        OBVIOUS
      <4>2. r.calls \in Seq(CallType(C)) /\ x.calls = <<>>
        BY <2>1, <2>5
      <4>3. r.calls \o x.calls = r.calls
        BY <4>1, <4>2
      <4>. QED  BY <1>0, <2>3, <2>5, <4>3 DEF m
    <3>2. ~ w.skip /\ w.parser = r.parser /\ w.calls = r.calls
      BY <2>5 DEF AtNext, w
    <3>3. Half(m, a, chunk)
      BY <1>0, <1>2, <2>5, <3>1, <3>2 DEF Half, w, x, ch
    <3>. QED  BY <1>0, <2>2, <2>5, <3>1, <3>3 DEF Rounds, m
  <2>6. CASE AtNext(r, a, chunk) /\ 2 * (r.at - 1) >= k /\ x.move = 0
    <3>1. ~ w.skip /\ w.parser = r.parser /\ w.calls = r.calls
      BY <2>6 DEF AtNext, w
    <3>2. a[r.at] = Reading(w, x)
      BY <2>2, <2>6, <3>1 DEF ReadOne, x
    <3>3. m.at = r.at + 1 /\ m.at - 1 = r.at
      BY <1>0, <2>3, <2>6 DEF m
    <3>4. AtNext(m, a, chunk)
      <4>1. a[m.at - 1] = Reading(w, x) /\ m.at \in 1 .. n + 1
        BY <1>0, <1>2, <3>2, <3>3
      <4>2. m.parser = x.parser /\ m.calls = w.calls \o x.calls /\ ~ Reading(w, x).skip
        BY <2>3, <2>6, <2>10, <3>1 DEF m
      <4>. QED  BY <2>10, <4>1, <4>2 DEF AtNext
    <3>. QED  BY <1>0, <2>2, <2>6, <3>3, <3>4 DEF Rounds, m
  <2>7. CASE AtNext(r, a, chunk) /\ 2 * (r.at - 1) >= k /\ x.move = 1
    <3>1. ~ w.skip /\ w.parser = r.parser /\ w.calls = r.calls
      BY <2>7 DEF AtNext, w
    <3>2. a[r.at] = Reading(w, x) /\ a[r.at].skip
      BY <2>2, <2>7, <2>10, <3>1 DEF ReadOne, x
    <3>3. m.at = r.at + 2
      BY <1>0, <2>3, <2>7 DEF m
    <3>4. CASE r.at = n
      <4>1. Beyond(m, a, chunk)
        BY <1>0, <2>3, <2>10, <3>1, <3>2, <3>3, <3>4 DEF Beyond, m
      <4>. QED  BY <2>2, <4>1 DEF Rounds, m
    <3>5. CASE r.at < n
      <4>1. r.at \in 0 .. n - 1 /\ r.at + 1 \in 0 .. n /\ m.at - 1 = r.at + 1
        BY <1>0, <3>3, <3>5
      <4>2. a[r.at + 1] = ReadOne(a[r.at], chunk[r.at + 1])
        BY <4>1
      <4>3. a[r.at] \in ReadType(C)
        BY <4>1
      <4>4. a[r.at + 1] = [a[r.at] EXCEPT !.skip = FALSE]
        BY <3>2, <4>2 DEF ReadOne
      <4>5. /\ ~ a[r.at + 1].skip /\ a[r.at + 1].parser = a[r.at].parser
            /\ a[r.at + 1].calls = a[r.at].calls
        BY <4>3, <4>4 DEF ReadType
      <4>6. AtNext(m, a, chunk)
        <5>1. a[m.at - 1] = a[r.at + 1] /\ m.at \in 1 .. n + 1
          BY <1>0, <3>3, <3>5, <4>1
        <5>2. m.parser = x.parser /\ m.calls = w.calls \o x.calls
          BY <2>3, <3>1 DEF m
        <5>. QED  BY <2>10, <3>2, <4>5, <5>1, <5>2 DEF AtNext
      <4>. QED  BY <1>0, <2>2, <2>7, <3>3, <4>6 DEF Rounds, m
    <3>. QED  BY <1>0, <1>2, <3>4, <3>5
  <2>8. CASE Half(r, a, chunk) /\ 2 * (r.at - 1) + 1 >= k
    <3>. DEFINE y == React(w.parser, ch)
    <3>1. ~ w.skip /\ y.move = -1 /\ r.parser = y.parser /\ r.calls = w.calls
      BY <2>8 DEF Half, w, ch
    <3>2. x = React(y.parser, ch) /\ x.move = 0
      <4>1. w.parser \in ParserType
        BY <2>2 DEF ReadType
      <4>. QED  BY <2>1, <3>1, <4>1, ReactType DEF x
    <3>. HIDE DEF y
    <3>3. a[r.at] = Reading(w, x)
      BY <2>2, <3>1, <3>2 DEF ReadOne, y
    <3>4. m.at = r.at + 1 /\ m.at - 1 = r.at
      BY <1>0, <2>3, <3>2 DEF m
    <3>5. AtNext(m, a, chunk)
      <4>1. a[m.at - 1] = Reading(w, x) /\ m.at \in 1 .. n + 1
        BY <1>0, <1>2, <3>3, <3>4
      <4>2. m.parser = x.parser /\ m.calls = w.calls \o x.calls /\ ~ Reading(w, x).skip
        BY <2>3, <2>10, <3>1, <3>2 DEF m
      <4>. QED  BY <2>10, <4>1, <4>2 DEF AtNext
    <3>. QED  BY <1>0, <2>2, <2>8, <3>4, <3>5 DEF Rounds, m
  <2>9. x.move \in {-1, 0, 1}
    BY <2>1 DEF ReactionType
  <2>. QED  BY <1>0, <1>2, <2>4, <2>5, <2>6, <2>7, <2>8, <2>9 DEF Rounds
<1>. QED  BY <1>0, <1>1, <1>2

(* Parser.parse, whose position moves back for some characters and beyond   *)
(* the next for others, calls for every chunk the handlers that a reader   *)
(* of single characters calls, and leaves the parser in the same state;    *)
(* and it is beyond the chunk exactly if the reader is still to skip one.  *)
THEOREM ParseIsRead ==
  ASSUME NEW C, NEW p \in ParserType, NEW chunk \in Seq(C)
  PROVE  LET r == Parse(p, chunk)
             w == Read([parser |-> p, skip |-> FALSE], chunk)
         IN /\ r.parser \in ParserType /\ r.calls \in Seq(CallType(C))
            /\ w.parser = r.parser /\ w.calls = r.calls /\ w.skip = r.beyond
<1>. DEFINE n == Len(chunk)
<1>1. PICK f : /\ f[0] = [parser |-> p, at |-> 1, calls |-> <<>>]
               /\ \A k \in 0 .. 2 * n - 1 : f[k + 1] = Round(f[k], chunk)
               /\ \A k \in 0 .. 2 * n : f[k] \in RoundType(C)
               /\ Parse(p, chunk) = Parsed(f[2 * n], chunk)
  BY ParseRounds
<1>2. PICK a : /\ a[0] = [parser |-> p, skip |-> FALSE, calls |-> <<>>]
               /\ \A k \in 0 .. n - 1 : a[k + 1] = ReadOne(a[k], chunk[k + 1])
               /\ \A k \in 0 .. n : a[k] \in ReadType(C)
               /\ Read([parser |-> p, skip |-> FALSE], chunk) = a[n]
  <2>. DEFINE q == [parser |-> p, skip |-> FALSE]
  <2>1. q \in [parser : ParserType, skip : BOOLEAN] /\ q.parser = p /\ q.skip = FALSE
    OBVIOUS
  <2>. HIDE DEF q
  <2>2. \E a : /\ a[0] = [parser |-> q.parser, skip |-> q.skip, calls |-> <<>>]
               /\ \A k \in 0 .. n - 1 : a[k + 1] = ReadOne(a[k], chunk[k + 1])
               /\ \A k \in 0 .. n : a[k] \in ReadType(C)
               /\ Read(q, chunk) = a[n]
    BY <2>1, ReadSteps
  <2>. QED  BY <2>1, <2>2 DEF q
<1>. DEFINE S == {k \in 0 .. 2 * n : Rounds(f[k], a, chunk, k)}
<1>3. n \in Nat /\ 2 * n \in Nat
  OBVIOUS
<1>4. 0 \in S
  BY <1>1, <1>2, <1>3 DEF Rounds, AtNext
<1>5. \A k \in 0 .. 2 * n - 1 : k \in S => k + 1 \in S
  BY <1>1, <1>2, <1>3, RoundFollowsReader
<1>6. Rounds(f[2 * n], a, chunk, 2 * n)
  <2>. HIDE DEF S, n
  <2>1. \A k \in 0 .. 2 * n : k \in S
    BY <1>3, <1>4, <1>5, InductionUpTo
  <2>. QED  BY <1>3, <2>1 DEF S
<1>. DEFINE r == f[2 * n]
<1>7. r \in RoundType(C) /\ a[n] \in ReadType(C)
  BY <1>1, <1>2, <1>3
<1>8. \/ r.at = n + 2 /\ a[n].skip /\ a[n].parser = r.parser /\ a[n].calls = r.calls
      \/ r.at = n + 1 /\ ~ a[n].skip /\ a[n].parser = r.parser /\ a[n].calls = r.calls
  <2>. HIDE DEF r
  <2>1. r.at \in Nat
    BY <1>7 DEF RoundType
  <2>. QED  BY <1>3, <1>6, <2>1 DEF Rounds, Beyond, AtNext, Half, r
<1>9. a[n].skip = (r.at > n + 1)
  <2>1. a[n].skip \in BOOLEAN /\ r.at \in Nat
    BY <1>7 DEF ReadType, RoundType
  <2>. QED  BY <1>3, <1>8, <2>1
<1>. QED  BY <1>1, <1>2, <1>7, <1>8, <1>9 DEF Parsed, RoundType

-----------------------------------------------------------------------------
(* What the server decodes are whole characters.                           *)
LEMMA DecodedType ==
  ASSUME NEW B, NEW text \in Seq(B), NEW byte \in B, "w" \in B
  PROVE  Decoded(text, byte) \in Seq(B)
<1>1. Append(text, byte) \in Seq(B)
  OBVIOUS
<1>2. ASSUME text # <<>> PROVE [text EXCEPT ![Len(text)] = "w"] \in Seq(B)
  <2>1. Len(text) \in Nat /\ Len(text) # 0
    BY <1>2
  <2>2. [text EXCEPT ![Len(text)] = "w"] \in [1 .. Len(text) -> B]
    BY <2>1
  <2>. QED  BY <2>1, <2>2
<1>. QED  BY <1>1, <1>2 DEF Decoded

LEMMA DecodeType ==
  ASSUME NEW A \in Alphabets, NEW bytes \in Seq(A \union {NotFound})
  PROVE  Decode(bytes) \in Seq(Characters)
<1>. DEFINE n == Len(bytes)
            B == A \union {NotFound, "w"}
            F == [x \in (1 .. n) \X Seq(B) |-> Decoded(x[2], bytes[x[1]])]
            Q(h) == h = [k \in 0 .. n |-> IF k = 0 THEN <<>> ELSE Decoded(h[k - 1], bytes[k])]
            f == CHOOSE h : Q(h)
            whole == f[n]
<1>1. n \in Nat /\ <<>> \in Seq(B) /\ "w" \in B /\ \A k \in 1 .. n : bytes[k] \in B
  OBVIOUS
<1>2. Decode(bytes) = [k \in DOMAIN whole |-> IF whole[k] \in {"w1", "w2"} THEN "bad" ELSE whole[k]]
  BY DEF Decode
<1>. HIDE DEF n, B
<1>3. F \in [(1 .. n) \X Seq(B) -> Seq(B)]
  BY <1>1, DecodedType
<1>4. \E h : Q(h)
  <2>. HIDE DEF F
  <2>1. DefinesRecursion(n, Seq(B), <<>>, F)
    BY <1>1, <1>3, RecursionExists
  <2>2. PICK h \in [0 .. n -> Seq(B)] :
           h[0] = <<>> /\ \A k \in 1 .. n : h[k] = F[<<k, h[k - 1]>>]
    BY <2>1 DEF DefinesRecursion
  <2>3. ASSUME NEW k \in 0 .. n
        PROVE  h[k] = IF k = 0 THEN <<>> ELSE Decoded(h[k - 1], bytes[k])
    <3>1. CASE k = 0
      BY <2>2, <3>1
    <3>2. CASE k # 0
      <4>1. k \in 1 .. n /\ h[k - 1] \in Seq(B)
        BY <1>1, <3>2
      <4>2. F[<<k, h[k - 1]>>] = Decoded(h[k - 1], bytes[k])
        BY <4>1 DEF F
      <4>. QED  BY <2>2, <3>2, <4>1, <4>2
    <3>. QED  BY <3>1, <3>2
  <2>4. Q(h)
    BY <2>3
  <2>. QED  BY <2>4
<1>5. Q(f)
  <2>. HIDE DEF Q
  <2>. QED  BY <1>4, Zenon
<1>. HIDE DEF f
<1>6. f[0] = <<>> /\ \A k \in 0 .. n - 1 : f[k + 1] = Decoded(f[k], bytes[k + 1])
  BY <1>1, <1>5
<1>7. whole \in Seq(B)
  <2>. DEFINE S == {k \in 0 .. n : f[k] \in Seq(B)}
  <2>1. 0 \in S
    <3>1. 0 \in 0 .. n /\ f[0] \in Seq(B)
      BY <1>1, <1>6
    <3>. QED  BY <3>1
  <2>2. \A k \in 0 .. n - 1 : k \in S => k + 1 \in S
    <3>. TAKE k \in 0 .. n - 1
    <3>1. bytes[k + 1] \in B /\ k + 1 \in 0 .. n
      BY <1>1
    <3>. QED  BY <1>1, <1>6, <3>1, DecodedType
  <2>. HIDE DEF S
  <2>3. \A k \in 0 .. n : k \in S
    BY <1>1, <2>1, <2>2, InductionUpTo
  <2>. QED  BY <1>1, <2>3 DEF S
<1>. HIDE DEF whole
<1>8. \A b \in B : (IF b \in {"w1", "w2"} THEN "bad" ELSE b) \in Characters
  BY DEF B, Characters, NotFound
<1>9. DOMAIN whole = 1 .. Len(whole) /\ Len(whole) \in Nat /\ \A k \in DOMAIN whole : whole[k] \in B
  BY <1>7
<1>. DEFINE d == [k \in DOMAIN whole |-> IF whole[k] \in {"w1", "w2"} THEN "bad" ELSE whole[k]]
<1>10. d \in [1 .. Len(whole) -> Characters]
  BY <1>8, <1>9
<1>11. d \in Seq(Characters)
  BY <1>9, <1>10
<1>. QED  BY <1>2, <1>11

-----------------------------------------------------------------------------
(* A batch: while the reader is followed it is where the parser is.        *)
ReaderType == [parser : ParserType, skip : BOOLEAN]

InStep(b) ==
    /\ b.parser \in ParserType /\ b.reader \in ReaderType /\ b.calls \in Seq(CallType(Characters))
    /\ b.aligned \in BOOLEAN /\ b.agreed = TRUE
    /\ b.aligned => b.reader = [parser |-> b.parser, skip |-> FALSE]

BatchStates ==
    {b \in [parser : ParserType, calls : Seq(CallType(Characters)), aligned : BOOLEAN,
            reader : ReaderType, agreed : BOOLEAN] : InStep(b)}

LEMMA NewReaderType == NewReader \in ReaderType /\ Start \in ParserType
                       /\ NewReader = [parser |-> Start, skip |-> FALSE]
  BY CountType DEF NewReader, ReaderType, ParserType, ParserStates, Start

LEMMA ParseChunkInStep ==
  ASSUME NEW b \in BatchStates, NEW chunk \in Seq(Characters)
  PROVE  ParseChunk(b, chunk) \in BatchStates
<1>. DEFINE r == Parse(b.parser, chunk)
            w == Read(b.reader, chunk)
            follows == b.aligned /\ ~ r.beyond
            next == IF follows THEN [parser |-> w.parser, skip |-> w.skip] ELSE NewReader
            calls == b.calls \o r.calls
            agrees == b.agreed /\ (b.aligned => r.calls = w.calls)
<1>0. ParseChunk(b, chunk) = [parser |-> r.parser, calls |-> calls, aligned |-> follows,
                              reader |-> next, agreed |-> agrees]
  BY DEF ParseChunk, Both
<1>1. InStep(b)
  BY DEF BatchStates
<1>2. r.parser \in ParserType /\ r.calls \in Seq(CallType(Characters))
  BY <1>1, ParseIsRead DEF InStep
<1>3. b.aligned => w.parser = r.parser /\ w.calls = r.calls /\ w.skip = r.beyond
  BY <1>1, ParseIsRead DEF InStep
<1>4. r.beyond \in BOOLEAN
  BY DEF Parse, Parsed
<1>. HIDE DEF r, w
<1>5. follows \in BOOLEAN /\ agrees = TRUE
  BY <1>1, <1>3 DEF InStep
<1>6. follows => next = [parser |-> r.parser, skip |-> FALSE]
  BY <1>3, <1>4
<1>7. next \in ReaderType
  <2>1. CASE follows
    BY <2>1, <1>2, <1>6 DEF ReaderType
  <2>2. CASE ~ follows
    BY <2>2, NewReaderType
  <2>. QED  BY <2>1, <2>2
<1>8. calls \in Seq(CallType(Characters))
  BY <1>1, <1>2 DEF InStep
<1>. HIDE DEF follows, next, calls, agrees
<1>. DEFINE c == [parser |-> r.parser, calls |-> calls, aligned |-> follows,
                  reader |-> next, agreed |-> agrees]
<1>9. c \in [parser : ParserType, calls : Seq(CallType(Characters)), aligned : BOOLEAN,
             reader : ReaderType, agreed : BOOLEAN]
  BY <1>2, <1>5, <1>7, <1>8
<1>10. InStep(c)
  BY <1>2, <1>5, <1>6, <1>7, <1>8 DEF InStep
<1>. QED  BY <1>0, <1>9, <1>10 DEF BatchStates

LEMMA BatchInStep ==
  ASSUME NEW batch \in Seq(Seq(Characters)),
         parser \in ParserType, reader \in ReaderType, aligned \in BOOLEAN, agreed = TRUE,
         aligned => reader = [parser |-> parser, skip |-> FALSE]
  PROVE  ParsedBatch(batch) \in BatchStates
<1>. DEFINE n == Len(batch)
            b == [parser |-> parser, reader |-> reader, calls |-> <<>>,
                  aligned |-> aligned, agreed |-> agreed]
            F == [x \in (1 .. n) \X BatchStates |-> ParseChunk(x[2], batch[x[1]])]
            Q(h) == h = [k \in 0 .. n |-> IF k = 0 THEN b ELSE ParseChunk(h[k - 1], batch[k])]
            f == CHOOSE h : Q(h)
<1>1. n \in Nat /\ \A k \in 1 .. n : batch[k] \in Seq(Characters)
  OBVIOUS
<1>2. b \in BatchStates
  <2>1. ASSUME NEW g \in BOOLEAN
        PROVE  [parser |-> parser, reader |-> reader, calls |-> <<>>,
                aligned |-> aligned, agreed |-> g] \in
               [parser : ParserType, calls : Seq(CallType(Characters)), aligned : BOOLEAN,
                reader : ReaderType, agreed : BOOLEAN]
    OBVIOUS
  <2>2. b \in [parser : ParserType, calls : Seq(CallType(Characters)), aligned : BOOLEAN,
               reader : ReaderType, agreed : BOOLEAN]
    BY <2>1
  <2>3. InStep(b)
    BY DEF InStep
  <2>. QED  BY <2>2, <2>3 DEF BatchStates
<1>3. ParsedBatch(batch) = f[n]
  BY DEF ParsedBatch
<1>. HIDE DEF n, b
<1>4. F \in [(1 .. n) \X BatchStates -> BatchStates]
  BY <1>1, ParseChunkInStep
<1>5. \E h : Q(h)
  <2>. HIDE DEF F
  <2>1. DefinesRecursion(n, BatchStates, b, F)
    BY <1>1, <1>2, <1>4, RecursionExists
  <2>2. PICK h \in [0 .. n -> BatchStates] :
           h[0] = b /\ \A k \in 1 .. n : h[k] = F[<<k, h[k - 1]>>]
    BY <2>1 DEF DefinesRecursion
  <2>3. ASSUME NEW k \in 0 .. n
        PROVE  h[k] = IF k = 0 THEN b ELSE ParseChunk(h[k - 1], batch[k])
    <3>1. CASE k = 0
      BY <2>2, <3>1
    <3>2. CASE k # 0
      <4>1. k \in 1 .. n /\ h[k - 1] \in BatchStates
        BY <1>1, <3>2
      <4>2. F[<<k, h[k - 1]>>] = ParseChunk(h[k - 1], batch[k])
        BY <4>1 DEF F
      <4>. QED  BY <2>2, <3>2, <4>1, <4>2
    <3>. QED  BY <3>1, <3>2
  <2>4. Q(h)
    BY <2>3
  <2>. QED  BY <2>4
<1>6. Q(f)
  <2>. HIDE DEF Q
  <2>. QED  BY <1>5, Zenon
<1>. HIDE DEF f
<1>7. f[0] = b /\ \A k \in 0 .. n - 1 : f[k + 1] = ParseChunk(f[k], batch[k + 1])
  BY <1>1, <1>6
<1>8. f[n] \in BatchStates
  <2>. DEFINE S == {k \in 0 .. n : f[k] \in BatchStates}
  <2>1. 0 \in S
    BY <1>1, <1>2, <1>7
  <2>2. \A k \in 0 .. n - 1 : k \in S => k + 1 \in S
    <3>. TAKE k \in 0 .. n - 1
    <3>1. batch[k + 1] \in Seq(Characters) /\ k + 1 \in 0 .. n
      BY <1>1
    <3>. QED  BY <1>7, <3>1, ParseChunkInStep
  <2>. HIDE DEF S
  <2>3. \A k \in 0 .. n : k \in S
    BY <1>1, <2>1, <2>2, InductionUpTo
  <2>. QED  BY <1>1, <2>3 DEF S
<1>. QED  BY <1>3, <1>8

-----------------------------------------------------------------------------
(* The type of the state, with sequences for what TypeOK says of indices.  *)
ServerTypes ==
    /\ socket \in {"open", "lost", "told"} /\ closed \in BOOLEAN
    /\ requests \in Seq({"connect", "command"})
    /\ shells \subseteq {"bash", "sh"} /\ watch \in {Null, "bash", "sh"}
    /\ output \in Seq(alphabet \union {NotFound})
    /\ handler \in [at : {"idle", "asleep", "copied"},
                    doing : {Null, "bash", "sh", "command"}]
    /\ content \in Seq(Characters) /\ messages \in Seq(Seq(Characters))

WritingTypes ==
    /\ writeBuffer \in Seq(Seq(Characters))
    /\ parser \in ParserType /\ reader \in ReaderType
    /\ aligned \in BOOLEAN /\ agreed = TRUE
    /\ aligned => reader = [parser |-> parser, skip |-> FALSE]

DrawingTypes ==
    /\ toRefresh \in BOOLEAN /\ frame \in BOOLEAN /\ skipped \in 0 .. MaxFrameSkip + 1

FixedTypes == alphabet \in Alphabets /\ image \in {"bash", "sh", "none"}

StreamInv == FixedTypes /\ ServerTypes /\ WritingTypes /\ DrawingTypes

LEMMA FixedStep == FixedTypes /\ [Next]_vars => FixedTypes'
  BY DEF FixedTypes, Next, Server, Browser, sendClientData, onData, onClose, innerWrite,
     innerWriteThrows, refreshLoop, refuse, connect, transToSSH, copy, resetAndSend,
     disconnect, close, shellWrites, vars, fixed

LEMMA CharactersHaveA == "a" \in Characters /\ <<"a">> \in Seq(Characters)
<1>1. "a" \in Characters
  BY DEF Characters
<1>. QED  BY <1>1

LEMMA ServerStep == FixedTypes /\ ServerTypes /\ [Next]_vars => ServerTypes'
<1>. SUFFICES ASSUME FixedTypes, ServerTypes, [Next]_vars PROVE ServerTypes'
  OBVIOUS
<1>0. UNCHANGED alphabet
  BY DEF Next, Server, Browser, sendClientData, onData, onClose, innerWrite,
     innerWriteThrows, refreshLoop, refuse, connect, transToSSH, copy, resetAndSend,
     disconnect, close, shellWrites, vars, fixed
<1>1. ASSUME UNCHANGED server PROVE ServerTypes'
  BY <1>0, <1>1 DEF ServerTypes, server
<1>2. CASE innerWrite \/ innerWriteThrows \/ refreshLoop \/ UNCHANGED vars
  BY <1>1, <1>2 DEF innerWrite, innerWriteThrows, refreshLoop, vars
<1>3. CASE sendClientData
  BY <1>0, <1>3 DEF sendClientData, ServerTypes
<1>4. CASE onData
  BY <1>0, <1>4 DEF onData, ServerTypes
<1>5. CASE onClose
  BY <1>0, <1>5 DEF onClose, ServerTypes
<1>6. CASE refuse
  <2>1. /\ requests' = Tail(requests) /\ requests # <<>>
        /\ messages' \in {messages, Append(messages, <<"a">>)}
        /\ UNCHANGED <<socket, shells, watch, output, handler, content, closed>>
    BY <1>6 DEF refuse
  <2>2. messages' \in Seq(Seq(Characters)) /\ requests' \in Seq({"connect", "command"})
    <3>1. Append(messages, <<"a">>) \in Seq(Seq(Characters)) /\ messages \in Seq(Seq(Characters))
      BY CharactersHaveA DEF ServerTypes
    <3>2. requests' \in Seq({"connect", "command"})
      BY <2>1 DEF ServerTypes
    <3>. QED  BY <2>1, <3>1, <3>2
  <2>. QED  BY <1>0, <2>1, <2>2 DEF ServerTypes
<1>7. CASE connect
  <2>1. /\ requests' \in Seq({"connect", "command"})
        /\ handler' = [at |-> "asleep", doing |-> "bash"]
        /\ shells' = shells \union {"bash"} /\ watch' = "bash"
        /\ UNCHANGED <<socket, output, content, closed, messages>>
    BY <1>7 DEF connect, Exec, ServerTypes
  <2>. QED  BY <1>0, <2>1 DEF ServerTypes
<1>8. CASE transToSSH
  <2>1. /\ requests' \in Seq({"connect", "command"})
        /\ handler' \in {[at |-> "idle", doing |-> Null],
                         [at |-> "asleep", doing |-> "command"]}
        /\ UNCHANGED <<socket, shells, watch, output, content, closed, messages>>
    BY <1>8 DEF transToSSH, Idle, ServerTypes
  <2>. QED  BY <1>0, <2>1 DEF ServerTypes
<1>9. CASE copy
  <2>1. Decode(output) \in Seq(Characters)
    BY DecodeType DEF FixedTypes, ServerTypes
  <2>. QED  BY <1>0, <1>9, <2>1 DEF copy, ServerTypes
<1>10. CASE resetAndSend
  <2>1. /\ output' = <<>> /\ content' = <<>> /\ UNCHANGED <<socket, requests, closed>>
        /\ handler' \in {[at |-> "idle", doing |-> Null], [at |-> "asleep", doing |-> "sh"]}
        /\ messages' \in {messages, Append(messages, content)}
        /\ shells' \in {shells, shells \union {"sh"}} /\ watch' \in {watch, "sh"}
    BY <1>10 DEF resetAndSend, Exec, Idle
  <2>2. Append(messages, content) \in Seq(Seq(Characters)) /\ messages \in Seq(Seq(Characters))
    BY DEF ServerTypes
  <2>3. messages' \in Seq(Seq(Characters))
    BY <2>1, <2>2
  <2>4. output' \in Seq(alphabet \union {NotFound}) /\ content' \in Seq(Characters)
    BY <2>1
  <2>5. handler' \in [at : {"idle", "asleep", "copied"}, doing : {Null, "bash", "sh", "command"}]
    BY <2>1
  <2>. QED  BY <1>0, <2>1, <2>3, <2>4, <2>5 DEF ServerTypes
<1>11. CASE disconnect
  <2>1. /\ socket' = "lost" /\ requests' = <<>> /\ messages' \in {messages, <<>>}
        /\ UNCHANGED <<shells, watch, output, handler, content, closed>>
    BY <1>11 DEF disconnect
  <2>2. <<>> \in Seq({"connect", "command"}) /\ <<>> \in Seq(Seq(Characters))
    OBVIOUS
  <2>3. requests' \in Seq({"connect", "command"}) /\ messages' \in Seq(Seq(Characters))
    BY <2>1, <2>2, Zenon DEF ServerTypes
  <2>. QED  BY <1>0, <2>1, <2>3 DEF ServerTypes
<1>12. CASE close
  <2>1. /\ closed' = TRUE /\ output' = <<>> /\ shells' \in {shells, {}}
        /\ UNCHANGED <<socket, requests, watch, handler, content, messages>>
    BY <1>12 DEF close
  <2>2. output' \in Seq(alphabet \union {NotFound})
    BY <2>1
  <2>3. closed' \in BOOLEAN /\ shells' \subseteq {"bash", "sh"}
    BY <2>1 DEF ServerTypes
  <2>. QED  BY <1>0, <2>1, <2>2, <2>3 DEF ServerTypes
<1>13. ASSUME NEW s \in {"bash", "sh"}, shellWrites(s) PROVE ServerTypes'
  <2>1. /\ \E byte \in alphabet \union {NotFound} : output' = Append(output, byte)
        /\ shells' \in {shells, shells \ {s}}
        /\ UNCHANGED <<socket, requests, watch, handler, content, closed, messages>>
    BY <1>13 DEF shellWrites
  <2>2. output' \in Seq(alphabet \union {NotFound}) /\ shells' \subseteq {"bash", "sh"}
    BY <2>1 DEF ServerTypes
  <2>. QED  BY <1>0, <2>1, <2>2 DEF ServerTypes
<1>. QED  BY <1>2, <1>3, <1>4, <1>5, <1>6, <1>7, <1>8, <1>9, <1>10, <1>11, <1>12, <1>13
          DEF Next, Server, Browser

LEMMA BatchType ==
  ASSUME writeBuffer \in Seq(Seq(Characters))
  PROVE  /\ Batch \in Seq(Seq(Characters))
         /\ SubSeq(writeBuffer, Len(Batch) + 1, Len(writeBuffer)) \in Seq(Seq(Characters))
<1>. DEFINE n == IF BatchSize < Len(writeBuffer) THEN BatchSize ELSE Len(writeBuffer)
            D == Seq(Characters)
<1>. HIDE DEF D
<1>1. writeBuffer \in Seq(D)
  BY DEF D
<1>2. n \in Nat /\ n <= Len(writeBuffer) /\ Len(writeBuffer) \in Nat
  BY <1>1, StreamAssumption
<1>. HIDE DEF n
<1>3. Batch = SubSeq(writeBuffer, 1, n)
  BY DEF Batch, n
<1>4. Batch \in Seq(D) /\ Len(Batch) \in Nat /\ Len(Batch) <= Len(writeBuffer)
  BY <1>1, <1>2, <1>3
<1>5. SubSeq(writeBuffer, Len(Batch) + 1, Len(writeBuffer)) \in Seq(D)
  BY <1>1, <1>2, <1>4
<1>. QED  BY <1>4, <1>5 DEF D

LEMMA WritingStep == ServerTypes /\ WritingTypes /\ [Next]_vars => WritingTypes'
<1>. SUFFICES ASSUME ServerTypes, WritingTypes, [Next]_vars PROVE WritingTypes'
  OBVIOUS
<1>1. ASSUME UNCHANGED <<parser, history>>, writeBuffer' \in Seq(Seq(Characters))
      PROVE  WritingTypes'
  BY <1>1 DEF WritingTypes, history
<1>2. CASE Server \/ sendClientData \/ refreshLoop \/ UNCHANGED vars
  <2>1. UNCHANGED <<writeBuffer, parser, history>>
    BY <1>2 DEF Server, sendClientData, refreshLoop, vars, refuse, connect, transToSSH, copy,
       resetAndSend, disconnect, close, shellWrites, writing
  <2>. QED  BY <1>1, <2>1 DEF WritingTypes
<1>3. CASE onData
  <2>1. Head(messages) \in Seq(Characters)
    BY <1>3 DEF onData, ServerTypes
  <2>2. Append(writeBuffer, Head(messages)) \in Seq(Seq(Characters))
    BY <2>1 DEF WritingTypes
  <2>. QED  BY <1>1, <1>3, <2>2 DEF onData, write
<1>4. CASE onClose
  <2>1. Append(writeBuffer, <<"a">>) \in Seq(Seq(Characters))
    BY CharactersHaveA DEF WritingTypes
  <2>. QED  BY <1>1, <1>4, <2>1 DEF onClose, write
<1>5. CASE innerWrite
  <2>. DEFINE b == ParsedBatch(Batch)
  <2>1. b \in BatchStates
    BY BatchInStep, BatchType DEF WritingTypes
  <2>2. /\ parser' = b.parser /\ reader' = b.reader /\ aligned' = b.aligned
        /\ agreed' = b.agreed /\ writeBuffer' = Rest(b.calls)
    BY <1>5 DEF innerWrite
  <2>. HIDE DEF b
  <2>3. Rest(b.calls) \in Seq(Seq(Characters))
    BY BatchType DEF Rest, WritingTypes
  <2>. QED  BY <2>1, <2>2, <2>3 DEF BatchStates, InStep, WritingTypes
<1>6. CASE innerWriteThrows
  BY <1>1, <1>6, BatchType DEF innerWriteThrows, WritingTypes
<1>. QED  BY <1>2, <1>3, <1>4, <1>5, <1>6 DEF Next, Browser

LEMMA DrawingStep == DrawingTypes /\ [Next]_vars => DrawingTypes'
<1>. SUFFICES ASSUME DrawingTypes, [Next]_vars PROVE DrawingTypes'
  OBVIOUS
<1>1. CASE refreshLoop
  <2>1. skipped' = 0 \/ (skipped <= MaxFrameSkip /\ skipped' = skipped + 1)
    BY <1>1 DEF refreshLoop
  <2>2. skipped' \in 0 .. MaxFrameSkip + 1
    BY <2>1, StreamAssumption DEF DrawingTypes
  <2>3. toRefresh' \in {toRefresh, FALSE} /\ frame' \in {frame, FALSE}
    BY <1>1, Zenon DEF refreshLoop
  <2>4. toRefresh' \in BOOLEAN /\ frame' \in BOOLEAN
    BY <2>3, Zenon DEF DrawingTypes
  <2>. QED  BY <2>2, <2>4 DEF DrawingTypes
<1>2. CASE innerWrite
  <2>1. toRefresh' = TRUE /\ frame' = TRUE /\ UNCHANGED skipped
    BY <1>2 DEF innerWrite, queueRefresh
  <2>. QED  BY <2>1 DEF DrawingTypes
<1>3. CASE ~ refreshLoop /\ ~ innerWrite
  <2>1. UNCHANGED drawing
    BY <1>3 DEF Next, Server, Browser, sendClientData, onData, onClose,
       innerWriteThrows, refuse, connect, transToSSH, copy, resetAndSend,
       disconnect, close, shellWrites, vars
  <2>. QED  BY <2>1 DEF DrawingTypes, drawing
<1>. QED  BY <1>1, <1>2, <1>3

LEMMA InitStreamInv == Init => StreamInv
<1>. SUFFICES ASSUME Init PROVE StreamInv
  OBVIOUS
<1>1. FixedTypes
  BY DEF Init, FixedTypes
<1>4. toRefresh = FALSE /\ frame = FALSE /\ skipped = 0
  BY DEF Init
<1>5. DrawingTypes
  <2>1. skipped \in 0 .. MaxFrameSkip + 1
    BY <1>4, StreamAssumption
  <2>. QED  BY <1>4, <2>1 DEF DrawingTypes
<1>2. ServerTypes
  <2>1. /\ requests = <<"connect">> /\ handler = [at |-> "idle", doing |-> Null]
        /\ output = <<>> /\ content = <<>> /\ messages = <<>>
        /\ socket = "open" /\ closed = FALSE /\ shells = {} /\ watch = Null
    BY DEF Init, Idle
  <2>2. requests \in Seq({"connect", "command"})
    BY <2>1
  <2>3. /\ output \in Seq(alphabet \union {NotFound})
        /\ content \in Seq(Characters) /\ messages \in Seq(Seq(Characters))
    BY <2>1
  <2>4. handler \in [at : {"idle", "asleep", "copied"}, doing : {Null, "bash", "sh", "command"}]
    BY <2>1
  <2>. QED  BY <2>1, <2>2, <2>3, <2>4 DEF ServerTypes
<1>3. WritingTypes
  BY NewReaderType DEF Init, WritingTypes
<1>. QED  BY <1>1, <1>2, <1>3, <1>5 DEF StreamInv

LEMMA StreamInvHolds == Spec => []StreamInv
<1>1. StreamInv /\ [Next]_vars => StreamInv'
  BY FixedStep, ServerStep, WritingStep, DrawingStep DEF StreamInv
<1>. QED  BY <1>1, InitStreamInv, PTL DEF Spec

(* How the server cuts the output and the browser batches it makes no      *)
(* difference to the handlers that are called, whatever bytes a shell      *)
(* writes: by induction over the rounds of a chunk (ParseIsRead) and over  *)
(* the chunks of a batch (Parser.parse, Terminal.innerWrite).              *)
THEOREM ChunksMakeNoDifference == Spec => []ChunksInvisible
<1>1. StreamInv => ChunksInvisible
  BY DEF StreamInv, WritingTypes, ChunksInvisible
<1>. QED  BY <1>1, StreamInvHolds, PTL

(* Every variable keeps its type; no half of a character reaches the page, *)
(* however a copy cuts the bytes (SSHWebSocketHandler.output).             *)
THEOREM StreamTypeCorrect == Spec => []TypeOK
<1>1. StreamInv /\ WritingInv /\ DrawingInv => TypeOK
  <2>. SUFFICES ASSUME StreamInv, WritingInv, DrawingInv PROVE TypeOK
    OBVIOUS
  <2>1. ASSUME NEW chunks \in Seq(Seq(Characters)) PROVE ChunksOf(chunks)
    BY DEF ChunksOf
  <2>2. <<content>> \in Seq(Seq(Characters))
    BY DEF StreamInv, ServerTypes
  <2>3. ChunksOf(<<content>>) /\ ChunksOf(messages) /\ ChunksOf(writeBuffer)
    BY <2>1, <2>2 DEF StreamInv, ServerTypes, WritingTypes
  <2>4. /\ \A k \in DOMAIN requests : requests[k] \in {"connect", "command"}
        /\ \A k \in DOMAIN output : output[k] \in alphabet \union {NotFound}
    BY DEF StreamInv, ServerTypes
  <2>5. toRefresh \in BOOLEAN /\ frame \in BOOLEAN
    BY DEF StreamInv, DrawingTypes
  <2>6. /\ writeInProgress \in BOOLEAN /\ timers \in Nat /\ stopped \in BOOLEAN
        /\ skipped \in 0 .. MaxFrameSkip + 1
    BY DEF StreamInv, WritingInv, DrawingTypes
  <2>7. /\ parser \in ParserType /\ reader \in [parser : ParserType, skip : BOOLEAN]
        /\ aligned \in BOOLEAN /\ agreed \in BOOLEAN
    BY DEF StreamInv, WritingTypes, ReaderType
  <2>. QED  BY <2>3, <2>4, <2>5, <2>6, <2>7 DEF StreamInv, FixedTypes, ServerTypes, TypeOK
<1>. QED  BY <1>1, StreamInvHolds, WritingDrawing, PTL

=============================================================================
