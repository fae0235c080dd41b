------------------------- MODULE TerminalUserProofs -------------------------
(***************************************************************************)
(* Proofs about the user at the web terminal, for every size of the screen *)
(* and of the scrollback, every program and every drag:                    *)
(*                                                                         *)
(*  - how far each operation of the screen may shorten the list of lines,  *)
(*    and that only operations which synchronize the viewport move the     *)
(*    view down;                                                           *)
(*  - the inductive invariant UserInv, which adds to the one of the screen *)
(*    the bounds of the selection and of the scroll event under way;       *)
(*  - from it the safety invariant of the selection and the two action     *)
(*    properties.                                                          *)
(***************************************************************************)
EXTENDS TerminalUser, TerminalScreenProofs

-----------------------------------------------------------------------------
(* The extent of a list.  Lines leave it at its start, and are counted by  *)
(* startIndex; a line of l has moved down by Gone(m, l) in m.              *)
Gone(m, l) == (m.startIndex - l.startIndex) % Scrollback

\* A position within l is within m, once moved.
KeepsEnd(m, l) == m.length + Gone(m, l) >= l.length

\* After a trim of n lines, by whatever the list has grown since.
LEMMA TrimmedEnd ==
  ASSUME NEW l \in ListType, NEW m \in ListType, NEW n \in 0 .. Scrollback - 1,
         m.startIndex = (l.startIndex + n) % Scrollback, m.length + n >= l.length
  PROVE  KeepsEnd(m, l) /\ Gone(m, l) = n
<1>. DEFINE M == Scrollback
            a == l.startIndex
<1>1. M \in Nat /\ M > 1 /\ a \in 0 .. M - 1 /\ n \in 0 .. M - 1
  BY SizeFacts DEF ListType
<1>. HIDE DEF M, a
<1>2. (((a + n) % M) - a) % M = n
  <2>1. CASE a + n < M
    <3>1. (a + n) % M = a + n
      BY <1>1, <2>1
    <3>2. (a + n) - a = n /\ n % M = n
      BY <1>1
    <3>. QED  BY <3>1, <3>2
  <2>2. CASE a + n >= M
    <3>1. (a + n) % M = a + n - M
      BY <1>1, <2>2
    <3>2. (a + n - M) - a = n - M
      BY <1>1
    <3>3. (n - M) % M = n
      BY <1>1
    <3>. QED  BY <3>1, <3>2, <3>3
  <2>. QED  BY <1>1, <2>1, <2>2
<1>3. Gone(m, l) = n
  BY <1>2 DEF Gone, M, a
<1>. QED  BY <1>3 DEF KeepsEnd

LEMMA SameEnd ==
  ASSUME NEW l \in ListType, NEW m \in ListType,
         m.startIndex = l.startIndex, m.length >= l.length
  PROVE  KeepsEnd(m, l) /\ Gone(m, l) = 0
<1>1. /\ l.startIndex \in 0 .. Scrollback - 1 /\ Scrollback \in Nat /\ Scrollback > 1
      /\ l.length \in Nat /\ m.length \in Nat
  BY SizeFacts DEF ListType
<1>2. (l.startIndex + 0) % Scrollback = l.startIndex
  BY <1>1
<1>3. ASSUME NEW n \in 0 .. Scrollback - 1, n = 0
      PROVE  KeepsEnd(m, l) /\ Gone(m, l) = n
  BY <1>1, <1>2, <1>3, TrimmedEnd
<1>. QED  BY <1>1, <1>3

\* Between 0 and one less than the array has slots.
LEMMA GoneType ==
  ASSUME NEW l \in ListType, NEW m \in ListType
  PROVE  Gone(m, l) \in 0 .. Scrollback - 1
<1>1. /\ l.startIndex \in Int /\ m.startIndex \in Int /\ Scrollback \in Nat /\ Scrollback > 1
  BY SizeFacts DEF ListType
<1>. QED  BY <1>1 DEF Gone

LEMMA PushExtent ==
  ASSUME NEW l \in ListType, ~ IsFull(l), NEW v \in Texts
  PROVE  /\ push(l, v) \in ListType
         /\ push(l, v).startIndex = l.startIndex /\ push(l, v).length = l.length + 1
<1>. DEFINE w == Set(l, l.length, v)
<1>1. l.length \in Int
  BY SizeFacts DEF ListType
<1>2. w \in ListType /\ w.length = l.length /\ w.startIndex = l.startIndex
  BY <1>1, SetType
<1>. HIDE DEF w
<1>3. push(l, v) = [w EXCEPT !.length = @ + 1]
  BY DEF push, w
<1>4. push(l, v) \in ListType
  BY PushType
<1>. QED  BY <1>2, <1>3, <1>4 DEF ListType

LEMMA TrimExtent ==
  ASSUME NEW l \in ListType, NEW n \in 0 .. l.length
  PROVE  /\ trimStart(l, n) \in ListType
         /\ trimStart(l, n).startIndex = (l.startIndex + n) % Scrollback
         /\ trimStart(l, n).length = l.length - n
<1>1. ~ (n > l.length)
  BY SizeFacts DEF ListType
<1>2. trimStart(l, n) = [l EXCEPT !.startIndex = (@ + n) % l.maxLength, !.length = @ - n]
  BY <1>1, Zenon DEF trimStart
<1>3. trimStart(l, n).startIndex = (l.startIndex + n) % Scrollback
  BY <1>2 DEF ListType
<1>. QED  BY <1>3, TrimFacts

\* Within the list; that of reverseIndex on a screen that is tame afterwards.
LEMMA ShiftExtent ==
  ASSUME NEW l \in ListType, NEW s \in Int, NEW n \in Nat, s + n + 1 = l.length
  PROVE  /\ shiftElements(l, s, n) \in ListType
         /\ shiftElements(l, s, n).startIndex = l.startIndex
         /\ shiftElements(l, s, n).length = l.length
<1>. DEFINE to == s + 1 .. s + n
            m == CopyUp(l, to, 1)
<1>1. to \in SUBSET Int /\ 1 \in Int /\ l.length \in Int
  BY SizeFacts DEF ListType
<1>2. m \in ListType /\ m.startIndex = l.startIndex /\ m.length = l.length
  BY <1>1, CopyUpType
<1>. HIDE DEF m
<1>3. shiftElements(l, s, n) = l \/ shiftElements(l, s, n) = m
  BY <1>1 DEF shiftElements, m
<1>. QED  BY <1>2, <1>3

LEMMA BlankedExtent ==
  ASSUME NEW l \in ListType, NEW X
  PROVE  /\ Blanked(l, X) \in ListType
         /\ Blanked(l, X).startIndex = l.startIndex /\ Blanked(l, X).length = l.length
<1>. DEFINE A == [s \in DOMAIN l.array |->
                    IF IndexOf(l, s) \in X /\ l.array[s] # NoLine THEN Blank ELSE l.array[s]]
<1>1. Blanked(l, X) = [l EXCEPT !.array = A]
  BY DEF Blanked
<1>. HIDE DEF A
<1>2. Blanked(l, X).startIndex = l.startIndex
  BY <1>1 DEF ListType
<1>. QED  BY <1>2, BlankedFacts

-----------------------------------------------------------------------------
(* What an operation on the active buffer does to the extent of its list   *)
(* and to the view: no position is lost but by trims (Lasts), and the view *)
(* does not move down either (Stays).                                      *)
Lasts == active' = active /\ KeepsEnd(buffer'.lines, buffer.lines)
Stays == Lasts /\ buffer'.ydisp <= buffer.ydisp

LEMMA OutputBuffer ==
  ASSUME IInv, NEW g, NEW c, Output(g, c)
  PROVE  /\ buffer' = c /\ active' = active /\ tame
         /\ buffer \in BufferType /\ Placed(buffer, rows) /\ rows \in Heights
<1>1. tame
  BY DEF Output, Parsing
<1>2. buffers' = [buffers EXCEPT ![active] = c] /\ active' = active
  BY DEF Output
<1>3. active \in DOMAIN buffers
  BY DEF IInv, TypeOK
<1>4. buffer' = c
  BY <1>2, <1>3 DEF buffer
<1>. QED  BY <1>1, <1>2, <1>4, ActiveBuffer

\* The numbers of the active buffer.
LEMMA BufferNumbers ==
  ASSUME NEW b \in BufferType, rows \in Heights, Placed(b, rows)
  PROVE  /\ b.lines \in ListType /\ b.lines.length \in 1 .. Scrollback
         /\ b.ybase \in 0 .. Scrollback /\ b.ybase + rows = b.lines.length
         /\ b.ydisp \in Int /\ b.ydisp <= b.ybase /\ b.y \in 0 .. rows - 1
         /\ b.scrollTop \in 0 .. b.scrollBottom /\ b.scrollBottom \in 0 .. rows - 1
         /\ rows \in 1 .. Scrollback /\ Scrollback \in Nat /\ Scrollback > 1
         /\ (IsFull(b.lines) <=> b.lines.length = Scrollback)
BY PlacedNumbers, SizeFacts DEF Heights

\* The list and the view are as they were.
LEMMA SameStays ==
  ASSUME buffer \in BufferType, active' = active, buffer'.ydisp = buffer.ydisp,
         buffer'.lines \in ListType,
         buffer'.lines.startIndex = buffer.lines.startIndex,
         buffer'.lines.length = buffer.lines.length
  PROVE  Stays
<1>1. /\ buffer.lines \in ListType /\ buffer.ydisp \in Int /\ buffer.lines.length \in Int
  BY SizeFacts DEF BufferType, ListType
<1>2. KeepsEnd(buffer'.lines, buffer.lines)
  BY <1>1, SameEnd
<1>. QED  BY <1>1, <1>2 DEF Stays, Lasts

LEMMA PositionStays ==
  ASSUME IInv, NEW g, NEW c, Output(g, c), c.lines = buffer.lines, c.ydisp = buffer.ydisp
  PROVE  Stays
<1>1. buffer' = c /\ active' = active /\ buffer \in BufferType
  BY OutputBuffer
<1>2. buffer.lines \in ListType
  BY <1>1 DEF BufferType
<1>. QED  BY <1>1, <1>2, SameStays

\* Any change of the cursor and the region.
LEMMA MovesStay ==
  ASSUME IInv, NEW g, NEW x, NEW y, NEW s, NEW top, NEW bottom,
         \/ Output(g, [buffer EXCEPT !.x = x])
         \/ Output(g, [buffer EXCEPT !.y = y])
         \/ Output(g, [buffer EXCEPT !.x = x, !.y = y])
         \/ Output(g, [buffer EXCEPT !.savedY = s])
         \/ Output(g, [buffer EXCEPT !.scrollTop = top, !.scrollBottom = bottom,
                                     !.x = x, !.y = y])
  PROVE  Stays
<1>1. buffer \in BufferType
  <2>1. tame
    BY DEF Output, Parsing
  <2>. QED  BY <2>1, ActiveBuffer
<1>2. ASSUME NEW c, Output(g, c), c \in {[buffer EXCEPT !.x = x], [buffer EXCEPT !.y = y],
                    [buffer EXCEPT !.x = x, !.y = y], [buffer EXCEPT !.savedY = s],
                    [buffer EXCEPT !.scrollTop = top, !.scrollBottom = bottom,
                                   !.x = x, !.y = y]}
      PROVE  Stays
  <2>1. c.lines = buffer.lines /\ c.ydisp = buffer.ydisp
    BY <1>1, <1>2 DEF BufferType
  <2>. QED  BY <1>2, <2>1, PositionStays
<1>. QED  BY <1>2

LEMMA CursorMoveStays ==
  ASSUME IInv, CursorMove
  PROVE  Stays
<1>1. ASSUME NEW x, NEW y, MoveTo(x, y)
      PROVE  Stays
  BY <1>1, MovesStay DEF MoveTo
<1>2. ASSUME NEW n \in Param, cursorUp(n) \/ cursorDown(n) \/ cursorForward(n)
      PROVE  Stays
  BY <1>1, <1>2 DEF cursorUp, cursorDown, cursorForward
<1>3. ASSUME NEW n \in Param, cursorBackward(n) \/ cursorNextLine(n) \/ cursorPrecedingLine(n)
      PROVE  Stays
  BY <1>1, <1>3 DEF cursorBackward, cursorNextLine, cursorPrecedingLine
<1>4. ASSUME NEW n \in Param, cursorCharAbsolute(n) \/ charPosAbsolute(n)
      PROVE  Stays
  BY <1>1, <1>4 DEF cursorCharAbsolute, charPosAbsolute
<1>5. ASSUME NEW n \in Param, linePosAbsolute(n) \/ HVPosition(n)
      PROVE  Stays
  BY <1>1, <1>5 DEF linePosAbsolute, HVPosition
<1>6. ASSUME NEW m \in Param, NEW n \in Param, cursorPosition(m, n)
      PROVE  Stays
  BY <1>1, <1>6 DEF cursorPosition
<1>. QED  BY <1>2, <1>3, <1>4, <1>5, <1>6 DEF CursorMove

LEMMA CursorStays ==
  ASSUME IInv, Cursor
  PROVE  Stays
<1>1. ASSUME backspace PROVE Stays
  BY <1>1, MovesStay DEF backspace
<1>2. ASSUME tab PROVE Stays
  <2>1. PICK x \in NextStops(buffer.x) \union PrevStops(buffer.x) :
               Output("cursor", [buffer EXCEPT !.x = x])
    BY <1>2 DEF tab
  <2>. QED  BY <2>1, MovesStay
<1>3. ASSUME repeatPrecedingCharacter PROVE Stays
  BY <1>3, MovesStay DEF repeatPrecedingCharacter
<1>4. ASSUME saveCursor PROVE Stays
  BY <1>4, MovesStay DEF saveCursor
<1>5. ASSUME restoreCursor PROVE Stays
  <2>1. PICK x \in 0 .. MaxX : Output("save", [buffer EXCEPT !.x = x, !.y = buffer.savedY])
    BY <1>5 DEF restoreCursor
  <2>. QED  BY <2>1, MovesStay
<1>. QED  BY <1>1, <1>2, <1>3, <1>4, <1>5, CursorMoveStays DEF Cursor

LEMMA RegionStays ==
  ASSUME IInv, NEW m \in Param, NEW n \in Param, setScrollRegion(m, n)
  PROVE  Stays
BY MovesStay DEF setScrollRegion

\* A handler that throws leaves the buffers alone.
LEMMA ThrowStays ==
  ASSUME IInv, NEW g, Throw(g)
  PROVE  Stays
<1>1. buffer' = buffer /\ active' = active /\ buffer \in BufferType
  BY DEF Throw, buffer, IInv, TypeOK
<1>2. buffer.lines \in ListType
  BY <1>1 DEF BufferType
<1>. QED  BY <1>1, <1>2, SameStays

LEMMA ErasingStays ==
  ASSUME IInv, Erasing
  PROVE  Stays
<1>1. ASSUME NEW g, NEW R, Output(g, EraseRows(buffer, R))
      PROVE  Stays
  <2>1. buffer' = EraseRows(buffer, R) /\ active' = active /\ buffer \in BufferType
    BY <1>1, OutputBuffer
  <2>2. buffer.lines \in ListType
    BY <2>1 DEF BufferType
  <2>3. PICK X : EraseRows(buffer, R) = [buffer EXCEPT !.lines = Blanked(buffer.lines, X)]
    BY DEF EraseRows
  <2>4. /\ EraseRows(buffer, R).lines = Blanked(buffer.lines, X)
        /\ EraseRows(buffer, R).ydisp = buffer.ydisp
    BY <2>1, <2>3 DEF BufferType
  <2>. QED  BY <2>1, <2>2, <2>4, BlankedExtent, SameStays
<1>2. ASSUME eraseRight \/ eraseLeft PROVE Stays
  BY <1>1, <1>2 DEF eraseRight, eraseLeft
<1>3. ASSUME eraseLine \/ eraseBelow PROVE Stays
  BY <1>1, <1>3 DEF eraseLine, eraseBelow
<1>4. ASSUME eraseAbove \/ eraseAll PROVE Stays
  BY <1>1, <1>4 DEF eraseAbove, eraseAll
<1>5. ASSUME editCells PROVE Stays
  BY <1>1, <1>5 DEF editCells
<1>6. ASSUME eraseAboveLoops \/ editFails PROVE Stays
  BY <1>6, ThrowStays DEF eraseAboveLoops, editFails
<1>. QED  BY <1>2, <1>3, <1>4, <1>5, <1>6 DEF Erasing

-----------------------------------------------------------------------------
(* Lines that are inserted and deleted.                                    *)
LEMMA RemoveInsertExtent ==
  ASSUME NEW l \in ListType, l.length > 0, NEW i \in Int, NEW j \in Int
  PROVE  LET m == insert(remove(l, i), j, Blank)
         IN m \in ListType /\ m.startIndex = l.startIndex /\ m.length = l.length
<1>. DEFINE k == remove(l, i)
            m == insert(k, j, Blank)
<1>1. Blank \in Texts /\ l.length \in 0 .. Scrollback /\ Scrollback \in Nat
  BY SizeFacts DEF Texts, ListType
<1>2. k \in ListType /\ k.startIndex = l.startIndex /\ k.length = l.length - 1
  BY RemoveExtent
<1>. HIDE DEF k
<1>3. ~ IsFull(k)
  BY <1>1, <1>2 DEF IsFull, ListType
<1>4. m \in ListType /\ m.startIndex = k.startIndex /\ m.length = k.length + 1
  BY <1>1, <1>2, <1>3, InsertExtent
<1>. HIDE DEF m
<1>5. m \in ListType /\ m.startIndex = l.startIndex /\ m.length = l.length
  BY <1>1, <1>2, <1>4
<1>. QED  BY <1>5 DEF m, k

\* A trim of one line in a full list, as scroll and the line operations begin.
LEMMA TrimOne ==
  ASSUME NEW l \in ListType, IsFull(l)
  PROVE  LET m == trimStart(l, 1)
         IN /\ m \in ListType /\ ~ IsFull(m) /\ m.length = l.length - 1
            /\ m.startIndex = (l.startIndex + 1) % Scrollback
<1>. DEFINE m == trimStart(l, 1)
<1>1. l.length = Scrollback /\ Scrollback \in Nat /\ Scrollback > 1
  BY SizeFacts DEF IsFull, ListType
<1>2. ASSUME NEW n \in 0 .. l.length, n = 1
      PROVE  /\ trimStart(l, n) \in ListType
             /\ trimStart(l, n).startIndex = (l.startIndex + n) % Scrollback
             /\ trimStart(l, n).length = l.length - n
  BY TrimExtent
<1>3. 1 \in 0 .. l.length
  BY <1>1
<1>4. /\ m \in ListType /\ m.startIndex = (l.startIndex + 1) % Scrollback
      /\ m.length = l.length - 1
  BY <1>2, <1>3
<1>. HIDE DEF m
<1>5. ~ IsFull(m)
  BY <1>1, <1>4 DEF IsFull, ListType
<1>. QED  BY <1>4, <1>5 DEF m

LEMMA TrimmedExtent ==
  ASSUME NEW b \in BufferType
  PROVE  LET t == Trimmed(b)
         IN /\ t.lines \in ListType /\ ~ IsFull(t.lines)
            /\ t.ybase \in Int /\ t.y \in Int /\ t.scrollBottom \in Int
            /\ \A l \in ListType : [t EXCEPT !.lines = l].lines = l
            /\ \A l \in ListType : [t EXCEPT !.lines = l].ydisp = t.ydisp
            /\ \E n \in 0 .. 1 :
                  /\ t.lines.startIndex = (b.lines.startIndex + n) % Scrollback
                  /\ t.lines.length = b.lines.length - n
                  /\ t.ydisp = b.ydisp - n
<1>. DEFINE t == Trimmed(b)
            m == trimStart(b.lines, 1)
<1>1. /\ b.lines \in ListType /\ b.ydisp \in Int /\ b.ybase \in Int
      /\ b.lines.length \in Int /\ b.lines.startIndex \in 0 .. Scrollback - 1
      /\ b.y \in Int /\ b.scrollBottom \in Int
      /\ Scrollback \in Nat /\ Scrollback > 1
  BY SizeFacts DEF BufferType, ListType
<1>2. CASE ~ IsFull(b.lines)
  <2>1. t = b
    BY <1>2 DEF Trimmed
  <2>2. (b.lines.startIndex + 0) % Scrollback = b.lines.startIndex
    BY <1>1
  <2>3. \A l \in ListType : [b EXCEPT !.lines = l].lines = l
                            /\ [b EXCEPT !.lines = l].ydisp = b.ydisp
    BY DEF BufferType
  <2>4. b.lines.length - 0 = b.lines.length /\ b.ydisp - 0 = b.ydisp /\ 0 \in 0 .. 1
    BY <1>1
  <2>. HIDE DEF t
  <2>. QED  BY <1>1, <1>2, <2>1, <2>2, <2>3, <2>4 DEF t
<1>3. CASE IsFull(b.lines)
  <2>1. t = [b EXCEPT !.lines = m, !.ybase = b.ybase - 1, !.ydisp = b.ydisp - 1]
    BY <1>3 DEF Trimmed
  <2>2. /\ m \in ListType /\ ~ IsFull(m) /\ m.length = b.lines.length - 1
        /\ m.startIndex = (b.lines.startIndex + 1) % Scrollback
    BY <1>1, <1>3, TrimOne
  <2>. HIDE DEF m
  <2>3. /\ t.lines = m /\ t.ybase = b.ybase - 1 /\ t.ydisp = b.ydisp - 1
        /\ t.y = b.y /\ t.scrollBottom = b.scrollBottom
    BY <2>1 DEF BufferType
  <2>4. \A l \in ListType : [t EXCEPT !.lines = l].lines = l
                            /\ [t EXCEPT !.lines = l].ydisp = t.ydisp
    BY <2>1 DEF BufferType
  <2>5. 1 \in 0 .. 1 /\ t.ybase \in Int
    BY <1>1, <2>3
  <2>. HIDE DEF t
  <2>. QED  BY <1>1, <2>2, <2>3, <2>4, <2>5 DEF t
<1>. QED  BY <1>2, <1>3

\* Any change of a buffer's lines that keeps their extent, after such a trim.
LEMMA TrimmedStays ==
  ASSUME IInv, NEW g, NEW l \in ListType, Output(g, [Trimmed(buffer) EXCEPT !.lines = l]),
         l.startIndex = Trimmed(buffer).lines.startIndex,
         l.length = Trimmed(buffer).lines.length
  PROVE  Stays
<1>. DEFINE t == Trimmed(buffer)
            c == [t EXCEPT !.lines = l]
<1>1. buffer' = c /\ active' = active /\ buffer \in BufferType
  BY OutputBuffer
<1>2. /\ buffer.lines \in ListType /\ buffer.lines.length \in Int /\ buffer.ydisp \in Int
      /\ Scrollback \in Nat /\ Scrollback > 1
  BY <1>1, SizeFacts DEF BufferType, ListType
<1>3. c.lines = l /\ c.ydisp = t.ydisp
  BY <1>1, TrimmedExtent
<1>4. PICK n \in 0 .. 1 : /\ t.lines.startIndex = (buffer.lines.startIndex + n) % Scrollback
                          /\ t.lines.length = buffer.lines.length - n
                          /\ t.ydisp = buffer.ydisp - n
  BY <1>1, TrimmedExtent
<1>. HIDE DEF c, t
<1>5. n \in 0 .. Scrollback - 1 /\ l.length + n >= buffer.lines.length
      /\ l.startIndex = (buffer.lines.startIndex + n) % Scrollback
  BY <1>2, <1>4 DEF t
<1>6. KeepsEnd(l, buffer.lines)
  BY <1>2, <1>5, TrimmedEnd
<1>7. t.ydisp <= buffer.ydisp
  BY <1>2, <1>4
<1>. QED  BY <1>1, <1>3, <1>6, <1>7 DEF Stays, Lasts

LEMMA LinesStay ==
  ASSUME IInv, Lines, tame'
  PROVE  Stays
<1>1. tame
  BY DEF Lines, insertLines, deleteLines, scrollUp, scrollDown, reverseIndex, Output, Parsing
<1>. DEFINE b == buffer
            t == Trimmed(b)
<1>2. /\ b \in BufferType /\ b.lines \in ListType /\ b.lines.length > 0
      /\ b.ybase \in Int /\ b.y \in Int /\ b.scrollTop \in Int /\ b.scrollBottom \in Int
      /\ rows \in Nat \ {0} /\ b.ybase + rows = b.lines.length
  <2>1. b \in BufferType /\ Placed(b, rows) /\ rows \in Heights
    BY <1>1, ActiveBuffer
  <2>. HIDE DEF b
  <2>. QED  BY <2>1, BufferNumbers DEF BufferType
<1>3. t.lines \in ListType /\ ~ IsFull(t.lines)
      /\ t.ybase \in Int /\ t.y \in Int /\ t.scrollBottom \in Int
  BY <1>2, TrimmedExtent
<1>4. CASE insertLines
  <2>. DEFINE i == Row(t)
              j == t.ybase + t.scrollBottom + 1
              l == remove(insert(t.lines, i, Blank), j)
  <2>1. Output("lines", [t EXCEPT !.lines = l])
    BY <1>4 DEF insertLines
  <2>2. i \in Int /\ j \in Int
    BY <1>3 DEF Row
  <2>. HIDE DEF i, j, t
  <2>3. l \in ListType /\ l.startIndex = t.lines.startIndex /\ l.length = t.lines.length
    BY <1>3, <2>2, InsertRemoveExtent
  <2>. QED  BY <2>1, <2>3, TrimmedStays DEF t
<1>5. CASE deleteLines
  <2>1. Row(b) \in Int /\ b.ybase + b.scrollBottom + 1 \in Int
    BY <1>2 DEF Row
  <2>2. PICK f :
          /\ \A k \in 0 .. MaxParam :
                /\ f[k] \in ListType /\ f[k].length = t.lines.length
                /\ f[k].startIndex = t.lines.startIndex
          /\ \E n \in IF IsFull(b.lines) THEN Param ELSE {1} :
                Output("lines", [t EXCEPT !.lines = f[n]])
    BY <1>3, <1>5, <2>1, DeleteRounds
  <2>3. PICK n \in (IF IsFull(b.lines) THEN Param ELSE {1}) :
           Output("lines", [t EXCEPT !.lines = f[n]])
    BY <2>2
  <2>4. n \in 0 .. MaxParam
    BY ScreenAssumption DEF Param
  <2>. HIDE DEF t
  <2>5. f[n] \in ListType /\ f[n].startIndex = t.lines.startIndex /\ f[n].length = t.lines.length
    BY <2>2, <2>4
  <2>. QED  BY <2>3, <2>5, TrimmedStays DEF t
<1>6. ASSUME NEW g, NEW l \in ListType, Output(g, [b EXCEPT !.lines = l]),
             l.startIndex = b.lines.startIndex, l.length = b.lines.length
      PROVE  Stays
  <2>1. buffer' = [b EXCEPT !.lines = l] /\ active' = active
    BY <1>6, OutputBuffer
  <2>2. [b EXCEPT !.lines = l].lines = l /\ [b EXCEPT !.lines = l].ydisp = b.ydisp
    BY <1>2 DEF BufferType
  <2>. QED  BY <1>2, <1>6, <2>1, <2>2, SameStays
<1>7. CASE scrollUp
  <2>. DEFINE i == b.ybase + b.scrollTop
              j == b.ybase + b.scrollBottom
              l == insert(remove(b.lines, i), j, Blank)
  <2>1. Output("lines", [b EXCEPT !.lines = l])
    BY <1>7 DEF scrollUp
  <2>2. i \in Int /\ j \in Int
    BY <1>2
  <2>. HIDE DEF i, j, b
  <2>3. l \in ListType /\ l.startIndex = b.lines.startIndex /\ l.length = b.lines.length
    BY <1>2, <2>2, RemoveInsertExtent
  <2>. QED  BY <2>1, <2>3, <1>6
<1>8. CASE scrollDown
  <2>. DEFINE i == b.ybase + b.scrollBottom
              j == b.ybase + b.scrollTop
              l == insert(remove(b.lines, i), j, Blank)
  <2>1. Output("lines", [b EXCEPT !.lines = l])
    BY <1>8 DEF scrollDown
  <2>2. i \in Int /\ j \in Int
    BY <1>2
  <2>. HIDE DEF i, j, b
  <2>3. l \in ListType /\ l.startIndex = b.lines.startIndex /\ l.length = b.lines.length
    BY <1>2, <2>2, RemoveInsertExtent
  <2>. QED  BY <2>1, <2>3, <1>6
<1>9. CASE reverseIndex
  <2>1. CASE b.y # b.scrollTop
    <3>1. Output("index", [buffer EXCEPT !.y = buffer.y - 1])
      BY <1>9, <2>1 DEF reverseIndex
    <3>. QED  BY <3>1, MovesStay
  <2>2. CASE b.y = b.scrollTop
    <3>. DEFINE s == Row(b)
                d == shiftElements(b.lines, s, rows - 1)
                l == Set(d, s, Blank)
                P == b.scrollTop = 0
    <3>1. Output("index", [b EXCEPT !.lines = l]) /\ TameIf(P)
      BY <1>9, <2>2 DEF reverseIndex
    <3>2. b.scrollTop = 0
      BY <3>1 DEF TameIf
    <3>3. s = b.ybase /\ s \in Int /\ rows - 1 \in Nat /\ s + (rows - 1) + 1 = b.lines.length
      BY <1>2, <2>2, <3>2 DEF Row
    <3>. HIDE DEF s, b
    <3>4. d \in ListType /\ d.startIndex = b.lines.startIndex /\ d.length = b.lines.length
      BY <1>2, <3>3, ShiftExtent
    <3>. HIDE DEF d
    <3>5. Blank \in Texts \union {NoLine}
      BY DEF Texts
    <3>6. l \in ListType /\ l.startIndex = b.lines.startIndex /\ l.length = b.lines.length
      BY <3>3, <3>4, <3>5, SetType
    <3>. QED  BY <3>1, <3>6, <1>6
  <2>. QED  BY <2>1, <2>2
<1>. QED  BY <1>4, <1>5, <1>7, <1>8, <1>9 DEF Lines

-----------------------------------------------------------------------------
(* Scrolling output.                                                       *)
LEMMA TrimIfFullExtent ==
  ASSUME NEW b \in BufferType
  PROVE  \E n \in 0 .. 1 :
            /\ TrimIfFull(b).lines.startIndex = (b.lines.startIndex + n) % Scrollback
            /\ TrimIfFull(b).lines.length = b.lines.length - n
<1>. DEFINE t == TrimIfFull(b)
            m == trimStart(b.lines, 1)
<1>1. /\ b.lines \in ListType /\ b.lines.length \in Int
      /\ b.lines.startIndex \in 0 .. Scrollback - 1 /\ Scrollback \in Nat /\ Scrollback > 1
  BY SizeFacts DEF BufferType, ListType
<1>2. CASE ~ IsFull(b.lines)
  <2>1. t = b
    BY <1>2 DEF TrimIfFull
  <2>2. (b.lines.startIndex + 0) % Scrollback = b.lines.startIndex
        /\ b.lines.length - 0 = b.lines.length /\ 0 \in 0 .. 1
    BY <1>1
  <2>. HIDE DEF t
  <2>. QED  BY <2>1, <2>2 DEF t
<1>3. CASE IsFull(b.lines)
  <2>1. t = [b EXCEPT !.lines = m, !.ybase = @ - 1, !.ydisp = IF @ # 0 THEN @ - 1 ELSE @]
    BY <1>3 DEF TrimIfFull
  <2>2. /\ m.length = b.lines.length - 1
        /\ m.startIndex = (b.lines.startIndex + 1) % Scrollback
    BY <1>1, <1>3, TrimOne
  <2>. HIDE DEF m
  <2>3. t.lines = m /\ 1 \in 0 .. 1
    BY <2>1 DEF BufferType
  <2>. HIDE DEF t
  <2>. QED  BY <2>2, <2>3 DEF t
<1>. QED  BY <1>2, <1>3

\* A scroll loses no position that it does not trim.
LEMMA ScrollLasts ==
  ASSUME NEW b \in BufferType, rows \in Heights, Placed(b, rows)
  PROVE  scroll(b).lines \in ListType /\ KeepsEnd(scroll(b).lines, b.lines)
<1>. DEFINE t == TrimIfFull(b)
            s == AddBottom(t)
            row == t.ybase + 1 + t.scrollBottom
            l == IF row = t.lines.length THEN push(t.lines, Blank)
                                         ELSE insert(t.lines, row, Blank)
            c == scroll(b)
<1>1. /\ b.lines \in ListType /\ b.lines.length \in 1 .. Scrollback
      /\ b.ybase \in 0 .. Scrollback /\ b.ybase + rows = b.lines.length
      /\ b.scrollBottom \in 0 .. rows - 1 /\ rows \in 1 .. Scrollback
      /\ Scrollback \in Nat /\ Scrollback > 1 /\ Blank \in Texts
  BY BufferNumbers DEF Texts
<1>2. /\ t \in BufferType /\ SamePlace(t, b) /\ ~ IsFull(t.lines) /\ t.lines \in ListType
      /\ t.lines.length = b.lines.length - Lost(b) /\ t.ybase = b.ybase - Lost(b)
      /\ Lost(b) \in 0 .. 1
  BY TrimIfFullFacts DEF Lost
<1>3. PICK n \in 0 .. 1 :
         /\ t.lines.startIndex = (b.lines.startIndex + n) % Scrollback
         /\ t.lines.length = b.lines.length - n
  BY TrimIfFullExtent
<1>4. c = IF b.scrollTop # 0 THEN RemoveTop(s) ELSE s
  BY DEF scroll
<1>. HIDE DEF t
<1>5. /\ row \in Int /\ t.ybase + rows = t.lines.length /\ t.lines.length \in Nat
      /\ t.scrollBottom \in 0 .. rows - 1 /\ t.ybase \in -1 .. Scrollback
  BY <1>1, <1>2 DEF SamePlace, BufferType
<1>6. /\ l \in ListType /\ l.startIndex = t.lines.startIndex /\ l.length = t.lines.length + 1
  <2>1. push(t.lines, Blank) \in ListType
        /\ push(t.lines, Blank).startIndex = t.lines.startIndex
        /\ push(t.lines, Blank).length = t.lines.length + 1
    BY <1>1, <1>2, PushExtent
  <2>2. insert(t.lines, row, Blank) \in ListType
        /\ insert(t.lines, row, Blank).startIndex = t.lines.startIndex
        /\ insert(t.lines, row, Blank).length = t.lines.length + 1
    BY <1>1, <1>2, <1>5, InsertExtent
  <2>. QED  BY <2>1, <2>2
<1>7. s = [t EXCEPT !.ybase = t.ybase + 1,
                    !.ydisp = IF userScrolling THEN @ ELSE t.ybase + 1, !.lines = l]
  BY DEF AddBottom
<1>8. s \in BufferType
  BY <1>2, <1>5, AddBottomFacts
<1>. HIDE DEF l
<1>9. s.lines = l /\ s.ybase = t.ybase + 1 /\ s.scrollTop \in Int /\ s.ybase \in Int
  <2>1. s.lines = l /\ s.ybase = t.ybase + 1 /\ s.scrollTop = t.scrollTop
    BY <1>2, <1>7 DEF BufferType
  <2>2. t.scrollTop \in Int
    BY <1>2, SizeFacts, ScreenAssumption DEF BufferType
  <2>. QED  BY <1>5, <2>1, <2>2
<1>. HIDE DEF s
<1>10. /\ c.lines \in ListType /\ c.lines.startIndex = l.startIndex
       /\ c.lines.length >= l.length - 1
  <2>1. CASE b.scrollTop = 0
    <3>1. c = s
      BY <1>4, <2>1
    <3>2. l.length >= l.length - 1
      BY <1>5, <1>6
    <3>. QED  BY <1>6, <1>9, <3>1, <3>2
  <2>2. CASE b.scrollTop # 0
    <3>. DEFINE base == IF s.ybase # 0 THEN s.ybase - 1 ELSE s.ybase
                at == base + s.scrollTop
                m == remove(s.lines, at)
    <3>1. c = [s EXCEPT !.ybase = base, !.ydisp = IF s.ybase # 0 /\ ~ userScrolling
                                                  THEN base ELSE @,
                        !.lines = m]
      BY <1>4, <2>2 DEF RemoveTop
    <3>2. at \in Int /\ s.lines.length > 0 /\ s.lines.length = l.length
      BY <1>5, <1>6, <1>9
    <3>. HIDE DEF at
    <3>3. m \in ListType /\ m.startIndex = l.startIndex /\ m.length = l.length - 1
      BY <1>6, <1>9, <3>2, RemoveExtent
    <3>. HIDE DEF m
    <3>4. c.lines = m
      BY <1>8, <3>1 DEF BufferType
    <3>5. m.length >= l.length - 1
      BY <1>5, <1>6, <3>3
    <3>. QED  BY <3>3, <3>4, <3>5
  <2>. QED  BY <2>1, <2>2
<1>. HIDE DEF c
<1>11. /\ n \in 0 .. Scrollback - 1 /\ c.lines.length + n >= b.lines.length
       /\ c.lines.startIndex = (b.lines.startIndex + n) % Scrollback
  <2>1. c.lines.length \in Int /\ l.length = b.lines.length - n + 1
    BY <1>1, <1>3, <1>6, <1>10, SizeFacts DEF ListType
  <2>. QED  BY <1>1, <1>3, <1>6, <1>10, <2>1
<1>12. c.lines \in ListType /\ KeepsEnd(c.lines, b.lines)
  BY <1>1, <1>10, <1>11, TrimmedEnd
<1>. QED  BY <1>12 DEF c

LEMMA NextRowLasts ==
  ASSUME NEW b \in BufferType, rows \in Heights, Placed(b, rows)
  PROVE  LET c == NextRow(b)
         IN /\ c \in BufferType /\ c.lines \in ListType /\ KeepsEnd(c.lines, b.lines)
            /\ ~ (b.y + 1 > b.scrollBottom) => c.lines = b.lines /\ c.ydisp = b.ydisp
<1>1. b.lines \in ListType
  BY DEF BufferType
<1>2. CASE b.y + 1 > b.scrollBottom
  <2>1. NextRow(b) = scroll(b)
    BY <1>2 DEF NextRow
  <2>. QED  BY <1>2, <2>1, ScrollLasts, NextRowFacts
<1>3. CASE ~ (b.y + 1 > b.scrollBottom)
  <2>1. NextRow(b) = [b EXCEPT !.y = @ + 1]
    BY <1>3 DEF NextRow
  <2>2. NextRow(b).lines = b.lines /\ NextRow(b).ydisp = b.ydisp
    BY <2>1 DEF BufferType
  <2>3. b.lines.length \in Int
    BY <1>1, SizeFacts DEF ListType
  <2>4. KeepsEnd(b.lines, b.lines)
    BY <1>1, <2>3, SameEnd
  <2>. QED  BY <1>1, <2>2, <2>4, NextRowFacts
<1>. QED  BY <1>2, <1>3

LEMMA LineFeedLasts ==
  ASSUME IInv, lineFeed
  PROVE  Lasts /\ (AtBottom \/ Stays)
<1>. DEFINE b == buffer
            n == NextRow(b)
            c == PullIn(n)
<1>1. buffer' = c /\ active' = active /\ b \in BufferType /\ Placed(b, rows) /\ rows \in Heights
  BY OutputBuffer DEF lineFeed
<1>. HIDE DEF b
<1>2. /\ n \in BufferType /\ n.lines \in ListType /\ KeepsEnd(n.lines, b.lines)
      /\ ~ (b.y + 1 > b.scrollBottom) => n.lines = b.lines /\ n.ydisp = b.ydisp
  BY <1>1, NextRowLasts
<1>. HIDE DEF n
<1>3. c.lines = n.lines /\ c.ydisp = n.ydisp
  BY <1>2 DEF PullIn, BufferType
<1>. HIDE DEF c
<1>4. Lasts
  BY <1>1, <1>2, <1>3 DEF Lasts, b
<1>5. ASSUME ~ AtBottom PROVE Stays
  <2>1. c.lines = buffer.lines /\ c.ydisp = buffer.ydisp
    BY <1>2, <1>3, <1>5 DEF AtBottom, b
  <2>2. buffer.ydisp \in Int
    BY <1>1, SizeFacts DEF b, BufferType
  <2>. QED  BY <1>1, <1>4, <2>1, <2>2 DEF Stays
<1>. QED  BY <1>4, <1>5

LEMMA AddCharLasts ==
  ASSUME IInv, NEW ink \in Ink, NEW w \in 1 .. 2, addChar(ink, w)
  PROVE  Lasts /\ ((AtBottom /\ wraparound /\ Wraps(buffer, w)) \/ Stays)
<1>. DEFINE b == buffer
            n == NextRow(b)
            wraps == Wraps(b, w) /\ wraparound
            at == IF wraps THEN [n EXCEPT !.x = 0] ELSE b
            c == IF Wraps(b, w) /\ ~ wraparound /\ w = 2 THEN b ELSE Written(at, ink, w)
<1>1. Output("print", c)
  BY DEF addChar
<1>2. buffer' = c /\ active' = active /\ b \in BufferType /\ Placed(b, rows) /\ rows \in Heights
  BY <1>1, OutputBuffer
<1>3. /\ n \in BufferType /\ n.lines \in ListType /\ KeepsEnd(n.lines, b.lines)
      /\ ~ (b.y + 1 > b.scrollBottom) => n.lines = b.lines /\ n.ydisp = b.ydisp
  BY <1>2, NextRowLasts
<1>. HIDE DEF n
<1>4. ASSUME NEW a \in BufferType
      PROVE  /\ Written(a, ink, w).lines \in ListType
             /\ Written(a, ink, w).lines.startIndex = a.lines.startIndex
             /\ Written(a, ink, w).lines.length = a.lines.length
             /\ Written(a, ink, w).ydisp = a.ydisp
  <2>. DEFINE l == Set(a.lines, Row(a), ink)
  <2>1. Row(a) \in Int /\ a.lines \in ListType /\ ink \in Texts \union {NoLine}
    BY SizeFacts DEF Row, BufferType, Texts
  <2>2. l \in ListType /\ l.startIndex = a.lines.startIndex /\ l.length = a.lines.length
    BY <2>1, SetType
  <2>3. Written(a, ink, w) = [a EXCEPT !.lines = l, !.x = AtMost(Plus(@, w), MaxX)]
    BY DEF Written
  <2>. HIDE DEF l
  <2>4. Written(a, ink, w).lines = l /\ Written(a, ink, w).ydisp = a.ydisp
    BY <2>3 DEF BufferType
  <2>. QED  BY <2>2, <2>4
<1>5. CASE ~ wraps
  <2>1. c = b \/ c = Written(b, ink, w)
    BY <1>5
  <2>2. b.lines \in ListType
    BY <1>2 DEF BufferType
  <2>. HIDE DEF c, b
  <2>3. /\ c.lines \in ListType /\ c.lines.startIndex = b.lines.startIndex
        /\ c.lines.length = b.lines.length /\ c.ydisp = b.ydisp
    BY <1>2, <1>4, <2>1, <2>2
  <2>4. Stays
    BY <1>2, <2>3, SameStays DEF b
  <2>. QED  BY <2>4 DEF Stays
<1>6. CASE wraps
  <2>. DEFINE a == [n EXCEPT !.x = 0]
  <2>1. c = Written(a, ink, w)
    BY <1>6
  <2>2. a \in BufferType /\ a.lines = n.lines /\ a.ydisp = n.ydisp
    <3>1. 0 \in NaN .. MaxX
      BY ScreenAssumption DEF NaN, MaxX
    <3>. QED  BY <1>3, <3>1 DEF BufferType
  <2>. HIDE DEF a, c, b
  <2>3. /\ c.lines \in ListType /\ c.lines.startIndex = n.lines.startIndex
        /\ c.lines.length = n.lines.length /\ c.ydisp = n.ydisp
    BY <1>4, <2>1, <2>2
  <2>4. KeepsEnd(c.lines, b.lines)
    BY <1>3, <2>3 DEF KeepsEnd, Gone
  <2>5. Lasts
    BY <1>2, <2>4 DEF Lasts, b
  <2>6. ASSUME ~ AtBottom PROVE Stays
    <3>1. c.ydisp = buffer.ydisp
      BY <1>3, <2>3, <2>6 DEF AtBottom, b
    <3>2. buffer.ydisp \in Int
      BY <1>2, SizeFacts DEF b, BufferType
    <3>. QED  BY <1>2, <2>5, <3>1, <3>2 DEF Stays
  <2>. QED  BY <1>6, <2>5, <2>6 DEF b
<1>. QED  BY <1>5, <1>6

\* CSI 3 J trims what is above the screen.
LEMMA EraseScrollbackLasts ==
  ASSUME IInv, eraseScrollback
  PROVE  Lasts
<1>. DEFINE b == buffer
            n == b.lines.length - rows
            m == trimStart(b.lines, n)
            c == [b EXCEPT !.lines = m, !.ybase = AtLeast(@ - n, 0),
                           !.ydisp = AtLeast(@ - n, 0)]
<1>1. Output("erase", c) /\ n > 0
  BY DEF eraseScrollback
<1>2. buffer' = c /\ active' = active /\ b \in BufferType /\ Placed(b, rows) /\ rows \in Heights
  BY <1>1, OutputBuffer
<1>. HIDE DEF b
<1>3. /\ b.lines \in ListType /\ n \in 0 .. b.lines.length /\ n \in 0 .. Scrollback - 1
      /\ b.lines.length \in Int
  BY <1>1, <1>2, BufferNumbers
<1>. HIDE DEF n
<1>4. /\ m \in ListType /\ m.startIndex = (b.lines.startIndex + n) % Scrollback
      /\ m.length = b.lines.length - n
  BY <1>3, TrimExtent
<1>. HIDE DEF m
<1>5. c.lines = m
  BY <1>2 DEF BufferType
<1>6. KeepsEnd(m, b.lines)
  <2>1. m.length + n >= b.lines.length
    BY <1>3, <1>4
  <2>. QED  BY <1>3, <1>4, <2>1, TrimmedEnd
<1>. QED  BY <1>2, <1>5, <1>6 DEF Lasts, b

-----------------------------------------------------------------------------
(* The modes.                                                              *)
\* Buffer.resize with the rows that the terminal has.
LEMMA ColumnsKeepLines ==
  ASSUME rows \in Heights, NEW b \in BufferType, b.ybase + rows = b.lines.length, NEW n
  PROVE  ResizeBuffer(b, n, rows).lines = b.lines /\ ResizeBuffer(b, n, rows).ydisp = b.ydisp
<1>1. /\ rows \in Int /\ b.ybase \in Int /\ b.lines.length \in Int
  BY SizeFacts DEF Heights, BufferType, ListType
<1>2. ~ (rows > rows) /\ b.lines.length <= rows + b.ybase
  BY <1>1
<1>3. ResizeStep(b, b, rows) = b
  BY <1>2 DEF ResizeStep, ShrinkRow
<1>4. ResizeRows(b, rows) = b
  <2>. DEFINE D == {b}
  <2>1. \A c \in D : ResizeStep(b, c, rows) \in D
    BY <1>3
  <2>2. b \in D
    OBVIOUS
  <2>. HIDE DEF D
  <2>3. /\ ResizeSteps(rows) \in Nat
        /\ \E f \in [0 .. ResizeSteps(rows) -> D] : ResizeRows(b, rows) = f[ResizeSteps(rows)]
    BY <2>1, <2>2, ResizeRowsSteps
  <2>4. ResizeRows(b, rows) \in D
    BY <2>3
  <2>. QED  BY <2>4 DEF D
<1>. DEFINE d == ResizeRows(b, rows)
            c == ResizeBuffer(b, n, rows)
<1>5. c = b \/ \E x, y : c = [b EXCEPT !.y = y, !.x = x, !.scrollTop = 0,
                                       !.scrollBottom = rows - 1]
  BY <1>2, <1>4 DEF ResizeBuffer
<1>. QED  BY <1>5 DEF BufferType

LEMMA ColumnsStay ==
  ASSUME IInv, set132Columns \/ reset132Columns
  PROVE  Stays
<1>1. /\ tame /\ active' = active
      /\ \/ \E n : Refit(n, rows)
         \/ UNCHANGED <<buffers, cols, rows>>
  BY DEF set132Columns, reset132Columns, Parsing, Resize, Refit
<1>2. /\ buffer \in BufferType /\ Placed(buffer, rows) /\ rows \in Heights
      /\ buffers \in [{"normal", "alt"} -> BufferType] /\ active \in {"normal", "alt"}
  BY <1>1, ActiveBuffer DEF IInv, TypeOK
<1>3. buffer.lines \in ListType /\ buffer.ybase + rows = buffer.lines.length
  BY <1>2, BufferNumbers
<1>4. buffer'.lines = buffer.lines /\ buffer'.ydisp = buffer.ydisp
  <2>1. CASE \E n : Refit(n, rows)
    <3>1. PICK n : Refit(n, rows)
      BY <2>1
    <3>2. buffer' = ResizeBuffer(buffer, n, rows)
      BY <1>1, <1>2, <3>1 DEF Refit, buffer
    <3>. QED  BY <1>2, <1>3, <3>2, ColumnsKeepLines
  <2>2. CASE UNCHANGED <<buffers, cols, rows>>
    BY <1>1, <2>2 DEF buffer
  <2>. QED  BY <1>1, <2>1, <2>2
<1>. QED  BY <1>1, <1>2, <1>3, <1>4, SameStays

\* Nothing of the buffers changes.
LEMMA UnchangedStays ==
  ASSUME IInv, UNCHANGED <<buffers, active>>
  PROVE  Stays
<1>1. buffer' = buffer /\ active' = active /\ buffer \in BufferType
  BY DEF buffer, IInv, TypeOK
<1>2. buffer.lines \in ListType
  BY <1>1 DEF BufferType
<1>. QED  BY <1>1, <1>2, SameStays

LEMMA SoftResetStays ==
  ASSUME IInv, softReset
  PROVE  Stays
<1>. DEFINE c == [buffer EXCEPT !.scrollTop = 0, !.x = 0, !.y = 0, !.scrollBottom = rows - 1]
<1>1. tame /\ active' = active
  BY DEF softReset, Parsing
<1>2. /\ buffer \in BufferType /\ buffer = buffers[active]
      /\ buffers \in [{"normal", "alt"} -> BufferType] /\ active \in {"normal", "alt"}
  BY <1>1, ActiveBuffer DEF IInv, TypeOK, buffer
<1>3. buffers' = [buffers EXCEPT ![active] = c]
  BY <1>2 DEF softReset
<1>4. buffer' = c
  BY <1>1, <1>2, <1>3 DEF buffer
<1>5. c.lines = buffer.lines /\ c.ydisp = buffer.ydisp /\ buffer.lines \in ListType
  BY <1>2 DEF BufferType
<1>. QED  BY <1>1, <1>2, <1>4, <1>5, SameStays

-----------------------------------------------------------------------------
(* The inductive invariant.  A press is on a row of the screen and a drag  *)
(* reaches one row below it; a scroll event of the terminal's own says at  *)
(* least where the view is.  The selection is a matter of the normal       *)
(* buffer only: on the alternate screen positions are rows of another      *)
(* list, and the way back ends the selection.                              *)
OrNull(S) == {Null} \union S
SelectionType == [start : OrNull(Int), end : OrNull(Int), all : BOOLEAN]

UserTypes ==
    /\ selection \in SelectionType
    /\ amount \in Int /\ view \in Int /\ listening \in BOOLEAN

InList(s, l) == /\ s.start \in OrNull(0 .. l.length - 1)
                /\ s.end \in OrNull(0 .. l.length)

SelectionBounds == tame /\ listening /\ active = "normal" => InList(selection, lines)

\* Own events never ask for a row above the view.
OwnEventIsLow == tame /\ event = "own" => view >= buffer.ydisp

UserInv == IInv /\ UserTypes /\ SelectionBounds /\ OwnEventIsLow

LEMMA NullFacts == Null \notin Int /\ NoSelection \in SelectionType
                   /\ NoSelection.start = Null /\ NoSelection.end = Null
                   /\ \A l : InList(NoSelection, l)
BY UserAssumption DEF NoSelection, SelectionType, OrNull, InList

(* onTrim: a position that is left is n lines further up, and a start that *)
(* is gone becomes the first line of the list.                             *)
LEMMA OnTrimFacts ==
  ASSUME NEW s \in SelectionType, NEW n \in Nat
  PROVE  LET t == onTrim(s, n)
         IN /\ t \in SelectionType
            /\ s.end # Null /\ t.end = Null => s.end < n
            /\ s.end # Null /\ t.end # Null => t.end = s.end - n /\ t.end >= 0
            /\ s.end = Null => t.end = Null
            /\ s.start = Null => t.start = Null
            /\ s.start # Null /\ t.start # Null =>
                  \/ t.start = s.start - n /\ t.start >= 0
                  \/ s.start < n /\ t.start = 0
<1>. DEFINE start == IF s.start = Null THEN Null ELSE s.start - n
            end == IF s.end = Null THEN Null ELSE s.end - n
            first == IF start = Null THEN Null ELSE AtLeast(start, 0)
            t == onTrim(s, n)
<1>1. /\ s.start \in OrNull(Int) /\ s.end \in OrNull(Int) /\ Null \notin Int
  BY NullFacts DEF SelectionType
<1>2. t = IF end # Null /\ end < 0 THEN NoSelection
          ELSE [s EXCEPT !.start = first, !.end = end]
  BY DEF onTrim
<1>3. /\ s.start = Null => first = Null
      /\ s.start # Null => \/ first = s.start - n /\ first \in Nat
                           \/ first = 0 /\ s.start < n
  <2>1. CASE s.start = Null
    BY <2>1
  <2>2. CASE s.start # Null
    <3>1. s.start \in Int /\ start = s.start - n /\ start # Null
      BY <1>1, <2>2 DEF OrNull
    <3>2. first = AtLeast(start, 0)
      BY <3>1
    <3>. HIDE DEF first, start
    <3>. QED  BY <2>2, <3>1, <3>2 DEF AtLeast
  <2>. QED  BY <2>1, <2>2
<1>4. /\ s.end = Null => end = Null
      /\ s.end # Null => end \in Int /\ end = s.end - n /\ (end < 0 => s.end < n)
  BY <1>1 DEF OrNull
<1>. HIDE DEF start, end, first
<1>5. CASE end # Null /\ end < 0
  <2>1. t = NoSelection
    BY <1>2, <1>5
  <2>. HIDE DEF t
  <2>. QED  BY <1>3, <1>4, <1>5, <2>1, NullFacts DEF t
<1>6. CASE ~ (end # Null /\ end < 0)
  <2>1. t = [s EXCEPT !.start = first, !.end = end]
    BY <1>2, <1>6
  <2>2. first \in OrNull(Int) /\ end \in OrNull(Int)
    BY <1>3, <1>4 DEF OrNull
  <2>3. t \in SelectionType /\ t.start = first /\ t.end = end
    BY <2>1, <2>2 DEF SelectionType
  <2>. HIDE DEF t
  <2>4. s.end # Null => end # Null /\ end >= 0
    BY <1>1, <1>4, <1>6
  <2>. QED  BY <1>1, <1>3, <1>4, <2>3, <2>4 DEF t
<1>. QED  BY <1>5, <1>6

\* What is left of a selection in l is one in m.
LEMMA OnTrimInList ==
  ASSUME NEW s \in SelectionType, NEW l \in ListType, NEW m \in ListType,
         KeepsEnd(m, l), m.length > 0, InList(s, l)
  PROVE  InList(onTrim(s, Gone(m, l)), m)
<1>. DEFINE n == Gone(m, l)
            t == onTrim(s, n)
<1>1. n \in Nat /\ l.length \in Int /\ m.length \in Int /\ m.length + n >= l.length
  BY GoneType, SizeFacts DEF ListType, KeepsEnd
<1>2. /\ s.start \in OrNull(0 .. l.length - 1) /\ s.end \in OrNull(0 .. l.length)
      /\ Null \notin Int
  BY NullFacts DEF InList
<1>. HIDE DEF n
<1>3. /\ t \in SelectionType
      /\ s.end # Null /\ t.end # Null => t.end = s.end - n /\ t.end >= 0
      /\ s.end = Null => t.end = Null
      /\ s.start = Null => t.start = Null
      /\ s.start # Null /\ t.start # Null =>
            \/ t.start = s.start - n /\ t.start >= 0
            \/ s.start < n /\ t.start = 0
  BY <1>1, OnTrimFacts
<1>. HIDE DEF t
<1>4. t.start \in OrNull(Int) /\ t.end \in OrNull(Int)
  BY <1>3 DEF SelectionType
<1>5. t.end \in OrNull(0 .. m.length)
  BY <1>1, <1>2, <1>3, <1>4 DEF OrNull
<1>6. t.start \in OrNull(0 .. m.length - 1)
  BY <1>1, <1>2, <1>3, <1>4 DEF OrNull
<1>. QED  BY <1>5, <1>6 DEF InList, t, n

-----------------------------------------------------------------------------
(* Steps of the program.                                                   *)
LEMMA SyncFacts ==
  ASSUME IInv', view \in Int, syncScrollArea
  PROVE  view' \in Int /\ view' >= buffer'.ydisp
<1>1. buffer'.ydisp \in Int /\ buffer'.ydisp = buffers'[active'].ydisp
  <2>1. buffers'[active'] \in BufferType
    BY DEF IInv, TypeOK
  <2>. QED  BY <2>1, SizeFacts DEF buffer, BufferType
<1>2. view' = buffer'.ydisp
  BY <1>1 DEF syncScrollArea
<1>. QED  BY <1>1, <1>2

\* The list of the normal buffer, after a step as before.
LEMMA NormalLines ==
  ASSUME IInv
  PROVE  /\ lines \in ListType
         /\ tame => lines.length > 0
         /\ active = "normal" => lines = buffer.lines
<1>1. buffers["normal"] \in BufferType
  BY DEF IInv, TypeOK
<1>2. tame => Placed(buffers["normal"], rows) /\ rows \in Heights
  BY DEF IInv, ScreenInv
<1>3. tame => lines.length \in 1 .. Scrollback
  BY <1>1, <1>2, PlacedNumbers DEF lines
<1>. QED  BY <1>1, <1>3, SizeFacts DEF lines, buffer, BufferType

LEMMA NextNormalLines ==
  ASSUME IInv'
  PROVE  /\ lines' \in ListType
         /\ tame' => lines'.length > 0
         /\ active' = "normal" => lines' = buffer'.lines
<1>1. buffers'["normal"] \in BufferType
  BY DEF IInv, TypeOK
<1>2. tame' => Placed(buffers'["normal"], rows') /\ rows' \in Heights
  BY DEF IInv, ScreenInv
<1>3. tame' => lines'.length \in 1 .. Scrollback
  BY <1>1, <1>2, PlacedNumbers DEF lines
<1>. QED  BY <1>1, <1>3, SizeFacts DEF lines, buffer, BufferType

\* Output: the selection follows the trims, the viewport what emits 'scroll'.
LEMMA OutcomeInv ==
  ASSUME UserInv, IInv', NEW synced \in BOOLEAN, Outcome(synced),
         tame' => tame /\ (Lasts \/ active' = "alt"),
         tame' /\ ~ synced => buffer'.ydisp <= buffer.ydisp
  PROVE  UserInv'
<1>. DEFINE n == Gone(lines', lines)
<1>1. /\ selection' = IF listening THEN onTrim(selection, n) ELSE selection
      /\ IF synced THEN syncScrollArea ELSE UNCHANGED <<view, event>>
      /\ UNCHANGED <<listening, amount>>
  BY DEF Outcome, Trims, Gone
<1>2. /\ lines \in ListType /\ lines' \in ListType /\ (tame' => lines'.length > 0)
      /\ active = "normal" => lines = buffer.lines
      /\ active' = "normal" => lines' = buffer'.lines
  BY NormalLines, NextNormalLines DEF UserInv
<1>3. n \in Nat
  BY <1>2, GoneType
<1>. HIDE DEF n
<1>4. selection' \in SelectionType
  BY <1>1, <1>3, OnTrimFacts DEF UserInv, UserTypes
<1>5. view' \in Int /\ (synced => view' >= buffer'.ydisp)
  BY <1>1, SyncFacts DEF UserInv, UserTypes
<1>6. UserTypes'
  BY <1>1, <1>4, <1>5 DEF UserInv, UserTypes
<1>7. SelectionBounds'
  <2>. SUFFICES ASSUME tame', listening', active' = "normal"
                PROVE  InList(selection', lines')
    BY DEF SelectionBounds
  <2>1. active = "normal" /\ KeepsEnd(lines', lines) /\ tame
    BY <1>2 DEF Lasts
  <2>2. listening /\ InList(selection, lines)
    BY <1>1, <2>1 DEF UserInv, SelectionBounds
  <2>3. selection \in SelectionType
    BY DEF UserInv, UserTypes
  <2>. QED  BY <1>1, <1>2, <2>1, <2>2, <2>3, OnTrimInList DEF n
<1>8. OwnEventIsLow'
  <2>. SUFFICES ASSUME tame', event' = "own"
                PROVE  view' >= buffer'.ydisp
    BY DEF OwnEventIsLow
  <2>1. CASE synced
    BY <1>5, <2>1
  <2>2. CASE ~ synced
    <3>1. view' = view /\ event = "own" /\ tame
      BY <1>1, <2>2
    <3>2. view >= buffer.ydisp /\ buffer'.ydisp <= buffer.ydisp
      BY <2>2, <3>1 DEF UserInv, OwnEventIsLow
    <3>3. buffer.ydisp \in Int /\ buffer'.ydisp \in Int /\ view \in Int
      BY SizeFacts DEF UserInv, UserTypes, IInv, TypeOK, buffer, BufferType
    <3>. QED  BY <3>1, <3>2, <3>3
  <2>. QED  BY <2>1, <2>2
<1>. QED  BY <1>6, <1>7, <1>8 DEF UserInv

LEMMA StaysInv ==
  ASSUME UserInv, IInv', NEW synced \in BOOLEAN, Outcome(synced),
         tame' => tame /\ Stays
  PROVE  UserInv'
BY OutcomeInv DEF Stays

LEMMA PrintsInv ==
  ASSUME UserInv, Prints
  PROVE  UserInv'
<1>1. IInv
  BY DEF UserInv
<1>2. CASE lineFeed /\ Outcome(AtBottom)
  <2>1. IInv'
    BY <1>1, <1>2, NextInv DEF Next, Program, Printing
  <2>2. tame
    BY <1>2 DEF lineFeed, Output, Parsing
  <2>3. AtBottom \in BOOLEAN
    BY DEF AtBottom
  <2>4. Lasts /\ (AtBottom \/ Stays)
    BY <1>1, <1>2, LineFeedLasts
  <2>5. ~ AtBottom => buffer'.ydisp <= buffer.ydisp
    BY <2>4 DEF Stays
  <2>. QED  BY <1>2, <2>1, <2>2, <2>3, <2>4, <2>5, OutcomeInv
<1>3. ASSUME NEW ink \in Ink, NEW w \in 1 .. 2, addChar(ink, w),
             Outcome(AtBottom /\ wraparound /\ Wraps(buffer, w))
      PROVE  UserInv'
  <2>. DEFINE P == AtBottom /\ wraparound /\ Wraps(buffer, w)
  <2>1. IInv'
    BY <1>1, <1>3, NextInv DEF Next, Program, Printing
  <2>2. tame
    BY <1>3 DEF addChar, Output, Parsing
  <2>3. Lasts /\ (P \/ Stays)
    BY <1>1, <1>3, AddCharLasts
  <2>4. P \in BOOLEAN /\ Outcome(P)
    BY <1>3
  <2>. HIDE DEF P
  <2>5. ~ P => buffer'.ydisp <= buffer.ydisp
    BY <2>3 DEF Stays
  <2>. QED  BY <2>1, <2>2, <2>3, <2>4, <2>5, OutcomeInv
<1>4. CASE carriageReturn /\ Outcome(FALSE)
  <2>1. IInv'
    BY <1>1, <1>4, NextInv DEF Next, Program, Printing
  <2>2. Output("feed", [buffer EXCEPT !.x = 0])
    BY <1>4 DEF carriageReturn
  <2>3. tame
    BY <2>2 DEF Output, Parsing
  <2>4. Stays
    BY <1>1, <2>2, MovesStay
  <2>. QED  BY <1>4, <2>1, <2>3, <2>4, StaysInv
<1>. QED  BY <1>2, <1>3, <1>4 DEF Prints

\* What throws changes nothing, and only a screen that is not tame throws.
LEMMA EditsInv ==
  ASSUME UserInv, Edits
  PROVE  UserInv'
<1>1. IInv /\ Outcome(FALSE)
  BY DEF UserInv, Edits
<1>2. CASE Erasing
  <2>1. IInv'
    BY <1>1, <1>2, NextInv DEF Next, Program
  <2>2. tame' => tame
    BY <1>2 DEF Erasing, eraseRight, eraseLeft, eraseLine, eraseBelow, eraseAbove,
                eraseAboveLoops, eraseAll, editCells, editFails, Throw, Tame
  <2>3. Stays
    BY <1>1, <1>2, ErasingStays
  <2>. QED  BY <1>1, <2>1, <2>2, <2>3, StaysInv
<1>3. CASE Lines
  <2>1. IInv'
    BY <1>1, <1>3, NextInv DEF Next, Program
  <2>2. tame
    BY <1>3 DEF Lines, insertLines, deleteLines, scrollUp, scrollDown, reverseIndex,
                Output, Parsing
  <2>3. tame' => Stays
    BY <1>1, <1>3, LinesStay
  <2>. QED  BY <1>1, <2>1, <2>2, <2>3, StaysInv
<1>4. CASE Cursor
  <2>1. IInv'
    BY <1>1, <1>4, NextInv DEF Next, Program
  <2>2. tame
    BY <1>4 DEF Cursor, CursorMove, cursorUp, cursorDown, cursorForward, cursorBackward,
                cursorNextLine, cursorPrecedingLine, cursorCharAbsolute, charPosAbsolute,
                linePosAbsolute, HVPosition, cursorPosition, MoveTo, Output, Parsing,
                backspace, tab, repeatPrecedingCharacter, saveCursor, restoreCursor
  <2>3. Stays
    BY <1>1, <1>4, CursorStays
  <2>. QED  BY <1>1, <2>1, <2>2, <2>3, StaysInv
<1>5. ASSUME NEW m \in Param, NEW n \in Param, setScrollRegion(m, n)
      PROVE  UserInv'
  <2>1. IInv'
    BY <1>1, <1>5, NextInv DEF Next, Program
  <2>2. tame
    BY <1>5 DEF setScrollRegion, Output, Parsing
  <2>3. Stays
    BY <1>1, <1>5, RegionStays
  <2>. QED  BY <1>1, <2>1, <2>2, <2>3, StaysInv
<1>. QED  BY <1>2, <1>3, <1>4, <1>5 DEF Edits

LEMMA SwitchesOnInv ==
  ASSUME UserInv, SwitchesOn
  PROVE  UserInv'
<1>1. IInv
  BY DEF UserInv
<1>2. CASE eraseScrollback /\ Outcome(TRUE)
  <2>1. IInv'
    BY <1>1, <1>2, NextInv DEF Next, Program
  <2>2. tame
    BY <1>2 DEF eraseScrollback, Output, Parsing
  <2>3. Lasts
    BY <1>1, <1>2, EraseScrollbackLasts
  <2>. QED  BY <1>2, <2>1, <2>2, <2>3, OutcomeInv
<1>3. CASE activateAltBuffer /\ Outcome(TRUE)
  <2>1. IInv'
    BY <1>1, <1>3, NextInv DEF Next, Program, Modes
  <2>2. tame /\ active' = "alt"
    BY <1>3 DEF activateAltBuffer, Parsing
  <2>. QED  BY <1>3, <2>1, <2>2, OutcomeInv
<1>4. CASE softReset /\ Outcome(TRUE)
  <2>1. IInv'
    BY <1>1, <1>4, NextInv DEF Next, Program, Modes
  <2>2. tame
    BY <1>4 DEF softReset, Parsing
  <2>3. Stays
    BY <1>1, <1>4, SoftResetStays
  <2>. QED  BY <1>4, <2>1, <2>2, <2>3, StaysInv
<1>5. CASE (set132Columns \/ reset132Columns) /\ Outcome(cols' # cols)
  <2>1. IInv'
    BY <1>1, <1>5, NextInv DEF Next, Program, Modes
  <2>2. tame
    BY <1>5 DEF set132Columns, reset132Columns, Parsing
  <2>3. Stays
    BY <1>1, <1>5, ColumnsStay
  <2>. QED  BY <1>5, <2>1, <2>2, <2>3, StaysInv
<1>6. ASSUME NEW on \in BOOLEAN, setWraparound(on), Outcome(FALSE)
      PROVE  UserInv'
  <2>1. IInv'
    BY <1>1, <1>6, NextInv DEF Next, Program, Modes
  <2>2. tame /\ UNCHANGED <<buffers, active>>
    BY <1>6 DEF setWraparound, Parsing
  <2>3. Stays
    BY <1>1, <2>2, UnchangedStays
  <2>. QED  BY <1>6, <2>1, <2>2, <2>3, StaysInv
<1>7. CASE Parsing("keypad") /\ UNCHANGED vars /\ Outcome(TRUE)
  <2>1. IInv'
    BY <1>1, <1>7, NextInv
  <2>2. tame /\ UNCHANGED <<buffers, active>>
    BY <1>7 DEF vars, Parsing
  <2>3. Stays
    BY <1>1, <2>2, UnchangedStays
  <2>. QED  BY <1>7, <2>1, <2>2, <2>3, StaysInv
<1>. QED  BY <1>2, <1>3, <1>4, <1>5, <1>6, <1>7 DEF SwitchesOn

LEMMA ReturnsInv ==
  ASSUME UserInv, Returns
  PROVE  UserInv'
<1>1. IInv'
  BY NextInv DEF Returns, Next, Program, Modes, UserInv
<1>2. /\ selection' = NoSelection /\ amount' = amount /\ listening' \in BOOLEAN
      /\ syncScrollArea
  BY DEF Returns, UserInv, UserTypes
<1>3. view' \in Int /\ view' >= buffer'.ydisp
  BY <1>1, <1>2, SyncFacts DEF UserInv, UserTypes
<1>4. UserTypes'
  BY <1>2, <1>3, NullFacts DEF UserInv, UserTypes
<1>5. SelectionBounds'
  BY <1>2, NullFacts DEF SelectionBounds
<1>6. OwnEventIsLow'
  BY <1>3 DEF OwnEventIsLow
<1>. QED  BY <1>1, <1>4, <1>5, <1>6 DEF UserInv

-----------------------------------------------------------------------------
(* Steps of the user.  They change the lines of no buffer.                 *)
LEMMA UserKeepsLines ==
  ASSUME UserInv, IInv', tame' = tame, active' = active, listening' = listening,
         lines' = lines,
         selection' \in SelectionType, amount' \in Int, view' \in Int,
         tame /\ active = "normal" /\ InList(selection, lines) => InList(selection', lines),
         tame /\ event' = "own" => view' >= buffer'.ydisp
  PROVE  UserInv'
<1>1. UserTypes'
  BY DEF UserInv, UserTypes
<1>2. SelectionBounds'
  BY DEF UserInv, SelectionBounds
<1>3. OwnEventIsLow'
  BY DEF OwnEventIsLow
<1>. QED  BY <1>1, <1>2, <1>3 DEF UserInv

\* The buffers are as they were: a change of the selection or the viewport.
LEMMA UserMovesInv ==
  ASSUME UserInv, UNCHANGED vars, listening' = listening,
         selection' \in SelectionType, amount' \in Int, view' \in Int,
         tame /\ active = "normal" /\ InList(selection, lines) => InList(selection', lines),
         event' = "own" => event = "own" /\ view' = view
  PROVE  UserInv'
<1>1. IInv'
  BY NextInv DEF UserInv
<1>2. tame' = tame /\ active' = active /\ lines' = lines /\ buffer' = buffer
  BY DEF vars, lines, buffer
<1>3. tame /\ event' = "own" => view' >= buffer'.ydisp
  BY <1>2 DEF UserInv, OwnEventIsLow
<1>. QED  BY <1>1, <1>2, <1>3, UserKeepsLines

\* The view of the current buffer is within its list.
LEMMA ViewNotAbove ==
  ASSUME IInv, ViewInList
  PROVE  buffer.ydisp >= 0
<1>1. active \in {"normal", "alt"}
  BY DEF IInv, TypeOK
<1>. QED  BY <1>1 DEF ViewInList, buffer

\* scrollDisp, or its early return.
LEMMA ScrolledFacts ==
  ASSUME IInv, ViewInList, tame, NEW disp \in Int, Scrolled(disp)
  PROVE  /\ IInv' /\ tame' = tame /\ active' = active /\ rows' = rows /\ lines' = lines
         /\ buffer' = [buffer EXCEPT !.ydisp = buffer'.ydisp]
         /\ buffer'.ydisp \in 0 .. buffer.ybase
         /\ disp >= 0 => buffer'.ydisp = AtMost(buffer.ydisp + disp, buffer.ybase)
         /\ disp >= 0 /\ ~ userScrolling => ~ userScrolling'
<1>. DEFINE d == AtLeast(AtMost(buffer.ydisp + disp, buffer.ybase), 0)
<1>1. /\ buffer \in BufferType /\ Placed(buffer, rows) /\ rows \in Heights
      /\ buffers \in [{"normal", "alt"} -> BufferType] /\ active \in {"normal", "alt"}
  BY ActiveBuffer DEF IInv, TypeOK
<1>2. buffer.ybase \in Nat /\ buffer.ydisp \in 0 .. buffer.ybase
  BY <1>1, BufferNumbers, ViewNotAbove
<1>3. CASE disp < 0 /\ buffer.ydisp = 0
  <2>1. UNCHANGED vars
    BY <1>3 DEF Scrolled
  <2>2. IInv'
    BY <2>1, NextInv
  <2>3. /\ tame' = tame /\ active' = active /\ rows' = rows /\ lines' = lines
        /\ buffer' = buffer /\ userScrolling' = userScrolling
    BY <2>1 DEF vars, lines, buffer
  <2>4. buffer = [buffer EXCEPT !.ydisp = buffer.ydisp]
    BY <1>1 DEF BufferType
  <2>. QED  BY <1>2, <1>3, <2>2, <2>3, <2>4
<1>4. CASE ~ (disp < 0 /\ buffer.ydisp = 0)
  <2>1. scrollDisp(disp)
    BY <1>4 DEF Scrolled
  <2>2. IInv'
    <3>1. PICK c \in BufferType : Effect(c)
      BY <2>1, ScrollDispEffect
    <3>. QED  BY <3>1, EffectInv
  <2>3. buffers' = [buffers EXCEPT ![active] = [buffer EXCEPT !.ydisp = d]]
    BY <2>1 DEF scrollDisp, buffer, IInv, TypeOK
  <2>4. disp >= 0 /\ ~ userScrolling => ~ userScrolling'
    BY <2>1 DEF scrollDisp
  <2>5. /\ tame' = tame /\ active' = active /\ rows' = rows
        /\ buffers' = [buffers EXCEPT ![active] = [buffer EXCEPT !.ydisp = d]]
        /\ disp >= 0 /\ ~ userScrolling => ~ userScrolling'
    BY <2>1, <2>3, <2>4 DEF scrollDisp
  <2>6. d \in 0 .. buffer.ybase /\ (disp >= 0 => d = AtMost(buffer.ydisp + disp, buffer.ybase))
    BY <1>2 DEF AtLeast, AtMost
  <2>. HIDE DEF d
  <2>7. buffer' = [buffer EXCEPT !.ydisp = d]
    BY <1>1, <2>5 DEF buffer
  <2>8. [buffer EXCEPT !.ydisp = d].ydisp = d /\ [buffer EXCEPT !.ydisp = d].lines = buffer.lines
    BY <1>1 DEF BufferType
  <2>9. lines' = lines
    BY <1>1, <2>5, <2>8 DEF lines, buffer
  <2>. QED  BY <2>2, <2>5, <2>6, <2>7, <2>8, <2>9
<1>. QED  BY <1>3, <1>4

\* The rows that the mouse can be on.
LEMMA RowFacts ==
  ASSUME IInv, ViewInList, tame, NEW towards \in Int, NEW row \in Rows(towards)
  PROVE  /\ row \in Int
         /\ active = "normal" => row \in 0 .. lines.length
         /\ active = "normal" /\ towards = 0 => row \in 0 .. lines.length - 1
<1>1. /\ buffer.ydisp \in 0 .. buffer.ybase /\ buffer.ybase \in Nat
      /\ buffer.ybase + rows = buffer.lines.length /\ rows \in Nat \ {0}
  <2>1. buffer \in BufferType /\ Placed(buffer, rows) /\ rows \in Heights
    BY ActiveBuffer
  <2>. QED  BY <2>1, BufferNumbers, ViewNotAbove
<1>2. PICK k \in getCoords(towards) : row = buffer.ydisp + k
  BY DEF Rows
<1>3. k \in 0 .. rows /\ (towards = 0 => k \in 0 .. rows - 1)
  <2>1. CASE towards < 0
    <3>1. getCoords(towards) = {0}
      BY <2>1 DEF getCoords
    <3>. QED  BY <1>1, <1>2, <2>1, <3>1
  <2>2. CASE towards > 0
    <3>1. getCoords(towards) = {rows}
      BY <2>2 DEF getCoords
    <3>. QED  BY <1>1, <1>2, <2>2, <3>1
  <2>3. CASE towards = 0
    <3>1. getCoords(towards) = 0 .. rows - 1
      BY <2>3 DEF getCoords
    <3>. QED  BY <1>1, <1>2, <3>1
  <2>. QED  BY <2>1, <2>2, <2>3
<1>4. active = "normal" => lines.length = buffer.ybase + rows
  BY <1>1, NormalLines
<1>. QED  BY <1>1, <1>2, <1>3, <1>4

\* Changing one end of a selection.
LEMMA EndsChange ==
  ASSUME NEW s \in SelectionType, NEW row \in Int, NEW l \in ListType
  PROVE  /\ [s EXCEPT !.start = row] \in SelectionType
         /\ [s EXCEPT !.end = row] \in SelectionType
         /\ [s EXCEPT !.all = TRUE] \in SelectionType
         /\ InList(s, l) =>
               /\ row \in 0 .. l.length - 1 => InList([s EXCEPT !.start = row], l)
               /\ row \in 0 .. l.length => InList([s EXCEPT !.end = row], l)
               /\ InList([s EXCEPT !.all = TRUE], l)
<1>1. row \in OrNull(Int)
  BY DEF OrNull
<1>2. /\ [s EXCEPT !.start = row] \in SelectionType
      /\ [s EXCEPT !.start = row].start = row /\ [s EXCEPT !.start = row].end = s.end
  BY <1>1 DEF SelectionType
<1>3. /\ [s EXCEPT !.end = row] \in SelectionType
      /\ [s EXCEPT !.end = row].end = row /\ [s EXCEPT !.end = row].start = s.start
  BY <1>1 DEF SelectionType
<1>4. ASSUME NEW v \in BOOLEAN
      PROVE  /\ [s EXCEPT !.all = v] \in SelectionType
             /\ [s EXCEPT !.all = v].start = s.start /\ [s EXCEPT !.all = v].end = s.end
  BY DEF SelectionType
<1>5. /\ [s EXCEPT !.all = TRUE] \in SelectionType
      /\ [s EXCEPT !.all = TRUE].start = s.start /\ [s EXCEPT !.all = TRUE].end = s.end
  BY <1>4
<1>. QED  BY <1>2, <1>3, <1>5 DEF InList, OrNull

\* A press, the drag it begins and the shortcut for everything.
LEMMA SelectingInv ==
  ASSUME UserInv, ViewInList, tame,
         MouseDown \/ mouseUp \/ selectAll \/ \E towards \in ScrollAmounts : mouseMove(towards)
  PROVE  UserInv'
<1>1. /\ IInv /\ selection \in SelectionType /\ lines \in ListType
      /\ amount \in Int /\ view \in Int
  BY NormalLines DEF UserInv, UserTypes
<1>2. ASSUME NEW s \in SelectionType, selection' = s, NEW k \in Int, amount' = k,
             UNCHANGED <<vars, listening, view, event>>,
             active = "normal" /\ InList(selection, lines) => InList(s, lines)
      PROVE  UserInv'
  BY <1>1, <1>2, UserMovesInv
<1>3. CASE MouseDown
  <2>1. PICK row \in Rows(0) : \/ incrementalClick(row) \/ tripleClick(row)
                               \/ \E edge \in BOOLEAN : singleClick(row, edge)
                                                        \/ doubleClick(row, edge)
    BY <1>3 DEF MouseDown
  <2>2. row \in Int /\ (active = "normal" => row \in 0 .. lines.length - 1)
    BY <1>1, RowFacts
  <2>3. active = "normal" => row \in 0 .. lines.length /\ lines.length \in Int
    BY <1>1, <2>2, SizeFacts DEF ListType
  <2>4. ASSUME NEW s, NEW begins, Press(s, begins),
               s \in {selection, [NoSelection EXCEPT !.start = row],
                      [selection EXCEPT !.start = row], [selection EXCEPT !.end = row]}
        PROVE  UserInv'
    <3>1. s \in SelectionType
      BY <1>1, <2>2, <2>4, EndsChange, NullFacts
    <3>2. active = "normal" /\ InList(selection, lines) => InList(s, lines)
      BY <1>1, <2>2, <2>3, <2>4, EndsChange, NullFacts
    <3>3. /\ selection' = s /\ amount' = 0 /\ 0 \in Int
          /\ UNCHANGED <<vars, listening, view, event>>
      BY <2>4 DEF Press
    <3>. QED  BY <1>2, <3>1, <3>2, <3>3
  <2>5. CASE incrementalClick(row)
    BY <2>4, <2>5 DEF incrementalClick
  <2>6. CASE tripleClick(row)
    BY <2>4, <2>6 DEF tripleClick
  <2>7. ASSUME NEW edge \in BOOLEAN, singleClick(row, edge)
        PROVE  UserInv'
    BY <2>4, <2>7 DEF singleClick
  <2>8. ASSUME NEW edge \in BOOLEAN, doubleClick(row, edge)
        PROVE  UserInv'
    BY <2>4, <2>8 DEF doubleClick
  <2>. QED  BY <2>1, <2>5, <2>6, <2>7, <2>8
<1>4. CASE mouseUp
  <2>1. UNCHANGED <<vars, selection, listening, amount, view, event>>
    BY <1>4 DEF mouseUp
  <2>. QED  BY <1>1, <1>2, <2>1
<1>5. CASE selectAll
  <2>1. /\ selection' = [selection EXCEPT !.all = TRUE]
        /\ UNCHANGED <<vars, listening, amount, view, event>>
    BY <1>5 DEF selectAll
  <2>2. 0 \in Int
    OBVIOUS
  <2>3. /\ [selection EXCEPT !.all = TRUE] \in SelectionType
        /\ InList(selection, lines) => InList([selection EXCEPT !.all = TRUE], lines)
    BY <1>1, <2>2, EndsChange
  <2>. QED  BY <1>1, <1>2, <2>1, <2>3
<1>6. ASSUME NEW towards \in ScrollAmounts, mouseMove(towards)
      PROVE  UserInv'
  <2>1. towards \in Int
    BY UserAssumption DEF ScrollAmounts
  <2>2. PICK row \in Rows(towards) : selection' = [selection EXCEPT !.end = row]
    BY <1>6 DEF mouseMove
  <2>3. row \in Int /\ (active = "normal" => row \in 0 .. lines.length)
    BY <1>1, <2>1, RowFacts
  <2>4. amount' \in Int /\ UNCHANGED <<vars, listening, view, event>>
    BY <1>1, <1>6, <2>1 DEF mouseMove
  <2>5. /\ [selection EXCEPT !.end = row] \in SelectionType
        /\ active = "normal" /\ InList(selection, lines)
              => InList([selection EXCEPT !.end = row], lines)
    BY <1>1, <2>3, EndsChange
  <2>. QED  BY <1>2, <2>2, <2>4, <2>5
<1>. QED  BY <1>3, <1>4, <1>5, <1>6

\* Mouse reports, answers and the wheel leave the buffers and the selection alone.
LEMMA ReportsInv ==
  ASSUME UserInv,
         \/ answer \/ reportPress \/ reportWheel \/ reportMove \/ reportRelease
         \/ \E mode \in MouseModes : setMouseMode(mode)
         \/ \E top \in 0 .. Scrollback : wheel(top)
  PROVE  UserInv'
<1>1. /\ selection \in SelectionType /\ amount \in Int /\ view \in Int
  BY DEF UserInv, UserTypes
<1>2. ASSUME UNCHANGED <<vars, selection, listening, amount, view, event>>
      PROVE  UserInv'
  BY <1>1, <1>2, UserMovesInv
<1>3. CASE answer
  BY <1>2, <1>3 DEF answer
<1>4. CASE reportPress \/ reportWheel \/ reportMove \/ reportRelease
  <2>1. PICK listeners : sendEvent(listeners)
    BY <1>4 DEF reportPress, reportWheel, reportMove, reportRelease
  <2>. QED  BY <1>2, <2>1 DEF sendEvent
<1>5. ASSUME NEW mode \in MouseModes, setMouseMode(mode)
      PROVE  UserInv'
  <2>1. /\ UNCHANGED <<vars, listening, amount, view, event>>
        /\ selection' = selection \/ selection' = NoSelection
    BY <1>5 DEF setMouseMode
  <2>. QED  BY <1>1, <2>1, NullFacts, UserMovesInv
<1>6. ASSUME NEW top \in 0 .. Scrollback, wheel(top)
      PROVE  UserInv'
  <2>1. /\ UNCHANGED <<vars, selection, listening, amount>>
        /\ view' = top /\ event' = "user" /\ top \in Int
    BY <1>6, SizeFacts DEF wheel
  <2>. QED  BY <1>1, <2>1, UserMovesInv
<1>. QED  BY <1>3, <1>4, <1>5, <1>6

\* The viewport follows a scroll that moved the view, else it stays.
LEMMA EmitFacts ==
  ASSUME UserInv, IInv', tame, active' = active, EmitScroll
  PROVE  view' \in Int /\ (event' = "own" => view' >= buffer'.ydisp)
<1>1. CASE buffers' # buffers
  <2>1. syncScrollArea
    BY <1>1 DEF EmitScroll
  <2>. QED  BY <2>1, SyncFacts DEF UserInv, UserTypes
<1>2. CASE buffers' = buffers
  <2>1. view' = view /\ event' = event /\ buffer' = buffer
    BY <1>2 DEF EmitScroll, buffer
  <2>. QED  BY <2>1 DEF UserInv, UserTypes, OwnEventIsLow
<1>. QED  BY <1>1, <1>2

\* The user's scrolls, with what becomes of the selection and the viewport.
LEMMA ScrolledInv ==
  ASSUME UserInv, ViewInList, tame, NEW disp \in Int, Scrolled(disp), listening' = listening,
         selection' \in SelectionType, amount' = amount,
         active = "normal" /\ InList(selection, lines) => InList(selection', lines),
         \/ EmitScroll
         \/ view' = view /\ event' = "none"
  PROVE  UserInv'
<1>1. IInv' /\ tame' = tame /\ active' = active /\ lines' = lines
  BY ScrolledFacts DEF UserInv
<1>2. view' \in Int /\ (event' = "own" => view' >= buffer'.ydisp)
  BY <1>1, EmitFacts DEF UserInv, UserTypes
<1>. QED  BY <1>1, <1>2, UserKeepsLines DEF UserInv, UserTypes

LEMMA DragScrollInv ==
  ASSUME UserInv, ViewInList, tame, dragScroll
  PROVE  UserInv'
<1>. DEFINE disp == buffers'[active].ydisp
            row == IF amount > 0 THEN disp + rows ELSE disp
<1>1. /\ amount \in Int /\ Scrolled(amount) /\ EmitScroll
      /\ selection' = [selection EXCEPT !.end = row]
      /\ listening' = listening /\ amount' = amount /\ selection \in SelectionType
  BY DEF dragScroll, UserInv, UserTypes
<1>2. /\ IInv /\ buffer'.ydisp \in 0 .. buffer.ybase /\ active' = active
  BY <1>1, ScrolledFacts DEF UserInv
<1>3. disp \in 0 .. buffer.ybase
  BY <1>2 DEF buffer
<1>4. /\ rows \in 1 .. Scrollback /\ buffer.ybase \in Nat
      /\ buffer.ybase + rows = buffer.lines.length
  <2>1. buffer \in BufferType /\ Placed(buffer, rows) /\ rows \in Heights
    BY <1>2, ActiveBuffer
  <2>. QED  BY <2>1, BufferNumbers
<1>. HIDE DEF disp
<1>5. row \in Int /\ row \in 0 .. buffer.lines.length
  BY <1>3, <1>4
<1>. HIDE DEF row
<1>6. lines \in ListType /\ (active = "normal" => lines = buffer.lines)
  BY <1>2, NormalLines
<1>7. /\ selection' \in SelectionType
      /\ active = "normal" /\ InList(selection, lines) => InList(selection', lines)
  BY <1>1, <1>5, <1>6, EndsChange
<1>. QED  BY <1>1, <1>7, ScrolledInv

LEMMA OnScrollInv ==
  ASSUME UserInv, ViewInList, tame, onScroll
  PROVE  UserInv'
<1>1. /\ Scrolled(view - buffer.ydisp) /\ view' = view /\ event' = "none"
      /\ UNCHANGED <<selection, listening, amount>>
  BY DEF onScroll
<1>2. view - buffer.ydisp \in Int /\ selection \in SelectionType
  <2>1. buffer \in BufferType
    BY ActiveBuffer DEF UserInv
  <2>. QED  BY <2>1, SizeFacts DEF BufferType, UserInv, UserTypes
<1>. QED  BY <1>1, <1>2, ScrolledInv

\* Keys, pasted text and answers end the selection and go to the bottom.
LEMMA HandlerInv ==
  ASSUME UserInv, ViewInList, tame, handler
  PROVE  UserInv'
<1>1. /\ selection' = NoSelection \/ selection' = selection
      /\ UNCHANGED <<listening, amount>> /\ EmitScroll
      /\ IF buffer.ybase # buffer.ydisp THEN Scrolled(buffer.ybase - buffer.ydisp)
                                        ELSE UNCHANGED vars
  BY DEF handler
<1>2. /\ selection' \in SelectionType
      /\ InList(selection, lines) => InList(selection', lines)
  BY <1>1, NullFacts DEF UserInv, UserTypes
<1>3. CASE buffer.ybase # buffer.ydisp
  <2>1. buffer.ybase - buffer.ydisp \in Int
    <3>1. buffer \in BufferType
      BY ActiveBuffer DEF UserInv
    <3>. QED  BY <3>1, SizeFacts DEF BufferType
  <2>. QED  BY <1>1, <1>2, <1>3, <2>1, ScrolledInv
<1>4. CASE buffer.ybase = buffer.ydisp
  <2>1. UNCHANGED vars
    BY <1>1, <1>4
  <2>2. view' = view /\ event' = event
    BY <1>1, <2>1 DEF EmitScroll, vars
  <2>. QED  BY <1>1, <1>2, <2>1, <2>2, UserMovesInv DEF UserInv, UserTypes
<1>. QED  BY <1>3, <1>4

LEMMA PageKeyInv ==
  ASSUME UserInv, ViewInList, tame, NEW up \in BOOLEAN, pageKey(up)
  PROVE  UserInv'
<1>. DEFINE disp == IF up THEN -(rows - 1) ELSE rows - 1
<1>1. Scrolled(disp) /\ EmitScroll /\ UNCHANGED <<selection, listening, amount>>
  BY DEF pageKey
<1>2. rows \in Int
  BY ActiveBuffer, SizeFacts DEF UserInv, Heights
<1>3. disp \in Int
  BY <1>2
<1>. HIDE DEF disp
<1>. QED  BY <1>1, <1>3, ScrolledInv DEF UserInv, UserTypes

-----------------------------------------------------------------------------
(* The invariant of the specification.                                     *)
LEMMA UserInitInv == UserInit => UserInv /\ ViewInList
<1>. SUFFICES ASSUME UserInit PROVE UserInv /\ ViewInList
  OBVIOUS
<1>1. /\ IInv /\ selection = NoSelection /\ listening = TRUE /\ amount = 0 /\ view = 0
      /\ event = "none"
  BY InitInv DEF UserInit
<1>2. UserTypes
  BY <1>1, NullFacts DEF UserTypes
<1>3. SelectionBounds
  BY <1>1, NullFacts DEF SelectionBounds
<1>4. ViewInList
  <2>1. buffers["normal"].ydisp = 0 /\ buffers["alt"].ydisp = 0
    BY DEF UserInit, Init, FreshBuffers, NewBuffer
  <2>. QED  BY <2>1 DEF ViewInList
<1>. QED  BY <1>1, <1>2, <1>3, <1>4 DEF UserInv, OwnEventIsLow

LEMMA UserNextInv == UserInv /\ ViewInList /\ [UserNext]_allVars => UserInv'
<1>. SUFFICES ASSUME UserInv, ViewInList, [UserNext]_allVars PROVE UserInv'
  OBVIOUS
<1>1. CASE ProgramStep
  <2>1. CASE Prints \/ Edits
    BY <2>1, PrintsInv, EditsInv
  <2>2. CASE SwitchesOn \/ Returns
    BY <2>2, SwitchesOnInv, ReturnsInv
  <2>3. CASE deviceStatus \/ sendDeviceAttributes \/ \E mode \in MouseModes : setMouseMode(mode)
    BY <2>3, ReportsInv DEF deviceStatus, sendDeviceAttributes
  <2>. QED  BY <1>1, <2>1, <2>2, <2>3 DEF ProgramStep
<1>2. CASE tame /\ UserStep
  <2>1. CASE MouseDown \/ mouseUp \/ selectAll \/ \E towards \in ScrollAmounts : mouseMove(towards)
    BY <1>2, <2>1, SelectingInv
  <2>2. CASE \/ reportPress \/ reportWheel \/ reportMove \/ reportRelease
             \/ \E top \in 0 .. Scrollback : wheel(top)
    BY <2>2, ReportsInv
  <2>3. CASE dragScroll
    BY <1>2, <2>3, DragScrollInv
  <2>4. CASE onScroll
    BY <1>2, <2>4, OnScrollInv
  <2>5. CASE key \/ paste \/ send
    BY <1>2, <2>5, HandlerInv DEF key, paste, typed, send
  <2>6. CASE \E up \in BOOLEAN : pageKey(up)
    BY <1>2, <2>6, PageKeyInv
  <2>. QED  BY <1>2, <2>1, <2>2, <2>3, <2>4, <2>5, <2>6 DEF UserStep
<1>3. CASE UNCHANGED allVars
  <2>1. UNCHANGED <<vars, selection, listening, amount, view, event>>
    BY <1>3 DEF allVars, userVars
  <2>. QED  BY <2>1, UserMovesInv DEF UserInv, UserTypes
<1>. QED  BY <1>1, <1>2, <1>3 DEF UserNext

LEMMA ViewStaysInList == ViewInList /\ [UserNext]_allVars => ViewInList'
<1>. SUFFICES ASSUME ViewInList, [UserNext]_allVars PROVE ViewInList'
  OBVIOUS
<1>1. CASE UNCHANGED allVars
  BY <1>1 DEF allVars, vars, ViewInList
<1>. QED  BY <1>1 DEF UserNext

LEMMA UserSpecInv == UserSpec => [](UserInv /\ ViewInList)
  BY UserInitInv, UserNextInv, ViewStaysInList, PTL DEF UserSpec

-----------------------------------------------------------------------------
(* What is copied.                                                         *)

\* On the normal screen a selection starts on a line of the list and ends on one
\* or on the row below the screen, and every line that copy takes is there: the
\* trims of the list and onTrim, the clears on a change of buffer and the bounds
\* of getCoords and dragScroll go together (SelectionManager, SelectionModel).
THEOREM SelectionStaysInside == UserSpec => []SelectionInsideList
<1>1. UserInv => SelectionInsideList
  <2>. SUFFICES ASSUME UserInv, tame, listening, active = "normal",
                       finalSelectionStart # Null
                PROVE  /\ finalSelectionStart >= 0
                       /\ finalSelectionEnd <= lines.length
                       /\ \A i \in DOMAIN selectionText :
                             i < lines.length => selectionText[i] \in Texts
    BY DEF SelectionInsideList
  <2>1. /\ selection.start \in OrNull(0 .. lines.length - 1)
        /\ selection.end \in OrNull(0 .. lines.length) /\ Null \notin Int
    BY NullFacts DEF UserInv, SelectionBounds, InList
  <2>2. /\ lines = buffer.lines /\ lines.length \in Nat \ {0}
        /\ buffer.ybase + rows = lines.length /\ buffer.ybase \in Int /\ rows \in Int
        /\ \A i \in 0 .. lines.length - 1 : Get(lines, i) \in Texts
    <3>1. buffer \in BufferType /\ Placed(buffer, rows) /\ rows \in Heights
      BY ActiveBuffer DEF UserInv
    <3>2. lines = buffer.lines
      BY NormalLines DEF UserInv
    <3>3. Filled(lines)
      BY <3>1, <3>2 DEF Placed
    <3>. QED  BY <3>1, <3>2, <3>3, BufferNumbers DEF Filled
  <2>3. CASE selection.all
    <3>1. finalSelectionStart = 0 /\ finalSelectionEnd = buffer.ybase + rows - 1
      BY <2>3 DEF finalSelectionStart, finalSelectionEnd
    <3>2. finalSelectionEnd = lines.length - 1
      BY <2>2, <3>1
    <3>3. \A i \in finalSelectionStart .. finalSelectionEnd : selectionText[i] = Get(lines, i)
      BY DEF selectionText
    <3>4. DOMAIN selectionText = finalSelectionStart .. finalSelectionEnd
      BY DEF selectionText
    <3>. QED  BY <2>2, <3>1, <3>2, <3>3, <3>4
  <2>4. CASE ~ selection.all
    <3>1. CASE Complete
      <4>1. /\ selection.start \in 0 .. lines.length - 1 /\ selection.end \in 0 .. lines.length
        BY <2>1, <3>1 DEF Complete, OrNull
      <4>2. /\ finalSelectionStart = AtMost(selection.start, selection.end)
            /\ finalSelectionEnd = AtLeast(selection.start, selection.end)
        BY <2>4, <3>1 DEF finalSelectionStart, finalSelectionEnd
      <4>3. finalSelectionStart \in 0 .. lines.length /\ finalSelectionEnd \in 0 .. lines.length
        BY <2>2, <4>1, <4>2 DEF AtMost, AtLeast
      <4>. QED  BY <2>2, <4>3 DEF selectionText
    <3>2. CASE ~ Complete
      <4>1. finalSelectionStart = selection.start /\ finalSelectionEnd = selection.start
        BY <2>4, <3>2 DEF finalSelectionStart, finalSelectionEnd
      <4>2. finalSelectionStart \in 0 .. lines.length - 1
        BY <2>1, <4>1 DEF OrNull
      <4>. QED  BY <2>2, <4>1, <4>2 DEF selectionText
    <3>. QED  BY <3>1, <3>2
  <2>. QED  BY <2>3, <2>4
<1>. QED  BY <1>1, UserSpecInv, PTL

-----------------------------------------------------------------------------
(* Which lines are selected.                                               *)

\* A position that moved by what left the list is the same slot of the array.
LEMMA SlotMoves ==
  ASSUME NEW l \in ListType, NEW m \in ListType, NEW i \in 0 .. Scrollback
  PROVE  CyclicIndex(l, i) = CyclicIndex(m, i - Gone(m, l))
<1>. DEFINE M == Scrollback
            a == l.startIndex
            c == m.startIndex
            n == Gone(m, l)
<1>1. /\ M \in Nat /\ M > 1 /\ a \in 0 .. M - 1 /\ c \in 0 .. M - 1 /\ i \in 0 .. M
      /\ l.maxLength = M /\ m.maxLength = M
  BY SizeFacts DEF ListType
<1>2. n = (c - a) % M
  BY DEF Gone
<1>3. CyclicIndex(l, i) = (a + i) % M /\ CyclicIndex(m, i - n) = (c + (i - n)) % M
  BY <1>1 DEF CyclicIndex
<1>. HIDE DEF M, a, c, n
<1>4. CASE c >= a
  <2>1. n = c - a
    BY <1>1, <1>2, <1>4
  <2>2. c + (i - n) = a + i
    BY <1>1, <2>1
  <2>. QED  BY <1>3, <2>2 DEF n
<1>5. CASE c < a
  <2>1. n = c - a + M
    BY <1>1, <1>2, <1>5
  <2>2. c + (i - n) = a + i - M
    BY <1>1, <2>1
  <2>3. (a + i - M) % M = (a + i) % M
    <3>1. CASE a + i < M
      <4>1. (a + i - M) % M = a + i
        BY <1>1, <3>1
      <4>2. (a + i) % M = a + i
        BY <1>1, <3>1
      <4>. QED  BY <4>1, <4>2
    <3>2. CASE a + i >= M
      <4>1. (a + i - M) % M = a + i - M
        BY <1>1, <3>2
      <4>2. (a + i) % M = a + i - M
        BY <1>1, <3>2
      <4>. QED  BY <4>1, <4>2
    <3>. QED  BY <1>1, <3>1, <3>2
  <2>. QED  BY <1>3, <2>2, <2>3 DEF n
<1>. QED  BY <1>1, <1>4, <1>5

\* Output that may trim is an operation with its outcome, on a tame screen.
LEMMA OutputOutcome ==
  ASSUME Prints \/ Edits \/ SwitchesOn
  PROVE  (tame \/ lines' = lines) /\ \E synced \in BOOLEAN : Outcome(synced)
<1>1. ASSUME NEW P, Outcome(P)
      PROVE  \E synced \in BOOLEAN : Outcome(synced)
  <2>1. CASE P
    <3>1. Outcome(TRUE)
      BY <1>1, <2>1 DEF Outcome
    <3>. QED  BY <3>1
  <2>2. CASE ~ P
    <3>1. Outcome(FALSE)
      BY <1>1, <2>2 DEF Outcome
    <3>. QED  BY <3>1
  <2>. QED  BY <2>1, <2>2
<1>2. CASE Prints
  BY <1>1, <1>2 DEF Prints, lineFeed, addChar, carriageReturn, Output, Parsing
<1>3. CASE Edits
  <2>1. Outcome(FALSE)
    BY <1>3 DEF Edits
  <2>2. CASE Erasing
    <3>1. CASE eraseAboveLoops \/ editFails
      BY <2>1, <3>1 DEF eraseAboveLoops, editFails, Throw, lines
    <3>2. CASE eraseRight \/ eraseLeft \/ eraseLine \/ eraseBelow \/ eraseAbove
               \/ eraseAll \/ editCells
      BY <2>1, <3>2 DEF eraseRight, eraseLeft, eraseLine, eraseBelow, eraseAbove,
                        eraseAll, editCells, Output, Parsing
    <3>. QED  BY <2>2, <3>1, <3>2 DEF Erasing
  <2>3. CASE Lines
    BY <2>1, <2>3 DEF Lines, insertLines, deleteLines, scrollUp, scrollDown, reverseIndex,
                      Output, Parsing
  <2>4. CASE Cursor
    BY <2>1, <2>4 DEF Cursor, CursorMove, cursorUp, cursorDown, cursorForward, cursorBackward,
                  cursorNextLine, cursorPrecedingLine, cursorCharAbsolute, charPosAbsolute,
                  linePosAbsolute, HVPosition, cursorPosition, MoveTo, Output, Parsing,
                  backspace, tab, repeatPrecedingCharacter, saveCursor, restoreCursor
  <2>5. CASE \E m, n \in Param : setScrollRegion(m, n)
    BY <2>1, <2>5 DEF setScrollRegion, Output, Parsing
  <2>. QED  BY <1>3, <2>2, <2>3, <2>4, <2>5 DEF Edits
<1>4. CASE SwitchesOn
  BY <1>1, <1>4 DEF SwitchesOn, eraseScrollback, activateAltBuffer, softReset, set132Columns,
                    reset132Columns, setWraparound, Output, Parsing
<1>. QED  BY <1>2, <1>3, <1>4

\* The steps of the user, and those of output without one, leave the lines alone.
LEMMA OthersKeepLines ==
  ASSUME UserInv, ViewInList, [UserNext]_allVars, ~ (Prints \/ Edits \/ SwitchesOn)
  PROVE  lines' = lines \/ ~ listening'
<1>1. buffers \in [{"normal", "alt"} -> BufferType]
  BY DEF UserInv, IInv, TypeOK
<1>2. ASSUME UNCHANGED vars
      PROVE  lines' = lines
  BY <1>2 DEF vars, lines
<1>3. ASSUME tame, NEW disp \in Int, Scrolled(disp)
      PROVE  lines' = lines
  BY <1>3, ScrolledFacts DEF UserInv
<1>4. CASE Returns
  <2>1. CASE activateNormalBuffer
    <3>1. PICK b : buffers' = [buffers EXCEPT !["alt"] = b]
      BY <2>1 DEF activateNormalBuffer
    <3>2. buffers'["normal"] = buffers["normal"]
      BY <1>1, <3>1
    <3>. QED  BY <3>2 DEF lines
  <2>2. CASE listening' = FALSE
    BY <2>2
  <2>. QED  BY <1>4, <2>1, <2>2 DEF Returns
<1>5. CASE deviceStatus \/ sendDeviceAttributes \/ \E mode \in MouseModes : setMouseMode(mode)
  BY <1>2, <1>5 DEF deviceStatus, sendDeviceAttributes, answer, setMouseMode
<1>6. CASE tame /\ UserStep
  <2>1. CASE MouseDown \/ mouseUp \/ selectAll \/ \E towards \in ScrollAmounts : mouseMove(towards)
    BY <1>2, <2>1 DEF MouseDown, incrementalClick, tripleClick, singleClick, doubleClick,
                      Press, mouseUp, selectAll, mouseMove
  <2>2. CASE \/ reportPress \/ reportWheel \/ reportMove \/ reportRelease
             \/ \E top \in 0 .. Scrollback : wheel(top)
    BY <1>2, <2>2 DEF reportPress, reportWheel, reportMove, reportRelease, sendEvent, wheel
  <2>3. CASE dragScroll
    <3>1. amount \in Int /\ Scrolled(amount)
      BY <2>3 DEF dragScroll, UserInv, UserTypes
    <3>. QED  BY <1>3, <1>6, <3>1
  <2>4. buffer \in BufferType /\ rows \in Int /\ view \in Int
    BY <1>6, ActiveBuffer, SizeFacts DEF UserInv, UserTypes, Heights
  <2>5. buffer.ybase \in Int /\ buffer.ydisp \in Int
    BY <2>4, SizeFacts DEF BufferType
  <2>6. CASE onScroll
    <3>1. view - buffer.ydisp \in Int /\ Scrolled(view - buffer.ydisp)
      BY <2>4, <2>5, <2>6 DEF onScroll
    <3>. QED  BY <1>3, <1>6, <3>1
  <2>7. CASE key \/ paste \/ send
    <3>1. IF buffer.ybase # buffer.ydisp THEN Scrolled(buffer.ybase - buffer.ydisp)
                                         ELSE UNCHANGED vars
      BY <2>7 DEF key, paste, typed, send, handler
    <3>2. buffer.ybase - buffer.ydisp \in Int
      BY <2>5
    <3>. QED  BY <1>2, <1>3, <1>6, <3>1, <3>2
  <2>8. ASSUME NEW up \in BOOLEAN, pageKey(up)
        PROVE  lines' = lines
    <3>1. PICK disp \in Int : Scrolled(disp)
      BY <2>4, <2>8 DEF pageKey
    <3>. QED  BY <1>3, <1>6, <3>1
  <2>. QED  BY <1>6, <2>1, <2>2, <2>3, <2>6, <2>7, <2>8 DEF UserStep
<1>7. CASE UNCHANGED allVars
  BY <1>2, <1>7 DEF allVars
<1>. QED  BY <1>4, <1>5, <1>6, <1>7 DEF UserNext, ProgramStep

\* One step, of SelectionKeepsLines.
LinesKept ==
    (listening /\ listening' /\ lines' # lines /\ active = "normal") =>
       /\ (selection.end # Null /\ selection'.end = Null) => selection.end < Trims
       /\ (selection.end # Null /\ selection'.end # Null) =>
             Slot(selection.end) = CyclicIndex(lines', selection'.end)
       /\ (selection.start # Null /\ selection'.start # Null) =>
             \/ Slot(selection.start) = CyclicIndex(lines', selection'.start)
             \/ selection.start < Trims /\ selection'.start = 0

LEMMA NextLinesKept ==
  ASSUME UserInv, ViewInList, UserInv', [UserNext]_allVars
  PROVE  LinesKept
<1>. SUFFICES ASSUME listening, listening', lines' # lines, active = "normal"
              PROVE  LinesKept
  BY DEF LinesKept
<1>. DEFINE n == Gone(lines', lines)
<1>1. Prints \/ Edits \/ SwitchesOn
  BY OthersKeepLines
<1>2. tame /\ selection' = onTrim(selection, n) /\ Trims = n
  <2>1. Trims = n
    BY DEF Trims, Gone
  <2>2. tame /\ \E synced \in BOOLEAN : Outcome(synced)
    BY <1>1, OutputOutcome
  <2>. QED  BY <2>1, <2>2 DEF Outcome
<1>3. lines \in ListType /\ lines' \in ListType
  BY NormalLines, NextNormalLines DEF UserInv
<1>4. n \in Nat
  BY <1>3, GoneType
<1>5. /\ selection \in SelectionType
      /\ selection.start \in OrNull(0 .. lines.length - 1)
      /\ selection.end \in OrNull(0 .. lines.length)
      /\ lines.length \in 0 .. Scrollback /\ Scrollback \in Nat
  BY <1>2, <1>3, SizeFacts DEF UserInv, UserTypes, SelectionBounds, InList, ListType
<1>6. \A i \in 0 .. Scrollback : Slot(i) = CyclicIndex(lines', i - n)
  BY <1>3, SlotMoves DEF Slot
<1>. HIDE DEF n
<1>7. /\ selection.end # Null /\ selection'.end = Null => selection.end < n
      /\ selection.end # Null /\ selection'.end # Null => selection'.end = selection.end - n
      /\ selection.start # Null /\ selection'.start # Null =>
            \/ selection'.start = selection.start - n
            \/ selection.start < n /\ selection'.start = 0
  BY <1>2, <1>4, <1>5, OnTrimFacts
<1>8. /\ selection.end # Null => selection.end \in 0 .. Scrollback
      /\ selection.start # Null => selection.start \in 0 .. Scrollback
  BY <1>5 DEF OrNull
<1>9. /\ selection.end # Null /\ selection'.end # Null =>
            Slot(selection.end) = CyclicIndex(lines', selection'.end)
      /\ selection.start # Null /\ selection'.start # Null =>
            \/ Slot(selection.start) = CyclicIndex(lines', selection'.start)
            \/ selection.start < n /\ selection'.start = 0
  BY <1>6, <1>7, <1>8
<1>. QED  BY <1>2, <1>7, <1>9 DEF LinesKept

\* Output that trims the list leaves the selected lines selected, wherever the
\* selection is and however many lines a step takes: what leaves the list is
\* counted once, by the trim events, and onTrim subtracts it from both ends.
THEOREM TrimsMoveSelection == UserSpec => SelectionKeepsLines
<1>1. UserInv /\ ViewInList /\ UserInv' /\ [UserNext]_allVars => [LinesKept]_allVars
  BY NextLinesKept
<1>2. [][LinesKept]_allVars => SelectionKeepsLines
  BY DEF LinesKept, SelectionKeepsLines
<1>. QED  BY <1>1, <1>2, UserSpecInv, PTL DEF UserSpec

-----------------------------------------------------------------------------
(* Who scrolls.                                                            *)

\* A scroll event of the terminal's own is consumed by onScroll only.
LEMMA OwnEventConsumed ==
  ASSUME [UserNext]_allVars, event = "own", event' = "none"
  PROVE  tame /\ onScroll
<1>1. ~ syncScrollArea /\ event' # event
  BY DEF syncScrollArea
<1>2. ~ EmitScroll
  BY <1>1 DEF EmitScroll
<1>3. \A synced : ~ Outcome(synced)
  BY <1>1 DEF Outcome
<1>4. ~ ProgramStep
  BY <1>1, <1>3 DEF ProgramStep, Prints, Edits, SwitchesOn, Returns, deviceStatus,
                    sendDeviceAttributes, answer, setMouseMode
<1>5. ~ UNCHANGED allVars
  BY <1>1 DEF allVars, userVars
<1>6. ~ MouseDown /\ ~ mouseUp /\ ~ selectAll /\ ~ \E towards \in ScrollAmounts : mouseMove(towards)
  BY <1>1 DEF MouseDown, incrementalClick, tripleClick, singleClick, doubleClick,
              Press, mouseUp, selectAll, mouseMove
<1>7. /\ ~ reportPress /\ ~ reportWheel /\ ~ reportMove /\ ~ reportRelease
      /\ ~ \E top \in 0 .. Scrollback : wheel(top)
  BY <1>1 DEF reportPress, reportWheel, reportMove, reportRelease, sendEvent, wheel
<1>8. ~ dragScroll /\ ~ key /\ ~ paste /\ ~ send /\ ~ \E up \in BOOLEAN : pageKey(up)
  BY <1>2 DEF dragScroll, key, paste, typed, send, handler, pageKey
<1>. QED  BY <1>4, <1>5, <1>6, <1>7, <1>8 DEF UserNext, UserStep

\* One step, of OwnScrollKeepsFollowing.
FollowingKept ==
    (event = "own" /\ event' = "none" /\ ~ userScrolling)
       => /\ ~ userScrolling'
          /\ buffer.ydisp = buffer.ybase => buffer'.ydisp = buffer'.ybase

LEMMA NextFollowingKept ==
  ASSUME UserInv, ViewInList, [UserNext]_allVars
  PROVE  FollowingKept
<1>. SUFFICES ASSUME event = "own", event' = "none", ~ userScrolling
              PROVE  FollowingKept
  BY DEF FollowingKept
<1>. DEFINE disp == view - buffer.ydisp
<1>1. tame /\ onScroll
  BY OwnEventConsumed
<1>2. /\ IInv /\ Scrolled(disp) /\ view \in Int /\ view >= buffer.ydisp
      /\ buffer \in BufferType
  BY <1>1, ActiveBuffer DEF onScroll, UserInv, UserTypes, OwnEventIsLow
<1>3. buffer.ydisp \in Int /\ buffer.ybase \in Int
  BY <1>2, SizeFacts DEF BufferType
<1>4. disp \in Int /\ disp >= 0
  BY <1>2, <1>3
<1>. HIDE DEF disp
<1>5. /\ buffer' = [buffer EXCEPT !.ydisp = buffer'.ydisp]
      /\ buffer'.ydisp = AtMost(buffer.ydisp + disp, buffer.ybase)
      /\ ~ userScrolling'
  BY <1>1, <1>2, <1>4, ScrolledFacts
<1>6. buffer'.ybase = buffer.ybase
  BY <1>2, <1>5 DEF BufferType
<1>7. buffer.ydisp = buffer.ybase => buffer'.ydisp = buffer'.ybase
  BY <1>3, <1>4, <1>5, <1>6 DEF AtMost
<1>. QED  BY <1>5, <1>7 DEF FollowingKept

\* The scroll events that the terminal's own changes of scrollTop cause, late and
\* after more output, never make it believe that the user scrolls, and leave a
\* view at the bottom there (syncScrollArea, onScroll, scrollDisp): such an
\* event never asks for a row above the view.
THEOREM OwnScrollsFollow == UserSpec => OwnScrollKeepsFollowing
<1>1. UserInv /\ ViewInList /\ [UserNext]_allVars => [FollowingKept]_allVars
  BY NextFollowingKept
<1>2. [][FollowingKept]_allVars => OwnScrollKeepsFollowing
  BY DEF FollowingKept, OwnScrollKeepsFollowing
<1>. QED  BY <1>1, <1>2, UserSpecInv, PTL DEF UserSpec

=============================================================================
