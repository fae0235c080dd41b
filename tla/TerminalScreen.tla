--------------------------- MODULE TerminalScreen ---------------------------
(***************************************************************************)
(* The screen of the web terminal (src/static/js/terminal/xterm.js): the   *)
(* buffers and their lines, the handlers of InputHandler and Terminal that *)
(* the parser calls for what the program in the container writes, and the  *)
(* user who scrolls.                                                       *)
(*                                                                         *)
(* A buffer keeps its lines in a circular list.  The rows of the screen    *)
(* are the lines from ybase on, the rows that are displayed those from     *)
(* ydisp on; the lines before ybase are the scrollback.                    *)
(*                                                                         *)
(* Abstractions.  The text of a line is the last ink printed on it, or     *)
(* Blank; an operation on some of its cells leaves it or blanks it.  A     *)
(* handler that repeats a step 'param' times is that step, repeated by the *)
(* program.  Tab stops are not kept: a tab moves to some later column.     *)
(* Modes, colours, character sets and titles do not touch the lines.       *)
(***************************************************************************)
EXTENDS CircularList, FiniteSets

CONSTANTS
    Ink,         \* texts a line can have
    Blank,       \* the text of a line without any
    Sizes,       \* the numbers of rows that resize() may ask for
    InitRows,    \* rows and columns the terminal is opened with
    InitCols,
    WideCols,    \* the 132 columns of CSI ? 3 h
    Scrollback,  \* the option scrollback: maxLength of a buffer's list
    MaxParam,    \* bound of the numbers in control sequences
    MaxOut,      \* bound of the lines a view may be before the list's first
    Programs     \* programs, each given by the groups of operations it uses

ASSUME ScreenAssumption ==
    /\ Blank \notin Ink /\ NoLine \notin Ink /\ NoLine # Blank
    /\ InitRows \in Nat \ {0} /\ InitCols \in Nat \ {0}
    /\ WideCols \in Nat /\ WideCols >= InitCols
    /\ Scrollback \in Nat /\ Scrollback > InitRows
    /\ Sizes \subseteq 1 .. Scrollback
    /\ MaxParam \in Nat \ {0} /\ MaxOut \in Nat \ {0}

VARIABLES
    buffers,        \* the normal and the alternate buffer
    active,         \* the one that is shown: Terminal.buffer
    rows, cols,
    savedCols,      \* the columns before CSI ? 3 h, 0 if undefined
    wraparound,     \* wraparoundMode
    userScrolling,
    stopped,        \* a handler has thrown or loops: no output is parsed again
    tame,           \* history: nothing yet of what TameIf excludes
    ops             \* the groups of operations in use, which never change

vars == <<buffers, active, rows, cols, savedCols, wraparound, userScrolling,
          stopped, tame, ops>>

-----------------------------------------------------------------------------
(* Numbers.  cursor.x is NaN after CSI f with one parameter; every sum with *)
(* NaN is NaN and every comparison with it is false.                       *)
NaN == -1
AtLeast(a, b) == IF a > b THEN a ELSE b
AtMost(a, b)  == IF a < b THEN a ELSE b
Plus(x, n)    == IF x = NaN THEN NaN ELSE x + n
Param         == 1 .. MaxParam

\* Bound: columns beyond MaxX are one column, far out on the right.
MaxX == WideCols + 1

Texts == Ink \union {Blank}
BlankLines(n) == [New(Scrollback) EXCEPT
    !.array = [i \in DOMAIN @ |-> IF i < n THEN Blank ELSE @[i]], !.length = n]

\* Buffer.clear, and with lines for n rows fillViewportRows.
NewBuffer(n, r) ==
    [lines |-> BlankLines(n), x |-> 0, y |-> 0, ybase |-> 0, ydisp |-> 0,
     scrollTop |-> 0, scrollBottom |-> r - 1, savedY |-> 0]

buffer == buffers[active]
Row(b) == b.ybase + b.y
HasLine(b) == Get(b.lines, Row(b)) # NoLine

-----------------------------------------------------------------------------
(* Terminal.scroll: one more line below the scroll region, one less at its *)
(* top, which goes into the scrollback if the region starts at row 0.      *)
\* Mutant: the screen stays where it was in the trimmed list.
TrimKeepingBase(b) == IF IsFull(b.lines) THEN [b EXCEPT !.lines = trimStart(@, 1)] ELSE b

TrimIfFull(b) ==
    IF ~ IsFull(b.lines) THEN b
    ELSE [b EXCEPT !.lines = trimStart(@, 1), !.ybase = @ - 1,
                   !.ydisp = IF @ # 0 THEN @ - 1 ELSE @]

\* Mutant: output takes the view to the bottom, whoever has scrolled.
AddBottomAndFollow(b) ==
    LET base == b.ybase + 1
        row  == base + b.scrollBottom
    IN [b EXCEPT !.ybase = base, !.ydisp = base,
                 !.lines = IF row = @.length THEN push(@, Blank)
                                             ELSE insert(@, row, Blank)]

AddBottom(b) ==
    LET base == b.ybase + 1
        row  == base + b.scrollBottom
    IN [b EXCEPT !.ybase = base,
                 !.ydisp = IF userScrolling THEN @ ELSE base,
                 !.lines = IF row = @.length THEN push(@, Blank)
                                             ELSE insert(@, row, Blank)]

RemoveTop(b) ==
    LET base == IF b.ybase # 0 THEN b.ybase - 1 ELSE b.ybase
    IN [b EXCEPT !.ybase = base,
                 !.ydisp = IF b.ybase # 0 /\ ~ userScrolling THEN base ELSE @,
                 !.lines = remove(@, base + b.scrollTop)]

scroll(b) == LET s == AddBottom(TrimIfFull(b))
             IN IF b.scrollTop # 0 THEN RemoveTop(s) ELSE s

(* A scroll in a region below row 0 has lost a line if the list was full   *)
(* and had no scrollback: the screen is as tall as the list.               *)
LosesLine(b) == b.y + 1 > b.scrollBottom /\ b.scrollTop # 0 /\ rows = Scrollback

\* One row down, and a scroll at the bottom of the region.
NextRow(b) == IF b.y + 1 > b.scrollBottom THEN scroll(b) ELSE [b EXCEPT !.y = @ + 1]

PullIn(b) == IF b.x >= cols THEN [b EXCEPT !.x = @ - 1] ELSE b

-----------------------------------------------------------------------------
(* An output operation of the program: it is parsed unless the terminal    *)
(* has stopped, and works on the active buffer.  Bounds: a screen that is  *)
(* no longer tame is followed only to a reset or an exception, and a view  *)
(* that is MaxOut lines out of the list only to the user's next scroll.    *)
Parsing(group) == group \in ops /\ ~ stopped /\ tame /\ buffer.ydisp > -MaxOut

Output(group, b) ==
    /\ Parsing(group)
    /\ buffers' = [buffers EXCEPT ![active] = b]
    /\ UNCHANGED <<active, rows, cols, savedCols, wraparound, userScrolling, stopped, ops>>

(* What IdealScreen says nothing about.  Two sequences have no defined     *)
(* effect: a region whose top is below its bottom, and the cursor restored *)
(* to a row that a smaller screen has not.  The others have one, and the   *)
(* code fails: a list as tall as the screen (a scroll below row 0 and CSI  *)
(* L and M trim the screen's own first line; a resize needs lines that are *)
(* not there); ESC M at the top of a region below row 0 (the list grows)   *)
(* or on row 0 above a region (the cursor leaves the screen); CSI L and M  *)
(* outside of the region, where they should do nothing; and an alternate   *)
(* buffer that still has the region of a screen of another size.           *)
Tame == UNCHANGED tame
TameIf(condition) == tame' = (tame /\ condition)

\* A handler uses a line that is not there: TypeError, up to innerWrite.
Throw(group) ==
    /\ group \in ops
    /\ ~ stopped
    /\ stopped' = TRUE
    /\ UNCHANGED <<buffers, active, rows, cols, savedCols, wraparound, userScrolling, tame, ops>>

(* addChar.  A character of width 0 joins the cell before it.  One that    *)
(* does not fit goes to the next row, or, without wraparound, into the     *)
(* columns beyond the last.                                                *)
Wraps(b, w) == b.x # NaN /\ b.x + w - 1 >= cols

Written(b, ink, w) ==
    [b EXCEPT !.lines = Set(@, Row(b), ink), !.x = AtMost(Plus(@, w), MaxX)]

addChar(ink, w) ==
    LET b       == buffer
        wrapped == [NextRow(b) EXCEPT !.x = 0]
        at      == IF Wraps(b, w) /\ wraparound THEN wrapped ELSE b
    IN /\ w \in 1 .. 2
       /\ HasLine(at)
       /\ Output("print", IF Wraps(b, w) /\ ~ wraparound /\ w = 2 THEN b
                                                  ELSE Written(at, ink, w))
       /\ TameIf(~ (Wraps(b, w) /\ wraparound /\ LosesLine(b)))

addCharFails(w) ==
    LET b  == buffer
        at == IF Wraps(b, w) /\ wraparound THEN NextRow(b) ELSE b
    IN w \in 1 .. 2 /\ ~ HasLine(at) /\ Throw("print")

(* The handlers of control characters and ESC sequences.                   *)
lineFeed == Output("feed", PullIn(NextRow(buffer))) /\ TameIf(~ LosesLine(buffer))

carriageReturn == Output("feed", [buffer EXCEPT !.x = 0]) /\ Tame

backspace == Output("cursor", [buffer EXCEPT !.x = IF @ > 0 THEN @ - 1 ELSE @]) /\ Tame

(* A tab, forward or backward: to a tab stop before the edge, or the edge. *)
NextStops(x) == IF x = NaN THEN {NaN} ELSE AtMost(x + 1, cols - 1) .. cols - 1
PrevStops(x) == IF x = NaN THEN {NaN} ELSE 0 .. AtMost(AtLeast(x - 1, 0), cols - 1)

tab == /\ \E x \in NextStops(buffer.x) \union PrevStops(buffer.x) :
             Output("cursor", [buffer EXCEPT !.x = x])
       /\ Tame

(* ESC M.  At the top of the region rows - 1 lines from there on move      *)
(* down, and not only those of the region: below row 0 the list grows, and *)
(* the screen is not its end any more.  Above the region the cursor may    *)
(* leave the screen.                                                       *)
reverseIndex ==
    LET b == buffer
        down == shiftElements(b.lines, Row(b), rows - 1)
    IN IF b.y = b.scrollTop
       THEN /\ Output("index", [b EXCEPT !.lines = Set(down, Row(b), Blank)])
            /\ TameIf(b.scrollTop = 0)
       ELSE /\ Output("index", [b EXCEPT !.y = @ - 1])
            /\ TameIf(b.y > 0)

saveCursor == Output("save", [buffer EXCEPT !.savedY = buffer.y]) /\ Tame

(* A cursor that was saved in a larger terminal comes back outside of the  *)
(* screen.  The saved column is not kept: some column, never NaN.          *)
restoreCursor ==
    LET b == buffer
    IN /\ \E x \in 0 .. MaxX : Output("save", [b EXCEPT !.x = x, !.y = b.savedY])
       /\ TameIf(b.savedY \in 0 .. rows - 1)


-----------------------------------------------------------------------------
(* Cursor movements (CSI A to I, Z, `, a, d, e, f): each handler keeps the *)
(* part of the position it computes within the screen, except CHA (CSI G). *)
Clamp(n, size) == AtMost(AtLeast(n, 0), size - 1)
ClampX(x, size) == IF x >= size THEN size - 1 ELSE x

MoveTo(x, y) == Output("cursor", [buffer EXCEPT !.x = x, !.y = y]) /\ Tame

\* Mutant: no check of the screen's top.
cursorUpUnclamped(n)   == MoveTo(buffer.x, buffer.y - n)

cursorUp(n)            == MoveTo(buffer.x, AtLeast(buffer.y - n, 0))
cursorDown(n)          == MoveTo(PullIn(buffer).x, AtMost(buffer.y + n, rows - 1))
cursorForward(n)       == MoveTo(ClampX(Plus(buffer.x, n), cols), buffer.y)
cursorBackward(n)      == MoveTo(IF buffer.x = NaN THEN NaN
                                 ELSE AtLeast(PullIn(buffer).x - n, 0), buffer.y)
cursorNextLine(n)      == MoveTo(0, AtMost(buffer.y + n, rows - 1))
cursorPrecedingLine(n) == MoveTo(0, AtLeast(buffer.y - n, 0))
cursorCharAbsolute(n)  == MoveTo(AtMost(n - 1, MaxX), buffer.y)
charPosAbsolute(n)     == MoveTo(ClampX(n - 1, cols), buffer.y)
linePosAbsolute(n)     == MoveTo(buffer.x, AtMost(n - 1, rows - 1))
cursorPosition(m, n)   == MoveTo(Clamp(n - 1, cols), Clamp(m - 1, rows))
\* HVP with one parameter: params[1] is undefined, and x becomes NaN.
HVPosition(m)          == MoveTo(NaN, AtMost(m - 1, rows - 1))

CursorMove ==
    \/ \E n \in Param : \/ cursorUp(n) \/ cursorDown(n)
                        \/ cursorForward(n) \/ cursorBackward(n)
                        \/ cursorNextLine(n) \/ cursorPrecedingLine(n)
                        \/ cursorCharAbsolute(n) \/ charPosAbsolute(n)
                        \/ linePosAbsolute(n) \/ HVPosition(n)
    \/ \E m, n \in Param : cursorPosition(m, n)

(* DECSTBM.  The bottom is at most the last row; the top is not checked.   *)
setScrollRegion(m, n) ==
    LET top    == m - 1
        bottom == AtMost(n, rows) - 1
    IN /\ Output("region", [buffer EXCEPT !.scrollTop = top, !.scrollBottom = bottom,
                                          !.x = 0, !.y = 0])
       /\ TameIf(top <= bottom)

-----------------------------------------------------------------------------
(* Erasing.  Part of a line is erased: it keeps its text or has none.      *)
Blanked(l, indices) ==
    [l EXCEPT !.array = [s \in DOMAIN @ |->
        IF IndexOf(l, s) \in indices /\ @[s] # NoLine THEN Blank ELSE @[s]]]

EraseRows(b, screenRows) ==
    LET l    == b.lines
        here == {b.ybase + r : r \in screenRows}
    IN [b EXCEPT !.lines = Blanked(l, {i % l.maxLength :
                                       i \in {j \in here : l.startIndex + j >= 0}})]

\* Whether the row of the cursor may be blank when one side of it is erased.
RightBlank(x) == IF x = 0 THEN {TRUE}
                 ELSE IF x = NaN \/ x >= cols THEN {FALSE} ELSE BOOLEAN
LeftBlank(x)  == IF x = NaN THEN {FALSE}
                 ELSE IF x >= cols - 1 THEN {TRUE} ELSE BOOLEAN
OwnRow(b, blank) == IF blank THEN {b.y} ELSE {}

eraseRight == \E blank \in RightBlank(buffer.x) :
    Output("erase", EraseRows(buffer, OwnRow(buffer, blank))) /\ Tame
eraseLeft == \E blank \in LeftBlank(buffer.x) :
    Output("erase", EraseRows(buffer, OwnRow(buffer, blank))) /\ Tame
eraseLine == Output("erase", EraseRows(buffer, {buffer.y})) /\ Tame

eraseBelow == \E blank \in RightBlank(buffer.x) :
    /\ Output("erase", EraseRows(buffer, OwnRow(buffer, blank)
                                             \union (buffer.y + 1 .. rows - 1)))
    /\ Tame

(* The loop 'while (j--)' over the rows above ends at row 0 only.          *)
eraseAbove == \E blank \in LeftBlank(buffer.x) :
    /\ buffer.y >= 0
    /\ Output("erase", EraseRows(buffer, OwnRow(buffer, blank)
                                             \union (0 .. buffer.y - 1)))
    /\ Tame
eraseAboveLoops == buffer.y < 0 /\ Throw("erase")

eraseAll == Output("erase", EraseRows(buffer, 0 .. rows - 1)) /\ Tame

\* CSI 3 J: the scrollback goes; userScrolling stays as it is.
eraseScrollback ==
    LET b == buffer
        n == b.lines.length - rows
    IN /\ n > 0
       /\ Output("erase", [b EXCEPT !.lines = trimStart(@, n),
                                    !.ybase = AtLeast(@ - n, 0),
                                    !.ydisp = AtLeast(@ - n, 0)])
       /\ Tame

(* insertChars, deleteChars, eraseChars: cells of the cursor's row.        *)
editCells == \E blank \in BOOLEAN :
    /\ HasLine(buffer)
    /\ Output("erase", EraseRows(buffer, OwnRow(buffer, blank)))
    /\ Tame

repeatPrecedingCharacter ==
    /\ HasLine(buffer)
    /\ Output("cursor", [buffer EXCEPT !.x = AtMost(Plus(@, 1), MaxX)])
    /\ Tame

editFails == ~ HasLine(buffer) /\ (Throw("erase") \/ Throw("cursor"))

-----------------------------------------------------------------------------
(* Lines (CSI L, M, S, T).  A full list is trimmed first, and the screen   *)
(* is one line further up in it; so is the view, which leaves the list if  *)
(* it was at its first line.                                               *)
Trimmed(b) == IF IsFull(b.lines)
              THEN [b EXCEPT !.lines = trimStart(@, 1), !.ybase = @ - 1, !.ydisp = @ - 1]
              ELSE b

\* In the region, on a screen that has kept all its lines.
Within(b) == b.y \in b.scrollTop .. b.scrollBottom /\ b.ybase >= 0

\* Mutant: the row below the region is computed before the list is trimmed.
insertLinesStale ==
    LET b == Trimmed(buffer)
        below == buffer.ybase + buffer.scrollBottom + 1
    IN /\ Output("lines", [b EXCEPT !.lines = remove(insert(@, Row(b), Blank), below)])
       /\ TameIf(Within(b))

insertLines ==
    LET b == Trimmed(buffer)
        below == b.ybase + b.scrollBottom + 1
    IN /\ Output("lines", [b EXCEPT !.lines = remove(insert(@, Row(b), Blank), below)])
       /\ TameIf(Within(b))

(* The indices stay those of the list before the trim: a round deletes the *)
(* line below the cursor's, and the blank line comes one row below the     *)
(* region or, beyond the end of the list, into the slot of its first line. *)
(* A round without a trim is CSI M once.                                   *)
deleteLines ==
    LET b     == buffer
        below == b.ybase + b.scrollBottom + 1
        round[n \in 0 .. MaxParam] ==
            IF n = 0 THEN Trimmed(b).lines
                     ELSE remove(insert(round[n - 1], below, Blank), Row(b))
    IN /\ \E n \in IF IsFull(b.lines) THEN Param ELSE {1} :
             Output("lines", [Trimmed(b) EXCEPT !.lines = round[n]])
       /\ TameIf(Within(Trimmed(b)))

scrollUp ==
    LET b == buffer
    IN /\ Output("lines", [b EXCEPT !.lines =
              insert(remove(@, b.ybase + b.scrollTop), b.ybase + b.scrollBottom, Blank)])
       /\ Tame

scrollDown ==
    LET b == buffer
    IN /\ Output("lines", [b EXCEPT !.lines =
              insert(remove(@, b.ybase + b.scrollBottom), b.ybase + b.scrollTop, Blank)])
       /\ Tame

-----------------------------------------------------------------------------
(* Buffer.resize.  The cursor's line is the last one that may leave the    *)
(* screen at the top; lines come back from the scrollback if there are     *)
(* none below the cursor.  A buffer without lines is left as it is.        *)
GrowRow(b0, b, newRows) ==
    IF b.lines.length >= newRows + b.ybase THEN b
    ELSE IF b.ybase > 0 /\ b.lines.length <= Row(b0) + 1
         THEN [b EXCEPT !.ybase = @ - 1, !.ydisp = IF @ > 0 THEN @ - 1 ELSE @]
         ELSE [b EXCEPT !.lines = push(@, Blank)]

ShrinkRow(b, newRows) ==
    IF b.lines.length <= newRows + b.ybase THEN b
    ELSE IF b.lines.length > Row(b) + 1
         THEN [b EXCEPT !.lines = pop(@)]
         ELSE [b EXCEPT !.ybase = @ + 1, !.ydisp = @ + 1]

ResizeRows(b0, newRows) ==
    LET n == IF newRows > rows THEN newRows - rows ELSE rows - newRows
        step[i \in 0 .. n] ==
            IF i = 0 THEN b0
            ELSE IF newRows > rows THEN GrowRow(b0, step[i - 1], newRows)
                                   ELSE ShrinkRow(step[i - 1], newRows)
    IN step[n]

ResizeBuffer(b0, newCols, newRows) ==
    LET b == ResizeRows(b0, newRows)
        added == IF newRows > rows THEN b0.ybase - b.ybase ELSE 0
    IN IF b0.lines.length = 0 THEN b0
       ELSE [b EXCEPT !.y = AtMost(@, newRows - 1) + added,
                      !.x = ClampX(@, newCols),
                      !.scrollTop = 0, !.scrollBottom = newRows - 1]

\* Terminal.resize: nothing to do for the size that it has.
Resize(newCols, newRows) ==
    IF newCols = cols /\ newRows = rows THEN UNCHANGED <<buffers, cols, rows>>
    ELSE /\ buffers' = [n \in DOMAIN buffers |-> ResizeBuffer(buffers[n], newCols, newRows)]
         /\ cols' = newCols /\ rows' = newRows

(* The page asks for another number of rows; nothing stops it.             *)
resize(newRows) ==
    /\ "resize" \in ops /\ tame
    /\ newRows # rows
    /\ Resize(cols, newRows)
    /\ TameIf(\A n \in DOMAIN buffers :
                 buffers[n].lines.length + newRows - rows <= Scrollback)
    /\ UNCHANGED <<active, savedCols, wraparound, userScrolling, stopped, ops>>

\* CSI ? 3 h and l: 132 columns, and back.
set132Columns ==
    /\ Parsing("modes")
    /\ savedCols' = cols
    /\ Resize(WideCols, rows)
    /\ Tame
    /\ UNCHANGED <<active, wraparound, userScrolling, stopped, ops>>

reset132Columns ==
    /\ Parsing("modes")
    /\ savedCols' = 0
    /\ IF cols = WideCols /\ savedCols # 0 THEN Resize(savedCols, rows)
                                           ELSE UNCHANGED <<buffers, cols, rows>>
    /\ Tame
    /\ UNCHANGED <<active, wraparound, userScrolling, stopped, ops>>

setWraparound(on) ==
    /\ Parsing("modes")
    /\ wraparound' = on
    /\ UNCHANGED <<buffers, active, rows, cols, savedCols, userScrolling, stopped, tame, ops>>

(* CSI ? 47, 1047, 1049.  The alternate buffer gets lines when it is shown *)
(* and loses them when it is left; the cursor is that of each buffer.      *)
activateAltBuffer ==
    /\ Parsing("alt")
    /\ active' = "alt"
    /\ buffers' = [buffers EXCEPT !["alt"].lines =
                      IF @.length = 0 THEN BlankLines(rows) ELSE @]
    /\ TameIf(active = "alt" \/ buffers["alt"].scrollBottom = rows - 1)
    /\ UNCHANGED <<rows, cols, savedCols, wraparound, userScrolling, stopped, ops>>

activateNormalBuffer ==
    /\ Parsing("alt")
    /\ active' = "normal"
    /\ buffers' = [buffers EXCEPT !["alt"] =
                      [NewBuffer(0, rows) EXCEPT !.savedY = buffers["alt"].savedY]]
    /\ Tame
    /\ UNCHANGED <<rows, cols, savedCols, wraparound, userScrolling, stopped, ops>>

\* CSI ! p
softReset ==
    /\ Parsing("reset")
    /\ wraparound' = TRUE
    /\ buffers' = [buffers EXCEPT ![active].scrollTop = 0, ![active].x = 0,
                                  ![active].y = 0, ![active].scrollBottom = rows - 1]
    /\ UNCHANGED <<active, rows, cols, savedCols, userScrolling, stopped, tame, ops>>

FreshBuffers == [normal |-> NewBuffer(rows, rows), alt |-> NewBuffer(0, rows)]

\* ESC c: the constructor again.
reset ==
    /\ "reset" \in ops /\ ~ stopped
    /\ buffers' = FreshBuffers
    /\ active' = "normal"
    /\ wraparound' = TRUE
    /\ userScrolling' = FALSE
    /\ tame' = TRUE
    /\ UNCHANGED <<rows, cols, savedCols, stopped, ops>>

-----------------------------------------------------------------------------
(* The user scrolls (scrollDisp): by some rows, a page, to either end, or  *)
(* to the bottom because of a key (Terminal.handler).                      *)
scrollDisp(disp) ==
    LET b == buffer
    IN /\ "user" \in ops /\ tame
       /\ ~ (disp < 0 /\ b.ydisp = 0)
       /\ userScrolling' = CASE disp < 0 -> TRUE
                             [] disp >= 0 /\ disp + b.ydisp >= b.ybase -> FALSE
                             [] OTHER -> userScrolling
       /\ buffers' = [buffers EXCEPT ![active].ydisp =
                         AtLeast(AtMost(b.ydisp + disp, b.ybase), 0)]
       /\ UNCHANGED <<active, rows, cols, savedCols, wraparound, stopped, tame, ops>>

-----------------------------------------------------------------------------
Init ==
    /\ rows = InitRows /\ cols = InitCols /\ savedCols = 0
    /\ buffers = FreshBuffers
    /\ active = "normal"
    /\ wraparound = TRUE /\ userScrolling = FALSE
    /\ stopped = FALSE /\ tame = TRUE
    /\ ops \in Programs

Printing ==
    \/ \E ink \in Ink, w \in 1 .. 2 : addChar(ink, w) \/ addCharFails(w)
    \/ lineFeed \/ carriageReturn

Erasing ==
    \/ eraseRight \/ eraseLeft \/ eraseLine \/ eraseBelow \/ eraseAbove
    \/ eraseAboveLoops \/ eraseAll \/ editCells \/ editFails

Lines == insertLines \/ deleteLines \/ scrollUp \/ scrollDown \/ reverseIndex

Cursor ==
    \/ CursorMove \/ backspace \/ tab \/ repeatPrecedingCharacter
    \/ saveCursor \/ restoreCursor

Modes ==
    \/ set132Columns \/ reset132Columns \/ \E on \in BOOLEAN : setWraparound(on)
    \/ activateAltBuffer \/ activateNormalBuffer
    \/ softReset \/ reset

Program == \/ Printing \/ Erasing \/ eraseScrollback \/ Lines \/ Cursor \/ Modes
           \/ \E m, n \in Param : setScrollRegion(m, n)

User == \/ \E disp \in -Scrollback .. Scrollback : scrollDisp(disp)
        \/ \E newRows \in Sizes : resize(newRows)

Next == Program \/ User

Spec == Init /\ [][Next]_vars

-----------------------------------------------------------------------------
LineOf(b, y) == Get(b.lines, b.ybase + y)

Screen(b) == [text |-> [y \in 0 .. rows - 1 |-> LineOf(b, y)], last |-> rows - 1,
              y |-> b.y, top |-> b.scrollTop, bottom |-> b.scrollBottom]

Ideal == INSTANCE IdealScreen WITH
    shown <- Screen(buffer),
    kept  <- IF active = "alt" THEN Screen(buffers["normal"]) ELSE <<>>,
    onAlt <- active = "alt",
    full  <- IsFull(buffer.lines)

-----------------------------------------------------------------------------
(* The type of every variable; a list is never longer than its array.      *)
ListType == [array : [0 .. Scrollback - 1 -> Texts \union {NoLine}],
             startIndex : 0 .. Scrollback - 1, length : 0 .. Scrollback,
             maxLength : {Scrollback}]

BufferType == [lines : ListType, x : NaN .. MaxX, y : -1 .. Scrollback,
               ybase : -1 .. Scrollback, ydisp : Int,
               scrollTop : 0 .. Scrollback + MaxParam,
               scrollBottom : 0 .. Scrollback, savedY : -1 .. Scrollback]

TypeOK ==
    /\ buffers \in [{"normal", "alt"} -> BufferType]
    /\ active \in {"normal", "alt"}
    /\ rows \in Nat \ {0} /\ cols \in {InitCols, WideCols}
    /\ savedCols \in {0, InitCols, WideCols}
    /\ wraparound \in BOOLEAN /\ userScrolling \in BOOLEAN
    /\ stopped \in BOOLEAN /\ tame \in BOOLEAN
    /\ ops \in Programs

(* While nothing has happened that TameIf excludes: the rows of the screen *)
(* are the last lines of the list (no line below them, none missing), the  *)
(* view is not below them, the cursor is on the screen, and every row of   *)
(* the screen has a line: the arithmetic of ybase, ydisp and trims in      *)
(* scroll, insertLines, deleteLines, Buffer.resize and eraseInDisplay. The *)
(* view may be before the list: CSI L and M on a full list take it there.  *)
ScreenInsideList == tame =>
    /\ buffer.ydisp <= buffer.ybase
    /\ buffer.ybase + rows = buffer.lines.length
    /\ buffer.y \in 0 .. rows - 1
    /\ \A y \in 0 .. rows - 1 : LineOf(buffer, y) \in Texts

(* No handler throws or loops for ever: innerWrite has no handler of       *)
(* exceptions, so one would end the output of the terminal for good.       *)
NeverStops == tame => ~ stopped

(* Output does not move the view of a user who reads the scrollback, and   *)
(* keeps it at the bottom otherwise (userScrolling and ydisp in scroll).   *)
(* It takes the view out of the list only from the first line of a full    *)
(* one, and changes of what the user reads only a line that has become the *)
(* first of a full list: CSI M may blank it.                               *)
InScrollback(b) == {y \in 0 .. rows - 1 : b.ydisp + y < b.ybase}
ViewedLine(b, y) == Get(b.lines, b.ydisp + y)

ViewFollows ==
    [][tame /\ tame' /\ active' = active /\ rows' = rows /\ buffer'.lines # buffer.lines
       => /\ (~ userScrolling /\ ~ userScrolling' /\ buffer.ydisp = buffer.ybase)
             => buffer'.ydisp = buffer'.ybase
          /\ (/\ userScrolling /\ userScrolling' /\ buffer'.ybase > 0
              /\ buffer.ydisp > 0 \/ (buffer.ydisp = 0 /\ ~ IsFull(buffer.lines)))
             => \A y \in InScrollback(buffer) :
                    \/ ViewedLine(buffer, y) = ViewedLine(buffer', y)
                    \/ /\ IsFull(buffer.lines) /\ buffer.ydisp + y = 1
                       /\ ViewedLine(buffer', y) = Blank
          /\ (buffer.ydisp >= 0 /\ buffer'.ydisp < 0)
             => buffer.ydisp = 0 /\ IsFull(buffer.lines)]_vars

(* A terminal with a circular list, a scrollback and trims shows what a    *)
(* plain screen of rows would show, through scrolls in regions, line       *)
(* insertions, resizes and the alternate buffer. Where it does not, there  *)
(* is a step of IdealScreen that says what it shows (CSI M on a full list, *)
(* ESC M on row 0 of a region) or tame has become FALSE (see TameIf).      *)
ImplementsIdealScreen == Ideal!Spec

=============================================================================
