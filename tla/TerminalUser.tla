---------------------------- MODULE TerminalUser ----------------------------
(***************************************************************************)
(* The user at the web terminal: the mouse selects lines of the buffer     *)
(* (SelectionManager, SelectionModel), the browser scrolls the viewport    *)
(* (Viewport), keys and pasted text go to the container, and all of it     *)
(* happens between the operations of TerminalScreen, which the program in  *)
(* the container causes.  The page never resizes the terminal.             *)
(*                                                                         *)
(* A position is its row: columns only decide whether a selection within   *)
(* one row is empty, which is left open.  'view' is the scrollTop of the   *)
(* viewport's element in rows; the browser reports a change of it later,   *)
(* by one scroll event.                                                    *)
(***************************************************************************)
EXTENDS TerminalScreen

CONSTANTS
    Null,
    OnMac,       \* Browser.isMac: alt selects under an application's mouse mode
    MaxDragStep  \* bound of the rows that one tick of a drag scrolls

ASSUME UserAssumption ==
    /\ Null \notin Int /\ OnMac \in BOOLEAN /\ MaxDragStep \in Nat \ {0}

VARIABLES
    selection,   \* SelectionModel: start, end and isSelectAllActive
    mouseMode,   \* x10Mouse, vt200Mouse, normalMouse, or off: ~ mouseEvents
    reports,     \* listeners of the document while a button is reported
    listening,   \* the trim listener is on the list of the normal buffer
    dragging,    \* the mouse is down: move listener and timer
    amount,      \* _dragScrollAmount
    view, event, \* scrollTop; the scroll event to come and who caused it
    replies      \* Terminal.queue holds answers that a timer will send

userVars == <<selection, mouseMode, reports, listening, dragging, amount, view, event, replies>>
allVars == <<vars, userVars>>
mouse == <<mouseMode, reports>>

\* The selection's _enabled: no mouse mode of the application.
enabled == mouseMode = "off"

-----------------------------------------------------------------------------
MouseModes == {"off", "x10", "vt200", "normal"}

NoSelection == [start |-> Null, end |-> Null, all |-> FALSE]

\* SelectionManager._buffer: it stays on the normal list on the alternate screen.
lines == buffers["normal"].lines

Complete == selection.start # Null /\ selection.end # Null
finalSelectionStart ==
    IF selection.all THEN 0
    ELSE IF Complete THEN AtMost(selection.start, selection.end)
    ELSE selection.start
finalSelectionEnd ==
    IF selection.all THEN buffer.ybase + rows - 1
    ELSE IF Complete THEN AtLeast(selection.start, selection.end)
    ELSE selection.start

\* hasSelection: a selection within one row may be empty.
hasSelection ==
    IF finalSelectionStart = Null THEN {FALSE}
    ELSE IF finalSelectionStart # finalSelectionEnd THEN {TRUE} ELSE BOOLEAN

\* What copy and the right mouse button take: one text per selected line.
selectionText == [i \in finalSelectionStart .. finalSelectionEnd |-> Get(lines, i)]

(* onTrim: the selection moves with its lines and ends with its last one.  *)
onTrim(s, n) ==
    LET start == IF s.start = Null THEN Null ELSE s.start - n
        end   == IF s.end = Null THEN Null ELSE s.end - n
    IN IF end # Null /\ end < 0 THEN NoSelection
       ELSE [s EXCEPT !.start = IF start = Null THEN Null ELSE AtLeast(start, 0),
                      !.end = end]

\* Mutant: one event for all the lines that a trim takes.
OneTrim == AtMost((lines'.startIndex - lines.startIndex) % Scrollback, 1)

Trims == (lines'.startIndex - lines.startIndex) % Scrollback

(* syncScrollArea, called on the events 'scroll' and 'resize' and by the   *)
(* handlers of some modes.                                                 *)
\* Mutant: no new scroll position while a scroll event is under way.
syncScrollAreaOnce ==
    LET disp == buffers'[active'].ydisp
    IN IF view = disp \/ event # "none" THEN UNCHANGED <<view, event>>
                                         ELSE view' = disp /\ event' = "own"

syncScrollArea ==
    LET disp == buffers'[active'].ydisp
    IN IF view = disp THEN UNCHANGED <<view, event>>
                      ELSE view' = disp /\ event' = "own"

-----------------------------------------------------------------------------
(* The program's output, with what it does to the selection and the view.  *)
Outcome(synced) ==
    /\ selection' = IF listening THEN onTrim(selection, Trims) ELSE selection
    /\ IF synced THEN syncScrollArea ELSE UNCHANGED <<view, event>>
    /\ UNCHANGED <<mouse, listening, dragging, amount, replies>>

AtBottom == buffer.y + 1 > buffer.scrollBottom

Prints ==
    \/ lineFeed /\ Outcome(AtBottom)
    \/ \E ink \in Ink, w \in 1 .. 2 :
          addChar(ink, w) /\ Outcome(AtBottom /\ wraparound /\ Wraps(buffer, w))
    \/ carriageReturn /\ Outcome(FALSE)

Edits == (Erasing \/ Lines \/ Cursor \/ \E m, n \in Param : setScrollRegion(m, n))
         /\ Outcome(FALSE)

SwitchesOn ==
    \/ (eraseScrollback \/ activateAltBuffer \/ softReset) /\ Outcome(TRUE)
    \/ (set132Columns \/ reset132Columns) /\ Outcome(cols' # cols)
    \/ \E on \in BOOLEAN : setWraparound(on) /\ Outcome(FALSE)
    \/ Parsing("keypad") /\ UNCHANGED vars /\ Outcome(TRUE)

\* setBuffer clears the selection; the new list of a reset has no listener.
\* Mutant: the selection stays when the buffer changes.
ReturnsWithSelection ==
    /\ \/ activateNormalBuffer /\ UNCHANGED <<listening, replies>>
       \/ reset /\ listening' = FALSE /\ replies' = FALSE
    /\ syncScrollArea
    /\ UNCHANGED <<selection, dragging, mouse, amount>>

Returns ==
    /\ \/ activateNormalBuffer /\ UNCHANGED <<listening, replies>>
       \/ reset /\ listening' = FALSE /\ replies' = FALSE
    /\ selection' = NoSelection /\ dragging' = FALSE
    /\ syncScrollArea
    /\ UNCHANGED <<mouse, amount>>

\* CSI ? 9, 1000, 1002 and 1003, h and l.
setMouseMode(mode) ==
    /\ Parsing("mouse")
    /\ mouseMode' = mode
    /\ IF mode = "off" THEN UNCHANGED <<selection, dragging>>
                       ELSE selection' = NoSelection /\ dragging' = FALSE
    /\ UNCHANGED <<vars, reports, listening, amount, view, event, replies>>

\* An answer to the program, sent 1 ms later.
answer ==
    /\ Parsing("report")
    /\ replies' = TRUE
    /\ UNCHANGED <<vars, selection, mouse, listening, dragging, amount, view, event>>

deviceStatus == answer
sendDeviceAttributes == answer

-----------------------------------------------------------------------------
(* The mouse.  A press is on a row of the screen.  At the right edge the   *)
(* handlers of single and double clicks read a cell that is not there and  *)
(* throw before the drag begins.                                           *)
\* Above the rows counts as the first one, below them as one row more.
ScrollAmounts == -MaxDragStep .. MaxDragStep
getCoords(towards) == CASE towards < 0 -> {0}
                        [] towards > 0 -> {rows}
                        [] OTHER       -> 0 .. rows - 1
Rows(towards) == {buffer.ydisp + row : row \in getCoords(towards)}

getWordAt(row, edge) == IF Get(lines, row) = NoLine THEN "none"
                        ELSE IF edge THEN "throws" ELSE "word"

Press(s, begins) ==
    /\ "user" \in ops
    /\ enabled \/ OnMac
    /\ selection' = s
    /\ amount' = 0
    /\ dragging' = (dragging \/ begins)
    /\ UNCHANGED <<vars, mouse, listening, view, event, replies>>

singleClick(row, edge) == Press([NoSelection EXCEPT !.start = row],
                                ~ (edge /\ Get(lines, row) # NoLine))

incrementalClick(row) == /\ enabled
                         /\ Press(IF selection.start = Null THEN selection
                                  ELSE [selection EXCEPT !.end = row], TRUE)

doubleClick(row, edge) == Press(IF getWordAt(row, edge) = "word"
                                THEN [selection EXCEPT !.start = row] ELSE selection,
                                getWordAt(row, edge) # "throws")

tripleClick(row) == Press([selection EXCEPT !.start = row], TRUE)

MouseDown == \E row \in Rows(0) : \/ incrementalClick(row) \/ tripleClick(row)
                                  \/ \E edge \in BOOLEAN : \/ singleClick(row, edge)
                                                           \/ doubleClick(row, edge)

(* A drag may leave the rows: below them it ends one row after the last.   *)
(* With words or lines the handler can throw once the end is set (the edge *)
(* of the row, or the start was trimmed away) and keep the old amount.     *)
mouseMove(towards) ==
    /\ dragging
    /\ \E row \in Rows(towards) : selection' = [selection EXCEPT !.end = row]
    /\ amount' \in {towards, amount}
    /\ UNCHANGED <<vars, mouse, listening, dragging, view, event, replies>>

mouseUp == /\ dragging /\ dragging' = FALSE
           /\ UNCHANGED <<vars, selection, mouse, listening, amount, view, event, replies>>

\* scrollDisp returns early at the top and does not emit if nothing moves.
Scrolled(disp) == IF disp < 0 /\ buffer.ydisp = 0 THEN UNCHANGED vars ELSE scrollDisp(disp)
EmitScroll == IF buffers' # buffers THEN syncScrollArea ELSE UNCHANGED <<view, event>>

dragScroll ==
    /\ dragging /\ amount # 0
    /\ Scrolled(amount) /\ EmitScroll
    /\ LET disp == buffers'[active].ydisp
       IN selection' = [selection EXCEPT !.end = IF amount > 0 THEN disp + rows ELSE disp]
    /\ UNCHANGED <<mouse, listening, dragging, amount, replies>>

selectAll == /\ OnMac /\ "user" \in ops
             /\ selection' = [selection EXCEPT !.all = TRUE]
             /\ UNCHANGED <<vars, mouse, listening, dragging, amount, view, event, replies>>

-----------------------------------------------------------------------------
(* bindMouse: while the program asks for them, the mouse's events go to it *)
(* as text (sendEvent).  A press adds listeners to the document; the one   *)
(* for moves is removed by the release only if the mode still wants moves. *)
sendEvent(listeners) ==
    /\ replies' = TRUE /\ reports' = listeners
    /\ UNCHANGED <<vars, selection, mouseMode, listening, dragging, amount, view, event>>

reportPress ==
    /\ "user" \in ops /\ ~ enabled
    /\ sendEvent(IF mouseMode = "normal" THEN {"mousemove", "mouseup"} ELSE reports)

reportWheel == "user" \in ops /\ mouseMode \in {"vt200", "normal"} /\ sendEvent(reports)

reportMove == "mousemove" \in reports /\ sendEvent(reports)

reportRelease ==
    /\ "mouseup" \in reports
    /\ sendEvent(IF mouseMode = "normal" THEN {} ELSE reports \ {"mouseup"})

-----------------------------------------------------------------------------
(* The wheel or the scroll bar moves the viewport's element; its scroll    *)
(* event, later, moves the buffer by the difference and emits nothing.     *)
wheel(top) ==
    /\ "user" \in ops /\ enabled
    /\ top \in 0 .. buffer.ybase /\ top # view
    /\ view' = top /\ event' = "user"
    /\ UNCHANGED <<vars, selection, mouse, listening, dragging, amount, replies>>

onScroll ==
    /\ event # "none"
    /\ Scrolled(view - buffer.ydisp)
    /\ event' = "none"
    /\ UNCHANGED <<selection, mouse, listening, dragging, amount, view, replies>>

(* Terminal.handler: what is typed, pasted or answered goes to the         *)
(* container, ends the selection and brings the view to the bottom.        *)
handler ==
    /\ \E has \in hasSelection :
          IF has THEN selection' = NoSelection /\ dragging' = FALSE
                 ELSE UNCHANGED <<selection, dragging>>
    /\ IF buffer.ybase # buffer.ydisp THEN Scrolled(buffer.ybase - buffer.ydisp)
                                      ELSE UNCHANGED vars
    /\ EmitScroll
    /\ UNCHANGED <<mouse, listening, amount>>

typed == "user" \in ops /\ handler /\ UNCHANGED replies
key   == typed
paste == typed
send  == replies /\ handler /\ replies' = FALSE

\* Shift and page up or down.
pageKey(up) ==
    /\ "user" \in ops
    /\ Scrolled(IF up THEN -(rows - 1) ELSE rows - 1) /\ EmitScroll
    /\ UNCHANGED <<selection, mouse, listening, dragging, amount, replies>>

-----------------------------------------------------------------------------
UserInit ==
    /\ Init
    /\ selection = NoSelection
    /\ mouseMode = "off" /\ reports = {} /\ listening = TRUE
    /\ dragging = FALSE /\ amount = 0
    /\ view = 0 /\ event = "none"
    /\ replies = FALSE

ProgramStep ==
    \/ Prints \/ Edits \/ SwitchesOn \/ Returns
    \/ deviceStatus \/ sendDeviceAttributes
    \/ \E mode \in MouseModes : setMouseMode(mode)

UserStep ==
    \/ MouseDown \/ mouseUp \/ dragScroll \/ selectAll
    \/ \E towards \in ScrollAmounts : mouseMove(towards)
    \/ \E top \in 0 .. Scrollback : wheel(top)
    \/ onScroll \/ key \/ paste \/ send
    \/ reportPress \/ reportWheel \/ reportMove \/ reportRelease
    \/ \E up \in BOOLEAN : pageKey(up)

\* Bounds: as in TerminalScreen, only a reset is followed once not tame; what
\* takes the view out of the list is followed in TerminalScreen alone.
ViewInList == \A n \in {"normal", "alt"} : buffers[n].ydisp >= 0

UserNext == (ProgramStep \/ (tame /\ UserStep)) /\ ViewInList'

UserSpec == UserInit /\ [][UserNext]_allVars

-----------------------------------------------------------------------------
(* On the normal screen, copying reads lines of the list: a selection      *)
(* never starts outside of it, and ends outside by the one row below the   *)
(* screen that a drag can reach (the bounds of getCoords, onTrim and the   *)
(* clears on a change of buffer).  After ESC c nobody listens to trims.    *)
SelectionInsideList ==
    (tame /\ listening /\ active = "normal" /\ finalSelectionStart # Null)
    => /\ finalSelectionStart >= 0
       /\ finalSelectionEnd <= lines.length
       /\ \A i \in DOMAIN selectionText : i < lines.length => selectionText[i] \in Texts

(* Output that trims the list does not change which lines are selected: a  *)
(* selected line stays where it is in the array, the selection starts with *)
(* the first line that is left, and it ends when its end is trimmed (the   *)
(* trim events of CircularList and the two subtractions of onTrim).        *)
Slot(i)  == CyclicIndex(lines, i)

SelectionKeepsLines ==
    [][(listening /\ listening' /\ lines' # lines /\ active = "normal") =>
       /\ (selection.end # Null /\ selection'.end = Null) =>
             \* the end is gone: its slot is not one of the list's any more
             selection.end < Trims
       /\ (selection.end # Null /\ selection'.end # Null) =>
             Slot(selection.end) = CyclicIndex(lines', selection'.end)
       /\ (selection.start # Null /\ selection'.start # Null) =>
             \/ Slot(selection.start) = CyclicIndex(lines', selection'.start)
             \/ selection.start < Trims /\ selection'.start = 0
      ]_allVars

(* A terminal that follows its output goes on to do so until the user      *)
(* scrolls up: the scroll events that its own changes of scrollTop cause   *)
(* arrive late, after more output, and never count as the user's.  The     *)
(* view may be above the bottom without userScrolling, which belongs to    *)
(* the terminal and not to a buffer: scrolling down on the alternate       *)
(* screen clears it for the normal one as well.                            *)
OwnScrollKeepsFollowing ==
    [][(event = "own" /\ event' = "none" /\ ~ userScrolling)
       => /\ ~ userScrolling'
          /\ buffer.ydisp = buffer.ybase => buffer'.ydisp = buffer'.ybase]_allVars

=============================================================================
