---------------------------- MODULE IdealScreen -----------------------------
(***************************************************************************)
(* What TerminalScreen promises: a screen is its rows of text, a cursor    *)
(* row and a scroll region.  There is no list of lines, no scrollback and  *)
(* nothing that fills up, but for one operation: a terminal whose list of  *)
(* lines is full deletes other lines than it should, and DeleteBelow says  *)
(* which.  While 'tame' holds, an operation changes the rows that it names *)
(* and no others; afterwards only a reset says what is on the screen.      *)
(***************************************************************************)
EXTENDS Integers

CONSTANTS Ink, Blank

VARIABLES
    shown,   \* the screen that is displayed
    kept,    \* the normal screen while the alternate one is displayed
    onAlt, tame,
    full     \* the list of lines is full; of no interest except to DeleteBelow

vars == <<shown, kept, onAlt, tame>>

\* A screen whose rows are 0 .. n.
Fresh(n) == [text |-> [r \in 0 .. n |-> Blank], last |-> n,
             y |-> 0, top |-> 0, bottom |-> n]
Nothing == <<>>

Up(s, from, to) ==
    [s EXCEPT !.text = [r \in DOMAIN @ |-> IF r \in from .. to - 1 THEN @[r + 1]
                                           ELSE IF r = to THEN Blank ELSE @[r]]]
Down(s, from, to) ==
    [s EXCEPT !.text = [r \in DOMAIN @ |-> IF r \in from + 1 .. to THEN @[r - 1]
                                           ELSE IF r = from THEN Blank ELSE @[r]]]

NextRow(s) == IF s.y + 1 > s.bottom THEN Up(s, s.top, s.bottom)
                                    ELSE [s EXCEPT !.y = @ + 1]

InRegion(s) == s.y \in s.top .. s.bottom

Keep == UNCHANGED <<kept, onAlt, tame>>

\* A character goes to the cursor's row, or to the next one.
PutText ==
    /\ \E ink \in Ink, s \in {shown, NextRow(shown)} :
          shown' = [s EXCEPT !.text[s.y] = ink]
    /\ Keep

NewLine == shown' = NextRow(shown) /\ Keep

Move == shown'.y \in DOMAIN shown.text /\ shown' = [shown EXCEPT !.y = shown'.y] /\ Keep

SetRegion == /\ shown' = [shown EXCEPT !.top = shown'.top, !.bottom = shown'.bottom, !.y = 0]
             /\ shown'.bottom \in DOMAIN shown.text /\ shown'.top \in 0 .. shown'.bottom
             /\ Keep

\* Erasing leaves a row as it is or blanks it.
Erase == /\ shown' = [shown EXCEPT !.text = shown'.text]
         /\ DOMAIN shown'.text = DOMAIN shown.text
         /\ \A r \in DOMAIN shown.text : shown'.text[r] \in {shown.text[r], Blank}
         /\ Keep

InsertLine == InRegion(shown) /\ shown' = Down(shown, shown.y, shown.bottom) /\ Keep
DeleteLine == InRegion(shown) /\ shown' = Up(shown, shown.y, shown.bottom) /\ Keep
ScrollUp   == shown' = Up(shown, shown.top, shown.bottom) /\ Keep
ScrollDown == shown' = Down(shown, shown.top, shown.bottom) /\ Keep

\* A reverse index on row 0 of a region moves all rows, not those of the region only.
ReverseIndex == /\ shown.y = 0 /\ shown.top = 0
                /\ shown' = Down(shown, 0, shown.last) /\ Keep

(* n lines deleted while the list is full: the cursor's line stays, those  *)
(* below it go, and the row below the region comes with them.  Of a region *)
(* that ends with the screen the last rows show a line that had gone into  *)
(* the scrollback and was to be dropped, and row 0 may be blanked.         *)
Deleted(s, n, filler) ==
    [s EXCEPT !.text = [r \in DOMAIN @ |->
        IF r \in s.y + 1 .. s.bottom + 1
        THEN IF r + n <= s.bottom + 1 /\ r + n <= s.last THEN @[r + n] ELSE filler
        ELSE @[r]]]

DeleteBelow ==
    /\ full /\ InRegion(shown)
    /\ \E n \in 1 .. shown.last + 1 :
         IF shown.bottom < shown.last THEN shown' = Deleted(shown, n, Blank)
         ELSE \E s \in {shown, [shown EXCEPT !.text[0] = Blank]}, line \in Ink \cup {Blank} :
                shown' = Deleted(s, n, line)
    /\ Keep

(* A screen of another size is another part of the same text: the cursor   *)
(* stays on its line, the rows around it stay around it, and rows that     *)
(* were below the screen are blank.                                        *)
Resized(s, t) ==
    LET moved == t.y - s.y
    IN /\ DOMAIN t.text = 0 .. t.last /\ t.y \in DOMAIN t.text
       /\ t.top = 0 /\ t.bottom = t.last
       /\ \A r \in DOMAIN t.text :
             /\ r - moved \in DOMAIN s.text => t.text[r] = s.text[r - moved]
             /\ r - moved > s.last => t.text[r] = Blank

Resize == /\ UNCHANGED <<onAlt, tame>>
          /\ Resized(shown, shown')
          /\ IF onAlt THEN Resized(kept, kept') ELSE UNCHANGED kept

\* The normal screen comes back as it was left.
ToAlt    == /\ ~ onAlt /\ onAlt' = TRUE
            /\ kept' = shown
            /\ shown' = Fresh(shown.last)
            /\ UNCHANGED tame
ToNormal == /\ onAlt /\ onAlt' = FALSE
            /\ shown' = kept
            /\ kept' = Nothing
            /\ UNCHANGED tame

Reset == /\ shown' = Fresh(shown'.last)
         /\ kept' = Nothing /\ onAlt' = FALSE /\ tame' = TRUE

Init == shown = Fresh(shown.last) /\ kept = Nothing /\ onAlt = FALSE /\ tame = TRUE

Next == \/ /\ tame
           /\ \/ PutText \/ NewLine \/ Move \/ SetRegion \/ Erase
              \/ InsertLine \/ DeleteLine \/ DeleteBelow
              \/ ScrollUp \/ ScrollDown \/ ReverseIndex
              \/ Resize \/ ToAlt \/ ToNormal \/ tame' = FALSE
        \/ Reset

Spec == Init /\ [][Next]_vars
=============================================================================
