---------------------------- MODULE CircularList ----------------------------
(***************************************************************************)
(* The circular list that holds the lines of a terminal buffer             *)
(* (utils/CircularList in xterm.js): an array of maxLength slots, the slot *)
(* of the first element and the number of elements.  Slots outside of the  *)
(* list keep what was last written there.                                  *)
(*                                                                         *)
(* A list is a record; an operation of the code is an operator that maps   *)
(* the list before it to the list after it.  The loops over elements are   *)
(* one function: they read only slots that they have not written yet,      *)
(* because no caller inserts into a full list (Terminal.scroll and         *)
(* insertLines trim it first, scrollDown deletes a line first).            *)
(*                                                                         *)
(* The code lets startIndex grow and takes the remainder of every access;  *)
(* here startIndex is kept within the array.  Only an access before the    *)
(* list's first element could tell the two apart.                          *)
(***************************************************************************)
EXTENDS Integers, Sequences

CONSTANT NoLine   \* what a slot holds that was never written: undefined

New(max) == [array |-> [i \in 0 .. max - 1 |-> NoLine],
             startIndex |-> 0, length |-> 0, maxLength |-> max]

CyclicIndex(l, i) == (l.startIndex + i) % l.maxLength

\* JavaScript's remainder of a negative number is negative: no such slot.
Get(l, i) == IF l.startIndex + i < 0 THEN NoLine ELSE l.array[CyclicIndex(l, i)]

Set(l, i, v) == IF l.startIndex + i < 0 THEN l
                ELSE [l EXCEPT !.array[CyclicIndex(l, i)] = v]

IsFull(l) == l.length = l.maxLength

(* The element of the list that slot s holds when the list is read on from *)
(* its first element, past its end: 0 .. maxLength - 1.                    *)
IndexOf(l, s) == (s - l.startIndex) % l.maxLength

\* The slots of the elements in 'to' get those 'by' places before them.
CopyUp(l, to, by) ==
    [l EXCEPT !.array = [s \in DOMAIN @ |->
        LET i == IF IndexOf(l, s) \in to THEN IndexOf(l, s)
                                         ELSE IndexOf(l, s) + l.maxLength
        IN IF i \in to THEN Get(l, i - by) ELSE @[s]]]

\* Mutant: a list that grows beyond its maximum.
pushUnbounded(l, v) == [Set(l, l.length, v) EXCEPT !.length = @ + 1]

push(l, v) ==
    LET written == Set(l, l.length, v)
    IN IF IsFull(l)
       THEN [written EXCEPT !.startIndex = (@ + 1) % l.maxLength]
       ELSE [written EXCEPT !.length = @ + 1]

pop(l) == [l EXCEPT !.length = @ - 1]

trimStart(l, count) ==
    LET n == IF count > l.length THEN l.length ELSE count
    IN [l EXCEPT !.startIndex = (@ + n) % l.maxLength, !.length = @ - n]

\* splice(start, 1) and splice(start, 0, item), the two ways it is called.
remove(l, start) ==
    [CopyUp(l, start .. l.length - 2, -1) EXCEPT !.length = @ - 1]

insert(l, start, item) ==
    LET moved == Set(CopyUp(l, start + 1 .. l.length, 1), start, item)
    IN IF IsFull(l)
       THEN [moved EXCEPT !.startIndex = (@ + 1) % l.maxLength]
       ELSE [moved EXCEPT !.length = @ + 1]

(* shiftElements(start, count, 1): it also grows the list, and trims it    *)
(* when it has grown beyond its maximum.                                   *)
shiftElements(l, start, count) ==
    LET moved  == CopyUp(l, start + 1 .. start + count, 1)
        grown  == start + count + 1
        excess == grown - l.maxLength
    IN IF count <= 0 \/ grown <= l.length THEN IF count <= 0 THEN l ELSE moved
       ELSE IF excess <= 0 THEN [moved EXCEPT !.length = grown]
       ELSE [moved EXCEPT !.length = l.maxLength,
                          !.startIndex = (@ + excess) % l.maxLength]

=============================================================================
