------------------------ MODULE TerminalScreenProofs ------------------------
(***************************************************************************)
(* Proofs about the screen of the web terminal, for every number of rows,  *)
(* columns and lines of scrollback:                                        *)
(*                                                                         *)
(*  - the operations of CircularList, element by element;                  *)
(*  - what each handler does to the rows of the screen, to the view and to *)
(*    the position of both in the list ('Works');                          *)
(*  - the inductive invariant IInv and from it the type invariant, the     *)
(*    two safety invariants, the action property of the view and the       *)
(*    refinement of IdealScreen.                                           *)
(***************************************************************************)
EXTENDS TerminalScreen, FiniteRecursion, TLAPS

-----------------------------------------------------------------------------
(* The circular list: slots and indices.                                   *)
LEMMA SizeFacts == Scrollback \in Nat /\ Scrollback > 1
  BY ScreenAssumption

\* An element has a slot of its own.
LEMMA SlotFacts ==
  ASSUME NEW l \in ListType, NEW i \in 0 .. Scrollback - 1
  PROVE  /\ CyclicIndex(l, i) \in 0 .. Scrollback - 1
         /\ Get(l, i) = l.array[CyclicIndex(l, i)]
         /\ Get(l, i) \in Texts \union {NoLine}
         /\ IndexOf(l, CyclicIndex(l, i)) = i
         /\ \A j \in 0 .. Scrollback - 1 :
               CyclicIndex(l, i) = CyclicIndex(l, j) => i = j
<1>. DEFINE M == Scrollback
            a == l.startIndex
<1>1. M \in Nat /\ M > 1 /\ a \in 0 .. M - 1 /\ l.maxLength = M
  BY SizeFacts DEF ListType
<1>. HIDE DEF M, a
<1>2. \A j \in 0 .. M - 1 : /\ (a + j) % M \in 0 .. M - 1
                            /\ (a + j) % M = IF a + j < M THEN a + j ELSE a + j - M
  BY <1>1
<1>3. \A j \in 0 .. M - 1 : (((a + j) % M) - a) % M = j
  <2>. TAKE j \in 0 .. M - 1
  <2>1. CASE a + j < M
    BY <1>1, <1>2, <2>1
  <2>2. CASE a + j >= M
    <3>1. ((a + j) % M) - a = j - M
      BY <1>1, <1>2, <2>2
    <3>2. (j - M) % M = j
      BY <1>1
    <3>. QED  BY <3>1, <3>2
  <2>. QED  BY <1>1, <2>1, <2>2
<1>4. \A j \in 0 .. M - 1 : CyclicIndex(l, j) = (a + j) % M
  BY <1>1 DEF CyclicIndex, a
<1>5. ~ (a + i < 0) /\ i \in 0 .. M - 1
  BY <1>1 DEF M
<1>6. Get(l, i) = l.array[CyclicIndex(l, i)]
  BY <1>5 DEF Get, a
<1>7. l.array \in [0 .. M - 1 -> Texts \union {NoLine}]
  BY DEF ListType, M
<1>8. \A j \in 0 .. M - 1 : IndexOf(l, CyclicIndex(l, j)) = j
  BY <1>1, <1>3, <1>4 DEF IndexOf, a
<1>. QED  BY <1>2, <1>4, <1>5, <1>6, <1>7, <1>8 DEF M

\* And every slot an element.
LEMMA IndexFacts ==
  ASSUME NEW l \in ListType, NEW s \in 0 .. Scrollback - 1
  PROVE  /\ IndexOf(l, s) \in 0 .. Scrollback - 1
         /\ CyclicIndex(l, IndexOf(l, s)) = s
<1>. DEFINE M == Scrollback
            a == l.startIndex
<1>1. M \in Nat /\ M > 1 /\ a \in 0 .. M - 1 /\ l.maxLength = M /\ s \in 0 .. M - 1
  BY SizeFacts DEF ListType
<1>. HIDE DEF M, a
<1>2. (s - a) % M = IF s >= a THEN s - a ELSE s - a + M
  BY <1>1
<1>3. (s - a) % M \in 0 .. M - 1
  BY <1>1, <1>2
<1>4. (a + ((s - a) % M)) % M = s
  BY <1>1, <1>2
<1>5. IndexOf(l, s) = (s - a) % M
  BY <1>1 DEF IndexOf, a
<1>6. CyclicIndex(l, IndexOf(l, s)) = (a + ((s - a) % M)) % M
  BY <1>1, <1>5 DEF CyclicIndex, a
<1>. QED  BY <1>3, <1>4, <1>5, <1>6 DEF M

\* What an access to any index gives or changes, also outside of the array.
LEMMA GetType ==
  ASSUME NEW l \in ListType, NEW i \in Int
  PROVE  Get(l, i) \in Texts \union {NoLine}
<1>1. (l.startIndex + i) % l.maxLength \in 0 .. Scrollback - 1
  BY SizeFacts DEF ListType
<1>. QED  BY <1>1 DEF Get, CyclicIndex, ListType

LEMMA SetType ==
  ASSUME NEW l \in ListType, NEW i \in Int, NEW v \in Texts \union {NoLine}
  PROVE  Set(l, i, v) \in ListType /\ Set(l, i, v).length = l.length
         /\ Set(l, i, v).startIndex = l.startIndex
  BY DEF Set, ListType

\* What can be read where something was written.
LEMMA SetGet ==
  ASSUME NEW l \in ListType, NEW i \in 0 .. Scrollback - 1, NEW v \in Texts \union {NoLine},
         NEW j \in 0 .. Scrollback - 1
  PROVE  Get(Set(l, i, v), j) = IF j = i THEN v ELSE Get(l, j)
<1>. DEFINE m == Set(l, i, v)
            c == CyclicIndex(l, i)
<1>1. m = [l EXCEPT !.array[c] = v]
  BY SizeFacts DEF Set, ListType
<1>2. m \in ListType /\ m.startIndex = l.startIndex /\ m.maxLength = l.maxLength
  BY SetType DEF ListType
<1>3. c \in 0 .. Scrollback - 1
  BY SlotFacts
<1>4. m.array = [l.array EXCEPT ![c] = v]
  BY <1>1 DEF ListType
<1>5. CyclicIndex(m, j) = CyclicIndex(l, j)
  BY <1>2 DEF CyclicIndex
<1>. HIDE DEF m
<1>6. Get(m, j) = m.array[CyclicIndex(l, j)]
  BY <1>2, <1>5, SlotFacts
<1>7. Get(l, j) = l.array[CyclicIndex(l, j)] /\ CyclicIndex(l, j) \in 0 .. Scrollback - 1
  BY SlotFacts
<1>8. CyclicIndex(l, j) = c <=> i = j
  BY SlotFacts
<1>. HIDE DEF c
<1>9. l.array \in [0 .. Scrollback - 1 -> Texts \union {NoLine}]
  BY DEF ListType
<1>. QED  BY <1>3, <1>4, <1>6, <1>7, <1>8, <1>9 DEF m

LEMMA CopyUpType ==
  ASSUME NEW l \in ListType, NEW to \in SUBSET Int, NEW by \in Int
  PROVE  /\ CopyUp(l, to, by) \in ListType
         /\ CopyUp(l, to, by).length = l.length
         /\ CopyUp(l, to, by).startIndex = l.startIndex
<1>. DEFINE M == Scrollback
            I(s) == IF IndexOf(l, s) \in to THEN IndexOf(l, s) ELSE IndexOf(l, s) + l.maxLength
            A == [s \in DOMAIN l.array |->
                    IF I(s) \in to THEN Get(l, I(s) - by) ELSE l.array[s]]
<1>1. CopyUp(l, to, by) = [l EXCEPT !.array = A]
  BY DEF CopyUp
<1>2. l.array \in [0 .. M - 1 -> Texts \union {NoLine}] /\ l.maxLength = M /\ M \in Nat
  BY SizeFacts DEF ListType
<1>3. \A s \in 0 .. M - 1 : I(s) \in Int
  BY <1>2, IndexFacts
<1>. HIDE DEF I
<1>4. \A s \in 0 .. M - 1 : (IF I(s) \in to THEN Get(l, I(s) - by) ELSE l.array[s])
                            \in Texts \union {NoLine}
  BY <1>2, <1>3, GetType
<1>5. A \in [0 .. M - 1 -> Texts \union {NoLine}]
  BY <1>2, <1>4
<1>. HIDE DEF A
<1>. QED  BY <1>1, <1>5 DEF ListType

\* Within the array, the elements in 'to' are those 'by' places before.
LEMMA CopyUpGet ==
  ASSUME NEW l \in ListType, NEW to \in SUBSET (0 .. Scrollback - 1), NEW by \in Int,
         NEW j \in 0 .. Scrollback - 1
  PROVE  Get(CopyUp(l, to, by), j) = IF j \in to THEN Get(l, j - by) ELSE Get(l, j)
<1>. DEFINE M == Scrollback
            I(s) == IF IndexOf(l, s) \in to THEN IndexOf(l, s) ELSE IndexOf(l, s) + l.maxLength
            A == [s \in DOMAIN l.array |->
                    IF I(s) \in to THEN Get(l, I(s) - by) ELSE l.array[s]]
            m == CopyUp(l, to, by)
            c == CyclicIndex(l, j)
<1>1. m = [l EXCEPT !.array = A]
  BY DEF CopyUp
<1>2. DOMAIN l.array = 0 .. M - 1 /\ l.maxLength = M /\ M \in Nat
  BY SizeFacts DEF ListType
<1>3. m \in ListType /\ m.startIndex = l.startIndex /\ m.maxLength = l.maxLength
  <2>1. to \in SUBSET Int
    OBVIOUS
  <2>. QED  BY <2>1, CopyUpType DEF ListType
<1>4. c \in 0 .. M - 1 /\ IndexOf(l, c) = j /\ Get(l, j) = l.array[c]
  BY SlotFacts
<1>5. CyclicIndex(m, j) = c
  BY <1>3 DEF CyclicIndex
<1>6. m.array = A
  BY <1>1 DEF ListType
<1>. HIDE DEF m
<1>7. Get(m, j) = m.array[c]
  BY <1>3, <1>5, SlotFacts
<1>. HIDE DEF c
<1>8. I(c) = IF j \in to THEN j ELSE j + M
  BY <1>2, <1>4
<1>9. j + M \notin to /\ (I(c) \in to <=> j \in to) /\ (j \in to => I(c) = j)
  BY <1>2, <1>8
<1>. HIDE DEF I
<1>10. A[c] = IF j \in to THEN Get(l, j - by) ELSE l.array[c]
  BY <1>2, <1>4, <1>9
<1>. QED  BY <1>4, <1>6, <1>7, <1>10 DEF m

-----------------------------------------------------------------------------
(* The operations, in terms of length and elements.                        *)
LEMMA PushType ==
  ASSUME NEW l \in ListType, NEW v \in Texts \union {NoLine}
  PROVE  /\ push(l, v) \in ListType
         /\ push(l, v).length = IF IsFull(l) THEN l.length ELSE l.length + 1
<1>. DEFINE w == Set(l, l.length, v)
<1>1. l.length \in 0 .. Scrollback /\ l.maxLength = Scrollback
  BY DEF ListType
<1>2. w \in ListType /\ w.length = l.length /\ w.startIndex = l.startIndex
  BY <1>1, SizeFacts, SetType
<1>. HIDE DEF w
<1>3. push(l, v) = IF l.length = Scrollback
                   THEN [w EXCEPT !.startIndex = (w.startIndex + 1) % Scrollback]
                   ELSE [w EXCEPT !.length = w.length + 1]
  BY <1>1 DEF push, IsFull, w
<1>4. (w.startIndex + 1) % Scrollback \in 0 .. Scrollback - 1
  BY <1>2, SizeFacts DEF ListType
<1>5. l.length # Scrollback => w.length + 1 \in 0 .. Scrollback
  BY <1>1, <1>2, SizeFacts
<1>. QED  BY <1>1, <1>2, <1>3, <1>4, <1>5 DEF ListType, IsFull

LEMMA PushGet ==
  ASSUME NEW l \in ListType, ~ IsFull(l), NEW v \in Texts,
         NEW j \in 0 .. l.length
  PROVE  Get(push(l, v), j) = IF j = l.length THEN v ELSE Get(l, j)
<1>. DEFINE w == Set(l, l.length, v)
<1>1. l.length \in 0 .. Scrollback - 1 /\ j \in 0 .. Scrollback - 1
  BY SizeFacts DEF ListType, IsFull
<1>2. Get(w, j) = IF j = l.length THEN v ELSE Get(l, j)
  BY <1>1, SetGet
<1>3. w \in ListType
  BY <1>1, SetType
<1>. HIDE DEF w
<1>4. push(l, v) = [w EXCEPT !.length = w.length + 1]
  BY DEF push, w
<1>5. Get(push(l, v), j) = Get(w, j)
  BY <1>3, <1>4 DEF Get, CyclicIndex, ListType
<1>. QED  BY <1>2, <1>5

LEMMA PopFacts ==
  ASSUME NEW l \in ListType, l.length > 0
  PROVE  /\ pop(l) \in ListType /\ pop(l).length = l.length - 1
         /\ \A j \in 0 .. Scrollback - 1 : Get(pop(l), j) = Get(l, j)
<1>1. l.length - 1 \in 0 .. Scrollback
  BY SizeFacts DEF ListType
<1>2. pop(l) \in ListType /\ pop(l).length = l.length - 1
  BY <1>1 DEF pop, ListType
<1>3. pop(l).startIndex = l.startIndex /\ pop(l).array = l.array /\ pop(l).maxLength = l.maxLength
  BY DEF pop, ListType
<1>. QED  BY <1>2, <1>3 DEF Get, CyclicIndex

\* After trimStart element j is the one that was n after it.
LEMMA TrimFacts ==
  ASSUME NEW l \in ListType, NEW n \in 0 .. l.length
  PROVE  /\ trimStart(l, n) \in ListType /\ trimStart(l, n).length = l.length - n
         /\ \A j \in 0 .. Scrollback - n - 1 : Get(trimStart(l, n), j) = Get(l, j + n)
<1>. DEFINE M == Scrollback
            a == l.startIndex
            m == trimStart(l, n)
<1>1. /\ M \in Nat /\ M > 1 /\ a \in 0 .. M - 1 /\ l.maxLength = M
      /\ l.length \in 0 .. M /\ n \in 0 .. M /\ n <= l.length
  BY SizeFacts DEF ListType
<1>2. m = [l EXCEPT !.startIndex = (a + n) % M, !.length = l.length - n]
  <2>1. ~ (n > l.length)
    BY <1>1
  <2>2. m = [l EXCEPT !.startIndex = (@ + n) % l.maxLength, !.length = @ - n]
    BY <2>1, Zenon DEF trimStart
  <2>. QED  BY <1>1, <2>2
<1>3. (a + n) % M \in 0 .. M - 1 /\ l.length - n \in 0 .. M
  <2>. HIDE DEF M, a, m
  <2>. QED  BY <1>1
<1>4. /\ m \in ListType /\ m.length = l.length - n /\ m.startIndex = (a + n) % M
      /\ m.array = l.array /\ m.maxLength = M
  BY <1>1, <1>2, <1>3 DEF ListType
<1>. HIDE DEF m
<1>5. ASSUME NEW j \in 0 .. M - n - 1 PROVE Get(m, j) = Get(l, j + n)
  <2>1. j \in 0 .. M - 1 /\ j + n \in 0 .. M - 1
    BY <1>1
  <2>2. (((a + n) % M) + j) % M = (a + (j + n)) % M
    <3>. HIDE DEF M, a
    <3>1. (a + n) % M = IF a + n < M THEN a + n ELSE a + n - M
      BY <1>1
    <3>2. CASE a + n < M
      BY <1>1, <2>1, <3>1, <3>2
    <3>3. CASE a + n >= M
      <4>1. ((a + n) % M) + j = (a + (j + n)) - M
        BY <1>1, <2>1, <3>1, <3>3
      <4>2. (a + (j + n)) - M \in 0 .. M - 1
        BY <1>1, <2>1, <3>3
      <4>. QED  BY <1>1, <2>1, <4>1, <4>2
    <3>. QED  BY <1>1, <3>2, <3>3
  <2>3. Get(m, j) = m.array[CyclicIndex(m, j)] /\ Get(l, j + n) = l.array[CyclicIndex(l, j + n)]
    BY <1>4, <2>1, SlotFacts
  <2>. QED  BY <1>1, <1>4, <2>2, <2>3 DEF CyclicIndex, a
<1>. QED  BY <1>4, <1>5 DEF M, m

\* splice(start, 1): as a type from any place, as elements from within the list.
LEMMA RemoveType ==
  ASSUME NEW l \in ListType, l.length > 0, NEW s \in Int
  PROVE  remove(l, s) \in ListType /\ remove(l, s).length = l.length - 1
<1>. DEFINE to == s .. l.length - 2
            m == CopyUp(l, to, -1)
<1>1. l.length \in 0 .. Scrollback /\ l.length - 1 \in 0 .. Scrollback
  BY SizeFacts DEF ListType
<1>2. to \in SUBSET Int /\ -1 \in Int
  BY <1>1
<1>3. m \in ListType /\ m.length = l.length
  BY <1>2, CopyUpType
<1>4. remove(l, s) = [m EXCEPT !.length = m.length - 1]
  BY DEF remove
<1>. HIDE DEF m
<1>. QED  BY <1>1, <1>3, <1>4 DEF ListType

\* A removed element: those behind it move one place to the front.
LEMMA RemoveGet ==
  ASSUME NEW l \in ListType, l.length > 0, NEW s \in 0 .. l.length - 1,
         NEW j \in 0 .. l.length - 2
  PROVE  Get(remove(l, s), j) = IF j < s THEN Get(l, j) ELSE Get(l, j + 1)
<1>. DEFINE to == s .. l.length - 2
            m == CopyUp(l, to, -1)
<1>1. l.length \in 0 .. Scrollback
  BY DEF ListType
<1>2. to \in SUBSET (0 .. Scrollback - 1) /\ j \in 0 .. Scrollback - 1 /\ -1 \in Int
  BY <1>1, SizeFacts
<1>3. Get(m, j) = IF j \in to THEN Get(l, j - (-1)) ELSE Get(l, j)
  <2>. HIDE DEF to
  <2>1. ASSUME NEW by \in Int
        PROVE  Get(CopyUp(l, to, by), j) = IF j \in to THEN Get(l, j - by) ELSE Get(l, j)
    BY <1>2, CopyUpGet
  <2>. QED  BY <2>1
<1>4. m \in ListType
  <2>1. to \in SUBSET Int
    BY <1>1
  <2>. QED  BY <1>2, <2>1, CopyUpType
<1>5. j \in to <=> ~ (j < s)
  BY <1>1
<1>6. remove(l, s) = [m EXCEPT !.length = m.length - 1]
  BY DEF remove
<1>7. j - (-1) = j + 1
  BY <1>1
<1>. HIDE DEF m, to
<1>8. Get(remove(l, s), j) = Get(m, j)
  BY <1>4, <1>6 DEF Get, CyclicIndex, ListType
<1>. QED  BY <1>3, <1>5, <1>7, <1>8

\* splice(start, 0, item); no caller inserts into a full list.
LEMMA InsertType ==
  ASSUME NEW l \in ListType, ~ IsFull(l), NEW s \in Int, NEW v \in Texts
  PROVE  insert(l, s, v) \in ListType /\ insert(l, s, v).length = l.length + 1
<1>. DEFINE to == s + 1 .. l.length
            c == CopyUp(l, to, 1)
            m == Set(c, s, v)
<1>1. l.length \in 0 .. Scrollback /\ l.length + 1 \in 0 .. Scrollback
  BY SizeFacts DEF ListType, IsFull
<1>2. to \in SUBSET Int /\ 1 \in Int
  BY <1>1
<1>3. c \in ListType /\ c.length = l.length
  BY <1>2, CopyUpType
<1>. HIDE DEF c
<1>4. m \in ListType /\ m.length = l.length
  BY <1>3, SetType
<1>. HIDE DEF m
<1>5. insert(l, s, v) = [m EXCEPT !.length = m.length + 1]
  BY DEF insert, m, c
<1>. QED  BY <1>1, <1>4, <1>5 DEF ListType

\* An inserted element: those from there on move one place back.
LEMMA InsertGet ==
  ASSUME NEW l \in ListType, ~ IsFull(l), NEW s \in 0 .. l.length, NEW v \in Texts,
         NEW j \in 0 .. l.length
  PROVE  Get(insert(l, s, v), j) = IF j < s THEN Get(l, j)
                                   ELSE IF j = s THEN v ELSE Get(l, j - 1)
<1>. DEFINE to == s + 1 .. l.length
            c == CopyUp(l, to, 1)
            m == Set(c, s, v)
<1>1. l.length \in 0 .. Scrollback - 1
  BY SizeFacts DEF ListType, IsFull
<1>2. /\ to \in SUBSET (0 .. Scrollback - 1) /\ 1 \in Int
      /\ j \in 0 .. Scrollback - 1 /\ s \in 0 .. Scrollback - 1
  BY <1>1, SizeFacts
<1>3. Get(c, j) = IF j \in to THEN Get(l, j - 1) ELSE Get(l, j)
  <2>. HIDE DEF to
  <2>1. ASSUME NEW by \in Int
        PROVE  Get(CopyUp(l, to, by), j) = IF j \in to THEN Get(l, j - by) ELSE Get(l, j)
    BY <1>2, CopyUpGet
  <2>. QED  BY <2>1
<1>4. c \in ListType
  <2>1. to \in SUBSET Int
    BY <1>1
  <2>. QED  BY <1>2, <2>1, CopyUpType
<1>5. j \in to <=> j > s
  BY <1>1
<1>. HIDE DEF c, to
<1>6. Get(m, j) = IF j = s THEN v ELSE Get(c, j)
  BY <1>2, <1>4, SetGet
<1>7. m \in ListType
  BY <1>4, <1>2, SetType
<1>. HIDE DEF m
<1>8. insert(l, s, v) = [m EXCEPT !.length = m.length + 1]
  BY DEF insert, m, c, to
<1>9. Get(insert(l, s, v), j) = Get(m, j)
  BY <1>7, <1>8 DEF Get, CyclicIndex, ListType
<1>10. (j < s /\ ~ (j > s) /\ j # s) \/ (j = s) \/ (j > s /\ ~ (j < s) /\ j # s)
  BY <1>1
<1>. QED  BY <1>3, <1>5, <1>6, <1>9, <1>10

LEMMA ShiftType ==
  ASSUME NEW l \in ListType, NEW s \in Int, NEW n \in Nat, s + n + 1 >= 0
  PROVE  shiftElements(l, s, n) \in ListType
<1>. DEFINE to == s + 1 .. s + n
            m == CopyUp(l, to, 1)
            g == s + n + 1
<1>1. to \in SUBSET Int /\ 1 \in Int /\ l.maxLength = Scrollback /\ g \in Nat
  BY DEF ListType
<1>2. m \in ListType
  BY <1>1, CopyUpType
<1>. HIDE DEF m
<1>3. shiftElements(l, s, n) =
         IF n <= 0 \/ g <= l.length THEN IF n <= 0 THEN l ELSE m
         ELSE IF g - Scrollback <= 0 THEN [m EXCEPT !.length = g]
         ELSE [m EXCEPT !.length = Scrollback,
                        !.startIndex = (m.startIndex + (g - Scrollback)) % Scrollback]
  BY <1>1 DEF shiftElements, m, IsFull
<1>4. g - Scrollback <= 0 => g \in 0 .. Scrollback
  BY <1>1, SizeFacts
<1>5. (m.startIndex + (g - Scrollback)) % Scrollback \in 0 .. Scrollback - 1
  BY <1>1, <1>2, SizeFacts DEF ListType
<1>. DEFINE grown == [m EXCEPT !.length = g]
            full == [m EXCEPT !.length = Scrollback,
                              !.startIndex = (m.startIndex + (g - Scrollback)) % Scrollback]
<1>6. g - Scrollback <= 0 => grown \in ListType
  BY <1>2, <1>4 DEF ListType
<1>7. full \in ListType
  <2>1. \A i \in 0 .. Scrollback - 1 : \A k \in 0 .. Scrollback :
           [m EXCEPT !.length = k, !.startIndex = i] \in ListType
    BY <1>2 DEF ListType
  <2>2. Scrollback \in 0 .. Scrollback
    BY SizeFacts
  <2>. HIDE DEF g
  <2>. QED  BY <1>5, <2>1, <2>2
<1>. HIDE DEF g, grown, full
<1>. QED  BY <1>2, <1>3, <1>6, <1>7 DEF grown, full

\* shiftElements within the list copies elements and keeps the length.
LEMMA ShiftGet ==
  ASSUME NEW l \in ListType, NEW s \in Nat, NEW n \in Nat, s + n + 1 <= l.length
  PROVE  /\ shiftElements(l, s, n).length = l.length
         /\ \A j \in 0 .. Scrollback - 1 :
               Get(shiftElements(l, s, n), j) =
                  IF j \in s + 1 .. s + n THEN Get(l, j - 1) ELSE Get(l, j)
<1>. DEFINE to == s + 1 .. s + n
            m == CopyUp(l, to, 1)
<1>1. l.length \in 0 .. Scrollback /\ Scrollback \in Nat
  BY SizeFacts DEF ListType
<1>2. to \in SUBSET (0 .. Scrollback - 1) /\ to \in SUBSET Int /\ 1 \in Int
  BY <1>1
<1>3. \A j \in 0 .. Scrollback - 1 : Get(m, j) = IF j \in to THEN Get(l, j - 1) ELSE Get(l, j)
  BY <1>2, CopyUpGet
<1>4. m.length = l.length
  BY <1>2, CopyUpType
<1>5. CASE n = 0
  <2>1. shiftElements(l, s, n) = l
    BY <1>5 DEF shiftElements
  <2>2. to = {}
    BY <1>5
  <2>. QED  BY <2>1, <2>2
<1>6. CASE n # 0
  <2>1. shiftElements(l, s, n) = m
    BY <1>1, <1>6 DEF shiftElements
  <2>. QED  BY <1>3, <1>4, <2>1
<1>. QED  BY <1>5, <1>6

\* Blanked: the elements with the indices, if there is one.
LEMMA BlankedFacts ==
  ASSUME NEW l \in ListType, NEW X
  PROVE  /\ Blanked(l, X) \in ListType /\ Blanked(l, X).length = l.length
         /\ \A j \in 0 .. Scrollback - 1 :
               Get(Blanked(l, X), j) = IF j \in X /\ Get(l, j) # NoLine THEN Blank ELSE Get(l, j)
<1>. DEFINE M == Scrollback
            A == [s \in DOMAIN l.array |->
                    IF IndexOf(l, s) \in X /\ l.array[s] # NoLine THEN Blank ELSE l.array[s]]
            m == Blanked(l, X)
<1>1. m = [l EXCEPT !.array = A]
  BY DEF Blanked
<1>2. l.array \in [0 .. M - 1 -> Texts \union {NoLine}]
  BY DEF ListType
<1>3. A \in [0 .. M - 1 -> Texts \union {NoLine}]
  BY <1>2 DEF Texts
<1>. HIDE DEF A
<1>4. m \in ListType /\ m.length = l.length /\ m.startIndex = l.startIndex
      /\ m.maxLength = l.maxLength /\ m.array = A
  BY <1>1, <1>3 DEF ListType
<1>. HIDE DEF m
<1>5. ASSUME NEW j \in 0 .. M - 1
      PROVE  Get(m, j) = IF j \in X /\ Get(l, j) # NoLine THEN Blank ELSE Get(l, j)
  <2>. DEFINE c == CyclicIndex(l, j)
  <2>1. c \in 0 .. M - 1 /\ IndexOf(l, c) = j /\ Get(l, j) = l.array[c]
    BY SlotFacts
  <2>2. CyclicIndex(m, j) = c
    BY <1>4 DEF CyclicIndex
  <2>3. Get(m, j) = m.array[c]
    BY <1>4, <2>2, SlotFacts
  <2>. HIDE DEF c
  <2>4. c \in DOMAIN l.array
    BY <1>2, <2>1
  <2>5. A[c] = IF j \in X /\ l.array[c] # NoLine THEN Blank ELSE l.array[c]
    BY <2>1, <2>4 DEF A
  <2>. QED  BY <1>4, <2>1, <2>3, <2>5
<1>. QED  BY <1>4, <1>5 DEF m

\* The lines of a new buffer.
LEMMA BlankLinesFacts ==
  ASSUME NEW n \in 0 .. Scrollback
  PROVE  /\ BlankLines(n) \in ListType /\ BlankLines(n).length = n
         /\ \A j \in 0 .. n - 1 : Get(BlankLines(n), j) = Blank
<1>. DEFINE e == New(Scrollback)
            A == [i \in DOMAIN e.array |-> IF i < n THEN Blank ELSE e.array[i]]
            l == BlankLines(n)
<1>1. e.array = [i \in 0 .. Scrollback - 1 |-> NoLine] /\ e \in ListType /\ e.startIndex = 0
  BY SizeFacts DEF New, ListType
<1>2. l = [e EXCEPT !.array = A, !.length = n]
  BY DEF BlankLines
<1>. HIDE DEF e, l
<1>3. A \in [0 .. Scrollback - 1 -> Texts \union {NoLine}]
  BY <1>1 DEF Texts
<1>. HIDE DEF A
<1>4. /\ l \in ListType /\ l.length = n /\ l.array = A /\ l.startIndex = 0
      /\ l.maxLength = Scrollback
  BY <1>1, <1>2, <1>3 DEF ListType
<1>5. ASSUME NEW j \in 0 .. n - 1 PROVE Get(l, j) = Blank
  <2>1. j \in 0 .. Scrollback - 1 /\ j % Scrollback = j /\ j < n
    BY SizeFacts
  <2>2. A[j] = Blank
    BY <1>1, <2>1 DEF A
  <2>. QED  BY <1>4, <2>1, <2>2 DEF Get, CyclicIndex
<1>. QED  BY <1>4, <1>5 DEF l

-----------------------------------------------------------------------------
(* A buffer whose screen has r rows: they are the last lines of the list,  *)
(* all with a text, the view is not below them, and the cursor and the     *)
(* scroll region are on them.                                              *)
Filled(l) == \A i \in 0 .. l.length - 1 : Get(l, i) \in Texts

Placed(b, r) ==
    /\ b.ybase + r = b.lines.length /\ Filled(b.lines)
    /\ b.ybase >= 0 /\ b.ydisp \in Int /\ b.ydisp <= b.ybase
    /\ b.y \in 0 .. r - 1
    /\ b.scrollTop \in 0 .. b.scrollBottom /\ b.scrollBottom \in 0 .. r - 1
    /\ b.savedY \in 0 .. Scrollback

Heights == 1 .. Scrollback

\* The numbers of such a buffer, for the provers.
LEMMA PlacedNumbers ==
  ASSUME NEW b \in BufferType, NEW r \in Heights, Placed(b, r)
  PROVE  /\ b.lines \in ListType /\ b.lines.length \in 1 .. Scrollback
         /\ b.ybase \in 0 .. Scrollback - r /\ b.ybase + r = b.lines.length
         /\ b.y \in 0 .. r - 1 /\ b.ydisp \in Int /\ b.ydisp <= b.ybase
         /\ b.scrollTop \in 0 .. b.scrollBottom /\ b.scrollBottom \in 0 .. r - 1
         /\ b.savedY \in 0 .. Scrollback /\ b.x \in NaN .. MaxX
         /\ (IsFull(b.lines) <=> b.lines.length = Scrollback)
<1>1. b.lines \in ListType /\ b.lines.length \in 0 .. Scrollback /\ b.lines.maxLength = Scrollback
      /\ b.ybase \in -1 .. Scrollback /\ b.x \in NaN .. MaxX
  BY DEF BufferType, ListType
<1>2. b.ybase >= 0 /\ b.ydisp \in Int /\ b.ydisp <= b.ybase /\ b.ybase + r = b.lines.length
  BY DEF Placed
<1>3. b.ybase \in 0 .. Scrollback - r
  BY <1>1, <1>2, SizeFacts DEF Heights
<1>. QED  BY <1>1, <1>2, <1>3, SizeFacts DEF Heights, IsFull, Placed

\* The same position: what scrolling leaves alone.
SamePlace(c, b) ==
    /\ c.x = b.x /\ c.y = b.y /\ c.savedY = b.savedY
    /\ c.scrollTop = b.scrollTop /\ c.scrollBottom = b.scrollBottom

\* The lines that a full list loses before another one comes.
Lost(b) == IF IsFull(b.lines) THEN 1 ELSE 0

\* A full list loses its first line, and screen and view follow.
LEMMA TrimIfFullFacts ==
  ASSUME NEW b \in BufferType, NEW r \in Heights, Placed(b, r)
  PROVE  LET t == TrimIfFull(b)
         IN /\ t \in BufferType /\ SamePlace(t, b) /\ ~ IsFull(t.lines)
            /\ t.lines \in ListType
            /\ t.lines.length = b.lines.length - Lost(b)
            /\ \A i \in 0 .. t.lines.length - 1 : Get(t.lines, i) = Get(b.lines, i + Lost(b))
            /\ t.ybase = b.ybase - Lost(b)
            /\ t.ydisp = IF b.ydisp = 0 THEN 0 ELSE b.ydisp - Lost(b)
<1>. DEFINE t == TrimIfFull(b)
            l == trimStart(b.lines, 1)
<1>1. CASE ~ IsFull(b.lines)
  <2>1. t = b /\ Lost(b) = 0
    BY <1>1 DEF TrimIfFull, Lost
  <2>2. b.lines.length \in 0 .. Scrollback /\ Scrollback \in Nat /\ b.lines \in ListType
        /\ b.ybase \in Int /\ b.ydisp \in Int
    BY SizeFacts DEF BufferType, ListType
  <2>. HIDE DEF t
  <2>. QED  BY <1>1, <2>1, <2>2 DEF SamePlace, t
<1>2. CASE IsFull(b.lines)
  <2>1. t = [b EXCEPT !.lines = l, !.ybase = @ - 1, !.ydisp = IF @ # 0 THEN @ - 1 ELSE @]
        /\ Lost(b) = 1
    BY <1>2 DEF TrimIfFull, Lost
  <2>2. /\ b.lines \in ListType /\ b.lines.length = Scrollback /\ 1 \in 0 .. b.lines.length
        /\ Scrollback \in Nat /\ Scrollback > 1
        /\ b.ybase \in 0 .. Scrollback /\ b.ydisp \in Int
    BY <1>2, PlacedNumbers, SizeFacts DEF Heights
  <2>3. /\ l \in ListType /\ l.length = Scrollback - 1
        /\ \A j \in 0 .. Scrollback - 1 - 1 : Get(l, j) = Get(b.lines, j + 1)
    BY <2>2, TrimFacts
  <2>. HIDE DEF l
  <2>4. /\ t.lines = l /\ t.ybase = b.ybase - 1 /\ t.ydisp = IF b.ydisp = 0 THEN 0 ELSE b.ydisp - 1
        /\ SamePlace(t, b)
    BY <2>1 DEF SamePlace, BufferType
  <2>5. t \in BufferType
    <3>1. b.ybase - 1 \in -1 .. Scrollback
          /\ (IF b.ydisp # 0 THEN b.ydisp - 1 ELSE b.ydisp) \in Int
      BY <2>2
    <3>. QED  BY <2>1, <2>3, <3>1 DEF BufferType
  <2>6. ~ IsFull(l)
    BY <2>2, <2>3 DEF IsFull, ListType
  <2>. HIDE DEF t
  <2>. QED  BY <2>1, <2>2, <2>3, <2>4, <2>5, <2>6 DEF t
<1>. QED  BY <1>1, <1>2

\* A blank line below the region, in a list that is not full.
LEMMA AddBottomFacts ==
  ASSUME NEW b \in BufferType, NEW r \in Heights, ~ IsFull(b.lines),
         b.ybase + r = b.lines.length, b.scrollBottom \in 0 .. r - 1
  PROVE  LET t   == AddBottom(b)
             row == b.ybase + 1 + b.scrollBottom
         IN /\ SamePlace(t, b) /\ t.lines \in ListType
            /\ t.lines.length = b.lines.length + 1
            /\ row \in 0 .. b.lines.length
            /\ \A i \in 0 .. b.lines.length :
                  Get(t.lines, i) = IF i < row THEN Get(b.lines, i)
                                    ELSE IF i = row THEN Blank ELSE Get(b.lines, i - 1)
            /\ t.ybase = b.ybase + 1
            /\ t.ydisp = IF userScrolling THEN b.ydisp ELSE t.ybase
            /\ t \in BufferType
<1>. DEFINE t   == AddBottom(b)
            row == b.ybase + 1 + b.scrollBottom
            l   == IF row = b.lines.length THEN push(b.lines, Blank)
                                           ELSE insert(b.lines, row, Blank)
            n   == b.lines.length
<1>1. /\ b.lines \in ListType /\ n \in 0 .. Scrollback - 1 /\ Scrollback \in Nat
      /\ b.ybase \in -1 .. Scrollback /\ b.ybase + r = n /\ r \in 1 .. Scrollback
      /\ b.scrollBottom \in 0 .. r - 1 /\ b.ydisp \in Int
  BY SizeFacts DEF BufferType, ListType, IsFull, Heights
<1>2. row \in 0 .. n /\ row \in Int /\ Blank \in Texts
  BY <1>1 DEF Texts
<1>3. t = [b EXCEPT !.ybase = b.ybase + 1,
                    !.ydisp = IF userScrolling THEN @ ELSE b.ybase + 1,
                    !.lines = l]
  BY DEF AddBottom
<1>4. /\ l \in ListType /\ l.length = n + 1
      /\ \A i \in 0 .. n : Get(l, i) = IF i < row THEN Get(b.lines, i)
                                       ELSE IF i = row THEN Blank ELSE Get(b.lines, i - 1)
  <2>. HIDE DEF row
  <2>1. CASE row = n
    <3>1. l = push(b.lines, Blank)
      BY <2>1
    <3>2. \A i \in 0 .. n : i < row \/ i = row
      BY <1>1, <2>1
    <3>3. \A i \in 0 .. n : Get(l, i) = IF i = n THEN Blank ELSE Get(b.lines, i)
      BY <1>1, <1>2, <3>1, PushGet
    <3>4. \A i \in 0 .. n : i < row => i # n
      BY <1>1, <2>1
    <3>5. l \in ListType /\ l.length = n + 1
      BY <1>1, <1>2, <3>1, PushType
    <3>. HIDE DEF l, n
    <3>. QED  BY <2>1, <3>2, <3>3, <3>4, <3>5
  <2>2. CASE row # n
    <3>1. l = insert(b.lines, row, Blank)
      BY <2>2
    <3>. HIDE DEF l
    <3>2. l \in ListType /\ l.length = n + 1
      BY <1>1, <1>2, <3>1, InsertType
    <3>3. \A i \in 0 .. n : Get(l, i) = IF i < row THEN Get(b.lines, i)
                                        ELSE IF i = row THEN Blank ELSE Get(b.lines, i - 1)
      BY <1>1, <1>2, <3>1, InsertGet
    <3>. QED  BY <3>2, <3>3
  <2>. QED  BY <2>1, <2>2
<1>. HIDE DEF l
<1>5. /\ t.lines = l /\ t.ybase = b.ybase + 1 /\ SamePlace(t, b)
      /\ t.ydisp = IF userScrolling THEN b.ydisp ELSE b.ybase + 1
  BY <1>3 DEF SamePlace, BufferType
<1>6. t \in BufferType
  <2>1. b.ybase + 1 \in -1 .. Scrollback
        /\ (IF userScrolling THEN b.ydisp ELSE b.ybase + 1) \in Int
    BY <1>1
  <2>. QED  BY <1>3, <1>4, <2>1 DEF BufferType
<1>. HIDE DEF t, row
<1>. QED  BY <1>2, <1>4, <1>5, <1>6 DEF t, row

\* The line at the top of the region goes, and the base is one less, if it can be.
LEMMA RemoveTopFacts ==
  ASSUME NEW b \in BufferType, b.lines.length > 0, b.ybase \in 0 .. Scrollback
  PROVE  LET t   == RemoveTop(b)
             row == t.ybase + b.scrollTop
         IN /\ SamePlace(t, b) /\ t.lines \in ListType
            /\ t.lines.length = b.lines.length - 1
            /\ row \in 0 .. b.lines.length - 1 =>
                  \A i \in 0 .. b.lines.length - 2 :
                     Get(t.lines, i) = IF i < row THEN Get(b.lines, i) ELSE Get(b.lines, i + 1)
            /\ t.ybase = IF b.ybase = 0 THEN 0 ELSE b.ybase - 1
            /\ t.ydisp = IF b.ybase # 0 /\ ~ userScrolling THEN t.ybase ELSE b.ydisp
            /\ t \in BufferType
<1>. DEFINE t    == RemoveTop(b)
            base == IF b.ybase # 0 THEN b.ybase - 1 ELSE b.ybase
            row  == base + b.scrollTop
            l    == remove(b.lines, row)
<1>1. /\ b.lines \in ListType /\ b.lines.length \in 1 .. Scrollback /\ Scrollback \in Nat
      /\ base \in 0 .. Scrollback /\ b.scrollTop \in Int /\ b.ydisp \in Int
      /\ base = IF b.ybase = 0 THEN 0 ELSE b.ybase - 1
  BY SizeFacts, ScreenAssumption DEF BufferType, ListType
<1>2. t = [b EXCEPT !.ybase = base,
                    !.ydisp = IF b.ybase # 0 /\ ~ userScrolling THEN base ELSE @,
                    !.lines = l]
  BY DEF RemoveTop
<1>. HIDE DEF base
<1>3. row \in Int
  BY <1>1
<1>. HIDE DEF row
<1>4. /\ l \in ListType /\ l.length = b.lines.length - 1
      /\ row \in 0 .. b.lines.length - 1 =>
            \A i \in 0 .. b.lines.length - 2 :
               Get(l, i) = IF i < row THEN Get(b.lines, i) ELSE Get(b.lines, i + 1)
  BY <1>1, <1>3, RemoveType, RemoveGet
<1>. HIDE DEF l
<1>5. /\ t.lines = l /\ t.ybase = base /\ SamePlace(t, b)
      /\ t.ydisp = IF b.ybase # 0 /\ ~ userScrolling THEN base ELSE b.ydisp
  BY <1>2 DEF SamePlace, BufferType
<1>6. t \in BufferType
  <2>1. (IF b.ybase # 0 /\ ~ userScrolling THEN base ELSE b.ydisp) \in Int
        /\ base \in -1 .. Scrollback
    BY <1>1
  <2>. QED  BY <1>2, <1>4, <2>1 DEF BufferType
<1>. HIDE DEF t
<1>7. row = t.ybase + b.scrollTop
  BY <1>5 DEF row
<1>. QED  BY <1>1, <1>4, <1>5, <1>6, <1>7 DEF t

(* What an operation does to the rows of the screen: those from one row to *)
(* another move up or down by one.                                         *)
MovesUp(s, b, from, to) ==
    \A y \in 0 .. rows - 1 :
       LineOf(s, y) = IF y \in from .. to - 1 THEN LineOf(b, y + 1)
                      ELSE IF y = to THEN Blank ELSE LineOf(b, y)
MovesDown(s, b, from, to) ==
    \A y \in 0 .. rows - 1 :
       LineOf(s, y) = IF y \in from + 1 .. to THEN LineOf(b, y - 1)
                      ELSE IF y = from THEN Blank ELSE LineOf(b, y)

(* What it does to the view: the rows of it that were in the scrollback    *)
(* are there still, and show the same lines, but for one that a full list  *)
(* may blank. Only the view at the first line of a full list leaves it.    *)
KeepsRow(s, b, y) == y \in InScrollback(s) /\ ViewedLine(b, y) = ViewedLine(s, y)
BlanksRow(s, b, y) == /\ IsFull(b.lines) /\ b.ydisp + y = 1
                      /\ y \in InScrollback(s) /\ ViewedLine(s, y) = Blank

StaysInList(b) == b.ydisp > 0 \/ (b.ydisp = 0 /\ ~ IsFull(b.lines))

KeepsView(s, b) ==
    /\ ~ userScrolling /\ b.ydisp = b.ybase => s.ydisp = s.ybase
    /\ userScrolling /\ s.ybase > 0 /\ StaysInList(b)
          => \A y \in InScrollback(b) : KeepsRow(s, b, y) \/ BlanksRow(s, b, y)
    /\ StaysInList(b) => s.ydisp >= 0

LEMMA SameView ==
  ASSUME NEW b, NEW c, NEW d, KeepsView(d, b),
         c.lines = d.lines, c.ybase = d.ybase, c.ydisp = d.ydisp
  PROVE  KeepsView(c, b)
  BY DEF KeepsView, KeepsRow, BlanksRow, InScrollback, ViewedLine

LEMMA OwnView ==
  ASSUME NEW b \in BufferType
  PROVE  KeepsView(b, b)
<1>1. b.ydisp \in Int
  BY DEF BufferType
<1>. QED  BY <1>1 DEF KeepsView, KeepsRow, StaysInList

\* Terminal.scroll, unless it has lost a line that it needs.
LEMMA ScrollFacts ==
  ASSUME NEW b \in BufferType, rows \in Heights, Placed(b, rows)
  PROVE  LET s == scroll(b)
         IN /\ s \in BufferType /\ SamePlace(s, b)
            /\ b.scrollTop = 0 \/ rows # Scrollback =>
                  /\ Placed(s, rows)
                  /\ MovesUp(s, b, b.scrollTop, b.scrollBottom)
                  /\ KeepsView(s, b)
<1>. DEFINE T == Lost(b)
            u == TrimIfFull(b)
            a == AddBottom(u)
            s == scroll(b)
            bot == b.ybase - T + 1 + b.scrollBottom
<1>1. /\ b.lines \in ListType /\ b.lines.length \in 1 .. Scrollback
      /\ rows \in 1 .. Scrollback /\ Scrollback \in Nat /\ Scrollback > 1
      /\ b.ybase \in 0 .. Scrollback /\ b.ybase + rows = b.lines.length
      /\ b.y \in 0 .. rows - 1 /\ b.ydisp \in Int /\ b.ydisp <= b.ybase
      /\ b.scrollTop \in 0 .. b.scrollBottom /\ b.scrollBottom \in 0 .. rows - 1
      /\ T \in 0 .. 1 /\ (T = 1 <=> b.lines.length = Scrollback)
      /\ (IsFull(b.lines) <=> T = 1)
  BY PlacedNumbers, SizeFacts DEF Heights, Lost
<1>2. /\ u \in BufferType /\ SamePlace(u, b) /\ ~ IsFull(u.lines) /\ u.lines \in ListType
      /\ u.lines.length = b.lines.length - T
      /\ \A i \in 0 .. u.lines.length - 1 : Get(u.lines, i) = Get(b.lines, i + T)
      /\ u.ybase = b.ybase - T
      /\ u.ydisp = IF b.ydisp = 0 THEN 0 ELSE b.ydisp - T
  BY TrimIfFullFacts
<1>. HIDE DEF T, u
<1>3. u.scrollBottom = b.scrollBottom /\ u.scrollTop = b.scrollTop
  BY <1>2 DEF SamePlace
<1>4. u.ybase + rows = u.lines.length /\ u.scrollBottom \in 0 .. rows - 1
  BY <1>1, <1>2, <1>3
<1>5. /\ a \in BufferType /\ SamePlace(a, u) /\ a.lines \in ListType
      /\ a.lines.length = u.lines.length + 1
      /\ u.ybase + 1 + u.scrollBottom \in 0 .. u.lines.length
      /\ \A i \in 0 .. u.lines.length :
            Get(a.lines, i) = IF i < u.ybase + 1 + u.scrollBottom THEN Get(u.lines, i)
                              ELSE IF i = u.ybase + 1 + u.scrollBottom THEN Blank
                              ELSE Get(u.lines, i - 1)
      /\ a.ybase = u.ybase + 1
      /\ a.ydisp = IF userScrolling THEN u.ydisp ELSE a.ybase
  BY <1>2, <1>4, AddBottomFacts
<1>. HIDE DEF a
<1>6. /\ a.lines.length = b.lines.length - T + 1 /\ a.ybase = b.ybase - T + 1
      /\ bot \in 0 .. b.lines.length - T
      /\ a.ydisp = IF userScrolling THEN (IF b.ydisp = 0 THEN 0 ELSE b.ydisp - T)
                                    ELSE b.ybase - T + 1
  BY <1>1, <1>2, <1>3, <1>5
<1>7. \A i \in 0 .. b.lines.length - T :
         Get(a.lines, i) = IF i < bot THEN Get(b.lines, i + T)
                           ELSE IF i = bot THEN Blank ELSE Get(b.lines, i - 1 + T)
  <2>. TAKE i \in 0 .. b.lines.length - T
  <2>1. Get(a.lines, i) = IF i < bot THEN Get(u.lines, i)
                          ELSE IF i = bot THEN Blank ELSE Get(u.lines, i - 1)
    BY <1>2, <1>3, <1>5
  <2>2. CASE i < bot
    <3>1. i \in 0 .. u.lines.length - 1
      BY <1>1, <1>2, <1>6, <2>2
    <3>. QED  BY <1>2, <2>1, <2>2, <3>1
  <2>3. CASE i = bot
    <3>1. ~ (i < bot)
      BY <1>6, <2>3
    <3>. QED  BY <2>1, <2>3, <3>1
  <2>4. CASE i > bot
    <3>1. i - 1 \in 0 .. u.lines.length - 1 /\ ~ (i < bot) /\ i # bot
      BY <1>1, <1>2, <1>6, <2>4
    <3>. QED  BY <1>2, <2>1, <3>1
  <2>. QED  BY <1>1, <1>6, <2>2, <2>3, <2>4
<1>8. SamePlace(a, b)
  BY <1>2, <1>5 DEF SamePlace
<1>9. b.savedY \in 0 .. Scrollback
  BY DEF Placed
<1>10. \A i \in 0 .. b.lines.length - 1 : Get(b.lines, i) \in Texts
  BY DEF Placed, Filled
<1>11. Blank \in Texts
  BY DEF Texts
<1>12. CASE b.scrollTop = 0
  <2>1. s = a
    BY <1>3, <1>8, <1>12 DEF scroll, a, u, SamePlace
  <2>2. Filled(a.lines)
    <3>. SUFFICES ASSUME NEW i \in 0 .. a.lines.length - 1 PROVE Get(a.lines, i) \in Texts
      BY DEF Filled
    <3>1. i \in 0 .. b.lines.length - T
      BY <1>1, <1>6
    <3>2. i < bot => i + T \in 0 .. b.lines.length - 1
      BY <1>1, <1>6
    <3>3. i > bot => i - 1 + T \in 0 .. b.lines.length - 1
      BY <1>1, <1>6
    <3>4. i < bot \/ i = bot \/ i > bot
      BY <1>1, <1>6
    <3>. HIDE DEF bot
    <3>. QED  BY <1>7, <1>10, <1>11, <3>1, <3>2, <3>3, <3>4
  <2>3. Placed(a, rows)
    BY <1>1, <1>6, <1>8, <1>9, <2>2 DEF Placed, SamePlace
  <2>4. MovesUp(a, b, b.scrollTop, b.scrollBottom)
    <3>. SUFFICES ASSUME NEW y \in 0 .. rows - 1
                  PROVE  LineOf(a, y) = IF y \in 0 .. b.scrollBottom - 1 THEN LineOf(b, y + 1)
                                        ELSE IF y = b.scrollBottom THEN Blank ELSE LineOf(b, y)
      BY <1>12 DEF MovesUp
    <3>. DEFINE i == b.ybase - T + 1 + y
    <3>1. i \in 0 .. b.lines.length - T /\ a.ybase + y = i
      BY <1>1, <1>6
    <3>2. LineOf(a, y) = Get(a.lines, i)
      BY <3>1 DEF LineOf
    <3>3. /\ i < bot <=> y \in 0 .. b.scrollBottom - 1
          /\ i = bot <=> y = b.scrollBottom
          /\ i + T = b.ybase + (y + 1) /\ i - 1 + T = b.ybase + y
      BY <1>1
    <3>. HIDE DEF i, bot
    <3>. QED  BY <1>7, <3>1, <3>2, <3>3 DEF LineOf
  <2>5. KeepsView(a, b)
    <3>1. ~ userScrolling => a.ydisp = a.ybase
      BY <1>6
    <3>3. StaysInList(b) => b.ydisp >= T /\ a.ydisp >= 0
      BY <1>1, <1>6 DEF StaysInList
    <3>2. ASSUME userScrolling, StaysInList(b), NEW y \in InScrollback(b)
          PROVE  KeepsRow(a, b, y)
      <4>. DEFINE i == a.ydisp + y
      <4>1. y \in 0 .. rows - 1 /\ b.ydisp + y < b.ybase
        BY DEF InScrollback
      <4>2. b.ydisp >= T
        BY <3>2, <3>3
      <4>3. i \in 0 .. b.lines.length - T /\ i < bot /\ i + T = b.ydisp + y /\ i < a.ybase
        BY <1>1, <1>6, <3>2, <4>1, <4>2
      <4>. HIDE DEF i, bot
      <4>4. Get(a.lines, i) = Get(b.lines, b.ydisp + y)
        BY <1>7, <4>3
      <4>. QED  BY <4>1, <4>3, <4>4 DEF ViewedLine, KeepsRow, InScrollback, i
    <3>. QED  BY <3>1, <3>2, <3>3 DEF KeepsView
  <2>. QED  BY <1>5, <1>8, <2>1, <2>3, <2>4, <2>5
<1>13. CASE b.scrollTop # 0
  <2>1. s = RemoveTop(a)
    BY <1>3, <1>8, <1>13 DEF scroll, a, u, SamePlace
  <2>2. a.lines.length > 0 /\ a.ybase \in 0 .. Scrollback
    BY <1>1, <1>6
  <2>. DEFINE row == s.ybase + a.scrollTop
  <2>3. /\ s \in BufferType /\ SamePlace(s, a) /\ s.lines \in ListType
        /\ s.lines.length = a.lines.length - 1
        /\ row \in 0 .. a.lines.length - 1 =>
              \A i \in 0 .. a.lines.length - 2 :
                 Get(s.lines, i) = IF i < row THEN Get(a.lines, i) ELSE Get(a.lines, i + 1)
        /\ s.ybase = IF a.ybase = 0 THEN 0 ELSE a.ybase - 1
        /\ s.ydisp = IF a.ybase # 0 /\ ~ userScrolling THEN s.ybase ELSE a.ydisp
    BY <1>5, <2>1, <2>2, RemoveTopFacts
  <2>. HIDE DEF s
  <2>4. SamePlace(s, b)
    BY <1>8, <2>3 DEF SamePlace
  <2>5. ASSUME rows # Scrollback
        PROVE  Placed(s, rows) /\ MovesUp(s, b, b.scrollTop, b.scrollBottom) /\ KeepsView(s, b)
    <3>1. b.ybase - T \in 0 .. Scrollback
      BY <1>1, <2>5
    <3>2. /\ s.ybase = b.ybase - T /\ s.lines.length = b.lines.length - T
          /\ s.ydisp = IF ~ userScrolling THEN s.ybase
                       ELSE IF b.ydisp = 0 THEN 0 ELSE b.ydisp - T
          /\ row = b.ybase - T + b.scrollTop /\ row \in 0 .. a.lines.length - 1
      BY <1>1, <1>6, <1>8, <2>3, <3>1 DEF SamePlace
    <3>3. \A i \in 0 .. b.lines.length - T - 1 :
             Get(s.lines, i) = IF i < row THEN Get(b.lines, i + T)
                               ELSE IF i + 1 < bot THEN Get(b.lines, i + 1 + T)
                               ELSE IF i + 1 = bot THEN Blank ELSE Get(b.lines, i + T)
      <4>. TAKE i \in 0 .. b.lines.length - T - 1
      <4>1. i \in 0 .. a.lines.length - 2
        BY <1>1, <1>6
      <4>2. Get(s.lines, i) = IF i < row THEN Get(a.lines, i) ELSE Get(a.lines, i + 1)
        BY <2>3, <3>2, <4>1
      <4>3. /\ i \in 0 .. b.lines.length - T /\ i + 1 \in 0 .. b.lines.length - T
            /\ i < row => i < bot /\ (i + 1) - 1 + T = i + T
        BY <1>1, <3>2
      <4>4. (i + 1) - 1 + T = i + T
        BY <1>1
      <4>. HIDE DEF row, bot
      <4>. QED  BY <1>7, <4>2, <4>3, <4>4
    <3>. HIDE DEF row
    <3>4. Filled(s.lines)
      <4>. SUFFICES ASSUME NEW i \in 0 .. s.lines.length - 1 PROVE Get(s.lines, i) \in Texts
        BY DEF Filled
      <4>1. i \in 0 .. b.lines.length - T - 1 /\ i + T \in 0 .. b.lines.length - 1
        BY <1>1, <3>2
      <4>2. i + 1 < bot => i + 1 + T \in 0 .. b.lines.length - 1
        BY <1>1, <1>6, <4>1
      <4>. HIDE DEF bot
      <4>. QED  BY <1>10, <1>11, <3>3, <4>1, <4>2
    <3>5. Placed(s, rows)
      BY <1>1, <1>9, <2>4, <3>1, <3>2, <3>4 DEF Placed, SamePlace
    <3>6. MovesUp(s, b, b.scrollTop, b.scrollBottom)
      <4>. SUFFICES ASSUME NEW y \in 0 .. rows - 1
                    PROVE  LineOf(s, y) = IF y \in b.scrollTop .. b.scrollBottom - 1
                                          THEN LineOf(b, y + 1)
                                          ELSE IF y = b.scrollBottom THEN Blank ELSE LineOf(b, y)
        BY DEF MovesUp
      <4>. DEFINE i == b.ybase - T + y
      <4>1. i \in 0 .. b.lines.length - T - 1 /\ s.ybase + y = i
        BY <1>1, <3>1, <3>2
      <4>2. LineOf(s, y) = Get(s.lines, i)
        BY <4>1 DEF LineOf
      <4>3. /\ i < row <=> y < b.scrollTop
            /\ i + 1 < bot <=> y < b.scrollBottom
            /\ i + 1 = bot <=> y = b.scrollBottom
            /\ i + 1 + T = b.ybase + (y + 1) /\ i + T = b.ybase + y
        BY <1>1, <3>2
      <4>4. /\ y \in b.scrollTop .. b.scrollBottom - 1 <=>
                  ~ (y < b.scrollTop) /\ y < b.scrollBottom
            /\ y < b.scrollTop => y # b.scrollBottom
        BY <1>1
      <4>. HIDE DEF i, bot
      <4>. QED  BY <3>3, <4>1, <4>2, <4>3, <4>4 DEF LineOf
    <3>7. KeepsView(s, b)
      <4>1. ~ userScrolling => s.ydisp = s.ybase
        BY <3>2
      <4>3. StaysInList(b) => b.ydisp >= T /\ s.ydisp >= 0
        BY <1>1, <3>1, <3>2 DEF StaysInList
      <4>2. ASSUME userScrolling, StaysInList(b), NEW y \in InScrollback(b)
            PROVE  KeepsRow(s, b, y)
        <5>. DEFINE i == s.ydisp + y
        <5>1. y \in 0 .. rows - 1 /\ b.ydisp + y < b.ybase
          BY DEF InScrollback
        <5>2. b.ydisp >= T
          BY <4>2, <4>3
        <5>3. /\ i \in 0 .. b.lines.length - T - 1 /\ i < row /\ i + T = b.ydisp + y
              /\ i < s.ybase
          BY <1>1, <3>2, <4>2, <5>1, <5>2
        <5>. HIDE DEF i, bot
        <5>4. Get(s.lines, i) = Get(b.lines, b.ydisp + y)
          BY <3>3, <5>3
        <5>. QED  BY <5>1, <5>3, <5>4 DEF ViewedLine, KeepsRow, InScrollback, i
      <4>. QED  BY <4>1, <4>2, <4>3 DEF KeepsView
    <3>. QED  BY <3>5, <3>6, <3>7
  <2>. QED  BY <1>13, <2>3, <2>4, <2>5 DEF s
<1>. QED  BY <1>12, <1>13

(* The same for the elements of a list, from one index to another.         *)
ListUp(m, l, p, q) ==
    /\ m \in ListType /\ m.length = l.length
    /\ \A i \in 0 .. l.length - 1 :
          Get(m, i) = IF i \in p .. q - 1 THEN Get(l, i + 1)
                      ELSE IF i = q THEN Blank ELSE Get(l, i)
ListDown(m, l, p, q) ==
    /\ m \in ListType /\ m.length = l.length
    /\ \A i \in 0 .. l.length - 1 :
          Get(m, i) = IF i \in p + 1 .. q THEN Get(l, i - 1)
                      ELSE IF i = p THEN Blank ELSE Get(l, i)

\* insertLines and deleteLines: the list does not grow in between.
LEMMA InsertThenRemove ==
  ASSUME NEW l \in ListType, ~ IsFull(l), NEW p \in Int, NEW q \in Int
  PROVE  LET m == remove(insert(l, p, Blank), q)
         IN /\ m \in ListType /\ m.length = l.length
            /\ 0 <= p /\ p < q /\ q <= l.length => ListDown(m, l, p, q - 1)
            /\ 0 <= q /\ q < p /\ p <= l.length => ListUp(m, l, q, p - 1)
<1>. DEFINE a == insert(l, p, Blank)
            m == remove(a, q)
            n == l.length
<1>1. n \in Nat /\ Blank \in Texts
  BY SizeFacts DEF ListType, Texts
<1>2. a \in ListType /\ a.length = n + 1
  BY <1>1, InsertType
<1>3. ASSUME p \in 0 .. n
      PROVE  \A j \in 0 .. n : Get(a, j) = IF j < p THEN Get(l, j)
                                           ELSE IF j = p THEN Blank ELSE Get(l, j - 1)
  BY <1>1, <1>3, InsertGet
<1>. HIDE DEF a
<1>4. m \in ListType /\ m.length = n
  BY <1>1, <1>2, RemoveType
<1>5. ASSUME q \in 0 .. n
      PROVE  \A j \in 0 .. n - 1 : Get(m, j) = IF j < q THEN Get(a, j) ELSE Get(a, j + 1)
  <2>1. q \in 0 .. a.length - 1 /\ a.length > 0 /\ a.length - 2 = n - 1
    BY <1>1, <1>2, <1>5
  <2>. QED  BY <1>2, <2>1, RemoveGet
<1>. HIDE DEF m, n
<1>6. ASSUME 0 <= p, p < q, q <= n PROVE ListDown(m, l, p, q - 1)
  <2>1. p \in 0 .. n /\ q \in 0 .. n
    BY <1>1, <1>6
  <2>2. ASSUME NEW i \in 0 .. n - 1
        PROVE  Get(m, i) = IF i \in p + 1 .. q - 1 THEN Get(l, i - 1)
                           ELSE IF i = p THEN Blank ELSE Get(l, i)
    <3>1. i \in 0 .. n /\ i + 1 \in 0 .. n /\ (i + 1) - 1 = i
      BY <1>1
    <3>2. CASE i < p
      <4>1. i < q /\ i \notin p + 1 .. q - 1 /\ i # p
        BY <1>1, <1>6, <3>2
      <4>. QED  BY <1>3, <1>5, <2>1, <3>1, <3>2, <4>1
    <3>3. CASE i = p
      <4>1. i < q /\ i \notin p + 1 .. q - 1 /\ ~ (i < p)
        BY <1>1, <1>6, <3>3
      <4>. QED  BY <1>3, <1>5, <2>1, <3>1, <3>3, <4>1
    <3>4. CASE p < i /\ i < q
      <4>1. i \in p + 1 .. q - 1 /\ ~ (i < p) /\ i # p
        BY <1>1, <1>6, <3>4
      <4>. QED  BY <1>3, <1>5, <2>1, <3>1, <3>4, <4>1
    <3>5. CASE q <= i
      <4>1. i \notin p + 1 .. q - 1 /\ ~ (i < q) /\ ~ (i + 1 < p) /\ i + 1 # p /\ i # p
        BY <1>1, <1>6, <3>5
      <4>. QED  BY <1>3, <1>5, <2>1, <3>1, <4>1
    <3>. QED  BY <1>1, <1>6, <3>2, <3>3, <3>4, <3>5
  <2>. QED  BY <1>1, <1>4, <2>2 DEF ListDown, n
<1>7. ASSUME 0 <= q, q < p, p <= n PROVE ListUp(m, l, q, p - 1)
  <2>1. p \in 0 .. n /\ q \in 0 .. n
    BY <1>1, <1>7
  <2>2. ASSUME NEW i \in 0 .. n - 1
        PROVE  Get(m, i) = IF i \in q .. p - 1 - 1 THEN Get(l, i + 1)
                           ELSE IF i = p - 1 THEN Blank ELSE Get(l, i)
    <3>1. i \in 0 .. n /\ i + 1 \in 0 .. n /\ (i + 1) - 1 = i
      BY <1>1
    <3>2. CASE i < q
      <4>1. i < p /\ i \notin q .. p - 1 - 1 /\ i # p - 1
        BY <1>1, <1>7, <3>2
      <4>. QED  BY <1>3, <1>5, <2>1, <3>1, <3>2, <4>1
    <3>3. CASE q <= i /\ i + 1 < p
      <4>1. i \in q .. p - 1 - 1 /\ ~ (i < q)
        BY <1>1, <1>7, <3>3
      <4>. QED  BY <1>3, <1>5, <2>1, <3>1, <3>3, <4>1
    <3>4. CASE i + 1 = p
      <4>1. i \notin q .. p - 1 - 1 /\ ~ (i < q) /\ i = p - 1 /\ ~ (i + 1 < p)
        BY <1>1, <1>7, <3>4
      <4>. QED  BY <1>3, <1>5, <2>1, <3>1, <3>4, <4>1
    <3>5. CASE p <= i
      <4>1. i \notin q .. p - 1 - 1 /\ ~ (i < q) /\ ~ (i + 1 < p) /\ i + 1 # p /\ i # p - 1
        BY <1>1, <1>7, <3>5
      <4>. QED  BY <1>3, <1>5, <2>1, <3>1, <4>1
    <3>. QED  BY <1>1, <1>7, <3>2, <3>3, <3>4, <3>5
  <2>. QED  BY <1>1, <1>4, <2>2 DEF ListUp, n
<1>. QED  BY <1>4, <1>6, <1>7 DEF m, n, a

\* scrollUp and scrollDown.
LEMMA RemoveThenInsert ==
  ASSUME NEW l \in ListType, l.length > 0,
         NEW p \in 0 .. l.length - 1, NEW q \in 0 .. l.length - 1
  PROVE  LET m == insert(remove(l, p), q, Blank)
         IN /\ p <= q => ListUp(m, l, p, q)
            /\ q <= p => ListDown(m, l, q, p)
<1>. DEFINE a == remove(l, p)
            m == insert(a, q, Blank)
            n == l.length
<1>1. n \in Nat /\ n <= Scrollback /\ Scrollback \in Nat /\ Blank \in Texts
  BY SizeFacts DEF ListType, Texts
<1>2. a \in ListType /\ a.length = n - 1
  BY <1>1, RemoveType
<1>3. \A j \in 0 .. n - 2 : Get(a, j) = IF j < p THEN Get(l, j) ELSE Get(l, j + 1)
  BY <1>1, RemoveGet
<1>. HIDE DEF a
<1>4. ~ IsFull(a) /\ q \in 0 .. a.length /\ a.length + 1 = n
  BY <1>1, <1>2 DEF IsFull, ListType
<1>5. m \in ListType /\ m.length = n
  BY <1>1, <1>2, <1>4, InsertType
<1>6. \A j \in 0 .. n - 1 : Get(m, j) = IF j < q THEN Get(a, j)
                                        ELSE IF j = q THEN Blank ELSE Get(a, j - 1)
  <2>1. a.length = n - 1
    BY <1>2
  <2>2. \A j \in 0 .. a.length : Get(m, j) = IF j < q THEN Get(a, j)
                                        ELSE IF j = q THEN Blank ELSE Get(a, j - 1)
    BY <1>1, <1>2, <1>4, InsertGet
  <2>. QED  BY <2>1, <2>2
<1>7. p \in 0 .. n - 1 /\ q \in 0 .. n - 1
  OBVIOUS
<1>. HIDE DEF m, n
<1>8. ASSUME p <= q PROVE ListUp(m, l, p, q)
  <2>1. ASSUME NEW i \in 0 .. n - 1
        PROVE  Get(m, i) = IF i \in p .. q - 1 THEN Get(l, i + 1)
                           ELSE IF i = q THEN Blank ELSE Get(l, i)
    <3>1. CASE i < q
      <4>1. i \in 0 .. n - 2 /\ i # q /\ (i < p <=> i \notin p .. q - 1)
        BY <1>1, <1>7, <1>8, <3>1
      <4>. QED  BY <1>3, <1>6, <3>1, <4>1
    <3>2. CASE i = q
      <4>1. i \notin p .. q - 1 /\ ~ (i < q)
        BY <1>1, <1>7, <3>2
      <4>. QED  BY <1>6, <3>2, <4>1
    <3>3. CASE i > q
      <4>1. i - 1 \in 0 .. n - 2 /\ ~ (i - 1 < p) /\ i \notin p .. q - 1 /\ ~ (i < q) /\ i # q
            /\ (i - 1) + 1 = i
        BY <1>1, <1>7, <1>8, <3>3
      <4>. QED  BY <1>3, <1>6, <4>1
    <3>. QED  BY <1>1, <1>7, <3>1, <3>2, <3>3
  <2>. QED  BY <1>5, <2>1 DEF ListUp, n
<1>9. ASSUME q <= p PROVE ListDown(m, l, q, p)
  <2>1. ASSUME NEW i \in 0 .. n - 1
        PROVE  Get(m, i) = IF i \in q + 1 .. p THEN Get(l, i - 1)
                           ELSE IF i = q THEN Blank ELSE Get(l, i)
    <3>1. CASE i < q
      <4>1. i \in 0 .. n - 2 /\ i # q /\ i < p /\ i \notin q + 1 .. p
        BY <1>1, <1>7, <1>9, <3>1
      <4>. QED  BY <1>3, <1>6, <3>1, <4>1
    <3>2. CASE i = q
      <4>1. i \notin q + 1 .. p /\ ~ (i < q)
        BY <1>1, <1>7, <3>2
      <4>. QED  BY <1>6, <3>2, <4>1
    <3>3. CASE i > q
      <4>1. i - 1 \in 0 .. n - 2 /\ (i - 1 < p <=> i \in q + 1 .. p) /\ ~ (i < q) /\ i # q
            /\ (i - 1) + 1 = i
        BY <1>1, <1>7, <1>9, <3>3
      <4>. QED  BY <1>3, <1>6, <4>1
    <3>. QED  BY <1>1, <1>7, <3>1, <3>2, <3>3
  <2>. QED  BY <1>5, <2>1 DEF ListDown, n
<1>. QED  BY <1>8, <1>9 DEF m, a, n

\* A move of rows of the screen is one of elements of the list.
LEMMA RowsMove ==
  ASSUME NEW b \in BufferType, rows \in Heights, Placed(b, rows),
         NEW f \in 0 .. rows - 1, NEW t \in 0 .. rows - 1, f <= t,
         NEW m \in ListType,
         NEW up \in BOOLEAN,
         up => ListUp(m, b.lines, b.ybase + f, b.ybase + t),
         ~ up => ListDown(m, b.lines, b.ybase + f, b.ybase + t)
  PROVE  LET c == [b EXCEPT !.lines = m]
         IN /\ c \in BufferType /\ SamePlace(c, b) /\ Placed(c, rows) /\ KeepsView(c, b)
            /\ c.ybase = b.ybase
            /\ up => MovesUp(c, b, f, t)
            /\ ~ up => MovesDown(c, b, f, t)
<1>. DEFINE c == [b EXCEPT !.lines = m]
            n == b.lines.length
            p == b.ybase + f
            q == b.ybase + t
<1>1. /\ n \in 1 .. Scrollback /\ rows \in 1 .. Scrollback /\ Scrollback \in Nat
      /\ b.ybase \in 0 .. Scrollback /\ b.ybase + rows = n
      /\ b.ydisp \in Int /\ b.ydisp <= b.ybase
      /\ b.scrollBottom \in 0 .. rows - 1 /\ b.scrollTop \in 0 .. b.scrollBottom
  BY PlacedNumbers, SizeFacts DEF Heights
<1>2. c \in BufferType /\ SamePlace(c, b) /\ c.lines = m /\ c.ybase = b.ybase /\ c.ydisp = b.ydisp
  BY DEF BufferType, SamePlace
<1>. HIDE DEF c
<1>3. m.length = n
  BY DEF ListUp, ListDown
<1>4. \A i \in 0 .. n - 1 : Get(b.lines, i) \in Texts
  BY DEF Placed, Filled
<1>10. up => \A i \in 0 .. n - 1 : Get(m, i) = IF i \in p .. q - 1 THEN Get(b.lines, i + 1)
                                               ELSE IF i = q THEN Blank ELSE Get(b.lines, i)
  BY DEF ListUp
<1>11. ~ up => \A i \in 0 .. n - 1 : Get(m, i) = IF i \in p + 1 .. q THEN Get(b.lines, i - 1)
                                                 ELSE IF i = p THEN Blank ELSE Get(b.lines, i)
  BY DEF ListDown
<1>12. p \in 0 .. n - 1 /\ q \in 0 .. n - 1 /\ p <= q /\ p >= b.ybase
  BY <1>1
<1>13. p = b.ybase + f /\ q = b.ybase + t
  OBVIOUS
<1>. HIDE DEF p, q
<1>5. Filled(m)
  <2>. SUFFICES ASSUME NEW i \in 0 .. n - 1 PROVE Get(m, i) \in Texts
    BY <1>3 DEF Filled
  <2>1. /\ i \in p .. q - 1 => i + 1 \in 0 .. n - 1
        /\ i \in p + 1 .. q => i - 1 \in 0 .. n - 1
    BY <1>1, <1>12
  <2>2. Blank \in Texts
    BY DEF Texts
  <2>. HIDE DEF n
  <2>3. CASE up
    BY <1>4, <1>10, <2>1, <2>2, <2>3
  <2>4. CASE ~ up
    BY <1>4, <1>11, <2>1, <2>2, <2>4
  <2>. QED  BY <2>3, <2>4
<1>6. Placed(c, rows)
  <2>1. b.y \in 0 .. rows - 1 /\ b.savedY \in 0 .. Scrollback
    BY DEF Placed
  <2>. QED  BY <1>1, <1>2, <1>3, <1>5, <2>1 DEF Placed, SamePlace
<1>7. ASSUME up PROVE MovesUp(c, b, f, t)
  <2>. SUFFICES ASSUME NEW y \in 0 .. rows - 1
                PROVE  LineOf(c, y) = IF y \in f .. t - 1 THEN LineOf(b, y + 1)
                                      ELSE IF y = t THEN Blank ELSE LineOf(b, y)
    BY DEF MovesUp
  <2>. DEFINE i == b.ybase + y
  <2>1. /\ i \in 0 .. n - 1 /\ i + 1 = b.ybase + (y + 1)
        /\ i \in p .. q - 1 <=> y \in f .. t - 1
        /\ i = q <=> y = t
    BY <1>1, <1>13
  <2>2. LineOf(c, y) = Get(m, i) /\ LineOf(b, y) = Get(b.lines, i)
        /\ LineOf(b, y + 1) = Get(b.lines, i + 1)
    BY <1>2, <2>1 DEF LineOf
  <2>. HIDE DEF i, n
  <2>. QED  BY <1>7, <1>10, <2>1, <2>2
<1>8. ASSUME ~ up PROVE MovesDown(c, b, f, t)
  <2>. SUFFICES ASSUME NEW y \in 0 .. rows - 1
                PROVE  LineOf(c, y) = IF y \in f + 1 .. t THEN LineOf(b, y - 1)
                                      ELSE IF y = f THEN Blank ELSE LineOf(b, y)
    BY DEF MovesDown
  <2>. DEFINE i == b.ybase + y
  <2>1. /\ i \in 0 .. n - 1 /\ i - 1 = b.ybase + (y - 1)
        /\ i \in p + 1 .. q <=> y \in f + 1 .. t
        /\ i = p <=> y = f
    BY <1>1, <1>13
  <2>2. LineOf(c, y) = Get(m, i) /\ LineOf(b, y) = Get(b.lines, i)
        /\ LineOf(b, y - 1) = Get(b.lines, i - 1)
    BY <1>2, <2>1 DEF LineOf
  <2>. HIDE DEF i, n
  <2>. QED  BY <1>8, <1>11, <2>1, <2>2
<1>9. KeepsView(c, b)
  <2>2. StaysInList(b) => b.ydisp >= 0
    BY <1>1 DEF StaysInList
  <2>1. ASSUME StaysInList(b), NEW y \in InScrollback(b) PROVE KeepsRow(c, b, y)
    <3>. DEFINE i == b.ydisp + y
    <3>1. /\ y \in 0 .. rows - 1 /\ i < b.ybase
      BY DEF InScrollback
    <3>2. /\ i \in 0 .. n - 1
          /\ i \notin p .. q - 1 /\ i # q /\ i \notin p + 1 .. q /\ i # p
      BY <1>1, <1>12, <2>1, <2>2, <3>1
    <3>. HIDE DEF i, n
    <3>3. Get(m, i) = Get(b.lines, i)
      BY <1>10, <1>11, <3>2
    <3>. QED  BY <1>2, <3>1, <3>3 DEF ViewedLine, KeepsRow, InScrollback, i
  <2>. QED  BY <1>2, <2>1, <2>2 DEF KeepsView
<1>. QED  BY <1>2, <1>6, <1>7, <1>8, <1>9 DEF c

-----------------------------------------------------------------------------
(* Screens as IdealScreen sees them.                                       *)
ScreenType == [text : [0 .. rows - 1 -> Texts \union {NoLine}], last : {rows - 1},
               y : Int, top : Int, bottom : Int]

LEMMA ScreenFacts ==
  ASSUME NEW b \in BufferType
  PROVE  /\ Screen(b) \in ScreenType
         /\ Screen(b).y = b.y /\ Screen(b).top = b.scrollTop
         /\ Screen(b).bottom = b.scrollBottom /\ Screen(b).last = rows - 1
         /\ DOMAIN Screen(b).text = 0 .. rows - 1
         /\ \A y \in 0 .. rows - 1 : Screen(b).text[y] = LineOf(b, y)
<1>1. \A y \in 0 .. rows - 1 : LineOf(b, y) \in Texts \union {NoLine}
  <2>. TAKE y \in 0 .. rows - 1
  <2>1. b.lines \in ListType /\ b.ybase + y \in Int
    BY DEF BufferType
  <2>. QED  BY <2>1, GetType DEF LineOf
<1>2. [y \in 0 .. rows - 1 |-> LineOf(b, y)] \in [0 .. rows - 1 -> Texts \union {NoLine}]
  BY <1>1
<1>3. b.y \in Int /\ b.scrollTop \in Int /\ b.scrollBottom \in Int
  BY ScreenAssumption DEF BufferType
<1>. QED  BY <1>2, <1>3 DEF Screen, ScreenType

LEMMA SameScreen ==
  ASSUME NEW s \in ScreenType, NEW t \in ScreenType,
         s.y = t.y, s.top = t.top, s.bottom = t.bottom, s.text = t.text
  PROVE  s = t
  BY DEF ScreenType

LEMMA ScreenExcept ==
  ASSUME NEW s \in ScreenType
  PROVE  /\ \A t \in [0 .. rows - 1 -> Texts \union {NoLine}] :
               [s EXCEPT !.text = t] \in ScreenType /\ [s EXCEPT !.text = t].text = t
               /\ [s EXCEPT !.text = t].y = s.y /\ [s EXCEPT !.text = t].top = s.top
               /\ [s EXCEPT !.text = t].bottom = s.bottom
         /\ \A y \in Int :
               [s EXCEPT !.y = y] \in ScreenType /\ [s EXCEPT !.y = y].y = y
               /\ [s EXCEPT !.y = y].text = s.text /\ [s EXCEPT !.y = y].top = s.top
               /\ [s EXCEPT !.y = y].bottom = s.bottom
  BY DEF ScreenType

\* Moved rows are what IdealScreen moves.
LEMMA UpIsUp ==
  ASSUME NEW b \in BufferType, NEW c \in BufferType, SamePlace(c, b), rows \in Heights,
         NEW f \in 0 .. rows - 1, NEW t \in 0 .. rows - 1, MovesUp(c, b, f, t)
  PROVE  Screen(c) = Ideal!Up(Screen(b), f, t)
<1>. DEFINE s == Screen(b)
            x == [r \in 0 .. rows - 1 |-> IF r \in f .. t - 1 THEN s.text[r + 1]
                                          ELSE IF r = t THEN Blank ELSE s.text[r]]
<1>1. rows \in Nat
  BY SizeFacts DEF Heights
<1>2. /\ s \in ScreenType /\ DOMAIN s.text = 0 .. rows - 1
      /\ \A y \in 0 .. rows - 1 : s.text[y] = LineOf(b, y)
      /\ s.y = b.y /\ s.top = b.scrollTop /\ s.bottom = b.scrollBottom
  BY ScreenFacts
<1>3. /\ Screen(c) \in ScreenType /\ DOMAIN Screen(c).text = 0 .. rows - 1
      /\ \A y \in 0 .. rows - 1 : Screen(c).text[y] = LineOf(c, y)
      /\ Screen(c).y = b.y /\ Screen(c).top = b.scrollTop /\ Screen(c).bottom = b.scrollBottom
  BY ScreenFacts DEF SamePlace
<1>. HIDE DEF s
<1>4. \A r \in 0 .. rows - 1 : r \in f .. t - 1 => r + 1 \in 0 .. rows - 1
  BY <1>1
<1>5. Screen(c).text \in [0 .. rows - 1 -> Texts \union {NoLine}]
  BY <1>3 DEF ScreenType
<1>6. \A r \in 0 .. rows - 1 : x[r] = Screen(c).text[r]
  BY <1>2, <1>3, <1>4 DEF MovesUp
<1>7. x = Screen(c).text
  BY <1>5, <1>6
<1>8. Ideal!Up(s, f, t) = [s EXCEPT !.text = x]
  BY <1>2 DEF Ideal!Up
<1>. HIDE DEF x
<1>9. Ideal!Up(s, f, t) \in ScreenType /\ Ideal!Up(s, f, t).text = x
      /\ Ideal!Up(s, f, t).y = s.y /\ Ideal!Up(s, f, t).top = s.top
      /\ Ideal!Up(s, f, t).bottom = s.bottom
  BY <1>2, <1>5, <1>7, <1>8, ScreenExcept
<1>10. Screen(c) = Ideal!Up(s, f, t)
  BY <1>2, <1>3, <1>7, <1>9, SameScreen
<1>. QED  BY <1>10 DEF s

LEMMA DownIsDown ==
  ASSUME NEW b \in BufferType, NEW c \in BufferType, SamePlace(c, b), rows \in Heights,
         NEW f \in 0 .. rows - 1, NEW t \in 0 .. rows - 1, MovesDown(c, b, f, t)
  PROVE  Screen(c) = Ideal!Down(Screen(b), f, t)
<1>. DEFINE s == Screen(b)
            x == [r \in 0 .. rows - 1 |-> IF r \in f + 1 .. t THEN s.text[r - 1]
                                          ELSE IF r = f THEN Blank ELSE s.text[r]]
<1>1. rows \in Nat
  BY SizeFacts DEF Heights
<1>2. /\ s \in ScreenType /\ DOMAIN s.text = 0 .. rows - 1
      /\ \A y \in 0 .. rows - 1 : s.text[y] = LineOf(b, y)
      /\ s.y = b.y /\ s.top = b.scrollTop /\ s.bottom = b.scrollBottom
  BY ScreenFacts
<1>3. /\ Screen(c) \in ScreenType /\ DOMAIN Screen(c).text = 0 .. rows - 1
      /\ \A y \in 0 .. rows - 1 : Screen(c).text[y] = LineOf(c, y)
      /\ Screen(c).y = b.y /\ Screen(c).top = b.scrollTop /\ Screen(c).bottom = b.scrollBottom
  BY ScreenFacts DEF SamePlace
<1>. HIDE DEF s
<1>4. \A r \in 0 .. rows - 1 : r \in f + 1 .. t => r - 1 \in 0 .. rows - 1
  BY <1>1
<1>5. Screen(c).text \in [0 .. rows - 1 -> Texts \union {NoLine}]
  BY <1>3 DEF ScreenType
<1>6. \A r \in 0 .. rows - 1 : x[r] = Screen(c).text[r]
  BY <1>2, <1>3, <1>4 DEF MovesDown
<1>7. x = Screen(c).text
  BY <1>5, <1>6
<1>8. Ideal!Down(s, f, t) = [s EXCEPT !.text = x]
  BY <1>2 DEF Ideal!Down
<1>. HIDE DEF x
<1>9. Ideal!Down(s, f, t) \in ScreenType /\ Ideal!Down(s, f, t).text = x
      /\ Ideal!Down(s, f, t).y = s.y /\ Ideal!Down(s, f, t).top = s.top
      /\ Ideal!Down(s, f, t).bottom = s.bottom
  BY <1>2, <1>5, <1>7, <1>8, ScreenExcept
<1>10. Screen(c) = Ideal!Down(s, f, t)
  BY <1>2, <1>3, <1>7, <1>9, SameScreen
<1>. QED  BY <1>10 DEF s

(* The steps of a tame IdealScreen that stay on one screen, from S to T.   *)
IdealStep(S, T) ==
    \/ \E ink \in Ink, s \in {S, Ideal!NextRow(S)} : T = [s EXCEPT !.text[s.y] = ink]
    \/ T = Ideal!NextRow(S)
    \/ T.y \in DOMAIN S.text /\ T = [S EXCEPT !.y = T.y]
    \/ /\ T = [S EXCEPT !.top = T.top, !.bottom = T.bottom, !.y = 0]
       /\ T.bottom \in DOMAIN S.text /\ T.top \in 0 .. T.bottom
    \/ /\ T = [S EXCEPT !.text = T.text] /\ DOMAIN T.text = DOMAIN S.text
       /\ \A r \in DOMAIN S.text : T.text[r] \in {S.text[r], Blank}
    \/ Ideal!InRegion(S) /\ T = Ideal!Down(S, S.y, S.bottom)
    \/ Ideal!InRegion(S) /\ T = Ideal!Up(S, S.y, S.bottom)
    \/ T = Ideal!Up(S, S.top, S.bottom)
    \/ T = Ideal!Down(S, S.top, S.bottom)
    \/ S.y = 0 /\ S.top = 0 /\ T = Ideal!Down(S, 0, S.last)

\* And the one of a terminal whose list is full.
DeletesBelow(S, T) ==
    /\ Ideal!InRegion(S)
    /\ \E n \in 1 .. S.last + 1 :
         IF S.bottom < S.last THEN T = Ideal!Deleted(S, n, Blank)
         ELSE \E s \in {S, [S EXCEPT !.text[0] = Blank]}, line \in Texts :
                T = Ideal!Deleted(s, n, line)

(* What an operation on buffer b promises of its outcome c.                *)
Works(b, c) ==
    /\ Placed(c, rows)
    /\ c.lines # b.lines => KeepsView(c, b)
    /\ \/ IdealStep(Screen(b), Screen(c))
       \/ IsFull(b.lines) /\ DeletesBelow(Screen(b), Screen(c))

\* Operations that only move the cursor or the view, or do nothing.
LEMMA PositionWorks ==
  ASSUME NEW b \in BufferType, NEW c \in BufferType, rows \in Heights, Placed(b, rows),
         c.lines = b.lines, c.ybase = b.ybase, c.ydisp \in Int, c.ydisp <= b.ybase,
         c.scrollTop = b.scrollTop, c.scrollBottom = b.scrollBottom,
         c.y \in 0 .. rows - 1, c.savedY \in 0 .. Scrollback
  PROVE  Works(b, c)
<1>1. Placed(c, rows)
  BY DEF Placed
<1>. DEFINE s == Screen(b)
            t == Screen(c)
<1>2. /\ s \in ScreenType /\ DOMAIN s.text = 0 .. rows - 1
      /\ s.top = b.scrollTop /\ s.bottom = b.scrollBottom
  BY ScreenFacts
<1>3. t \in ScreenType /\ t.y = c.y /\ t.top = c.scrollTop /\ t.bottom = c.scrollBottom
  BY ScreenFacts
<1>4. t.text = s.text
  BY DEF Screen, LineOf
<1>. HIDE DEF s, t
<1>5. t.y \in Int /\ t.y \in DOMAIN s.text
  BY <1>2, <1>3, SizeFacts DEF Heights
<1>6. t = [s EXCEPT !.y = t.y]
  <2>. DEFINE e == [s EXCEPT !.y = t.y]
  <2>1. e \in ScreenType /\ e.y = t.y /\ e.text = s.text /\ e.top = s.top /\ e.bottom = s.bottom
    BY <1>2, <1>5, ScreenExcept
  <2>. HIDE DEF e
  <2>2. t = e
    BY <1>2, <1>3, <1>4, <2>1, SameScreen
  <2>. QED  BY <2>2 DEF e
<1>7. IdealStep(s, t)
  BY <1>5, <1>6 DEF IdealStep
<1>. QED  BY <1>1, <1>7 DEF Works, s, t

\* DECSTBM and the soft reset.
LEMMA RegionWorks ==
  ASSUME NEW b \in BufferType, NEW c \in BufferType, rows \in Heights, Placed(b, rows),
         c.lines = b.lines, c.ybase = b.ybase, c.ydisp = b.ydisp, c.y = 0,
         c.scrollBottom \in 0 .. rows - 1, c.scrollTop \in 0 .. c.scrollBottom,
         c.savedY = b.savedY
  PROVE  Works(b, c)
<1>0. 0 \in 0 .. rows - 1
  BY SizeFacts DEF Heights
<1>1. Placed(c, rows)
  BY <1>0 DEF Placed
<1>. DEFINE s == Screen(b)
            t == Screen(c)
<1>2. s \in ScreenType /\ DOMAIN s.text = 0 .. rows - 1
  BY ScreenFacts
<1>3. t \in ScreenType /\ t.y = 0 /\ t.top = c.scrollTop /\ t.bottom = c.scrollBottom
  BY ScreenFacts
<1>4. t.text = s.text
  BY DEF Screen, LineOf
<1>. HIDE DEF s, t
<1>5. t = [s EXCEPT !.top = t.top, !.bottom = t.bottom, !.y = 0]
  BY <1>2, <1>3, <1>4 DEF ScreenType
<1>6. t.bottom \in DOMAIN s.text /\ t.top \in 0 .. t.bottom
  BY <1>2, <1>3
<1>7. IdealStep(s, t)
  BY <1>5, <1>6 DEF IdealStep
<1>. QED  BY <1>1, <1>7 DEF Works, s, t

\* Rows that keep their text or lose it.
LEMMA EraseFacts ==
  ASSUME NEW b \in BufferType, rows \in Heights, Placed(b, rows),
         NEW R \in SUBSET (0 .. rows - 1)
  PROVE  EraseRows(b, R) \in BufferType /\ Works(b, EraseRows(b, R))
<1>. DEFINE l == b.lines
            here == {b.ybase + r : r \in R}
            X == {i % l.maxLength : i \in {j \in here : l.startIndex + j >= 0}}
            m == Blanked(l, X)
            c == EraseRows(b, R)
            n == l.length
<1>1. /\ l \in ListType /\ n \in 1 .. Scrollback /\ rows \in 1 .. Scrollback
      /\ Scrollback \in Nat /\ Scrollback > 1
      /\ b.ybase \in 0 .. Scrollback /\ b.ybase + rows = n /\ b.ydisp \in Int /\ b.ydisp <= b.ybase
  BY PlacedNumbers, SizeFacts DEF Heights
<1>2. c = [b EXCEPT !.lines = m]
  BY DEF EraseRows
<1>3. X = here
  <2>1. l.maxLength = Scrollback /\ l.startIndex \in Nat
    BY <1>1 DEF ListType
  <2>2. \A j \in here : j \in 0 .. Scrollback - 1 /\ j % Scrollback = j /\ l.startIndex + j >= 0
    <3>. TAKE j \in here
    <3>1. PICK r \in R : j = b.ybase + r
      OBVIOUS
    <3>2. r \in 0 .. rows - 1
      OBVIOUS
    <3>3. j \in 0 .. Scrollback - 1
      BY <1>1, <3>1, <3>2
    <3>. HIDE DEF here, l
    <3>. QED  BY <1>1, <2>1, <3>3
  <2>. HIDE DEF here, l
  <2>3. X \subseteq here /\ here \subseteq X
    BY <2>1, <2>2
  <2>. QED  BY <2>3
<1>. HIDE DEF X
<1>4. /\ m \in ListType /\ m.length = n
      /\ \A j \in 0 .. Scrollback - 1 :
            Get(m, j) = IF j \in X /\ Get(l, j) # NoLine THEN Blank ELSE Get(l, j)
  BY <1>1, BlankedFacts
<1>. HIDE DEF m
<1>5. /\ c \in BufferType /\ c.lines = m /\ c.ybase = b.ybase /\ c.ydisp = b.ydisp
      /\ SamePlace(c, b)
  BY <1>2, <1>4 DEF BufferType, SamePlace
<1>. HIDE DEF c
<1>6. \A i \in 0 .. n - 1 : Get(l, i) \in Texts
  BY DEF Placed, Filled
<1>7. Placed(c, rows)
  <2>1. Filled(m)
    <3>1. \A i \in 0 .. n - 1 : i \in 0 .. Scrollback - 1
      BY <1>1
    <3>2. Blank \in Texts
      BY DEF Texts
    <3>. HIDE DEF n, l
    <3>. QED  BY <1>4, <1>6, <3>1, <3>2 DEF Filled
  <2>. QED  BY <1>4, <1>5, <2>1 DEF Placed, SamePlace
<1>8. KeepsView(c, b)
  <2>2. StaysInList(b) => b.ydisp >= 0
    BY <1>1 DEF StaysInList
  <2>1. ASSUME StaysInList(b), NEW y \in InScrollback(b) PROVE KeepsRow(c, b, y)
    <3>1. y \in 0 .. rows - 1 /\ b.ydisp + y < b.ybase
      BY DEF InScrollback
    <3>2. b.ydisp + y \notin here
      <4>1. SUFFICES ASSUME b.ydisp + y \in here PROVE FALSE
        OBVIOUS
      <4>2. PICK r \in R : b.ydisp + y = b.ybase + r
        BY <4>1
      <4>3. r \in 0 .. rows - 1
        OBVIOUS
      <4>. HIDE DEF here, l, n
      <4>. QED  BY <1>1, <3>1, <4>2, <4>3
    <3>3. b.ydisp + y \in 0 .. Scrollback - 1
      BY <1>1, <2>1, <2>2, <3>1
    <3>. QED  BY <1>3, <1>4, <1>5, <3>1, <3>2, <3>3 DEF ViewedLine, KeepsRow, InScrollback
  <2>. QED  BY <1>5, <2>1, <2>2 DEF KeepsView
<1>. DEFINE s == Screen(b)
            t == Screen(c)
<1>9. /\ s \in ScreenType /\ DOMAIN s.text = 0 .. rows - 1
      /\ \A y \in 0 .. rows - 1 : s.text[y] = LineOf(b, y)
      /\ s.y = b.y /\ s.top = b.scrollTop /\ s.bottom = b.scrollBottom
  BY ScreenFacts
<1>10. /\ t \in ScreenType /\ DOMAIN t.text = 0 .. rows - 1
       /\ \A y \in 0 .. rows - 1 : t.text[y] = LineOf(c, y)
       /\ t.y = b.y /\ t.top = b.scrollTop /\ t.bottom = b.scrollBottom
  BY <1>5, ScreenFacts DEF SamePlace
<1>. HIDE DEF s, t
<1>11. ASSUME NEW y \in 0 .. rows - 1 PROVE t.text[y] \in {s.text[y], Blank}
  <2>1. b.ybase + y \in 0 .. Scrollback - 1
    BY <1>1
  <2>2. LineOf(c, y) \in {LineOf(b, y), Blank}
    BY <1>4, <1>5, <2>1 DEF LineOf
  <2>. QED  BY <1>9, <1>10, <2>2
<1>12. t = [s EXCEPT !.text = t.text]
  <2>. DEFINE e == [s EXCEPT !.text = t.text]
  <2>0. t.text \in [0 .. rows - 1 -> Texts \union {NoLine}]
    BY <1>10 DEF ScreenType
  <2>1. e \in ScreenType /\ e.text = t.text /\ e.y = s.y /\ e.top = s.top /\ e.bottom = s.bottom
    BY <1>9, <2>0, ScreenExcept
  <2>. HIDE DEF e
  <2>2. t = e
    BY <1>9, <1>10, <2>1, SameScreen
  <2>. QED  BY <2>2 DEF e
<1>13. IdealStep(s, t)
  <2>1. \A r \in DOMAIN s.text : t.text[r] \in {s.text[r], Blank}
    BY <1>9, <1>11
  <2>2. DOMAIN t.text = DOMAIN s.text
    BY <1>9, <1>10
  <2>. QED  BY <1>12, <2>1, <2>2 DEF IdealStep
<1>. QED  BY <1>5, <1>7, <1>8, <1>13 DEF Works, c, s, t

\* One row down.
LEMMA NextRowFacts ==
  ASSUME NEW b \in BufferType, rows \in Heights, Placed(b, rows)
  PROVE  LET c == NextRow(b)
         IN /\ c \in BufferType /\ c.x = b.x
            /\ ~ LosesLine(b) => /\ Placed(c, rows) /\ KeepsView(c, b)
                                 /\ Screen(c) = Ideal!NextRow(Screen(b))
<1>. DEFINE c == NextRow(b)
            s == Screen(b)
<1>1. /\ rows \in 1 .. Scrollback /\ Scrollback \in Nat
      /\ b.y \in 0 .. rows - 1 /\ b.ybase \in 0 .. Scrollback
      /\ b.scrollTop \in 0 .. b.scrollBottom /\ b.scrollBottom \in 0 .. rows - 1
      /\ b.ydisp \in Int /\ b.ydisp <= b.ybase
  BY PlacedNumbers, SizeFacts DEF Heights
<1>2. s.y = b.y /\ s.top = b.scrollTop /\ s.bottom = b.scrollBottom
  BY ScreenFacts
<1>3. CASE b.y + 1 > b.scrollBottom
  <2>1. c = scroll(b)
    BY <1>3 DEF NextRow
  <2>2. c \in BufferType /\ SamePlace(c, b)
    BY <2>1, ScrollFacts
  <2>3. ASSUME ~ LosesLine(b)
        PROVE  Placed(c, rows) /\ MovesUp(c, b, b.scrollTop, b.scrollBottom) /\ KeepsView(c, b)
    <3>1. b.scrollTop = 0 \/ rows # Scrollback
      BY <1>3, <2>3 DEF LosesLine
    <3>. QED  BY <2>1, <3>1, ScrollFacts
  <2>4. b.scrollTop \in 0 .. rows - 1
    BY <1>1
  <2>5. Ideal!NextRow(s) = Ideal!Up(s, b.scrollTop, b.scrollBottom)
    BY <1>2, <1>3 DEF Ideal!NextRow
  <2>6. ~ LosesLine(b) => Screen(c) = Ideal!NextRow(s)
    <3>. HIDE DEF c
    <3>. QED  BY <1>1, <2>2, <2>3, <2>4, <2>5, UpIsUp DEF s
  <2>. QED  BY <2>2, <2>3, <2>6 DEF SamePlace
<1>4. CASE ~ (b.y + 1 > b.scrollBottom)
  <2>1. c = [b EXCEPT !.y = b.y + 1]
    BY <1>4 DEF NextRow
  <2>2. b.y + 1 \in 0 .. rows - 1 /\ b.y + 1 \in -1 .. Scrollback
    BY <1>1, <1>4
  <2>3. /\ c \in BufferType /\ c.lines = b.lines /\ c.ybase = b.ybase /\ c.ydisp = b.ydisp
        /\ c.x = b.x /\ c.y = b.y + 1 /\ c.savedY = b.savedY
        /\ c.scrollTop = b.scrollTop /\ c.scrollBottom = b.scrollBottom
    BY <2>1, <2>2 DEF BufferType
  <2>. HIDE DEF c
  <2>4. Placed(c, rows)
    BY <2>2, <2>3 DEF Placed
  <2>5. KeepsView(c, b)
    BY <2>3, OwnView, SameView
  <2>6. Screen(c) = [s EXCEPT !.y = s.y + 1]
    <3>. DEFINE e == [s EXCEPT !.y = s.y + 1]
    <3>1. s \in ScreenType /\ s.y + 1 \in Int
      BY <1>1, <1>2, ScreenFacts
    <3>2. e \in ScreenType /\ e.y = s.y + 1 /\ e.text = s.text /\ e.top = s.top
          /\ e.bottom = s.bottom
      <4>. HIDE DEF s
      <4>. QED  BY <3>1, ScreenExcept
    <3>3. Screen(c) \in ScreenType /\ Screen(c).y = c.y /\ Screen(c).top = c.scrollTop
          /\ Screen(c).bottom = c.scrollBottom
      BY <2>3, ScreenFacts
    <3>4. Screen(c).text = s.text
      BY <2>3 DEF Screen, LineOf
    <3>. HIDE DEF e, s
    <3>5. Screen(c) = e
      BY <1>2, <2>3, <3>1, <3>2, <3>3, <3>4, SameScreen
    <3>. QED  BY <3>5 DEF e
  <2>7. Ideal!NextRow(s) = [s EXCEPT !.y = s.y + 1]
    BY <1>2, <1>4 DEF Ideal!NextRow
  <2>. QED  BY <2>3, <2>4, <2>5, <2>6, <2>7 DEF c
<1>. QED  BY <1>3, <1>4

-----------------------------------------------------------------------------
(* The inductive invariant.  A buffer that has no lines, the alternate one *)
(* while it is not shown, has its cursor and its view at the top.          *)
Unused(b) ==
    /\ b.lines.length = 0 /\ b.ybase = 0 /\ b.ydisp = 0 /\ b.y = 0
    /\ b.scrollTop = 0 /\ b.savedY \in 0 .. Scrollback

ScreenInv == tame =>
    /\ ~ stopped
    /\ Placed(buffers["normal"], rows)
    /\ IF active = "alt" THEN Placed(buffers["alt"], rows) ELSE Unused(buffers["alt"])

IInv == TypeOK /\ rows \in Heights /\ ScreenInv

(* What an output operation or a scroll of the user comes down to: another *)
(* state c of the active buffer, and everything of Works if the screen is  *)
(* tame afterwards.                                                        *)
Effect(c) ==
    /\ tame /\ c \in BufferType
    /\ buffers' = [buffers EXCEPT ![active] = c]
    /\ UNCHANGED <<active, rows, cols, savedCols, stopped, ops>>
    /\ wraparound' \in BOOLEAN /\ userScrolling' \in BOOLEAN /\ tame' \in BOOLEAN
    /\ tame' => Works(buffer, c)

\* What the invariant says of the active buffer.
LEMMA ActiveBuffer ==
  ASSUME IInv, tame
  PROVE  /\ buffer \in BufferType /\ Placed(buffer, rows)
         /\ rows \in Heights /\ cols \in 1 .. WideCols /\ ~ stopped
         /\ WideCols \in Nat
<1>1. cols \in 1 .. WideCols /\ WideCols \in Nat
  BY ScreenAssumption DEF IInv, TypeOK
<1>2. buffer \in BufferType
  BY DEF IInv, TypeOK, buffer
<1>3. Placed(buffer, rows)
  BY DEF IInv, TypeOK, ScreenInv, buffer
<1>. QED  BY <1>1, <1>2, <1>3 DEF IInv, ScreenInv

\* From what is shown of an outcome to the step of the terminal.
LEMMA OutputEffect ==
  ASSUME IInv, NEW g, NEW c \in BufferType, Output(g, c), NEW P \in BOOLEAN, TameIf(P),
         P => Works(buffer, c)
  PROVE  Effect(c)
<1>1. /\ tame /\ buffers' = [buffers EXCEPT ![active] = c]
      /\ UNCHANGED <<active, rows, cols, savedCols, wraparound, userScrolling, stopped, ops>>
  BY DEF Output, Parsing
<1>2. wraparound' \in BOOLEAN /\ userScrolling' \in BOOLEAN
  BY <1>1 DEF IInv, TypeOK
<1>3. tame' = (tame /\ P)
  BY DEF TameIf
<1>4. tame' \in BOOLEAN /\ (tame' => P)
  BY <1>3
<1>. QED  BY <1>1, <1>2, <1>4 DEF Effect

LEMMA TameOutputEffect ==
  ASSUME IInv, NEW g, NEW c \in BufferType, Output(g, c), Tame, Works(buffer, c)
  PROVE  Effect(c)
<1>1. tame \in BOOLEAN
  BY DEF IInv, TypeOK
<1>2. /\ tame /\ buffers' = [buffers EXCEPT ![active] = c]
      /\ UNCHANGED <<active, rows, cols, savedCols, wraparound, userScrolling, stopped, ops>>
  BY DEF Output, Parsing
<1>3. wraparound' \in BOOLEAN /\ userScrolling' \in BOOLEAN
  BY <1>2 DEF IInv, TypeOK
<1>4. tame' \in BOOLEAN
  BY <1>1 DEF Tame
<1>. QED  BY <1>2, <1>3, <1>4 DEF Effect

-----------------------------------------------------------------------------
(* The cursor moves within the screen.                                     *)
LEMMA MovedWorks ==
  ASSUME NEW b \in BufferType, rows \in Heights, Placed(b, rows),
         NEW x \in NaN .. MaxX, NEW y \in 0 .. rows - 1
  PROVE  /\ [b EXCEPT !.x = x, !.y = y] \in BufferType
         /\ Works(b, [b EXCEPT !.x = x, !.y = y])
         /\ [b EXCEPT !.x = x] \in BufferType /\ Works(b, [b EXCEPT !.x = x])
<1>1. /\ b.y \in 0 .. rows - 1 /\ b.ydisp \in Int /\ b.ydisp <= b.ybase /\ b.savedY \in 0 .. Scrollback
      /\ rows \in 1 .. Scrollback /\ Scrollback \in Nat
  BY PlacedNumbers, SizeFacts DEF Heights
<1>2. ASSUME NEW c, c = [b EXCEPT !.x = x, !.y = y] \/ c = [b EXCEPT !.x = x]
      PROVE  c \in BufferType /\ Works(b, c)
  <2>1. y \in -1 .. Scrollback
    BY <1>1
  <2>2. /\ c \in BufferType /\ c.lines = b.lines /\ c.ybase = b.ybase /\ c.ydisp = b.ydisp
        /\ c.scrollTop = b.scrollTop /\ c.scrollBottom = b.scrollBottom
        /\ c.savedY = b.savedY /\ c.y \in {y, b.y}
    BY <1>2, <2>1 DEF BufferType
  <2>. QED  BY <1>1, <2>2, PositionWorks
<1>. QED  BY <1>2

\* The numbers that the handlers compute.
LEMMA RangeFacts ==
  ASSUME rows \in Heights, cols \in 1 .. WideCols, WideCols \in Nat,
         NEW x \in NaN .. MaxX, NEW y \in 0 .. rows - 1, NEW n \in Param, NEW m \in Param
  PROVE  /\ AtLeast(y - n, 0) \in 0 .. rows - 1
         /\ AtMost(y + n, rows - 1) \in 0 .. rows - 1
         /\ AtMost(n - 1, rows - 1) \in 0 .. rows - 1
         /\ Clamp(n - 1, rows) \in 0 .. rows - 1
         /\ ClampX(Plus(x, n), cols) \in NaN .. MaxX
         /\ AtMost(Plus(x, n), MaxX) \in NaN .. MaxX
         /\ AtMost(Plus(x, 1), MaxX) \in NaN .. MaxX
         /\ (IF x = NaN THEN NaN ELSE
                AtLeast((IF x >= cols THEN x - 1 ELSE x) - n, 0)) \in NaN .. MaxX
         /\ (IF x >= cols THEN x - 1 ELSE x) \in NaN .. MaxX
         /\ AtMost(n - 1, MaxX) \in NaN .. MaxX
         /\ ClampX(n - 1, cols) \in NaN .. MaxX
         /\ ClampX(x, cols) \in NaN .. MaxX
         /\ Clamp(n - 1, cols) \in NaN .. MaxX
         /\ NextStops(x) \subseteq NaN .. MaxX /\ PrevStops(x) \subseteq NaN .. MaxX
<1>1. n \in Nat \ {0} /\ rows \in Nat \ {0} /\ Scrollback \in Nat
  BY ScreenAssumption, SizeFacts DEF Param, Heights
<1>2. /\ AtLeast(y - n, 0) \in 0 .. rows - 1
      /\ AtMost(y + n, rows - 1) \in 0 .. rows - 1
      /\ AtMost(n - 1, rows - 1) \in 0 .. rows - 1
      /\ Clamp(n - 1, rows) \in 0 .. rows - 1
  BY <1>1 DEF AtLeast, AtMost, Clamp
<1>3. /\ ClampX(Plus(x, n), cols) \in NaN .. MaxX
      /\ AtMost(Plus(x, n), MaxX) \in NaN .. MaxX
      /\ AtMost(Plus(x, 1), MaxX) \in NaN .. MaxX
  BY <1>1 DEF AtMost, ClampX, Plus, NaN, MaxX
<1>4. /\ (IF x = NaN THEN NaN ELSE
                AtLeast((IF x >= cols THEN x - 1 ELSE x) - n, 0)) \in NaN .. MaxX
      /\ (IF x >= cols THEN x - 1 ELSE x) \in NaN .. MaxX
  BY <1>1 DEF AtLeast, NaN, MaxX
<1>5. /\ AtMost(n - 1, MaxX) \in NaN .. MaxX
      /\ ClampX(n - 1, cols) \in NaN .. MaxX
      /\ ClampX(x, cols) \in NaN .. MaxX
      /\ Clamp(n - 1, cols) \in NaN .. MaxX
  BY <1>1 DEF AtLeast, AtMost, Clamp, ClampX, NaN, MaxX
<1>6. NextStops(x) \subseteq NaN .. MaxX
  BY <1>1 DEF NextStops, AtMost, NaN, MaxX
<1>7. PrevStops(x) \subseteq NaN .. MaxX
  BY <1>1 DEF PrevStops, AtMost, AtLeast, NaN, MaxX
<1>. QED  BY <1>2, <1>3, <1>4, <1>5, <1>6, <1>7

LEMMA MoveToEffect ==
  ASSUME IInv, NEW x \in NaN .. MaxX, NEW y \in 0 .. rows - 1, MoveTo(x, y)
  PROVE  \E c \in BufferType : Effect(c)
<1>. DEFINE c == [buffer EXCEPT !.x = x, !.y = y]
<1>1. tame
  BY DEF MoveTo, Output, Parsing
<1>2. buffer \in BufferType /\ Placed(buffer, rows) /\ rows \in Heights
  BY <1>1, ActiveBuffer
<1>3. c \in BufferType /\ Works(buffer, c)
  BY <1>2, MovedWorks
<1>4. Output("cursor", c) /\ Tame
  BY DEF MoveTo
<1>. HIDE DEF c
<1>5. Effect(c)
  BY <1>3, <1>4, TameOutputEffect
<1>. QED  BY <1>3, <1>5

LEMMA CursorMoveEffect ==
  ASSUME IInv, CursorMove
  PROVE  \E c \in BufferType : Effect(c)
<1>1. tame
  BY DEF CursorMove, cursorUp, cursorDown, cursorForward, cursorBackward, cursorNextLine,
         cursorPrecedingLine, cursorCharAbsolute, charPosAbsolute, linePosAbsolute,
         HVPosition, cursorPosition, MoveTo, Output, Parsing
<1>2. /\ buffer \in BufferType /\ Placed(buffer, rows)
      /\ rows \in Heights /\ cols \in 1 .. WideCols /\ WideCols \in Nat
  BY <1>1, ActiveBuffer
<1>3. buffer.x \in NaN .. MaxX /\ buffer.y \in 0 .. rows - 1
  BY <1>2, PlacedNumbers
<1>4. 0 \in 0 .. rows - 1 /\ 0 \in NaN .. MaxX /\ NaN \in NaN .. MaxX
  BY <1>2, SizeFacts DEF Heights, NaN, MaxX
<1>5. PullIn(buffer).x = IF buffer.x >= cols THEN buffer.x - 1 ELSE buffer.x
  BY <1>2 DEF PullIn, BufferType
<1>6. ASSUME NEW n \in Param, cursorUp(n) PROVE \E c \in BufferType : Effect(c)
  BY <1>2, <1>3, <1>6, RangeFacts, MoveToEffect DEF cursorUp
<1>7. ASSUME NEW n \in Param, cursorDown(n) PROVE \E c \in BufferType : Effect(c)
  BY <1>2, <1>3, <1>5, <1>7, RangeFacts, MoveToEffect DEF cursorDown
<1>8. ASSUME NEW n \in Param, cursorForward(n) PROVE \E c \in BufferType : Effect(c)
  BY <1>2, <1>3, <1>8, RangeFacts, MoveToEffect DEF cursorForward
<1>9. ASSUME NEW n \in Param, cursorBackward(n) PROVE \E c \in BufferType : Effect(c)
  BY <1>2, <1>3, <1>5, <1>9, RangeFacts, MoveToEffect DEF cursorBackward
<1>10. ASSUME NEW n \in Param, cursorNextLine(n) PROVE \E c \in BufferType : Effect(c)
  BY <1>2, <1>3, <1>4, <1>10, RangeFacts, MoveToEffect DEF cursorNextLine
<1>11. ASSUME NEW n \in Param, cursorPrecedingLine(n) PROVE \E c \in BufferType : Effect(c)
  BY <1>2, <1>3, <1>4, <1>11, RangeFacts, MoveToEffect DEF cursorPrecedingLine
<1>12. ASSUME NEW n \in Param, cursorCharAbsolute(n) PROVE \E c \in BufferType : Effect(c)
  BY <1>2, <1>3, <1>12, RangeFacts, MoveToEffect DEF cursorCharAbsolute
<1>13. ASSUME NEW n \in Param, charPosAbsolute(n) PROVE \E c \in BufferType : Effect(c)
  BY <1>2, <1>3, <1>13, RangeFacts, MoveToEffect DEF charPosAbsolute
<1>14. ASSUME NEW n \in Param, linePosAbsolute(n) PROVE \E c \in BufferType : Effect(c)
  BY <1>2, <1>3, <1>14, RangeFacts, MoveToEffect DEF linePosAbsolute
<1>15. ASSUME NEW n \in Param, HVPosition(n) PROVE \E c \in BufferType : Effect(c)
  BY <1>2, <1>3, <1>4, <1>15, RangeFacts, MoveToEffect DEF HVPosition
<1>16. ASSUME NEW m \in Param, NEW n \in Param, cursorPosition(m, n)
       PROVE  \E c \in BufferType : Effect(c)
  BY <1>2, <1>3, <1>16, RangeFacts, MoveToEffect DEF cursorPosition
<1>. QED  BY <1>6, <1>7, <1>8, <1>9, <1>10, <1>11, <1>12, <1>13, <1>14, <1>15, <1>16
          DEF CursorMove

LEMMA ColumnEffect ==
  ASSUME IInv, NEW g, NEW x \in NaN .. MaxX, Output(g, [buffer EXCEPT !.x = x]), Tame
  PROVE  \E c \in BufferType : Effect(c)
<1>. DEFINE c == [buffer EXCEPT !.x = x]
<1>1. tame
  BY DEF Output, Parsing
<1>2. buffer \in BufferType /\ Placed(buffer, rows) /\ rows \in Heights
  BY <1>1, ActiveBuffer
<1>3. /\ c \in BufferType /\ Works(buffer, c)
      /\ Output(g, c)
  BY <1>2, PlacedNumbers, MovedWorks
<1>. HIDE DEF c
<1>4. Effect(c)
  BY <1>3, TameOutputEffect
<1>. QED  BY <1>3, <1>4

LEMMA CursorEffect ==
  ASSUME IInv, Cursor
  PROVE  \E c \in BufferType : Effect(c)
<1>1. tame
  BY DEF Cursor, CursorMove, cursorUp, cursorDown, cursorForward, cursorBackward, cursorNextLine,
         cursorPrecedingLine, cursorCharAbsolute, charPosAbsolute, linePosAbsolute,
         HVPosition, cursorPosition, MoveTo, Output, Parsing, backspace, tab,
         repeatPrecedingCharacter, saveCursor, restoreCursor
<1>. DEFINE b == buffer
<1>2. /\ b \in BufferType /\ Placed(b, rows)
      /\ rows \in Heights /\ cols \in 1 .. WideCols /\ WideCols \in Nat
  BY <1>1, ActiveBuffer
<1>3. /\ b.x \in NaN .. MaxX /\ b.y \in 0 .. rows - 1
      /\ b.savedY \in 0 .. Scrollback /\ b.ydisp \in Int /\ b.ydisp <= b.ybase
      /\ Scrollback \in Nat /\ rows \in 1 .. Scrollback
  BY <1>2, PlacedNumbers, SizeFacts DEF Heights
<1>4. 0 \in NaN .. MaxX
  BY <1>2 DEF NaN, MaxX
<1>. HIDE DEF b
<1>5. CASE CursorMove
  BY <1>5, CursorMoveEffect
<1>6. CASE backspace
  <2>. DEFINE x == IF b.x > 0 THEN b.x - 1 ELSE b.x
  <2>1. x \in NaN .. MaxX
    BY <1>2, <1>3 DEF NaN, MaxX
  <2>2. Output("cursor", [buffer EXCEPT !.x = x]) /\ Tame
    BY <1>6 DEF backspace, b
  <2>. HIDE DEF x
  <2>. QED  BY <2>1, <2>2, ColumnEffect
<1>7. CASE tab
  <2>1. NextStops(b.x) \subseteq NaN .. MaxX /\ PrevStops(b.x) \subseteq NaN .. MaxX
    <3>1. 1 \in Param
      BY ScreenAssumption DEF Param
    <3>. QED  BY <1>2, <1>3, <3>1, RangeFacts
  <2>2. PICK x \in NextStops(b.x) \union PrevStops(b.x) : Output("cursor", [buffer EXCEPT !.x = x])
    BY <1>7 DEF tab, b
  <2>3. x \in NaN .. MaxX /\ Tame
    BY <1>7, <2>1 DEF tab
  <2>. QED  BY <2>2, <2>3, ColumnEffect
<1>8. CASE repeatPrecedingCharacter
  <2>. DEFINE x == AtMost(Plus(b.x, 1), MaxX)
  <2>1. x \in NaN .. MaxX
    BY <1>2, <1>3 DEF NaN, MaxX, AtMost, Plus
  <2>2. Output("cursor", [buffer EXCEPT !.x = x]) /\ Tame
    BY <1>8 DEF repeatPrecedingCharacter, b
  <2>. HIDE DEF x
  <2>. QED  BY <2>1, <2>2, ColumnEffect
<1>9. CASE saveCursor
  <2>. DEFINE c == [b EXCEPT !.savedY = b.y]
  <2>1. b.y \in -1 .. Scrollback
    BY <1>3
  <2>2. /\ c \in BufferType /\ c.lines = b.lines /\ c.ybase = b.ybase /\ c.ydisp = b.ydisp
        /\ c.scrollTop = b.scrollTop /\ c.scrollBottom = b.scrollBottom
        /\ c.savedY = b.y /\ c.y = b.y
    BY <1>2, <2>1 DEF BufferType
  <2>3. Output("save", c) /\ Tame
    BY <1>9 DEF saveCursor, b
  <2>. HIDE DEF c
  <2>4. c.savedY \in 0 .. Scrollback
    BY <1>3, <2>2
  <2>5. Works(b, c)
    BY <1>2, <1>3, <2>2, <2>4, PositionWorks
  <2>6. Effect(c)
    BY <2>2, <2>3, <2>5, TameOutputEffect DEF b
  <2>. QED  BY <2>2, <2>6
<1>10. CASE restoreCursor
  <2>1. PICK x \in 0 .. MaxX : Output("save", [b EXCEPT !.x = x, !.y = b.savedY])
    BY <1>10 DEF restoreCursor, b
  <2>. DEFINE c == [b EXCEPT !.x = x, !.y = b.savedY]
              P == b.savedY \in 0 .. rows - 1
  <2>2. x \in NaN .. MaxX /\ b.savedY \in -1 .. Scrollback
    BY <1>2, <1>3 DEF NaN, MaxX
  <2>3. c \in BufferType
    BY <1>2, <2>2 DEF BufferType
  <2>4. P => Works(b, c)
    BY <1>2, <2>2, MovedWorks
  <2>5. TameIf(P)
    BY <1>10 DEF restoreCursor, b
  <2>6. Output("save", c)
    BY <2>1
  <2>7. P \in BOOLEAN
    OBVIOUS
  <2>. HIDE DEF c, P
  <2>8. Effect(c)
    BY <2>3, <2>4, <2>5, <2>6, <2>7, OutputEffect DEF b
  <2>. QED  BY <2>3, <2>8
<1>. QED  BY <1>5, <1>6, <1>7, <1>8, <1>9, <1>10 DEF Cursor

LEMMA RegionEffect ==
  ASSUME IInv, NEW m \in Param, NEW n \in Param, setScrollRegion(m, n)
  PROVE  \E c \in BufferType : Effect(c)
<1>. DEFINE b == buffer
            top == m - 1
            bottom == AtMost(n, rows) - 1
            c == [b EXCEPT !.scrollTop = top, !.scrollBottom = bottom, !.x = 0, !.y = 0]
            P == top <= bottom
<1>1. tame
  BY DEF setScrollRegion, Output, Parsing
<1>2. /\ b \in BufferType /\ Placed(b, rows)
      /\ rows \in Heights /\ cols \in 1 .. WideCols /\ WideCols \in Nat
  BY <1>1, ActiveBuffer
<1>3. /\ b.y \in 0 .. rows - 1 /\ b.savedY \in 0 .. Scrollback
      /\ Scrollback \in Nat /\ rows \in 1 .. Scrollback
      /\ MaxParam \in Nat
  BY <1>2, PlacedNumbers, SizeFacts, ScreenAssumption DEF Heights
<1>4. /\ top \in 0 .. Scrollback + MaxParam /\ bottom \in 0 .. Scrollback
      /\ bottom \in 0 .. rows - 1
      /\ P => top \in 0 .. bottom
      /\ 0 \in NaN .. MaxX /\ 0 \in -1 .. Scrollback
  BY <1>2, <1>3 DEF Param, AtMost, NaN, MaxX
<1>5. Output("region", c) /\ TameIf(P)
  BY DEF setScrollRegion
<1>6. P \in BOOLEAN
  OBVIOUS
<1>. HIDE DEF top, bottom, P, b
<1>7. /\ c \in BufferType /\ c.lines = b.lines /\ c.ybase = b.ybase /\ c.ydisp = b.ydisp
      /\ c.y = 0 /\ c.scrollBottom = bottom /\ c.scrollTop = top /\ c.savedY = b.savedY
  BY <1>2, <1>4 DEF BufferType
<1>. HIDE DEF c
<1>8. P => Works(b, c)
  BY <1>2, <1>4, <1>7, RegionWorks
<1>9. Effect(c)
  BY <1>5, <1>6, <1>7, <1>8, OutputEffect DEF b
<1>. QED  BY <1>7, <1>9

LEMMA SoftResetEffect ==
  ASSUME IInv, softReset
  PROVE  \E c \in BufferType : Effect(c)
<1>. DEFINE b == buffer
            c == [b EXCEPT !.scrollTop = 0, !.x = 0, !.y = 0, !.scrollBottom = rows - 1]
<1>1. tame
  BY DEF softReset, Parsing
<1>2. /\ b \in BufferType /\ Placed(b, rows)
      /\ rows \in Heights /\ cols \in 1 .. WideCols /\ WideCols \in Nat
  BY <1>1, ActiveBuffer
<1>3. /\ Scrollback \in Nat /\ rows \in 1 .. Scrollback
      /\ MaxParam \in Nat /\ buffers \in [{"normal", "alt"} -> BufferType]
      /\ active \in {"normal", "alt"} /\ userScrolling \in BOOLEAN /\ tame \in BOOLEAN
  BY <1>2, SizeFacts, ScreenAssumption DEF Heights, IInv, TypeOK
<1>4. /\ 0 \in 0 .. Scrollback + MaxParam /\ rows - 1 \in 0 .. Scrollback
      /\ rows - 1 \in 0 .. rows - 1 /\ 0 \in 0 .. rows - 1
      /\ 0 \in NaN .. MaxX /\ 0 \in -1 .. Scrollback
  BY <1>2, <1>3 DEF NaN, MaxX
<1>5. buffers' = [buffers EXCEPT ![active] = c]
  BY <1>3 DEF softReset, buffer
<1>. HIDE DEF b
<1>6. /\ c \in BufferType /\ c.lines = b.lines /\ c.ybase = b.ybase /\ c.ydisp = b.ydisp
      /\ c.y = 0 /\ c.scrollBottom = rows - 1 /\ c.scrollTop = 0 /\ c.savedY = b.savedY
  BY <1>2, <1>4 DEF BufferType
<1>. HIDE DEF c
<1>7. Works(b, c)
  BY <1>2, <1>4, <1>6, RegionWorks
<1>8. /\ UNCHANGED <<active, rows, cols, savedCols, stopped, ops>>
      /\ wraparound' = TRUE /\ userScrolling' = userScrolling /\ tame' = tame
  BY DEF softReset
<1>9. wraparound' \in BOOLEAN /\ userScrolling' \in BOOLEAN /\ tame' \in BOOLEAN
  BY <1>3, <1>8
<1>10. Effect(c)
  BY <1>1, <1>5, <1>6, <1>7, <1>8, <1>9 DEF Effect, b
<1>. QED  BY <1>6, <1>10

LEMMA SetWraparoundEffect ==
  ASSUME IInv, NEW on \in BOOLEAN, setWraparound(on)
  PROVE  \E c \in BufferType : Effect(c)
<1>1. tame
  BY DEF setWraparound, Parsing
<1>2. buffer \in BufferType /\ Placed(buffer, rows) /\ rows \in Heights
  BY <1>1, ActiveBuffer
<1>3. Works(buffer, buffer)
  BY <1>2, PlacedNumbers, PositionWorks
<1>4. buffers' = [buffers EXCEPT ![active] = buffer]
  BY DEF setWraparound, buffer, IInv, TypeOK
<1>5. /\ UNCHANGED <<active, rows, cols, savedCols, stopped, ops>>
      /\ wraparound' = on /\ userScrolling' = userScrolling /\ tame' = tame
  BY DEF setWraparound
<1>6. wraparound' \in BOOLEAN /\ userScrolling' \in BOOLEAN /\ tame' \in BOOLEAN
  BY <1>5 DEF IInv, TypeOK
<1>7. Effect(buffer)
  BY <1>1, <1>2, <1>3, <1>4, <1>5, <1>6 DEF Effect
<1>. QED  BY <1>2, <1>7

\* The user moves the view: it stays within the scrollback.
LEMMA ScrollDispEffect ==
  ASSUME IInv, NEW disp \in Int, scrollDisp(disp)
  PROVE  \E c \in BufferType : Effect(c)
<1>. DEFINE b == buffer
            d == AtLeast(AtMost(b.ydisp + disp, b.ybase), 0)
            c == [b EXCEPT !.ydisp = d]
<1>1. tame
  BY DEF scrollDisp
<1>2. b \in BufferType /\ Placed(b, rows) /\ rows \in Heights
  BY <1>1, ActiveBuffer
<1>3. /\ b.y \in 0 .. rows - 1 /\ b.savedY \in 0 .. Scrollback
      /\ b.ybase \in 0 .. Scrollback /\ b.ydisp \in Int /\ b.ydisp <= b.ybase
      /\ Scrollback \in Nat /\ rows \in 1 .. Scrollback
  BY <1>2, PlacedNumbers, SizeFacts DEF Heights
<1>4. d \in 0 .. b.ybase /\ d \in -1 .. Scrollback
  BY <1>3 DEF AtLeast, AtMost
<1>5. buffers' = [buffers EXCEPT ![active] = c]
  BY DEF scrollDisp, buffer, IInv, TypeOK
<1>6. /\ UNCHANGED <<active, rows, cols, savedCols, stopped, ops>>
      /\ wraparound' = wraparound /\ tame' = tame
  BY DEF scrollDisp
<1>7. wraparound' \in BOOLEAN /\ tame' \in BOOLEAN
  BY <1>6 DEF IInv, TypeOK
<1>8. userScrolling' \in BOOLEAN
  <2>1. userScrolling' \in {TRUE, FALSE, userScrolling}
    <3>1. disp < 0 \/ (disp >= 0 /\ disp + b.ydisp >= b.ybase)
          \/ ~ (disp < 0 \/ (disp >= 0 /\ disp + b.ydisp >= b.ybase))
      OBVIOUS
    <3>2. userScrolling' = CASE disp < 0 -> TRUE
                             [] disp >= 0 /\ disp + b.ydisp >= b.ybase -> FALSE
                             [] OTHER -> userScrolling
      BY DEF scrollDisp
    <3>3. CASE disp < 0
      <4>1. ~ (disp >= 0)
        BY <3>3
      <4>. QED  BY <3>2, <3>3, <4>1
    <3>4. CASE ~ (disp < 0) /\ disp >= 0 /\ disp + b.ydisp >= b.ybase
      BY <3>2, <3>4
    <3>5. CASE ~ (disp < 0) /\ ~ (disp >= 0 /\ disp + b.ydisp >= b.ybase)
      BY <3>2, <3>5
    <3>. QED  BY <3>3, <3>4, <3>5
  <2>. QED  BY <2>1 DEF IInv, TypeOK
<1>. HIDE DEF d, b
<1>9. /\ c \in BufferType /\ c.lines = b.lines /\ c.ybase = b.ybase /\ c.ydisp = d
      /\ c.y = b.y /\ c.scrollBottom = b.scrollBottom /\ c.scrollTop = b.scrollTop
      /\ c.savedY = b.savedY
  BY <1>2, <1>4 DEF BufferType
<1>. HIDE DEF c
<1>10. Works(b, c)
  BY <1>2, <1>3, <1>4, <1>9, PositionWorks
<1>11. Effect(c)
  BY <1>1, <1>5, <1>6, <1>7, <1>8, <1>9, <1>10 DEF Effect, b
<1>. QED  BY <1>9, <1>11

-----------------------------------------------------------------------------
(* Erasing of rows of the screen.                                          *)
LEMMA RowsEffect ==
  ASSUME IInv, NEW R \in SUBSET (0 .. rows - 1), Output("erase", EraseRows(buffer, R)), Tame
  PROVE  \E c \in BufferType : Effect(c)
<1>1. tame
  BY DEF Output, Parsing
<1>2. buffer \in BufferType /\ Placed(buffer, rows) /\ rows \in Heights
  BY <1>1, ActiveBuffer
<1>3. EraseRows(buffer, R) \in BufferType /\ Works(buffer, EraseRows(buffer, R))
  BY <1>2, EraseFacts
<1>. QED  BY <1>3, TameOutputEffect

LEMMA ErasingEffect ==
  ASSUME IInv, Erasing
  PROVE  (\E c \in BufferType : Effect(c)) \/ (~ tame /\ (Throw("erase") \/ Throw("cursor")))
<1>. DEFINE b == buffer
<1>1. ASSUME tame
      PROVE  /\ b \in BufferType /\ Placed(b, rows) /\ rows \in Heights
             /\ rows \in Nat \ {0} /\ b.y \in 0 .. rows - 1
             /\ HasLine(b)
  <2>1. b \in BufferType /\ Placed(b, rows) /\ rows \in Heights
    BY <1>1, ActiveBuffer
  <2>2. /\ b.y \in 0 .. rows - 1 /\ b.ybase \in Nat /\ b.ybase + rows = b.lines.length
        /\ rows \in Nat \ {0}
    BY <2>1, PlacedNumbers, SizeFacts DEF Heights
  <2>3. Row(b) \in 0 .. b.lines.length - 1
    BY <2>2 DEF Row
  <2>4. Get(b.lines, Row(b)) \in Texts
    BY <2>1, <2>3 DEF Placed, Filled
  <2>5. HasLine(b)
    BY <2>4, ScreenAssumption DEF HasLine, Texts
  <2>. QED  BY <2>1, <2>2, <2>5
<1>. HIDE DEF b
<1>2. ASSUME tame, NEW blank
      PROVE  /\ OwnRow(b, blank) \in SUBSET (0 .. rows - 1)
             /\ OwnRow(b, blank) \union (b.y + 1 .. rows - 1) \in SUBSET (0 .. rows - 1)
             /\ OwnRow(b, blank) \union (0 .. b.y - 1) \in SUBSET (0 .. rows - 1)
             /\ {b.y} \in SUBSET (0 .. rows - 1)
  BY <1>1, <1>2 DEF OwnRow
<1>3. ASSUME NEW R, Output("erase", EraseRows(b, R)), Tame, tame => R \in SUBSET (0 .. rows - 1)
      PROVE  \E c \in BufferType : Effect(c)
  <2>1. tame
    BY <1>3 DEF Output, Parsing
  <2>. QED  BY <1>3, <2>1, RowsEffect DEF b
<1>4. CASE eraseRight
  <2>1. PICK blank \in RightBlank(b.x) : Output("erase", EraseRows(b, OwnRow(b, blank))) /\ Tame
    BY <1>4 DEF eraseRight, b
  <2>. QED  BY <1>2, <1>3, <2>1
<1>5. CASE eraseLeft
  <2>1. PICK blank \in LeftBlank(b.x) : Output("erase", EraseRows(b, OwnRow(b, blank))) /\ Tame
    BY <1>5 DEF eraseLeft, b
  <2>. QED  BY <1>2, <1>3, <2>1
<1>6. CASE eraseLine
  BY <1>2, <1>3, <1>6 DEF eraseLine, b
<1>7. CASE eraseBelow
  <2>1. PICK blank \in RightBlank(b.x) :
           Output("erase", EraseRows(b, OwnRow(b, blank) \union (b.y + 1 .. rows - 1))) /\ Tame
    BY <1>7 DEF eraseBelow, b
  <2>. QED  BY <1>2, <1>3, <2>1
<1>8. CASE eraseAbove
  <2>1. PICK blank \in LeftBlank(b.x) :
           Output("erase", EraseRows(b, OwnRow(b, blank) \union (0 .. b.y - 1))) /\ Tame
    BY <1>8 DEF eraseAbove, b
  <2>. QED  BY <1>2, <1>3, <2>1
<1>9. CASE eraseAboveLoops
  <2>1. Throw("erase") /\ b.y < 0
    BY <1>9 DEF eraseAboveLoops, b
  <2>2. ~ tame
    BY <1>1, <2>1
  <2>. QED  BY <2>1, <2>2
<1>10. CASE eraseAll
  BY <1>3, <1>10 DEF eraseAll, b
<1>11. CASE editCells
  <2>1. PICK blank \in BOOLEAN : Output("erase", EraseRows(b, OwnRow(b, blank))) /\ Tame
    BY <1>11 DEF editCells, b
  <2>. QED  BY <1>2, <1>3, <2>1
<1>12. CASE editFails
  <2>1. (Throw("erase") \/ Throw("cursor")) /\ ~ HasLine(b)
    BY <1>12 DEF editFails, b
  <2>. QED  BY <1>1, <2>1
<1>. QED  BY <1>4, <1>5, <1>6, <1>7, <1>8, <1>9, <1>10, <1>11, <1>12 DEF Erasing

-----------------------------------------------------------------------------
(* Printing.                                                               *)
LEMMA WrittenFacts ==
  ASSUME NEW b \in BufferType, rows \in Heights, NEW ink \in Ink, NEW w \in 1 .. 2,
         WideCols \in Nat
  PROVE  LET c == Written(b, ink, w)
         IN /\ c \in BufferType
            /\ Placed(b, rows) =>
                  /\ Placed(c, rows) /\ c.ybase = b.ybase /\ c.ydisp = b.ydisp
                  /\ b.ydisp >= 0 => \A y \in InScrollback(b) : KeepsRow(c, b, y)
                  /\ Screen(c) = [Screen(b) EXCEPT !.text[Screen(b).y] = ink]
<1>. DEFINE c == Written(b, ink, w)
            l == b.lines
            m == Set(l, Row(b), ink)
            x == AtMost(Plus(b.x, w), MaxX)
<1>1. /\ l \in ListType /\ b.x \in NaN .. MaxX /\ Scrollback \in Nat
      /\ b.ybase \in Int /\ b.y \in Int
  BY SizeFacts DEF BufferType
<1>2. x \in NaN .. MaxX
  BY <1>1 DEF AtMost, Plus, NaN, MaxX
<1>3. Row(b) \in Int /\ ink \in Texts
  BY <1>1 DEF Row, Texts
<1>4. m \in ListType /\ m.length = l.length
  BY <1>1, <1>3, SetType
<1>5. c = [b EXCEPT !.lines = m, !.x = x]
  BY DEF Written
<1>. HIDE DEF m, x
<1>6. /\ c \in BufferType /\ c.lines = m /\ c.ybase = b.ybase /\ c.ydisp = b.ydisp
      /\ c.y = b.y /\ c.scrollTop = b.scrollTop /\ c.scrollBottom = b.scrollBottom
      /\ c.savedY = b.savedY
  BY <1>2, <1>4, <1>5 DEF BufferType
<1>. HIDE DEF c
<1>7. ASSUME Placed(b, rows)
      PROVE  /\ Placed(c, rows)
             /\ b.ydisp >= 0 => \A y \in InScrollback(b) : KeepsRow(c, b, y)
             /\ Screen(c) = [Screen(b) EXCEPT !.text[Screen(b).y] = ink]
  <2>1. /\ b.ybase \in 0 .. Scrollback /\ b.y \in 0 .. rows - 1 /\ rows \in Nat
        /\ l.length \in 1 .. Scrollback /\ b.ybase + rows = l.length
        /\ b.ydisp \in Int /\ b.ydisp <= b.ybase
    BY <1>1, <1>7, PlacedNumbers DEF Heights
  <2>2. Row(b) \in 0 .. Scrollback - 1 /\ Row(b) = b.ybase + b.y
    BY <1>1, <2>1 DEF Row
  <2>3. \A j \in 0 .. Scrollback - 1 : Get(m, j) = IF j = Row(b) THEN ink ELSE Get(l, j)
    BY <1>1, <1>3, <2>2, SetGet DEF m
  <2>4. Placed(c, rows)
    <3>1. \A i \in 0 .. l.length - 1 : Get(l, i) \in Texts /\ i \in 0 .. Scrollback - 1
      BY <1>1, <1>7, <2>1 DEF Placed, Filled
    <3>2. Filled(m)
      <4>. HIDE DEF l
      <4>. QED  BY <1>3, <1>4, <2>3, <3>1 DEF Filled
    <3>. QED  BY <1>4, <1>6, <1>7, <3>2 DEF Placed
  <2>5. ASSUME b.ydisp >= 0, NEW y \in InScrollback(b) PROVE KeepsRow(c, b, y)
    <3>1. y \in 0 .. rows - 1 /\ b.ydisp + y < b.ybase
      BY DEF InScrollback
    <3>2. b.ydisp + y \in 0 .. Scrollback - 1 /\ b.ydisp + y # Row(b)
      BY <1>1, <2>1, <2>2, <2>5, <3>1
    <3>. QED  BY <1>6, <2>3, <3>1, <3>2 DEF KeepsRow, InScrollback, ViewedLine
  <2>6. Screen(c) = [Screen(b) EXCEPT !.text[Screen(b).y] = ink]
    <3>. DEFINE s == Screen(b)
                t == Screen(c)
                X == [s.text EXCEPT ![s.y] = ink]
                e == [s EXCEPT !.text = X]
    <3>1. /\ s \in ScreenType /\ DOMAIN s.text = 0 .. rows - 1
          /\ \A y \in 0 .. rows - 1 : s.text[y] = LineOf(b, y)
          /\ s.y = b.y /\ s.top = b.scrollTop /\ s.bottom = b.scrollBottom
      BY ScreenFacts
    <3>2. /\ t \in ScreenType /\ DOMAIN t.text = 0 .. rows - 1
          /\ \A y \in 0 .. rows - 1 : t.text[y] = LineOf(c, y)
          /\ t.y = b.y /\ t.top = b.scrollTop /\ t.bottom = b.scrollBottom
      BY <1>6, ScreenFacts
    <3>. HIDE DEF s, t
    <3>3. X \in [0 .. rows - 1 -> Texts \union {NoLine}]
      BY <1>3, <3>1 DEF ScreenType
    <3>4. e \in ScreenType /\ e.text = X /\ e.y = s.y /\ e.top = s.top /\ e.bottom = s.bottom
      <4>. HIDE DEF X
      <4>. QED  BY <3>1, <3>3, ScreenExcept
    <3>5. t.text = X
      <4>1. ASSUME NEW y \in 0 .. rows - 1 PROVE t.text[y] = X[y]
        <5>1. b.ybase + y \in 0 .. Scrollback - 1
          BY <1>1, <2>1
        <5>2. b.ybase + y = Row(b) <=> y = b.y
          BY <1>1, <2>1, <2>2
        <5>3. LineOf(c, y) = IF y = b.y THEN ink ELSE LineOf(b, y)
          BY <1>6, <2>3, <5>1, <5>2 DEF LineOf
        <5>. QED  BY <3>1, <3>2, <5>3
      <4>2. t.text \in [0 .. rows - 1 -> Texts \union {NoLine}]
        BY <3>2 DEF ScreenType
      <4>. DEFINE D == 0 .. rows - 1
                  V == Texts \union {NoLine}
      <4>3. X \in [D -> V] /\ t.text \in [D -> V] /\ \A y \in D : t.text[y] = X[y]
        BY <3>3, <4>1, <4>2
      <4>. HIDE DEF X, D, V
      <4>. QED  BY <4>3
    <3>6. t = e
      <4>. HIDE DEF e, X
      <4>. QED  BY <3>1, <3>2, <3>4, <3>5, SameScreen
    <3>7. e = [s EXCEPT !.text[s.y] = ink]
      BY <3>1 DEF ScreenType
    <3>. QED  BY <3>6, <3>7 DEF s, t
  <2>. QED  BY <2>4, <2>5, <2>6
<1>. QED  BY <1>6, <1>7 DEF c

\* A view that is kept by a step down is kept when that row is written.
LEMMA AddCharEffect ==
  ASSUME IInv, NEW ink \in Ink, NEW w \in 1 .. 2, addChar(ink, w)
  PROVE  \E c \in BufferType : Effect(c)
<1>. DEFINE b == buffer
            down == NextRow(b)
            wrapped == [down EXCEPT !.x = 0]
            at == IF Wraps(b, w) /\ wraparound THEN wrapped ELSE b
            c == IF Wraps(b, w) /\ ~ wraparound /\ w = 2 THEN b ELSE Written(at, ink, w)
            P == ~ (Wraps(b, w) /\ wraparound /\ LosesLine(b))
<1>1. Output("print", c) /\ TameIf(P)
  BY DEF addChar
<1>2. tame
  BY <1>1 DEF Output, Parsing
<1>3. /\ b \in BufferType /\ Placed(b, rows)
      /\ rows \in Heights /\ WideCols \in Nat
  BY <1>2, ActiveBuffer
<1>4. P \in BOOLEAN
  OBVIOUS
<1>5. /\ down \in BufferType /\ down.x = b.x
      /\ ~ LosesLine(b) => /\ Placed(down, rows) /\ KeepsView(down, b)
                           /\ Screen(down) = Ideal!NextRow(Screen(b))
  BY <1>3, NextRowFacts
<1>. HIDE DEF b, down
<1>6. 0 \in NaN .. MaxX
  BY <1>3 DEF NaN, MaxX
<1>7. /\ wrapped \in BufferType /\ wrapped.lines = down.lines /\ wrapped.ybase = down.ybase
      /\ wrapped.ydisp = down.ydisp /\ wrapped.y = down.y /\ wrapped.savedY = down.savedY
      /\ wrapped.scrollTop = down.scrollTop /\ wrapped.scrollBottom = down.scrollBottom
  BY <1>5, <1>6 DEF BufferType
<1>. HIDE DEF wrapped
<1>8. ~ LosesLine(b) => /\ Placed(wrapped, rows) /\ KeepsView(wrapped, b)
                        /\ Screen(wrapped) = Ideal!NextRow(Screen(b))
  <2>1. Placed(down, rows) => Placed(wrapped, rows)
    BY <1>7 DEF Placed
  <2>2. KeepsView(down, b) => KeepsView(wrapped, b)
    BY <1>7, SameView
  <2>3. Screen(wrapped) = Screen(down)
    BY <1>7 DEF Screen, LineOf
  <2>. QED  BY <1>5, <2>1, <2>2, <2>3
<1>9. CASE Wraps(b, w) /\ ~ wraparound /\ w = 2
  <2>1. c = b
    BY <1>9
  <2>2. Works(b, b)
    BY <1>3, PlacedNumbers, PositionWorks
  <2>. HIDE DEF c, P
  <2>3. Effect(c)
    BY <1>1, <1>3, <1>4, <2>1, <2>2, OutputEffect DEF b
  <2>. QED  BY <1>3, <2>1, <2>3
<1>10. CASE ~ (Wraps(b, w) /\ ~ wraparound /\ w = 2)
  <2>. DEFINE d == Written(at, ink, w)
  <2>1. c = d
    BY <1>10
  <2>2. at \in BufferType
    BY <1>3, <1>7
  <2>3. P => /\ Placed(at, rows)
             /\ at = b \/ KeepsView(at, b)
             /\ Screen(at) \in {Screen(b), Ideal!NextRow(Screen(b))}
    BY <1>3, <1>8
  <2>4. P => KeepsView(at, b)
    BY <1>3, <2>3, OwnView
  <2>. HIDE DEF at, P, c
  <2>5. /\ d \in BufferType
        /\ P => /\ Placed(d, rows) /\ d.ybase = at.ybase /\ d.ydisp = at.ydisp
                /\ at.ydisp >= 0 => \A y \in InScrollback(at) : KeepsRow(d, at, y)
                /\ Screen(d) = [Screen(at) EXCEPT !.text[Screen(at).y] = ink]
    BY <1>3, <2>2, <2>3, WrittenFacts
  <2>. HIDE DEF d
  <2>6. P => IdealStep(Screen(b), Screen(d))
    BY <2>3, <2>5 DEF IdealStep
  <2>7. P => KeepsView(d, b)
    <3>. SUFFICES ASSUME P PROVE KeepsView(d, b)
      OBVIOUS
    <3>1. ASSUME userScrolling, d.ybase > 0, StaysInList(b), NEW y \in InScrollback(b)
          PROVE  KeepsRow(d, b, y) \/ BlanksRow(d, b, y)
      <4>1. at.ydisp >= 0 /\ at.ybase > 0
        BY <2>4, <2>5, <3>1 DEF KeepsView
      <4>2. KeepsRow(at, b, y) \/ BlanksRow(at, b, y)
        BY <2>4, <3>1, <4>1 DEF KeepsView
      <4>3. y \in InScrollback(at)
        BY <4>2 DEF KeepsRow, BlanksRow
      <4>4. KeepsRow(d, at, y)
        BY <2>5, <4>1, <4>3
      <4>. QED  BY <4>2, <4>4 DEF KeepsRow, BlanksRow
    <3>. QED  BY <2>4, <2>5, <3>1 DEF KeepsView
  <2>8. P => Works(b, d)
    BY <2>5, <2>6, <2>7 DEF Works
  <2>9. Effect(d)
    BY <1>1, <1>4, <2>1, <2>5, <2>8, OutputEffect DEF b, P
  <2>. QED  BY <2>5, <2>9
<1>. QED  BY <1>9, <1>10

LEMMA LineFeedEffect ==
  ASSUME IInv, lineFeed
  PROVE  \E c \in BufferType : Effect(c)
<1>. DEFINE b == buffer
            down == NextRow(b)
            c == PullIn(down)
            P == ~ LosesLine(b)
<1>1. Output("feed", c) /\ TameIf(P)
  BY DEF lineFeed
<1>2. tame
  BY <1>1 DEF Output, Parsing
<1>3. /\ b \in BufferType /\ Placed(b, rows)
      /\ rows \in Heights /\ WideCols \in Nat /\ cols \in 1 .. WideCols
  BY <1>2, ActiveBuffer
<1>4. P \in BOOLEAN
  BY DEF LosesLine
<1>5. /\ down \in BufferType /\ down.x = b.x
      /\ P => /\ Placed(down, rows) /\ KeepsView(down, b)
              /\ Screen(down) = Ideal!NextRow(Screen(b))
  BY <1>3, NextRowFacts
<1>. HIDE DEF down
<1>6. /\ c \in BufferType /\ c.lines = down.lines /\ c.ybase = down.ybase
      /\ c.ydisp = down.ydisp /\ c.y = down.y /\ c.savedY = down.savedY
      /\ c.scrollTop = down.scrollTop /\ c.scrollBottom = down.scrollBottom
  <2>1. CASE down.x >= cols
    <3>1. down.x - 1 \in NaN .. MaxX
      BY <1>3, <1>5, <2>1 DEF BufferType, NaN, MaxX
    <3>. QED  BY <1>5, <2>1, <3>1 DEF PullIn, BufferType
  <2>2. CASE ~ (down.x >= cols)
    BY <1>5, <2>2 DEF PullIn
  <2>. QED  BY <2>1, <2>2
<1>. HIDE DEF c
<1>7. P => Works(b, c)
  <2>. SUFFICES ASSUME P PROVE Works(b, c)
    OBVIOUS
  <2>1. Placed(c, rows)
    BY <1>5, <1>6 DEF Placed
  <2>2. KeepsView(c, b)
    BY <1>5, <1>6, SameView
  <2>3. Screen(c) = Screen(down)
    BY <1>6 DEF Screen, LineOf
  <2>4. Screen(c) = Ideal!NextRow(Screen(b))
    BY <1>5, <2>3
  <2>5. IdealStep(Screen(b), Screen(c))
    BY <2>4 DEF IdealStep
  <2>. QED  BY <2>1, <2>2, <2>5 DEF Works
<1>. HIDE DEF P
<1>8. Effect(c)
  BY <1>1, <1>4, <1>6, <1>7, OutputEffect
<1>. QED  BY <1>6, <1>8

LEMMA PlacedHasLine ==
  ASSUME NEW b \in BufferType, rows \in Heights, Placed(b, rows)
  PROVE  HasLine(b)
<1>1. /\ b.y \in 0 .. rows - 1 /\ b.ybase \in Nat /\ b.ybase + rows = b.lines.length
      /\ rows \in Nat \ {0}
  BY PlacedNumbers, SizeFacts DEF Heights
<1>2. Row(b) \in 0 .. b.lines.length - 1
  BY <1>1 DEF Row
<1>3. Get(b.lines, Row(b)) \in Texts
  BY <1>2 DEF Placed, Filled
<1>. QED  BY <1>3, ScreenAssumption DEF HasLine, Texts

(* The cursor keeps a line even where a scroll loses one: the list was     *)
(* full, so every slot of the array has a text and keeps one.              *)
AllWritten(l) == l \in ListType /\ l.array \in [0 .. Scrollback - 1 -> Texts]

LEMMA WrittenGet ==
  ASSUME NEW l, AllWritten(l), NEW i \in Int, l.startIndex + i >= 0
  PROVE  Get(l, i) \in Texts
<1>1. /\ l.startIndex \in 0 .. Scrollback - 1 /\ l.maxLength = Scrollback
      /\ Scrollback \in Nat \ {0}
  BY SizeFacts DEF AllWritten, ListType
<1>2. CyclicIndex(l, i) \in 0 .. Scrollback - 1
  BY <1>1 DEF CyclicIndex
<1>3. Get(l, i) = l.array[CyclicIndex(l, i)]
  BY <1>1 DEF Get
<1>. QED  BY <1>2, <1>3 DEF AllWritten

LEMMA WrittenCopy ==
  ASSUME NEW l, AllWritten(l), NEW to \in SUBSET Int, NEW by \in Int,
         \A i \in to : i - by >= 0
  PROVE  AllWritten(CopyUp(l, to, by))
<1>. DEFINE I(s) == IF IndexOf(l, s) \in to THEN IndexOf(l, s) ELSE IndexOf(l, s) + l.maxLength
            A == [s \in DOMAIN l.array |->
                    IF I(s) \in to THEN Get(l, I(s) - by) ELSE l.array[s]]
            m == CopyUp(l, to, by)
<1>1. m \in ListType /\ l \in ListType /\ l.startIndex \in Nat
  BY CopyUpType, SizeFacts DEF AllWritten, ListType
<1>2. m = [l EXCEPT !.array = A]
  BY DEF CopyUp
<1>3. m.array = A
  BY <1>1, <1>2 DEF ListType
<1>4. DOMAIN l.array = 0 .. Scrollback - 1
  BY DEF AllWritten
<1>5. ASSUME NEW s \in 0 .. Scrollback - 1
      PROVE  (IF I(s) \in to THEN Get(l, I(s) - by) ELSE l.array[s]) \in Texts
  <2>1. CASE I(s) \in to
    <3>. DEFINE i == I(s)
    <3>1. i \in Int /\ i - by >= 0
      BY <2>1
    <3>. HIDE DEF i
    <3>2. l.startIndex + (i - by) >= 0 /\ i - by \in Int
      BY <1>1, <3>1
    <3>3. Get(l, i - by) \in Texts
      BY <3>2, WrittenGet
    <3>. QED  BY <2>1, <3>3 DEF i
  <2>2. CASE I(s) \notin to
    <3>. HIDE DEF I
    <3>. QED  BY <2>2 DEF AllWritten
  <2>. HIDE DEF I
  <2>. QED  BY <2>1, <2>2
<1>6. A \in [0 .. Scrollback - 1 -> Texts]
  <2>. HIDE DEF I
  <2>. QED  BY <1>4, <1>5
<1>. QED  BY <1>1, <1>3, <1>6 DEF AllWritten

LEMMA WrittenLists ==
  ASSUME NEW l, AllWritten(l), NEW s \in Nat
  PROVE  /\ AllWritten(Set(l, s, Blank))
         /\ AllWritten(trimStart(l, 1))
         /\ ~ IsFull(l) => AllWritten(push(l, Blank)) /\ AllWritten(insert(l, s, Blank))
         /\ l.length > 0 => AllWritten(remove(l, s))
<1>0. /\ l \in ListType /\ l.array \in [0 .. Scrollback - 1 -> Texts] /\ Blank \in Texts
      /\ Scrollback \in Nat /\ Scrollback > 1 /\ l.length \in Nat
      /\ l.startIndex \in Nat
  BY SizeFacts DEF AllWritten, Texts, ListType
<1>1. ASSUME NEW k, AllWritten(k), NEW i \in Nat PROVE AllWritten(Set(k, i, Blank))
  <2>1. k \in ListType /\ k.array \in [0 .. Scrollback - 1 -> Texts] /\ k.startIndex \in Nat
    BY <1>1, SizeFacts DEF AllWritten, ListType
  <2>2. Set(k, i, Blank) \in ListType
    BY <1>0, <2>1, SetType
  <2>3. Set(k, i, Blank) = [k EXCEPT !.array[CyclicIndex(k, i)] = Blank]
    BY <2>1 DEF Set
  <2>4. Set(k, i, Blank).array = [k.array EXCEPT ![CyclicIndex(k, i)] = Blank]
    BY <2>1, <2>3 DEF ListType
  <2>. QED  BY <1>0, <2>1, <2>2, <2>4 DEF AllWritten
<1>2. AllWritten(trimStart(l, 1))
  <2>1. trimStart(l, 1).array = l.array
    BY <1>0 DEF trimStart, ListType
  <2>2. trimStart(l, 1) \in ListType
    <3>1. CASE l.length > 0
      <4>1. 1 \in 0 .. l.length
        BY <1>0, <3>1
      <4>. QED  BY <1>0, <4>1, TrimFacts
    <3>2. CASE l.length = 0
      <4>1. 0 \in 0 .. l.length /\ ~ (0 > l.length) /\ 1 > l.length
        BY <1>0, <3>2
      <4>2. trimStart(l, 1) = trimStart(l, 0)
        BY <3>2, <4>1 DEF trimStart
      <4>. QED  BY <1>0, <4>1, <4>2, TrimFacts
    <3>. QED  BY <1>0, <3>1, <3>2
  <2>. QED  BY <1>0, <2>1, <2>2 DEF AllWritten
<1>3. ASSUME ~ IsFull(l) PROVE AllWritten(push(l, Blank)) /\ AllWritten(insert(l, s, Blank))
  <2>1. push(l, Blank) \in ListType
    BY <1>0, PushType
  <2>2. AllWritten(push(l, Blank))
    <3>. DEFINE w == Set(l, l.length, Blank)
    <3>1. AllWritten(w)
      BY <1>0, <1>1
    <3>2. push(l, Blank) = [w EXCEPT !.length = w.length + 1]
      BY <1>3 DEF push
    <3>. HIDE DEF w
    <3>3. push(l, Blank).array = w.array
      BY <3>1, <3>2 DEF AllWritten, ListType
    <3>. QED  BY <2>1, <3>1, <3>3 DEF AllWritten
  <2>3. insert(l, s, Blank) \in ListType
    BY <1>0, <1>3, InsertType
  <2>4. AllWritten(insert(l, s, Blank))
    <3>. DEFINE to == s + 1 .. l.length
                k == CopyUp(l, to, 1)
                w == Set(k, s, Blank)
    <3>1. to \in SUBSET Int /\ \A i \in to : i - 1 >= 0
      BY <1>0
    <3>2. insert(l, s, Blank) = [w EXCEPT !.length = w.length + 1]
      BY <1>3 DEF insert
    <3>. HIDE DEF to
    <3>3. AllWritten(k)
      BY <3>1, WrittenCopy
    <3>. HIDE DEF k
    <3>4. AllWritten(w)
      BY <1>1, <3>3
    <3>. HIDE DEF w
    <3>5. insert(l, s, Blank).array = w.array
      BY <3>2, <3>4 DEF AllWritten, ListType
    <3>. QED  BY <2>3, <3>4, <3>5 DEF AllWritten
  <2>. QED  BY <2>2, <2>4
<1>4. ASSUME l.length > 0 PROVE AllWritten(remove(l, s))
  <2>1. remove(l, s) \in ListType
    BY <1>0, <1>4, RemoveType
  <2>. DEFINE to == s .. l.length - 2
              k == CopyUp(l, to, -1)
  <2>2. ASSUME NEW by \in Int, by = -1 PROVE to \in SUBSET Int /\ \A i \in to : i - by >= 0
    BY <1>0, <2>2
  <2>3. remove(l, s) = [k EXCEPT !.length = k.length - 1]
    BY DEF remove
  <2>. HIDE DEF to
  <2>4. ASSUME NEW by \in Int, by = -1 PROVE AllWritten(CopyUp(l, to, by))
    BY <2>2, <2>4, WrittenCopy
  <2>5. AllWritten(k)
    BY <2>4
  <2>. HIDE DEF k
  <2>6. remove(l, s).array = k.array
    BY <2>3, <2>5 DEF AllWritten, ListType
  <2>. QED  BY <2>1, <2>5, <2>6 DEF AllWritten
<1>. QED  BY <1>0, <1>1, <1>2, <1>3, <1>4

LEMMA FullWritten ==
  ASSUME NEW l \in ListType, l.length = Scrollback, Filled(l)
  PROVE  AllWritten(l)
<1>1. ASSUME NEW s \in 0 .. Scrollback - 1 PROVE l.array[s] \in Texts
  <2>. DEFINE i == IndexOf(l, s)
  <2>1. i \in 0 .. Scrollback - 1 /\ CyclicIndex(l, i) = s
    BY IndexFacts
  <2>. HIDE DEF i
  <2>2. Get(l, i) = l.array[s]
    BY <2>1, SlotFacts
  <2>. QED  BY <2>1, <2>2 DEF Filled
<1>2. l.array \in [0 .. Scrollback - 1 -> Texts \union {NoLine}]
  BY DEF ListType
<1>. QED  BY <1>1, <1>2 DEF AllWritten

\* The row of the cursor after such a scroll.
LEMMA ScrollHasLine ==
  ASSUME NEW b \in BufferType, rows \in Heights, Placed(b, rows), LosesLine(b)
  PROVE  HasLine(NextRow(b))
<1>. DEFINE u == TrimIfFull(b)
            a == AddBottom(u)
            s == RemoveTop(a)
<1>1. /\ b.lines \in ListType /\ b.lines.length = Scrollback /\ b.ybase = 0
      /\ b.y \in 0 .. Scrollback - 1 /\ Scrollback \in Nat /\ Scrollback > 1
      /\ IsFull(b.lines) /\ b.scrollTop # 0 /\ b.y + 1 > b.scrollBottom
      /\ b.scrollTop \in Nat /\ b.scrollBottom \in 0 .. rows - 1 /\ rows = Scrollback
  BY PlacedNumbers, SizeFacts DEF LosesLine, Heights
<1>2. AllWritten(b.lines)
  BY <1>1, FullWritten DEF Placed
<1>3. /\ u \in BufferType /\ SamePlace(u, b) /\ ~ IsFull(u.lines)
      /\ u.lines.length = Scrollback - 1 /\ u.ybase = -1
      /\ u.lines = trimStart(b.lines, 1)
  <2>1. u.lines = trimStart(b.lines, 1)
    BY <1>1 DEF TrimIfFull, BufferType
  <2>. HIDE DEF u
  <2>2. Lost(b) = 1
    BY <1>1 DEF Lost
  <2>. QED  BY <1>1, <2>1, <2>2, TrimIfFullFacts DEF u
<1>4. AllWritten(u.lines)
  BY <1>2, <1>3, WrittenLists, SizeFacts
<1>. HIDE DEF u
<1>5. /\ SamePlace(a, u) /\ a.ybase = 0 /\ a.lines.length = Scrollback /\ a \in BufferType
  <2>1. u.ybase + rows = u.lines.length /\ u.scrollBottom \in 0 .. rows - 1
    BY <1>1, <1>3 DEF SamePlace
  <2>2. /\ SamePlace(a, u) /\ a.lines.length = u.lines.length + 1
        /\ a.ybase = u.ybase + 1 /\ a \in BufferType
    BY <1>3, <2>1, AddBottomFacts
  <2>. QED  BY <1>1, <1>3, <2>2
<1>6. AllWritten(a.lines)
  <2>. DEFINE row == u.ybase + 1 + u.scrollBottom
  <2>1. row \in Nat
    BY <1>1, <1>3 DEF SamePlace
  <2>2. a.lines = IF row = u.lines.length THEN push(u.lines, Blank)
                                          ELSE insert(u.lines, row, Blank)
    BY <1>3 DEF AddBottom, BufferType
  <2>. HIDE DEF row, a
  <2>. QED  BY <1>3, <1>4, <2>1, <2>2, WrittenLists
<1>. HIDE DEF a
<1>7. s.lines = remove(a.lines, a.scrollTop) /\ s.ybase = 0 /\ s.y = a.y
  <2>1. 0 + a.scrollTop = a.scrollTop
    BY <1>1, <1>3, <1>5 DEF SamePlace
  <2>. QED  BY <1>5, <2>1 DEF RemoveTop, BufferType
<1>8. AllWritten(s.lines)
  <2>1. a.scrollTop \in Nat /\ a.lines.length > 0
    BY <1>1, <1>3, <1>5 DEF SamePlace
  <2>. HIDE DEF s
  <2>. QED  BY <1>6, <1>7, <2>1, WrittenLists
<1>9. NextRow(b) = s
  <2>1. a.scrollTop # 0
    BY <1>1, <1>3, <1>5 DEF SamePlace
  <2>. QED  BY <1>1, <2>1 DEF NextRow, scroll, a, u
<1>. HIDE DEF s
<1>10. Row(s) = b.y
  BY <1>1, <1>3, <1>5, <1>7 DEF Row, SamePlace
<1>11. Get(s.lines, b.y) \in Texts
  <2>1. s.lines.startIndex \in Nat
    BY <1>8, SizeFacts DEF AllWritten, ListType
  <2>. QED  BY <1>1, <1>8, <2>1, WrittenGet
<1>. QED  BY <1>9, <1>10, <1>11, ScreenAssumption DEF HasLine, Texts

LEMMA PrintingEffect ==
  ASSUME IInv, Printing
  PROVE  (\E c \in BufferType : Effect(c)) \/ (~ tame /\ Throw("print"))
<1>1. ASSUME NEW ink \in Ink, NEW w \in 1 .. 2, addChar(ink, w)
      PROVE  \E c \in BufferType : Effect(c)
  BY <1>1, AddCharEffect
<1>2. ASSUME NEW w \in 1 .. 2, addCharFails(w)
      PROVE  ~ tame /\ Throw("print")
  <2>. SUFFICES ASSUME tame PROVE FALSE
    BY <1>2 DEF addCharFails
  <2>. DEFINE b == buffer
  <2>1. b \in BufferType /\ Placed(b, rows) /\ rows \in Heights
    BY ActiveBuffer
  <2>2. ~ HasLine(b) \/ ~ HasLine(NextRow(b))
    BY <1>2 DEF addCharFails
  <2>3. HasLine(NextRow(b))
    <3>1. CASE LosesLine(b)
      BY <2>1, <3>1, ScrollHasLine
    <3>2. CASE ~ LosesLine(b)
      BY <2>1, <3>2, NextRowFacts, PlacedHasLine
    <3>. QED  BY <3>1, <3>2
  <2>. QED  BY <2>1, <2>2, <2>3, PlacedHasLine
<1>3. CASE lineFeed
  BY <1>3, LineFeedEffect
<1>4. CASE carriageReturn
  <2>1. 0 \in NaN .. MaxX
    BY ScreenAssumption DEF NaN, MaxX
  <2>. QED  BY <1>4, <2>1, ColumnEffect DEF carriageReturn
<1>. QED  BY <1>1, <1>2, <1>3, <1>4 DEF Printing

-----------------------------------------------------------------------------
(* Operations on lines.                                                    *)
LEMMA TrimmedFacts ==
  ASSUME NEW b \in BufferType, rows \in Heights, Placed(b, rows)
  PROVE  LET t == Trimmed(b)
         IN /\ t \in BufferType /\ SamePlace(t, b) /\ ~ IsFull(t.lines)
            /\ ~ IsFull(b.lines) => t = b
            /\ IsFull(b.lines) => /\ t.lines = trimStart(b.lines, 1)
                                  /\ t.lines.length = Scrollback - 1
                                  /\ t.ybase = b.ybase - 1 /\ t.ydisp = b.ydisp - 1
            /\ t.ybase >= 0 => /\ Placed(t, rows) /\ Screen(t) = Screen(b)
                               /\ \A c : KeepsView(c, t) => KeepsView(c, b)
<1>1. /\ b.lines \in ListType /\ b.lines.length \in 1 .. Scrollback
      /\ rows \in 1 .. Scrollback /\ Scrollback \in Nat /\ Scrollback > 1
      /\ b.ybase \in 0 .. Scrollback /\ b.ybase + rows = b.lines.length
      /\ b.ydisp \in Int /\ b.ydisp <= b.ybase
      /\ (IsFull(b.lines) <=> b.lines.length = Scrollback)
  BY PlacedNumbers, SizeFacts DEF Heights
<1>2. CASE ~ IsFull(b.lines)
  <2>1. Trimmed(b) = b
    BY <1>2 DEF Trimmed
  <2>. QED  BY <1>2, <2>1 DEF SamePlace
<1>3. CASE IsFull(b.lines)
  <2>. DEFINE t == Trimmed(b)
              m == trimStart(b.lines, 1)
  <2>1. t = [b EXCEPT !.lines = m, !.ybase = b.ybase - 1, !.ydisp = b.ydisp - 1]
    BY <1>3 DEF Trimmed
  <2>2. 1 \in 0 .. b.lines.length
    BY <1>1
  <2>3. /\ m \in ListType /\ m.length = b.lines.length - 1
        /\ \A j \in 0 .. Scrollback - 2 : Get(m, j) = Get(b.lines, j + 1)
    <3>1. ASSUME NEW n \in 0 .. b.lines.length, n = 1
          PROVE  /\ trimStart(b.lines, n) \in ListType
                 /\ trimStart(b.lines, n).length = b.lines.length - n
                 /\ \A j \in 0 .. Scrollback - 2 : Get(trimStart(b.lines, n), j) = Get(b.lines, j + n)
      <4>1. /\ trimStart(b.lines, n) \in ListType
            /\ trimStart(b.lines, n).length = b.lines.length - n
            /\ \A j \in 0 .. Scrollback - n - 1 : Get(trimStart(b.lines, n), j) = Get(b.lines, j + n)
        BY <1>1, TrimFacts
      <4>2. Scrollback - n - 1 = Scrollback - 2
        BY <1>1, <3>1
      <4>. QED  BY <4>1, <4>2
    <3>. QED  BY <2>2, <3>1
  <2>. HIDE DEF m
  <2>4. b.ybase - 1 \in -1 .. Scrollback /\ b.ydisp - 1 \in Int
    BY <1>1
  <2>5. /\ t \in BufferType /\ t.lines = m /\ t.ybase = b.ybase - 1 /\ t.ydisp = b.ydisp - 1
        /\ SamePlace(t, b)
    BY <2>1, <2>3, <2>4 DEF BufferType, SamePlace
  <2>. HIDE DEF t
  <2>6. ~ IsFull(m)
    BY <1>1, <1>3, <2>3 DEF IsFull, ListType
  <2>7. ASSUME t.ybase >= 0
        PROVE  /\ Placed(t, rows) /\ Screen(t) = Screen(b)
               /\ \A c : KeepsView(c, t) => KeepsView(c, b)
    <3>1. b.ybase >= 1 /\ (StaysInList(b) => b.ydisp >= 1 /\ StaysInList(t))
      BY <1>1, <1>3, <2>5, <2>6, <2>7 DEF StaysInList
    <3>2. Filled(m)
      <4>. SUFFICES ASSUME NEW i \in 0 .. m.length - 1 PROVE Get(m, i) \in Texts
        BY DEF Filled
      <4>1. i \in 0 .. Scrollback - 2 /\ i + 1 \in 0 .. b.lines.length - 1
        BY <1>1, <2>3
      <4>. QED  BY <2>3, <4>1 DEF Placed, Filled
    <3>3. Placed(t, rows)
      <4>1. t.ybase + rows = m.length /\ t.ydisp \in Int /\ t.ydisp <= t.ybase
        BY <1>1, <2>3, <2>5, <3>1
      <4>. QED  BY <2>5, <2>7, <3>2, <4>1 DEF Placed, SamePlace
    <3>4. ASSUME NEW y \in 0 .. rows - 1 PROVE LineOf(t, y) = LineOf(b, y)
      <4>. DEFINE j == b.ybase - 1 + y
      <4>1. j \in 0 .. Scrollback - 2 /\ j + 1 = b.ybase + y
        BY <1>1, <3>1
      <4>2. Get(m, j) = Get(b.lines, b.ybase + y)
        <5>. HIDE DEF j
        <5>. QED  BY <2>3, <4>1
      <4>. QED  BY <2>5, <4>2 DEF LineOf
    <3>5. Screen(t) = Screen(b)
      BY <2>5, <3>4 DEF Screen, SamePlace
    <3>6. InScrollback(t) = InScrollback(b)
      <4>1. \A y \in 0 .. rows - 1 : t.ydisp + y < t.ybase <=> b.ydisp + y < b.ybase
        BY <1>1, <2>5
      <4>. QED  BY <4>1 DEF InScrollback
    <3>7. ASSUME StaysInList(b), NEW y \in InScrollback(b) PROVE ViewedLine(t, y) = ViewedLine(b, y)
      <4>. DEFINE j == b.ydisp - 1 + y
      <4>1. y \in 0 .. rows - 1 /\ b.ydisp + y < b.ybase
        BY DEF InScrollback
      <4>2. j \in 0 .. Scrollback - 2 /\ j + 1 = b.ydisp + y
        BY <1>1, <3>1, <3>7, <4>1
      <4>3. Get(m, j) = Get(b.lines, b.ydisp + y)
        <5>. HIDE DEF j
        <5>. QED  BY <2>3, <4>2
      <4>. QED  BY <2>5, <4>3 DEF ViewedLine
    <3>8. ASSUME NEW c, KeepsView(c, t) PROVE KeepsView(c, b)
      <4>1. b.ydisp = b.ybase => t.ydisp = t.ybase
        BY <2>5
      <4>2. ASSUME userScrolling, c.ybase > 0, StaysInList(b), NEW y \in InScrollback(b)
            PROVE  KeepsRow(c, b, y)
        <5>1. KeepsRow(c, t, y) \/ BlanksRow(c, t, y)
          BY <3>1, <3>6, <3>8, <4>2 DEF KeepsView
        <5>. QED  BY <2>5, <2>6, <3>7, <4>2, <5>1 DEF KeepsRow, BlanksRow
      <4>3. StaysInList(b) => c.ydisp >= 0
        BY <3>1, <3>8 DEF KeepsView
      <4>4. ~ userScrolling /\ b.ydisp = b.ybase => c.ydisp = c.ybase
        BY <3>8, <4>1 DEF KeepsView
      <4>. QED  BY <4>2, <4>3, <4>4 DEF KeepsView
    <3>. QED  BY <3>3, <3>5, <3>8
  <2>. QED  BY <1>1, <1>3, <2>3, <2>5, <2>6, <2>7 DEF t, m
<1>. QED  BY <1>2, <1>3

\* Rows of the region that move are a step of IdealScreen.
LEMMA MovedRowsWork ==
  ASSUME NEW b \in BufferType, rows \in Heights, Placed(b, rows),
         NEW f \in {b.y, b.scrollTop}, NEW t \in {b.scrollBottom},
         f = b.y => b.y \in b.scrollTop .. b.scrollBottom,
         NEW m \in ListType, NEW up \in BOOLEAN,
         up => ListUp(m, b.lines, b.ybase + f, b.ybase + t),
         ~ up => ListDown(m, b.lines, b.ybase + f, b.ybase + t)
  PROVE  LET c == [b EXCEPT !.lines = m]
         IN /\ c \in BufferType /\ Placed(c, rows) /\ KeepsView(c, b)
            /\ IdealStep(Screen(b), Screen(c)) /\ Works(b, c)
<1>. DEFINE c == [b EXCEPT !.lines = m]
            s == Screen(b)
<1>1. /\ rows \in 1 .. Scrollback /\ Scrollback \in Nat
      /\ b.y \in 0 .. rows - 1
      /\ b.scrollTop \in 0 .. b.scrollBottom /\ b.scrollBottom \in 0 .. rows - 1
  BY PlacedNumbers, SizeFacts DEF Heights
<1>2. f \in 0 .. rows - 1 /\ t \in 0 .. rows - 1 /\ f <= t
  BY <1>1
<1>3. /\ c \in BufferType /\ SamePlace(c, b) /\ Placed(c, rows) /\ KeepsView(c, b)
      /\ up => MovesUp(c, b, f, t)
      /\ ~ up => MovesDown(c, b, f, t)
  BY <1>2, RowsMove
<1>. HIDE DEF c
<1>4. s.y = b.y /\ s.top = b.scrollTop /\ s.bottom = b.scrollBottom
  BY ScreenFacts
<1>5. IdealStep(s, Screen(c))
  <2>1. f = b.y => Ideal!InRegion(s)
    BY <1>4 DEF Ideal!InRegion
  <2>2. CASE up
    <3>1. Screen(c) = Ideal!Up(s, f, t)
      BY <1>2, <1>3, <2>2, UpIsUp
    <3>2. t = s.bottom /\ (f = s.y \/ f = s.top)
      BY <1>4
    <3>. QED  BY <1>4, <2>1, <3>1, <3>2 DEF IdealStep
  <2>3. CASE ~ up
    <3>1. Screen(c) = Ideal!Down(s, f, t)
      BY <1>2, <1>3, <2>3, DownIsDown
    <3>2. t = s.bottom /\ (f = s.y \/ f = s.top)
      BY <1>4
    <3>. QED  BY <1>4, <2>1, <3>1, <3>2 DEF IdealStep
  <2>. QED  BY <2>2, <2>3
<1>. QED  BY <1>3, <1>5 DEF c, Works

LEMMA InsertLinesEffect ==
  ASSUME IInv, insertLines
  PROVE  \E c \in BufferType : Effect(c)
<1>. DEFINE b == buffer
            t == Trimmed(b)
            m == remove(insert(t.lines, Row(t), Blank), t.ybase + t.scrollBottom + 1)
            c == [t EXCEPT !.lines = m]
            P == Within(t)
<1>1. Output("lines", c) /\ TameIf(P)
  BY DEF insertLines
<1>2. tame
  BY <1>1 DEF Output, Parsing
<1>3. b \in BufferType /\ Placed(b, rows) /\ rows \in Heights
  BY <1>2, ActiveBuffer
<1>4. P \in BOOLEAN
  BY DEF Within
<1>. HIDE DEF b
<1>5. /\ t \in BufferType /\ ~ IsFull(t.lines)
      /\ t.ybase >= 0 => /\ Placed(t, rows) /\ Screen(t) = Screen(b)
                         /\ \A d : KeepsView(d, t) => KeepsView(d, b)
  BY <1>3, TrimmedFacts
<1>. HIDE DEF t
<1>6. /\ t.lines \in ListType /\ t.ybase \in Int /\ t.scrollBottom \in Int /\ t.y \in Int
      /\ Row(t) \in Int /\ t.ybase + t.scrollBottom + 1 \in Int /\ Row(t) = t.ybase + t.y
  BY <1>5, SizeFacts DEF BufferType, Row
<1>7. /\ m \in ListType /\ m.length = t.lines.length
      /\ 0 <= Row(t) /\ Row(t) < t.ybase + t.scrollBottom + 1
            /\ t.ybase + t.scrollBottom + 1 <= t.lines.length =>
         ListDown(m, t.lines, Row(t), (t.ybase + t.scrollBottom + 1) - 1)
  BY <1>5, <1>6, InsertThenRemove
<1>. HIDE DEF m
<1>8. c \in BufferType
  BY <1>5, <1>7 DEF BufferType
<1>9. ASSUME P PROVE Works(b, c)
  <2>1. Placed(t, rows)
    BY <1>5, <1>9 DEF Within
  <2>2. /\ t.ybase \in Nat /\ t.ybase + rows = t.lines.length /\ t.scrollBottom \in 0 .. rows - 1
        /\ t.y \in 0 .. rows - 1 /\ rows \in Nat
    BY <1>3, <1>5, <2>1, PlacedNumbers, SizeFacts DEF Heights
  <2>3. /\ 0 <= Row(t) /\ Row(t) < t.ybase + t.scrollBottom + 1
        /\ t.ybase + t.scrollBottom + 1 <= t.lines.length
        /\ (t.ybase + t.scrollBottom + 1) - 1 = t.ybase + t.scrollBottom
    BY <1>6, <1>9, <2>2 DEF Within
  <2>4. ListDown(m, t.lines, t.ybase + t.y, t.ybase + t.scrollBottom)
    BY <1>6, <1>7, <2>3
  <2>5. ASSUME NEW up \in BOOLEAN, ~ up
        PROVE  Placed(c, rows) /\ KeepsView(c, t) /\ IdealStep(Screen(t), Screen(c))
    BY <1>3, <1>5, <1>7, <1>9, <2>1, <2>4, <2>5, MovedRowsWork DEF Within
  <2>6. Placed(c, rows) /\ KeepsView(c, t) /\ IdealStep(Screen(t), Screen(c))
    BY <2>5
  <2>. HIDE DEF c
  <2>. QED  BY <1>5, <1>9, <2>6 DEF Works, Within
<1>. HIDE DEF c, P
<1>10. Effect(c)
  BY <1>1, <1>4, <1>8, <1>9, OutputEffect DEF b
<1>. QED  BY <1>8, <1>10

\* What is inserted or removed leaves the slot of the list's first line.
LEMMA InsertExtent ==
  ASSUME NEW l \in ListType, ~ IsFull(l), NEW s \in Int, NEW v \in Texts
  PROVE  /\ insert(l, s, v) \in ListType
         /\ insert(l, s, v).startIndex = l.startIndex
         /\ insert(l, s, v).length = l.length + 1
<1>. DEFINE to == s + 1 .. l.length
            c == CopyUp(l, to, 1)
            m == Set(c, s, v)
<1>1. to \in SUBSET Int /\ 1 \in Int
  BY SizeFacts DEF ListType
<1>2. c \in ListType /\ c.startIndex = l.startIndex
  BY <1>1, CopyUpType
<1>. HIDE DEF c
<1>3. m \in ListType /\ m.startIndex = l.startIndex
  BY <1>2, SetType
<1>4. insert(l, s, v) = [m EXCEPT !.length = @ + 1]
  BY DEF insert, m, c
<1>. HIDE DEF m
<1>5. insert(l, s, v).startIndex = l.startIndex
  BY <1>3, <1>4 DEF ListType
<1>. QED  BY <1>5, InsertType

LEMMA RemoveExtent ==
  ASSUME NEW l \in ListType, l.length > 0, NEW s \in Int
  PROVE  /\ remove(l, s) \in ListType
         /\ remove(l, s).startIndex = l.startIndex /\ remove(l, s).length = l.length - 1
<1>. DEFINE to == s .. l.length - 2
            m == CopyUp(l, to, -1)
<1>1. to \in SUBSET Int /\ -1 \in Int
  BY SizeFacts DEF ListType
<1>2. m \in ListType /\ m.startIndex = l.startIndex
  BY <1>1, CopyUpType
<1>3. remove(l, s) = [m EXCEPT !.length = @ - 1]
  BY DEF remove
<1>. HIDE DEF m
<1>4. remove(l, s).startIndex = l.startIndex
  BY <1>2, <1>3 DEF ListType
<1>. QED  BY <1>4, RemoveType

LEMMA InsertRemoveExtent ==
  ASSUME NEW l \in ListType, ~ IsFull(l), NEW i \in Int, NEW j \in Int
  PROVE  LET m == remove(insert(l, i, Blank), j)
         IN m \in ListType /\ m.startIndex = l.startIndex /\ m.length = l.length
<1>. DEFINE k == insert(l, i, Blank)
            m == remove(k, j)
<1>1. Blank \in Texts /\ l.length \in Nat
  BY DEF Texts, ListType
<1>2. k \in ListType /\ k.startIndex = l.startIndex /\ k.length = l.length + 1
  BY <1>1, InsertExtent
<1>. HIDE DEF k
<1>3. k.length > 0
  BY <1>1, <1>2
<1>4. m \in ListType /\ m.startIndex = k.startIndex /\ m.length = k.length - 1
  BY <1>2, <1>3, RemoveExtent
<1>. HIDE DEF m
<1>5. m \in ListType /\ m.startIndex = l.startIndex /\ m.length = l.length
  BY <1>1, <1>2, <1>4
<1>. QED  BY <1>5 DEF m, k

(* deleteLines on a list l0 that has been trimmed: every round inserts a   *)
(* blank line at index q + 1 and removes the line at index p.              *)
Round(l, p, q) == remove(insert(l, q + 1, Blank), p)

\* The recursion of deleteLines is that of its rounds.
LEMMA DeleteRounds ==
  ASSUME deleteLines, Trimmed(buffer).lines \in ListType, ~ IsFull(Trimmed(buffer).lines),
         Row(buffer) \in Int, buffer.ybase + buffer.scrollBottom + 1 \in Int
  PROVE  LET l0 == Trimmed(buffer).lines
         IN \E f :
              /\ f[0] = l0
              /\ \A k \in 0 .. MaxParam - 1 :
                    f[k + 1] = Round(f[k], Row(buffer), buffer.ybase + buffer.scrollBottom)
              /\ \A k \in 0 .. MaxParam :
                    /\ f[k] \in ListType /\ f[k].length = l0.length
                    /\ f[k].startIndex = l0.startIndex
              /\ \E n \in IF IsFull(buffer.lines) THEN Param ELSE {1} :
                    Output("lines", [Trimmed(buffer) EXCEPT !.lines = f[n]])
              /\ TameIf(Within(Trimmed(buffer)))
<1>. DEFINE N == MaxParam
            b == buffer
            l0 == Trimmed(b).lines
            p == Row(b)
            below == b.ybase + b.scrollBottom + 1
            step(l) == remove(insert(l, below, Blank), p)
            D == {l \in ListType : l.length = l0.length /\ l.startIndex = l0.startIndex}
            F == [x \in (1 .. N) \X D |-> step(x[2])]
            Q(h) == h = [n \in 0 .. MaxParam |->
                            IF n = 0 THEN l0 ELSE remove(insert(h[n - 1], below, Blank), p)]
            f == CHOOSE h : Q(h)
<1>0. /\ \E n \in IF IsFull(b.lines) THEN Param ELSE {1} :
            Output("lines", [Trimmed(b) EXCEPT !.lines = f[n]])
      /\ TameIf(Within(Trimmed(b)))
  BY DEF deleteLines
<1>1. /\ N \in Nat /\ l0 \in D /\ l0 \in ListType /\ ~ IsFull(l0)
      /\ p \in Int /\ below \in Int
  BY ScreenAssumption
<1>. HIDE DEF b, l0, p, below
<1>2. ASSUME NEW l \in D PROVE step(l) \in D
  <2>1. l \in ListType /\ ~ IsFull(l) /\ l.length = l0.length /\ l.startIndex = l0.startIndex
    BY <1>1 DEF IsFull, ListType
  <2>. QED  BY <1>1, <2>1, InsertRemoveExtent
<1>. HIDE DEF D, step
<1>3. F \in [(1 .. N) \X D -> D]
  BY <1>2
<1>4. \E h : Q(h) /\ h \in [0 .. N -> D]
  <2>. HIDE DEF F
  <2>1. DefinesRecursion(N, D, l0, F)
    BY <1>1, <1>3, RecursionExists
  <2>2. PICK h \in [0 .. N -> D] : h[0] = l0 /\ \A k \in 1 .. N : h[k] = F[<<k, h[k - 1]>>]
    BY <2>1 DEF DefinesRecursion
  <2>3. ASSUME NEW i \in 0 .. N
        PROVE  h[i] = IF i = 0 THEN l0 ELSE step(h[i - 1])
    <3>1. CASE i = 0
      BY <2>2, <3>1
    <3>2. CASE i # 0
      <4>1. i \in 1 .. N /\ i - 1 \in 0 .. N
        BY <1>1, <3>2
      <4>2. h[i - 1] \in D
        BY <4>1
      <4>3. F[<<i, h[i - 1]>>] = step(h[i - 1])
        BY <4>1, <4>2 DEF F
      <4>. QED  BY <2>2, <3>2, <4>1, <4>3
    <3>. QED  BY <3>1, <3>2
  <2>4. Q(h)
    BY <2>3 DEF step
  <2>. QED  BY <2>4
<1>5. Q(f)
  <2>1. \E h : Q(h)
    BY <1>4
  <2>. HIDE DEF Q
  <2>. QED  BY <2>1, Zenon
<1>. HIDE DEF f
<1>6. f[0] = l0
  BY <1>1, <1>5
<1>7. ASSUME NEW k \in 0 .. N - 1 PROVE f[k + 1] = step(f[k])
  <2>1. k + 1 \in 0 .. N /\ k + 1 # 0 /\ (k + 1) - 1 = k
    BY <1>1
  <2>2. f[k + 1] = remove(insert(f[(k + 1) - 1], below, Blank), p)
    BY <1>5, <2>1
  <2>. QED  BY <2>1, <2>2 DEF step
<1>8. \A k \in 0 .. N : f[k] \in D
  <2>. DEFINE S == {k \in 0 .. N : f[k] \in D}
  <2>1. 0 \in S
    BY <1>1, <1>6
  <2>2. \A k \in 0 .. N - 1 : k \in S => k + 1 \in S
    BY <1>1, <1>2, <1>7
  <2>. HIDE DEF S
  <2>3. \A k \in 0 .. N : k \in S
    BY <1>1, <2>1, <2>2, InductionUpTo
  <2>. QED  BY <2>3 DEF S
<1>9. /\ \A k \in 0 .. N - 1 : f[k + 1] = Round(f[k], p, b.ybase + b.scrollBottom)
      /\ \A k \in 0 .. N : /\ f[k] \in ListType /\ f[k].length = l0.length
                           /\ f[k].startIndex = l0.startIndex
  BY <1>7, <1>8 DEF step, D, Round, below
<1>. QED  BY <1>0, <1>6, <1>9 DEF b, l0, p

(* What k rounds make of the trimmed list: the lines from p to q move up   *)
(* by k. Blank lines follow them, or, if q is the slot behind the list,    *)
(* copies of what that slot holds; the blank one is then the first line.   *)
AfterRounds(l0, l, p, q, k) ==
    /\ AllWritten(l) /\ l.length = Scrollback - 1
    /\ q = Scrollback - 1 => Get(l, q) = Get(l0, q)
    /\ \A i \in 0 .. Scrollback - 2 :
          Get(l, i) = IF i = 0 /\ k > 0 /\ q = Scrollback - 1 THEN Blank
                      ELSE IF i \notin p .. q THEN Get(l0, i)
                      ELSE IF i + k <= q THEN Get(l0, i + k)
                      ELSE IF q = Scrollback - 1 THEN Get(l0, q) ELSE Blank

LEMMA OneMoreRound ==
  ASSUME NEW l0 \in ListType, NEW l, NEW q \in 1 .. Scrollback - 1, NEW p \in 1 .. q,
         NEW k \in Nat, AfterRounds(l0, l, p, q, k)
  PROVE  AfterRounds(l0, Round(l, p, q), p, q, k + 1)
<1>. DEFINE M == Scrollback
            a == insert(l, q + 1, Blank)
            m == remove(a, p)
<1>1. /\ M \in Nat /\ M > 1 /\ l \in ListType /\ l.length = M - 1 /\ ~ IsFull(l)
      /\ q + 1 \in Nat /\ p \in Nat /\ AllWritten(l) /\ Blank \in Texts
      /\ l.maxLength = M /\ l.startIndex \in 0 .. M - 1
  BY SizeFacts DEF AfterRounds, AllWritten, IsFull, ListType, Texts
<1>2. a \in ListType /\ a.length = M /\ AllWritten(a)
  BY <1>1, InsertType, WrittenLists
<1>3. m \in ListType /\ m.length = M - 1 /\ AllWritten(m)
  <2>1. M - 1 = M - 1 /\ a.length > 0 /\ p \in Int
    BY <1>1, <1>2
  <2>. HIDE DEF a
  <2>. QED  BY <1>1, <1>2, <2>1, RemoveType, WrittenLists
<1>4. \A i \in 0 .. M - 2 :
         Get(l, i) = IF i = 0 /\ k > 0 /\ q = M - 1 THEN Blank
                      ELSE IF i \notin p .. q THEN Get(l0, i)
                      ELSE IF i + k <= q THEN Get(l0, i + k)
                      ELSE IF q = M - 1 THEN Get(l0, q) ELSE Blank
  BY DEF AfterRounds
<1>5. CASE q < M - 1
  <2>1. 0 <= p /\ p < q + 1 /\ q + 1 <= l.length /\ (q + 1) - 1 = q /\ q + 1 \in Int /\ p \in Int
    BY <1>1, <1>5
  <2>2. ListUp(m, l, p, q)
    BY <1>1, <2>1, InsertThenRemove
  <2>. HIDE DEF m, a
  <2>3. ASSUME NEW i \in 0 .. M - 2
        PROVE  Get(m, i) = IF i \notin p .. q THEN Get(l0, i)
                           ELSE IF i + (k + 1) <= q THEN Get(l0, i + (k + 1)) ELSE Blank
    <3>1. Get(m, i) = IF i \in p .. q - 1 THEN Get(l, i + 1)
                      ELSE IF i = q THEN Blank ELSE Get(l, i)
      BY <1>1, <2>2 DEF ListUp
    <3>2. CASE i \in p .. q - 1
      <4>1. i + 1 \in 0 .. M - 2 /\ i + 1 \in p .. q /\ (i + 1) + k = i + (k + 1) /\ i \in p .. q
        BY <1>1, <1>5, <3>2
      <4>2. Get(l, i + 1) = IF (i + 1) + k <= q THEN Get(l0, (i + 1) + k) ELSE Blank
        BY <1>4, <1>5, <4>1
      <4>. QED  BY <3>1, <3>2, <4>1, <4>2
    <3>3. CASE i = q
      <4>1. i \notin p .. q - 1 /\ i \in p .. q /\ ~ (i + (k + 1) <= q)
        BY <1>1, <3>3
      <4>. QED  BY <3>1, <3>3, <4>1
    <3>4. CASE i \notin p .. q
      <4>1. i \notin p .. q - 1 /\ i # q
        BY <1>1, <3>4
      <4>. QED  BY <1>4, <1>5, <3>1, <3>4, <4>1
    <3>. QED  BY <3>2, <3>3, <3>4
  <2>. QED  BY <1>3, <1>5, <2>3 DEF AfterRounds, Round, m, a
<1>6. CASE q = M - 1
  <2>. DEFINE to == (q + 1) + 1 .. l.length
              c == CopyUp(l, to, 1)
              w == Set(l, 0, Blank)
  <2>1. to = {} /\ to \in SUBSET (0 .. Scrollback - 1) /\ 1 \in Int
    BY <1>1, <1>6
  <2>2. c \in ListType /\ c.startIndex = l.startIndex /\ c.length = l.length /\ c.maxLength = M
    <3>1. to \in SUBSET Int
      BY <2>1
    <3>. HIDE DEF to
    <3>. QED  BY <1>1, <2>1, <3>1, CopyUpType DEF ListType
  <2>3. \A j \in 0 .. M - 1 : Get(c, j) = Get(l, j)
    <3>. HIDE DEF to
    <3>. QED  BY <1>1, <2>1, CopyUpGet
  <2>. HIDE DEF c
  <2>4. Set(c, q + 1, Blank) = Set(c, 0, Blank)
    <3>1. (c.startIndex + (q + 1)) % M = (c.startIndex + 0) % M
      <4>1. c.startIndex \in 0 .. M - 1 /\ q + 1 = M
        BY <1>1, <1>6, <2>2
      <4>2. ASSUME NEW x \in 0 .. M - 1 PROVE (x + M) % M = x /\ (x + 0) % M = x
        <5>. HIDE DEF M
        <5>1. x % M = x /\ x + 0 = x
          BY <1>1
        <5>2. (x + M) - M = x
          BY <1>1
        <5>3. (x + M) % M = x
          BY <1>1, <5>2
        <5>. QED  BY <5>1, <5>3
      <4>. QED  BY <4>1, <4>2
    <3>2. ~ (c.startIndex + (q + 1) < 0) /\ ~ (c.startIndex + 0 < 0)
      BY <1>1, <2>2
    <3>. QED  BY <2>2, <3>1, <3>2 DEF Set, CyclicIndex
  <2>5. a = [Set(c, 0, Blank) EXCEPT !.length = Set(c, 0, Blank).length + 1]
    BY <1>1, <2>4 DEF insert, c
  <2>6. /\ Set(c, 0, Blank) \in ListType
        /\ \A j \in 0 .. M - 1 : Get(Set(c, 0, Blank), j) = IF j = 0 THEN Blank ELSE Get(l, j)
    BY <1>1, <2>2, <2>3, SetGet, SetType
  <2>7. \A j \in 0 .. M - 1 : Get(a, j) = IF j = 0 THEN Blank ELSE Get(l, j)
    <3>. DEFINE e == Set(c, 0, Blank)
    <3>1. a = [e EXCEPT !.length = e.length + 1]
      BY <2>5
    <3>. HIDE DEF a, e
    <3>2. e \in ListType
      BY <2>6 DEF e
    <3>3. \A j \in 0 .. M - 1 : Get(a, j) = Get(e, j)
      BY <3>1, <3>2 DEF Get, CyclicIndex, ListType
    <3>. QED  BY <2>6, <3>3 DEF e
  <2>. HIDE DEF a
  <2>8. \A i \in 0 .. M - 2 : Get(m, i) = IF i < p THEN Get(a, i) ELSE Get(a, i + 1)
    <3>1. p \in 0 .. a.length - 1 /\ a.length > 0 /\ a.length - 2 = M - 2
      BY <1>1, <1>2, <1>6
    <3>. QED  BY <1>2, <3>1, RemoveGet
  <2>9. Get(m, M - 1) = Get(a, M - 1)
    <3>. DEFINE tu == p .. a.length - 2
                d == CopyUp(a, tu, -1)
    <3>1. tu \in SUBSET (0 .. Scrollback - 1) /\ M - 1 \notin tu /\ M - 1 \in 0 .. M - 1
          /\ tu \in SUBSET Int
      BY <1>1, <1>2
    <3>. HIDE DEF tu
    <3>2. ASSUME NEW by \in Int
          PROVE  Get(CopyUp(a, tu, by), M - 1) = Get(a, M - 1) /\ CopyUp(a, tu, by) \in ListType
      BY <1>2, <3>1, CopyUpGet, CopyUpType
    <3>3. Get(d, M - 1) = Get(a, M - 1) /\ d \in ListType
      BY <3>2
    <3>4. m = [d EXCEPT !.length = d.length - 1]
      BY DEF remove, tu
    <3>. HIDE DEF d, m
    <3>5. Get(m, M - 1) = Get(d, M - 1)
      BY <3>3, <3>4 DEF Get, CyclicIndex, ListType
    <3>. QED  BY <3>3, <3>5
  <2>. HIDE DEF m
  <2>10. Get(m, q) = Get(l0, q)
    <3>1. M - 1 \in 0 .. M - 1 /\ M - 1 # 0
      BY <1>1
    <3>. QED  BY <1>6, <2>7, <2>9, <3>1 DEF AfterRounds
  <2>11. Get(l, M - 1) = Get(l0, M - 1)
    BY <1>6 DEF AfterRounds
  <2>12. ASSUME NEW i \in 0 .. M - 2
        PROVE  Get(m, i) = IF i = 0 THEN Blank
                           ELSE IF i \notin p .. q THEN Get(l0, i)
                           ELSE IF i + (k + 1) <= q THEN Get(l0, i + (k + 1)) ELSE Get(l0, q)
    <3>1. i \in 0 .. M - 1 /\ i + 1 \in 0 .. M - 1 /\ i + 1 # 0 /\ M - 2 \in Nat
      BY <1>1
    <3>2. CASE i < p
      <4>1. i \notin p .. q /\ i \in 0 .. M - 2
        BY <1>1, <3>2
      <4>2. Get(m, i) = IF i = 0 THEN Blank ELSE Get(l, i)
        BY <2>7, <2>8, <3>1, <3>2
      <4>. QED  BY <1>4, <4>1, <4>2
    <3>3. CASE ~ (i < p)
      <4>1. i # 0 /\ i \in p .. q /\ (i + 1) + k = i + (k + 1)
        BY <1>1, <1>6, <3>3
      <4>2. Get(m, i) = Get(l, i + 1)
        BY <2>7, <2>8, <3>1, <3>3
      <4>3. CASE i + 1 = M - 1
        <5>1. i + 1 = q /\ (i + (k + 1) <= q => i + (k + 1) = q)
          BY <1>1, <1>6, <4>3
        <5>. QED  BY <1>6, <2>11, <4>1, <4>2, <4>3, <5>1
      <4>4. CASE i + 1 # M - 1
        <5>1. i + 1 \in 0 .. M - 2 /\ i + 1 \in p .. q
          BY <1>1, <1>6, <3>3, <4>4
        <5>2. Get(l, i + 1) = IF (i + 1) + k <= q THEN Get(l0, (i + 1) + k) ELSE Get(l0, q)
          BY <1>4, <1>6, <3>1, <5>1
        <5>. QED  BY <4>1, <4>2, <5>2
      <4>. QED  BY <4>3, <4>4
    <3>. QED  BY <3>2, <3>3
  <2>13. k + 1 > 0
    OBVIOUS
  <2>. QED  BY <1>3, <1>6, <2>10, <2>12, <2>13 DEF AfterRounds, Round, m, a
<1>. QED  BY <1>1, <1>5, <1>6

LEMMA AllRounds ==
  ASSUME NEW l0, AllWritten(l0), l0.length = Scrollback - 1,
         NEW q \in 1 .. Scrollback - 1, NEW p \in 1 .. q, NEW f, f[0] = l0,
         \A k \in 0 .. MaxParam - 1 : f[k + 1] = Round(f[k], p, q)
  PROVE  \A k \in 0 .. MaxParam : AfterRounds(l0, f[k], p, q, k)
<1>. DEFINE S == {k \in 0 .. MaxParam : AfterRounds(l0, f[k], p, q, k)}
<1>1. MaxParam \in Nat /\ Scrollback \in Nat /\ l0 \in ListType
  BY ScreenAssumption, SizeFacts DEF AllWritten
<1>2. AfterRounds(l0, l0, p, q, 0)
  <2>1. \A i \in 0 .. Scrollback - 2 : i \in p .. q => i + 0 <= q /\ i + 0 = i
    BY <1>1
  <2>. QED  BY <2>1 DEF AfterRounds
<1>3. 0 \in S
  BY <1>1, <1>2
<1>4. ASSUME NEW k \in 0 .. MaxParam - 1, k \in S PROVE k + 1 \in S
  <2>1. k \in Nat /\ k + 1 \in 0 .. MaxParam
    BY <1>1
  <2>2. AfterRounds(l0, Round(f[k], p, q), p, q, k + 1)
    BY <1>1, <1>4, <2>1, OneMoreRound
  <2>. QED  BY <2>1, <2>2
<1>. HIDE DEF S
<1>5. \A k \in 0 .. MaxParam : k \in S
  BY <1>1, <1>3, <1>4, InductionUpTo
<1>. QED  BY <1>5 DEF S

\* The numbers of a full list that CSI M works on.
LEMMA FullNumbers ==
  ASSUME NEW b \in BufferType, rows \in Heights, Placed(b, rows), IsFull(b.lines),
         Within(Trimmed(b))
  PROVE  LET t == Trimmed(b)
             q == b.ybase + b.scrollBottom
         IN /\ Scrollback \in Nat /\ rows \in 1 .. Scrollback
            /\ b.ybase \in 1 .. Scrollback /\ b.ydisp \in Int /\ b.ydisp <= b.ybase
            /\ b.ybase + rows = Scrollback
            /\ b.y \in b.scrollTop .. b.scrollBottom /\ b.y \in 0 .. rows - 1
            /\ b.scrollTop \in 0 .. b.scrollBottom /\ b.scrollBottom \in 0 .. rows - 1
            /\ t \in BufferType /\ SamePlace(t, b) /\ Placed(t, rows)
            /\ t.ybase = b.ybase - 1 /\ t.ydisp = b.ydisp - 1 /\ t.lines = trimStart(b.lines, 1)
            /\ t.lines.length = Scrollback - 1 /\ AllWritten(t.lines)
            /\ Screen(t) = Screen(b)
            /\ Row(b) = b.ybase + b.y /\ q \in 1 .. Scrollback - 1 /\ Row(b) \in 1 .. q
<1>. DEFINE t == Trimmed(b)
            q == b.ybase + b.scrollBottom
<1>1. /\ b.lines \in ListType /\ b.lines.length = Scrollback
      /\ Scrollback \in Nat /\ rows \in 1 .. Scrollback
      /\ b.ybase \in 0 .. Scrollback /\ b.ydisp \in Int /\ b.ydisp <= b.ybase
      /\ b.ybase + rows = b.lines.length
      /\ b.y \in 0 .. rows - 1
      /\ b.scrollTop \in 0 .. b.scrollBottom /\ b.scrollBottom \in 0 .. rows - 1
  BY PlacedNumbers, SizeFacts DEF Heights
<1>2. t.ybase >= 0 /\ t.y \in t.scrollTop .. t.scrollBottom
  BY DEF Within
<1>3. /\ t \in BufferType /\ SamePlace(t, b) /\ Placed(t, rows)
      /\ t.ybase = b.ybase - 1 /\ t.ydisp = b.ydisp - 1 /\ t.lines = trimStart(b.lines, 1)
      /\ t.lines.length = Scrollback - 1 /\ Screen(t) = Screen(b)
  BY <1>2, TrimmedFacts
<1>. HIDE DEF t
<1>4. AllWritten(t.lines)
  <2>1. AllWritten(b.lines)
    BY <1>1, FullWritten DEF Placed
  <2>. QED  BY <1>3, <2>1, WrittenLists, SizeFacts
<1>5. b.y \in b.scrollTop .. b.scrollBottom /\ b.ybase >= 1
  BY <1>1, <1>2, <1>3 DEF SamePlace
<1>6. Row(b) = b.ybase + b.y /\ q \in 1 .. Scrollback - 1 /\ Row(b) \in 1 .. q
  BY <1>1, <1>5 DEF Row
<1>. QED  BY <1>1, <1>3, <1>4, <1>5, <1>6 DEF t

\* The view of such a list: only the line that has become the first may go.
LEMMA FullDeleteView ==
  ASSUME NEW b \in BufferType, rows \in Heights, Placed(b, rows), IsFull(b.lines),
         Within(Trimmed(b)), NEW n \in Nat, NEW l \in ListType,
         AfterRounds(Trimmed(b).lines, l, Row(b), b.ybase + b.scrollBottom, n)
  PROVE  LET c == [Trimmed(b) EXCEPT !.lines = l]
         IN c \in BufferType /\ SamePlace(c, b) /\ Placed(c, rows) /\ KeepsView(c, b)
<1>. DEFINE t == Trimmed(b)
            q == b.ybase + b.scrollBottom
            c == [t EXCEPT !.lines = l]
            l0 == t.lines
<1>1. /\ Scrollback \in Nat /\ rows \in 1 .. Scrollback
      /\ b.ybase \in 1 .. Scrollback /\ b.ydisp \in Int /\ b.ydisp <= b.ybase
      /\ b.ybase + rows = Scrollback /\ b.y \in 0 .. rows - 1
      /\ t \in BufferType /\ SamePlace(t, b) /\ Placed(t, rows)
      /\ t.ybase = b.ybase - 1 /\ t.ydisp = b.ydisp - 1 /\ t.lines = trimStart(b.lines, 1)
      /\ Row(b) = b.ybase + b.y
  BY FullNumbers
<1>2. /\ AllWritten(l) /\ l.length = Scrollback - 1
      /\ \A i \in 0 .. Scrollback - 2 : i \notin Row(b) .. q =>
            Get(l, i) = IF i = 0 /\ n > 0 /\ q = Scrollback - 1 THEN Blank ELSE Get(l0, i)
  BY DEF AfterRounds
<1>3. ASSUME NEW i \in 0 .. Scrollback - 2 PROVE Get(l0, i) = Get(b.lines, i + 1)
  <2>1. b.lines \in ListType /\ b.lines.length = Scrollback
    BY PlacedNumbers
  <2>2. ASSUME NEW k \in 0 .. b.lines.length, k = 1
        PROVE  Get(trimStart(b.lines, k), i) = Get(b.lines, i + k)
    <3>1. i \in 0 .. Scrollback - k - 1
      BY <1>1, <2>2
    <3>. QED  BY <2>1, <3>1, TrimFacts
  <2>3. 1 \in 0 .. b.lines.length
    BY <1>1, <2>1
  <2>. QED  BY <1>1, <2>2, <2>3
<1>. HIDE DEF t, q
<1>4. /\ c \in BufferType /\ c.lines = l /\ c.ybase = b.ybase - 1 /\ c.ydisp = b.ydisp - 1
      /\ SamePlace(c, b) /\ SamePlace(c, t)
  BY <1>1 DEF BufferType, SamePlace
<1>. HIDE DEF c
<1>5. Placed(c, rows)
  <2>1. Filled(l)
    <3>. SUFFICES ASSUME NEW i \in 0 .. l.length - 1 PROVE Get(l, i) \in Texts
      BY DEF Filled
    <3>1. i \in Int /\ l.startIndex + i >= 0
      BY <1>1, <1>2, SizeFacts DEF AllWritten, ListType
    <3>. QED  BY <1>2, <3>1, WrittenGet
  <2>2. c.ybase + rows = l.length /\ c.ybase >= 0 /\ c.ydisp \in Int /\ c.ydisp <= c.ybase
    BY <1>1, <1>2, <1>4
  <2>. QED  BY <1>4, <2>1, <2>2 DEF Placed, SamePlace
<1>6. KeepsView(c, b)
  <2>1. StaysInList(b) => b.ydisp >= 1 /\ c.ydisp >= 0
    BY <1>1, <1>4 DEF StaysInList
  <2>2. b.ydisp = b.ybase => c.ydisp = c.ybase
    BY <1>4
  <2>3. ASSUME StaysInList(b), NEW y \in InScrollback(b)
        PROVE  KeepsRow(c, b, y) \/ BlanksRow(c, b, y)
    <3>. DEFINE i == b.ydisp - 1 + y
    <3>1. y \in 0 .. rows - 1 /\ b.ydisp + y < b.ybase
      BY DEF InScrollback
    <3>2. /\ i \in 0 .. Scrollback - 2 /\ i \notin Row(b) .. q /\ i + 1 = b.ydisp + y
          /\ c.ydisp + y = i /\ c.ydisp + y < c.ybase
      BY <1>1, <1>4, <2>1, <2>3, <3>1
    <3>3. y \in InScrollback(c)
      BY <3>1, <3>2 DEF InScrollback
    <3>4. ViewedLine(c, y) = Get(l, i) /\ ViewedLine(b, y) = Get(b.lines, i + 1)
      BY <1>4, <3>2 DEF ViewedLine
    <3>5. i = 0 => b.ydisp + y = 1
      BY <3>2
    <3>. HIDE DEF i
    <3>6. Get(l, i) = Get(b.lines, i + 1) \/ (i = 0 /\ Get(l, i) = Blank)
      BY <1>2, <1>3, <3>2
    <3>. QED  BY <3>3, <3>4, <3>5, <3>6 DEF KeepsRow, BlanksRow
  <2>. QED  BY <2>1, <2>2, <2>3 DEF KeepsView
<1>. QED  BY <1>4, <1>5, <1>6 DEF c, t

\* Its screen: n lines below the cursor's go.
LEMMA FullDeleteScreen ==
  ASSUME NEW b \in BufferType, rows \in Heights, Placed(b, rows), IsFull(b.lines),
         Within(Trimmed(b)), NEW n \in Nat \ {0}, NEW l \in ListType,
         AfterRounds(Trimmed(b).lines, l, Row(b), b.ybase + b.scrollBottom, n)
  PROVE  DeletesBelow(Screen(b), Screen([Trimmed(b) EXCEPT !.lines = l]))
<1>. DEFINE t == Trimmed(b)
            base == b.ybase - 1
            q == b.ybase + b.scrollBottom
            c == [t EXCEPT !.lines = l]
            l0 == t.lines
            S == Screen(b)
            T == Screen(c)
            last == rows - 1
            below == b.scrollBottom + 1
            gone == IF n <= rows THEN n ELSE rows
<1>1. /\ Scrollback \in Nat /\ rows \in 1 .. Scrollback
      /\ b.ybase \in 1 .. Scrollback /\ b.ybase + rows = Scrollback
      /\ b.y \in b.scrollTop .. b.scrollBottom /\ b.y \in 0 .. rows - 1
      /\ b.scrollBottom \in 0 .. rows - 1
      /\ t \in BufferType /\ SamePlace(t, b)
      /\ t.ybase = base /\ AllWritten(l0) /\ l0.length = Scrollback - 1
      /\ Screen(t) = S /\ Row(b) = b.ybase + b.y /\ q \in 1 .. Scrollback - 1
  BY FullNumbers
<1>2. \A i \in 0 .. Scrollback - 2 :
         Get(l, i) = IF i = 0 /\ n > 0 /\ q = Scrollback - 1 THEN Blank
                     ELSE IF i \notin Row(b) .. q THEN Get(l0, i)
                     ELSE IF i + n <= q THEN Get(l0, i + n)
                     ELSE IF q = Scrollback - 1 THEN Get(l0, q) ELSE Blank
  BY DEF AfterRounds
<1>. HIDE DEF t, q
<1>3. /\ c \in BufferType /\ c.lines = l /\ c.ybase = base /\ SamePlace(c, b)
  BY <1>1 DEF BufferType, SamePlace
<1>. HIDE DEF c
<1>4. /\ S \in ScreenType /\ T \in ScreenType
      /\ S.y = b.y /\ S.top = b.scrollTop /\ S.bottom = b.scrollBottom /\ S.last = last
      /\ T.y = S.y /\ T.top = S.top /\ T.bottom = S.bottom
      /\ DOMAIN S.text = 0 .. last /\ DOMAIN T.text = 0 .. last
  BY <1>3, ScreenFacts DEF SamePlace
<1>5. ASSUME NEW r \in 0 .. last
      PROVE  /\ S.text[r] = Get(l0, base + r) /\ T.text[r] = Get(l, base + r)
             /\ base + r \in 0 .. Scrollback - 2
  <2>1. T.text[r] = LineOf(c, r)
    BY <1>3, ScreenFacts
  <2>2. Screen(t).text[r] = LineOf(t, r)
    BY <1>1, ScreenFacts
  <2>3. base + r \in 0 .. Scrollback - 2
    BY <1>1
  <2>. QED  BY <1>1, <1>3, <2>1, <2>2, <2>3 DEF LineOf
<1>. HIDE DEF S, T
<1>6. /\ q = base + below /\ (q = Scrollback - 1 <=> below = rows)
      /\ \A r \in 0 .. last : base + r \in Row(b) .. q <=> r \in b.y + 1 .. below
  BY <1>1 DEF q
<1>7. Ideal!InRegion(S)
  BY <1>1, <1>4 DEF Ideal!InRegion
<1>8. gone \in 1 .. S.last + 1 /\ gone \in Nat
  BY <1>1, <1>4
<1>9. ASSUME NEW r \in 0 .. last, r \in b.y + 1 .. below
      PROVE  /\ base + r + n <= q <=> r + n <= below
             /\ r + n <= below => gone = n /\ r + n \in 0 .. last + 1
             /\ ~ (r + n <= below) => ~ (r + gone <= below)
             /\ r # 0 /\ base + r # 0
  <2>1. base \in Nat /\ below \in 1 .. rows /\ r \in Nat \ {0} /\ r <= rows - 1
    BY <1>1, <1>9
  <2>2. gone = IF n <= rows THEN n ELSE rows
    OBVIOUS
  <2>. HIDE DEF base, below, gone
  <2>. QED  BY <1>1, <1>6, <2>1, <2>2
<1>10. ASSUME NEW s \in ScreenType, NEW filler \in Texts, DOMAIN s.text = 0 .. last,
              s.y = S.y, s.top = S.top, s.bottom = S.bottom,
              \A r \in 0 .. last :
                 T.text[r] = IF r \in b.y + 1 .. below
                             THEN IF r + gone <= below /\ r + gone <= last
                                  THEN s.text[r + gone] ELSE filler
                             ELSE s.text[r]
       PROVE  T = Ideal!Deleted(s, gone, filler)
  <2>. DEFINE text == [r \in DOMAIN s.text |->
                 IF r \in s.y + 1 .. s.bottom + 1
                 THEN IF r + gone <= s.bottom + 1 /\ r + gone <= s.last
                      THEN s.text[r + gone] ELSE filler
                 ELSE s.text[r]]
  <2>1. Ideal!Deleted(s, gone, filler) = [s EXCEPT !.text = text]
    BY DEF Ideal!Deleted
  <2>2. s.last = last
    BY DEF ScreenType
  <2>3. T.text \in [0 .. last -> Texts \union {NoLine}]
    BY <1>4 DEF ScreenType
  <2>4. text = T.text
    BY <1>4, <1>10, <2>2, <2>3
  <2>. HIDE DEF text
  <2>5. /\ [s EXCEPT !.text = text] \in ScreenType
        /\ [s EXCEPT !.text = text].text = text /\ [s EXCEPT !.text = text].y = s.y
        /\ [s EXCEPT !.text = text].top = s.top /\ [s EXCEPT !.text = text].bottom = s.bottom
    BY <2>3, <2>4, ScreenExcept
  <2>. DEFINE e == [s EXCEPT !.text = text]
  <2>6. /\ e \in ScreenType /\ T.y = e.y /\ T.top = e.top /\ T.bottom = e.bottom
        /\ T.text = e.text
    BY <1>4, <1>10, <2>4, <2>5
  <2>. HIDE DEF e
  <2>7. T = e
    BY <1>4, <2>6, SameScreen
  <2>. QED  BY <2>1, <2>7 DEF e
<1>. HIDE DEF base, below, gone
<1>11. CASE below < rows
  <2>1. Blank \in Texts /\ S.bottom < S.last /\ below <= last /\ q # Scrollback - 1
    BY <1>1, <1>4, <1>6, <1>11 DEF Texts, below
  <2>2. ASSUME NEW r \in 0 .. last
        PROVE  T.text[r] = IF r \in b.y + 1 .. below
                           THEN IF r + gone <= below /\ r + gone <= last
                                THEN S.text[r + gone] ELSE Blank
                           ELSE S.text[r]
    <3>1. T.text[r] = IF base + r \notin Row(b) .. q THEN Get(l0, base + r)
                      ELSE IF base + r + n <= q THEN Get(l0, base + r + n) ELSE Blank
      BY <1>2, <1>5, <2>1
    <3>2. CASE r \notin b.y + 1 .. below
      BY <1>5, <1>6, <3>1, <3>2
    <3>3. CASE r \in b.y + 1 .. below /\ r + n <= below
      <4>1. gone = n /\ r + n \in 0 .. last /\ base + r + n <= q
        BY <1>1, <1>9, <1>11, <2>1, <3>3 DEF below
      <4>2. S.text[r + n] = Get(l0, base + (r + n)) /\ base + (r + n) = base + r + n
        BY <1>1, <1>5, <4>1 DEF base
      <4>. QED  BY <1>6, <3>1, <3>3, <4>1, <4>2
    <3>4. CASE r \in b.y + 1 .. below /\ ~ (r + n <= below)
      BY <1>6, <1>9, <3>1, <3>4
    <3>. QED  BY <3>2, <3>3, <3>4
  <2>3. T = Ideal!Deleted(S, gone, Blank)
    BY <1>4, <1>10, <2>1, <2>2
  <2>. QED  BY <1>7, <1>8, <2>1, <2>3 DEF DeletesBelow, S, T, c, t
<1>12. CASE ~ (below < rows)
  <2>1. below = rows /\ ~ (S.bottom < S.last) /\ q = Scrollback - 1
    BY <1>1, <1>4, <1>6, <1>12 DEF below
  <2>. DEFINE line == Get(l0, q)
  <2>2. line \in Texts
    <3>1. q \in Int /\ l0.startIndex + q >= 0
      BY <1>1, SizeFacts DEF AllWritten, ListType
    <3>. QED  BY <1>1, <3>1, WrittenGet
  <2>. HIDE DEF line
  <2>3. PICK s \in {S, [S EXCEPT !.text[0] = Blank]} :
              s = IF base = 0 THEN [S EXCEPT !.text[0] = Blank] ELSE S
    OBVIOUS
  <2>4. /\ s \in ScreenType /\ DOMAIN s.text = 0 .. last
        /\ s.y = S.y /\ s.top = S.top /\ s.bottom = S.bottom
        /\ \A r \in 0 .. last : s.text[r] = IF base = 0 /\ r = 0 THEN Blank ELSE S.text[r]
    <3>1. CASE base # 0
      BY <1>4, <2>3, <3>1
    <3>2. CASE base = 0
      <4>. DEFINE e == [S.text EXCEPT ![0] = Blank]
      <4>1. e \in [0 .. rows - 1 -> Texts \union {NoLine}]
        BY <1>4 DEF ScreenType, Texts
      <4>2. s = [S EXCEPT !.text = e]
        BY <2>3, <3>2
      <4>3. 0 \in 0 .. last
        BY <1>1
      <4>4. \A r \in 0 .. last : e[r] = IF r = 0 THEN Blank ELSE S.text[r]
        BY <1>4, <4>3
      <4>5. DOMAIN e = 0 .. last
        BY <1>4
      <4>. HIDE DEF e
      <4>6. s \in ScreenType /\ s.text = e /\ s.y = S.y /\ s.top = S.top /\ s.bottom = S.bottom
        BY <1>4, <4>1, <4>2, ScreenExcept
      <4>. QED  BY <3>2, <4>4, <4>5, <4>6
    <3>. QED  BY <3>1, <3>2
  <2>5. ASSUME NEW r \in 0 .. last
        PROVE  T.text[r] = IF r \in b.y + 1 .. below
                           THEN IF r + gone <= below /\ r + gone <= last
                                THEN s.text[r + gone] ELSE line
                           ELSE s.text[r]
    <3>1. T.text[r] = IF base + r = 0 THEN Blank
                      ELSE IF base + r \notin Row(b) .. q THEN Get(l0, base + r)
                      ELSE IF base + r + n <= q THEN Get(l0, base + r + n) ELSE line
      BY <1>2, <1>5, <2>1 DEF line
    <3>2. base + r = 0 <=> base = 0 /\ r = 0
      BY <1>1 DEF base
    <3>3. CASE r \notin b.y + 1 .. below
      BY <1>5, <1>6, <2>4, <3>1, <3>2, <3>3
    <3>4. CASE r \in b.y + 1 .. below /\ r + n <= last
      <4>1. r + n <= below
        BY <1>1, <2>1, <3>4
      <4>2. gone = n /\ r + n \in 0 .. last /\ r + n # 0 /\ base + r + n <= q /\ base + r # 0
        BY <1>1, <1>9, <3>4, <4>1
      <4>3. S.text[r + n] = Get(l0, base + (r + n)) /\ base + (r + n) = base + r + n
        BY <1>1, <1>5, <4>2 DEF base
      <4>4. s.text[r + n] = S.text[r + n]
        BY <2>4, <4>2
      <4>. QED  BY <1>6, <3>1, <3>4, <4>1, <4>2, <4>3, <4>4
    <3>5. CASE r \in b.y + 1 .. below /\ ~ (r + n <= last)
      <4>1. base + r # 0 /\ base + r \in Row(b) .. q
        BY <1>6, <1>9, <3>5
      <4>2. base + r + n <= q => base + r + n = q
        BY <1>1, <1>6, <2>1, <3>5 DEF base
      <4>3. T.text[r] = line
        BY <3>1, <4>1, <4>2 DEF line
      <4>4. ~ (r + gone <= below /\ r + gone <= last)
        BY <1>9, <3>5
      <4>. QED  BY <3>5, <4>3, <4>4
    <3>. QED  BY <3>3, <3>4, <3>5
  <2>6. T = Ideal!Deleted(s, gone, line)
    BY <1>10, <2>2, <2>4, <2>5
  <2>. QED  BY <1>7, <1>8, <2>1, <2>2, <2>3, <2>6 DEF DeletesBelow, S, T, c, t
<1>. QED  BY <1>11, <1>12

LEMMA DeleteLinesEffect ==
  ASSUME IInv, deleteLines
  PROVE  \E c \in BufferType : Effect(c)
<1>. DEFINE b == buffer
            t == Trimmed(b)
            q == b.ybase + b.scrollBottom
            below == b.ybase + b.scrollBottom + 1
            P == Within(t)
<1>1. tame
  BY DEF deleteLines, Output, Parsing
<1>2. b \in BufferType /\ Placed(b, rows) /\ rows \in Heights
  BY <1>1, ActiveBuffer
<1>3. P \in BOOLEAN
  BY DEF Within
<1>4. /\ t \in BufferType /\ ~ IsFull(t.lines)
      /\ ~ IsFull(b.lines) => t = b
  <2>. HIDE DEF b
  <2>. QED  BY <1>2, TrimmedFacts
<1>5. t.lines \in ListType /\ below \in Int /\ Row(b) \in Int /\ Row(b) = b.ybase + b.y
  <2>1. t.lines \in ListType
    <3>. HIDE DEF t
    <3>. QED  BY <1>4 DEF BufferType
  <2>. HIDE DEF b
  <2>. QED  BY <1>2, <2>1, SizeFacts DEF BufferType, Row
<1>6. PICK f :
         /\ f[0] = t.lines
         /\ \A k \in 0 .. MaxParam - 1 : f[k + 1] = Round(f[k], Row(b), q)
         /\ \A k \in 0 .. MaxParam : f[k] \in ListType
         /\ \E n \in IF IsFull(b.lines) THEN Param ELSE {1} :
               Output("lines", [t EXCEPT !.lines = f[n]])
         /\ TameIf(P)
  BY <1>4, <1>5, DeleteRounds
<1>7. PICK n \in (IF IsFull(b.lines) THEN Param ELSE {1}) :
         Output("lines", [t EXCEPT !.lines = f[n]])
  BY <1>6
<1>. HIDE DEF b
<1>. DEFINE c == [t EXCEPT !.lines = f[n]]
<1>8. f[n] \in ListType /\ n \in 1 .. MaxParam /\ MaxParam \in Nat
  BY <1>6, ScreenAssumption DEF Param
<1>9. c \in BufferType
  <2>. HIDE DEF t
  <2>. QED  BY <1>4, <1>8 DEF BufferType
<1>10. ASSUME P, ~ IsFull(b.lines) PROVE Works(b, c)
  <2>1. t = b /\ n = 1
    BY <1>4, <1>10
  <2>2. /\ b.ybase \in Nat /\ b.ybase + rows = b.lines.length /\ b.scrollBottom \in 0 .. rows - 1
        /\ b.y \in 0 .. rows - 1 /\ rows \in Nat /\ b.lines \in ListType
        /\ b.y \in b.scrollTop .. b.scrollBottom
    BY <1>2, <1>10, <2>1, PlacedNumbers, SizeFacts DEF Heights, Within
  <2>3. 0 <= Row(b) /\ Row(b) < below /\ below <= b.lines.length
        /\ below - 1 = b.ybase + b.scrollBottom
    BY <1>5, <2>2
  <2>4. f[1] = remove(insert(b.lines, below, Blank), Row(b))
    <3>1. 0 \in 0 .. MaxParam - 1 /\ 0 + 1 = 1
      BY <1>8
    <3>. QED  BY <1>6, <2>1, <3>1 DEF Round
  <2>. HIDE DEF below
  <2>5. ListUp(f[n], b.lines, b.ybase + b.y, b.ybase + b.scrollBottom)
    BY <1>5, <1>10, <2>1, <2>2, <2>3, <2>4, InsertThenRemove
  <2>6. ASSUME NEW up \in BOOLEAN, up PROVE Works(b, [b EXCEPT !.lines = f[n]])
    <3>1. b.y \in {b.y, b.scrollTop} /\ b.scrollBottom \in {b.scrollBottom}
      OBVIOUS
    <3>. QED  BY <1>2, <1>8, <2>2, <2>5, <2>6, <3>1, MovedRowsWork
  <2>. QED  BY <2>1, <2>6
<1>11. ASSUME P, IsFull(b.lines) PROVE Works(b, c)
  <2>1. /\ t.lines.length = Scrollback - 1 /\ AllWritten(t.lines)
        /\ q \in 1 .. Scrollback - 1 /\ Row(b) \in 1 .. q
    BY <1>2, <1>11, FullNumbers
  <2>2. n \in 0 .. MaxParam /\ n \in Nat \ {0} /\ n \in Nat
    BY <1>8
  <2>. HIDE DEF t, q
  <2>3. AfterRounds(t.lines, f[n], Row(b), q, n)
    BY <1>6, <2>1, <2>2, AllRounds
  <2>4. Placed(c, rows) /\ KeepsView(c, b)
    BY <1>2, <1>8, <1>11, <2>2, <2>3, FullDeleteView DEF t, q
  <2>5. DeletesBelow(Screen(b), Screen(c))
    BY <1>2, <1>8, <1>11, <2>2, <2>3, FullDeleteScreen DEF t, q
  <2>. QED  BY <1>11, <2>4, <2>5 DEF Works
<1>. HIDE DEF c, P
<1>12. Effect(c)
  BY <1>3, <1>6, <1>7, <1>9, <1>10, <1>11, OutputEffect DEF b, c
<1>. QED  BY <1>9, <1>12

LEMMA ScrollEffect ==
  ASSUME IInv, scrollUp \/ scrollDown
  PROVE  \E c \in BufferType : Effect(c)
<1>. DEFINE b == buffer
            top == b.ybase + b.scrollTop
            bottom == b.ybase + b.scrollBottom
            up(m) == m = insert(remove(b.lines, top), bottom, Blank)
            down(m) == m = insert(remove(b.lines, bottom), top, Blank)
<1>1. PICK m : (up(m) \/ down(m)) /\ Output("lines", [b EXCEPT !.lines = m]) /\ Tame
  BY DEF scrollUp, scrollDown
<1>2. tame
  BY <1>1 DEF Output, Parsing
<1>3. b \in BufferType /\ Placed(b, rows) /\ rows \in Heights
  BY <1>2, ActiveBuffer
<1>. HIDE DEF b
<1>4. /\ b.ybase \in Nat /\ b.ybase + rows = b.lines.length /\ b.scrollBottom \in 0 .. rows - 1
      /\ b.scrollTop \in 0 .. b.scrollBottom /\ rows \in Nat \ {0} /\ b.lines \in ListType
  BY <1>3, PlacedNumbers, SizeFacts DEF Heights
<1>5. /\ top \in 0 .. b.lines.length - 1 /\ bottom \in 0 .. b.lines.length - 1 /\ top <= bottom
      /\ b.lines.length > 0
  BY <1>4
<1>. HIDE DEF top, bottom
<1>6. /\ up(m) => ListUp(m, b.lines, top, bottom)
      /\ down(m) => ListDown(m, b.lines, top, bottom)
  BY <1>4, <1>5, RemoveThenInsert
<1>. HIDE DEF up, down
<1>7. m \in ListType
  BY <1>1, <1>6 DEF ListUp, ListDown
<1>. DEFINE c == [b EXCEPT !.lines = m]
<1>8. ASSUME NEW k \in BOOLEAN, k => ListUp(m, b.lines, top, bottom),
             ~ k => ListDown(m, b.lines, top, bottom)
      PROVE  c \in BufferType /\ Works(b, c)
  <2>1. b.scrollTop = b.y => b.y \in b.scrollTop .. b.scrollBottom
    BY <1>4
  <2>. QED  BY <1>3, <1>7, <1>8, <2>1, MovedRowsWork DEF top, bottom
<1>9. c \in BufferType /\ Works(b, c)
  BY <1>1, <1>6, <1>8
<1>. HIDE DEF c
<1>10. Effect(c)
  BY <1>1, <1>9, TameOutputEffect DEF b, c
<1>. QED  BY <1>9, <1>10

LEMMA ReverseIndexEffect ==
  ASSUME IInv, reverseIndex
  PROVE  \E c \in BufferType : Effect(c)
<1>. DEFINE b == buffer
            l == b.lines
<1>1. tame
  BY DEF reverseIndex, Output, Parsing
<1>2. b \in BufferType /\ Placed(b, rows) /\ rows \in Heights
  BY <1>1, ActiveBuffer
<1>. HIDE DEF b
<1>3. /\ b.ybase \in Nat /\ b.ybase + rows = l.length /\ b.scrollBottom \in 0 .. rows - 1
      /\ b.scrollTop \in 0 .. b.scrollBottom /\ rows \in 1 .. Scrollback /\ l \in ListType
      /\ b.y \in 0 .. rows - 1 /\ b.ydisp \in Int /\ b.ydisp <= b.ybase /\ b.savedY \in 0 .. Scrollback
      /\ Scrollback \in Nat /\ l.length \in 1 .. Scrollback
  BY <1>2, PlacedNumbers, SizeFacts DEF Heights
<1>4. CASE b.y # b.scrollTop
  <2>. DEFINE c == [b EXCEPT !.y = b.y - 1]
              P == b.y > 0
  <2>1. Output("index", c) /\ TameIf(P)
    BY <1>4 DEF reverseIndex, b
  <2>2. P \in BOOLEAN
    OBVIOUS
  <2>3. b.y - 1 \in -1 .. Scrollback
    BY <1>3
  <2>4. /\ c \in BufferType /\ c.lines = b.lines /\ c.ybase = b.ybase /\ c.ydisp = b.ydisp
        /\ c.scrollTop = b.scrollTop /\ c.scrollBottom = b.scrollBottom
        /\ c.savedY = b.savedY /\ c.y = b.y - 1
    BY <1>2, <2>3 DEF BufferType
  <2>. HIDE DEF c
  <2>5. P => Works(b, c)
    <3>1. P => c.y \in 0 .. rows - 1
      BY <1>3, <2>4
    <3>. QED  BY <1>2, <1>3, <2>4, <3>1, PositionWorks
  <2>. HIDE DEF P
  <2>6. Effect(c)
    BY <2>1, <2>2, <2>4, <2>5, OutputEffect DEF b
  <2>. QED  BY <2>4, <2>6
<1>5. CASE b.y = b.scrollTop
  <2>. DEFINE d == shiftElements(l, Row(b), rows - 1)
              m == Set(d, Row(b), Blank)
              c == [b EXCEPT !.lines = m]
              P == b.scrollTop = 0
  <2>1. Output("index", c) /\ TameIf(P)
    BY <1>5 DEF reverseIndex, b
  <2>2. P \in BOOLEAN
    OBVIOUS
  <2>3. Row(b) = b.ybase + b.y /\ Row(b) \in Nat /\ rows - 1 \in Nat /\ Row(b) + (rows - 1) + 1 >= 0
    BY <1>3 DEF Row
  <2>4. d \in ListType
    BY <1>3, <2>3, ShiftType
  <2>5. P => /\ d.length = l.length
             /\ \A j \in 0 .. Scrollback - 1 :
                   Get(d, j) = IF j \in b.ybase + 1 .. b.ybase + (rows - 1)
                               THEN Get(l, j - 1) ELSE Get(l, j)
    <3>. SUFFICES ASSUME P PROVE /\ d.length = l.length
             /\ \A j \in 0 .. Scrollback - 1 :
                   Get(d, j) = IF j \in b.ybase + 1 .. b.ybase + (rows - 1)
                               THEN Get(l, j - 1) ELSE Get(l, j)
      OBVIOUS
    <3>1. Row(b) = b.ybase /\ Row(b) + (rows - 1) + 1 <= l.length
      BY <1>3, <1>5, <2>3
    <3>2. /\ shiftElements(l, Row(b), rows - 1).length = l.length
          /\ \A j \in 0 .. Scrollback - 1 :
                Get(shiftElements(l, Row(b), rows - 1), j) =
                   IF j \in Row(b) + 1 .. Row(b) + (rows - 1) THEN Get(l, j - 1) ELSE Get(l, j)
      <4>. HIDE DEF l
      <4>. QED  BY <1>3, <2>3, <3>1, ShiftGet
    <3>. QED  BY <3>1, <3>2
  <2>. HIDE DEF d
  <2>6. Blank \in Texts /\ Row(b) \in Int
    BY <2>3 DEF Texts
  <2>7. m \in ListType /\ m.length = d.length
    BY <2>4, <2>6, SetType
  <2>8. c \in BufferType
    <3>. HIDE DEF m
    <3>. QED  BY <1>2, <2>7 DEF BufferType
  <2>9. ASSUME P PROVE Works(b, c)
    <3>1. Row(b) = b.ybase /\ Row(b) \in 0 .. Scrollback - 1
      BY <1>3, <1>5, <2>3, <2>9
    <3>2. \A j \in 0 .. Scrollback - 1 : Get(m, j) = IF j = b.ybase THEN Blank ELSE Get(d, j)
      BY <2>4, <2>6, <3>1, SetGet
    <3>. HIDE DEF m
    <3>3. ListDown(m, l, b.ybase, b.ybase + (rows - 1))
      <4>1. ASSUME NEW i \in 0 .. l.length - 1
            PROVE  Get(m, i) = IF i \in b.ybase + 1 .. b.ybase + (rows - 1) THEN Get(l, i - 1)
                               ELSE IF i = b.ybase THEN Blank ELSE Get(l, i)
        <5>1. i \in 0 .. Scrollback - 1
          BY <1>3
        <5>2. i \in b.ybase + 1 .. b.ybase + (rows - 1) => i # b.ybase
          BY <1>3
        <5>. HIDE DEF l
        <5>. QED  BY <2>5, <2>9, <3>2, <5>1, <5>2
      <4>. HIDE DEF l
      <4>. QED  BY <2>5, <2>7, <2>9, <4>1 DEF ListDown
    <3>4. ASSUME NEW up \in BOOLEAN, ~ up
          PROVE  /\ SamePlace(c, b) /\ Placed(c, rows) /\ KeepsView(c, b)
                 /\ MovesDown(c, b, 0, rows - 1)
      <4>1. /\ 0 \in 0 .. rows - 1 /\ rows - 1 \in 0 .. rows - 1 /\ 0 <= rows - 1
            /\ b.ybase + 0 = b.ybase
        BY <1>3
      <4>. QED  BY <1>2, <2>7, <3>3, <3>4, <4>1, RowsMove
    <3>5. SamePlace(c, b) /\ Placed(c, rows) /\ KeepsView(c, b) /\ MovesDown(c, b, 0, rows - 1)
      BY <3>4
    <3>. HIDE DEF c
    <3>6. Screen(c) = Ideal!Down(Screen(b), 0, rows - 1)
      <4>1. 0 \in 0 .. rows - 1 /\ rows - 1 \in 0 .. rows - 1
        BY <1>3
      <4>. QED  BY <1>2, <2>8, <3>5, <4>1, DownIsDown
    <3>7. Screen(b).y = 0 /\ Screen(b).top = 0 /\ Screen(b).last = rows - 1
      BY <1>2, <1>5, <2>9, ScreenFacts
    <3>8. IdealStep(Screen(b), Screen(c))
      BY <3>6, <3>7 DEF IdealStep
    <3>. QED  BY <3>5, <3>8 DEF Works
  <2>. HIDE DEF c, P
  <2>10. Effect(c)
    BY <2>1, <2>2, <2>8, <2>9, OutputEffect DEF b
  <2>. QED  BY <2>8, <2>10
<1>. QED  BY <1>4, <1>5

LEMMA EraseScrollbackEffect ==
  ASSUME IInv, eraseScrollback
  PROVE  \E c \in BufferType : Effect(c)
<1>. DEFINE b == buffer
            l == b.lines
            n == l.length - rows
            m == trimStart(l, n)
            base == AtLeast(b.ybase - n, 0)
            disp == AtLeast(b.ydisp - n, 0)
            c == [b EXCEPT !.lines = m, !.ybase = base, !.ydisp = disp]
<1>1. Output("erase", c) /\ Tame
  BY DEF eraseScrollback
<1>2. tame
  BY <1>1 DEF Output, Parsing
<1>3. b \in BufferType /\ Placed(b, rows) /\ rows \in Heights
  BY <1>2, ActiveBuffer
<1>. HIDE DEF b
<1>5. /\ b.ybase \in 0 .. Scrollback /\ b.ybase + rows = l.length /\ rows \in 1 .. Scrollback
      /\ l \in ListType /\ Scrollback \in Nat /\ l.length \in 1 .. Scrollback
      /\ b.y \in 0 .. rows - 1 /\ b.ydisp \in Int /\ b.ydisp <= b.ybase
  BY <1>3, PlacedNumbers, SizeFacts DEF Heights
<1>6. /\ n = b.ybase /\ n \in 0 .. l.length /\ base = 0 /\ disp = 0
      /\ l.length - n = rows /\ Scrollback - n - 1 \in -1 .. Scrollback - 1
  <2>1. n = b.ybase /\ n \in 0 .. l.length /\ l.length - n = rows
    BY <1>5
  <2>2. b.ybase - n = 0 /\ b.ydisp - n \in Int /\ ~ (b.ydisp - n > 0)
    BY <1>5, <2>1
  <2>3. base = 0 /\ disp = 0
    <3>. HIDE DEF n
    <3>. QED  BY <2>2 DEF AtLeast
  <2>4. Scrollback - n - 1 \in -1 .. Scrollback - 1
    <3>. HIDE DEF n
    <3>. QED  BY <1>5, <2>1
  <2>. QED  BY <2>1, <2>3, <2>4
<1>7. /\ m \in ListType /\ m.length = l.length - n
      /\ \A j \in 0 .. Scrollback - n - 1 : Get(m, j) = Get(l, j + n)
  <2>. HIDE DEF n
  <2>. QED  BY <1>5, <1>6, TrimFacts
<1>. HIDE DEF m, base, disp, n
<1>8. /\ c \in BufferType /\ c.lines = m /\ c.ybase = 0 /\ c.ydisp = 0 /\ SamePlace(c, b)
  <2>1. base \in -1 .. Scrollback /\ disp \in Int
    BY <1>5, <1>6
  <2>. QED  BY <1>3, <1>6, <1>7, <2>1 DEF BufferType, SamePlace
<1>. HIDE DEF c
<1>9. ASSUME NEW y \in 0 .. rows - 1 PROVE Get(m, y) = LineOf(b, y)
  <2>1. y \in 0 .. Scrollback - n - 1 /\ y + n = b.ybase + y
    BY <1>5, <1>6
  <2>. QED  BY <1>7, <2>1 DEF LineOf
<1>10. ASSUME NEW y \in 0 .. rows - 1 PROVE LineOf(b, y) \in Texts
  <2>1. b.ybase + y \in 0 .. l.length - 1
    BY <1>5
  <2>. QED  BY <1>3, <2>1 DEF LineOf, Placed, Filled
<1>11. Placed(c, rows)
  <2>1. Filled(m)
    BY <1>6, <1>7, <1>9, <1>10 DEF Filled
  <2>2. 0 + rows = m.length /\ 0 <= 0
    BY <1>5, <1>6, <1>7
  <2>. QED  BY <1>3, <1>8, <2>1, <2>2 DEF Placed, SamePlace
<1>12. KeepsView(c, b)
  BY <1>8 DEF KeepsView
<1>13. Screen(c) = Screen(b)
  <2>1. \A y \in 0 .. rows - 1 : LineOf(c, y) = LineOf(b, y)
    <3>. TAKE y \in 0 .. rows - 1
    <3>1. 0 + y = y
      OBVIOUS
    <3>. QED  BY <1>8, <1>9, <3>1 DEF LineOf
  <2>. QED  BY <1>8, <2>1 DEF Screen, SamePlace
<1>14. Works(b, b)
  BY <1>3, PlacedNumbers, PositionWorks
<1>15. Works(b, c)
  BY <1>11, <1>12, <1>13, <1>14 DEF Works
<1>16. Effect(c)
  BY <1>1, <1>8, <1>15, TameOutputEffect DEF b
<1>. QED  BY <1>8, <1>16

LEMMA LinesEffect ==
  ASSUME IInv, Lines
  PROVE  \E c \in BufferType : Effect(c)
BY InsertLinesEffect, DeleteLinesEffect, ScrollEffect, ReverseIndexEffect DEF Lines

-----------------------------------------------------------------------------
(* Buffer.resize, one row after another.                                   *)
ResizeStep(b, c, r) == IF r > rows THEN GrowRow(b, c, r) ELSE ShrinkRow(c, r)
ResizeSteps(r) == IF r > rows THEN r - rows ELSE rows - r

\* Buffer.resize is so many steps, each from the buffer of the last.
LEMMA ResizeRowsSteps ==
  ASSUME rows \in Heights, NEW r \in Heights, NEW D, NEW b \in D,
         \A c \in D : ResizeStep(b, c, r) \in D
  PROVE  /\ ResizeSteps(r) \in Nat
         /\ \E f \in [0 .. ResizeSteps(r) -> D] :
               /\ f[0] = b
               /\ \A k \in 0 .. ResizeSteps(r) - 1 : f[k + 1] = ResizeStep(b, f[k], r)
               /\ ResizeRows(b, r) = f[ResizeSteps(r)]
<1>. DEFINE n == ResizeSteps(r)
            F == [x \in (1 .. n) \X D |-> ResizeStep(b, x[2], r)]
            Q(h) == h = [i \in 0 .. n |->
                            IF i = 0 THEN b
                            ELSE IF r > rows THEN GrowRow(b, h[i - 1], r)
                                             ELSE ShrinkRow(h[i - 1], r)]
            f == CHOOSE h : Q(h)
            whole == f[n]
<1>1. n \in Nat
  BY SizeFacts DEF Heights, ResizeSteps
<1>2. ResizeRows(b, r) = whole
  BY DEF ResizeRows, ResizeSteps
<1>. HIDE DEF n
<1>3. F \in [(1 .. n) \X D -> D]
  OBVIOUS
<1>4. \E h : Q(h) /\ h \in [0 .. n -> D]
  <2>. HIDE DEF F
  <2>1. DefinesRecursion(n, D, b, F)
    BY <1>1, <1>3, RecursionExists
  <2>2. PICK h \in [0 .. n -> D] : h[0] = b /\ \A k \in 1 .. n : h[k] = F[<<k, h[k - 1]>>]
    BY <2>1 DEF DefinesRecursion
  <2>3. ASSUME NEW i \in 0 .. n
        PROVE  h[i] = IF i = 0 THEN b
                      ELSE IF r > rows THEN GrowRow(b, h[i - 1], r) ELSE ShrinkRow(h[i - 1], r)
    <3>1. CASE i = 0
      BY <2>2, <3>1
    <3>2. CASE i # 0
      <4>1. i \in 1 .. n /\ i - 1 \in 0 .. n
        BY <1>1, <3>2
      <4>2. h[i - 1] \in D
        BY <4>1
      <4>3. F[<<i, h[i - 1]>>] = ResizeStep(b, h[i - 1], r)
        BY <4>1, <4>2 DEF F
      <4>4. h[i] = ResizeStep(b, h[i - 1], r)
        BY <2>2, <4>1, <4>3
      <4>. QED  BY <3>2, <4>4 DEF ResizeStep
    <3>. QED  BY <3>1, <3>2
  <2>4. Q(h)
    BY <2>3
  <2>. QED  BY <2>4
<1>5. Q(f)
  <2>1. \E h : Q(h)
    BY <1>4
  <2>. HIDE DEF Q
  <2>. QED  BY <2>1, Zenon
<1>. HIDE DEF f
<1>6. f[0] = b /\ DOMAIN f = 0 .. n /\ f = [k \in 0 .. n |-> f[k]]
  BY <1>1, <1>5
<1>7. ASSUME NEW k \in 0 .. n - 1 PROVE f[k + 1] = ResizeStep(b, f[k], r)
  <2>1. k + 1 \in 0 .. n /\ k + 1 # 0 /\ (k + 1) - 1 = k
    BY <1>1
  <2>2. f[k + 1] = IF r > rows THEN GrowRow(b, f[(k + 1) - 1], r) ELSE ShrinkRow(f[(k + 1) - 1], r)
    BY <1>5, <2>1
  <2>. QED  BY <2>1, <2>2 DEF ResizeStep
<1>8. \A k \in 0 .. n : f[k] \in D
  <2>. DEFINE S == {k \in 0 .. n : f[k] \in D}
  <2>1. 0 \in S
    BY <1>1, <1>6
  <2>2. \A k \in 0 .. n - 1 : k \in S => k + 1 \in S
    BY <1>1, <1>7
  <2>. HIDE DEF S
  <2>3. \A k \in 0 .. n : k \in S
    BY <1>1, <2>1, <2>2, InductionUpTo
  <2>. QED  BY <2>3 DEF S
<1>9. f \in [0 .. n -> D]
  BY <1>6, <1>8
<1>. QED  BY <1>1, <1>2, <1>6, <1>7, <1>9 DEF n

(* More rows: lines come back from the scrollback or new ones are pushed.  *)
Grown(b, c) == /\ c \in BufferType /\ SamePlace(c, b)
               /\ c.ybase \in 0 .. b.ybase /\ c.ydisp \in Int /\ c.ydisp <= c.ybase

GrownBy(b, c, k) ==
    /\ c.lines.length = c.ybase + rows + k
    /\ b.ybase - c.ybase \in 0 .. k
    /\ \A i \in 0 .. c.lines.length - 1 :
          Get(c.lines, i) = IF i < b.lines.length THEN Get(b.lines, i) ELSE Blank

\* A step keeps the lines, and pulls one in or pushes one.
LEMMA GrowRowFacts ==
  ASSUME rows \in Heights, NEW r \in Heights, NEW b \in BufferType, Placed(b, rows),
         NEW c, Grown(b, c), NEW k \in Nat
  PROVE  /\ Grown(b, GrowRow(b, c, r))
         /\ GrownBy(b, c, k) /\ k < r - rows /\ b.lines.length + r - rows <= Scrollback
               => GrownBy(b, GrowRow(b, c, r), k + 1)
<1>. DEFINE g == GrowRow(b, c, r)
            l == c.lines
            L == b.lines.length
<1>1. /\ rows \in 1 .. Scrollback /\ r \in 1 .. Scrollback /\ Scrollback \in Nat
      /\ b.ybase \in 0 .. Scrollback /\ b.ybase + rows = L /\ L \in 1 .. Scrollback
  BY PlacedNumbers, SizeFacts DEF Heights
<1>2. /\ c \in BufferType /\ SamePlace(c, b) /\ c.ybase \in 0 .. b.ybase
      /\ c.ydisp \in Int /\ c.ydisp <= c.ybase /\ l \in ListType /\ l.length \in 0 .. Scrollback
      /\ l.maxLength = Scrollback
  BY DEF Grown, BufferType, ListType
<1>3. CASE l.length >= r + c.ybase
  <2>1. g = c
    BY <1>3 DEF GrowRow
  <2>2. ~ (GrownBy(b, c, k) /\ k < r - rows)
    BY <1>1, <1>2, <1>3 DEF GrownBy
  <2>. QED  BY <2>1, <2>2
<1>4. CASE ~ (l.length >= r + c.ybase) /\ c.ybase > 0 /\ l.length <= Row(b) + 1
  <2>. DEFINE disp == IF c.ydisp > 0 THEN c.ydisp - 1 ELSE c.ydisp
  <2>1. g = [c EXCEPT !.ybase = c.ybase - 1, !.ydisp = disp]
    BY <1>4 DEF GrowRow
  <2>2. /\ c.ybase - 1 \in -1 .. Scrollback /\ disp \in Int
        /\ c.ybase - 1 \in 0 .. b.ybase /\ disp <= c.ybase - 1
    BY <1>1, <1>2, <1>4
  <2>. HIDE DEF disp
  <2>3. /\ g \in BufferType /\ g.lines = l /\ g.ybase = c.ybase - 1 /\ g.ydisp = disp
        /\ SamePlace(g, c)
    BY <1>2, <2>1, <2>2 DEF BufferType, SamePlace
  <2>. HIDE DEF g
  <2>4. SamePlace(g, b)
    BY <1>2, <2>3 DEF SamePlace
  <2>5. ASSUME GrownBy(b, c, k) PROVE GrownBy(b, g, k + 1)
    <3>1. /\ l.length = g.ybase + rows + (k + 1)
          /\ b.ybase - g.ybase \in 0 .. k + 1
      BY <1>1, <1>2, <2>2, <2>3, <2>5 DEF GrownBy
    <3>. QED  BY <2>3, <2>5, <3>1 DEF GrownBy
  <2>. QED  BY <2>2, <2>3, <2>4, <2>5 DEF Grown, g
<1>5. CASE ~ (l.length >= r + c.ybase) /\ ~ (c.ybase > 0 /\ l.length <= Row(b) + 1)
  <2>. DEFINE m == push(l, Blank)
  <2>1. g = [c EXCEPT !.lines = m]
    BY <1>5 DEF GrowRow
  <2>2. Blank \in Texts /\ Blank \in Texts \union {NoLine}
    BY DEF Texts
  <2>3. m \in ListType /\ m.length = IF IsFull(l) THEN l.length ELSE l.length + 1
    BY <1>2, <2>2, PushType
  <2>. HIDE DEF m
  <2>4. /\ g \in BufferType /\ g.lines = m /\ g.ybase = c.ybase /\ g.ydisp = c.ydisp
        /\ SamePlace(g, c)
    BY <1>2, <2>1, <2>3 DEF BufferType, SamePlace
  <2>. HIDE DEF g
  <2>5. SamePlace(g, b)
    BY <1>2, <2>4 DEF SamePlace
  <2>6. ASSUME GrownBy(b, c, k), k < r - rows, L + r - rows <= Scrollback
        PROVE  GrownBy(b, g, k + 1)
    <3>1. /\ l.length = c.ybase + rows + k
          /\ b.ybase - c.ybase \in 0 .. k
          /\ \A i \in 0 .. l.length - 1 :
                Get(l, i) = IF i < L THEN Get(b.lines, i) ELSE Blank
      BY <2>6 DEF GrownBy
    <3>2. l.length < Scrollback /\ l.length >= L
      BY <1>1, <1>2, <2>6, <3>1
    <3>3. ~ IsFull(l)
      BY <1>1, <1>2, <3>2 DEF IsFull
    <3>4. m.length = l.length + 1
      BY <2>3, <3>3
    <3>5. \A j \in 0 .. l.length : Get(m, j) = IF j = l.length THEN Blank ELSE Get(l, j)
      BY <1>2, <2>2, <3>3, PushGet DEF m
    <3>6. ASSUME NEW i \in 0 .. m.length - 1
          PROVE  Get(m, i) = IF i < L THEN Get(b.lines, i) ELSE Blank
      <4>1. i \in 0 .. l.length
        BY <1>2, <3>4
      <4>2. CASE i = l.length
        <5>1. ~ (i < L)
          BY <1>1, <1>2, <3>2, <4>2
        <5>. QED  BY <3>5, <4>1, <4>2, <5>1
      <4>3. CASE i # l.length
        <5>1. i \in 0 .. l.length - 1
          BY <1>2, <4>1, <4>3
        <5>. QED  BY <3>1, <3>5, <4>1, <4>3, <5>1
      <4>. QED  BY <4>2, <4>3
    <3>7. m.length = g.ybase + rows + (k + 1) /\ b.ybase - g.ybase \in 0 .. k + 1
      <4>1. c.ybase \in Int /\ rows \in Int /\ b.ybase \in Int
        BY <1>1, <1>2
      <4>2. g.ybase = c.ybase /\ l.length = c.ybase + rows + k /\ b.ybase - c.ybase \in 0 .. k
        BY <2>4, <3>1
      <4>. HIDE DEF l
      <4>. QED  BY <3>4, <4>1, <4>2
    <3>. QED  BY <2>4, <3>6, <3>7 DEF GrownBy
  <2>. QED  BY <1>2, <2>4, <2>5, <2>6 DEF Grown, g
<1>. QED  BY <1>3, <1>4, <1>5

LEMMA GrowFacts ==
  ASSUME rows \in Heights, NEW r \in Heights, r > rows, NEW b \in BufferType, Placed(b, rows)
  PROVE  LET d == ResizeRows(b, r)
         IN /\ Grown(b, d)
            /\ b.lines.length + r - rows <= Scrollback => GrownBy(b, d, r - rows)
<1>. DEFINE D == {c \in BufferType : Grown(b, c)}
            n == ResizeSteps(r)
<1>1. /\ rows \in 1 .. Scrollback /\ r \in 1 .. Scrollback /\ Scrollback \in Nat
      /\ b.ybase \in 0 .. Scrollback /\ b.ybase + rows = b.lines.length
      /\ b.ydisp \in Int /\ b.ydisp <= b.ybase /\ b.lines.length \in 1 .. Scrollback
  BY PlacedNumbers, SizeFacts DEF Heights
<1>2. b \in D
  BY <1>1 DEF Grown, SamePlace
<1>3. ASSUME NEW c \in D PROVE ResizeStep(b, c, r) \in D
  <2>1. ResizeStep(b, c, r) = GrowRow(b, c, r)
    BY DEF ResizeStep
  <2>2. Grown(b, GrowRow(b, c, r))
    BY SizeFacts, GrowRowFacts
  <2>. QED  BY <2>1, <2>2 DEF Grown
<1>. HIDE DEF D
<1>4. n \in Nat /\ \E f \in [0 .. n -> D] :
               /\ f[0] = b
               /\ \A k \in 0 .. n - 1 : f[k + 1] = ResizeStep(b, f[k], r)
               /\ ResizeRows(b, r) = f[n]
  BY <1>2, <1>3, ResizeRowsSteps
<1>5. PICK f \in [0 .. n -> D] :
               /\ f[0] = b
               /\ \A k \in 0 .. n - 1 : f[k + 1] = ResizeStep(b, f[k], r)
               /\ ResizeRows(b, r) = f[n]
  BY <1>4
<1>6. n = r - rows
  BY <1>1 DEF ResizeSteps
<1>. HIDE DEF n
<1>7. f[n] \in D
  BY <1>4
<1>8. ASSUME b.lines.length + r - rows <= Scrollback PROVE GrownBy(b, f[n], n)
  <2>. DEFINE S == {k \in 0 .. n : GrownBy(b, f[k], k)}
  <2>1. 0 \in S
    <3>1. GrownBy(b, b, 0)
      <4>1. b.lines.length = b.ybase + rows + 0 /\ b.ybase - b.ybase \in 0 .. 0
        BY <1>1
      <4>2. \A i \in 0 .. b.lines.length - 1 : i < b.lines.length
        BY <1>1
      <4>. QED  BY <4>1, <4>2 DEF GrownBy
    <3>. QED  BY <1>4, <1>5, <3>1
  <2>2. ASSUME NEW k \in 0 .. n - 1, k \in S PROVE k + 1 \in S
    <3>1. k \in Nat /\ k \in 0 .. n /\ k + 1 \in 0 .. n /\ k < r - rows
      BY <1>4, <1>6
    <3>2. Grown(b, f[k]) /\ GrownBy(b, f[k], k)
      BY <2>2, <3>1 DEF D
    <3>3. GrownBy(b, GrowRow(b, f[k], r), k + 1)
      BY <1>8, <3>1, <3>2, GrowRowFacts
    <3>4. f[k + 1] = GrowRow(b, f[k], r)
      BY <1>5 DEF ResizeStep
    <3>. QED  BY <3>1, <3>3, <3>4
  <2>. HIDE DEF S
  <2>3. \A k \in 0 .. n : k \in S
    BY <1>4, <2>1, <2>2, InductionUpTo
  <2>4. n \in 0 .. n
    BY <1>4
  <2>. QED  BY <2>3, <2>4 DEF S
<1>. QED  BY <1>5, <1>6, <1>7, <1>8 DEF D

(* Fewer rows: lines below the cursor go, then rows at the top.            *)
Shrunk(b, c, r) == /\ c \in BufferType /\ SamePlace(c, b)
                   /\ c.ybase \in 0 .. Scrollback /\ c.ydisp \in Int /\ c.ydisp <= c.ybase
                   /\ c.ybase + r <= c.lines.length

ShrunkBy(b, c, k) ==
    /\ c.lines.length = c.ybase + rows - k
    /\ c.ybase >= b.ybase /\ c.lines.length <= b.lines.length
    /\ c.lines.length >= Row(b) + 1
    /\ c.ybase > b.ybase => c.lines.length = Row(b) + 1
    /\ \A i \in 0 .. c.lines.length - 1 : Get(c.lines, i) = Get(b.lines, i)

\* A step drops the last line, or moves the screen down by one.
LEMMA ShrinkRowFacts ==
  ASSUME rows \in Heights, NEW r \in Heights, NEW b \in BufferType, Placed(b, rows),
         NEW c, Shrunk(b, c, r), NEW k \in Nat
  PROVE  /\ Shrunk(b, ShrinkRow(c, r), r)
         /\ ShrunkBy(b, c, k) /\ k < rows - r => ShrunkBy(b, ShrinkRow(c, r), k + 1)
<1>. DEFINE g == ShrinkRow(c, r)
            l == c.lines
<1>1. /\ rows \in 1 .. Scrollback /\ r \in 1 .. Scrollback /\ Scrollback \in Nat
      /\ b.ybase \in 0 .. Scrollback /\ b.ybase + rows = b.lines.length
      /\ b.lines.length \in 1 .. Scrollback /\ b.y \in 0 .. rows - 1
      /\ Row(b) = b.ybase + b.y
  BY PlacedNumbers, SizeFacts DEF Heights, Row
<1>2. /\ c \in BufferType /\ SamePlace(c, b) /\ c.ybase \in 0 .. Scrollback
      /\ c.ydisp \in Int /\ c.ydisp <= c.ybase /\ l \in ListType /\ l.length \in 0 .. Scrollback
      /\ c.ybase + r <= l.length /\ Row(c) = c.ybase + b.y
  BY DEF Shrunk, BufferType, ListType, Row, SamePlace
<1>3. CASE l.length <= r + c.ybase
  <2>1. g = c
    BY <1>3 DEF ShrinkRow
  <2>2. ~ (ShrunkBy(b, c, k) /\ k < rows - r)
    BY <1>1, <1>2, <1>3 DEF ShrunkBy
  <2>. QED  BY <2>1, <2>2
<1>4. CASE ~ (l.length <= r + c.ybase) /\ l.length > Row(c) + 1
  <2>. DEFINE m == pop(l)
  <2>1. g = [c EXCEPT !.lines = m]
    BY <1>4 DEF ShrinkRow
  <2>2. l.length > 0
    BY <1>1, <1>2, <1>4
  <2>3. /\ m \in ListType /\ m.length = l.length - 1
        /\ \A j \in 0 .. Scrollback - 1 : Get(m, j) = Get(l, j)
    BY <1>2, <2>2, PopFacts
  <2>. HIDE DEF m
  <2>4. /\ g \in BufferType /\ g.lines = m /\ g.ybase = c.ybase /\ g.ydisp = c.ydisp
        /\ SamePlace(g, c)
    BY <1>2, <2>1, <2>3 DEF BufferType, SamePlace
  <2>. HIDE DEF g
  <2>5. SamePlace(g, b) /\ g.ybase + r <= m.length
    BY <1>1, <1>2, <1>4, <2>3, <2>4 DEF SamePlace
  <2>6. ASSUME ShrunkBy(b, c, k), k < rows - r
        PROVE  ShrunkBy(b, g, k + 1)
    <3>1. /\ l.length = c.ybase + rows - k
          /\ c.ybase >= b.ybase /\ l.length <= b.lines.length
          /\ l.length >= Row(b) + 1
          /\ c.ybase > b.ybase => l.length = Row(b) + 1
          /\ \A i \in 0 .. l.length - 1 : Get(l, i) = Get(b.lines, i)
      BY <2>6 DEF ShrunkBy
    <3>2. c.ybase = b.ybase
      BY <1>1, <1>2, <1>4, <3>1
    <3>3. /\ m.length = g.ybase + rows - (k + 1)
          /\ g.ybase >= b.ybase /\ m.length <= b.lines.length
          /\ m.length >= Row(b) + 1 /\ ~ (g.ybase > b.ybase)
      BY <1>1, <1>2, <1>4, <2>3, <2>4, <3>1, <3>2
    <3>4. ASSUME NEW i \in 0 .. m.length - 1 PROVE Get(m, i) = Get(b.lines, i)
      <4>1. i \in 0 .. l.length - 1 /\ i \in 0 .. Scrollback - 1
        BY <1>1, <1>2, <2>3
      <4>. QED  BY <2>3, <3>1, <4>1
    <3>. QED  BY <2>4, <3>3, <3>4 DEF ShrunkBy
  <2>. QED  BY <1>2, <2>4, <2>5, <2>6 DEF Shrunk, g
<1>5. CASE ~ (l.length <= r + c.ybase) /\ ~ (l.length > Row(c) + 1)
  <2>1. g = [c EXCEPT !.ybase = c.ybase + 1, !.ydisp = c.ydisp + 1]
    BY <1>5 DEF ShrinkRow
  <2>2. /\ c.ybase + 1 \in 0 .. Scrollback /\ c.ydisp + 1 \in Int /\ c.ydisp + 1 <= c.ybase + 1
        /\ c.ybase + 1 \in -1 .. Scrollback
        /\ c.ybase + 1 + r <= l.length
    BY <1>1, <1>2, <1>5
  <2>3. /\ g \in BufferType /\ g.lines = l /\ g.ybase = c.ybase + 1 /\ g.ydisp = c.ydisp + 1
        /\ SamePlace(g, c)
    BY <1>2, <2>1, <2>2 DEF BufferType, SamePlace
  <2>. HIDE DEF g
  <2>4. SamePlace(g, b)
    BY <1>2, <2>3 DEF SamePlace
  <2>5. ASSUME ShrunkBy(b, c, k), k < rows - r
        PROVE  ShrunkBy(b, g, k + 1)
    <3>1. /\ l.length = c.ybase + rows - k
          /\ c.ybase >= b.ybase /\ l.length <= b.lines.length
          /\ l.length >= Row(b) + 1
          /\ c.ybase > b.ybase => l.length = Row(b) + 1
          /\ \A i \in 0 .. l.length - 1 : Get(l, i) = Get(b.lines, i)
      BY <2>5 DEF ShrunkBy
    <3>2. l.length = Row(b) + 1
      BY <1>1, <1>2, <1>5, <3>1
    <3>3. l.length = g.ybase + rows - (k + 1) /\ g.ybase >= b.ybase
      BY <1>1, <1>2, <2>3, <3>1
    <3>. QED  BY <2>3, <3>1, <3>2, <3>3 DEF ShrunkBy
  <2>. QED  BY <1>2, <2>2, <2>3, <2>4, <2>5 DEF Shrunk, g
<1>. QED  BY <1>3, <1>4, <1>5

LEMMA ShrinkFacts ==
  ASSUME rows \in Heights, NEW r \in Heights, ~ (r > rows), NEW b \in BufferType, Placed(b, rows)
  PROVE  LET d == ResizeRows(b, r)
         IN Shrunk(b, d, r) /\ ShrunkBy(b, d, rows - r)
<1>. DEFINE D == {c \in BufferType : Shrunk(b, c, r)}
            n == ResizeSteps(r)
<1>1. /\ rows \in 1 .. Scrollback /\ r \in 1 .. Scrollback /\ Scrollback \in Nat
      /\ b.ybase \in 0 .. Scrollback /\ b.ybase + rows = b.lines.length
      /\ b.ydisp \in Int /\ b.ydisp <= b.ybase /\ b.lines.length \in 1 .. Scrollback
      /\ b.y \in 0 .. rows - 1 /\ Row(b) = b.ybase + b.y
  BY PlacedNumbers, SizeFacts DEF Heights, Row
<1>2. b \in D
  BY <1>1 DEF Shrunk, SamePlace
<1>3. ASSUME NEW c \in D PROVE ResizeStep(b, c, r) \in D
  <2>1. ResizeStep(b, c, r) = ShrinkRow(c, r)
    BY DEF ResizeStep
  <2>2. Shrunk(b, ShrinkRow(c, r), r)
    BY SizeFacts, ShrinkRowFacts
  <2>. QED  BY <2>1, <2>2 DEF Shrunk
<1>. HIDE DEF D
<1>4. n \in Nat /\ \E f \in [0 .. n -> D] :
               /\ f[0] = b
               /\ \A k \in 0 .. n - 1 : f[k + 1] = ResizeStep(b, f[k], r)
               /\ ResizeRows(b, r) = f[n]
  BY <1>2, <1>3, ResizeRowsSteps
<1>5. PICK f \in [0 .. n -> D] :
               /\ f[0] = b
               /\ \A k \in 0 .. n - 1 : f[k + 1] = ResizeStep(b, f[k], r)
               /\ ResizeRows(b, r) = f[n]
  BY <1>4
<1>6. n = rows - r
  BY <1>1 DEF ResizeSteps
<1>. HIDE DEF n
<1>7. f[n] \in D
  BY <1>4
<1>8. ShrunkBy(b, f[n], n)
  <2>. DEFINE S == {k \in 0 .. n : ShrunkBy(b, f[k], k)}
  <2>1. 0 \in S
    <3>1. ShrunkBy(b, b, 0)
      BY <1>1 DEF ShrunkBy
    <3>. QED  BY <1>4, <1>5, <3>1
  <2>2. ASSUME NEW k \in 0 .. n - 1, k \in S PROVE k + 1 \in S
    <3>1. k \in Nat /\ k \in 0 .. n /\ k + 1 \in 0 .. n /\ k < rows - r
      BY <1>4, <1>6
    <3>2. Shrunk(b, f[k], r) /\ ShrunkBy(b, f[k], k)
      BY <2>2, <3>1 DEF D
    <3>3. ShrunkBy(b, ShrinkRow(f[k], r), k + 1)
      BY <3>1, <3>2, ShrinkRowFacts
    <3>4. f[k + 1] = ShrinkRow(f[k], r)
      BY <1>5 DEF ResizeStep
    <3>. QED  BY <3>1, <3>3, <3>4
  <2>. HIDE DEF S
  <2>3. \A k \in 0 .. n : k \in S
    BY <1>4, <2>1, <2>2, InductionUpTo
  <2>4. n \in 0 .. n
    BY <1>4
  <2>. QED  BY <2>3, <2>4 DEF S
<1>. QED  BY <1>5, <1>6, <1>7, <1>8 DEF D

\* The screen of buffer b when it has r rows.
ScreenOf(b, r) == [text |-> [y \in 0 .. r - 1 |-> LineOf(b, y)], last |-> r - 1,
                   y |-> b.y, top |-> b.scrollTop, bottom |-> b.scrollBottom]

(* A list in which the screen of b has moved up by p lines (or down, for   *)
(* p < 0), with blank lines below it.                                      *)
Shifted(b, c, r, p) ==
    /\ c.ybase + p = b.ybase /\ c.ybase \in Nat /\ c.lines.length = c.ybase + r
    /\ c.y = b.y + p /\ c.y \in 0 .. r - 1
    /\ c.scrollTop = 0 /\ c.scrollBottom = r - 1
    /\ \A i \in 0 .. c.lines.length - 1 :
          Get(c.lines, i) = IF i < b.lines.length THEN Get(b.lines, i) ELSE Blank

\* Such a list shows the resized screen.
LEMMA ShiftedWorks ==
  ASSUME rows \in Heights, NEW r \in Heights, NEW b \in BufferType, Placed(b, rows),
         NEW c \in BufferType, NEW p \in Int, Shifted(b, c, r, p),
         c.ydisp \in Int, c.ydisp <= c.ybase, c.savedY = b.savedY
  PROVE  Placed(c, r) /\ Ideal!Resized(ScreenOf(b, rows), ScreenOf(c, r))
<1>1. /\ rows \in 1 .. Scrollback /\ r \in 1 .. Scrollback /\ Scrollback \in Nat
      /\ b.ybase \in 0 .. Scrollback /\ b.ybase + rows = b.lines.length
      /\ b.y \in 0 .. rows - 1 /\ b.savedY \in 0 .. Scrollback
  BY PlacedNumbers, SizeFacts DEF Heights
<1>2. /\ c.ybase + p = b.ybase /\ c.ybase \in Nat /\ c.lines.length = c.ybase + r
      /\ c.y = b.y + p /\ c.y \in 0 .. r - 1
      /\ c.scrollTop = 0 /\ c.scrollBottom = r - 1
      /\ \A i \in 0 .. c.lines.length - 1 :
            Get(c.lines, i) = IF i < b.lines.length THEN Get(b.lines, i) ELSE Blank
  BY DEF Shifted
<1>3. Placed(c, r)
  <2>1. Filled(c.lines)
    <3>. SUFFICES ASSUME NEW i \in 0 .. c.lines.length - 1 PROVE Get(c.lines, i) \in Texts
      BY DEF Filled
    <3>1. i < b.lines.length => i \in 0 .. b.lines.length - 1
      BY <1>1
    <3>2. Blank \in Texts
      BY DEF Texts
    <3>. QED  BY <1>2, <3>1, <3>2 DEF Placed, Filled
  <2>2. 0 \in 0 .. r - 1 /\ r - 1 \in 0 .. r - 1
    BY <1>1
  <2>. QED  BY <1>1, <1>2, <2>1, <2>2 DEF Placed
<1>. DEFINE s == ScreenOf(b, rows)
            t == ScreenOf(c, r)
            moved == t.y - s.y
<1>4. moved = p
  BY <1>1, <1>2 DEF ScreenOf
<1>5. /\ DOMAIN t.text = 0 .. r - 1 /\ t.last = r - 1 /\ t.y = c.y /\ t.top = 0
      /\ t.bottom = r - 1 /\ \A k \in 0 .. r - 1 : t.text[k] = LineOf(c, k)
  BY <1>2 DEF ScreenOf
<1>6. /\ DOMAIN s.text = 0 .. rows - 1 /\ s.last = rows - 1
      /\ \A k \in 0 .. rows - 1 : s.text[k] = LineOf(b, k)
  BY DEF ScreenOf
<1>. HIDE DEF s, t
<1>7. ASSUME NEW k \in 0 .. r - 1
      PROVE  /\ k - p \in 0 .. rows - 1 => t.text[k] = s.text[k - p]
             /\ k - p > rows - 1 => t.text[k] = Blank
  <2>. DEFINE i == c.ybase + k
  <2>1. i \in 0 .. c.lines.length - 1 /\ i = b.ybase + (k - p)
    BY <1>1, <1>2
  <2>2. LineOf(c, k) = IF i < b.lines.length THEN Get(b.lines, i) ELSE Blank
    <3>. HIDE DEF i
    <3>1. LineOf(c, k) = Get(c.lines, i)
      BY DEF LineOf, i
    <3>. QED  BY <1>2, <2>1, <3>1
  <2>3. /\ k - p \in 0 .. rows - 1 => i < b.lines.length
        /\ k - p > rows - 1 => ~ (i < b.lines.length)
    BY <1>1, <2>1
  <2>4. Get(b.lines, i) = LineOf(b, k - p)
    BY <2>1 DEF LineOf
  <2>. HIDE DEF i
  <2>. QED  BY <1>5, <1>6, <2>2, <2>3, <2>4
<1>8. Ideal!Resized(s, t)
  <2>. HIDE DEF moved
  <2>1. /\ DOMAIN t.text = 0 .. t.last /\ t.y \in DOMAIN t.text
        /\ t.top = 0 /\ t.bottom = t.last
    BY <1>2, <1>5
  <2>2. \A k \in DOMAIN t.text :
             /\ k - moved \in DOMAIN s.text => t.text[k] = s.text[k - moved]
             /\ k - moved > s.last => t.text[k] = Blank
    BY <1>4, <1>5, <1>6, <1>7
  <2>. QED  BY <2>1, <2>2 DEF Ideal!Resized, moved
<1>. QED  BY <1>3, <1>8 DEF s, t

LEMMA ResizeBufferFacts ==
  ASSUME rows \in Heights, NEW r \in Heights, NEW nc \in 1 .. WideCols, WideCols \in Nat,
         NEW b \in BufferType, Placed(b, rows)
  PROVE  LET c == ResizeBuffer(b, nc, r)
         IN /\ c \in BufferType
            /\ b.lines.length + r - rows <= Scrollback =>
                  Placed(c, r) /\ Ideal!Resized(ScreenOf(b, rows), ScreenOf(c, r))
<1>. DEFINE d == ResizeRows(b, r)
            added == IF r > rows THEN b.ybase - d.ybase ELSE 0
            x == ClampX(d.x, nc)
            y == AtMost(d.y, r - 1) + added
            c == ResizeBuffer(b, nc, r)
            fits == b.lines.length + r - rows <= Scrollback
<1>1. /\ rows \in 1 .. Scrollback /\ r \in 1 .. Scrollback /\ Scrollback \in Nat
      /\ b.ybase \in 0 .. Scrollback /\ b.ybase + rows = b.lines.length
      /\ b.lines.length \in 1 .. Scrollback /\ b.y \in 0 .. rows - 1
      /\ Row(b) = b.ybase + b.y
      /\ MaxParam \in Nat
  BY PlacedNumbers, SizeFacts, ScreenAssumption DEF Heights, Row
<1>2. c = [d EXCEPT !.y = y, !.x = x, !.scrollTop = 0, !.scrollBottom = r - 1]
  BY <1>1 DEF ResizeBuffer
<1>3. /\ d \in BufferType /\ SamePlace(d, b) /\ d.ydisp \in Int /\ d.ydisp <= d.ybase
      /\ d.ybase \in 0 .. Scrollback
      /\ r > rows => d.ybase \in 0 .. b.ybase
  <2>1. CASE r > rows
    BY <1>1, <2>1, GrowFacts DEF Grown
  <2>2. CASE ~ (r > rows)
    BY <2>2, ShrinkFacts DEF Shrunk
  <2>. QED  BY <2>1, <2>2
<1>. DEFINE p == IF r > rows THEN b.ybase - d.ybase ELSE AtMost(b.y, r - 1) - b.y
<1>4. ASSUME fits
      PROVE  /\ d.lines.length = d.ybase + r /\ d.ybase + p = b.ybase
             /\ \A i \in 0 .. d.lines.length - 1 :
                   Get(d.lines, i) = IF i < b.lines.length THEN Get(b.lines, i) ELSE Blank
             /\ y = b.y + p /\ y \in 0 .. r - 1 /\ p \in Int
  <2>1. CASE r > rows
    <3>1. GrownBy(b, d, r - rows)
      BY <1>4, <2>1, GrowFacts
    <3>. HIDE DEF d
    <3>2. /\ d.lines.length = d.ybase + rows + (r - rows)
          /\ b.ybase - d.ybase \in 0 .. r - rows
          /\ \A i \in 0 .. d.lines.length - 1 :
                Get(d.lines, i) = IF i < b.lines.length THEN Get(b.lines, i) ELSE Blank
      BY <3>1 DEF GrownBy
    <3>3. d.y = b.y
      BY <1>3 DEF SamePlace
    <3>4. /\ d.lines.length = d.ybase + r /\ d.ybase + p = b.ybase
          /\ y = b.y + p /\ y \in 0 .. r - 1 /\ p \in Int
      <4>1. AtMost(b.y, r - 1) = b.y
        BY <1>1, <2>1 DEF AtMost
      <4>2. added = b.ybase - d.ybase /\ p = b.ybase - d.ybase
        BY <2>1
      <4>3. p \in 0 .. r - rows /\ d.ybase + p = b.ybase /\ d.lines.length = d.ybase + r
        BY <1>1, <1>3, <3>2, <4>2
      <4>4. y = b.y + p
        BY <3>3, <4>1, <4>2
      <4>. HIDE DEF p, y
      <4>. QED  BY <1>1, <2>1, <4>3, <4>4
    <3>. QED  BY <3>2, <3>4
  <2>2. CASE ~ (r > rows)
    <3>1. ShrunkBy(b, d, rows - r)
      BY <2>2, ShrinkFacts
    <3>. HIDE DEF d
    <3>2. /\ d.lines.length = d.ybase + rows - (rows - r)
          /\ d.ybase >= b.ybase /\ d.lines.length <= b.lines.length
          /\ d.lines.length >= Row(b) + 1
          /\ d.ybase > b.ybase => d.lines.length = Row(b) + 1
          /\ \A i \in 0 .. d.lines.length - 1 : Get(d.lines, i) = Get(b.lines, i)
      BY <3>1 DEF ShrunkBy
    <3>3. d.y = b.y
      BY <1>3 DEF SamePlace
    <3>4. /\ d.lines.length = d.ybase + r /\ d.ybase + p = b.ybase
          /\ y = b.y + p /\ y \in 0 .. r - 1 /\ p \in Int
      <4>1. d.lines.length = d.ybase + r /\ d.lines.length \in Int
        BY <1>1, <1>3, <3>2
      <4>2. added = 0 /\ p = AtMost(b.y, r - 1) - b.y
        BY <2>2
      <4>3. CASE b.y > r - 1
        <5>1. d.ybase > b.ybase
          BY <1>1, <1>3, <3>2, <4>1, <4>3
        <5>2. d.ybase + r = b.ybase + b.y + 1
          BY <1>1, <3>2, <4>1, <5>1
        <5>3. AtMost(b.y, r - 1) = r - 1
          BY <1>1, <4>3 DEF AtMost
        <5>. QED  BY <1>1, <1>3, <3>3, <4>1, <4>2, <5>2, <5>3
      <4>4. CASE ~ (b.y > r - 1)
        <5>1. ~ (d.ybase > b.ybase)
          BY <1>1, <1>3, <3>2, <4>1, <4>4
        <5>2. AtMost(b.y, r - 1) = b.y
          BY <1>1, <4>4 DEF AtMost
        <5>. QED  BY <1>1, <1>3, <3>2, <3>3, <4>1, <4>2, <4>4, <5>1, <5>2
      <4>. QED  BY <4>3, <4>4
    <3>5. \A i \in 0 .. d.lines.length - 1 : i < b.lines.length
      BY <1>1, <1>3, <3>2, <3>4
    <3>. QED  BY <3>2, <3>4, <3>5
  <2>. QED  BY <2>1, <2>2
<1>. HIDE DEF d
<1>5. d.y = b.y /\ d.savedY = b.savedY /\ d.x \in NaN .. MaxX
  BY <1>3 DEF SamePlace, BufferType
<1>6. x \in NaN .. MaxX
  BY <1>5 DEF ClampX, NaN, MaxX
<1>7. y \in -1 .. Scrollback
  BY <1>1, <1>3, <1>5 DEF AtMost
<1>8. 0 \in 0 .. Scrollback + MaxParam /\ r - 1 \in 0 .. Scrollback
  BY <1>1
<1>. HIDE DEF x, y
<1>9. /\ c \in BufferType /\ c.lines = d.lines /\ c.ybase = d.ybase /\ c.ydisp = d.ydisp
      /\ c.y = y /\ c.scrollTop = 0 /\ c.scrollBottom = r - 1 /\ c.savedY = d.savedY
  BY <1>2, <1>3, <1>6, <1>7, <1>8 DEF BufferType
<1>. HIDE DEF c
<1>10. ASSUME fits
       PROVE  Placed(c, r) /\ Ideal!Resized(ScreenOf(b, rows), ScreenOf(c, r))
  <2>1. /\ d.lines.length = d.ybase + r /\ d.ybase + p = b.ybase
        /\ \A i \in 0 .. d.lines.length - 1 :
              Get(d.lines, i) = IF i < b.lines.length THEN Get(b.lines, i) ELSE Blank
        /\ y = b.y + p /\ y \in 0 .. r - 1 /\ p \in Int
    BY <1>4, <1>10
  <2>. HIDE DEF p
  <2>2. d.ybase \in Nat
    BY <1>1, <1>3
  <2>3. Shifted(b, c, r, p)
    BY <1>9, <2>1, <2>2 DEF Shifted
  <2>. QED  BY <1>3, <1>5, <1>9, <2>1, <2>3, ShiftedWorks
<1>. QED  BY <1>9, <1>10 DEF c

\* A buffer without lines is left as it is.
LEMMA UnusedResize ==
  ASSUME NEW b, Unused(b), NEW nc, NEW r
  PROVE  ResizeBuffer(b, nc, r) = b
BY DEF Unused, ResizeBuffer

-----------------------------------------------------------------------------
(* Every step is one of these.                                             *)
Stops == ~ tame /\ stopped' = TRUE
         /\ UNCHANGED <<buffers, active, rows, cols, savedCols, wraparound,
                        userScrolling, tame, ops>>

\* Terminal.resize for another size.
Refit(nc, r) ==
    /\ buffers' = [n \in DOMAIN buffers |-> ResizeBuffer(buffers[n], nc, r)]
    /\ cols' = nc /\ rows' = r

Resizing(nc, r) ==
    /\ tame /\ Refit(nc, r)
    /\ UNCHANGED <<active, wraparound, userScrolling, stopped, ops>>
    /\ savedCols' \in {0, InitCols, WideCols} /\ nc \in {InitCols, WideCols}
    /\ tame' \in BOOLEAN
    /\ tame' => \A n \in DOMAIN buffers : buffers[n].lines.length + r - rows <= Scrollback

Idle == UNCHANGED <<buffers, active, rows, cols, wraparound, userScrolling, stopped, tame, ops>>
        /\ savedCols' \in {0, InitCols, WideCols}

Switches == activateAltBuffer \/ activateNormalBuffer \/ reset

LEMMA ModesCases ==
  ASSUME IInv, Modes
  PROVE  \/ \E c \in BufferType : Effect(c)
         \/ \E nc \in {InitCols, WideCols}, r \in Heights : Resizing(nc, r)
         \/ Idle \/ Switches
<1>1. ASSUME tame
      PROVE  \A n \in DOMAIN buffers : buffers[n].lines.length + rows - rows <= Scrollback
  <2>. SUFFICES ASSUME NEW n \in DOMAIN buffers
                PROVE  buffers[n].lines.length + rows - rows <= Scrollback
    OBVIOUS
  <2>1. buffers[n] \in BufferType /\ rows \in Int
    BY SizeFacts DEF IInv, TypeOK, Heights
  <2>2. buffers[n].lines.length \in 0 .. Scrollback
    BY <2>1 DEF BufferType, ListType
  <2>. QED  BY <2>1, <2>2, SizeFacts
<1>2. /\ cols \in {InitCols, WideCols} /\ savedCols \in {0, InitCols, WideCols}
      /\ rows \in Heights /\ tame \in BOOLEAN
  BY DEF IInv, TypeOK
<1>3. ASSUME set132Columns PROVE Resizing(WideCols, rows) \/ Idle
  <2>1. /\ tame /\ Resize(WideCols, rows) /\ savedCols' = cols
        /\ UNCHANGED <<active, wraparound, userScrolling, stopped, ops>> /\ tame' = tame
    BY <1>3 DEF set132Columns, Parsing, Tame
  <2>2. CASE WideCols = cols
    BY <1>2, <2>1, <2>2 DEF Resize, Idle
  <2>3. CASE WideCols # cols
    <3>1. Refit(WideCols, rows)
      BY <2>1, <2>3 DEF Resize, Refit
    <3>. QED  BY <1>1, <1>2, <2>1, <3>1 DEF Resizing
  <2>. QED  BY <2>2, <2>3
<1>4. ASSUME reset132Columns
      PROVE  (\E nc \in {InitCols, WideCols}, r \in Heights : Resizing(nc, r)) \/ Idle
  <2>1. /\ tame /\ savedCols' = 0 /\ tame' = tame
        /\ UNCHANGED <<active, wraparound, userScrolling, stopped, ops>>
        /\ IF cols = WideCols /\ savedCols # 0 THEN Resize(savedCols, rows)
                                               ELSE UNCHANGED <<buffers, cols, rows>>
    BY <1>4 DEF reset132Columns, Parsing, Tame
  <2>2. CASE cols = WideCols /\ savedCols # 0
    <3>1. Resize(savedCols, rows) /\ savedCols \in {InitCols, WideCols}
      BY <1>2, <2>1, <2>2
    <3>2. CASE savedCols = cols
      BY <2>1, <3>1, <3>2 DEF Resize, Idle
    <3>3. CASE savedCols # cols
      <4>1. Refit(savedCols, rows)
        BY <3>1, <3>3 DEF Resize, Refit
      <4>2. Resizing(savedCols, rows)
        BY <1>1, <1>2, <2>1, <3>1, <4>1 DEF Resizing
      <4>. QED  BY <1>2, <3>1, <4>2
    <3>. QED  BY <3>2, <3>3
  <2>3. CASE ~ (cols = WideCols /\ savedCols # 0)
    <3>1. UNCHANGED <<buffers, cols, rows>>
      BY <2>1, <2>3
    <3>. QED  BY <2>1, <3>1 DEF Idle
  <2>. QED  BY <2>2, <2>3
<1>5. ASSUME NEW on \in BOOLEAN, setWraparound(on) PROVE \E c \in BufferType : Effect(c)
  BY <1>5, SetWraparoundEffect
<1>6. ASSUME softReset PROVE \E c \in BufferType : Effect(c)
  BY <1>6, SoftResetEffect
<1>. QED  BY <1>2, <1>3, <1>4, <1>5, <1>6 DEF Modes, Switches

LEMMA ThrowStops ==
  ASSUME NEW g, ~ tame, Throw(g)
  PROVE  Stops
BY DEF Throw, Stops

\* The steps of the specification.
LEMMA NextCases ==
  ASSUME IInv, [Next]_vars
  PROVE  \/ \E c \in BufferType : Effect(c)
         \/ Stops
         \/ \E nc \in {InitCols, WideCols}, r \in Heights : Resizing(nc, r)
         \/ Idle \/ Switches
<1>1. CASE Printing
  BY <1>1, PrintingEffect, ThrowStops
<1>2. CASE Erasing
  BY <1>2, ErasingEffect, ThrowStops
<1>3. CASE eraseScrollback
  BY <1>3, EraseScrollbackEffect
<1>4. CASE Lines
  BY <1>4, LinesEffect
<1>5. CASE Cursor
  BY <1>5, CursorEffect
<1>6. CASE Modes
  BY <1>6, ModesCases
<1>7. CASE \E m, n \in Param : setScrollRegion(m, n)
  BY <1>7, RegionEffect
<1>8. CASE \E disp \in -Scrollback .. Scrollback : scrollDisp(disp)
  <2>1. PICK disp \in -Scrollback .. Scrollback : scrollDisp(disp)
    BY <1>8
  <2>2. disp \in Int
    OBVIOUS
  <2>. QED  BY <2>1, <2>2, ScrollDispEffect
<1>9. CASE \E newRows \in Sizes : resize(newRows)
  <2>1. PICK r \in Sizes : resize(r)
    BY <1>9
  <2>2. r \in Heights
    BY ScreenAssumption DEF Heights
  <2>. DEFINE P == \A n \in DOMAIN buffers : buffers[n].lines.length + r - rows <= Scrollback
  <2>3. /\ tame /\ Refit(cols, r) /\ TameIf(P)
        /\ UNCHANGED <<active, savedCols, wraparound, userScrolling, stopped, ops>>
    BY <2>1 DEF resize, Resize, Refit
  <2>4. P \in BOOLEAN
    OBVIOUS
  <2>. HIDE DEF P
  <2>5. tame' \in BOOLEAN /\ (tame' => P)
    BY <2>3, <2>4 DEF TameIf
  <2>6. cols \in {InitCols, WideCols} /\ savedCols' \in {0, InitCols, WideCols}
    BY <2>3 DEF IInv, TypeOK
  <2>7. Resizing(cols, r)
    BY <2>3, <2>5, <2>6 DEF Resizing, P
  <2>. QED  BY <2>2, <2>6, <2>7
<1>10. CASE UNCHANGED vars
  <2>1. UNCHANGED <<buffers, active, rows, cols, savedCols, wraparound, userScrolling,
                    stopped, tame, ops>>
    BY <1>10 DEF vars
  <2>2. Idle
    BY <2>1 DEF Idle, IInv, TypeOK
  <2>. QED  BY <2>2
<1>. QED  BY <1>1, <1>2, <1>3, <1>4, <1>5, <1>6, <1>7, <1>8, <1>9, <1>10
          DEF Next, Program, User

-----------------------------------------------------------------------------
\* A new buffer, with lines for the screen or without any.
LEMMA NewBufferFacts ==
  ASSUME NEW r \in Heights, NEW n \in {0, r}
  PROVE  /\ NewBuffer(n, r) \in BufferType
         /\ n = 0 => Unused(NewBuffer(n, r))
         /\ n = r => /\ Placed(NewBuffer(n, r), r)
                     /\ \A y \in 0 .. r - 1 : LineOf(NewBuffer(n, r), y) = Blank
<1>. DEFINE b == NewBuffer(n, r)
            l == BlankLines(n)
<1>1. r \in 1 .. Scrollback /\ Scrollback \in Nat /\ MaxParam \in Nat /\ n \in 0 .. Scrollback
      /\ WideCols \in Nat
  BY SizeFacts, ScreenAssumption DEF Heights
<1>2. l \in ListType /\ l.length = n /\ \A j \in 0 .. n - 1 : Get(l, j) = Blank
  BY <1>1, BlankLinesFacts
<1>3. b = [lines |-> l, x |-> 0, y |-> 0, ybase |-> 0, ydisp |-> 0,
           scrollTop |-> 0, scrollBottom |-> r - 1, savedY |-> 0]
  BY DEF NewBuffer
<1>. HIDE DEF l
<1>4. /\ 0 \in NaN .. MaxX /\ 0 \in -1 .. Scrollback /\ 0 \in 0 .. Scrollback + MaxParam
      /\ r - 1 \in 0 .. Scrollback /\ 0 \in 0 .. r - 1 /\ r - 1 \in 0 .. r - 1
      /\ 0 \in 0 .. Scrollback /\ 0 + r = r /\ 0 \in 0 .. 0
  BY <1>1 DEF NaN, MaxX
<1>5. b \in BufferType
  BY <1>2, <1>3, <1>4 DEF BufferType
<1>6. ASSUME n = 0 PROVE Unused(b)
  BY <1>2, <1>3, <1>4, <1>6 DEF Unused
<1>7. ASSUME n = r PROVE Placed(b, r) /\ \A y \in 0 .. r - 1 : LineOf(b, y) = Blank
  <2>1. /\ b.lines = l /\ b.ybase = 0 /\ b.ydisp = 0 /\ b.y = 0 /\ b.scrollTop = 0
        /\ b.scrollBottom = r - 1 /\ b.savedY = 0
    BY <1>3
  <2>. HIDE DEF b
  <2>2. Filled(l)
    <3>1. Blank \in Texts
      BY DEF Texts
    <3>. QED  BY <1>2, <3>1 DEF Filled
  <2>3. Placed(b, r)
    BY <1>2, <1>4, <1>7, <2>1, <2>2 DEF Placed
  <2>4. ASSUME NEW y \in 0 .. r - 1 PROVE LineOf(b, y) = Blank
    <3>1. 0 + y = y
      OBVIOUS
    <3>. QED  BY <1>2, <1>7, <2>1, <3>1 DEF LineOf
  <2>. QED  BY <2>3, <2>4
<1>. QED  BY <1>5, <1>6, <1>7 DEF b

LEMMA FreshFacts ==
  ASSUME rows \in Heights
  PROVE  /\ FreshBuffers \in [{"normal", "alt"} -> BufferType]
         /\ Placed(FreshBuffers["normal"], rows) /\ Unused(FreshBuffers["alt"])
         /\ FreshBuffers["normal"] = NewBuffer(rows, rows)
<1>1. /\ NewBuffer(rows, rows) \in BufferType /\ Placed(NewBuffer(rows, rows), rows)
      /\ NewBuffer(0, rows) \in BufferType /\ Unused(NewBuffer(0, rows))
  BY NewBufferFacts
<1>2. /\ FreshBuffers["normal"] = NewBuffer(rows, rows)
      /\ FreshBuffers["alt"] = NewBuffer(0, rows)
      /\ FreshBuffers = [n \in {"normal", "alt"} |-> FreshBuffers[n]]
  BY DEF FreshBuffers
<1>. HIDE DEF FreshBuffers
<1>3. \A n \in {"normal", "alt"} : FreshBuffers[n] \in BufferType
  BY <1>1, <1>2
<1>. QED  BY <1>1, <1>2, <1>3

-----------------------------------------------------------------------------
(* The invariant is kept.                                                  *)
LEMMA EffectInv ==
  ASSUME IInv, NEW c \in BufferType, Effect(c)
  PROVE  IInv'
<1>1. /\ tame /\ buffers' = [buffers EXCEPT ![active] = c]
      /\ UNCHANGED <<active, rows, cols, savedCols, stopped, ops>>
      /\ wraparound' \in BOOLEAN /\ userScrolling' \in BOOLEAN /\ tame' \in BOOLEAN
      /\ tame' => Placed(c, rows)
  BY DEF Effect, Works
<1>2. buffers \in [{"normal", "alt"} -> BufferType] /\ active \in {"normal", "alt"}
  BY DEF IInv, TypeOK
<1>3. buffers' \in [{"normal", "alt"} -> BufferType]
  BY <1>1, <1>2
<1>4. TypeOK'
  BY <1>1, <1>3 DEF IInv, TypeOK
<1>5. ScreenInv'
  <2>. SUFFICES ASSUME tame'
                PROVE  /\ ~ stopped' /\ Placed(buffers'["normal"], rows)
                       /\ IF active = "alt" THEN Placed(buffers'["alt"], rows)
                                            ELSE Unused(buffers'["alt"])
    BY <1>1 DEF ScreenInv
  <2>1. /\ ~ stopped /\ Placed(buffers["normal"], rows)
        /\ IF active = "alt" THEN Placed(buffers["alt"], rows) ELSE Unused(buffers["alt"])
    BY <1>1 DEF IInv, ScreenInv
  <2>2. CASE active = "alt"
    <3>1. buffers'["alt"] = c /\ buffers'["normal"] = buffers["normal"]
      BY <1>1, <1>2, <2>2
    <3>. QED  BY <1>1, <2>1, <2>2, <3>1
  <2>3. CASE active # "alt"
    <3>1. buffers'["normal"] = c /\ buffers'["alt"] = buffers["alt"]
      BY <1>1, <1>2, <2>3
    <3>. QED  BY <1>1, <2>1, <2>3, <3>1
  <2>. QED  BY <2>2, <2>3
<1>. QED  BY <1>1, <1>4, <1>5 DEF IInv

LEMMA ResizingFacts ==
  ASSUME IInv, NEW nc \in {InitCols, WideCols}, NEW r \in Heights, Resizing(nc, r),
         NEW n \in {"normal", "alt"}
  PROVE  /\ buffers'[n] = ResizeBuffer(buffers[n], nc, r)
         /\ buffers'[n] \in BufferType
         /\ Unused(buffers[n]) => buffers'[n] = buffers[n]
         /\ tame' /\ Placed(buffers[n], rows) =>
               /\ Placed(buffers'[n], r)
               /\ Ideal!Resized(ScreenOf(buffers[n], rows), ScreenOf(buffers'[n], r))
<1>1. /\ buffers \in [{"normal", "alt"} -> BufferType] /\ nc \in 1 .. WideCols
      /\ WideCols \in Nat /\ rows \in Heights
  BY ScreenAssumption DEF IInv, TypeOK
<1>2. buffers'[n] = ResizeBuffer(buffers[n], nc, r)
  BY <1>1 DEF Resizing, Refit
<1>3. Unused(buffers[n]) => buffers'[n] = buffers[n]
  BY <1>2, UnusedResize
<1>4. ASSUME Placed(buffers[n], rows)
      PROVE  /\ buffers'[n] \in BufferType
             /\ tame' => /\ Placed(buffers'[n], r)
                         /\ Ideal!Resized(ScreenOf(buffers[n], rows), ScreenOf(buffers'[n], r))
  <2>1. tame' => buffers[n].lines.length + r - rows <= Scrollback
    BY <1>1 DEF Resizing
  <2>2. /\ ResizeBuffer(buffers[n], nc, r) \in BufferType
        /\ buffers[n].lines.length + r - rows <= Scrollback =>
              /\ Placed(ResizeBuffer(buffers[n], nc, r), r)
              /\ Ideal!Resized(ScreenOf(buffers[n], rows),
                               ScreenOf(ResizeBuffer(buffers[n], nc, r), r))
    BY <1>1, <1>4, ResizeBufferFacts
  <2>. QED  BY <1>2, <2>1, <2>2
<1>5. Placed(buffers[n], rows) \/ Unused(buffers[n])
  <2>1. tame
    BY DEF Resizing
  <2>. QED  BY <2>1 DEF IInv, ScreenInv
<1>. QED  BY <1>1, <1>2, <1>3, <1>4, <1>5

LEMMA ResizingInv ==
  ASSUME IInv, NEW nc \in {InitCols, WideCols}, NEW r \in Heights, Resizing(nc, r)
  PROVE  IInv'
<1>1. /\ tame /\ cols' = nc /\ rows' = r
      /\ UNCHANGED <<active, wraparound, userScrolling, stopped, ops>>
      /\ savedCols' \in {0, InitCols, WideCols} /\ tame' \in BOOLEAN
      /\ buffers' = [n \in DOMAIN buffers |-> ResizeBuffer(buffers[n], nc, r)]
  BY DEF Resizing, Refit
<1>2. buffers \in [{"normal", "alt"} -> BufferType] /\ active \in {"normal", "alt"}
  BY DEF IInv, TypeOK
<1>3. \A n \in {"normal", "alt"} : buffers'[n] \in BufferType
  BY ResizingFacts
<1>4. buffers' \in [{"normal", "alt"} -> BufferType]
  BY <1>1, <1>2, <1>3
<1>5. r \in Nat \ {0}
  BY SizeFacts DEF Heights
<1>6. TypeOK'
  BY <1>1, <1>4, <1>5 DEF IInv, TypeOK
<1>7. ScreenInv'
  <2>. SUFFICES ASSUME tame'
                PROVE  /\ ~ stopped' /\ Placed(buffers'["normal"], r)
                       /\ IF active = "alt" THEN Placed(buffers'["alt"], r)
                                            ELSE Unused(buffers'["alt"])
    BY <1>1 DEF ScreenInv
  <2>1. /\ ~ stopped /\ Placed(buffers["normal"], rows)
        /\ IF active = "alt" THEN Placed(buffers["alt"], rows) ELSE Unused(buffers["alt"])
    BY <1>1 DEF IInv, ScreenInv
  <2>2. Placed(buffers'["normal"], r)
    BY <2>1, ResizingFacts
  <2>3. Placed(buffers["alt"], rows) => Placed(buffers'["alt"], r)
    BY ResizingFacts
  <2>4. Unused(buffers["alt"]) => Unused(buffers'["alt"])
    BY ResizingFacts
  <2>. QED  BY <1>1, <2>1, <2>2, <2>3, <2>4
<1>. QED  BY <1>1, <1>6, <1>7 DEF IInv

\* The alternate buffer when it is shown: new lines, unless it has some.
LEMMA AltFacts ==
  ASSUME IInv, activateAltBuffer
  PROVE  /\ buffers' \in [{"normal", "alt"} -> BufferType]
         /\ buffers'["normal"] = buffers["normal"]
         /\ active = "alt" => buffers' = buffers
         /\ active # "alt" /\ tame' =>
               /\ Placed(buffers'["alt"], rows)
               /\ ScreenOf(buffers'["alt"], rows) = Ideal!Fresh(rows - 1)
<1>. DEFINE a == buffers["alt"]
            l == IF a.lines.length = 0 THEN BlankLines(rows) ELSE a.lines
            c == [a EXCEPT !.lines = l]
            k == BlankLines(rows)
<1>1. /\ buffers \in [{"normal", "alt"} -> BufferType] /\ active \in {"normal", "alt"}
      /\ a \in BufferType /\ a.lines \in ListType /\ rows \in 1 .. Scrollback
      /\ Scrollback \in Nat /\ rows \in Heights
  BY SizeFacts DEF IInv, TypeOK, BufferType, Heights
<1>2. tame
  BY DEF activateAltBuffer, Parsing
<1>3. buffers' = [buffers EXCEPT !["alt"] = c]
  BY <1>1 DEF activateAltBuffer
<1>4. k \in ListType /\ k.length = rows /\ \A j \in 0 .. rows - 1 : Get(k, j) = Blank
  BY <1>1, BlankLinesFacts
<1>. HIDE DEF k, a
<1>5. l \in ListType /\ (a.lines.length = 0 => l = k)
  BY <1>1, <1>4 DEF k
<1>. HIDE DEF l
<1>6. /\ c \in BufferType /\ c.lines = l /\ c.ybase = a.ybase /\ c.ydisp = a.ydisp
      /\ c.y = a.y /\ c.scrollTop = a.scrollTop /\ c.scrollBottom = a.scrollBottom
      /\ c.savedY = a.savedY
  BY <1>1, <1>5 DEF BufferType
<1>7. ASSUME active = "alt" PROVE buffers' = buffers
  <2>1. Placed(a, rows)
    BY <1>2, <1>7 DEF IInv, ScreenInv, a
  <2>2. a.lines.length # 0
    BY <1>1, <2>1, PlacedNumbers
  <2>3. l = a.lines
    BY <2>2 DEF l
  <2>4. c = a
    BY <1>1, <2>3 DEF BufferType
  <2>. HIDE DEF c
  <2>. QED  BY <1>1, <1>3, <2>4 DEF a
<1>. HIDE DEF c
<1>8. ASSUME active # "alt", tame'
      PROVE  Placed(c, rows) /\ ScreenOf(c, rows) = Ideal!Fresh(rows - 1)
  <2>1. Unused(a)
    BY <1>2, <1>8 DEF IInv, ScreenInv, a
  <2>2. a.scrollBottom = rows - 1
    BY <1>8 DEF activateAltBuffer, TameIf, a
  <2>3. c.lines = k /\ c.ybase = 0 /\ c.ydisp = 0 /\ c.y = 0 /\ c.scrollTop = 0
        /\ c.scrollBottom = rows - 1 /\ c.savedY \in 0 .. Scrollback
    BY <1>5, <1>6, <2>1, <2>2 DEF Unused
  <2>4. Filled(k)
    <3>1. Blank \in Texts
      BY DEF Texts
    <3>. QED  BY <1>4, <3>1 DEF Filled
  <2>5. 0 \in 0 .. 0 /\ 0 + rows = rows /\ 0 \in 0 .. rows - 1 /\ rows - 1 \in 0 .. rows - 1
    BY <1>1
  <2>6. Placed(c, rows)
    BY <1>4, <2>3, <2>4, <2>5 DEF Placed
  <2>7. \A y \in 0 .. rows - 1 : LineOf(c, y) = Blank
    <3>. TAKE y \in 0 .. rows - 1
    <3>1. 0 + y = y
      OBVIOUS
    <3>. QED  BY <1>4, <2>3, <3>1 DEF LineOf
  <2>8. ScreenOf(c, rows) = Ideal!Fresh(rows - 1)
    BY <2>3, <2>7 DEF ScreenOf, Ideal!Fresh
  <2>. QED  BY <2>6, <2>8
<1>. QED  BY <1>1, <1>3, <1>6, <1>7, <1>8

LEMMA SwitchesInv ==
  ASSUME IInv, Switches
  PROVE  IInv'
<1>1. /\ buffers \in [{"normal", "alt"} -> BufferType] /\ active \in {"normal", "alt"}
      /\ rows \in Heights /\ tame \in BOOLEAN
  BY DEF IInv, TypeOK
<1>2. CASE activateAltBuffer
  <2>. DEFINE P == active = "alt" \/ buffers["alt"].scrollBottom = rows - 1
  <2>1. /\ tame /\ active' = "alt" /\ tame' = (tame /\ P) /\ P \in BOOLEAN
        /\ UNCHANGED <<rows, cols, savedCols, wraparound, userScrolling, stopped, ops>>
    BY <1>2 DEF activateAltBuffer, Parsing, TameIf
  <2>. HIDE DEF P
  <2>2. tame' \in BOOLEAN
    BY <2>1
  <2>3. TypeOK'
    BY <1>2, <2>1, <2>2, AltFacts DEF IInv, TypeOK
  <2>4. ~ stopped /\ Placed(buffers["normal"], rows)
        /\ (active = "alt" => Placed(buffers["alt"], rows))
    BY <2>1 DEF IInv, ScreenInv
  <2>5. ScreenInv'
    BY <1>2, <2>1, <2>4, AltFacts DEF ScreenInv
  <2>. QED  BY <1>1, <2>1, <2>3, <2>5 DEF IInv
<1>3. CASE activateNormalBuffer
  <2>. DEFINE e == NewBuffer(0, rows)
              y == buffers["alt"].savedY
              c == [e EXCEPT !.savedY = y]
  <2>1. /\ tame /\ active' = "normal" /\ tame' = tame
        /\ buffers' = [buffers EXCEPT !["alt"] = c]
        /\ UNCHANGED <<rows, cols, savedCols, wraparound, userScrolling, stopped, ops>>
    BY <1>3 DEF activateNormalBuffer, Parsing, Tame
  <2>2. e \in BufferType /\ Unused(e)
    BY <1>1, NewBufferFacts
  <2>3. ~ stopped /\ Placed(buffers["normal"], rows)
        /\ (Placed(buffers["alt"], rows) \/ Unused(buffers["alt"]))
    BY <2>1 DEF IInv, ScreenInv
  <2>4. y \in 0 .. Scrollback /\ y \in -1 .. Scrollback
    BY <2>3, SizeFacts DEF Placed, Unused
  <2>. HIDE DEF e, y
  <2>5. c \in BufferType /\ Unused(c)
    BY <2>2, <2>4 DEF BufferType, Unused
  <2>. HIDE DEF c
  <2>6. /\ buffers' \in [{"normal", "alt"} -> BufferType]
        /\ buffers'["normal"] = buffers["normal"] /\ buffers'["alt"] = c
    BY <1>1, <2>1, <2>5
  <2>7. TypeOK'
    BY <2>1, <2>6 DEF IInv, TypeOK
  <2>8. ScreenInv'
    BY <2>1, <2>3, <2>5, <2>6 DEF ScreenInv
  <2>. QED  BY <1>1, <2>1, <2>7, <2>8 DEF IInv
<1>4. CASE reset
  <2>1. /\ ~ stopped /\ buffers' = FreshBuffers /\ active' = "normal" /\ wraparound' = TRUE
        /\ userScrolling' = FALSE /\ tame' = TRUE
        /\ UNCHANGED <<rows, cols, savedCols, stopped, ops>>
    BY <1>4 DEF reset
  <2>2. TypeOK'
    BY <1>1, <2>1, FreshFacts DEF IInv, TypeOK
  <2>3. ScreenInv'
    BY <1>1, <2>1, FreshFacts DEF ScreenInv
  <2>. QED  BY <1>1, <2>1, <2>2, <2>3 DEF IInv
<1>. QED  BY <1>2, <1>3, <1>4 DEF Switches

LEMMA InitInv == Init => IInv
<1>. SUFFICES ASSUME Init PROVE IInv
  OBVIOUS
<1>1. /\ rows = InitRows /\ cols = InitCols /\ savedCols = 0 /\ buffers = FreshBuffers
      /\ active = "normal" /\ wraparound = TRUE /\ userScrolling = FALSE
      /\ stopped = FALSE /\ tame = TRUE /\ ops \in Programs
  BY DEF Init
<1>2. rows \in Heights /\ rows \in Nat \ {0}
  BY <1>1, ScreenAssumption DEF Heights
<1>3. TypeOK
  BY <1>1, <1>2, FreshFacts DEF TypeOK
<1>4. ScreenInv
  BY <1>1, <1>2, FreshFacts DEF ScreenInv
<1>. QED  BY <1>2, <1>3, <1>4 DEF IInv

LEMMA NextInv == IInv /\ [Next]_vars => IInv'
<1>. SUFFICES ASSUME IInv, [Next]_vars PROVE IInv'
  OBVIOUS
<1>1. CASE Stops
  <2>1. stopped' \in BOOLEAN /\ ~ tame'
    BY <1>1 DEF Stops, IInv, TypeOK
  <2>2. UNCHANGED <<buffers, active, rows, cols, savedCols, wraparound, userScrolling, tame, ops>>
    BY <1>1 DEF Stops
  <2>. QED  BY <2>1, <2>2 DEF IInv, TypeOK, ScreenInv
<1>2. CASE Idle
  <2>1. TypeOK'
    BY <1>2 DEF Idle, IInv, TypeOK
  <2>2. ScreenInv'
    BY <1>2 DEF Idle, IInv, ScreenInv
  <2>3. rows' \in Heights
    BY <1>2 DEF Idle, IInv
  <2>. QED  BY <2>1, <2>2, <2>3 DEF IInv
<1>. QED  BY <1>1, <1>2, NextCases, EffectInv, ResizingInv, SwitchesInv

-----------------------------------------------------------------------------
(* The theorems.                                                           *)
LEMMA SpecInv == Spec => []IInv
<1>1. Init => IInv
  BY InitInv
<1>2. IInv /\ [Next]_vars => IInv'
  BY NextInv
<1>. QED  BY <1>1, <1>2, PTL DEF Spec

\* Every variable keeps its type: the numbers of a buffer stay within the
\* bounds of its list in every handler, also where the screen is not tame.
THEOREM ScreenTypeCorrect == Spec => []TypeOK
<1>1. IInv => TypeOK
  BY DEF IInv
<1>. QED  BY <1>1, SpecInv, PTL

\* The rows of the screen are the last lines of the list and all there, the cursor
\* is on one of them and the view is not below them, whatever sequence of scrolls,
\* trims, insertions, deletions and resizes moves ybase and ydisp (Terminal.scroll,
\* insertLines, deleteLines, eraseInDisplay, Buffer.resize), full lists included,
\* until one of the cases that TameIf names. It does not say that the view is in
\* the list: CSI L and M take it out at the first line of a full one.
THEOREM ScreenStaysInside == Spec => []ScreenInsideList
<1>1. IInv => ScreenInsideList
  <2>. SUFFICES ASSUME IInv, tame
                PROVE  /\ buffer.ydisp <= buffer.ybase
                       /\ buffer.ybase + rows = buffer.lines.length
                       /\ buffer.y \in 0 .. rows - 1
                       /\ \A y \in 0 .. rows - 1 : LineOf(buffer, y) \in Texts
    BY DEF ScreenInsideList
  <2>1. buffer \in BufferType /\ Placed(buffer, rows) /\ rows \in Heights
    BY ActiveBuffer
  <2>2. /\ buffer.ybase \in Nat /\ buffer.ybase + rows = buffer.lines.length
        /\ buffer.y \in 0 .. rows - 1 /\ buffer.ydisp <= buffer.ybase
        /\ rows \in Nat
    BY <2>1, PlacedNumbers, SizeFacts DEF Heights
  <2>3. ASSUME NEW y \in 0 .. rows - 1 PROVE LineOf(buffer, y) \in Texts
    <3>1. buffer.ybase + y \in 0 .. buffer.lines.length - 1
      BY <2>2
    <3>. QED  BY <2>1, <3>1 DEF LineOf, Placed, Filled
  <2>. QED  BY <2>2, <2>3
<1>. QED  BY <1>1, SpecInv, PTL

\* No handler meets a line that is not there or a loop that does not end, which
\* innerWrite would not survive, before one of the cases that TameIf names.
THEOREM OutputNeverStops == Spec => []NeverStops
<1>1. IInv => NeverStops
  BY DEF IInv, ScreenInv, NeverStops
<1>. QED  BY <1>1, SpecInv, PTL

-----------------------------------------------------------------------------
\* A resize that keeps the rows keeps the list.
LEMMA SameRows ==
  ASSUME rows \in Heights, NEW b \in BufferType, Placed(b, rows), NEW nc
  PROVE  ResizeBuffer(b, nc, rows).lines = b.lines
<1>1. /\ b.ybase + rows = b.lines.length /\ rows \in Nat /\ b.ybase \in Nat
      /\ b.lines.length \in Nat /\ ~ (rows > rows)
  BY PlacedNumbers, SizeFacts DEF Heights
<1>2. ASSUME NEW c \in {b} PROVE ResizeStep(b, c, rows) \in {b}
  BY <1>1 DEF ResizeStep, ShrinkRow
<1>3. ResizeSteps(rows) = 0
  BY <1>1 DEF ResizeSteps
<1>4. ResizeRows(b, rows) = b
  <2>. DEFINE D == {b}
  <2>1. b \in D /\ \A c \in D : ResizeStep(b, c, rows) \in D
    BY <1>2
  <2>. HIDE DEF D
  <2>2. \E f \in [0 .. ResizeSteps(rows) -> D] :
               /\ f[0] = b
               /\ \A k \in 0 .. ResizeSteps(rows) - 1 : f[k + 1] = ResizeStep(b, f[k], rows)
               /\ ResizeRows(b, rows) = f[ResizeSteps(rows)]
    BY <2>1, ResizeRowsSteps
  <2>. QED  BY <1>3, <2>2
<1>. QED  BY <1>1, <1>4 DEF ResizeBuffer, BufferType

ViewKept ==
    tame /\ tame' /\ active' = active /\ rows' = rows /\ buffer'.lines # buffer.lines
    => /\ (~ userScrolling /\ ~ userScrolling' /\ buffer.ydisp = buffer.ybase)
          => buffer'.ydisp = buffer'.ybase
       /\ (/\ userScrolling /\ userScrolling' /\ buffer'.ybase > 0
           /\ buffer.ydisp > 0 \/ (buffer.ydisp = 0 /\ ~ IsFull(buffer.lines)))
          => \A y \in InScrollback(buffer) :
                 \/ ViewedLine(buffer, y) = ViewedLine(buffer', y)
                 \/ /\ IsFull(buffer.lines) /\ buffer.ydisp + y = 1
                    /\ ViewedLine(buffer', y) = Blank
       /\ (buffer.ydisp >= 0 /\ buffer'.ydisp < 0)
          => buffer.ydisp = 0 /\ IsFull(buffer.lines)

\* Every step keeps the view.
LEMMA KeptView ==
  ASSUME buffer.ydisp \in Int, buffer'.ydisp \in Int,
         \/ KeepsView(buffer', buffer)
         \/ buffer'.ydisp = buffer'.ybase /\ buffer'.ybase = 0
  PROVE  ViewKept
<1>1. CASE KeepsView(buffer', buffer)
  <2>1. buffer.ydisp >= 0 /\ buffer'.ydisp < 0 => buffer.ydisp = 0 /\ IsFull(buffer.lines)
    BY <1>1 DEF KeepsView, StaysInList
  <2>. QED  BY <1>1, <2>1 DEF ViewKept, KeepsView, KeepsRow, BlanksRow, StaysInList
<1>2. CASE buffer'.ydisp = buffer'.ybase /\ buffer'.ybase = 0
  BY <1>2 DEF ViewKept
<1>. QED  BY <1>1, <1>2

LEMMA NextViewKept == IInv /\ [Next]_vars => ViewKept
<1>. SUFFICES ASSUME IInv, [Next]_vars, tame, tame', active' = active, rows' = rows,
                     buffer'.lines # buffer.lines
              PROVE  KeepsView(buffer', buffer)
                     \/ (buffer'.ydisp = buffer'.ybase /\ buffer'.ybase = 0)
  <2>1. IInv /\ IInv' => buffer.ydisp \in Int /\ buffer'.ydisp \in Int
    BY DEF IInv, TypeOK, BufferType, buffer
  <2>. QED  BY <2>1, NextInv, KeptView DEF ViewKept
<1>1. /\ buffers \in [{"normal", "alt"} -> BufferType] /\ active \in {"normal", "alt"}
      /\ buffer \in BufferType /\ Placed(buffer, rows) /\ rows \in Heights
      /\ buffer = buffers[active] /\ buffer' = buffers'[active]
  BY ActiveBuffer DEF IInv, TypeOK, buffer
<1>2. CASE \E c \in BufferType : Effect(c)
  <2>1. PICK c \in BufferType : Effect(c)
    BY <1>2
  <2>2. buffer' = c
    BY <1>1, <2>1 DEF Effect
  <2>. QED  BY <2>1, <2>2 DEF Effect, Works
<1>3. CASE Stops
  BY <1>3 DEF Stops
<1>4. ASSUME NEW nc \in {InitCols, WideCols}, NEW r \in Heights, Resizing(nc, r)
      PROVE  FALSE
  <2>1. r = rows
    BY <1>4 DEF Resizing, Refit
  <2>2. buffer' = ResizeBuffer(buffer, nc, rows)
    BY <1>1, <1>4, <2>1, ResizingFacts
  <2>. QED  BY <1>1, <2>2, SameRows
<1>5. CASE Idle
  <2>1. buffer' = buffer
    BY <1>5 DEF Idle, buffer
  <2>. QED  BY <2>1
<1>6. CASE activateAltBuffer
  <2>1. active = "alt"
    BY <1>6 DEF activateAltBuffer
  <2>. QED  BY <1>1, <1>6, <2>1, AltFacts
<1>7. CASE activateNormalBuffer
  <2>1. active = "normal" /\ buffers'["normal"] = buffers["normal"]
    BY <1>1, <1>7 DEF activateNormalBuffer
  <2>. QED  BY <1>1, <2>1
<1>8. CASE reset
  <2>1. active = "normal" /\ buffers' = FreshBuffers
    BY <1>8 DEF reset
  <2>2. buffer' = NewBuffer(rows, rows)
    BY <1>1, <2>1, FreshFacts
  <2>3. NewBuffer(rows, rows).ybase = 0 /\ NewBuffer(rows, rows).ydisp = 0
    BY DEF NewBuffer
  <2>. QED  BY <2>2, <2>3
<1>. QED  BY <1>2, <1>3, <1>4, <1>5, <1>6, <1>7, <1>8, NextCases DEF Switches

\* Output leaves the view of a user who has scrolled on the same lines, and at
\* the bottom if it was there (userScrolling and ydisp in Terminal.scroll). What
\* else it does is said too: CSI M on a full list may blank the line that becomes
\* the list's first, and CSI L and M take a view at the first line out of it.
THEOREM OutputKeepsView == Spec => ViewFollows
<1>1. IInv /\ [Next]_vars => [ViewKept]_vars
  BY NextViewKept
<1>2. [][ViewKept]_vars => ViewFollows
  BY DEF ViewKept, ViewFollows
<1>. QED  BY <1>1, <1>2, SpecInv, PTL DEF Spec

-----------------------------------------------------------------------------
(* The refinement.  What IdealScreen calls shown, kept and onAlt:          *)
Shown == Screen(buffer)
Kept  == IF active = "alt" THEN Screen(buffers["normal"]) ELSE <<>>

LEMMA ShownFacts ==
  /\ Shown = ScreenOf(buffers[active], rows)
  /\ Shown' = ScreenOf(buffers'[active'], rows')
  /\ active = "alt" => Kept = ScreenOf(buffers["normal"], rows)
  /\ active' = "alt" => Kept' = ScreenOf(buffers'["normal"], rows')
  /\ active # "alt" => Kept = <<>>
  /\ active' # "alt" => Kept' = <<>>
BY DEF Shown, Kept, Screen, ScreenOf, buffer

IdealVarsKept == Shown' = Shown /\ Kept' = Kept /\ (active' = "alt") = (active = "alt")
                 /\ tame' = tame

LEMMA IdealStutter ==
  ASSUME IdealVarsKept
  PROVE  [Ideal!Next]_(Ideal!vars)
BY DEF IdealVarsKept, Shown, Kept, Ideal!vars

LEMMA IdealInit == Init => Ideal!Init
<1>. SUFFICES ASSUME Init PROVE Ideal!Init
  OBVIOUS
<1>1. buffers = FreshBuffers /\ active = "normal" /\ rows \in Heights /\ tame = TRUE
  BY ScreenAssumption DEF Init, Heights
<1>2. buffer = NewBuffer(rows, rows)
  BY <1>1, FreshFacts DEF buffer
<1>3. \A y \in 0 .. rows - 1 : LineOf(NewBuffer(rows, rows), y) = Blank
  BY <1>1, NewBufferFacts
<1>4. Screen(buffer) = [text |-> [y \in 0 .. rows - 1 |-> Blank], last |-> rows - 1,
                        y |-> 0, top |-> 0, bottom |-> rows - 1]
  BY <1>2, <1>3 DEF Screen, NewBuffer
<1>5. Screen(buffer) = Ideal!Fresh(rows - 1) /\ Screen(buffer).last = rows - 1
  BY <1>4 DEF Ideal!Fresh
<1>. QED  BY <1>1, <1>5 DEF Ideal!Init, Ideal!Nothing

\* An output operation is a step of IdealScreen.
LEMMA EffectIdeal ==
  ASSUME IInv, NEW c \in BufferType, Effect(c)
  PROVE  [Ideal!Next]_(Ideal!vars)
<1>1. /\ tame /\ buffers' = [buffers EXCEPT ![active] = c]
      /\ UNCHANGED <<active, rows>> /\ tame' \in BOOLEAN
      /\ tame' => \/ IdealStep(Screen(buffer), Screen(c))
                  \/ IsFull(buffer.lines) /\ DeletesBelow(Screen(buffer), Screen(c))
  BY DEF Effect, Works
<1>2. buffers \in [{"normal", "alt"} -> BufferType] /\ active \in {"normal", "alt"}
      /\ tame \in BOOLEAN
  BY DEF IInv, TypeOK
<1>3. CASE ~ tame'
  <2>1. tame' = FALSE
    BY <1>1, <1>3
  <2>. QED  BY <1>1, <2>1 DEF Ideal!Next
<1>4. CASE tame'
  <2>1. Shown' = Screen(c) /\ Shown = Screen(buffer)
    <3>1. buffers'[active] = c
      BY <1>1, <1>2
    <3>2. Shown' = ScreenOf(c, rows)
      BY <1>1, <3>1, ShownFacts
    <3>. QED  BY <3>2 DEF Shown, Screen, ScreenOf
  <2>2. Kept' = Kept
    <3>1. CASE active = "alt"
      <4>1. buffers'["normal"] = buffers["normal"]
        BY <1>1, <1>2, <3>1
      <4>. QED  BY <1>1, <3>1, <4>1, ShownFacts
    <3>2. CASE active # "alt"
      BY <1>1, <3>2, ShownFacts
    <3>. QED  BY <3>1, <3>2
  <2>3. Ideal!Keep
    <3>1. tame' = tame /\ (active' = "alt") = (active = "alt")
      BY <1>1, <1>2, <1>4
    <3>. QED  BY <2>2, <3>1 DEF Ideal!Keep, Kept
  <2>4. IdealStep(Shown, Shown') \/ (IsFull(buffer.lines) /\ DeletesBelow(Shown, Shown'))
    BY <1>1, <1>4, <2>1
  <2>5. CASE \E ink \in Ink, s \in {Shown, Ideal!NextRow(Shown)} :
                Shown' = [s EXCEPT !.text[s.y] = ink]
    <3>1. Ideal!PutText
      BY <2>3, <2>5 DEF Ideal!PutText, Shown
    <3>. QED  BY <1>1, <3>1 DEF Ideal!Next
  <2>6. CASE Shown' = Ideal!NextRow(Shown)
    <3>1. Ideal!NewLine
      BY <2>3, <2>6 DEF Ideal!NewLine, Shown
    <3>. QED  BY <1>1, <3>1 DEF Ideal!Next
  <2>7. CASE Shown'.y \in DOMAIN Shown.text /\ Shown' = [Shown EXCEPT !.y = Shown'.y]
    <3>1. Ideal!Move
      BY <2>3, <2>7 DEF Ideal!Move, Shown
    <3>. QED  BY <1>1, <3>1 DEF Ideal!Next
  <2>8. CASE /\ Shown' = [Shown EXCEPT !.top = Shown'.top, !.bottom = Shown'.bottom, !.y = 0]
             /\ Shown'.bottom \in DOMAIN Shown.text /\ Shown'.top \in 0 .. Shown'.bottom
    <3>1. Ideal!SetRegion
      BY <2>3, <2>8 DEF Ideal!SetRegion, Shown
    <3>. QED  BY <1>1, <3>1 DEF Ideal!Next
  <2>9. CASE /\ Shown' = [Shown EXCEPT !.text = Shown'.text]
             /\ DOMAIN Shown'.text = DOMAIN Shown.text
             /\ \A r \in DOMAIN Shown.text : Shown'.text[r] \in {Shown.text[r], Blank}
    <3>1. Ideal!Erase
      BY <2>3, <2>9 DEF Ideal!Erase, Shown
    <3>. QED  BY <1>1, <3>1 DEF Ideal!Next
  <2>10. CASE Ideal!InRegion(Shown) /\ Shown' = Ideal!Down(Shown, Shown.y, Shown.bottom)
    <3>1. Ideal!InsertLine
      BY <2>3, <2>10 DEF Ideal!InsertLine, Shown
    <3>. QED  BY <1>1, <3>1 DEF Ideal!Next
  <2>11. CASE Ideal!InRegion(Shown) /\ Shown' = Ideal!Up(Shown, Shown.y, Shown.bottom)
    <3>1. Ideal!DeleteLine
      BY <2>3, <2>11 DEF Ideal!DeleteLine, Shown
    <3>. QED  BY <1>1, <3>1 DEF Ideal!Next
  <2>12. CASE Shown' = Ideal!Up(Shown, Shown.top, Shown.bottom)
    <3>1. Ideal!ScrollUp
      BY <2>3, <2>12 DEF Ideal!ScrollUp, Shown
    <3>. QED  BY <1>1, <3>1 DEF Ideal!Next
  <2>13. CASE Shown' = Ideal!Down(Shown, Shown.top, Shown.bottom)
    <3>1. Ideal!ScrollDown
      BY <2>3, <2>13 DEF Ideal!ScrollDown, Shown
    <3>. QED  BY <1>1, <3>1 DEF Ideal!Next
  <2>14. CASE Shown.y = 0 /\ Shown.top = 0 /\ Shown' = Ideal!Down(Shown, 0, Shown.last)
    <3>1. Ideal!ReverseIndex
      BY <2>3, <2>14 DEF Ideal!ReverseIndex, Shown
    <3>. QED  BY <1>1, <3>1 DEF Ideal!Next
  <2>15. CASE IsFull(buffer.lines) /\ DeletesBelow(Shown, Shown')
    <3>1. Ideal!DeleteBelow
      BY <2>3, <2>15 DEF Ideal!DeleteBelow, DeletesBelow, Shown, Texts
    <3>. QED  BY <1>1, <3>1 DEF Ideal!Next
  <2>. QED  BY <2>4, <2>5, <2>6, <2>7, <2>8, <2>9, <2>10, <2>11, <2>12, <2>13, <2>14, <2>15
            DEF IdealStep
<1>. QED  BY <1>3, <1>4

\* So is a resize.
LEMMA ResizingIdeal ==
  ASSUME IInv, NEW nc \in {InitCols, WideCols}, NEW r \in Heights, Resizing(nc, r)
  PROVE  [Ideal!Next]_(Ideal!vars)
<1>1. tame /\ rows' = r /\ active' = active /\ tame' \in BOOLEAN /\ tame \in BOOLEAN
      /\ active \in {"normal", "alt"}
  BY DEF Resizing, Refit, IInv, TypeOK
<1>2. CASE ~ tame'
  <2>1. tame' = FALSE
    BY <1>1, <1>2
  <2>. QED  BY <1>1, <2>1 DEF Ideal!Next
<1>3. CASE tame'
  <2>1. /\ Placed(buffers["normal"], rows)
        /\ active = "alt" => Placed(buffers["alt"], rows)
    BY <1>1 DEF IInv, ScreenInv
  <2>2. Ideal!Resized(ScreenOf(buffers["normal"], rows), ScreenOf(buffers'["normal"], r))
    BY <1>3, <2>1, ResizingFacts
  <2>3. active = "alt" =>
           Ideal!Resized(ScreenOf(buffers["alt"], rows), ScreenOf(buffers'["alt"], r))
    BY <1>3, <2>1, ResizingFacts
  <2>4. Ideal!Resized(Shown, Shown')
    BY <1>1, <2>2, <2>3, ShownFacts
  <2>5. IF active = "alt" THEN Ideal!Resized(Kept, Kept') ELSE Kept' = Kept
    BY <1>1, <2>2, ShownFacts
  <2>6. tame' = tame /\ (active' = "alt") = (active = "alt")
    BY <1>1, <1>3
  <2>7. Ideal!Resize
    BY <2>4, <2>5, <2>6 DEF Ideal!Resize, Shown, Kept
  <2>. QED  BY <1>1, <2>7 DEF Ideal!Next
<1>. QED  BY <1>2, <1>3

\* So are the changes of buffer and the reset.
LEMMA SwitchesIdeal ==
  ASSUME IInv, Switches
  PROVE  [Ideal!Next]_(Ideal!vars)
<1>1. /\ buffers \in [{"normal", "alt"} -> BufferType] /\ active \in {"normal", "alt"}
      /\ rows \in Heights /\ tame \in BOOLEAN
  BY DEF IInv, TypeOK
<1>2. CASE activateAltBuffer
  <2>. DEFINE P == active = "alt" \/ buffers["alt"].scrollBottom = rows - 1
  <2>1. tame /\ active' = "alt" /\ rows' = rows /\ tame' = (tame /\ P) /\ P \in BOOLEAN
    BY <1>2 DEF activateAltBuffer, Parsing, TameIf
  <2>. HIDE DEF P
  <2>2. tame' \in BOOLEAN
    BY <2>1
  <2>3. CASE ~ tame'
    <3>1. tame' = FALSE
      BY <2>2, <2>3
    <3>. QED  BY <2>1, <3>1 DEF Ideal!Next
  <2>4. CASE tame' /\ active = "alt"
    <3>1. buffers' = buffers
      BY <1>2, <2>4, AltFacts
    <3>2. Shown' = Shown /\ Kept' = Kept
      BY <2>1, <2>4, <3>1, ShownFacts
    <3>3. IdealVarsKept
      BY <1>1, <2>1, <2>2, <2>4, <3>2 DEF IdealVarsKept
    <3>. QED  BY <3>3, IdealStutter
  <2>5. CASE tame' /\ active # "alt"
    <3>1. /\ buffers'["normal"] = buffers["normal"] /\ active = "normal"
          /\ ScreenOf(buffers'["alt"], rows) = Ideal!Fresh(rows - 1)
      BY <1>1, <1>2, <2>5, AltFacts
    <3>2. Kept' = Shown /\ Shown' = Ideal!Fresh(rows - 1)
      BY <2>1, <3>1, ShownFacts
    <3>3. Shown.last = rows - 1
      BY DEF Shown, Screen
    <3>4. tame' = tame /\ (active' = "alt") = TRUE /\ ~ (active = "alt")
      BY <1>1, <2>1, <2>2, <2>5
    <3>5. Ideal!ToAlt
      BY <3>2, <3>3, <3>4 DEF Ideal!ToAlt, Shown, Kept
    <3>. QED  BY <2>1, <3>5 DEF Ideal!Next
  <2>. QED  BY <2>3, <2>4, <2>5
<1>3. CASE activateNormalBuffer
  <2>1. /\ tame /\ active' = "normal" /\ rows' = rows /\ tame' = tame
        /\ buffers'["normal"] = buffers["normal"]
    BY <1>1, <1>3 DEF activateNormalBuffer, Parsing, Tame
  <2>2. CASE active = "normal"
    <3>1. Shown' = Shown /\ Kept' = Kept
      BY <2>1, <2>2, ShownFacts
    <3>2. IdealVarsKept
      BY <2>1, <2>2, <3>1 DEF IdealVarsKept
    <3>. QED  BY <3>2, IdealStutter
  <2>3. CASE active = "alt"
    <3>1. Shown' = Kept /\ Kept' = <<>>
      BY <2>1, <2>3, ShownFacts
    <3>2. (active' = "alt") = FALSE
      BY <2>1
    <3>3. Ideal!ToNormal
      BY <2>1, <2>3, <3>1, <3>2 DEF Ideal!ToNormal, Ideal!Nothing, Shown, Kept
    <3>. QED  BY <2>1, <3>3 DEF Ideal!Next
  <2>. QED  BY <1>1, <2>2, <2>3
<1>4. CASE reset
  <2>1. buffers' = FreshBuffers /\ active' = "normal" /\ tame' = TRUE /\ rows' = rows
    BY <1>4 DEF reset
  <2>2. buffers'["normal"] = NewBuffer(rows, rows)
    BY <1>1, <2>1, FreshFacts
  <2>3. \A y \in 0 .. rows - 1 : LineOf(NewBuffer(rows, rows), y) = Blank
    BY <1>1, NewBufferFacts
  <2>4. Shown' = ScreenOf(NewBuffer(rows, rows), rows) /\ Kept' = <<>>
    BY <2>1, <2>2, ShownFacts
  <2>5. Shown' = Ideal!Fresh(rows - 1) /\ Shown'.last = rows - 1
    BY <2>3, <2>4 DEF ScreenOf, NewBuffer, Ideal!Fresh
  <2>6. (active' = "alt") = FALSE
    BY <2>1
  <2>7. Ideal!Reset
    BY <2>1, <2>4, <2>5, <2>6 DEF Ideal!Reset, Ideal!Nothing, Shown, Kept
  <2>. QED  BY <2>7 DEF Ideal!Next
<1>. QED  BY <1>2, <1>3, <1>4 DEF Switches

LEMMA NextIdeal == IInv /\ [Next]_vars => [Ideal!Next]_(Ideal!vars)
<1>. SUFFICES ASSUME IInv, [Next]_vars PROVE [Ideal!Next]_(Ideal!vars)
  OBVIOUS
<1>1. ASSUME UNCHANGED <<buffers, active, rows, tame>>
      PROVE  [Ideal!Next]_(Ideal!vars)
  <2>1. Shown' = Shown /\ Kept' = Kept
    BY <1>1, ShownFacts DEF Kept
  <2>2. IdealVarsKept
    BY <1>1, <2>1 DEF IdealVarsKept
  <2>. QED  BY <2>2, IdealStutter
<1>2. CASE Stops
  BY <1>1, <1>2 DEF Stops
<1>3. CASE Idle
  BY <1>1, <1>3 DEF Idle
<1>. QED  BY <1>2, <1>3, NextCases, EffectIdeal, ResizingIdeal, SwitchesIdeal

\* Every handler does to the rows of the screen what IdealScreen says, and until a
\* case that TameIf names the list, its trims and the scrollback do not show, but
\* for CSI M on a full list: DeleteBelow says which lines it deletes instead.
THEOREM ScreenImplementsIdeal == Spec => ImplementsIdealScreen
<1>1. Init => Ideal!Init
  BY IdealInit
<1>2. IInv /\ [Next]_vars => [Ideal!Next]_(Ideal!vars)
  BY NextIdeal
<1>. QED  BY <1>1, <1>2, SpecInv, PTL DEF Spec, ImplementsIdealScreen, Ideal!Spec

=============================================================================
