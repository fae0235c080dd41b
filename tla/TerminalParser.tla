--------------------------- MODULE TerminalParser ---------------------------
(***************************************************************************)
(* The parser of the terminal's output (Parser in xterm.js): characters go *)
(* through a machine of states; texts, controls and the ends of escape     *)
(* sequences call a handler.                                               *)
(*                                                                         *)
(* React is what one character does.  Parse is the loop of the code over   *)
(* one chunk, which moves a position; Read is the same characters one by   *)
(* one, without chunks.  Values of parameters, titles and charsets are     *)
(* left out: a parameter counts, up to MaxParams, and prefix says that     *)
(* there is one.  A character outside of the basic plane is one character: *)
(* the server decodes whole characters, so no chunk ends inside of a       *)
(* surrogate pair (surrogate_high is never set).                           *)
(***************************************************************************)
EXTENDS Integers, Sequences

CONSTANT MaxParams   \* bound of the number of parameters

ASSUME ParserAssumption == MaxParams \in Nat \ {0}

ParserStates == {"NORMAL", "ESCAPED", "CSI_PARAM", "OSC", "CHARSET", "DCS", "IGNORE"}

Start == [state |-> "NORMAL", prefix |-> FALSE, params |-> 0]

One(n) == IF n < MaxParams THEN n + 1 ELSE n

\* What a character does: the parser after it, the handler it calls, and by
\* how much it moves the position of the loop beyond itself.
To(p, call, move) == [parser |-> p, calls |-> call, move |-> move]
In(p, s)          == [p EXCEPT !.state = s]
Calls(p, ch)      == <<[on |-> p.state, char |-> ch, params |-> p.params,
                        prefix |-> p.prefix]>>

\* The string of an OSC, DCS or APC ends with BEL, or with ESC and one more.
Ends(p, ch) ==
    To(CASE p.state = "OSC" -> [In(p, "NORMAL") EXCEPT !.params = 0]
         [] p.state = "DCS" -> [In(p, "NORMAL") EXCEPT !.prefix = FALSE]
         [] OTHER           -> In(p, "NORMAL"),
       IF p.state = "IGNORE" THEN <<>> ELSE Calls(p, ch),
       IF ch = "ESC" THEN 1 ELSE 0)

NormalState(p, ch) ==
    IF ch = "ESC" THEN To(In(p, "ESCAPED"), <<>>, 0) ELSE To(p, Calls(p, ch), 0)

(* ESC c makes a new terminal with a new parser, and the old one goes on   *)
(* in its state.  ESC n, o, |, }, ~ do not leave the state either.         *)
EscapedState(p, ch) ==
    CASE ch = "["        -> To([In(p, "CSI_PARAM") EXCEPT !.params = 0], <<>>, 0)
      [] ch = "]"        -> To([In(p, "OSC") EXCEPT !.params = 0], <<>>, 0)
      [] ch = "P"        -> To([In(p, "DCS") EXCEPT !.params = 0], <<>>, 0)
      [] ch = "_"        -> To(In(p, "IGNORE"), <<>>, 0)
      [] ch = "c"        -> To([p EXCEPT !.params = 0, !.prefix = FALSE], Calls(p, ch), 0)
      [] ch = "n"        -> To(p, Calls(p, ch), 0)
      [] ch = "("        -> To(In(p, "CHARSET"), <<>>, 0)
      [] ch = "/"        -> To(In(p, "CHARSET"), <<>>, -1)
      [] ch \in {"%", "#"} -> To(In(p, "NORMAL"), Calls(p, ch), 1)
      [] OTHER           -> To(In(p, "NORMAL"), Calls(p, ch), 0)

\* CAN keeps the prefix, and an opening bracket does not clear it.
CsiParamState(p, ch) ==
    CASE ch = "?"   -> To([p EXCEPT !.prefix = TRUE], <<>>, 0)
      [] ch = "1"   -> To(p, <<>>, 0)
      [] ch = ";"   -> To([p EXCEPT !.params = One(@)], <<>>, 0)
      [] ch = "CAN" -> To(In(p, "NORMAL"), <<>>, 0)
      [] OTHER      -> To([In(p, "NORMAL") EXCEPT !.params = One(@), !.prefix = FALSE],
                          Calls(p, ch), 0)

StringState(p, ch) ==
    IF ch \in {"ESC", "BEL"} THEN Ends(p, ch)
    ELSE To(IF p.state = "OSC" /\ ch = ";" /\ p.params = 0
            THEN [p EXCEPT !.params = 1] ELSE p, <<>>, 0)

React(p, ch) ==
    CASE p.state = "NORMAL"    -> NormalState(p, ch)
      [] p.state = "ESCAPED"   -> EscapedState(p, ch)
      [] p.state = "CHARSET"   -> To(In(p, "NORMAL"), Calls(p, ch), 0)
      [] p.state = "CSI_PARAM" -> CsiParamState(p, ch)
      [] OTHER                 -> StringState(p, ch)

-----------------------------------------------------------------------------
(* Parser.parse: the loop ends when the position is beyond the chunk.  A   *)
(* position that moves back is read again, so a character takes at most    *)
(* two rounds.                                                             *)
Moved(r, reaction) == [parser |-> reaction.parser,
                       at     |-> r.at + 1 + reaction.move,
                       calls  |-> r.calls \o reaction.calls]

Round(r, chunk) == IF r.at > Len(chunk) THEN r
                   ELSE Moved(r, React(r.parser, chunk[r.at]))

Parsed(r, chunk) == [parser |-> r.parser, calls |-> r.calls,
                     beyond |-> r.at > Len(chunk) + 1]

Parse(p, chunk) ==
    LET round[k \in 0 .. 2 * Len(chunk)] ==
            IF k = 0 THEN [parser |-> p, at |-> 1, calls |-> <<>>]
                     ELSE Round(round[k - 1], chunk)
    IN Parsed(round[2 * Len(chunk)], chunk)

-----------------------------------------------------------------------------
(* The reference: a reader of single characters, which remembers that the  *)
(* next one is to be skipped.                                              *)
NewReader == [parser |-> Start, skip |-> FALSE]

Reading(r, reaction) == [parser |-> reaction.parser, skip |-> reaction.move = 1,
                         calls |-> r.calls \o reaction.calls]

ReadOne(r, ch) ==
    IF r.skip THEN [r EXCEPT !.skip = FALSE]
    ELSE IF React(r.parser, ch).move = -1
         THEN Reading(r, React(React(r.parser, ch).parser, ch))
         ELSE Reading(r, React(r.parser, ch))

Read(r, chunk) ==
    LET after[k \in 0 .. Len(chunk)] ==
            IF k = 0 THEN [parser |-> r.parser, skip |-> r.skip, calls |-> <<>>]
                     ELSE ReadOne(after[k - 1], chunk[k])
    IN after[Len(chunk)]

=============================================================================
