---------------------------- MODULE MessageSplit ----------------------------
(***************************************************************************)
(* SplitMessage: a text too long for one chat message is cut at line ends. *)
(*                                                                         *)
(* A text is a sequence of spaces, newlines and letters, which are         *)
(* numbered by their place.                                                *)
(***************************************************************************)
EXTENDS Integers, Sequences, FiniteSetsExt

CONSTANTS
  MaxLen,      \* of a chat message
  MaxText      \* bound: length of the text

ASSUME SplitAssumption == MaxLen \in Nat \ {0} /\ MaxText \in Nat

VARIABLES
  whole,       \* history: the text that is split
  text,        \* what is left of it
  parts,
  split        \* SplitMessage: "entered", "cutting", "returned"

splitVars == <<whole, text, parts, split>>

-----------------------------------------------------------------------------
Space == 0
Newline == -1

IsSpace(c) == c \in {Space, Newline}

TrimSpace(t) ==
  LET inked == {i \in DOMAIN t : ~IsSpace(t[i])} IN
  IF inked = {} THEN <<>> ELSE SubSeq(t, Min(inked), Max(inked))

LineEnds(t) == {i \in 2 .. Len(t) : t[i] = Newline}

ParagraphEnds(t) == {i \in LineEnds(t) : i > 2 /\ t[i - 1] = Newline}

\* A line's end counts two characters, as a paragraph's does.
Cut_TwoNewlines(t) ==
  LET head == SubSeq(t, 1, MaxLen) IN
  IF ParagraphEnds(head) # {} THEN Max(ParagraphEnds(head))
  ELSE IF LineEnds(head) # {} THEN Max(LineEnds(head)) + 1 ELSE MaxLen

\* How much goes into a part: to the last paragraph's end, to the last line's end, or all
\* that fits.  An end that begins the text does not count.
Cut(t) ==
  LET head == SubSeq(t, 1, MaxLen) IN
  IF ParagraphEnds(head) # {} THEN Max(ParagraphEnds(head))
  ELSE IF LineEnds(head) # {} THEN Max(LineEnds(head)) ELSE MaxLen

-----------------------------------------------------------------------------
Shapes(n) == [1 .. n -> {"letter", "space", "newline"}]

Written(shape) == [i \in DOMAIN shape |-> CASE shape[i] = "letter" -> i
                                           [] shape[i] = "space" -> Space
                                           [] shape[i] = "newline" -> Newline]

SplitStart(t) == whole = t /\ text = t /\ parts = <<>> /\ split = "entered"

\* Any text.
SplitInit == \E n \in 0 .. MaxText : \E shape \in Shapes(n) : SplitStart(Written(shape))

\* A text that fits is returned as it is, also if it is empty.
Enter ==
  /\ split = "entered"
  /\ IF Len(text) <= MaxLen THEN parts' = <<text>> /\ split' = "returned"
                            ELSE split' = "cutting" /\ UNCHANGED parts
  /\ UNCHANGED <<whole, text>>

CutPart ==
  /\ split = "cutting" /\ Len(text) > MaxLen
  /\ parts' = Append(parts, TrimSpace(SubSeq(text, 1, Cut(text))))
  /\ text' = TrimSpace(SubSeq(text, Cut(text) + 1, Len(text)))
  /\ UNCHANGED <<whole, split>>

\* What is left fits; there may be nothing left.
Finish ==
  /\ split = "cutting" /\ Len(text) <= MaxLen
  /\ parts' = IF text # <<>> THEN Append(parts, text) ELSE parts
  /\ split' = "returned"
  /\ UNCHANGED <<whole, text>>

SplitNext == Enter \/ CutPart \/ Finish

SplitSpec == SplitInit /\ [][SplitNext]_splitVars

-----------------------------------------------------------------------------
(* Properties *)

\* The parts are pieces of the text, one after the other, that begin after `at`.
Pieces(at) ==
  /\ \A i \in DOMAIN parts :
       /\ at[i] + Len(parts[i]) <= Len(whole)
       /\ \A k \in DOMAIN parts[i] : parts[i][k] = whole[at[i] + k]
  /\ \A i, j \in DOMAIN parts : i < j => at[i] + Len(parts[i]) <= at[j]

InPieces(p, at) == \E i \in DOMAIN parts : p \in at[i] + 1 .. at[i] + Len(parts[i])

\* However a text is cut, no part is longer than a message may be; the parts are pieces of
\* the text in order, nothing but spaces and newlines is left out and nothing is said twice;
\* and no part of several is empty, which the services refuse, save the first of a text that
\* begins with a space or a newline (SplitMessage).
SplitKeepsText ==
  split = "returned" =>
    /\ parts # <<>>
    /\ \A i \in DOMAIN parts : Len(parts[i]) <= MaxLen
    /\ \E at \in [DOMAIN parts -> 0 .. Len(whole)] :
         Pieces(at) /\ \A p \in DOMAIN whole : IsSpace(whole[p]) \/ InPieces(p, at)
    /\ \A i \in DOMAIN parts :
         parts[i] = <<>> => i = 1 /\ (whole = <<>> \/ IsSpace(Head(whole)))
=============================================================================
