----------------------------- MODULE AnswerText -----------------------------
(***************************************************************************)
(* From the lines of the claude CLI to text events: a line repeats all of  *)
(* a message's text so far, and parseStreamLine passes on what is new.     *)
(*                                                                         *)
(* A text is a sequence of numbered characters, so that a character told   *)
(* twice can be told from two that look alike.                             *)
(***************************************************************************)
EXTENDS Integers, Sequences

CONSTANTS
  MessageIDs,  \* of the CLI's assistant messages, in the order they begin
  MaxChunk,    \* bound: characters a line adds
  MaxAnswer    \* bound: characters of the answer

ASSUME TextAssumption ==
  MessageIDs \subseteq Nat \ {0} /\ MaxChunk \in Nat /\ MaxAnswer \in Nat

VARIABLES
  texts,       \* of the CLI's messages, as last written
  lastMsgID,   \* 0 before the first line
  lastTextLen,
  answer,      \* the text events so far, one after the other
  letters,     \* history: characters written so far
  plain        \* history: no message came back after another, none was cut back

textVars == <<texts, lastMsgID, lastTextLen, answer, letters, plain>>

-----------------------------------------------------------------------------
(* parseStreamLine *)

\* A text that has become shorter is not noticed.
Told_NoShrink(id) == IF id # lastMsgID THEN 0 ELSE lastTextLen

\* How much of the message has been passed on: nothing of another message, nor of one
\* whose text has become shorter.
Told(id, length) == IF id # lastMsgID \/ lastTextLen > length THEN 0 ELSE lastTextLen

\* A line with the whole text of a message.
ParseStreamLine_NoShrink(id, full) ==
  /\ answer' = answer \o SubSeq(full, Told_NoShrink(id) + 1, Len(full))
  /\ lastMsgID' = id /\ lastTextLen' = Len(full)

ParseStreamLine(id, full) ==
  /\ answer' = answer \o SubSeq(full, Told(id, Len(full)) + 1, Len(full))
  /\ lastMsgID' = id /\ lastTextLen' = Len(full)

-----------------------------------------------------------------------------
TextInit ==
  /\ texts = [id \in MessageIDs |-> <<>>]
  /\ lastMsgID = 0 /\ lastTextLen = 0 /\ answer = <<>>
  /\ letters = 0 /\ plain = TRUE

Begun == {id \in MessageIDs : id <= lastMsgID \/ texts[id] # <<>>}

Follows(id) == id \in Begun \/ \A other \in MessageIDs : other < id => other \in Begun

\* The CLI (external) has more text for a message, or none, and a line tells all.
Grow(id) ==
  /\ Follows(id)
  /\ \E n \in 0 .. MaxChunk :
       LET full == texts[id] \o [i \in 1 .. n |-> letters + i] IN
       /\ ParseStreamLine(id, full) /\ Len(answer') <= MaxAnswer
       /\ texts' = [texts EXCEPT ![id] = full]
       /\ letters' = letters + n
  /\ plain' = (plain /\ id >= lastMsgID)

\* A tool use takes the place of part of its text.
CutBack(id) ==
  /\ id = lastMsgID
  /\ \E k \in 0 .. Len(texts[id]) - 1 :
       LET full == SubSeq(texts[id], 1, k) IN
       /\ ParseStreamLine(id, full) /\ Len(answer') <= MaxAnswer
       /\ texts' = [texts EXCEPT ![id] = full]
  /\ plain' = FALSE /\ UNCHANGED letters

TextNext == \E id \in MessageIDs : Grow(id) \/ CutBack(id)

TextSpec == TextInit /\ [][TextNext]_textVars

-----------------------------------------------------------------------------
(* Properties *)

\* Where the text of each message, as it last was, stands in the answer.
Stands(at) ==
  \A id \in MessageIDs :
    /\ at[id] + Len(texts[id]) <= Len(answer)
    /\ \A k \in DOMAIN texts[id] : answer[at[id] + k] = texts[id][k]

\* One after the other, in the order they began, and nothing else.
InARow(at) ==
  /\ \A id, other \in MessageIDs : id < other => at[id] + Len(texts[id]) <= at[other]
  /\ \A p \in DOMAIN answer : \E id \in MessageIDs : p \in at[id] + 1 .. at[id] + Len(texts[id])

\* The text of every message of the CLI, as it last was, is in the answer in one piece,
\* also if lines of two messages alternate or a tool use replaces text; and if neither
\* happens, the answer is these texts one after the other and nothing is said twice
\* (parseStreamLine).
DeltasTellAll ==
  \E at \in [MessageIDs -> 0 .. Len(answer)] : Stands(at) /\ (plain => InARow(at))
=============================================================================
