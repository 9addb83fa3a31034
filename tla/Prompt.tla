------------------------------- MODULE Prompt -------------------------------
(***************************************************************************)
(* What the model is told of a conversation: the window of turns           *)
(* (GetContextTurns), the messages of the API backend (BuildColdContext,   *)
(* ContextAssembler.Build, handleAPI), and the history that goes on the    *)
(* command line of the claude CLI (buildAppendContext, handleCLI), while   *)
(* several handlers answer messages of one session.                        *)
(*                                                                         *)
(* A turn is its number and the lengths of its two texts.  The history of  *)
(* the CLI is a text, whose units carry the number of their turn.          *)
(***************************************************************************)
EXTENDS Integers, Sequences, FiniteSetsExt

CONSTANTS
  Handlers,           \* that answer messages of the session
  MaxTurnsInContext,  \* config; 0 or less: no limit
  MaxContextTokens,   \* config; 0 or less: no limit
  MaxHistoryTurns,    \* maxHistoryTurns (20)
  MaxAssistantChars,  \* maxAssistantChars (500)
  MaxAppendBytes,     \* maxAppendBytes (4096)
  Lengths,            \* of texts
  MaxTurns            \* bound: turns of the session

ASSUME PromptAssumption ==
  /\ MaxTurnsInContext \in Int /\ MaxContextTokens \in Int
  /\ MaxHistoryTurns \in Nat /\ MaxAssistantChars \in Nat /\ MaxAppendBytes \in Nat
  /\ Lengths \subseteq Nat /\ MaxTurns \in Nat

VARIABLES
  backend,   \* config: "api" or "cli"
  turns,     \* of the session
  aged,      \* its last turn is older than the cold opener's threshold
  step,      \* of a handler: "idle", "search", "build", "call"
  recall,    \* whether it has context from the brain
  request    \* what it sends, and how many turns there were then

promptVars == <<backend, turns, aged, step, recall, request>>

-----------------------------------------------------------------------------
(* SessionManager.GetContextTurns *)

From(ts, i) == SubSeq(ts, i, Len(ts))

Least(a, b) == IF a < b THEN a ELSE b

LastOf(ts, n) == From(ts, Len(ts) - Least(n, Len(ts)) + 1)

\* Of the turns from each on, counted from the newest.
Tokens(ts) ==
  LET count[i \in 1 .. Len(ts) + 1] ==
        IF i > Len(ts) THEN 0 ELSE count[i + 1] + (ts[i].user + ts[i].assistant)
  IN  count

\* The newest turns; the first that exceeds the budget, from the newest on, is out,
\* and all before it.
GetContextTurns(ts) ==
  LET first == IF MaxTurnsInContext > 0 /\ Len(ts) > MaxTurnsInContext
               THEN Len(ts) - MaxTurnsInContext + 1 ELSE 1
      exceeding == {i \in first .. Len(ts) : Tokens(ts)[i] > MaxContextTokens}
  IN  From(ts, IF MaxContextTokens <= 0 \/ exceeding = {} THEN first ELSE Max(exceeding) + 1)

-----------------------------------------------------------------------------
(* ContextAssembler.Build *)

\* Of a turn, or the new one, or of what was recalled.
Message(role, of) == [role |-> role, of |-> of]

\* Two of each turn.
TurnsToMessages(ts) ==
  [k \in 1 .. 2 * Len(ts) |->
     Message(IF k % 2 = 1 THEN "user" ELSE "assistant", ts[(k + 1) \div 2].n)]

\* What was recalled stands as an exchange of its own.
Memory == -1

Recalled == <<Message("user", Memory), Message("assistant", Memory)>>

\* The two parts overlap.
Build_Overlap(ts, recalled) ==
  LET context == GetContextTurns(ts)
      old == SubSeq(context, 1, Len(context) - 1)
  IN  TurnsToMessages(old) \o (IF recalled THEN Recalled ELSE <<>>)
        \o TurnsToMessages(LastOf(context, 2))

\* All but the last two turns, what was recalled, the last two.
Build(ts, recalled) ==
  LET context == GetContextTurns(ts)
      old == SubSeq(context, 1, Len(context) - Least(2, Len(context)))
  IN  TurnsToMessages(old) \o (IF recalled THEN Recalled ELSE <<>>)
        \o TurnsToMessages(LastOf(context, 2))

-----------------------------------------------------------------------------
(* buildAppendContext *)

\* Long answers are cut short.
Shown(t) == t.user + Least(t.assistant, MaxAssistantChars)

\* Where the text of each turn ends; a heading comes before the first.
Ends(ts) ==
  LET end[i \in 0 .. Len(ts)] == IF i = 0 THEN 1 ELSE end[i - 1] + Shown(ts[i])
  IN  end

\* A heading, then turn after turn; of this, what fits.
BuildAppendContext(ts) ==
  LET recent == LastOf(ts, MaxHistoryTurns)
      end == Ends(recent)
      turn(p) == CHOOSE i \in DOMAIN recent : end[i - 1] < p /\ p <= end[i]
  IN  IF ts = <<>> THEN <<>>
      ELSE [p \in 1 .. Least(end[Len(recent)], MaxAppendBytes) |->
              IF p = 1 THEN 0 ELSE recent[turn(p)].n]

-----------------------------------------------------------------------------
Request(messages, appended) ==
  [messages |-> messages, appended |-> appended, turns |-> Len(turns)]

NewMessage == 0

NoRequest == [messages |-> <<>>, appended |-> <<>>, turns |-> 0]

PromptInit ==
  /\ backend \in {"api", "cli"}
  /\ turns = <<>> /\ aged = FALSE
  /\ step = [h \in Handlers |-> "idle"]
  /\ recall = [h \in Handlers |-> FALSE]
  /\ request = [h \in Handlers |-> NoRequest]

Goes(h, s) == step' = [step EXCEPT ![h] = s]

IsCold == turns = <<>> \/ aged

\* A message arrives: for the API, the cold opener looks at the session and lets go of it.
Arrive(h) ==
  /\ step[h] = "idle" /\ Len(turns) < MaxTurns
  /\ recall' = [recall EXCEPT ![h] = FALSE]
  /\ Goes(h, IF backend = "api" /\ IsCold THEN "search" ELSE "build")
  /\ UNCHANGED <<backend, turns, aged, request>>

\* The brain is asked, if there is anything to ask; it may fail or find nothing.
BuildColdContext(h) ==
  /\ step[h] = "search"
  /\ \E found \in BOOLEAN : recall' = [recall EXCEPT ![h] = found]
  /\ Goes(h, "build")
  /\ UNCHANGED <<backend, turns, aged, request>>

\* The new message comes last; on the command line it is the prompt.
HandleAPI(h) ==
  /\ backend = "api" /\ step[h] = "build"
  /\ request' = [request EXCEPT ![h] =
       Request(Append(Build(turns, recall[h]), Message("user", NewMessage)), <<>>)]
  /\ Goes(h, "call")
  /\ UNCHANGED <<backend, turns, aged, recall>>

HandleCLI(h) ==
  /\ backend = "cli" /\ step[h] = "build"
  /\ request' = [request EXCEPT ![h] =
       Request(<<>>, BuildAppendContext(GetContextTurns(turns)))]
  /\ Goes(h, "call")
  /\ UNCHANGED <<backend, turns, aged, recall>>

\* The answer is recorded with its message, or there is none.
Answered(h) ==
  /\ step[h] = "call" /\ Len(turns) < MaxTurns
  /\ \E u, a \in Lengths :
       turns' = Append(turns, [n |-> Len(turns) + 1, user |-> u, assistant |-> a])
  /\ aged' = FALSE
  /\ request' = [request EXCEPT ![h] = NoRequest] /\ Goes(h, "idle")
  /\ UNCHANGED <<backend, recall>>

Fails(h) ==
  /\ step[h] = "call"
  /\ request' = [request EXCEPT ![h] = NoRequest] /\ Goes(h, "idle")
  /\ UNCHANGED <<backend, turns, aged, recall>>

TimePasses ==
  /\ turns # <<>> /\ ~aged /\ aged' = TRUE
  /\ UNCHANGED <<backend, turns, step, recall, request>>

PromptNext ==
  \/ \E h \in Handlers :
       Arrive(h) \/ BuildColdContext(h) \/ HandleAPI(h) \/ HandleCLI(h) \/ Answered(h) \/ Fails(h)
  \/ TimePasses

PromptSpec == PromptInit /\ [][PromptNext]_promptVars

-----------------------------------------------------------------------------
(* Properties *)

\* Whether the turns from i on are within both limits.
Within(i, ts) ==
  /\ MaxTurnsInContext > 0 => Len(ts) - i + 1 <= MaxTurnsInContext
  /\ MaxContextTokens > 0 => Tokens(ts)[i] <= MaxContextTokens

\* Numbers of the turns in the longest end of the session that is.
Window(ts) == {i \in DOMAIN ts : Within(i, ts)}

Roles == {"user", "assistant"}

\* Places of the messages that tell a turn, and of those that stand for what was recalled.
TellingTurns(messages) == {i \in DOMAIN messages : messages[i].of \in Nat \ {NewMessage}}

TellingMemory(messages) == {i \in DOMAIN messages : messages[i].of = Memory}

\* The API backend is sent a conversation: user and assistant take turns, the new message
\* is the last, and besides what was recalled, once and just before the last two turns,
\* it is the longest end of the session within both limits, each turn once and in order,
\* whatever other handlers add meanwhile (ContextAssembler.Build, handleAPI).
Conversation(messages, ts) ==
  LET k == Len(messages)
      told == TellingTurns(messages)
      recalls == TellingMemory(messages)
  IN  /\ messages[k] = Message("user", NewMessage)
      /\ \A i \in 1 .. k : (messages[i].role = "user") <=> (i % 2 = 1)
      /\ \A i \in told : \E r \in Roles, n \in Window(ts) : messages[i] = Message(r, n)
      /\ \A r \in Roles, n \in Window(ts) : \E i \in told : messages[i] = Message(r, n)
      /\ \A i, j \in told : i < j => messages[i].of <= messages[j].of /\ messages[i] # messages[j]
      /\ recalls = {} \/ \E i \in 1 .. k : recalls = {i, i + 1}
      /\ \A i \in recalls, j \in told : j < i <=> messages[j].of <= Len(ts) - 2

\* The CLI backend is told turns of that window in order, each as far as it is ever told
\* save the last, within the length the command line is given (buildAppendContext).
History(appended, ts) ==
  LET numbers == {appended[i] : i \in DOMAIN appended} \ {0} IN
  /\ Len(appended) <= MaxAppendBytes
  /\ numbers \subseteq Window(ts)
  /\ \A i, j \in DOMAIN appended : i < j => appended[i] <= appended[j]
  /\ \A n, m \in numbers : n < m =>
       \E k \in DOMAIN appended : {i \in DOMAIN appended : appended[i] = n} = k + 1 .. k + Shown(ts[n])

ToldInOrder ==
  \A h \in Handlers : step[h] = "call" =>
    LET ts == SubSeq(turns, 1, request[h].turns) IN
    IF backend = "api" THEN Conversation(request[h].messages, ts)
                       ELSE History(request[h].appended, ts)

\* PRD-08: the last turns are injected on the command line, so that the model can
\* refer to prior turns of the session; here, some of the newest turn of the window.
LastTurnsTold ==
  \A h \in Handlers : (step[h] = "call" /\ backend = "cli") =>
    LET ts == SubSeq(turns, 1, request[h].turns) IN
    Window(ts) # {} => \E i \in DOMAIN request[h].appended : request[h].appended[i] = Len(ts)
=============================================================================
