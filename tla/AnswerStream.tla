---------------------------- MODULE AnswerStream ----------------------------
(***************************************************************************)
(* One message answered through the claude CLI: the subprocess, the        *)
(* executor goroutine that reads it, the handler that drains its events    *)
(* (drainCLIEvents), and the goroutine that shows the tokens to the user.  *)
(* The message came by Discord ("discord", or "ask" as a command), by      *)
(* Telegram or from the terminal ("cli"); each adapter shows an answer in  *)
(* its own way, and has its own idea of when to give it up.                *)
(*                                                                         *)
(* The answer is a sequence of numbered units of text; a line of the CLI   *)
(* carries the next few, a chat message shows some of them.                *)
(***************************************************************************)
EXTENDS Integers, Sequences

CONSTANTS
  Adapters,      \* by which a message may come
  ChunkSizes,    \* lengths of the pieces of text the CLI writes
  QueueSize,     \* capacity of the event and of the token channel (64 in the code)
  OverflowAt,    \* length above which a message is finalised
  MaxMsgLen,     \* length above which a message is refused
  ApiOutcomes,   \* of a call of the chat service that is not refused: "ok", "failed"
  MaxText,       \* bound: length of the answer
  MaxTools       \* bound: tool uses in it

ASSUME StreamAssumption ==
  /\ Adapters \subseteq {"discord", "ask", "telegram", "cli"}
  /\ ChunkSizes \subseteq Nat \ {0}
  /\ QueueSize \in Nat \ {0}
  /\ OverflowAt \in Nat /\ MaxMsgLen \in Nat /\ OverflowAt < MaxMsgLen
  /\ ApiOutcomes \subseteq {"ok", "failed"} /\ ApiOutcomes # {}
  /\ MaxText \in Nat /\ MaxTools \in Nat

VARIABLES
  adapter,       \* by which the message came
  proc,          \* the subprocess: "running", "lingering" (after its result line),
                 \* "exited" (code 0), "broke" (killed, or another code)
  said,          \* length of the text it has written
  used,          \* how many tool uses it has written
  complete,      \* history: it has written the result line of a success
  overlong,      \* history: it has written a line longer than the scanner's 1 MB
  stdout,        \* lines written and not yet scanned
  executor,      \* "scan", "offer", "wait", "report", "abandon", "closed"
  line,          \* the event it offers
  resultSeen,    \* doneEmitted
  events,        \* the event channel; closed when the executor is
  ctx,           \* the handler's: "live" or "done"
  handler,       \* drainCLIEvents: "select", "forward", "summary", "returned"
  answer,        \* its string builder
  piece,         \* the text it is forwarding
  tools,         \* whether it has seen a tool event
  result,        \* of the handler: "none", "ok", "failed"
  tokens,        \* the token channel
  main,          \* the adapter's goroutine: "handle", "wait", "tell", "done"
  sender,        \* sendStreaming: "placeholder", "loop", "overflow" and "final" in
                 \* editFinal, "remainder", "respond", "ended"
  buf,           \* its buffer; in editFinal, what is not yet in a message
  msgs,          \* the answer's messages in the channel
  current,       \* the one being edited (msgID), 0 for none
  failed         \* history: a call failed or was refused, or the sender left

subprocess == <<proc, said, used, complete, overlong, stdout>>
reading == <<executor, line, resultSeen, events>>
handling == <<handler, answer, piece, tools, result>>
sending == <<sender, buf, msgs, current, failed>>
vars == <<adapter, subprocess, reading, handling, ctx, tokens, main, sending>>

-----------------------------------------------------------------------------
Text == Seq(0 .. MaxText)

\* Text that is not the answer's: the tool summary, "(empty response)".
Note == <<0>>

Event(type, text) == [type |-> type, text |-> text]
NoEvent == Event("none", <<>>)

\* The text goes out in one part.
SplitMessage_Whole(text) == {Len(text)}

\* How long the next part SplitMessage makes of a text may be: a text that fits is one
\* part; else it is cut anywhere, since the newlines it looks for may be anywhere.
SplitMessage(text) == IF Len(text) <= MaxMsgLen THEN {Len(text)} ELSE 1 .. MaxMsgLen

Message(text, cursor) == [text |-> text, cursor |-> cursor]

\* An /ask has a response already, which is edited; the terminal shows tokens as they come.
Init ==
  /\ adapter \in Adapters
  /\ proc = "running" /\ said = 0 /\ used = 0 /\ complete = FALSE /\ overlong = FALSE
  /\ stdout = <<>>
  /\ executor = "scan" /\ line = NoEvent /\ resultSeen = FALSE /\ events = <<>>
  /\ ctx = "live"
  /\ handler = "select" /\ answer = <<>> /\ piece = <<>> /\ tools = FALSE /\ result = "none"
  /\ tokens = <<>>
  /\ main = "handle"
  /\ sender = IF adapter \in {"ask", "cli"} THEN "loop" ELSE "placeholder"
  /\ msgs = IF adapter = "ask" THEN <<Message(<<>>, FALSE)>> ELSE <<>>
  /\ current = Len(msgs) /\ buf = <<>>
  /\ failed = FALSE

-----------------------------------------------------------------------------
(* The claude subprocess *)

\* One line is on its way at a time.  A line that carries text and tool uses is
\* like two, since their events are sent one after the other.
Write(type, text) == stdout = <<>> /\ ~overlong /\ stdout' = <<Event(type, text)>>

WriteText(n) ==
  /\ proc = "running" /\ said + n <= MaxText
  /\ Write("text", [i \in 1 .. n |-> said + i])
  /\ said' = said + n
  /\ UNCHANGED <<adapter, proc, used, complete, overlong, reading, handling, ctx, tokens, main,
                 sending>>

\* A line above 1 MB, such as one with what a tool returned, and all that is written after
\* it, with what there is of the answer in both.
WriteTooLong ==
  /\ proc = "running" /\ Write("too_long", <<>>)
  /\ overlong' = TRUE /\ said' \in said .. MaxText
  /\ UNCHANGED <<adapter, proc, used, complete, reading, handling, ctx, tokens, main, sending>>

UseTool ==
  /\ proc = "running" /\ used < MaxTools
  /\ Write("tool_use", <<>>)
  /\ used' = used + 1
  /\ UNCHANGED <<adapter, proc, said, complete, overlong, reading, handling, ctx, tokens, main,
                 sending>>

\* Its last line, the result: of a success ("done") or of a failure ("error").
WriteResult(type) ==
  /\ proc = "running" /\ Write(type, <<>>)
  /\ proc' = "lingering"
  /\ complete' = (type = "done")
  /\ UNCHANGED <<adapter, said, used, overlong, reading, handling, ctx, tokens, main, sending>>

\* It ends, with a result line or without, and with any exit code.
Exit(code) ==
  /\ proc \in {"running", "lingering"}
  /\ proc' = IF code = 0 THEN "exited" ELSE "broke"
  /\ UNCHANGED <<adapter, said, used, complete, overlong, stdout, reading, handling, ctx,
                 tokens, main, sending>>

\* exec.CommandContext kills it when the context is done.
Kill ==
  /\ proc \in {"running", "lingering"} /\ ctx = "done"
  /\ proc' = "broke"
  /\ UNCHANGED <<adapter, said, used, complete, overlong, stdout, reading, handling, ctx,
                 tokens, main, sending>>

Ended == proc \in {"exited", "broke"}

-----------------------------------------------------------------------------
(* executor.Execute's goroutine *)

\* A line is scanned and becomes an event.  One that is too long ends the loop, like
\* the end of the output: scanner.Err is not asked, and what follows is never read.
Scan ==
  /\ executor = "scan" /\ stdout # <<>>
  /\ stdout' = Tail(stdout)
  /\ IF Head(stdout).type = "too_long"
     THEN executor' = "wait" /\ UNCHANGED <<line, resultSeen>>
     ELSE /\ executor' = "offer"
          /\ line' = Head(stdout)
          /\ resultSeen' = (resultSeen \/ line'.type \in {"done", "error"})
  /\ UNCHANGED <<adapter, proc, said, used, complete, overlong, events, handling, ctx, tokens,
                 main, sending>>

\* The channel alone is waited for.
Offer_NoContext ==
  /\ executor = "offer"
  /\ Len(events) < QueueSize
  /\ events' = Append(events, line) /\ executor' = "scan"
  /\ line' = NoEvent
  /\ UNCHANGED <<adapter, subprocess, resultSeen, handling, ctx, tokens, main, sending>>

\* The event is sent, or the context is done; when both can be, either.
Offer ==
  /\ executor = "offer"
  /\ \/ /\ Len(events) < QueueSize
        /\ events' = Append(events, line) /\ executor' = "scan"
     \/ /\ ctx = "done"
        /\ executor' = "abandon" /\ UNCHANGED events
  /\ line' = NoEvent
  /\ UNCHANGED <<adapter, subprocess, resultSeen, handling, ctx, tokens, main, sending>>

\* The exit code is not looked at.
Waited_Unreported == executor' = "closed"

\* cmd.Wait is back: a bad exit that no event told of is to be reported.
Waited == executor' = IF proc = "broke" /\ ~resultSeen THEN "report" ELSE "closed"

\* The end of the output, or a line that was too long, and the process has ended.
Wait ==
  /\ executor = "wait" \/ (executor = "scan" /\ stdout = <<>>)
  /\ Ended /\ Waited
  /\ UNCHANGED <<adapter, subprocess, line, resultSeen, events, handling, ctx, tokens, main,
                 sending>>

\* The report is sent, or the context is done and it is not: the channel is closed
\* in both cases.
Report ==
  /\ executor = "report"
  /\ \/ /\ Len(events) < QueueSize
        /\ events' = Append(events, Event("error", <<>>))
     \/ /\ ctx = "done" /\ UNCHANGED events
  /\ executor' = "closed"
  /\ UNCHANGED <<adapter, subprocess, line, resultSeen, handling, ctx, tokens, main, sending>>

\* cmd.Wait, then the deferred close.
Abandon ==
  /\ executor = "abandon" /\ Ended
  /\ executor' = "closed"
  /\ UNCHANGED <<adapter, subprocess, line, resultSeen, events, handling, ctx, tokens, main,
                 sending>>

Execute == Scan \/ Offer \/ Wait \/ Report \/ Abandon

-----------------------------------------------------------------------------
(* drainCLIEvents *)

Return(r) == handler' = "returned" /\ result' = r

\* An event is taken; a result line only goes by.
TakeEvent ==
  /\ handler = "select" /\ events # <<>>
  /\ events' = Tail(events)
  /\ LET e == Head(events) IN
       \/ /\ e.type = "text"
          /\ answer' = answer \o e.text /\ piece' = e.text
          /\ handler' = "forward"
          /\ UNCHANGED <<tools, result>>
       \/ /\ e.type = "tool_use"
          /\ tools' = TRUE /\ UNCHANGED <<handler, answer, piece, result>>
       \/ /\ e.type = "error"
          /\ Return("failed") /\ UNCHANGED <<answer, piece, tools>>
       \/ /\ e.type = "done"
          /\ UNCHANGED handling
  /\ UNCHANGED <<adapter, subprocess, executor, line, resultSeen, ctx, tokens, main, sending>>

EventsEnd ==
  /\ handler = "select" /\ events = <<>> /\ executor = "closed"
  /\ handler' = "summary"
  /\ UNCHANGED <<adapter, subprocess, reading, answer, piece, tools, result, ctx, tokens, main,
                 sending>>

\* A token is sent without a look at the context.
ContextDone_Receive ==
  /\ handler = "select" /\ ctx = "done"
  /\ Return("failed")
  /\ UNCHANGED <<adapter, subprocess, reading, answer, piece, tools, ctx, tokens, main,
                 sending>>

\* Either select of the loop may find the context done.
ContextDone ==
  /\ handler \in {"select", "forward"} /\ ctx = "done"
  /\ Return("failed")
  /\ UNCHANGED <<adapter, subprocess, reading, answer, piece, tools, ctx, tokens, main,
                 sending>>

Forward ==
  /\ handler = "forward" /\ Len(tokens) < QueueSize
  /\ tokens' = Append(tokens, piece)
  /\ handler' = "select"
  /\ UNCHANGED <<adapter, subprocess, reading, answer, piece, tools, result, ctx, main,
                 sending>>

\* One token tells which tools ran, if there is room for it at this moment.
ToolSummary ==
  /\ handler = "summary"
  /\ tokens' = IF tools /\ Len(tokens) < QueueSize THEN Append(tokens, Note) ELSE tokens
  /\ Return("ok")
  /\ UNCHANGED <<adapter, subprocess, reading, answer, piece, tools, ctx, main, sending>>

Drain == TakeEvent \/ EventsEnd \/ ContextDone \/ Forward \/ ToolSummary

-----------------------------------------------------------------------------
(* process, processInteraction, Telegram's onMessage, the terminal's loop, with the
   handler's session work around the drain left out *)

\* Discord's handler has 90 seconds.
Deadline ==
  /\ adapter = "discord" /\ main = "handle" /\ ctx = "live"
  /\ ctx' = "done"
  /\ UNCHANGED <<adapter, subprocess, reading, handling, tokens, main, sending>>

\* Telegram's and the terminal's handlers have the context of the process, which ends
\* with a signal; that of an /ask does not end.
Signal ==
  /\ adapter \in {"telegram", "cli"} /\ main # "done" /\ ctx = "live"
  /\ ctx' = "done"
  /\ UNCHANGED <<adapter, subprocess, reading, handling, tokens, main, sending>>

\* The handler is back; the token channel is closed, and Discord's context cancelled.
CloseTokens ==
  /\ main = "handle" /\ handler = "returned"
  /\ main' = "wait" /\ ctx' = IF adapter = "discord" THEN "done" ELSE ctx
  /\ UNCHANGED <<adapter, subprocess, reading, handling, tokens, sending>>

\* The sender is back; Discord's process waits no longer than 15 seconds for it.  The
\* terminal has printed an error by now, before it closed the channel.
WaitSender ==
  /\ main = "wait" /\ (adapter = "discord" \/ sender = "ended")
  /\ main' = IF result = "failed" /\ adapter # "cli" THEN "tell" ELSE "done"
  /\ UNCHANGED <<adapter, subprocess, reading, handling, ctx, tokens, sending>>

\* The error is told in a message of its own, or in place of the command's response, by
\* a call that nothing limits.
TellError ==
  /\ main = "tell"
  /\ main' = "done"
  /\ msgs' = IF adapter = "ask" THEN <<Message(Note, FALSE)>> ELSE msgs
  /\ UNCHANGED <<adapter, subprocess, reading, handling, ctx, tokens, sender, buf, current,
                 failed>>

Process == Deadline \/ CloseTokens \/ WaitSender

-----------------------------------------------------------------------------
(* sendStreaming, sendStreamingInteraction, and the terminal's printing goroutine *)

TokensClosed == main # "handle"

\* A text that is too long is refused; any other call works or fails.
Calls(length) == IF length > MaxMsgLen THEN {"refused"} ELSE ApiOutcomes

\* The first message, and Telegram's next after one that is full.
Placeholder ==
  /\ sender = "placeholder"
  /\ \E o \in ApiOutcomes :
       IF o = "ok"
       THEN /\ msgs' = Append(msgs, Message(<<>>, TRUE)) /\ current' = Len(msgs')
            /\ sender' = "loop" /\ UNCHANGED failed
       ELSE /\ sender' = "ended" /\ failed' = TRUE
            /\ UNCHANGED <<msgs, current>>
  /\ UNCHANGED <<adapter, subprocess, reading, handling, ctx, tokens, main, buf>>

TakeToken ==
  /\ sender = "loop" /\ tokens # <<>> /\ adapter # "cli"
  /\ tokens' = Tail(tokens)
  /\ buf' = buf \o Head(tokens)
  /\ sender' = IF adapter # "ask" /\ Len(buf') > OverflowAt /\ current # 0
               THEN "overflow" ELSE "loop"
  /\ UNCHANGED <<adapter, subprocess, reading, handling, ctx, main, msgs, current, failed>>

\* The terminal prints it.
PrintToken ==
  /\ sender = "loop" /\ tokens # <<>> /\ adapter = "cli"
  /\ tokens' = Tail(tokens)
  /\ msgs' = Append(msgs, Message(Head(tokens), FALSE))
  /\ UNCHANGED <<adapter, subprocess, reading, handling, ctx, main, sender, buf, current,
                 failed>>

\* The ticker is stopped for good.  What came after Discord's last full message has
\* none of its own yet.
TokensEnd ==
  /\ sender = "loop" /\ tokens = <<>> /\ TokensClosed
  /\ sender' = CASE adapter = "cli" -> "ended"
                 [] adapter = "ask" -> "respond"
                 [] OTHER -> IF current = 0 THEN "remainder" ELSE "final"
  /\ UNCHANGED <<adapter, subprocess, reading, handling, ctx, tokens, main, buf, msgs, current,
                 failed>>

\* Telegram's sender does not outlive its context, nor empty the channel.
Leave ==
  /\ adapter = "telegram" /\ sender = "loop" /\ ctx = "done"
  /\ sender' = "ended" /\ failed' = TRUE
  /\ UNCHANGED <<adapter, subprocess, reading, handling, ctx, tokens, main, buf, msgs, current>>

\* One message more with what is in the buffer; a failure is logged, and the text stays.
SendMsg(cursor) ==
  \E o \in Calls(IF cursor THEN Len(buf) + 1 ELSE Len(buf)) :
    IF o = "ok"
    THEN /\ msgs' = Append(msgs, Message(buf, cursor))
         /\ current' = Len(msgs') /\ UNCHANGED failed
    ELSE failed' = TRUE /\ UNCHANGED <<msgs, current>>

\* The current message is given another text; a failure is logged at most.
Edit(text, cursor) ==
  \E o \in Calls(IF cursor THEN Len(text) + 1 ELSE Len(text)) :
    IF o = "ok"
    THEN msgs' = [msgs EXCEPT ![current] = Message(text, cursor)] /\ UNCHANGED failed
    ELSE failed' = TRUE /\ UNCHANGED msgs

\* The interval is over: what there is so far is shown, with a cursor.
Tick ==
  /\ sender = "loop" /\ buf # <<>>
  /\ \/ current = 0 /\ SendMsg(TRUE)
     \/ current # 0 /\ Edit(buf, TRUE) /\ UNCHANGED current
  /\ UNCHANGED <<adapter, subprocess, reading, handling, ctx, tokens, main, sender, buf>>

FinalText == IF buf = <<>> THEN Note ELSE buf

\* The first part is sent as a message too.
PutPart_Again ==
  /\ sender \in {"overflow", "final"} /\ (current # 0 \/ buf # <<>>)
  /\ \E k \in SplitMessage(FinalText), o \in ApiOutcomes :
       LET part == SubSeq(FinalText, 1, k) IN
       /\ msgs' = IF o # "ok" THEN msgs
                  ELSE IF current = 0 THEN Append(msgs, Message(part, FALSE))
                  ELSE [msgs EXCEPT ![current] = Message(part, FALSE)]
       /\ failed' = (failed \/ o # "ok")
       /\ buf' = IF current # 0 THEN buf ELSE SubSeq(FinalText, k + 1, Len(FinalText))
  /\ current' = 0
  /\ UNCHANGED <<adapter, subprocess, reading, handling, ctx, tokens, main, sender>>

\* editFinal: the first part takes the place of the current message, the others follow it.
\* Each call may fail, and the next is made all the same.
PutPart ==
  /\ sender \in {"overflow", "final"} /\ (current # 0 \/ buf # <<>>)
  /\ \E k \in SplitMessage(FinalText), o \in ApiOutcomes :
       LET part == SubSeq(FinalText, 1, k) IN
       /\ msgs' = IF o # "ok" THEN msgs
                  ELSE IF current = 0 THEN Append(msgs, Message(part, FALSE))
                  ELSE [msgs EXCEPT ![current] = Message(part, FALSE)]
       /\ failed' = (failed \/ o # "ok")
       /\ buf' = SubSeq(FinalText, k + 1, Len(FinalText))
  /\ current' = 0
  /\ UNCHANGED <<adapter, subprocess, reading, handling, ctx, tokens, main, sender>>

\* The message is full, and the buffer is reset.  The next is made by Discord's ticker when
\* it has a text, by Telegram's sender at once.  At the end, the sender is done.
PartsEnd ==
  /\ sender \in {"overflow", "final"} /\ current = 0 /\ buf = <<>>
  /\ sender' = IF sender = "final" THEN "ended"
               ELSE IF adapter = "telegram" THEN "placeholder" ELSE "loop"
  /\ UNCHANGED <<adapter, subprocess, reading, handling, ctx, tokens, main, buf, msgs, current,
                 failed>>

\* What came after a full message is left for a ticker that is stopped.
Remainder_Dropped ==
  /\ sender = "remainder"
  /\ sender' = "ended"
  /\ UNCHANGED <<adapter, subprocess, reading, handling, ctx, tokens, main, buf, msgs, current,
                 failed>>

\* What came after a full message goes into one more, uncut.
Remainder ==
  /\ sender = "remainder"
  /\ sender' = "ended"
  /\ \/ buf # <<>> /\ SendMsg(FALSE)
     \/ buf = <<>> /\ UNCHANGED <<msgs, current, failed>>
  /\ UNCHANGED <<adapter, subprocess, reading, handling, ctx, tokens, main, buf>>

\* The response to the command is one message, uncut.
Respond ==
  /\ sender = "respond"
  /\ sender' = "ended"
  /\ Edit(FinalText, FALSE)
  /\ UNCHANGED <<adapter, subprocess, reading, handling, ctx, tokens, main, buf, current>>

Send ==
  \/ Placeholder \/ TakeToken \/ PrintToken \/ TokensEnd \/ Leave
  \/ Tick \/ PutPart \/ PartsEnd \/ Remainder \/ Respond

-----------------------------------------------------------------------------
Subprocess ==
  \/ \E n \in ChunkSizes : WriteText(n)
  \/ WriteTooLong
  \/ UseTool
  \/ \E type \in {"done", "error"} : WriteResult(type)
  \/ \E code \in {0, 1} : Exit(code)
  \/ Kill

Next == Subprocess \/ Execute \/ Drain \/ Process \/ TellError \/ Signal \/ Send

Spec == Init /\ [][Next]_vars

\* Goroutines are scheduled, timers fire and a kill is obeyed.  The CLI may write nothing
\* more and never end, and no call of the chat service need ever return.
FairSpec ==
  /\ Spec
  /\ WF_vars(Kill) /\ WF_vars(Execute) /\ WF_vars(Drain) /\ WF_vars(Process)

-----------------------------------------------------------------------------
(* Properties *)

TypeOK ==
  /\ adapter \in Adapters
  /\ proc \in {"running", "lingering", "exited", "broke"}
  /\ said \in 0 .. MaxText /\ used \in 0 .. MaxTools
  /\ complete \in BOOLEAN /\ overlong \in BOOLEAN
  /\ Len(stdout) <= 1
  /\ executor \in {"scan", "offer", "wait", "report", "abandon", "closed"}
  /\ resultSeen \in BOOLEAN
  /\ Len(events) <= QueueSize /\ Len(tokens) <= QueueSize
  /\ ctx \in {"live", "done"}
  /\ handler \in {"select", "forward", "summary", "returned"}
  /\ answer \in Text /\ piece \in Text /\ tools \in BOOLEAN
  /\ result \in {"none", "ok", "failed"}
  /\ main \in {"handle", "wait", "tell", "done"}
  /\ sender \in {"placeholder", "loop", "overflow", "final", "remainder", "respond", "ended"}
  /\ buf \in Text /\ current \in 0 .. Len(msgs)
  /\ adapter # "cli" => \A i \in DOMAIN msgs : Len(msgs[i].text) <= MaxMsgLen
  /\ failed \in BOOLEAN

\* Whatever calls fail, what the user reads is at any time in the order of the answer and
\* nothing is in it twice, over all messages, as is what is recorded; except that text may
\* be told again after a message whose last edit failed: it has kept its cursor, and more
\* text than the part that was to replace it (editFinal).
ReadsInOrder ==
  /\ \A i, j \in DOMAIN answer : i < j => answer[i] < answer[j]
  /\ \A i, j \in DOMAIN msgs :
       \A a \in DOMAIN msgs[i].text, b \in DOMAIN msgs[j].text :
         (/\ msgs[i].text[a] # 0 /\ msgs[j].text[b] # 0
          /\ (i < j /\ ~msgs[i].cursor) \/ (i = j /\ a < b)) => msgs[i].text[a] < msgs[j].text[b]

UnitsOf(text) == {text[a] : a \in DOMAIN text} \ {0}

\* What of the answer the user reads, over all messages.
Shown == UNION {UnitsOf(msgs[i].text) : i \in DOMAIN msgs}

\* A user who was shown everything without a failed call reads what the session
\* records, no more and no less, or if there is nothing to record, a beginning of the
\* answer; and no cursor is left.
ShownIsRecorded ==
  (sender = "ended" /\ ~failed) =>
    /\ result = "ok" => Shown = UnitsOf(answer)
    /\ Shown \subseteq UnitsOf(answer)
    /\ \A u \in Shown : \A v \in UnitsOf(answer) : v < u => v \in Shown
    /\ \A i \in DOMAIN msgs : ~msgs[i].cursor

\* What is recorded is always a beginning of what the CLI had to say.  If the time for it
\* did not run out it comes from a CLI that wrote the result line of a success or at least
\* exited with code 0, and if every line fitted the scanner it is all of it: an answer cut
\* off by a crash, a kill or an error is never taken for a short one.
RecordedIsWhole ==
  result = "ok" =>
    /\ \A u \in UnitsOf(answer) : 1 .. u \subseteq UnitsOf(answer)
    /\ UnitsOf(answer) \subseteq 1 .. said
    /\ ctx = "live" =>
         /\ complete \/ proc = "exited"
         /\ ~overlong => UnitsOf(answer) = 1 .. said

\* What holds a message for ever, except by Discord's queue: nobody ends its context,
\* and the CLI does not end, or the sender has given up and the handler has more to show.
Held ==
  /\ adapter # "discord" /\ ctx = "live"
  /\ ~Ended \/ (sender = "ended" /\ main = "handle")

\* process comes back, whatever the CLI does and whatever becomes of the calls that show
\* the answer: the next message of the session gets its turn.  Only the call that tells an
\* error ("tell") may still be under way, and for as long as it likes: no time limit covers
\* it.  The other adapters come back too, from all but what is said above, if calls of the
\* chat service return.
WorkerFree ==
  (/\ adapter # "discord" => WF_vars(Send)
   /\ []<>~Held) => (main = "handle" ~> main \in {"tell", "done"})

\* A CLI that wrote its result and does not end, for a message whose context nobody ends.
Lingers == proc = "lingering" /\ ctx = "live"

\* The executor's goroutine comes to its end once the handler has returned, unless the
\* CLI lingers: drainCLIEvents is back with the CLI's error, and scanner.Scan goes on
\* waiting for the end of its output, which with /ask no deadline brings about.
ExecutorEnds == []<>~Lingers => (main # "handle" ~> executor = "closed")
=============================================================================
