------------------------ MODULE AnswerStream_proofs ------------------------
(***************************************************************************)
(* Proofs about one answer's way from the CLI to the user: for every       *)
(* length of answer, every capacity of the channels, every limit of a      *)
(* message and whatever calls fail, the user reads in order, nothing twice *)
(* and nothing lost, and what is recorded in time is the whole.            *)
(***************************************************************************)
EXTENDS AnswerStream, SequenceTheorems, TLAPS

-----------------------------------------------------------------------------
(* What the actions keep true.  The answer is on its way through a queue of texts: the
   CLI's output, the line in the executor's hand, the events, the piece in the handler's
   hand, the tokens, the sender's buffer, the messages.  Texts further back have later
   units, and no text is lost on the way unless a call fails or the handler gives up. *)

Ascending(s) == \A a, b \in DOMAIN s : (a < b /\ s[a] # 0 /\ s[b] # 0) => s[a] < s[b]

\* All units of one text come before all of another.
Precedes(s, t) == \A u \in UnitsOf(s), v \in UnitsOf(t) : u < v

Lines == [type : {"none", "text", "too_long", "tool_use", "done", "error"},
          text : Seq(1 .. MaxText)]
Messages == [text : Text, cursor : BOOLEAN]

Typing ==
  /\ TypeOK
  /\ stdout \in Seq(Lines) /\ line \in Lines /\ events \in Seq(Lines)
  /\ answer \in Seq(1 .. MaxText) /\ piece \in Seq(1 .. MaxText)
  /\ tokens \in Seq(Text) /\ msgs \in Seq(Messages)

\* A text the handler has yet to see.
Coming(t) == Ascending(t) /\ UnitsOf(t) \subseteq 1 .. said /\ Precedes(answer, t)

LinesInOrder ==
  /\ Ascending(answer) /\ UnitsOf(answer) \subseteq 1 .. said
  /\ \A i \in DOMAIN events : Coming(events[i].text)
  /\ \A i, j \in DOMAIN events : i < j => Precedes(events[i].text, events[j].text)
  /\ Coming(line.text)
  /\ \A i \in DOMAIN events : Precedes(events[i].text, line.text)
  /\ \A k \in DOMAIN stdout :
       /\ Coming(stdout[k].text) /\ Precedes(line.text, stdout[k].text)
       /\ \A i \in DOMAIN events : Precedes(events[i].text, stdout[k].text)
  /\ executor # "offer" => line = NoEvent

\* A text the sender has yet to see.
Awaited(t) ==
  /\ Ascending(t) /\ UnitsOf(t) \subseteq UnitsOf(answer) /\ Precedes(buf, t)
  /\ \A i \in DOMAIN msgs : Precedes(msgs[i].text, t)

TokensInOrder ==
  /\ Ascending(buf) /\ UnitsOf(buf) \subseteq UnitsOf(answer)
  /\ \A i \in DOMAIN msgs : UnitsOf(msgs[i].text) \subseteq UnitsOf(answer)
  /\ \A k \in DOMAIN tokens : Awaited(tokens[k])
  /\ \A k, l \in DOMAIN tokens : k < l => Precedes(tokens[k], tokens[l])
  /\ handler = "forward" => Awaited(piece) /\ \A k \in DOMAIN tokens : Precedes(tokens[k], piece)
  /\ \A i \in DOMAIN msgs : (i # current /\ ~msgs[i].cursor) => Precedes(msgs[i].text, buf)

MessagesInOrder ==
  /\ \A i \in DOMAIN msgs : Ascending(msgs[i].text)
  /\ \A i, j \in DOMAIN msgs : (i < j /\ ~msgs[i].cursor) => Precedes(msgs[i].text, msgs[j].text)

\* Where the sender, the handler and the adapter's goroutine can be at once.
Steps ==
  /\ adapter = "ask" =>
       /\ Len(msgs) = 1 /\ current = 1 /\ sender \in {"loop", "respond", "ended"}
       /\ main \in {"tell", "done"} => sender = "ended"
  /\ adapter = "cli" => current = 0 /\ buf = <<>> /\ sender \in {"loop", "ended"}
  /\ sender = "respond" => adapter = "ask"
  /\ current \in {0, Len(msgs)}
  /\ sender \in {"placeholder", "remainder"} => current = 0
  /\ (sender \in {"final", "remainder", "respond"} \/ (sender = "ended" /\ ~failed)) =>
       main # "handle" /\ tokens = <<>>
  /\ main # "handle" => handler = "returned"
  /\ main = "tell" => result = "failed"
  /\ handler = "returned" <=> result # "none"

\* A cursor is on the message that is being edited, and on no other unless a call failed.
Cursors ==
  sender # "ended" =>
    /\ (current # 0 /\ adapter # "ask") => msgs[current].cursor
    /\ ~failed => \A i \in DOMAIN msgs : i # current => ~msgs[i].cursor

\* What has come as far as the token channel, the message that is being edited left out:
\* its text is in the buffer.
Queued == UNION {UnitsOf(tokens[k]) : k \in DOMAIN tokens}
Settled == UNION {UnitsOf(msgs[i].text) : i \in DOMAIN msgs \ {current}}
Sent == UnitsOf(buf) \cup Queued \cup Settled

NothingLost ==
  (sender # "ended" /\ ~failed) =>
    /\ \A u \in Sent : \A v \in UnitsOf(answer) \ Sent : u < v
    /\ result # "failed" =>
         UnitsOf(answer) \subseteq Sent \cup (IF handler = "forward" THEN UnitsOf(piece) ELSE {})

StreamInv ==
  /\ Typing /\ LinesInOrder /\ Steps /\ Cursors
  /\ sender # "ended" => TokensInOrder
  /\ MessagesInOrder /\ NothingLost /\ ShownIsRecorded

\* An error the handler knows of, or will.
ErrorAhead ==
  \/ line.type = "error" \/ result = "failed"
  \/ \E i \in DOMAIN events : events[i].type = "error"

\* A bad end of the CLI is told before the events end.
EndTold ==
  /\ executor # "offer" => line = NoEvent
  /\ handler # "returned" => result = "none"
  /\ (handler = "summary" \/ result = "ok") => executor = "closed" /\ events = <<>>
  /\ complete => proc # "running"
  /\ \A k \in DOMAIN stdout : stdout[k].type = "done" => complete
  /\ ctx = "live" =>
       /\ executor # "abandon"
       /\ resultSeen => complete \/ ErrorAhead
       /\ executor = "closed" => complete \/ proc = "exited" \/ ErrorAhead
       /\ (handler = "summary" \/ result = "ok") => complete \/ proc = "exited"

\* What of the answer has come as far as the event channel, and as far as the executor.
Received == UnitsOf(answer) \cup UNION {UnitsOf(events[i].text) : i \in DOMAIN events}
Pending == UnitsOf(line.text) \cup UNION {UnitsOf(stdout[k].text) : k \in DOMAIN stdout}

Gapless(units) == \A u \in units : 1 .. u \subseteq units

\* The executor takes all from the CLI until it ends, and leaves nothing out.
AllRead ==
  /\ \A i \in DOMAIN events : events[i].type # "text" => events[i].text = <<>>
  /\ line.type # "text" => line.text = <<>>
  /\ \A k \in DOMAIN stdout :
       /\ stdout[k].type # "text" => stdout[k].text = <<>>
       /\ stdout[k].type = "too_long" => overlong
  /\ executor \in {"report", "closed"} => Ended
  /\ executor = "wait" => overlong
  /\ Gapless(Received)
  /\ executor \in {"scan", "offer"} =>
       /\ Gapless(Received \cup Pending)
       /\ ~overlong => Received \cup Pending = 1 .. said
  /\ (executor \in {"report", "closed"} /\ ctx = "live" /\ ~overlong) => Received = 1 .. said

-----------------------------------------------------------------------------
(* Texts *)

LEMMA UnitsOfConcat ==
  ASSUME NEW s \in Seq(Nat), NEW t \in Seq(Nat)
  PROVE  UnitsOf(s \o t) = UnitsOf(s) \cup UnitsOf(t)
<1>1. s \o t \in Seq(Nat) /\ DOMAIN (s \o t) = 1 .. Len(s) + Len(t)
  OBVIOUS
<1>2. \A a \in 1 .. Len(s) : (s \o t)[a] = s[a]
  OBVIOUS
<1>3. \A a \in 1 .. Len(t) : (s \o t)[Len(s) + a] = t[a] /\ Len(s) + a \in 1 .. Len(s) + Len(t)
  OBVIOUS
<1>4. \A a \in 1 .. Len(s) + Len(t) : a \in 1 .. Len(s) \/ a - Len(s) \in 1 .. Len(t)
  OBVIOUS
<1>5. ASSUME NEW u \in UnitsOf(s \o t) PROVE u \in UnitsOf(s) \cup UnitsOf(t)
  <2>1. PICK a \in 1 .. Len(s) + Len(t) : u = (s \o t)[a] /\ u # 0
    BY <1>1 DEF UnitsOf
  <2>2. CASE a \in 1 .. Len(s)
    BY <2>1, <2>2, <1>2 DEF UnitsOf
  <2>3. CASE a - Len(s) \in 1 .. Len(t)
    <3>1. (s \o t)[a] = t[a - Len(s)]
      BY <1>3, <2>3
    <3> QED BY <3>1, <2>1, <2>3 DEF UnitsOf
  <2> QED BY <1>4, <2>2, <2>3
<1>6. ASSUME NEW u \in UnitsOf(s) \cup UnitsOf(t) PROVE u \in UnitsOf(s \o t)
  <2>1. CASE u \in UnitsOf(s)
    <3>1. PICK a \in 1 .. Len(s) : u = s[a] /\ u # 0
      BY <2>1 DEF UnitsOf
    <3>2. a \in DOMAIN (s \o t) /\ (s \o t)[a] = u
      BY <3>1, <1>1, <1>2
    <3> QED BY <3>1, <3>2 DEF UnitsOf
  <2>2. CASE u \in UnitsOf(t)
    <3>1. PICK a \in 1 .. Len(t) : u = t[a] /\ u # 0
      BY <2>2 DEF UnitsOf
    <3>2. Len(s) + a \in DOMAIN (s \o t) /\ (s \o t)[Len(s) + a] = u
      BY <3>1, <1>1, <1>3
    <3> QED BY <3>1, <3>2 DEF UnitsOf
  <2> QED BY <1>6, <2>1, <2>2
<1> QED BY <1>5, <1>6

LEMMA AscendingConcat ==
  ASSUME NEW s \in Seq(Nat), NEW t \in Seq(Nat),
         Ascending(s), Ascending(t), Precedes(s, t)
  PROVE  Ascending(s \o t)
<1>1. s \o t \in Seq(Nat) /\ DOMAIN (s \o t) = 1 .. Len(s) + Len(t)
  OBVIOUS
<1> SUFFICES ASSUME NEW a \in 1 .. Len(s) + Len(t), NEW b \in 1 .. Len(s) + Len(t),
                    a < b, (s \o t)[a] # 0, (s \o t)[b] # 0
             PROVE  (s \o t)[a] < (s \o t)[b]
  BY <1>1 DEF Ascending
<1>2. CASE b \in 1 .. Len(s)
  <2>1. a \in 1 .. Len(s) /\ (s \o t)[a] = s[a] /\ (s \o t)[b] = s[b]
    BY <1>2
  <2> QED BY <2>1, <1>2 DEF Ascending
<1>3. CASE a \in 1 .. Len(s) /\ b \notin 1 .. Len(s)
  <2>1. b - Len(s) \in 1 .. Len(t) /\ (s \o t)[a] = s[a] /\ (s \o t)[b] = t[b - Len(s)]
    BY <1>3
  <2>2. s[a] \in UnitsOf(s) /\ t[b - Len(s)] \in UnitsOf(t)
    BY <2>1, <1>3 DEF UnitsOf
  <2> QED BY <2>1, <2>2 DEF Precedes
<1>4. CASE a \notin 1 .. Len(s)
  <2>1. /\ a - Len(s) \in 1 .. Len(t) /\ b - Len(s) \in 1 .. Len(t)
        /\ (s \o t)[a] = t[a - Len(s)] /\ (s \o t)[b] = t[b - Len(s)]
    BY <1>4
  <2> QED BY <2>1 DEF Ascending
<1> QED BY <1>2, <1>3, <1>4

\* A text cut in two.
LEMMA Cut ==
  ASSUME NEW s \in Seq(Nat), NEW k \in 1 .. Len(s), Ascending(s)
  PROVE  LET p == SubSeq(s, 1, k)
             r == SubSeq(s, k + 1, Len(s)) IN
         /\ Ascending(p) /\ Ascending(r) /\ Precedes(p, r)
         /\ UnitsOf(p) \cup UnitsOf(r) = UnitsOf(s)
<1> DEFINE p == SubSeq(s, 1, k)
           r == SubSeq(s, k + 1, Len(s))
<1>1. /\ p \in Seq(Nat) /\ Len(p) = k /\ DOMAIN p = 1 .. k
      /\ \A a \in 1 .. k : p[a] = s[a] /\ a \in 1 .. Len(s)
  BY SubSeqProperties, Z3
<1>2. /\ r \in Seq(Nat) /\ Len(r) = Len(s) - k /\ DOMAIN r = 1 .. Len(s) - k
      /\ \A a \in 1 .. Len(s) - k : r[a] = s[k + a] /\ k + a \in 1 .. Len(s)
  BY SubSeqProperties, Z3
<1> HIDE DEF p, r
<1>0. k \in Nat /\ Len(s) \in Nat /\ k <= Len(s)
  OBVIOUS
<1>3. DOMAIN s = 1 .. Len(s) /\ \A a \in 1 .. Len(s) : s[a] \in Nat
  OBVIOUS
<1>4. Ascending(p)
  BY <1>1, <1>3 DEF Ascending
<1>5. Ascending(r)
  <2> SUFFICES ASSUME NEW a \in 1 .. Len(s) - k, NEW b \in 1 .. Len(s) - k,
                      a < b, r[a] # 0, r[b] # 0
               PROVE  r[a] < r[b]
    BY <1>2 DEF Ascending
  <2>1. r[a] = s[k + a] /\ k + a \in 1 .. Len(s)
    BY <1>2
  <2>2. r[b] = s[k + b] /\ k + b \in 1 .. Len(s)
    BY <1>2
  <2>3. k + a < k + b
    BY <1>0
  <2> QED BY <2>1, <2>2, <2>3, <1>3 DEF Ascending
<1>6. Precedes(p, r)
  <2> SUFFICES ASSUME NEW a \in 1 .. k, NEW b \in 1 .. Len(s) - k, p[a] # 0, r[b] # 0
               PROVE  p[a] < r[b]
    BY <1>1, <1>2 DEF Precedes, UnitsOf
  <2>1. p[a] = s[a] /\ a \in 1 .. Len(s)
    BY <1>1
  <2>2. r[b] = s[k + b] /\ k + b \in 1 .. Len(s)
    BY <1>2
  <2>3. a < k + b
    BY <1>0
  <2> QED BY <2>1, <2>2, <2>3, <1>3 DEF Ascending
<1>7. ASSUME NEW u \in UnitsOf(s) PROVE u \in UnitsOf(p) \cup UnitsOf(r)
  <2>1. PICK a \in 1 .. Len(s) : u = s[a] /\ u # 0
    BY <1>3 DEF UnitsOf
  <2>2. CASE a \in 1 .. k
    BY <2>1, <2>2, <1>1 DEF UnitsOf
  <2>3. CASE a \notin 1 .. k
    <3>1. a - k \in 1 .. Len(s) - k /\ r[a - k] = s[a]
      BY <2>3, <1>2, SMTT(30)
    <3> QED BY <2>1, <3>1, <1>2 DEF UnitsOf
  <2> QED BY <2>2, <2>3
<1>8. UnitsOf(p) \subseteq UnitsOf(s) /\ UnitsOf(r) \subseteq UnitsOf(s)
  BY <1>1, <1>2, <1>3 DEF UnitsOf
<1>9. /\ Ascending(p) /\ Ascending(r) /\ Precedes(p, r)
      /\ UnitsOf(p) \cup UnitsOf(r) = UnitsOf(s)
  BY <1>4, <1>5, <1>6, <1>7, <1>8
<1> QED BY <1>9 DEF p, r

\* A text that tells nothing of the answer.
LEMMA NoUnits ==
  /\ UnitsOf(<<>>) = {} /\ Ascending(<<>>) /\ UnitsOf(Note) = {} /\ Ascending(Note)
  BY DEF UnitsOf, Ascending, Note

-----------------------------------------------------------------------------
(* Types *)

LEMMA TypingInit == Init => Typing
<1> SUFFICES ASSUME Init PROVE Typing
  OBVIOUS
<1>1. <<>> \in Text /\ <<>> \in Seq(1 .. MaxText) /\ <<>> \in Seq(Text) /\ <<>> \in Seq(Lines)
  BY DEF Text
<1>2. Message(<<>>, FALSE) \in Messages /\ NoEvent \in Lines
  BY <1>1 DEF Message, Messages, NoEvent, Event, Lines
<1>3. /\ msgs \in Seq(Messages) /\ Len(msgs) \in Nat
      /\ \A i \in DOMAIN msgs : Len(msgs[i].text) <= MaxMsgLen
  BY <1>2, StreamAssumption DEF Init, Message
<1>4. current \in 0 .. Len(msgs)
  BY <1>3 DEF Init
<1>5. TypeOK
  <2>1. Len(stdout) = 0 /\ Len(events) = 0 /\ Len(tokens) = 0
    BY DEF Init
  <2>2. said \in 0 .. MaxText /\ used \in 0 .. MaxTools /\ 0 <= QueueSize
    BY StreamAssumption DEF Init
  <2>3. sender \in {"loop", "placeholder"}
    BY DEF Init
  <2>4. /\ adapter \in Adapters /\ proc = "running" /\ complete = FALSE /\ overlong = FALSE
        /\ executor = "scan"
        /\ resultSeen = FALSE /\ ctx = "live" /\ handler = "select" /\ answer = <<>>
        /\ piece = <<>> /\ tools = FALSE /\ result = "none" /\ main = "handle"
        /\ buf = <<>> /\ failed = FALSE
    BY DEF Init
  <2>5. QueueSize \in Nat
    BY StreamAssumption
  <2>6. /\ complete \in BOOLEAN /\ overlong \in BOOLEAN /\ resultSeen \in BOOLEAN
        /\ tools \in BOOLEAN /\ failed \in BOOLEAN
    BY <2>4
  <2>7. Len(stdout) <= 1 /\ Len(events) <= QueueSize /\ Len(tokens) <= QueueSize
    BY <2>1, <2>5
  <2> QED BY <1>1, <1>3, <1>4, <2>2, <2>3, <2>4, <2>6, <2>7 DEF TypeOK
<1> QED BY <1>1, <1>2, <1>3, <1>5 DEF Init, Typing

LEMMA TypingSubprocess == Typing /\ Subprocess => Typing'
<1> SUFFICES ASSUME Typing, Subprocess PROVE Typing'
  OBVIOUS
<1>1. ASSUME NEW n \in ChunkSizes, WriteText(n) PROVE Typing'
  <2>1. n \in Nat /\ said + n \in 0 .. MaxText
    BY <1>1, StreamAssumption DEF WriteText, Typing, TypeOK
  <2>2. [i \in 1 .. n |-> said + i] \in Seq(1 .. MaxText)
    <3>1. said \in Nat /\ MaxText \in Nat
      BY StreamAssumption DEF Typing, TypeOK
    <3>2. \A i \in 1 .. n : said + i \in 1 .. MaxText
      BY <2>1, <3>1
    <3> QED BY <2>1, <3>2
  <2>3. stdout' \in Seq(Lines) /\ Len(stdout') = 1
    BY <1>1, <2>2 DEF WriteText, Write, Event, Lines
  <2> QED BY <1>1, <2>1, <2>3 DEF WriteText, Typing, TypeOK, reading, handling, sending
<1>2. \A type \in {"too_long", "tool_use", "done", "error"} :
        <<Event(type, <<>>)>> \in Seq(Lines) /\ Len(<<Event(type, <<>>)>>) = 1
  BY DEF Event, Lines
<1>3. CASE UseTool
  <2>1. stdout' \in Seq(Lines) /\ Len(stdout') = 1
    BY <1>2, <1>3 DEF UseTool, Write
  <2>2. used' \in 0 .. MaxTools
    BY <1>3, StreamAssumption DEF UseTool, Typing, TypeOK
  <2> QED BY <1>3, <2>1, <2>2 DEF UseTool, Typing, TypeOK, reading, handling, sending
<1>4. CASE WriteTooLong
  <2>1. stdout' \in Seq(Lines) /\ Len(stdout') = 1
    BY <1>2, <1>4 DEF WriteTooLong, Write
  <2>2. said' \in 0 .. MaxText /\ overlong' \in BOOLEAN
    BY <1>4, StreamAssumption DEF WriteTooLong, Typing, TypeOK
  <2> QED BY <1>4, <2>1, <2>2 DEF WriteTooLong, Typing, TypeOK, reading, handling, sending
<1>5. ASSUME NEW type \in {"done", "error"}, WriteResult(type) PROVE Typing'
  <2>1. stdout' \in Seq(Lines) /\ Len(stdout') = 1
    BY <1>2, <1>5 DEF WriteResult, Write
  <2>2. proc' = "lingering" /\ complete' \in BOOLEAN
    BY <1>5 DEF WriteResult
  <2>3. UNCHANGED <<adapter, said, used, overlong, reading, handling, ctx, tokens, main, sending>>
    BY <1>5 DEF WriteResult
  <2> QED BY <2>1, <2>2, <2>3 DEF Typing, TypeOK, reading, handling, sending
<1>6. ASSUME NEW code \in {0, 1}, Exit(code) PROVE Typing'
  BY <1>6 DEF Exit, Typing, TypeOK, reading, handling, sending
<1>7. CASE Kill
  BY <1>7 DEF Kill, Typing, TypeOK, reading, handling, sending
<1> QED BY <1>1, <1>3, <1>4, <1>5, <1>6, <1>7 DEF Subprocess

LEMMA TypingExecute == Typing /\ Execute => Typing'
<1> SUFFICES ASSUME Typing, Execute PROVE Typing'
  OBVIOUS
<1> USE DEF subprocess, handling, sending
<1>1. NoEvent \in Lines /\ Event("error", <<>>) \in Lines
  BY DEF NoEvent, Event, Lines
<1>2. \A e \in Lines :
        Len(events) < QueueSize =>
          Append(events, e) \in Seq(Lines) /\ Len(Append(events, e)) <= QueueSize
  <2>1. QueueSize \in Nat /\ events \in Seq(Lines) /\ Len(events) \in Nat
    BY StreamAssumption DEF Typing
  <2>2. \A e \in Lines :
          Append(events, e) \in Seq(Lines) /\ Len(Append(events, e)) = Len(events) + 1
    BY <2>1
  <2> QED BY <2>1, <2>2
<1>3. CASE Scan
  <2>1. stdout \in Seq(Lines) /\ Len(stdout) <= 1 /\ stdout # <<>>
    BY <1>3 DEF Scan, Typing, TypeOK
  <2>2. Head(stdout) \in Lines /\ Tail(stdout) \in Seq(Lines) /\ Len(Tail(stdout)) <= 1
    BY <2>1
  <2>3. /\ stdout' = Tail(stdout) /\ line' \in {line, Head(stdout)}
        /\ executor' \in {"wait", "offer"}
        /\ resultSeen' \in {resultSeen, resultSeen \/ line'.type \in {"done", "error"}}
    BY <1>3 DEF Scan
  <2>4. stdout' \in Seq(Lines) /\ Len(stdout') <= 1 /\ line' \in Lines
    <3>1. line \in Lines
      BY DEF Typing
    <3> QED BY <2>2, <2>3, <3>1
  <2>5. resultSeen' \in BOOLEAN
    BY <2>3 DEF Typing, TypeOK
  <2>6. UNCHANGED <<adapter, proc, said, used, complete, overlong, events, handling, ctx, tokens,
                    main, sending>>
    BY <1>3 DEF Scan
  <2> QED BY <2>3, <2>4, <2>5, <2>6 DEF Typing, TypeOK
<1>4. CASE Offer
  <2>1. events \in Seq(Lines) /\ Len(events) <= QueueSize /\ line \in Lines
    BY DEF Typing, TypeOK
  <2>2. events' \in Seq(Lines) /\ Len(events') <= QueueSize
    BY <1>1, <1>2, <1>4, <2>1 DEF Offer
  <2> QED BY <1>1, <1>4, <2>2 DEF Offer, Typing, TypeOK
<1>5. CASE Wait
  BY <1>5 DEF Wait, Waited, Typing, TypeOK
<1>6. CASE Report
  <2>1. events \in Seq(Lines) /\ Len(events) <= QueueSize /\ line \in Lines
    BY DEF Typing, TypeOK
  <2>2. events' \in Seq(Lines) /\ Len(events') <= QueueSize
    BY <1>1, <1>2, <1>6, <2>1 DEF Report
  <2> QED BY <1>1, <1>6, <2>2 DEF Report, Typing, TypeOK
<1>7. CASE Abandon
  BY <1>7 DEF Abandon, Typing, TypeOK
<1> QED BY <1>3, <1>4, <1>5, <1>6, <1>7 DEF Execute

LEMMA TypingDrain == Typing /\ Drain => Typing'
<1> SUFFICES ASSUME Typing, Drain PROVE Typing'
  OBVIOUS
<1> USE DEF subprocess, reading, handling, sending, Return
<1>1. \A t \in Seq(1 .. MaxText) : t \in Text
  <2>1. 1 .. MaxText \subseteq 0 .. MaxText
    OBVIOUS
  <2> QED BY <2>1, SeqMonotonic DEF Text
<1>2. \A t \in Text :
        Len(tokens) < QueueSize =>
          Append(tokens, t) \in Seq(Text) /\ Len(Append(tokens, t)) <= QueueSize
  <2>1. QueueSize \in Nat /\ tokens \in Seq(Text) /\ Len(tokens) \in Nat
    BY StreamAssumption DEF Typing
  <2>2. \A t \in Text :
          Append(tokens, t) \in Seq(Text) /\ Len(Append(tokens, t)) = Len(tokens) + 1
    BY <2>1
  <2> QED BY <2>1, <2>2
<1>3. CASE TakeEvent
  <2>1. events # <<>> /\ Head(events) \in Lines /\ Tail(events) \in Seq(Lines)
          /\ Len(Tail(events)) <= QueueSize
    BY <1>3, StreamAssumption DEF TakeEvent, Typing, TypeOK
  <2>2. Head(events).text \in Seq(1 .. MaxText) /\ answer \o Head(events).text \in Seq(1 .. MaxText)
    BY <2>1 DEF Lines, Typing
  <2>3. Head(events).text \in Text /\ answer \o Head(events).text \in Text
    BY <1>1, <2>2
  <2>4. events' \in Seq(Lines) /\ Len(events') <= QueueSize
    BY <1>3, <2>1 DEF TakeEvent
  <2>5. /\ answer' \in Seq(1 .. MaxText) /\ piece' \in Seq(1 .. MaxText)
        /\ answer' \in Text /\ piece' \in Text
    BY <1>3, <2>2, <2>3 DEF TakeEvent, Typing, TypeOK
  <2>6. /\ handler' \in {"select", "forward", "returned"} /\ tools' \in BOOLEAN
        /\ result' \in {"none", "ok", "failed"}
    BY <1>3 DEF TakeEvent, Typing, TypeOK
  <2>7. UNCHANGED <<adapter, subprocess, executor, line, resultSeen, ctx, tokens, main, sending>>
    BY <1>3 DEF TakeEvent
  <2> QED BY <2>4, <2>5, <2>6, <2>7 DEF Typing, TypeOK
<1>4. CASE EventsEnd
  BY <1>4 DEF EventsEnd, Typing, TypeOK
<1>5. CASE ContextDone
  BY <1>5 DEF ContextDone, Typing, TypeOK
<1>6. CASE Forward
  <2>1. piece \in Text
    BY DEF Typing, TypeOK
  <2> QED BY <1>2, <1>6, <2>1, StreamAssumption DEF Forward, Typing, TypeOK
<1>7. CASE ToolSummary
  <2>1. Note \in Text
    BY StreamAssumption DEF Note, Text
  <2> QED BY <1>2, <1>7, <2>1, StreamAssumption DEF ToolSummary, Typing, TypeOK
<1> QED BY <1>3, <1>4, <1>5, <1>6, <1>7 DEF Drain

\* What may stand in the channel.
Posted(ms) ==
  /\ ms \in Seq(Messages)
  /\ adapter # "cli" => \A i \in DOMAIN ms : Len(ms[i].text) <= MaxMsgLen

LEMMA MessageTyped ==
  ASSUME NEW t \in Text, NEW c \in BOOLEAN
  PROVE  Message(t, c) \in Messages /\ Message(t, c).text = t /\ Message(t, c).cursor = c
BY DEF Message, Messages

LEMMA NoteTyped == Note \in Text /\ Len(Note) <= MaxMsgLen
BY StreamAssumption DEF Note, Text

\* A part of what editFinal is given, and what is left of it.
LEMMA PartTyped ==
  ASSUME Typing, NEW k \in SplitMessage(FinalText)
  PROVE  /\ FinalText \in Text /\ Len(FinalText) \in Nat /\ FinalText # <<>>
         /\ k \in 1 .. Len(FinalText) /\ k <= MaxMsgLen
         /\ SubSeq(FinalText, 1, k) \in Text /\ Len(SubSeq(FinalText, 1, k)) = k
         /\ SubSeq(FinalText, k + 1, Len(FinalText)) \in Text
<1>1. FinalText \in Text /\ Len(FinalText) \in Nat \ {0} /\ MaxMsgLen \in Nat
  <2>1. buf \in Seq(0 .. MaxText) /\ Note \in Seq(0 .. MaxText) /\ Len(Note) = 1
    BY NoteTyped DEF Typing, TypeOK, Text, Note
  <2>2. FinalText \in Seq(0 .. MaxText) /\ FinalText # <<>>
    <3>1. CASE buf = <<>>
      BY <2>1, <3>1 DEF FinalText
    <3>2. CASE buf # <<>>
      BY <2>1, <3>2 DEF FinalText
    <3> QED BY <3>1, <3>2
  <2> QED BY <2>2, StreamAssumption DEF Text
<1>2. k \in 1 .. Len(FinalText) /\ k <= MaxMsgLen
  BY <1>1 DEF SplitMessage
<1>3. \A i \in 1 .. Len(FinalText) : FinalText[i] \in 0 .. MaxText
  BY <1>1, ElementOfSeq DEF Text
<1>4. k \in Int /\ Len(FinalText) \in Int /\ k + 1 \in Int
  BY <1>1, <1>2
<1>5. SubSeq(FinalText, 1, k) \in Text /\ Len(SubSeq(FinalText, 1, k)) = k
  BY <1>2, <1>3, <1>4, SubSeqProperties, Z3 DEF Text
<1>6. SubSeq(FinalText, k + 1, Len(FinalText)) \in Text
  BY <1>2, <1>3, <1>4, SubSeqProperties, Z3 DEF Text
<1> QED BY <1>1, <1>2, <1>5, <1>6

\* Messages of a legal length remain so when one more comes, or another text.
LEMMA MessagesTyped ==
  ASSUME Typing, NEW t \in Text, NEW c \in BOOLEAN, adapter # "cli" => Len(t) <= MaxMsgLen
  PROVE  LET m == Message(t, c) IN
         /\ Posted(msgs) /\ Posted(<<m>>)
         /\ Posted(Append(msgs, m)) /\ Len(Append(msgs, m)) = Len(msgs) + 1
         /\ current # 0 =>
              /\ Posted([msgs EXCEPT ![current] = m])
              /\ Len([msgs EXCEPT ![current] = m]) = Len(msgs)
<1> DEFINE m == Message(t, c)
<1>0. m \in Messages /\ (adapter # "cli" => Len(m.text) <= MaxMsgLen)
  BY MessageTyped
<1> HIDE DEF m
<1>1. /\ msgs \in Seq(Messages) /\ Len(msgs) \in Nat /\ DOMAIN msgs = 1 .. Len(msgs)
      /\ current \in 0 .. Len(msgs) /\ Posted(msgs)
      /\ adapter # "cli" => \A i \in 1 .. Len(msgs) : Len(msgs[i].text) <= MaxMsgLen
  BY DEF Typing, TypeOK, Posted
<1>2. Posted(<<m>>)
  BY <1>0 DEF Posted
<1>3. Posted(Append(msgs, m)) /\ Len(Append(msgs, m)) = Len(msgs) + 1
  <2>1. /\ Append(msgs, m) \in Seq(Messages) /\ Len(Append(msgs, m)) = Len(msgs) + 1
        /\ DOMAIN Append(msgs, m) = 1 .. Len(msgs) + 1
        /\ \A i \in 1 .. Len(msgs) : Append(msgs, m)[i] = msgs[i]
        /\ Append(msgs, m)[Len(msgs) + 1] = m
    BY <1>0, <1>1
  <2>2. ASSUME adapter # "cli", NEW i \in 1 .. Len(msgs) + 1
        PROVE  Len(Append(msgs, m)[i].text) <= MaxMsgLen
    <3>1. i \in 1 .. Len(msgs) \/ i = Len(msgs) + 1
      BY <1>1
    <3> QED BY <1>0, <1>1, <2>1, <2>2, <3>1
  <2> QED BY <2>1, <2>2 DEF Posted
<1>4. ASSUME current # 0
      PROVE  /\ Posted([msgs EXCEPT ![current] = m])
             /\ Len([msgs EXCEPT ![current] = m]) = Len(msgs)
  <2> current \in 1 .. Len(msgs)
    BY <1>1, <1>4
  <2>1. [msgs EXCEPT ![current] = m] \in Seq(Messages)
          /\ Len([msgs EXCEPT ![current] = m]) = Len(msgs)
    BY <1>0, <1>1, ExceptSeq
  <2>2. ASSUME adapter # "cli", NEW i \in 1 .. Len(msgs)
        PROVE  Len([msgs EXCEPT ![current] = m][i].text) <= MaxMsgLen
    <3>1. [msgs EXCEPT ![current] = m][i] = IF i = current THEN m ELSE msgs[i]
      BY <1>1
    <3> QED BY <1>0, <1>1, <2>2, <3>1
  <2>3. DOMAIN [msgs EXCEPT ![current] = m] = 1 .. Len(msgs)
    BY <1>1
  <2> QED BY <2>1, <2>2, <2>3 DEF Posted
<1> QED BY <1>1, <1>2, <1>3, <1>4 DEF m

LEMMA TypingProcess ==
  ASSUME Typing, Steps, Process \/ TellError \/ Signal
  PROVE  Typing'
<1> USE DEF subprocess, reading, handling, sending
<1>1. CASE Deadline \/ Signal
  BY <1>1 DEF Deadline, Signal, Typing, TypeOK
<1>2. CASE CloseTokens
  BY <1>2 DEF CloseTokens, Typing, TypeOK
<1>3. CASE WaitSender
  BY <1>3 DEF WaitSender, Typing, TypeOK
<1>4. CASE TellError
  <2>1. Posted(<<Message(Note, FALSE)>>) /\ Posted(msgs)
    BY MessagesTyped, NoteTyped
  <2>2. UNCHANGED <<adapter, subprocess, reading, handling, ctx, tokens, sender, buf, current,
                  failed>>
    BY <1>4 DEF TellError
  <2>3. Posted(msgs') /\ Len(msgs') = Len(msgs)
    <3>1. CASE adapter = "ask"
      <4>1. Len(msgs) = 1
        BY <3>1 DEF Steps
      <4>2. msgs' = <<Message(Note, FALSE)>>
        BY <1>4, <3>1 DEF TellError
      <4> QED BY <2>1, <4>1, <4>2
    <3>2. CASE adapter # "ask"
      BY <1>4, <2>1, <3>2 DEF TellError
    <3> QED BY <3>1, <3>2
  <2>4. main' = "done"
    BY <1>4 DEF TellError
  <2> QED BY <2>2, <2>3, <2>4 DEF Typing, TypeOK, Posted
<1> QED BY <1>1, <1>2, <1>3, <1>4 DEF Process

LEMMA TypingSend ==
  ASSUME Typing, Steps, Send
  PROVE  Typing'
<1> USE DEF subprocess, reading, handling
<1>a. /\ Len(msgs) \in Nat /\ Posted(msgs) /\ buf \in Text /\ FinalText \in Text
      /\ MaxMsgLen \in Nat /\ Len(buf) \in Nat /\ Len(FinalText) \in Nat
  BY NoteTyped, StreamAssumption DEF Typing, TypeOK, Posted, FinalText, Text
\* What a step of the sender leaves typed, whatever it does to the messages.
<1>b. ASSUME UNCHANGED <<adapter, subprocess, reading, handling, ctx, main>>,
             tokens' \in Seq(Text), Len(tokens') <= QueueSize,
             Posted(msgs'), current' \in 0 .. Len(msgs'), failed' \in BOOLEAN, buf' \in Text,
             sender' \in {"placeholder", "loop", "overflow", "final", "remainder", "respond",
                          "ended"}
      PROVE  Typing'
  BY <1>b DEF Typing, TypeOK, Posted
<1>c. ASSUME NEW t \in Text, NEW c \in BOOLEAN, current # 0, Edit(t, c), UNCHANGED current
      PROVE  Posted(msgs') /\ current' \in 0 .. Len(msgs') /\ failed' \in BOOLEAN
  <2>1. CASE UNCHANGED msgs
    BY <1>a, <1>c, <2>1 DEF Edit, Typing, TypeOK, Posted
  <2>2. CASE Len(t) <= MaxMsgLen /\ msgs' = [msgs EXCEPT ![current] = Message(t, c)]
    <3>1. Posted([msgs EXCEPT ![current] = Message(t, c)]) /\ Len(msgs') = Len(msgs)
      BY <1>c, <2>2, MessagesTyped
    <3> QED BY <1>c, <2>2, <3>1 DEF Edit, Typing, TypeOK, Posted
  <2>3. Len(t) \in Nat
    BY <1>c DEF Text
  <2>4. UNCHANGED msgs \/ (Len(t) <= MaxMsgLen /\ msgs' = [msgs EXCEPT ![current] = Message(t, c)])
    BY <1>a, <1>c, <2>3 DEF Edit, Calls
  <2> QED BY <2>1, <2>2, <2>4
<1>d. ASSUME NEW c \in BOOLEAN, SendMsg(c), adapter' = adapter
      PROVE  Posted(msgs') /\ current' \in 0 .. Len(msgs') /\ failed' \in BOOLEAN
  <2>1. CASE UNCHANGED <<msgs, current>>
    BY <1>a, <1>d, <2>1 DEF SendMsg, Typing, TypeOK, Posted
  <2>2. CASE /\ Len(buf) <= MaxMsgLen /\ msgs' = Append(msgs, Message(buf, c))
             /\ current' = Len(msgs')
    <3>1. Posted(Append(msgs, Message(buf, c))) /\ Len(msgs') = Len(msgs) + 1
      BY <1>a, <1>d, <2>2, MessagesTyped
    <3>2. failed' \in BOOLEAN
      <4>1. failed \in BOOLEAN
        BY DEF Typing, TypeOK
      <4>2. failed' = failed \/ failed' = TRUE
        BY <1>d DEF SendMsg
      <4> QED BY <4>1, <4>2
    <3>3. current' \in 0 .. Len(msgs')
      <4>1. Len(msgs') \in Nat
        BY <2>2, <3>1 DEF Posted
      <4> QED BY <2>2, <4>1
    <3> QED BY <2>2, <3>1, <3>2, <3>3
  <2>3. \/ UNCHANGED <<msgs, current>>
        \/ Len(buf) <= MaxMsgLen /\ msgs' = Append(msgs, Message(buf, c)) /\ current' = Len(msgs')
    BY <1>a, <1>d DEF SendMsg, Calls
  <2> QED BY <2>1, <2>2, <2>3
<1>e. ASSUME tokens # <<>>
      PROVE  /\ Tail(tokens) \in Seq(Text) /\ Len(Tail(tokens)) <= QueueSize
             /\ Head(tokens) \in Text /\ buf \o Head(tokens) \in Text
  <2>1. tokens \in Seq(Text) /\ Len(tokens) <= QueueSize /\ QueueSize \in Nat
    BY StreamAssumption DEF Typing, TypeOK
  <2>2. Tail(tokens) \in Seq(Text) /\ Len(Tail(tokens)) = Len(tokens) - 1 /\ Head(tokens) \in Text
    BY <1>e, <2>1
  <2>3. buf \o Head(tokens) \in Text
    BY <1>a, <2>2 DEF Text
  <2> QED BY <2>1, <2>2, <2>3
<1>f. tokens \in Seq(Text) /\ Len(tokens) <= QueueSize /\ current \in 0 .. Len(msgs)
      /\ failed \in BOOLEAN
  BY DEF Typing, TypeOK
<1>1. CASE Placeholder
  <2>1. <<>> \in Text /\ Len(<<>>) <= MaxMsgLen
    BY <1>a DEF Text
  <2>2. /\ Posted(Append(msgs, Message(<<>>, TRUE)))
        /\ Len(Append(msgs, Message(<<>>, TRUE))) = Len(msgs) + 1
    BY <2>1, MessagesTyped
  <2>3. /\ \/ msgs' = Append(msgs, Message(<<>>, TRUE)) /\ current' = Len(msgs')
           \/ UNCHANGED <<msgs, current>>
        /\ failed' \in BOOLEAN /\ sender' \in {"loop", "ended"}
    BY <1>1, <1>f DEF Placeholder
  <2>4. Posted(msgs') /\ current' \in 0 .. Len(msgs')
    <3>1. CASE UNCHANGED <<msgs, current>>
      BY <1>1, <1>a, <1>f, <3>1 DEF Placeholder, Posted
    <3>2. CASE msgs' = Append(msgs, Message(<<>>, TRUE)) /\ current' = Len(msgs')
      <4>1. Len(msgs') = Len(msgs) + 1
        BY <2>2, <3>2
      <4>2. Posted(msgs')
        BY <2>2, <3>2
      <4>3. Len(msgs) \in Nat
        BY <1>a
      <4>4. current' \in 0 .. Len(msgs')
        BY <3>2, <4>1, <4>3
      <4> QED BY <4>2, <4>4
    <3> QED BY <2>3, <3>1, <3>2
  <2> QED BY <1>1, <1>a, <1>b, <1>f, <2>3, <2>4 DEF Placeholder
<1>2. CASE TakeToken
  <2>1. tokens' = Tail(tokens) /\ buf' = buf \o Head(tokens) /\ tokens # <<>>
    BY <1>2 DEF TakeToken
  <2> QED BY <1>2, <1>a, <1>b, <1>e, <1>f, <2>1 DEF TakeToken, Posted
<1>3. CASE PrintToken
  <2>1. /\ tokens' = Tail(tokens) /\ tokens # <<>> /\ adapter = "cli"
        /\ msgs' = Append(msgs, Message(Head(tokens), FALSE))
    BY <1>3 DEF PrintToken
  <2>2. Posted(msgs') /\ Len(msgs') = Len(msgs) + 1
    BY <1>e, <2>1, MessagesTyped
  <2>3. current' \in 0 .. Len(msgs')
    BY <1>3, <1>a, <1>f, <2>2 DEF PrintToken
  <2>4. UNCHANGED <<adapter, subprocess, reading, handling, ctx, main, sender, buf, failed>>
    BY <1>3 DEF PrintToken
  <2> QED BY <1>a, <1>b, <1>e, <1>f, <2>1, <2>2, <2>3, <2>4 DEF Typing, TypeOK, Posted
<1>4. CASE TokensEnd \/ Leave \/ PartsEnd
  <2>1. UNCHANGED <<msgs, current>> /\ failed' \in BOOLEAN /\ buf' = buf
    BY <1>4, <1>f DEF TokensEnd, Leave, PartsEnd
  <2>2. Posted(msgs') /\ current' \in 0 .. Len(msgs')
    BY <1>a, <1>f, <2>1 DEF Posted
  <2> QED BY <1>4, <1>a, <1>b, <1>f, <2>1, <2>2 DEF TokensEnd, Leave, PartsEnd
<1>5. CASE Tick
  <2>1. SendMsg(TRUE) \/ (current # 0 /\ Edit(buf, TRUE) /\ UNCHANGED current)
    BY <1>5 DEF Tick
  <2>2. /\ UNCHANGED <<adapter, subprocess, reading, handling, ctx, tokens, main, sender, buf>>
        /\ sender = "loop"
    BY <1>5 DEF Tick
  <2>3. Posted(msgs') /\ current' \in 0 .. Len(msgs') /\ failed' \in BOOLEAN
    BY <1>a, <1>c, <1>d, <2>1, <2>2
  <2> QED BY <1>a, <1>b, <1>f, <2>2, <2>3
<1>6. CASE PutPart
  <2>1. PICK k \in SplitMessage(FinalText), o \in ApiOutcomes :
          /\ \/ msgs' = msgs
             \/ msgs' = Append(msgs, Message(SubSeq(FinalText, 1, k), FALSE))
             \/ /\ msgs' = [msgs EXCEPT ![current] = Message(SubSeq(FinalText, 1, k), FALSE)]
                /\ current # 0
          /\ failed' = (failed \/ o # "ok")
          /\ buf' = SubSeq(FinalText, k + 1, Len(FinalText))
    BY <1>6 DEF PutPart
  <2>4. Posted(msgs')
    BY <2>1, PartTyped, MessagesTyped
  <2>5. /\ UNCHANGED <<adapter, subprocess, reading, handling, ctx, tokens, main, sender>>
        /\ sender \in {"overflow", "final"} /\ current' = 0
    BY <1>6 DEF PutPart
  <2>6. current' \in 0 .. Len(msgs')
    BY <2>4, <2>5 DEF Posted
  <2> QED BY <1>b, <1>f, <2>1, <2>4, <2>5, <2>6, PartTyped
<1>7. CASE Remainder
  <2>1. SendMsg(FALSE) \/ UNCHANGED <<msgs, current, failed>>
    BY <1>7 DEF Remainder
  <2>2. /\ UNCHANGED <<adapter, subprocess, reading, handling, ctx, tokens, main, buf>>
        /\ sender' = "ended"
    BY <1>7 DEF Remainder
  <2>3. Posted(msgs') /\ current' \in 0 .. Len(msgs') /\ failed' \in BOOLEAN
    <3>1. CASE UNCHANGED <<msgs, current, failed>>
      BY <1>a, <1>f, <2>2, <3>1 DEF Posted
    <3> QED BY <1>d, <2>1, <2>2, <3>1
  <2> QED BY <1>a, <1>b, <1>f, <2>2, <2>3
<1>8. CASE Respond
  <2>1. sender = "respond"
    BY <1>8 DEF Respond
  <2>2. current # 0
    BY <2>1 DEF Steps
  <2>3. /\ Edit(FinalText, FALSE) /\ sender' = "ended"
        /\ UNCHANGED <<adapter, subprocess, reading, handling, ctx, tokens, main, buf, current>>
    BY <1>8 DEF Respond
  <2>4. Posted(msgs') /\ current' \in 0 .. Len(msgs') /\ failed' \in BOOLEAN
    BY <1>a, <1>c, <2>3, <2>2
  <2> QED BY <1>a, <1>b, <1>f, <2>3, <2>4
<1> QED BY <1>1, <1>2, <1>3, <1>4, <1>5, <1>6, <1>7, <1>8 DEF Send

LEMMA TypingStep ==
  ASSUME Typing, Steps, [Next]_vars
  PROVE  Typing'
<1>1. CASE UNCHANGED vars
  BY <1>1 DEF vars, subprocess, reading, handling, sending, Typing, TypeOK
<1> QED BY <1>1, TypingSubprocess, TypingExecute, TypingDrain, TypingProcess, TypingSend DEF Next

-----------------------------------------------------------------------------
(* The lines on their way to the handler *)

LEMMA AppendAt ==
  ASSUME NEW S, NEW s \in Seq(S), NEW e \in S
  PROVE  LET t == Append(s, e) IN
         /\ t \in Seq(S) /\ Len(t) = Len(s) + 1 /\ DOMAIN t = DOMAIN s \cup {Len(s) + 1}
         /\ \A i \in DOMAIN s : t[i] = s[i] /\ i < Len(s) + 1
         /\ t[Len(s) + 1] = e
OBVIOUS

LEMMA Elements ==
  ASSUME NEW S, NEW s \in Seq(S)
  PROVE  \A i \in DOMAIN s : s[i] \in S
OBVIOUS

LEMMA TailAt ==
  ASSUME NEW S, NEW s \in Seq(S), s # <<>>
  PROVE  /\ Head(s) = s[1] /\ 1 \in DOMAIN s
         /\ \A i \in DOMAIN Tail(s) :
              Tail(s)[i] = s[i + 1] /\ i + 1 \in DOMAIN s /\ i \in Nat /\ 1 < i + 1
OBVIOUS

LEMMA Unprecedented ==
  ASSUME NEW s, NEW t, UnitsOf(t) = {}
  PROVE  Precedes(s, t) /\ Precedes(t, s)
BY DEF Precedes

LEMMA NoLine == NoEvent.text = <<>> /\ NoEvent.type = "none"
BY DEF NoEvent, Event

LEMMA LinesInit == Init => LinesInOrder
BY NoUnits, NoLine, Unprecedented DEF Init, LinesInOrder, Coming

LEMMA LinesStep ==
  ASSUME Typing, LinesInOrder, [Next]_vars
  PROVE  LinesInOrder'
<1> USE DEF subprocess, reading, handling, sending
<1>a. /\ events \in Seq(Lines) /\ stdout \in Seq(Lines) /\ line \in Lines /\ Len(stdout) <= 1
      /\ answer \in Seq(1 .. MaxText) /\ said \in Nat
  BY StreamAssumption DEF Typing, TypeOK
<1>b. ASSUME UNCHANGED <<said, answer, events, line, stdout>>,
             executor' # "offer" => line' = NoEvent
      PROVE  LinesInOrder'
  BY <1>b DEF LinesInOrder, Coming
\* The CLI writes a line with nothing of the answer in it.
<1>c. ASSUME NEW type, Write(type, <<>>), said' \in Nat, said <= said',
             UNCHANGED <<answer, events, line, executor>>
      PROVE  LinesInOrder'
  <2>1. DOMAIN stdout' = {1} /\ stdout'[1].text = <<>>
    BY <1>c DEF Write, Event
  <2>2. 1 .. said \subseteq 1 .. said'
    BY <1>a, <1>c
  <2> QED BY <1>c, <2>1, <2>2, NoUnits, Unprecedented DEF LinesInOrder, Coming
<1>1. ASSUME NEW n \in ChunkSizes, WriteText(n) PROVE LinesInOrder'
  <2> DEFINE t == [i \in 1 .. n |-> said + i]
  <2>1. n \in Nat /\ t \in Seq(Nat) /\ DOMAIN t = 1 .. n /\ \A i \in 1 .. n : t[i] = said + i
    BY <1>a, StreamAssumption
  <2>0. stdout' = <<Event("text", t)>>
    BY <1>1 DEF WriteText, Write
  <2> HIDE DEF t
  <2>2. /\ DOMAIN stdout' = {1} /\ stdout'[1].text = t /\ said' = said + n
        /\ UNCHANGED <<answer, events, line, executor>>
    BY <1>1, <2>0 DEF WriteText, Event
  <2>3. Ascending(t)
    BY <1>a, <2>1 DEF Ascending
  <2>4. \A u \in UnitsOf(t) : u \in 1 .. said' /\ \A v \in 1 .. said : v < u
    BY <1>a, <2>1, <2>2 DEF UnitsOf
  <2>5. 1 .. said \subseteq 1 .. said'
    BY <1>a, <2>1, <2>2
  <2>6. \A s : UnitsOf(s) \subseteq 1 .. said => UnitsOf(s) \subseteq 1 .. said' /\ Precedes(s, t)
    BY <2>4, <2>5 DEF Precedes
  <2>7. UnitsOf(t) \subseteq 1 .. said'
    BY <2>4
  <2> QED BY <2>2, <2>3, <2>6, <2>7 DEF LinesInOrder, Coming
<1>2. CASE UseTool
  BY <1>2, <1>a, <1>c DEF UseTool
<1>3. CASE WriteTooLong
  <2>1. said' \in Nat /\ said <= said'
    BY <1>3, <1>a, StreamAssumption DEF WriteTooLong
  <2> QED BY <1>3, <1>c, <2>1 DEF WriteTooLong
<1>4. ASSUME NEW type, WriteResult(type) PROVE LinesInOrder'
  BY <1>4, <1>a, <1>c DEF WriteResult
<1>10. CASE Scan
  <2>1. /\ stdout # <<>> /\ stdout' = Tail(stdout)
        /\ UNCHANGED <<said, answer, events>>
    BY <1>10 DEF Scan
  <2>2. Head(stdout) = stdout[1] /\ 1 \in DOMAIN stdout /\ DOMAIN stdout' = {}
    BY <1>a, <2>1
  <2>3. CASE line' = Head(stdout) /\ executor' = "offer"
    BY <2>1, <2>2, <2>3 DEF LinesInOrder, Coming
  <2>4. CASE UNCHANGED line /\ executor' = "wait"
    <3>1. line = NoEvent
      BY <1>10 DEF Scan, LinesInOrder
    <3> QED BY <2>1, <2>2, <2>4, <3>1 DEF LinesInOrder, Coming
  <2> QED BY <1>10, <2>3, <2>4 DEF Scan
<1>5. CASE Offer
  <2>1. CASE events' = Append(events, line)
    <3>1. /\ DOMAIN events' = DOMAIN events \cup {Len(events) + 1}
          /\ \A i \in DOMAIN events : events'[i] = events[i] /\ i < Len(events) + 1
          /\ events'[Len(events) + 1] = line
      BY <1>a, <2>1, AppendAt
    <3>2. \A i \in DOMAIN events : ~(Len(events) + 1 < i)
      BY <1>a, <3>1
    <3>3. line' = NoEvent /\ UNCHANGED <<said, answer, stdout>>
      BY <1>5 DEF Offer
    <3>4. \A i, j \in DOMAIN events' : i < j => Precedes(events'[i].text, events'[j].text)
      BY <1>a, <3>1, <3>2 DEF LinesInOrder
    <3>5. \A i \in DOMAIN events' : /\ Coming(events'[i].text)
                                    /\ \A k \in DOMAIN stdout :
                                         Precedes(events'[i].text, stdout[k].text)
      BY <3>1 DEF LinesInOrder
    <3> QED BY <3>3, <3>4, <3>5, NoUnits, NoLine, Unprecedented DEF LinesInOrder, Coming
  <2>2. CASE UNCHANGED events
    <3>1. line' = NoEvent /\ UNCHANGED <<said, answer, stdout>>
      BY <1>5 DEF Offer
    <3> QED BY <2>2, <3>1, NoUnits, NoLine, Unprecedented DEF LinesInOrder, Coming
  <2> QED BY <1>5, <2>1, <2>2 DEF Offer
<1>6. CASE Report
  <2>1. /\ line = NoEvent /\ UNCHANGED <<said, answer, stdout, line>>
    BY <1>6 DEF Report, LinesInOrder
  <2>2. CASE events' = Append(events, Event("error", <<>>))
    <3>1. Event("error", <<>>) \in Lines /\ Event("error", <<>>).text = <<>>
      BY DEF Event, Lines
    <3>2. /\ DOMAIN events' = DOMAIN events \cup {Len(events) + 1}
          /\ \A i \in DOMAIN events : events'[i] = events[i]
          /\ events'[Len(events) + 1].text = <<>>
      BY <1>a, <2>2, <3>1, AppendAt
    <3> QED BY <2>1, <3>2, NoUnits, NoLine, Unprecedented DEF LinesInOrder, Coming
  <2>3. CASE UNCHANGED events
    BY <1>b, <2>1, <2>3
  <2> QED BY <1>6, <2>2, <2>3 DEF Report
<1>7. CASE TakeEvent
  <2> DEFINE t == Head(events).text
  <2>1. /\ events # <<>> /\ events' = Tail(events) /\ UNCHANGED <<said, stdout, line, executor>>
        /\ answer' \in {answer, answer \o t}
    BY <1>7 DEF TakeEvent
  <2>2. /\ t = events[1].text /\ 1 \in DOMAIN events
        /\ \A i \in DOMAIN events' :
             events'[i] = events[i + 1] /\ i + 1 \in DOMAIN events /\ i \in Nat /\ 1 < i + 1
    BY <1>a, <2>1, TailAt
  <2>3. t \in Seq(Nat) /\ answer \in Seq(Nat)
    <3>1. events[1] \in Lines
      BY <1>a, <2>2
    <3>2. t \in Seq(1 .. MaxText) /\ 1 .. MaxText \subseteq Nat
      BY <2>2, <3>1 DEF Lines
    <3> QED BY <1>a, <3>2, SeqMonotonic
  <2> HIDE DEF t
  <2>4. \A i, j \in DOMAIN events' : i < j => Precedes(events'[i].text, events'[j].text)
    <3> SUFFICES ASSUME NEW i \in DOMAIN events', NEW j \in DOMAIN events', i < j
                 PROVE  Precedes(events'[i].text, events'[j].text)
      OBVIOUS
    <3>1. i + 1 < j + 1
      BY <2>2
    <3> QED BY <2>2, <3>1 DEF LinesInOrder
  <2>5. Coming(t) /\ Precedes(t, line.text) /\ \A k \in DOMAIN stdout : Precedes(t, stdout[k].text)
    BY <2>2 DEF LinesInOrder
  <2>6. \A i \in DOMAIN events' :
          /\ Coming(events'[i].text) /\ Precedes(t, events'[i].text)
          /\ Precedes(events'[i].text, line.text)
          /\ \A k \in DOMAIN stdout : Precedes(events'[i].text, stdout[k].text)
    BY <2>2 DEF LinesInOrder
  <2>7. CASE answer' = answer
    BY <2>1, <2>4, <2>6, <2>7 DEF LinesInOrder, Coming
  <2>8. CASE answer' = answer \o t
    <3>1. UnitsOf(answer') = UnitsOf(answer) \cup UnitsOf(t)
      BY <2>3, <2>8, UnitsOfConcat
    <3>2. Ascending(answer')
      BY <2>3, <2>5, <2>8, AscendingConcat DEF LinesInOrder, Coming
    <3>3. UnitsOf(answer') \subseteq 1 .. said
      BY <2>5, <3>1 DEF LinesInOrder, Coming
    <3> QED BY <2>1, <2>4, <2>5, <2>6, <3>1, <3>2, <3>3 DEF LinesInOrder, Coming, Precedes
  <2> QED BY <2>1, <2>7, <2>8
<1>8. CASE \/ Kill \/ (\E code \in {0, 1} : Exit(code)) \/ Wait \/ Abandon
           \/ EventsEnd \/ ContextDone \/ Forward \/ ToolSummary
  BY <1>8, <1>b DEF LinesInOrder, Kill, Exit, Wait, Waited, Abandon, EventsEnd, ContextDone,
          Forward, ToolSummary
<1>9. CASE Process \/ TellError \/ Signal \/ Send \/ UNCHANGED vars
  <2>1. UNCHANGED <<said, answer, events, line, stdout, executor>>
    <3>1. CASE Process \/ TellError \/ Signal \/ UNCHANGED vars
      BY <3>1 DEF Process, Deadline, CloseTokens, WaitSender, TellError, Signal, vars
    <3>2. CASE Send
      BY <3>2 DEF Send, Placeholder, TakeToken, PrintToken, TokensEnd, Leave, Tick, PutPart,
                  PartsEnd, Remainder, Respond
    <3> QED BY <1>9, <3>1, <3>2
  <2> QED BY <1>b, <2>1 DEF LinesInOrder
<1> QED BY <1>1, <1>2, <1>3, <1>4, <1>5, <1>6, <1>7, <1>8, <1>9, <1>10
        DEF Next, Subprocess, Execute, Drain

-----------------------------------------------------------------------------
(* Where each goroutine is *)

LEMMA StepsInit == Init => Steps
BY DEF Init, Steps, Message

\* What the sender does to the messages, and when.
LEMMA SendShape ==
  ASSUME Typing, Steps, Send
  PROVE  /\ UNCHANGED <<adapter, subprocess, reading, handling, ctx, main>>
         /\ adapter = "ask" => Len(msgs') = 1 /\ current' = 1
         /\ adapter = "cli" => current' = 0 /\ buf' = <<>>
         /\ current' \in {0, Len(msgs')}
         /\ sender' \in {"final", "remainder", "respond"} => main # "handle" /\ tokens' = <<>>
         /\ (sender' = "ended" /\ ~failed') => main # "handle" /\ tokens' = <<>>
         /\ sender' \in {"placeholder", "remainder"} => current' = 0
         /\ sender' = "respond" => adapter = "ask"
         /\ adapter = "ask" => sender' \in {"loop", "respond", "ended"}
         /\ adapter = "cli" => sender' \in {"loop", "ended"}
         /\ sender # "ended"
<1>a. /\ msgs \in Seq(Messages) /\ Len(msgs) \in Nat
      /\ \A m : Len(Append(msgs, m)) = Len(msgs) + 1
      /\ \A m : Len([msgs EXCEPT ![current] = m]) = Len(msgs)
  BY DEF Typing
<1>b. ASSUME NEW c, SendMsg(c)
      PROVE  \/ UNCHANGED <<msgs, current>>
             \/ Len(msgs') = Len(msgs) + 1 /\ current' = Len(msgs')
  BY <1>a, <1>b DEF SendMsg
<1>c. ASSUME NEW t, NEW c, Edit(t, c) PROVE Len(msgs') = Len(msgs)
  BY <1>a, <1>c DEF Edit
<1>1. CASE Placeholder
  BY <1>1, <1>a DEF Placeholder, Steps
<1>2. CASE TakeToken
  BY <1>2 DEF TakeToken, Steps
<1>3. CASE PrintToken
  BY <1>3, <1>a DEF PrintToken, Steps
<1>4. CASE TokensEnd
  BY <1>4 DEF TokensEnd, TokensClosed, Steps
<1>5. CASE Leave
  BY <1>5 DEF Leave, Steps
<1>6. CASE Tick
  <2>1. CASE current = 0 /\ SendMsg(TRUE)
    <3>1. sender = "loop" /\ adapter \notin {"ask", "cli"}
      BY <1>6, <2>1 DEF Tick, Steps
    <3>2. current' \in {0, Len(msgs')}
      BY <1>b, <2>1
    <3>3. UNCHANGED <<adapter, subprocess, reading, handling, ctx, tokens, main, sender, buf>>
      BY <1>6 DEF Tick
    <3> QED BY <3>1, <3>2, <3>3
  <2>2. CASE current # 0 /\ Edit(buf, TRUE) /\ UNCHANGED current
    BY <1>6, <1>a, <1>c, <2>2 DEF Tick, Steps
  <2> QED BY <1>6, <2>1, <2>2 DEF Tick
<1>7. CASE PutPart
  BY <1>7 DEF PutPart, Steps
<1>8. CASE PartsEnd
  BY <1>8 DEF PartsEnd, Steps
<1>9. CASE Remainder
  <2>1. CASE SendMsg(FALSE)
    BY <1>9, <1>a, <1>b, <2>1 DEF Remainder, Steps
  <2>2. CASE UNCHANGED <<msgs, current, failed>>
    BY <1>9, <2>2 DEF Remainder, Steps
  <2> QED BY <1>9, <2>1, <2>2 DEF Remainder
<1>10. CASE Respond
  BY <1>10, <1>a, <1>c DEF Respond, Steps
<1> QED BY <1>1, <1>2, <1>3, <1>4, <1>5, <1>6, <1>7, <1>8, <1>9, <1>10 DEF Send

LEMMA StepsStep ==
  ASSUME Typing, Steps, [Next]_vars
  PROVE  Steps'
<1> USE DEF subprocess, reading, handling, sending
<1>a. ASSUME UNCHANGED <<adapter, handler, result, tokens, main, sending>> PROVE Steps'
  BY <1>a DEF Steps
<1>1. CASE Subprocess \/ Execute
  BY <1>1, <1>a DEF Subprocess, WriteText, WriteTooLong, UseTool, WriteResult, Exit,
          Kill, Execute, Scan, Offer, Wait, Report, Abandon
<1>2. CASE Drain
  <2>1. UNCHANGED <<adapter, main, sending>> /\ main = "handle"
    BY <1>2 DEF Drain, TakeEvent, EventsEnd, ContextDone, Forward, ToolSummary, Steps
  <2>2. handler' = "returned" <=> result' # "none"
    BY <1>2 DEF Drain, TakeEvent, EventsEnd, ContextDone, Forward, ToolSummary, Steps, Return
  <2> QED BY <2>1, <2>2 DEF Steps
<1>3. CASE Deadline \/ CloseTokens \/ WaitSender \/ Signal
  BY <1>3 DEF Deadline, CloseTokens, WaitSender, Signal, Steps
<1>4. CASE TellError
  BY <1>4 DEF TellError, Steps
<1>5. CASE Send
  BY <1>5, SendShape DEF Steps
<1>6. CASE UNCHANGED vars
  BY <1>6, <1>a DEF vars
<1> QED BY <1>1, <1>2, <1>3, <1>4, <1>5, <1>6 DEF Next, Process

LEMMA MessagePlaces ==
  ASSUME NEW S, NEW ms \in Seq(S)
  PROVE  \A i \in DOMAIN ms : i \in Nat \ {0} /\ i <= Len(ms)
OBVIOUS

LEMMA MessageAdded ==
  ASSUME NEW S, NEW ms \in Seq(S), NEW m \in S
  PROVE  LET ns == Append(ms, m) IN
         /\ DOMAIN ns = DOMAIN ms \cup {Len(ns)} /\ Len(ns) \notin DOMAIN ms
         /\ \A i \in DOMAIN ms : ns[i] = ms[i] /\ i < Len(ns)
         /\ ns[Len(ns)] = m /\ Len(ns) # 0
<1> DEFINE ns == Append(ms, m)
<1>1. DOMAIN ms = 1 .. Len(ms) /\ Len(ms) \in Nat
  OBVIOUS
<1>2. /\ Len(ns) = Len(ms) + 1 /\ DOMAIN ns = DOMAIN ms \cup {Len(ms) + 1}
      /\ \A i \in DOMAIN ms : ns[i] = ms[i]
      /\ ns[Len(ms) + 1] = m
  BY AppendAt
<1> HIDE DEF ns
<1>3. Len(ns) \notin DOMAIN ms /\ Len(ns) # 0 /\ \A i \in DOMAIN ms : i < Len(ns)
  BY <1>1, <1>2
<1>4. /\ DOMAIN ns = DOMAIN ms \cup {Len(ns)} /\ Len(ns) \notin DOMAIN ms
      /\ \A i \in DOMAIN ms : ns[i] = ms[i] /\ i < Len(ns)
      /\ ns[Len(ns)] = m /\ Len(ns) # 0
  BY <1>2, <1>3
<1> QED BY <1>4 DEF ns

LEMMA MessageChanged ==
  ASSUME NEW S, NEW ms \in Seq(S), Len(ms) # 0, NEW m \in S
  PROVE  LET ns == [ms EXCEPT ![Len(ms)] = m] IN
         /\ DOMAIN ns = DOMAIN ms /\ Len(ns) = Len(ms) /\ ns[Len(ms)] = m
         /\ Len(ms) \in DOMAIN ms
         /\ \A i \in DOMAIN ms : i # Len(ms) => ns[i] = ms[i] /\ i < Len(ms)
OBVIOUS

LEMMA CursorsInit == Init => Cursors
BY DEF Init, Cursors, Message

LEMMA CursorsStep ==
  ASSUME Typing, Steps, Cursors, [Next]_vars
  PROVE  Cursors'
<1> USE DEF subprocess, reading, handling, sending
<1>a. ASSUME UNCHANGED <<adapter, msgs, current, failed>>, sender' # "ended" => sender # "ended"
      PROVE  Cursors'
  BY <1>a DEF Cursors
<1>b. ASSUME sender' = "ended" PROVE Cursors'
  BY <1>b DEF Cursors
<1>c. /\ msgs \in Seq(Messages) /\ Len(msgs) \in Nat /\ DOMAIN msgs = 1 .. Len(msgs)
      /\ current \in {0, Len(msgs)} /\ failed \in BOOLEAN
  BY DEF Typing, TypeOK, Steps
<1>0. \A i \in DOMAIN msgs : i # 0
  BY <1>c, MessagePlaces
\* One message more, or another text for the current one.
<1>d. ASSUME NEW m \in Messages, msgs' = Append(msgs, m)
      PROVE  /\ DOMAIN msgs' = DOMAIN msgs \cup {Len(msgs')} /\ Len(msgs') \notin DOMAIN msgs
             /\ \A i \in DOMAIN msgs : msgs'[i] = msgs[i]
             /\ msgs'[Len(msgs')] = m /\ Len(msgs') # 0
  <2> DEFINE ns == Append(msgs, m)
  <2>1. /\ DOMAIN ns = DOMAIN msgs \cup {Len(ns)} /\ Len(ns) \notin DOMAIN msgs
        /\ \A i \in DOMAIN msgs : ns[i] = msgs[i] /\ i < Len(ns)
        /\ ns[Len(ns)] = m /\ Len(ns) # 0
    <3>1. msgs \in Seq(Messages)
      BY <1>c
    <3> QED BY <3>1, MessageAdded
  <2> QED BY <1>d, <2>1
<1>e. ASSUME NEW m \in Messages, msgs' = [msgs EXCEPT ![current] = m], current # 0
      PROVE  /\ DOMAIN msgs' = DOMAIN msgs /\ msgs'[current] = m
             /\ \A i \in DOMAIN msgs : i # current => msgs'[i] = msgs[i]
  <2>1. current = Len(msgs)
    BY <1>c, <1>e
  <2> QED BY <1>c, <1>e, <2>1, MessageChanged
<1>1. CASE Subprocess \/ Execute \/ Drain \/ UNCHANGED vars
  BY <1>1, <1>a DEF Subprocess, WriteText, WriteTooLong, UseTool, WriteResult, Exit,
    Kill, Execute, Scan, Offer, Wait, Report, Abandon, Drain, TakeEvent, EventsEnd,
    ContextDone, Forward, ToolSummary, vars
<1>2. CASE Deadline \/ CloseTokens \/ WaitSender \/ Signal
  BY <1>2, <1>a DEF Deadline, CloseTokens, WaitSender, Signal
<1>3. CASE TellError
  <2>1. CASE adapter = "ask"
    BY <1>3, <1>b, <2>1 DEF TellError, Steps
  <2>2. CASE adapter # "ask"
    BY <1>3, <1>a, <2>2 DEF TellError
  <2> QED BY <2>1, <2>2
<1>4. CASE TakeToken \/ TokensEnd \/ PartsEnd \/ Leave
  BY <1>4, <1>a, <1>b DEF TakeToken, TokensEnd, PartsEnd, Leave
<1>5. CASE Remainder \/ Respond
  BY <1>5, <1>b DEF Remainder, Respond
<1>6. CASE Placeholder
  <2>1. CASE sender' = "ended"
    BY <1>b, <2>1
  <2>2. CASE msgs' = Append(msgs, Message(<<>>, TRUE)) /\ current' = Len(msgs') /\ UNCHANGED failed
    <3>1. Message(<<>>, TRUE) \in Messages /\ Message(<<>>, TRUE).cursor = TRUE
      <4>1. <<>> \in Text
        BY DEF Text
      <4> QED BY <4>1, MessageTyped
    <3>2. current = 0
      BY <1>6 DEF Placeholder, Steps
    <3>3. ~failed' => \A i \in DOMAIN msgs : ~msgs[i].cursor
      BY <1>6, <1>0, <2>2, <3>2 DEF Placeholder, Cursors
    <3> QED BY <1>d, <2>2, <3>1, <3>3 DEF Cursors
  <2> QED BY <1>6, <2>1, <2>2 DEF Placeholder
<1>7. CASE PrintToken
  <2>1. Message(Head(tokens), FALSE) \in Messages /\ Message(Head(tokens), FALSE).cursor = FALSE
    <3>1. Head(tokens) \in Text
      BY <1>7 DEF PrintToken, Typing
    <3> QED BY <3>1, MessageTyped
  <2>2. current = 0
    BY <1>7 DEF PrintToken, Steps
  <2>3. ~failed' => \A i \in DOMAIN msgs : ~msgs[i].cursor
    BY <1>7, <1>0, <2>2 DEF PrintToken, Cursors
  <2>4. msgs' = Append(msgs, Message(Head(tokens), FALSE)) /\ current' = 0
    BY <1>7, <2>2 DEF PrintToken
  <2> QED BY <1>d, <2>1, <2>3, <2>4 DEF Cursors
<1>8. CASE Tick
  <2>1. Message(buf, TRUE) \in Messages /\ Message(buf, TRUE).cursor = TRUE
    BY MessageTyped DEF Typing, TypeOK
  <2>2. CASE UNCHANGED <<msgs, current>>
    BY <1>8, <2>2 DEF Tick, Cursors, SendMsg, Edit
  <2>3. CASE msgs' = Append(msgs, Message(buf, TRUE)) /\ current' = Len(msgs') /\ current = 0
               /\ UNCHANGED failed
    <3>1. ~failed' => \A i \in DOMAIN msgs : ~msgs[i].cursor
      BY <1>8, <1>0, <2>3 DEF Tick, Cursors
    <3> QED BY <1>d, <2>1, <2>3, <3>1 DEF Cursors
  <2>4. CASE current # 0 /\ msgs' = [msgs EXCEPT ![current] = Message(buf, TRUE)]
               /\ UNCHANGED <<current, failed>>
    <3>1. ~failed' => \A i \in DOMAIN msgs : i # current => ~msgs[i].cursor
      BY <1>8, <2>4 DEF Tick, Cursors
    <3> QED BY <1>e, <2>1, <2>4, <3>1 DEF Cursors
  <2> QED BY <1>8, <2>2, <2>3, <2>4 DEF Tick, SendMsg, Edit
<1>9. CASE PutPart
  <2> SUFFICES ASSUME ~failed' PROVE \A i \in DOMAIN msgs' : ~msgs'[i].cursor
    BY <1>9 DEF PutPart, Cursors
  <2>1. PICK k \in SplitMessage(FinalText) :
          msgs' = IF current = 0 THEN Append(msgs, Message(SubSeq(FinalText, 1, k), FALSE))
                  ELSE [msgs EXCEPT ![current] = Message(SubSeq(FinalText, 1, k), FALSE)]
    BY <1>9, <1>c DEF PutPart
  <2> DEFINE m == Message(SubSeq(FinalText, 1, k), FALSE)
  <2>2. ~failed /\ \A i \in DOMAIN msgs : i # current => ~msgs[i].cursor
    BY <1>9, <1>c DEF PutPart, Cursors
  <2>3. m \in Messages /\ ~m.cursor
    BY <2>1, PartTyped, MessageTyped
  <2> HIDE DEF m
  <2>4. CASE current = 0
    BY <1>0, <1>d, <2>1, <2>2, <2>3, <2>4 DEF m
  <2>5. CASE current # 0
    BY <1>e, <2>1, <2>2, <2>3, <2>5 DEF m
  <2> QED BY <2>4, <2>5
<1> QED BY <1>1, <1>2, <1>3, <1>4, <1>5, <1>6, <1>7, <1>8, <1>9 DEF Next, Process, Send

-----------------------------------------------------------------------------
(* The order of what is sent and shown *)

\* Every call that works puts a text into the current message, or into a new one.
Puts(t, c) ==
  msgs' = IF current = 0 THEN Append(msgs, Message(t, c))
          ELSE [msgs EXCEPT ![current] = Message(t, c)]

LEMMA PutsShape ==
  ASSUME Typing, Steps, NEW t \in Text, NEW c \in BOOLEAN, Puts(t, c)
  PROVE  /\ DOMAIN msgs' = (DOMAIN msgs \ {current}) \cup {Len(msgs')}
         /\ Len(msgs') \notin DOMAIN msgs \ {current}
         /\ msgs'[Len(msgs')].text = t /\ msgs'[Len(msgs')].cursor = c /\ Len(msgs') # 0
         /\ \A i \in DOMAIN msgs \ {current} : msgs'[i] = msgs[i] /\ i < Len(msgs')
         /\ current # 0 => Len(msgs') = current
         /\ \A i \in DOMAIN msgs' : ~(Len(msgs') < i)
<1> DEFINE m == Message(t, c)
<1>1. m \in Messages /\ m.text = t /\ m.cursor = c
  BY MessageTyped
<1> HIDE DEF m
<1>2. msgs \in Seq(Messages) /\ current \in {0, Len(msgs)}
  BY DEF Typing, Steps
<1>3. \A i \in DOMAIN msgs : i # 0
  BY <1>2, MessagePlaces
<1>4. \A i \in DOMAIN msgs' : ~(Len(msgs') < i)
  <2>1. msgs' \in Seq(Messages)
    <3>1. current # 0 => current \in 1 .. Len(msgs)
      BY <1>2
    <3> QED BY <1>1, <1>2, <3>1, ExceptSeq DEF Puts, m
  <2> QED BY <2>1
<1>5. CASE current = 0
  <2> DEFINE ns == Append(msgs, m)
  <2>1. /\ DOMAIN ns = DOMAIN msgs \cup {Len(ns)} /\ Len(ns) \notin DOMAIN msgs
        /\ \A i \in DOMAIN msgs : ns[i] = msgs[i] /\ i < Len(ns)
        /\ ns[Len(ns)] = m /\ Len(ns) # 0
    BY <1>1, <1>2, MessageAdded
  <2>2. msgs' = ns
    BY <1>5 DEF Puts, m
  <2>3. DOMAIN msgs \ {current} = DOMAIN msgs
    BY <1>3, <1>5
  <2> HIDE DEF ns
  <2>4. /\ DOMAIN msgs' = DOMAIN msgs \cup {Len(msgs')} /\ Len(msgs') \notin DOMAIN msgs
        /\ \A i \in DOMAIN msgs : msgs'[i] = msgs[i] /\ i < Len(msgs')
        /\ msgs'[Len(msgs')] = m /\ Len(msgs') # 0
    BY <2>1, <2>2
  <2> QED BY <1>1, <1>4, <1>5, <2>3, <2>4
<1>6. CASE current # 0
  <2> DEFINE ns == [msgs EXCEPT ![Len(msgs)] = m]
  <2>0. current = Len(msgs) /\ Len(msgs) # 0
    BY <1>2, <1>6
  <2>1. /\ DOMAIN ns = DOMAIN msgs /\ Len(ns) = Len(msgs) /\ ns[Len(msgs)] = m
        /\ Len(msgs) \in DOMAIN msgs
        /\ \A i \in DOMAIN msgs : i # Len(msgs) => ns[i] = msgs[i] /\ i < Len(msgs)
    BY <1>1, <1>2, <2>0, MessageChanged
  <2>2. msgs' = ns
    BY <1>6, <2>0 DEF Puts, m
  <2> HIDE DEF ns
  <2> QED BY <1>1, <1>4, <2>0, <2>1, <2>2
<1> QED BY <1>5, <1>6

\* A message put after all that precede it is in order.
LEMMA PutsInOrder ==
  ASSUME Typing, Steps, MessagesInOrder, NEW t \in Text, NEW c \in BOOLEAN, Puts(t, c),
         Ascending(t),
         \A i \in DOMAIN msgs \ {current} : ~msgs[i].cursor => Precedes(msgs[i].text, t)
  PROVE  MessagesInOrder'
<1>1. /\ DOMAIN msgs' = (DOMAIN msgs \ {current}) \cup {Len(msgs')}
      /\ msgs'[Len(msgs')].text = t
      /\ \A i \in DOMAIN msgs \ {current} : msgs'[i] = msgs[i] /\ i < Len(msgs')
  BY PutsShape
<1>2. \A i \in DOMAIN msgs' : Ascending(msgs'[i].text)
  BY <1>1 DEF MessagesInOrder
<1>3. ASSUME NEW i \in DOMAIN msgs', NEW j \in DOMAIN msgs', i < j, ~msgs'[i].cursor
      PROVE  Precedes(msgs'[i].text, msgs'[j].text)
  <2>0. \A k \in DOMAIN msgs' : ~(Len(msgs') < k)
    BY <1>1, PutsShape
  <2>1. i \in DOMAIN msgs \ {current}
    BY <1>1, <1>3, <2>0
  <2>2. CASE j \in DOMAIN msgs \ {current}
    BY <1>1, <1>3, <2>1, <2>2 DEF MessagesInOrder
  <2>3. CASE j = Len(msgs')
    BY <1>1, <1>3, <2>1, <2>3
  <2> QED BY <1>1, <2>2, <2>3
<1> QED BY <1>2, <1>3 DEF MessagesInOrder

LEMMA FinalTextTells ==
  ASSUME Typing, Ascending(buf)
  PROVE  /\ FinalText \in Seq(Nat) /\ Ascending(FinalText) /\ UnitsOf(FinalText) = UnitsOf(buf)
<1>1. FinalText \in Text /\ 0 .. MaxText \subseteq Nat
  BY NoteTyped, StreamAssumption DEF Typing, TypeOK, FinalText
<1>2. FinalText \in Seq(Nat)
  BY <1>1, SeqMonotonic DEF Text
<1>3. CASE buf = <<>>
  BY <1>2, <1>3, NoUnits DEF FinalText
<1>4. CASE buf # <<>>
  BY <1>2, <1>4 DEF FinalText
<1> QED BY <1>3, <1>4

LEMMA TokensInit == Init => TokensInOrder /\ MessagesInOrder
<1> SUFFICES ASSUME Init PROVE TokensInOrder /\ MessagesInOrder
  OBVIOUS
<1>1. \A i \in DOMAIN msgs : msgs[i].text = <<>> /\ i = 1
  BY DEF Init, Message
<1>2. buf = <<>> /\ tokens = <<>> /\ handler = "select"
  BY DEF Init
<1> QED BY <1>1, <1>2, NoUnits, Unprecedented DEF TokensInOrder, MessagesInOrder

\* The handler only adds to what the sender is to see.
LEMMA TokensDrain ==
  ASSUME Typing, LinesInOrder, TokensInOrder, Drain
  PROVE  TokensInOrder'
<1> USE DEF subprocess, reading, handling, sending
<1>a. UNCHANGED <<buf, msgs, current>>
  BY DEF Drain, TakeEvent, EventsEnd, ContextDone, Forward, ToolSummary
<1>b. ASSUME UNCHANGED <<answer, tokens>>, handler' # "forward" PROVE TokensInOrder'
  BY <1>a, <1>b DEF TokensInOrder, Awaited
<1>1. CASE TakeEvent
  <2> DEFINE t == Head(events).text
  <2>1. CASE UNCHANGED answer /\ handler' # "forward"
    BY <1>1, <1>b, <2>1 DEF TakeEvent
  <2>2. CASE answer' = answer \o t /\ piece' = t
    <3>1. t = events[1].text /\ 1 \in DOMAIN events /\ events[1] \in Lines
      BY <1>1, TailAt DEF TakeEvent, Typing
    <3>2. t \in Seq(Nat) /\ answer \in Seq(Nat)
      <4>1. t \in Seq(1 .. MaxText) /\ 1 .. MaxText \subseteq Nat /\ answer \in Seq(1 .. MaxText)
        BY <3>1 DEF Lines, Typing
      <4> QED BY <4>1, SeqMonotonic
    <3> HIDE DEF t
    <3>3. UnitsOf(answer') = UnitsOf(answer) \cup UnitsOf(t)
      BY <2>2, <3>2, UnitsOfConcat
    <3>4. Ascending(t) /\ \A s : UnitsOf(s) \subseteq UnitsOf(answer) => Precedes(s, t)
      BY <3>1 DEF LinesInOrder, Coming, Precedes
    <3>5. tokens' = tokens
      BY <1>1 DEF TakeEvent
    <3>6. \A k \in DOMAIN tokens : Awaited(tokens[k])'
      BY <1>a, <3>3, <3>5 DEF TokensInOrder, Awaited
    <3>7. Awaited(piece)' /\ \A k \in DOMAIN tokens : Precedes(tokens[k], piece')
      BY <1>a, <2>2, <3>3, <3>4 DEF TokensInOrder, Awaited
    <3>8. /\ Ascending(buf') /\ UnitsOf(buf') \subseteq UnitsOf(answer')
          /\ \A i \in DOMAIN msgs' : UnitsOf(msgs'[i].text) \subseteq UnitsOf(answer')
          /\ \A i \in DOMAIN msgs' : (i # current' /\ ~msgs'[i].cursor) =>
                Precedes(msgs'[i].text, buf')
          /\ \A k, l \in DOMAIN tokens' : k < l => Precedes(tokens'[k], tokens'[l])
      BY <1>a, <3>3, <3>5 DEF TokensInOrder
    <3> QED BY <3>5, <3>6, <3>7, <3>8 DEF TokensInOrder
  <2> QED BY <1>1, <2>1, <2>2 DEF TakeEvent, Return
<1>2. CASE EventsEnd \/ ContextDone
  BY <1>2, <1>b DEF EventsEnd, ContextDone, Return
<1>3. ASSUME NEW t \in Text, tokens' = Append(tokens, t), Awaited(t),
             \A k \in DOMAIN tokens : Precedes(tokens[k], t),
             UNCHANGED answer, handler' # "forward"
      PROVE  TokensInOrder'
  <2>1. tokens \in Seq(Text)
    BY DEF Typing
  <2> DEFINE ns == Append(tokens, t)
  <2>2. /\ DOMAIN ns = DOMAIN tokens \cup {Len(ns)} /\ Len(ns) \notin DOMAIN tokens
        /\ \A i \in DOMAIN tokens : ns[i] = tokens[i] /\ i < Len(ns)
        /\ ns[Len(ns)] = t /\ Len(ns) # 0
    BY <2>1, MessageAdded
  <2>3. \A k \in DOMAIN tokens : ~(Len(ns) < k)
    BY <2>1, AppendAt
  <2>4. ~(Len(ns) < Len(ns))
    BY <2>1
  <2> HIDE DEF ns
  <2>5. /\ DOMAIN tokens' = DOMAIN tokens \cup {Len(ns)}
        /\ \A i \in DOMAIN tokens : tokens'[i] = tokens[i]
        /\ tokens'[Len(ns)] = t
    BY <1>3, <2>2 DEF ns
  <2>6. \A k, l \in DOMAIN tokens' : k < l => Precedes(tokens'[k], tokens'[l])
    BY <1>3, <2>3, <2>4, <2>5 DEF TokensInOrder
  <2>7. \A k \in DOMAIN tokens' : Awaited(tokens'[k])
    BY <1>3, <2>5 DEF TokensInOrder
  <2> QED BY <1>a, <1>3, <2>6, <2>7 DEF TokensInOrder, Awaited
<1>4. CASE Forward
  <2>1. piece \in Text
    BY DEF Typing, TypeOK
  <2> QED BY <1>3, <1>4, <2>1 DEF Forward, TokensInOrder
<1>5. CASE ToolSummary
  <2>1. CASE UNCHANGED tokens
    BY <1>5, <1>b, <2>1 DEF ToolSummary, Return
  <2>2. CASE tokens' = Append(tokens, Note)
    <3>1. Awaited(Note) /\ \A k \in DOMAIN tokens : Precedes(tokens[k], Note)
      BY NoUnits, Unprecedented DEF Awaited
    <3> QED BY <1>3, <1>5, <2>2, <3>1, NoteTyped DEF ToolSummary, Return
  <2> QED BY <1>5, <2>1, <2>2 DEF ToolSummary
<1> QED BY <1>1, <1>2, <1>4, <1>5 DEF Drain

\* What a step of the sender does: nothing to the messages, or one text put there.
LEMMA SendPuts ==
  ASSUME Typing, Steps, Cursors, TokensInOrder, Send
  PROVE  \/ UNCHANGED msgs
         \/ \E t \in Text, c \in BOOLEAN :
              /\ Puts(t, c) /\ Ascending(t)
              /\ \A i \in DOMAIN msgs \ {current} : ~msgs[i].cursor => Precedes(msgs[i].text, t)
<1>a. buf \in Text /\ buf \in Seq(Nat) /\ <<>> \in Text /\ FinalText \in Text
  <2>1. 0 .. MaxText \subseteq Nat /\ buf \in Text
    BY DEF Typing, TypeOK
  <2>2. buf \in Seq(0 .. MaxText) /\ <<>> \in Text
    BY <2>1 DEF Text
  <2>3. buf \in Seq(Nat)
    BY <2>1, <2>2, SeqMonotonic
  <2> QED BY <2>1, <2>2, <2>3, NoteTyped DEF FinalText
<1>b. Ascending(buf) /\ \A i \in DOMAIN msgs \ {current} : ~msgs[i].cursor =>
        Precedes(msgs[i].text, buf)
  BY DEF TokensInOrder
<1>c. \A t : UnitsOf(t) \subseteq UnitsOf(buf) =>
        \A i \in DOMAIN msgs \ {current} : ~msgs[i].cursor => Precedes(msgs[i].text, t)
  BY <1>b DEF Precedes
<1>d. Ascending(FinalText) /\ UnitsOf(FinalText) = UnitsOf(buf) /\ FinalText \in Seq(Nat)
  BY <1>b, FinalTextTells
<1>1. CASE Placeholder
  <2>1. UNCHANGED msgs \/ Puts(<<>>, TRUE)
    BY <1>1 DEF Placeholder, Steps, Puts
  <2> QED BY <1>a, <1>c, <2>1, NoUnits
<1>2. CASE PrintToken
  <2>1. /\ tokens # <<>> /\ tokens \in Seq(Text) /\ current = 0
        /\ msgs' = Append(msgs, Message(Head(tokens), FALSE))
    BY <1>2 DEF PrintToken, Typing, Steps
  <2>2. Head(tokens) = tokens[1] /\ 1 \in DOMAIN tokens /\ Head(tokens) \in Text
    BY <2>1, TailAt
  <2>3. Awaited(Head(tokens)) /\ Puts(Head(tokens), FALSE)
    BY <2>1, <2>2 DEF TokensInOrder, Puts
  <2> QED BY <2>2, <2>3 DEF Awaited
<1>3. CASE TakeToken \/ TokensEnd \/ Leave \/ PartsEnd
  BY <1>3 DEF TakeToken, TokensEnd, Leave, PartsEnd
<1>4. CASE Tick
  <2>1. UNCHANGED msgs \/ Puts(buf, TRUE)
    BY <1>4 DEF Tick, SendMsg, Edit, Puts
  <2> QED BY <1>a, <1>b, <2>1
<1>5. CASE PutPart
  <2>1. PICK k \in SplitMessage(FinalText) : UNCHANGED msgs \/ Puts(SubSeq(FinalText, 1, k), FALSE)
    BY <1>5 DEF PutPart, Puts
  <2>2. k \in 1 .. Len(FinalText) /\ SubSeq(FinalText, 1, k) \in Text
    BY PartTyped
  <2>3. /\ Ascending(SubSeq(FinalText, 1, k))
        /\ UnitsOf(SubSeq(FinalText, 1, k)) \subseteq UnitsOf(buf)
    BY <1>d, <2>2, Cut
  <2> QED BY <1>c, <2>1, <2>2, <2>3
<1>6. CASE Remainder
  <2>1. UNCHANGED msgs \/ Puts(buf, FALSE)
    BY <1>6 DEF Remainder, SendMsg, Steps, Puts
  <2> QED BY <1>a, <1>b, <2>1
<1>7. CASE Respond
  <2>1. current # 0
    BY <1>7 DEF Respond, Steps
  <2>2. UNCHANGED msgs \/ Puts(FinalText, FALSE)
    BY <1>7, <2>1 DEF Respond, Edit, Puts
  <2> QED BY <1>a, <1>c, <1>d, <2>2
<1> QED BY <1>1, <1>2, <1>3, <1>4, <1>5, <1>6, <1>7 DEF Send

LEMMA MessagesStep ==
  ASSUME Typing, Steps, Cursors, sender # "ended" => TokensInOrder, MessagesInOrder, [Next]_vars
  PROVE  MessagesInOrder'
<1> USE DEF subprocess, reading, handling, sending
<1>1. CASE UNCHANGED msgs
  BY <1>1 DEF MessagesInOrder
<1>2. CASE Send
  <2>1. TokensInOrder
    BY <1>2, SendShape
  <2> QED BY <1>1, <1>2, <2>1, SendPuts, PutsInOrder
<1>3. CASE TellError
  <2>1. CASE adapter = "ask"
    <3>1. DOMAIN msgs' = {1} /\ msgs'[1].text = Note
      BY <1>3, <2>1 DEF TellError, Message
    <3> QED BY <3>1, NoUnits DEF MessagesInOrder
  <2> QED BY <1>1, <1>3, <2>1 DEF TellError
<1> QED BY <1>1, <1>2, <1>3 DEF Next, Subprocess, WriteText, WriteTooLong, UseTool,
      WriteResult, Exit, Kill, Execute, Scan, Offer, Wait, Report, Abandon, Drain, TakeEvent,
      EventsEnd, ContextDone, Forward, ToolSummary, Process, Deadline,
      CloseTokens, WaitSender, Signal, vars

\* The sender takes from the front, and what it has shown comes before what it has not.
LEMMA TokensPut ==
  ASSUME Typing, Steps, TokensInOrder, NEW t \in Text, NEW c \in BOOLEAN, Puts(t, c),
         UnitsOf(t) \subseteq UnitsOf(buf), UnitsOf(buf') \subseteq UnitsOf(buf), Ascending(buf'),
         current' = Len(msgs') \/ (current' = 0 /\ Precedes(t, buf')),
         UNCHANGED <<answer, tokens, handler, piece>>
  PROVE  TokensInOrder'
<1>1. /\ DOMAIN msgs' = (DOMAIN msgs \ {current}) \cup {Len(msgs')}
      /\ msgs'[Len(msgs')].text = t /\ Len(msgs') # 0
      /\ \A i \in DOMAIN msgs \ {current} : msgs'[i] = msgs[i] /\ i < Len(msgs')
      /\ Len(msgs') \notin DOMAIN msgs \ {current}
  BY PutsShape
<1>2. \A s : Precedes(buf, s) => Precedes(t, s) /\ Precedes(buf', s)
  BY DEF Precedes
<1>3. \A s : Precedes(s, buf) => Precedes(s, buf')
  BY DEF Precedes
<1>4. ASSUME NEW s, Awaited(s)
      PROVE  /\ Ascending(s) /\ UnitsOf(s) \subseteq UnitsOf(answer') /\ Precedes(buf', s)
             /\ \A i \in DOMAIN msgs' : Precedes(msgs'[i].text, s)
  BY <1>1, <1>2, <1>4 DEF Awaited
<1>5. \A k \in DOMAIN tokens' : Awaited(tokens[k])'
  BY <1>4 DEF TokensInOrder, Awaited
<1>6. handler' = "forward" => Awaited(piece)'
        /\ \A k \in DOMAIN tokens' : Precedes(tokens'[k], piece')
  BY <1>4 DEF TokensInOrder, Awaited
<1>7. \A i \in DOMAIN msgs' : (i # current' /\ ~msgs'[i].cursor) => Precedes(msgs'[i].text, buf')
  BY <1>1, <1>3 DEF TokensInOrder
<1>8. \A i \in DOMAIN msgs' : UnitsOf(msgs'[i].text) \subseteq UnitsOf(answer')
  BY <1>1 DEF TokensInOrder
<1> QED BY <1>5, <1>6, <1>7, <1>8 DEF TokensInOrder

\* What the sender has, in the buffer, the tokens and the messages, it still has.
LEMMA SentPut ==
  ASSUME Typing, Steps, NEW t \in Text, NEW c \in BOOLEAN, Puts(t, c),
         \/ current' = Len(msgs') /\ UNCHANGED <<buf, tokens>>
         \/ current' = 0 /\ UnitsOf(t) \cup UnitsOf(buf') = UnitsOf(buf) /\ UNCHANGED tokens
         \/ current' = 0 /\ UNCHANGED buf /\ UnitsOf(t) \cup Queued' = Queued
  PROVE  Sent' = Sent
<1>1. /\ DOMAIN msgs' = (DOMAIN msgs \ {current}) \cup {Len(msgs')}
      /\ msgs'[Len(msgs')].text = t /\ Len(msgs') # 0
      /\ \A i \in DOMAIN msgs \ {current} : msgs'[i] = msgs[i]
      /\ Len(msgs') \notin DOMAIN msgs \ {current}
  BY PutsShape
<1>2. CASE current' = Len(msgs')
  <2>1. DOMAIN msgs' \ {current'} = DOMAIN msgs \ {current}
    BY <1>1, <1>2
  <2>2. Settled' = Settled
    BY <1>1, <2>1 DEF Settled
  <2>3. UNCHANGED <<buf, tokens>>
    BY <1>1, <1>2
  <2> QED BY <2>2, <2>3 DEF Sent, Queued
<1>3. CASE current' = 0
  <2>1. DOMAIN msgs' \ {current'} = (DOMAIN msgs \ {current}) \cup {Len(msgs')}
    <3>1. 0 \notin DOMAIN msgs
      BY DEF Typing
    <3> QED BY <1>1, <1>3, <3>1
  <2>2. Settled' = Settled \cup UnitsOf(t)
    <3>1. ASSUME NEW u \in Settled' PROVE u \in Settled \cup UnitsOf(t)
      <4>1. PICK i \in DOMAIN msgs' \ {current'} : u \in UnitsOf(msgs'[i].text)
        BY <3>1 DEF Settled
      <4>2. i = Len(msgs') \/ (i \in DOMAIN msgs \ {current} /\ msgs'[i] = msgs[i])
        BY <1>1, <2>1, <4>1
      <4> QED BY <1>1, <4>1, <4>2 DEF Settled
    <3>2. ASSUME NEW u \in Settled PROVE u \in Settled'
      <4>1. PICK i \in DOMAIN msgs \ {current} : u \in UnitsOf(msgs[i].text)
        BY <3>2 DEF Settled
      <4>2. i \in DOMAIN msgs' \ {current'} /\ u \in UnitsOf(msgs'[i].text)
        BY <1>1, <2>1, <4>1
      <4> QED BY <4>2 DEF Settled
    <3>3. ASSUME NEW u \in UnitsOf(t) PROVE u \in Settled'
      <4>1. u \in UnitsOf(msgs'[Len(msgs')].text) /\ Len(msgs') \in DOMAIN msgs' \ {current'}
        BY <1>1, <2>1
      <4> QED BY <4>1 DEF Settled
    <3> QED BY <3>1, <3>2, <3>3
  <2>3. CASE UnitsOf(t) \cup UnitsOf(buf') = UnitsOf(buf) /\ UNCHANGED tokens
    <3>1. Queued' = Queued
      BY <2>3 DEF Queued
    <3> QED BY <2>2, <2>3, <3>1 DEF Sent
  <2>4. CASE UNCHANGED buf /\ UnitsOf(t) \cup Queued' = Queued
    BY <2>2, <2>4 DEF Sent
  <2> QED BY <1>1, <1>3, <2>3, <2>4
<1> QED BY <1>2, <1>3

\* The first token, and the others.
LEMMA TokensTail ==
  ASSUME tokens \in Seq(Text), tokens # <<>>, tokens' = Tail(tokens)
  PROVE  /\ Head(tokens) = tokens[1] /\ 1 \in DOMAIN tokens /\ Head(tokens) \in Text
         /\ \A k \in DOMAIN tokens' :
              tokens'[k] = tokens[k + 1] /\ k + 1 \in DOMAIN tokens /\ k \in Nat /\ 1 < k + 1
         /\ UnitsOf(Head(tokens)) \cup Queued' = Queued
<1>1. /\ Head(tokens) = tokens[1] /\ 1 \in DOMAIN tokens /\ Head(tokens) \in Text
      /\ \A k \in DOMAIN tokens' :
           tokens'[k] = tokens[k + 1] /\ k + 1 \in DOMAIN tokens /\ k \in Nat /\ 1 < k + 1
  BY TailAt
<1>2. \A k \in DOMAIN tokens : k # 1 => k - 1 \in DOMAIN tokens' /\ tokens'[k - 1] = tokens[k]
  <2>1. /\ DOMAIN tokens = 1 .. Len(tokens) /\ Len(tokens) \in Nat
        /\ DOMAIN tokens' = 1 .. Len(tokens) - 1
    OBVIOUS
  <2>2. \A k \in 1 .. Len(tokens) : k # 1 => k - 1 \in 1 .. Len(tokens) - 1 /\ (k - 1) + 1 = k
    BY <2>1
  <2> QED BY <1>1, <2>1, <2>2
<1>3. ASSUME NEW u \in Queued PROVE u \in UnitsOf(Head(tokens)) \cup Queued'
  BY <1>1, <1>2 DEF Queued
<1>4. ASSUME NEW u \in UnitsOf(Head(tokens)) \cup Queued' PROVE u \in Queued
  BY <1>1 DEF Queued
<1> QED BY <1>1, <1>3, <1>4

LEMMA TokensSend ==
  ASSUME Typing, Steps, Cursors, TokensInOrder, Send, sender' # "ended"
  PROVE  TokensInOrder' /\ (~failed' => Sent' = Sent /\ ~failed)
<1> USE DEF subprocess, reading, handling, sending
<1>a. buf \in Text /\ <<>> \in Text /\ Ascending(buf) /\ failed \in BOOLEAN
  BY DEF Typing, TypeOK, Text, TokensInOrder
<1>b. UNCHANGED <<answer, handler, piece>> /\ (~failed' => ~failed)
  <2>1. UNCHANGED <<answer, handler, piece>>
    BY SendShape
  <2>2. ~failed' => ~failed
    BY <1>a DEF Send, Placeholder, TakeToken, PrintToken, TokensEnd, Leave, Tick, PutPart, PartsEnd,
                Remainder, Respond, SendMsg, Edit
  <2> QED BY <2>1, <2>2
<1>c. ASSUME UNCHANGED <<msgs, current, buf, tokens>>
      PROVE  TokensInOrder' /\ Sent' = Sent
  BY <1>b, <1>c DEF TokensInOrder, Awaited, Sent, Queued, Settled
<1>1. CASE Placeholder
  <2>1. Puts(<<>>, TRUE) /\ current' = Len(msgs') /\ UNCHANGED <<buf, tokens>>
    BY <1>1 DEF Placeholder, Steps, Puts
  <2>2. TokensInOrder'
    BY <1>a, <1>b, <2>1, NoUnits, TokensPut
  <2>3. Sent' = Sent
    BY <1>a, <2>1, SentPut
  <2> QED BY <1>b, <2>2, <2>3
<1>2. CASE TakeToken
  <2>1. /\ tokens # <<>> /\ tokens' = Tail(tokens) /\ buf' = buf \o Head(tokens)
        /\ UNCHANGED <<msgs, current>> /\ tokens \in Seq(Text)
    BY <1>2 DEF TakeToken, Typing
  <2> DEFINE t == Head(tokens)
  <2>2. /\ t = tokens[1] /\ 1 \in DOMAIN tokens /\ t \in Text
        /\ \A k \in DOMAIN tokens' :
             tokens'[k] = tokens[k + 1] /\ k + 1 \in DOMAIN tokens /\ k \in Nat /\ 1 < k + 1
        /\ UnitsOf(t) \cup Queued' = Queued
    BY <2>1, TokensTail
  <2> HIDE DEF t
  <2>3. t \in Seq(Nat) /\ buf \in Seq(Nat)
    <3>1. 0 .. MaxText \subseteq Nat
      OBVIOUS
    <3> QED BY <1>a, <2>2, <3>1, SeqMonotonic DEF Text
  <2>4. Awaited(t) /\ \A k \in DOMAIN tokens' : Awaited(tokens'[k]) /\ Precedes(t, tokens'[k])
    BY <2>2 DEF TokensInOrder
  <2>5. buf' = buf \o t
    BY <2>1 DEF t
  <2>6. Ascending(buf') /\ UnitsOf(buf') = UnitsOf(buf) \cup UnitsOf(t)
    BY <1>a, <2>3, <2>4, <2>5, AscendingConcat, UnitsOfConcat DEF Awaited
  <2>7. \A k, l \in DOMAIN tokens' : k < l => Precedes(tokens'[k], tokens'[l])
    <3> SUFFICES ASSUME NEW k \in DOMAIN tokens', NEW l \in DOMAIN tokens', k < l
                 PROVE  Precedes(tokens'[k], tokens'[l])
      OBVIOUS
    <3>1. k + 1 < l + 1
      BY <2>2
    <3> QED BY <2>2, <3>1 DEF TokensInOrder
  <2>8. \A s : Precedes(buf, s) /\ Precedes(t, s) => Precedes(buf', s)
    BY <2>6 DEF Precedes
  <2>9. \A s : Precedes(s, buf) /\ Precedes(s, t) => Precedes(s, buf')
    BY <2>6 DEF Precedes
  <2>10. \A k \in DOMAIN tokens' : Awaited(tokens[k])'
    BY <1>b, <2>1, <2>4, <2>8 DEF Awaited
  <2>11. handler' = "forward" => Awaited(piece)'
           /\ \A k \in DOMAIN tokens' : Precedes(tokens'[k], piece')
    BY <1>b, <2>1, <2>2, <2>8 DEF TokensInOrder, Awaited
  <2>12. \A i \in DOMAIN msgs' : (i # current' /\ ~msgs'[i].cursor) => Precedes(msgs'[i].text, buf')
    BY <2>1, <2>4, <2>9 DEF TokensInOrder, Awaited
  <2>13. UnitsOf(buf') \subseteq UnitsOf(answer')
    BY <1>b, <2>4, <2>6 DEF TokensInOrder, Awaited
  <2>14. TokensInOrder'
    BY <1>b, <2>1, <2>6, <2>7, <2>10, <2>11, <2>12, <2>13 DEF TokensInOrder
  <2>15. Settled' = Settled
    BY <2>1 DEF Settled
  <2>16. Sent' = Sent
    BY <2>2, <2>6, <2>15 DEF Sent
  <2> QED BY <1>b, <2>14, <2>16
<1>3. CASE PrintToken
  <2>1. /\ tokens # <<>> /\ tokens' = Tail(tokens) /\ tokens \in Seq(Text)
        /\ Puts(Head(tokens), FALSE) /\ current' = 0 /\ current = 0 /\ UNCHANGED buf
        /\ UnitsOf(buf) = {}
    BY <1>3, NoUnits DEF PrintToken, Typing, Puts, Steps
  <2> DEFINE t == Head(tokens)
  <2>2. /\ t = tokens[1] /\ 1 \in DOMAIN tokens /\ t \in Text
        /\ \A k \in DOMAIN tokens' :
             tokens'[k] = tokens[k + 1] /\ k + 1 \in DOMAIN tokens /\ k \in Nat /\ 1 < k + 1
        /\ UnitsOf(t) \cup Queued' = Queued
    BY <2>1, TokensTail
  <2> HIDE DEF t
  <2>3. Awaited(t) /\ \A k \in DOMAIN tokens' : Awaited(tokens'[k]) /\ Precedes(t, tokens'[k])
    BY <2>2 DEF TokensInOrder
  <2>4. /\ DOMAIN msgs' = (DOMAIN msgs \ {current}) \cup {Len(msgs')}
        /\ msgs'[Len(msgs')].text = t
        /\ \A i \in DOMAIN msgs \ {current} : msgs'[i] = msgs[i]
    BY <2>1, <2>2, PutsShape DEF t
  <2>5. \A k, l \in DOMAIN tokens' : k < l => Precedes(tokens'[k], tokens'[l])
    <3> SUFFICES ASSUME NEW k \in DOMAIN tokens', NEW l \in DOMAIN tokens', k < l
                 PROVE  Precedes(tokens'[k], tokens'[l])
      OBVIOUS
    <3>1. k + 1 < l + 1
      BY <2>2
    <3> QED BY <2>2, <3>1 DEF TokensInOrder
  <2>6. \A s : Awaited(s) /\ Precedes(t, s) => \A i \in DOMAIN msgs' : Precedes(msgs'[i].text, s)
    BY <2>4 DEF Awaited
  <2>7. \A k \in DOMAIN tokens' : Awaited(tokens[k])'
    BY <1>b, <2>1, <2>3, <2>6 DEF Awaited
  <2>8. handler' = "forward" => Awaited(piece)'
          /\ \A k \in DOMAIN tokens' : Precedes(tokens'[k], piece')
    BY <1>b, <2>1, <2>2, <2>6 DEF TokensInOrder, Awaited
  <2>9. \A i \in DOMAIN msgs' : UnitsOf(msgs'[i].text) \subseteq UnitsOf(answer')
    BY <1>b, <2>3, <2>4 DEF TokensInOrder, Awaited
  <2>10. \A i \in DOMAIN msgs' : Precedes(msgs'[i].text, buf')
    BY <2>1, Unprecedented
  <2>11. TokensInOrder'
    BY <1>b, <2>1, <2>5, <2>7, <2>8, <2>9, <2>10 DEF TokensInOrder
  <2>12. Sent' = Sent
    BY <2>1, <2>2, SentPut DEF t
  <2> QED BY <1>b, <2>11, <2>12
<1>4. CASE TokensEnd \/ Leave \/ PartsEnd
  <2>1. UNCHANGED <<msgs, current, buf, tokens>>
    BY <1>4 DEF TokensEnd, Leave, PartsEnd
  <2> QED BY <1>b, <1>c, <2>1
<1>5. CASE Tick
  <2>1. /\ UNCHANGED <<buf, tokens>>
        /\ UNCHANGED <<msgs, current>> \/ (Puts(buf, TRUE) /\ current' = Len(msgs'))
    <3>1. CASE current = 0
      BY <1>5, <3>1 DEF Tick, SendMsg, Puts
    <3>2. CASE current # 0
      <4>1. UNCHANGED <<buf, tokens, current>> /\ (UNCHANGED msgs \/ Puts(buf, TRUE))
        BY <1>5, <3>2 DEF Tick, Edit, Puts
      <4> QED BY <1>a, <3>2, <4>1, PutsShape
    <3> QED BY <3>1, <3>2
  <2>2. CASE UNCHANGED <<msgs, current>>
    BY <1>b, <1>c, <2>1, <2>2
  <2>3. CASE Puts(buf, TRUE) /\ current' = Len(msgs')
    <3>1. TokensInOrder'
      BY <1>a, <1>b, <2>1, <2>3, TokensPut
    <3>2. Sent' = Sent
      BY <1>a, <2>1, <2>3, SentPut
    <3> QED BY <1>b, <3>1, <3>2
  <2> QED BY <2>1, <2>2, <2>3
<1>6. CASE PutPart
  <2>1. PICK k \in SplitMessage(FinalText) :
          /\ buf' = SubSeq(FinalText, k + 1, Len(FinalText))
          /\ Puts(SubSeq(FinalText, 1, k), FALSE) \/ (UNCHANGED msgs /\ failed')
    BY <1>6, <1>a DEF PutPart, Puts
  <2>2. /\ current' = 0 /\ UNCHANGED tokens /\ sender \in {"overflow", "final"}
    BY <1>6 DEF PutPart
  <2> DEFINE p == SubSeq(FinalText, 1, k)
             r == SubSeq(FinalText, k + 1, Len(FinalText))
  <2>3. k \in 1 .. Len(FinalText) /\ p \in Text
    BY PartTyped
  <2>4. FinalText \in Seq(Nat) /\ Ascending(FinalText) /\ UnitsOf(FinalText) = UnitsOf(buf)
    BY <1>a, FinalTextTells
  <2>5. Ascending(p) /\ Ascending(r) /\ Precedes(p, r) /\ UnitsOf(p) \cup UnitsOf(r) = UnitsOf(buf)
    BY <2>3, <2>4, Cut
  <2>6. buf' = r /\ (Puts(p, FALSE) \/ (UNCHANGED msgs /\ failed'))
    BY <2>1
  <2> HIDE DEF p, r
  <2>7. CASE Puts(p, FALSE)
    <3>1. TokensInOrder'
      BY <1>b, <2>2, <2>3, <2>5, <2>6, <2>7, TokensPut
    <3>2. Sent' = Sent
      BY <2>2, <2>3, <2>5, <2>6, <2>7, SentPut
    <3> QED BY <1>b, <3>1, <3>2
  <2>8. CASE UNCHANGED msgs /\ failed'
    <3>1. \A i \in DOMAIN msgs : i = current => msgs[i].cursor
      <4>1. 0 \notin DOMAIN msgs
        BY DEF Typing
      <4>2. current # 0 => msgs[current].cursor
        BY <2>2 DEF Cursors, Steps
      <4> QED BY <4>1, <4>2
    <3>2. \A s : Precedes(buf, s) => Precedes(buf', s)
      BY <2>5, <2>6 DEF Precedes
    <3>3. \A s : Precedes(s, buf) => Precedes(s, buf')
      BY <2>5, <2>6 DEF Precedes
    <3>4. \A k2 \in DOMAIN tokens : Awaited(tokens[k2])'
      BY <1>b, <2>2, <2>8, <3>2 DEF TokensInOrder, Awaited
    <3>5. handler' = "forward" => Awaited(piece)'
            /\ \A k2 \in DOMAIN tokens' : Precedes(tokens'[k2], piece')
      BY <1>b, <2>2, <2>8, <3>2 DEF TokensInOrder, Awaited
    <3>6. \A i \in DOMAIN msgs' : (i # current' /\ ~msgs'[i].cursor) =>
            Precedes(msgs'[i].text, buf')
      BY <2>8, <3>1, <3>3 DEF TokensInOrder
    <3> QED BY <1>b, <2>2, <2>5, <2>6, <2>8, <3>4, <3>5, <3>6 DEF TokensInOrder
  <2> QED BY <2>6, <2>7, <2>8
<1>7. CASE Remainder \/ Respond
  BY <1>7 DEF Remainder, Respond
<1> QED BY <1>1, <1>2, <1>3, <1>4, <1>5, <1>6, <1>7 DEF Send

-----------------------------------------------------------------------------
(* Nothing is lost *)

LEMMA LostInit == Init => NothingLost
<1> SUFFICES ASSUME Init PROVE NothingLost
  OBVIOUS
<1>1. answer = <<>>
  BY DEF Init
<1>2. UnitsOf(answer) = {}
  BY <1>1, NoUnits
<1> QED BY <1>2 DEF NothingLost

LEMMA LostDrain ==
  ASSUME Typing, LinesInOrder, Steps, TokensInOrder, NothingLost, sender # "ended", Drain
  PROVE  NothingLost'
<1> USE DEF subprocess, reading, handling, sending
<1> SUFFICES ASSUME ~failed'
             PROVE  /\ \A u \in Sent' : \A v \in UnitsOf(answer') \ Sent' : u < v
                    /\ result' # "failed" =>
                         UnitsOf(answer') \subseteq
                           Sent' \cup (IF handler' = "forward" THEN UnitsOf(piece') ELSE {})
  BY DEF NothingLost
<1>a. /\ UNCHANGED <<buf, msgs, current, failed>> /\ handler # "returned"
      /\ Settled' = Settled
  <2>1. UNCHANGED <<buf, msgs, current, failed>> /\ handler # "returned"
    BY DEF Drain, TakeEvent, EventsEnd, ContextDone, Forward, ToolSummary
  <2> QED BY <2>1 DEF Settled
<1>b. /\ \A u \in Sent : \A v \in UnitsOf(answer) \ Sent : u < v
      /\ UnitsOf(answer) \subseteq Sent \cup (IF handler = "forward" THEN UnitsOf(piece) ELSE {})
  BY <1>a DEF NothingLost, Steps
<1>c. Sent \subseteq UnitsOf(answer)
  BY DEF Sent, Queued, Settled, TokensInOrder, Awaited
<1>d. ASSUME UNCHANGED tokens PROVE Sent' = Sent
  BY <1>a, <1>d DEF Sent, Queued
<1>1. CASE TakeEvent
  <2> DEFINE t == Head(events).text
  <2>1. handler = "select" /\ UNCHANGED tokens /\ UnitsOf(answer) \subseteq Sent
    BY <1>1, <1>b DEF TakeEvent
  <2>2. CASE UNCHANGED answer
    BY <1>d, <2>1, <2>2
  <2>3. CASE answer' = answer \o t /\ piece' = t /\ handler' = "forward"
    <3>1. t = events[1].text /\ 1 \in DOMAIN events /\ events[1] \in Lines
      BY <1>1, TailAt DEF TakeEvent, Typing
    <3>2. t \in Seq(Nat) /\ answer \in Seq(Nat)
      <4>1. t \in Seq(1 .. MaxText) /\ 1 .. MaxText \subseteq Nat /\ answer \in Seq(1 .. MaxText)
        BY <3>1 DEF Lines, Typing
      <4> QED BY <4>1, SeqMonotonic
    <3> HIDE DEF t
    <3>3. UnitsOf(answer') = UnitsOf(answer) \cup UnitsOf(t)
      BY <2>3, <3>2, UnitsOfConcat
    <3>4. Precedes(answer, t)
      BY <3>1 DEF LinesInOrder, Coming
    <3> QED BY <1>c, <1>d, <2>1, <2>3, <3>3, <3>4 DEF Precedes
  <2> QED BY <1>1, <2>2, <2>3 DEF TakeEvent
<1>2. CASE EventsEnd
  BY <1>2, <1>b, <1>d DEF EventsEnd
<1>3. CASE ContextDone
  BY <1>3, <1>b, <1>d DEF ContextDone, Return
<1>4. ASSUME NEW t \in Text, tokens' = Append(tokens, t) PROVE Queued' = Queued \cup UnitsOf(t)
  <2>1. tokens \in Seq(Text)
    BY DEF Typing
  <2> DEFINE ns == Append(tokens, t)
  <2>2. /\ DOMAIN ns = DOMAIN tokens \cup {Len(ns)} /\ Len(ns) \notin DOMAIN tokens
        /\ \A i \in DOMAIN tokens : ns[i] = tokens[i] /\ i < Len(ns)
        /\ ns[Len(ns)] = t /\ Len(ns) # 0
    BY <2>1, MessageAdded
  <2>3. tokens' = ns
    BY <1>4
  <2> HIDE DEF ns
  <2>4. ASSUME NEW u \in Queued' PROVE u \in Queued \cup UnitsOf(t)
    BY <2>2, <2>3, <2>4 DEF Queued
  <2>5. ASSUME NEW u \in Queued PROVE u \in Queued'
    BY <2>2, <2>3, <2>5 DEF Queued
  <2>6. ASSUME NEW u \in UnitsOf(t) PROVE u \in Queued'
    <3>1. Len(ns) \in DOMAIN tokens' /\ tokens'[Len(ns)] = t
      BY <2>2, <2>3
    <3> QED BY <2>6, <3>1 DEF Queued
  <2> QED BY <2>4, <2>5, <2>6
<1>5. CASE Forward
  <2>1. piece \in Text
    BY DEF Typing, TypeOK
  <2>2. Queued' = Queued \cup UnitsOf(piece)
    BY <1>4, <1>5, <2>1 DEF Forward
  <2>3. Sent' = Sent \cup UnitsOf(piece) /\ UnitsOf(answer) \subseteq Sent'
    BY <1>5, <1>a, <1>b, <2>2 DEF Sent, Forward
  <2>4. UNCHANGED answer
    BY <1>5 DEF Forward
  <2> QED BY <2>3, <2>4
<1>6. CASE ToolSummary
  <2>1. Queued' = Queued
    <3>1. CASE UNCHANGED tokens
      BY <3>1 DEF Queued
    <3>2. CASE tokens' = Append(tokens, Note)
      BY <1>4, <3>2, NoteTyped, NoUnits
    <3> QED BY <1>6, <3>1, <3>2 DEF ToolSummary
  <2>2. Sent' = Sent /\ UnitsOf(answer) \subseteq Sent /\ UNCHANGED answer
    BY <1>6, <1>a, <1>b, <2>1 DEF Sent, ToolSummary
  <2> QED BY <2>2
<1> QED BY <1>1, <1>2, <1>3, <1>5, <1>6 DEF Drain

LEMMA LostStep ==
  ASSUME Typing, LinesInOrder, Steps, Cursors, sender # "ended" => TokensInOrder, NothingLost,
         [Next]_vars
  PROVE  NothingLost'
<1> USE DEF subprocess, reading, handling, sending
<1> SUFFICES ASSUME sender' # "ended" PROVE NothingLost'
  BY DEF NothingLost
<1>a. ASSUME UNCHANGED <<answer, piece, handler, result, tokens, sending>> PROVE NothingLost'
  BY <1>a DEF NothingLost, Sent, Queued, Settled
<1>1. CASE Subprocess \/ Execute \/ UNCHANGED vars
  BY <1>1, <1>a DEF Subprocess, WriteText, WriteTooLong, UseTool, WriteResult, Exit,
    Kill, Execute, Scan, Offer, Wait, Report, Abandon, vars
<1>2. CASE Drain
  <2>1. sender' = sender
    BY <1>2 DEF Drain, TakeEvent, EventsEnd, ContextDone, Forward, ToolSummary
  <2> QED BY <1>2, <2>1, LostDrain
<1>3. CASE Deadline \/ CloseTokens \/ WaitSender \/ Signal
  BY <1>3, <1>a DEF Deadline, CloseTokens, WaitSender, Signal
<1>4. CASE TellError
  <2>1. adapter # "ask"
    BY <1>4 DEF TellError, Steps
  <2> QED BY <1>4, <1>a, <2>1 DEF TellError
<1>5. CASE Send
  <2>1. TokensInOrder /\ sender # "ended" /\ UNCHANGED <<answer, piece, handler, result>>
    BY <1>5, SendShape
  <2>2. ~failed' => Sent' = Sent /\ ~failed
    BY <1>5, <2>1, TokensSend
  <2> QED BY <2>1, <2>2 DEF NothingLost
<1> QED BY <1>1, <1>2, <1>3, <1>4, <1>5 DEF Next, Process

LEMMA TokensStep ==
  ASSUME Typing, LinesInOrder, Steps, Cursors, sender # "ended" => TokensInOrder, [Next]_vars
  PROVE  (sender # "ended" => TokensInOrder)'
<1> USE DEF subprocess, reading, handling, sending
<1> SUFFICES ASSUME sender' # "ended" PROVE TokensInOrder'
  OBVIOUS
<1>a. ASSUME UNCHANGED <<answer, piece, handler, tokens, sending>> PROVE TokensInOrder'
  BY <1>a DEF TokensInOrder, Awaited
<1>1. CASE Subprocess \/ Execute \/ UNCHANGED vars
  BY <1>1, <1>a DEF Subprocess, WriteText, WriteTooLong, UseTool, WriteResult, Exit,
    Kill, Execute, Scan, Offer, Wait, Report, Abandon, vars
<1>2. CASE Drain
  <2>1. sender' = sender
    BY <1>2 DEF Drain, TakeEvent, EventsEnd, ContextDone, Forward, ToolSummary
  <2> QED BY <1>2, <2>1, TokensDrain
<1>3. CASE Deadline \/ CloseTokens \/ WaitSender \/ Signal
  BY <1>3, <1>a DEF Deadline, CloseTokens, WaitSender, Signal
<1>4. CASE TellError
  <2>1. adapter # "ask"
    BY <1>4 DEF TellError, Steps
  <2> QED BY <1>4, <1>a, <2>1 DEF TellError
<1>5. CASE Send
  <2>1. TokensInOrder
    BY <1>5, SendShape
  <2> QED BY <1>5, <2>1, TokensSend
<1> QED BY <1>1, <1>2, <1>3, <1>4, <1>5 DEF Next, Process

\* A sender that comes to its end without a failed call has put all it was sent.
LEMMA EndShowsSent ==
  ASSUME Typing, Steps, Cursors, Send, sender' = "ended", ~failed'
  PROVE  Shown' = Sent /\ \A i \in DOMAIN msgs' : ~msgs'[i].cursor
<1> USE DEF subprocess, reading, handling, sending
<1>a. buf \in Text /\ FinalText \in Text /\ failed \in BOOLEAN /\ 0 \notin DOMAIN msgs
  BY NoteTyped DEF Typing, TypeOK, FinalText
<1>b. ~failed /\ sender # "ended"
  BY <1>a, SendShape DEF Send, Placeholder, TakeToken, PrintToken, TokensEnd, Leave, Tick, PutPart,
                         PartsEnd, Remainder, Respond, SendMsg, Edit
<1>c. \A i \in DOMAIN msgs \ {current} : ~msgs[i].cursor
  BY <1>b DEF Cursors
<1>d. tokens = <<>> => Queued = {}
  BY DEF Queued
\* The buffer is empty: what there is to show is in the messages.
<1>1. CASE current = 0 /\ buf = <<>> /\ tokens = <<>> /\ UNCHANGED msgs
  <2>1. DOMAIN msgs \ {current} = DOMAIN msgs
    BY <1>a, <1>1
  <2>2. Settled = Shown
    BY <2>1 DEF Settled, Shown
  <2>3. Sent = Shown /\ Shown' = Shown
    BY <1>1, <1>d, <2>2, NoUnits DEF Sent, Shown
  <2> QED BY <1>1, <1>c, <2>1, <2>3
\* The buffer is put into one message more.
<1>2. ASSUME NEW t \in Text, Puts(t, FALSE), UnitsOf(t) = UnitsOf(buf), tokens = <<>>
      PROVE  Shown' = Sent /\ \A i \in DOMAIN msgs' : ~msgs'[i].cursor
  <2>1. /\ DOMAIN msgs' = (DOMAIN msgs \ {current}) \cup {Len(msgs')}
        /\ msgs'[Len(msgs')].text = t /\ msgs'[Len(msgs')].cursor = FALSE
        /\ \A i \in DOMAIN msgs \ {current} : msgs'[i] = msgs[i]
    BY <1>2, PutsShape
  <2>2. Sent = UnitsOf(t) \cup Settled
    BY <1>2, <1>d DEF Sent
  <2>3. ASSUME NEW u \in Shown' PROVE u \in UnitsOf(t) \cup Settled
    <3>1. PICK i \in DOMAIN msgs' : u \in UnitsOf(msgs'[i].text)
      BY <2>3 DEF Shown
    <3> QED BY <2>1, <3>1 DEF Settled
  <2>4. ASSUME NEW u \in Settled PROVE u \in Shown'
    <3>1. PICK i \in DOMAIN msgs \ {current} : u \in UnitsOf(msgs[i].text)
      BY <2>4 DEF Settled
    <3>2. i \in DOMAIN msgs' /\ u \in UnitsOf(msgs'[i].text)
      BY <2>1, <3>1
    <3> QED BY <3>2 DEF Shown
  <2>5. ASSUME NEW u \in UnitsOf(t) PROVE u \in Shown'
    <3>1. Len(msgs') \in DOMAIN msgs' /\ u \in UnitsOf(msgs'[Len(msgs')].text)
      BY <2>1, <2>5
    <3> QED BY <3>1 DEF Shown
  <2>6. Shown' = Sent
    BY <2>2, <2>3, <2>4, <2>5
  <2> QED BY <1>c, <2>1, <2>6
<1>3. CASE Placeholder \/ Leave
  BY <1>3 DEF Placeholder, Leave
<1>4. CASE TakeToken \/ PrintToken \/ Tick \/ PutPart
  BY <1>4, <1>b DEF TakeToken, PrintToken, Tick, PutPart
<1>5. CASE TokensEnd
  <2>1. adapter = "cli" /\ tokens = <<>> /\ UNCHANGED msgs
    BY <1>5 DEF TokensEnd
  <2> QED BY <1>1, <2>1 DEF Steps
<1>6. CASE PartsEnd
  <2>1. sender = "final" /\ current = 0 /\ buf = <<>> /\ UNCHANGED msgs
    BY <1>6 DEF PartsEnd
  <2> QED BY <1>1, <2>1 DEF Steps
<1>7. CASE Remainder
  <2>1. sender = "remainder" /\ current = 0 /\ tokens = <<>>
    BY <1>7 DEF Remainder, Steps
  <2>2. CASE buf = <<>> /\ UNCHANGED msgs
    BY <1>1, <2>1, <2>2
  <2>3. CASE SendMsg(FALSE)
    <3>1. Puts(buf, FALSE)
      BY <1>a, <2>1, <2>3 DEF SendMsg, Puts
    <3> QED BY <1>2, <1>a, <2>1, <3>1
  <2> QED BY <1>7, <2>2, <2>3 DEF Remainder
<1>8. CASE Respond
  <2>1. sender = "respond" /\ tokens = <<>> /\ current # 0
    BY <1>8 DEF Respond, Steps
  <2>2. Puts(FinalText, FALSE)
    BY <1>8, <2>1 DEF Respond, Edit, Puts
  <2>3. UnitsOf(FinalText) = UnitsOf(buf)
    <3>1. CASE buf = <<>>
      BY <3>1, NoUnits DEF FinalText
    <3>2. CASE buf # <<>>
      BY <3>2 DEF FinalText
    <3> QED BY <3>1, <3>2
  <2> QED BY <1>2, <1>a, <2>1, <2>2, <2>3
<1> QED BY <1>3, <1>4, <1>5, <1>6, <1>7, <1>8 DEF Send

LEMMA ShownStep ==
  ASSUME Typing, Steps, Cursors, sender # "ended" => TokensInOrder, NothingLost, ShownIsRecorded,
         [Next]_vars
  PROVE  ShownIsRecorded'
<1> USE DEF subprocess, reading, handling, sending
<1> SUFFICES ASSUME sender' = "ended", ~failed' PROVE ShownIsRecorded'
  BY DEF ShownIsRecorded
<1>a. ASSUME UNCHANGED <<answer, result, sending>> PROVE ShownIsRecorded'
  BY <1>a DEF ShownIsRecorded, Shown
<1>1. CASE Subprocess \/ Execute \/ UNCHANGED vars
  BY <1>1, <1>a DEF Subprocess, WriteText, WriteTooLong, UseTool, WriteResult, Exit,
    Kill, Execute, Scan, Offer, Wait, Report, Abandon, vars
<1>2. CASE Drain
  <2>1. handler # "returned" /\ UNCHANGED <<sender, failed>>
    BY <1>2 DEF Drain, TakeEvent, EventsEnd, ContextDone, Forward, ToolSummary
  <2> QED BY <2>1 DEF Steps
<1>3. CASE Deadline \/ CloseTokens \/ WaitSender \/ Signal
  BY <1>3, <1>a DEF Deadline, CloseTokens, WaitSender, Signal
<1>4. CASE TellError
  <2>1. CASE adapter = "ask"
    <3>1. DOMAIN msgs' = {1} /\ UnitsOf(msgs'[1].text) = {} /\ msgs'[1].cursor = FALSE
      BY <1>4, <2>1, NoUnits DEF TellError, Message
    <3>2. Shown' = {}
      BY <3>1 DEF Shown
    <3>3. result' = "failed"
      BY <1>4 DEF TellError, Steps
    <3> QED BY <3>1, <3>2, <3>3 DEF ShownIsRecorded
  <2> QED BY <1>4, <1>a, <2>1 DEF TellError
<1>5. CASE Send
  <2>1. /\ TokensInOrder /\ sender # "ended" /\ UNCHANGED <<answer, handler, result>>
        /\ main # "handle"
    BY <1>5, SendShape
  <2>2. Shown' = Sent /\ \A i \in DOMAIN msgs' : ~msgs'[i].cursor
    BY <1>5, EndShowsSent
  <2>3. Sent \subseteq UnitsOf(answer)
    BY <2>1 DEF Sent, Queued, Settled, TokensInOrder, Awaited
  <2>4. ~failed
    BY <1>5 DEF Send, Placeholder, TakeToken, PrintToken, TokensEnd, Leave, Tick, PutPart,
                PartsEnd, Remainder, Respond, SendMsg, Edit, Typing, TypeOK
  <2>5. /\ \A u \in Sent : \A v \in UnitsOf(answer) \ Sent : u < v
        /\ result # "failed" => UnitsOf(answer) \subseteq Sent
    BY <2>1, <2>4 DEF NothingLost, Steps
  <2>6. \A u \in Sent : \A v \in UnitsOf(answer) : v < u => v \in Sent
    <3>1. answer \in Seq(1 .. MaxText)
      BY DEF Typing
    <3>2. \A a \in DOMAIN answer : answer[a] \in 1 .. MaxText
      BY <3>1, Elements
    <3>3. UnitsOf(answer) \subseteq Nat
      BY <3>2 DEF UnitsOf
    <3>4. ASSUME NEW u \in Sent, NEW v \in UnitsOf(answer), v < u, v \notin Sent PROVE FALSE
      <4>1. u < v
        BY <2>5, <3>4
      <4>2. u \in Nat /\ v \in Nat
        BY <2>3, <3>3
      <4> QED BY <3>4, <4>1, <4>2
    <3> QED BY <3>4
  <2> QED BY <2>1, <2>2, <2>3, <2>5, <2>6 DEF ShownIsRecorded
<1> QED BY <1>1, <1>2, <1>3, <1>4, <1>5 DEF Next, Process

LEMMA StreamInvariant == Spec => []StreamInv
<1>1. Init => StreamInv
  <2> SUFFICES ASSUME Init PROVE StreamInv
    OBVIOUS
  <2>1. ShownIsRecorded
    BY DEF Init, ShownIsRecorded
  <2> QED BY <2>1, TypingInit, LinesInit, StepsInit, CursorsInit, TokensInit, LostInit DEF StreamInv
<1>2. StreamInv /\ [Next]_vars => StreamInv'
  <2> SUFFICES ASSUME StreamInv, [Next]_vars PROVE StreamInv'
    OBVIOUS
  <2>1. /\ Typing /\ LinesInOrder /\ Steps /\ Cursors
        /\ sender # "ended" => TokensInOrder
        /\ MessagesInOrder /\ NothingLost /\ ShownIsRecorded
    BY DEF StreamInv
  <2>2. Typing' /\ LinesInOrder' /\ Steps' /\ Cursors'
    BY <2>1, TypingStep, LinesStep, StepsStep, CursorsStep
  <2>3. (sender # "ended" => TokensInOrder)' /\ MessagesInOrder'
    BY <2>1, TokensStep, MessagesStep
  <2>4. NothingLost' /\ ShownIsRecorded'
    BY <2>1, LostStep, ShownStep
  <2> QED BY <2>2, <2>3, <2>4 DEF StreamInv
<1> QED BY <1>1, <1>2, PTL DEF Spec

\* Every variable keeps its type, the channels their bounds, and no message of a chat
\* service is longer than it may be (SplitMessage, and the checks of the services).
THEOREM StreamTypeCorrect == Spec => []TypeOK
<1>1. StreamInv => TypeOK
  BY DEF StreamInv, Typing
<1> QED BY <1>1, StreamInvariant, PTL

\* Whatever calls fail, what is recorded and what the user reads are in the order of the
\* answer and nothing is in them twice, but after a message whose last edit failed
\* (sendStreaming, editFinal, drainCLIEvents).
THEOREM UserReadsInOrder == Spec => []ReadsInOrder
<1>1. StreamInv => ReadsInOrder
  <2> SUFFICES ASSUME StreamInv PROVE ReadsInOrder
    OBVIOUS
  <2>1. answer \in Seq(1 .. MaxText) /\ Ascending(answer) /\ MessagesInOrder
    BY DEF StreamInv, Typing, LinesInOrder
  <2>2. \A i, j \in DOMAIN answer : i < j => answer[i] < answer[j]
    <3>1. \A i \in DOMAIN answer : answer[i] # 0
      <4>1. answer \in Seq(1 .. MaxText)
        BY <2>1
      <4>2. \A i \in DOMAIN answer : answer[i] \in 1 .. MaxText
        BY <4>1, Elements
      <4> QED BY <4>2
    <3> QED BY <2>1, <3>1 DEF Ascending
  <2>3. ASSUME NEW i \in DOMAIN msgs, NEW j \in DOMAIN msgs,
               NEW a \in DOMAIN msgs[i].text, NEW b \in DOMAIN msgs[j].text,
               msgs[i].text[a] # 0, msgs[j].text[b] # 0,
               (i < j /\ ~msgs[i].cursor) \/ (i = j /\ a < b)
        PROVE  msgs[i].text[a] < msgs[j].text[b]
    <3>1. CASE i < j /\ ~msgs[i].cursor
      <4>1. msgs[i].text[a] \in UnitsOf(msgs[i].text) /\ msgs[j].text[b] \in UnitsOf(msgs[j].text)
        BY <2>3 DEF UnitsOf
      <4> QED BY <2>1, <3>1, <4>1 DEF MessagesInOrder, Precedes
    <3>2. CASE i = j /\ a < b
      BY <2>1, <2>3, <3>2 DEF MessagesInOrder, Ascending
    <3> QED BY <2>3, <3>1, <3>2
  <2> QED BY <2>2, <2>3 DEF ReadsInOrder
<1> QED BY <1>1, StreamInvariant, PTL

\* When no call failed, the user has read what the session records at the end, or a
\* beginning of it when there is only an error to record (sendStreaming, Remainder).
THEOREM UserReadsWhatIsRecorded == Spec => []ShownIsRecorded
<1>1. StreamInv => ShownIsRecorded
  BY DEF StreamInv
<1> QED BY <1>1, StreamInvariant, PTL

-----------------------------------------------------------------------------
(* What is recorded in time is whole *)

LEMMA EndInit == Init => EndTold
BY DEF Init, EndTold

LEMMA EndSubprocess ==
  ASSUME Typing, EndTold, Subprocess
  PROVE  EndTold'
<1> USE DEF reading, handling, sending
<1>a. UNCHANGED <<reading, handling, ctx>> /\ ~Ended
  <2>1. UNCHANGED <<reading, handling, ctx>>
    BY DEF Subprocess, WriteText, WriteTooLong, UseTool, WriteResult, Exit, Kill
  <2>2. proc \in {"running", "lingering"}
    BY DEF Subprocess, WriteText, WriteTooLong, UseTool, WriteResult, Exit, Kill
  <2> QED BY <2>1, <2>2 DEF Ended
<1>b. (complete => complete') /\ (complete' => proc' # "running")
  <2>1. CASE \E type \in {"done", "error"} : WriteResult(type)
    BY <2>1 DEF WriteResult, EndTold
  <2>2. CASE UNCHANGED complete /\ proc' \in {proc, "exited", "broke"}
    BY <2>2 DEF EndTold
  <2> QED BY <2>1, <2>2 DEF Subprocess, WriteText, WriteTooLong, UseTool, Exit, Kill
<1>c. \A k \in DOMAIN stdout' : stdout'[k].type = "done" => complete'
  <2>1. CASE UNCHANGED stdout
    BY <1>b, <2>1 DEF EndTold
  <2>2. ASSUME NEW type, NEW t, Write(type, t), type # "done" \/ complete'
        PROVE  \A k \in DOMAIN stdout' : stdout'[k].type = "done" => complete'
    BY <2>2 DEF Write, Event
  <2>3. ASSUME NEW n, WriteText(n) PROVE \E t : Write("text", t)
    BY <2>3 DEF WriteText
  <2>4. ASSUME NEW type \in {"done", "error"}, WriteResult(type)
        PROVE  Write(type, <<>>) /\ (type # "done" \/ complete')
    BY <2>4 DEF WriteResult
  <2>5. CASE WriteTooLong \/ UseTool
    BY <2>2, <2>5 DEF WriteTooLong, UseTool
  <2>6. CASE (\E code \in {0, 1} : Exit(code)) \/ Kill
    BY <2>1, <2>6 DEF Exit, Kill
  <2> QED BY <2>2, <2>3, <2>4, <2>5, <2>6 DEF Subprocess
<1>d. ErrorAhead => ErrorAhead'
  BY <1>a DEF ErrorAhead
<1>e. proc # "exited"
  BY <1>a DEF Ended
<1> QED BY <1>a, <1>b, <1>c, <1>d, <1>e DEF EndTold

\* An event joins the others.
LEMMA ErrorJoins ==
  ASSUME Typing, NEW e \in Lines, events' = Append(events, e)
  PROVE  /\ \A i \in DOMAIN events :
              events[i].type = "error" => \E j \in DOMAIN events' : events'[j].type = "error"
         /\ e.type = "error" => \E j \in DOMAIN events' : events'[j].type = "error"
<1>1. events \in Seq(Lines)
  BY DEF Typing
<1> DEFINE es == Append(events, e)
<1>2. /\ DOMAIN es = DOMAIN events \cup {Len(es)}
      /\ \A i \in DOMAIN events : es[i] = events[i]
      /\ es[Len(es)] = e
  BY <1>1, MessageAdded
<1>3. events' = es
  OBVIOUS
<1> HIDE DEF es
<1>4. ASSUME NEW i \in DOMAIN events, events[i].type = "error"
      PROVE  \E j \in DOMAIN events' : events'[j].type = "error"
  BY <1>2, <1>3, <1>4
<1>5. ASSUME e.type = "error" PROVE \E j \in DOMAIN events' : events'[j].type = "error"
  BY <1>2, <1>3, <1>5
<1> QED BY <1>4, <1>5

LEMMA EndExecute ==
  ASSUME Typing, EndTold, Execute
  PROVE  EndTold'
<1> USE DEF subprocess, handling, sending
<1>a. UNCHANGED <<handler, result, proc, complete, ctx>>
  BY DEF Execute, Scan, Offer, Wait, Report, Abandon
<1>b. \A k \in DOMAIN stdout' : stdout'[k].type = "done" => complete'
  <2>1. CASE Scan
    <3>1. stdout \in Seq(Lines) /\ stdout # <<>> /\ stdout' = Tail(stdout)
      BY <2>1 DEF Scan, Typing
    <3>2. \A k \in DOMAIN stdout' : k + 1 \in DOMAIN stdout /\ stdout'[k] = stdout[k + 1]
      BY <3>1, TailAt
    <3> QED BY <1>a, <3>2 DEF EndTold
  <2>2. CASE UNCHANGED stdout
    BY <1>a, <2>2 DEF EndTold
  <2> QED BY <2>1, <2>2 DEF Execute, Offer, Wait, Report, Abandon
<1>e. (handler = "summary" \/ result = "ok") => executor' = "closed" /\ events' = <<>>
  BY DEF Execute, Scan, Offer, Wait, Report, Abandon, EndTold
<1>c. executor' # "offer" => line' = NoEvent
  BY DEF Execute, Scan, Offer, Wait, Report, Abandon, EndTold
<1>d. ASSUME ctx = "live"
      PROVE  /\ executor' # "abandon"
             /\ resultSeen' => complete \/ ErrorAhead'
             /\ executor' = "closed" => complete \/ proc = "exited" \/ ErrorAhead'
  <2>a. resultSeen => complete \/ ErrorAhead
    BY <1>d DEF EndTold
  <2>1. CASE Scan
    <3>1. /\ executor = "scan" /\ executor' \in {"offer", "wait"} /\ UNCHANGED events
          /\ stdout # <<>> /\ line = NoEvent
      BY <2>1 DEF Scan, EndTold
    <3>2. ErrorAhead => ErrorAhead'
      BY <1>a, <3>1 DEF ErrorAhead, NoEvent, Event
    <3>3. CASE /\ line' = Head(stdout)
               /\ resultSeen' = (resultSeen \/ line'.type \in {"done", "error"})
      <4>1. line'.type = "done" => complete
        <5>1. stdout \in Seq(Lines)
          BY DEF Typing
        <5>2. Head(stdout) = stdout[1] /\ 1 \in DOMAIN stdout
          BY <3>1, <5>1
        <5> QED BY <3>3, <5>2 DEF EndTold
      <4>2. line'.type = "error" => ErrorAhead'
        BY DEF ErrorAhead
      <4> QED BY <2>a, <3>1, <3>2, <3>3, <4>1, <4>2
    <3>4. CASE UNCHANGED resultSeen
      BY <2>a, <3>1, <3>2, <3>4
    <3> QED BY <2>1, <3>3, <3>4 DEF Scan
  <2>2. CASE Offer
    <3>1. events' = Append(events, line) /\ executor' = "scan" /\ UNCHANGED resultSeen
      BY <1>d, <2>2 DEF Offer
    <3>2. line \in Lines
      BY DEF Typing
    <3>3. ErrorAhead => ErrorAhead'
      BY <1>a, <3>1, <3>2, ErrorJoins DEF ErrorAhead
    <3> QED BY <2>a, <3>1, <3>3
  <2>3. CASE Wait
    <3>1. ErrorAhead => ErrorAhead'
      BY <2>3 DEF Wait, ErrorAhead
    <3>2. /\ executor' \in {"report", "closed"} /\ UNCHANGED resultSeen
          /\ executor' = "closed" => proc = "exited" \/ resultSeen
      BY <2>3 DEF Wait, Waited, Ended
    <3> QED BY <2>a, <3>1, <3>2
  <2>4. CASE Report
    <3>1. events' = Append(events, Event("error", <<>>)) /\ executor' = "closed"
      BY <1>d, <2>4 DEF Report
    <3>2. Event("error", <<>>) \in Lines /\ Event("error", <<>>).type = "error"
      BY DEF Event, Lines
    <3>3. ErrorAhead'
      BY <3>1, <3>2, ErrorJoins DEF ErrorAhead
    <3> QED BY <3>1, <3>3
  <2>5. CASE Abandon
    BY <1>d, <2>5 DEF Abandon, EndTold
  <2> QED BY <2>1, <2>2, <2>3, <2>4, <2>5 DEF Execute
<1> QED BY <1>a, <1>b, <1>c, <1>d, <1>e DEF EndTold

LEMMA EndDrain ==
  ASSUME Typing, EndTold, Drain
  PROVE  EndTold'
<1> USE DEF subprocess, sending
<1>a. UNCHANGED <<proc, stdout, complete, ctx, executor, line, resultSeen>>
  BY DEF Drain, TakeEvent, EventsEnd, ContextDone, Forward, ToolSummary, reading
<1>b. handler' # "returned" => result' = "none"
  BY DEF Drain, TakeEvent, EventsEnd, ContextDone, Forward, ToolSummary, Return, handling, EndTold
<1>d. (handler' = "summary" \/ result' = "ok") => executor' = "closed" /\ events' = <<>>
  BY DEF Drain, TakeEvent, EventsEnd, ContextDone, Forward, ToolSummary, Return, handling, reading,
         EndTold
\* The errors that were ahead still are; the handler goes on to its end only if there were
\* none, and then the CLI has had its say.
<1>c. ASSUME ctx = "live"
      PROVE  /\ ErrorAhead => ErrorAhead'
             /\ (handler' = "summary" \/ result' = "ok") => complete \/ proc = "exited"
  <2>a. /\ executor = "closed" => complete \/ proc = "exited" \/ ErrorAhead
        /\ (handler = "summary" \/ result = "ok") => complete \/ proc = "exited"
        /\ handler # "returned" => result = "none"
        /\ executor # "offer" => line = NoEvent
    BY <1>c DEF EndTold
  <2>1. CASE TakeEvent
    <3>1. /\ events # <<>> /\ events' = Tail(events) /\ handler = "select"
          /\ handler' # "summary" /\ result' \in {result, "failed"}
          /\ Head(events).type = "error" => result' = "failed"
      BY <2>1 DEF TakeEvent, Return, handling
    <3>2. /\ Head(events) = events[1]
          /\ \A i \in DOMAIN events : i # 1 => i - 1 \in DOMAIN events'
                /\ events'[i - 1] = events[i]
      <4>1. events \in Seq(Lines)
        BY DEF Typing
      <4> QED BY <3>1, <4>1
    <3>3. ErrorAhead => ErrorAhead'
      <4>1. CASE line.type = "error" \/ result = "failed"
        BY <1>a, <3>1, <4>1 DEF ErrorAhead
      <4>2. ASSUME NEW i \in DOMAIN events, events[i].type = "error" PROVE ErrorAhead'
        <5>1. CASE i = 1
          BY <3>1, <3>2, <4>2, <5>1 DEF ErrorAhead
        <5>2. CASE i # 1
          BY <3>2, <4>2, <5>2 DEF ErrorAhead
        <5> QED BY <5>1, <5>2
      <4> QED BY <4>1, <4>2 DEF ErrorAhead
    <3> QED BY <2>a, <3>1, <3>3
  <2>2. CASE EventsEnd
    <3>1. /\ events = <<>> /\ executor = "closed" /\ handler = "select"
          /\ UNCHANGED <<events, result>>
      BY <2>2 DEF EventsEnd, reading
    <3>2. ~ErrorAhead
      <4>1. DOMAIN events = {} /\ line = NoEvent /\ result = "none"
        BY <2>a, <3>1
      <4> QED BY <4>1 DEF ErrorAhead, NoEvent, Event
    <3> QED BY <2>a, <3>1, <3>2
  <2>3. CASE ContextDone
    BY <1>c, <2>3 DEF ContextDone
  <2>4. CASE Forward
    <3>1. UNCHANGED <<events, result>> /\ handler' = "select"
      BY <2>4 DEF Forward, reading
    <3>2. ErrorAhead => ErrorAhead'
      BY <1>a, <3>1 DEF ErrorAhead
    <3> QED BY <2>a, <3>1, <3>2
  <2>5. CASE ToolSummary
    <3>1. handler = "summary" /\ handler' = "returned" /\ events = <<>>
      BY <2>5 DEF ToolSummary, Return, EndTold
    <3>2. ~ErrorAhead
      <4>1. DOMAIN events = {} /\ line = NoEvent /\ result = "none"
        BY <2>5, <2>a, <3>1 DEF EndTold, ToolSummary
      <4> QED BY <4>1 DEF ErrorAhead, NoEvent, Event
    <3> QED BY <2>a, <3>1, <3>2
  <2> QED BY <2>1, <2>2, <2>3, <2>4, <2>5 DEF Drain
<1> QED BY <1>a, <1>b, <1>c, <1>d DEF EndTold

LEMMA EndStep ==
  ASSUME Typing, EndTold, [Next]_vars
  PROVE  EndTold'
<1> USE DEF subprocess, reading, handling, sending
<1>1. ASSUME UNCHANGED <<subprocess, reading, handling>>, ctx' \in {ctx, "done"} PROVE EndTold'
  BY <1>1 DEF EndTold, ErrorAhead
<1>2. CASE Process \/ TellError \/ Signal \/ UNCHANGED vars
  BY <1>1, <1>2 DEF Process, Deadline, CloseTokens, WaitSender, TellError, Signal, vars
<1>3. CASE Send
  BY <1>1, <1>3, SendShape DEF Send, Placeholder, TakeToken, PrintToken, TokensEnd, Leave, Tick,
                               PutPart, PartsEnd, Remainder, Respond
<1> QED BY <1>2, <1>3, EndSubprocess, EndExecute, EndDrain DEF Next

LEMMA ReadInit == Init => AllRead
<1> SUFFICES ASSUME Init PROVE AllRead
  OBVIOUS
<1>1. answer = <<>> /\ events = <<>> /\ stdout = <<>> /\ line = NoEvent /\ said = 0
  BY DEF Init
<1>2. Received = {} /\ Pending = {} /\ 1 .. said = {}
  BY <1>1, NoUnits, NoLine DEF Received, Pending
<1> QED BY <1>1, <1>2, NoLine DEF Init, AllRead, Gapless

\* A sequence of the first numbers has no gap.
LEMMA GaplessTo == \A n \in Nat : Gapless(1 .. n)
BY DEF Gapless

LEMMA ReadSubprocess ==
  ASSUME Typing, AllRead, Subprocess
  PROVE  AllRead'
<1> USE DEF reading, handling
<1>0. said \in Nat /\ overlong \in BOOLEAN
  BY StreamAssumption DEF Typing, TypeOK
<1>a. UNCHANGED <<reading, handling, ctx>> /\ ~Ended
  <2>1. UNCHANGED <<reading, handling, ctx>>
    BY DEF Subprocess, WriteText, WriteTooLong, UseTool, WriteResult, Exit, Kill
  <2>2. proc \in {"running", "lingering"}
    BY DEF Subprocess, WriteText, WriteTooLong, UseTool, WriteResult, Exit, Kill
  <2> QED BY <2>1, <2>2 DEF Ended
<1>b. Received' = Received /\ executor \notin {"report", "closed"}
  BY <1>a DEF Received, AllRead
<1>c. overlong => overlong'
  BY DEF Subprocess, WriteText, WriteTooLong, UseTool, WriteResult, Exit, Kill
\* What is to be shown of each step.
<1> DEFINE Lined == \A k \in DOMAIN stdout' :
                      /\ stdout'[k].type # "text" => stdout'[k].text = <<>>
                      /\ stdout'[k].type = "too_long" => overlong'
           Taken == executor \in {"scan", "offer"} =>
                      /\ Gapless(Received \cup Pending')
                      /\ ~overlong' => Received \cup Pending' = 1 .. said'
<1>d. ASSUME Lined, Taken PROVE AllRead'
  BY <1>a, <1>b, <1>c, <1>d DEF AllRead
<1>1. ASSUME NEW n \in ChunkSizes, WriteText(n) PROVE AllRead'
  <2> DEFINE t == [i \in 1 .. n |-> said + i]
  <2>1. n \in Nat /\ DOMAIN t = 1 .. n /\ \A i \in 1 .. n : t[i] = said + i
    BY <1>0, StreamAssumption
  <2>2. stdout = <<>> /\ ~overlong /\ stdout' = <<Event("text", t)>> /\ said' = said + n
    BY <1>1 DEF WriteText, Write
  <2>3. UnitsOf(t) = said + 1 .. said + n
    <3> HIDE DEF t
    <3>1. \A u \in said + 1 .. said + n : u - said \in DOMAIN t /\ u = t[u - said] /\ u # 0
      BY <1>0, <2>1
    <3>2. \A i \in DOMAIN t : t[i] \in said + 1 .. said + n
      BY <1>0, <2>1
    <3>3. \A u : u \in UnitsOf(t) <=> u # 0 /\ \E i \in DOMAIN t : u = t[i]
      BY DEF UnitsOf
    <3>4. ASSUME NEW u \in said + 1 .. said + n PROVE u \in UnitsOf(t)
      BY <3>1, <3>3, <3>4
    <3>5. ASSUME NEW u \in UnitsOf(t) PROVE u \in said + 1 .. said + n
      BY <3>2, <3>3, <3>5
    <3> QED BY <3>4, <3>5
  <2> HIDE DEF t
  <2>4. DOMAIN stdout' = {1} /\ stdout'[1].text = t /\ stdout'[1].type = "text"
    BY <2>2 DEF Event
  <2>5. Pending' = Pending \cup (said + 1 .. said + n)
    <3>1. DOMAIN stdout = {}
      BY <2>2
    <3>2. Pending = UnitsOf(line.text) /\ Pending' = UnitsOf(line.text) \cup UnitsOf(t)
      BY <1>a, <2>4, <3>1 DEF Pending
    <3> QED BY <2>3, <3>2
  <2>6. Lined
    BY <2>4
  <2>7. Taken
    <3> SUFFICES ASSUME executor \in {"scan", "offer"}
                 PROVE  /\ Gapless(Received \cup Pending')
                        /\ Received \cup Pending' = 1 .. said'
      OBVIOUS
    <3>1. Received \cup Pending = 1 .. said
      BY <2>2 DEF AllRead
    <3>2. (1 .. said) \cup (said + 1 .. said + n) = 1 .. said + n
      BY <1>0, <2>1
    <3>3. Received \cup Pending' = 1 .. said'
      BY <2>2, <2>5, <3>1, <3>2
    <3>4. said' \in Nat
      BY <1>0, <2>1, <2>2
    <3> QED BY <3>3, <3>4, GaplessTo
  <2> QED BY <1>d, <2>6, <2>7
<1>2. ASSUME NEW type, Write(type, <<>>), UNCHANGED said \/ overlong',
             type = "too_long" => overlong'
      PROVE  AllRead'
  <2>1. stdout = <<>> /\ DOMAIN stdout' = {1} /\ stdout'[1] = Event(type, <<>>)
    BY <1>2 DEF Write
  <2>2. Pending' = Pending
    <3>1. DOMAIN stdout = {} /\ UnitsOf(stdout'[1].text) = {}
      BY <2>1, NoUnits DEF Event
    <3> QED BY <1>a, <2>1, <3>1 DEF Pending
  <2>3. Lined
    BY <1>2, <2>1 DEF Event
  <2>4. Taken
    BY <1>2, <1>c, <2>2 DEF AllRead
  <2> QED BY <1>d, <2>3, <2>4
<1>3. ASSUME UNCHANGED <<stdout, said, overlong>> PROVE AllRead'
  <2>1. Pending' = Pending
    BY <1>a, <1>3 DEF Pending
  <2>2. Lined /\ Taken
    BY <1>3, <2>1 DEF AllRead
  <2> QED BY <1>d, <2>2
<1> HIDE DEF Lined, Taken
<1>4. CASE WriteTooLong
  BY <1>2, <1>4 DEF WriteTooLong
<1>5. CASE UseTool
  BY <1>2, <1>5 DEF UseTool
<1>6. ASSUME NEW type \in {"done", "error"}, WriteResult(type) PROVE AllRead'
  BY <1>2, <1>6 DEF WriteResult
<1>7. CASE (\E code \in {0, 1} : Exit(code)) \/ Kill
  BY <1>3, <1>7 DEF Exit, Kill
<1> QED BY <1>1, <1>4, <1>5, <1>6, <1>7 DEF Subprocess

\* What has been received grows by the units of an event that is sent.
LEMMA ReceivedMore ==
  ASSUME Typing, NEW e \in Lines, events' = Append(events, e), UNCHANGED answer
  PROVE  /\ Received' = Received \cup UnitsOf(e.text)
         /\ \A i \in DOMAIN events' : (i \in DOMAIN events /\ events'[i] = events[i])
                                    \/ events'[i] = e
<1>1. events \in Seq(Lines)
  BY DEF Typing
<1> DEFINE es == Append(events, e)
<1>2. /\ DOMAIN es = DOMAIN events \cup {Len(es)}
      /\ \A i \in DOMAIN events : es[i] = events[i]
      /\ es[Len(es)] = e
  BY <1>1, MessageAdded
<1>3. events' = es
  OBVIOUS
<1> HIDE DEF es
<1> DEFINE E == UNION {UnitsOf(events[i].text) : i \in DOMAIN events}
<1>4. E' = E \cup UnitsOf(e.text)
  <2>1. ASSUME NEW u \in E' PROVE u \in E \cup UnitsOf(e.text)
    BY <1>2, <1>3, <2>1
  <2>2. ASSUME NEW u \in E PROVE u \in E'
    BY <1>2, <1>3, <2>2
  <2>3. ASSUME NEW u \in UnitsOf(e.text) PROVE u \in E'
    <3>1. Len(es) \in DOMAIN events' /\ events'[Len(es)] = e
      BY <1>2, <1>3
    <3> QED BY <2>3, <3>1
  <2> QED BY <2>1, <2>2, <2>3
<1>5. Received' = Received \cup UnitsOf(e.text)
  BY <1>4 DEF Received
<1>6. \A i \in DOMAIN events' : (i \in DOMAIN events /\ events'[i] = events[i]) \/ events'[i] = e
  BY <1>2, <1>3
<1> QED BY <1>5, <1>6

LEMMA OneLine ==
  ASSUME NEW S, NEW s \in Seq(S), s # <<>>, Len(s) <= 1
  PROVE  Head(s) = s[1] /\ DOMAIN s = {1} /\ DOMAIN Tail(s) = {}
<1>1. Len(s) = 1
  <2>1. Len(s) \in Nat /\ Len(s) # 0
    BY EmptySeq, Zenon
  <2> QED BY <2>1
<1>2. Len(Tail(s)) = 0 /\ Tail(s) \in Seq(S)
  BY <1>1, HeadTailProperties
<1>3. DOMAIN s = 1 .. Len(s) /\ DOMAIN Tail(s) = 1 .. Len(Tail(s))
  BY <1>2, LenProperties
<1>4. 1 .. 1 = {1} /\ 1 .. 0 = {}
  OBVIOUS
<1>5. DOMAIN s = {1} /\ DOMAIN Tail(s) = {}
  BY <1>1, <1>2, <1>3, <1>4, Zenon
<1>6. Head(s) = s[1]
  OBVIOUS
<1> QED BY <1>5, <1>6

LEMMA ReadExecute ==
  ASSUME Typing, LinesInOrder, EndTold, AllRead, Execute
  PROVE  AllRead'
<1>a. /\ events \in Seq(Lines) /\ stdout \in Seq(Lines) /\ Len(stdout) <= 1 /\ line \in Lines
      /\ overlong \in BOOLEAN
  BY DEF Typing, TypeOK
<1>b. UNCHANGED <<answer, said, proc, overlong, ctx>>
  BY DEF Execute, Scan, Offer, Wait, Report, Abandon, subprocess, handling
<1>1. CASE Scan
  <2>1. /\ executor = "scan" /\ stdout # <<>> /\ stdout' = Tail(stdout) /\ UNCHANGED events
        /\ line = NoEvent
    BY <1>1 DEF Scan, EndTold
  <2>2. Head(stdout) = stdout[1] /\ DOMAIN stdout = {1} /\ DOMAIN stdout' = {}
    <3>1. stdout \in Seq(Lines) /\ Len(stdout) <= 1
      BY <1>a
    <3> QED BY <2>1, <3>1, OneLine
  <2>3. Received' = Received
    BY <1>b, <2>1 DEF Received
  <2>4. CASE Head(stdout).type = "too_long"
    <3>1. executor' = "wait" /\ overlong /\ UNCHANGED line
      BY <1>1, <2>2, <2>4 DEF Scan, AllRead
    <3> QED BY <1>b, <2>1, <2>2, <2>3, <3>1 DEF AllRead
  <2>5. CASE Head(stdout).type # "too_long"
    <3>1. executor' = "offer" /\ line' = stdout[1]
      BY <1>1, <2>2, <2>5 DEF Scan
    <3>2. Pending' = Pending
      <4>1. Pending = UnitsOf(stdout[1].text)
        BY <2>1, <2>2, NoLine, NoUnits DEF Pending
      <4>2. Pending' = UnitsOf(line'.text)
        BY <2>2 DEF Pending
      <4> QED BY <3>1, <4>1, <4>2
    <3> QED BY <1>b, <2>1, <2>2, <2>3, <3>1, <3>2 DEF AllRead
  <2> QED BY <2>4, <2>5
<1>2. CASE Offer
  <2>1. executor = "offer" /\ line' = NoEvent /\ UNCHANGED stdout
    BY <1>2 DEF Offer, subprocess
  <2>2. CASE events' = Append(events, line) /\ executor' = "scan"
    <3>1. /\ Received' = Received \cup UnitsOf(line.text)
          /\ \A i \in DOMAIN events' : (i \in DOMAIN events /\ events'[i] = events[i])
                                     \/ events'[i] = line
      BY <1>a, <1>b, <2>2, ReceivedMore
    <3>2. Received' \cup Pending' = Received \cup Pending
      BY <2>1, <3>1, NoLine, NoUnits DEF Pending
    \* What is left in stdout comes later, so it leaves no gap.
    <3>3. Gapless(Received')
      <4> SUFFICES ASSUME NEW u \in Received', NEW v \in 1 .. u, v \notin Received' PROVE FALSE
        BY DEF Gapless
      <4>1. v \in Received \cup Pending
        BY <2>1, <3>1 DEF Gapless, AllRead, Pending
      <4>2. PICK k \in DOMAIN stdout : v \in UnitsOf(stdout[k].text)
        BY <3>1, <4>1 DEF Pending
      <4>3. \/ u \in UnitsOf(answer) \/ u \in UnitsOf(line.text)
            \/ \E i \in DOMAIN events : u \in UnitsOf(events[i].text)
        BY <3>1 DEF Received
      <4>4. u < v
        BY <4>2, <4>3 DEF LinesInOrder, Coming, Precedes
      <4>5. u \in Nat /\ v \in Nat
        <5>1. u \in 1 .. said
          BY <4>3 DEF LinesInOrder, Coming
        <5>2. said \in Nat
          BY StreamAssumption DEF Typing, TypeOK
        <5> QED BY <5>1, <5>2
      <4> QED BY <4>4, <4>5
    <3>4. \A i \in DOMAIN events' : events'[i].type # "text" => events'[i].text = <<>>
      BY <3>1 DEF AllRead
    <3> QED BY <1>b, <2>1, <2>2, <3>2, <3>3, <3>4, NoLine DEF AllRead
  <2>3. CASE ctx = "done" /\ executor' = "abandon" /\ UNCHANGED events
    <3>1. Received' = Received
      BY <1>b, <2>3 DEF Received
    <3> QED BY <1>b, <2>1, <2>3, <3>1, NoLine DEF AllRead
  <2> QED BY <1>2, <2>2, <2>3 DEF Offer
<1>3. CASE Wait
  <2>1. /\ UNCHANGED <<events, line, stdout>> /\ Ended /\ executor' \in {"report", "closed"}
        /\ executor = "wait" \/ (executor = "scan" /\ stdout = <<>> /\ line = NoEvent)
    BY <1>3 DEF Wait, Waited, subprocess, EndTold
  <2>2. Received' = Received /\ Ended'
    BY <1>b, <2>1 DEF Received, Ended
  <2>3. ~overlong => Received = 1 .. said
    <3> SUFFICES ASSUME ~overlong PROVE Received = 1 .. said
      OBVIOUS
    <3>1. executor = "scan" /\ DOMAIN stdout = {} /\ line = NoEvent
      BY <2>1 DEF AllRead
    <3>2. Pending = {}
      BY <3>1, NoLine, NoUnits DEF Pending
    <3> QED BY <3>1, <3>2 DEF AllRead
  <2> QED BY <1>b, <2>1, <2>2, <2>3 DEF AllRead
<1>4. CASE Report
  <2>1. executor = "report" /\ executor' = "closed" /\ UNCHANGED <<line, stdout>> /\ Ended'
    BY <1>4, <1>b DEF Report, subprocess, AllRead, Ended
  <2>2. CASE events' = Append(events, Event("error", <<>>))
    <3>1. Event("error", <<>>) \in Lines /\ Event("error", <<>>).text = <<>>
      BY DEF Event, Lines
    <3> DEFINE e == Event("error", <<>>)
    <3> HIDE DEF e
    <3>2. /\ Received' = Received \cup UnitsOf(e.text)
          /\ \A i \in DOMAIN events' : (i \in DOMAIN events /\ events'[i] = events[i])
                                     \/ events'[i] = e
      <4>1. e \in Lines /\ events' = Append(events, e) /\ UNCHANGED answer
        BY <1>b, <2>2, <3>1 DEF e
      <4> QED BY <4>1, ReceivedMore
    <3>3. e.text = <<>> /\ Received' = Received
      BY <3>1, <3>2, NoUnits DEF e
    <3>4. \A i \in DOMAIN events' : events'[i].type # "text" => events'[i].text = <<>>
      BY <3>2, <3>3 DEF AllRead
    <3> QED BY <1>b, <2>1, <3>3, <3>4 DEF AllRead
  <2>3. CASE UNCHANGED events
    <3>1. Received' = Received
      BY <1>b, <2>3 DEF Received
    <3> QED BY <1>b, <2>1, <2>3, <3>1 DEF AllRead
  <2> QED BY <1>4, <2>2, <2>3 DEF Report
<1>5. CASE Abandon
  <2>1. /\ executor = "abandon" /\ executor' = "closed" /\ UNCHANGED <<events, line, stdout>>
        /\ Ended /\ Ended'
    BY <1>5, <1>b DEF Abandon, subprocess, Ended
  <2>2. Received' = Received /\ ctx # "live"
    BY <1>b, <2>1 DEF Received, EndTold
  <2> QED BY <1>b, <2>1, <2>2 DEF AllRead
<1> QED BY <1>1, <1>2, <1>3, <1>4, <1>5 DEF Execute

LEMMA ReadDrain ==
  ASSUME Typing, AllRead, Drain
  PROVE  AllRead'
<1>a. UNCHANGED <<proc, said, overlong, stdout, line, executor, ctx>>
  BY DEF Drain, TakeEvent, EventsEnd, ContextDone, Forward, ToolSummary, subprocess, reading
<1>b. ASSUME Received' = Received,
             \A i \in DOMAIN events' : \E j \in DOMAIN events : events'[i] = events[j]
      PROVE  AllRead'
  <2>1. Pending' = Pending /\ Ended' = Ended
    BY <1>a DEF Pending, Ended
  <2>2. \A i \in DOMAIN events' : events'[i].type # "text" => events'[i].text = <<>>
    BY <1>b DEF AllRead
  <2> QED BY <1>a, <1>b, <2>1, <2>2 DEF AllRead
<1>1. CASE TakeEvent
  <2> DEFINE t == Head(events).text
  <2>1. events \in Seq(Lines) /\ events # <<>> /\ events' = Tail(events)
    BY <1>1 DEF TakeEvent, Typing
  <2>2. /\ t = events[1].text /\ 1 \in DOMAIN events /\ events[1] \in Lines
        /\ \A i \in DOMAIN events' : events'[i] = events[i + 1] /\ i + 1 \in DOMAIN events
        /\ \A i \in DOMAIN events : i # 1 => i - 1 \in DOMAIN events'
                                           /\ events'[i - 1] = events[i]
    <3>1. \A i \in DOMAIN events' : events'[i] = events[i + 1] /\ i + 1 \in DOMAIN events
      BY <2>1, TailAt
    <3>2. \A i \in DOMAIN events : i # 1 => i - 1 \in DOMAIN events' /\ events'[i - 1] = events[i]
      BY <2>1
    <3>3. Head(events) = events[1] /\ 1 \in DOMAIN events /\ events[1] \in Lines
      BY <2>1, TailAt, Elements
    <3> QED BY <3>1, <3>2, <3>3
  <2>3. t \in Seq(Nat) /\ answer \in Seq(Nat)
    <3>1. t \in Seq(1 .. MaxText) /\ 1 .. MaxText \subseteq Nat /\ answer \in Seq(1 .. MaxText)
      BY <2>2 DEF Lines, Typing
    <3> QED BY <3>1, SeqMonotonic
  <2>4. UnitsOf(answer') = UnitsOf(answer) \cup UnitsOf(t)
    <3>1. CASE Head(events).type = "text"
      <4>1. answer' = answer \o t
        BY <1>1, <3>1 DEF TakeEvent
      <4> QED BY <2>3, <4>1, UnitsOfConcat
    <3>2. CASE Head(events).type # "text"
      <4>1. UNCHANGED answer
        BY <1>1, <3>2 DEF TakeEvent, handling
      <4>2. Head(events) = events[1]
        BY <2>1
      <4>3. t = <<>>
        BY <2>2, <3>2, <4>2 DEF AllRead
      <4> QED BY <4>1, <4>3, NoUnits
    <3> QED BY <3>1, <3>2
  <2> HIDE DEF t
  <2>5. Received' = Received
    <3>1. ASSUME NEW u \in Received' PROVE u \in Received
      BY <2>2, <2>4, <3>1 DEF Received
    <3>2. ASSUME NEW u \in Received PROVE u \in Received'
      <4>1. CASE u \in UnitsOf(answer)
        BY <2>4, <4>1 DEF Received
      <4>2. ASSUME NEW i \in DOMAIN events, u \in UnitsOf(events[i].text)
            PROVE  u \in Received'
        <5>1. CASE i = 1
          BY <2>2, <2>4, <4>2, <5>1 DEF Received
        <5>2. CASE i # 1
          BY <2>2, <4>2, <5>2 DEF Received
        <5> QED BY <5>1, <5>2
      <4> QED BY <3>2, <4>1, <4>2 DEF Received
    <3> QED BY <3>1, <3>2
  <2> QED BY <1>b, <2>2, <2>5
<1>2. CASE EventsEnd \/ ContextDone \/ Forward \/ ToolSummary
  <2>1. UNCHANGED <<answer, events>>
    BY <1>2 DEF EventsEnd, ContextDone, Forward, ToolSummary, reading
  <2>2. Received' = Received
    BY <2>1 DEF Received
  <2> QED BY <1>b, <2>1, <2>2
<1> QED BY <1>1, <1>2 DEF Drain

LEMMA ReadStep ==
  ASSUME Typing, LinesInOrder, EndTold, AllRead, [Next]_vars
  PROVE  AllRead'
<1>1. ASSUME UNCHANGED <<subprocess, reading, handling>>, ctx' \in {ctx, "done"} PROVE AllRead'
  <2> USE DEF subprocess, reading, handling
  <2>1. Received' = Received /\ Pending' = Pending /\ Ended' = Ended
    BY <1>1 DEF Received, Pending, Ended
  <2> QED BY <1>1, <2>1 DEF AllRead
<1>2. CASE Process \/ TellError \/ Signal \/ UNCHANGED vars
  BY <1>1, <1>2 DEF Process, Deadline, CloseTokens, WaitSender, TellError, Signal, vars
<1>3. CASE Send
  BY <1>1, <1>3 DEF Send, Placeholder, TakeToken, PrintToken, TokensEnd, Leave, Tick,
                    PutPart, PartsEnd, Remainder, Respond
<1> QED BY <1>2, <1>3, ReadSubprocess, ReadExecute, ReadDrain DEF Next

\* What is recorded as good is a beginning of what the CLI said; in time, the CLI ended
\* well, and all of what it said is there if every line fitted: no event is lost between
\* its output and the answer, and the error of a bad end is met before the end of the
\* events is (Execute, drainCLIEvents).
THEOREM RecordedInTimeIsWhole == Spec => []RecordedIsWhole
<1>1. Init => EndTold /\ AllRead
  BY EndInit, ReadInit
<1>2. StreamInv /\ EndTold /\ AllRead /\ [Next]_vars => (EndTold /\ AllRead)'
  BY EndStep, ReadStep DEF StreamInv
<1>3. StreamInv /\ EndTold /\ AllRead => RecordedIsWhole
  <2> SUFFICES ASSUME StreamInv, EndTold, AllRead, result = "ok" PROVE
                 /\ Gapless(UnitsOf(answer)) /\ UnitsOf(answer) \subseteq 1 .. said
                 /\ ctx = "live" =>
                      /\ complete \/ proc = "exited"
                      /\ ~overlong => UnitsOf(answer) = 1 .. said
    BY DEF RecordedIsWhole, Gapless
  <2>1. executor = "closed" /\ events = <<>>
    BY DEF EndTold
  <2>2. Received = UnitsOf(answer)
    BY <2>1 DEF Received
  <2>3. UnitsOf(answer) \subseteq 1 .. said
    BY DEF StreamInv, LinesInOrder
  <2>4. ctx = "live" => complete \/ proc = "exited"
    BY DEF EndTold
  <2> QED BY <2>1, <2>2, <2>3, <2>4 DEF AllRead
<1> QED BY <1>1, <1>2, <1>3, StreamInvariant, PTL DEF Spec
=============================================================================
