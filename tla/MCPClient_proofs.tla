-------------------------- MODULE MCPClient_proofs --------------------------
(***************************************************************************)
(* A call finds no answer but its own, and readLoop strands nobody, for    *)
(* any number of callers and calls.  First the types, with the numbering   *)
(* of calls they rest on; then, under the assumption that stdout does not  *)
(* end before Start has returned unless the subprocess exits, the state of *)
(* every waiting call against readLoop's place in its way out.             *)
(***************************************************************************)
EXTENDS MCPClient, SequenceTheorems, TLAPS

\* The number of a call is its id: nothing else ever carries either.
Numbered ==
  /\ nextID = calls
  /\ \A r \in inbox : r.id = r.n
  /\ \A k \in 1 .. Len(stdout) : stdout[k].id = stdout[k].n
  /\ \A c \in Callers : call[c].id = call[c].n
  /\ \A i \in Ids : chan[i] \in {Empty, Nil, i}

\* A call in progress has a number of its own, already given out.
Distinct ==
  /\ \A c \in Callers : pc[c] # "idle" => call[c] \in Request /\ call[c].id <= nextID
  /\ \A c, d \in Callers :
       pc[c] # "idle" /\ pc[d] # "idle" /\ call[c].id = call[d].id => c = d

CallInv == TypeOK /\ Numbered /\ Distinct

USE ClientAssumption DEF ClientAssumption

LEMMA ContentFacts ==
  /\ Empty \in Content /\ Nil \in Content
  /\ \A i \in Ids : i \in Content /\ i # Empty /\ i # Nil
  /\ Nil # Empty
BY DEF Empty, Nil, Content, Ids

-----------------------------------------------------------------------------
LEMMA InitCalls == Init => CallInv
<1> SUFFICES ASSUME Init PROVE CallInv
  OBVIOUS
<1> USE DEF Init
<1>1. stdinOpen \in BOOLEAN /\ ended \in BOOLEAN /\ connected \in BOOLEAN
  OBVIOUS
<1>2. /\ inbox \in SUBSET Request /\ visit \in SUBSET Ids /\ responses \in SUBSET Ids
      /\ stdout \in Seq(Request) /\ Len(stdout) = 0
      /\ nextID \in 0 .. MaxCalls /\ calls \in 0 .. MaxCalls
  OBVIOUS
<1>3. chan \in [Ids -> Content]
  BY ContentFacts
<1>4. /\ pc \in [Callers -> {"idle", "send", "wait"}]
      /\ call \in [Callers -> Request \union {NoRequest}]
  OBVIOUS
<1>5. TypeOK
  BY <1>1, <1>2, <1>3, <1>4 DEF TypeOK
<1>6. Numbered
  BY <1>2 DEF Numbered, NoRequest
<1>7. Distinct
  BY DEF Distinct
<1> QED BY <1>5, <1>6, <1>7 DEF CallInv

\* Steps that touch neither a call nor a channel nor what carries answers.
LEMMA QuietSteps ==
  ASSUME CallInv, UNCHANGED waiting, inbox' \subseteq inbox,
         stdout' = stdout \/ stdout' = <<>>,
         stdinOpen' \in BOOLEAN /\ ended' \in BOOLEAN /\ connected' \in BOOLEAN,
         server' \in {"unborn", "alive", "exited"},
         starter' \in {"idle", "launched", "done"},
         stopper' \in {"idle", "marked", "closed", "done"},
         reader' \in {"idle", "reading", "ended", "marked", "draining", "gone"},
         visit' \in SUBSET Ids
  PROVE  CallInv'
<1>1. stdout' \in Seq(Request)
  <2>1. stdout \in Seq(Request) /\ <<>> \in Seq(Request)
    BY DEF CallInv, TypeOK
  <2> QED BY <2>1, Zenon
<1>2. inbox' \in SUBSET Request
  BY DEF CallInv, TypeOK
<1>3. /\ nextID' \in 0 .. MaxCalls /\ calls' \in 0 .. MaxCalls
      /\ chan' \in [Ids -> Content] /\ responses' \in SUBSET Ids
      /\ pc' \in [Callers -> {"idle", "send", "wait"}]
      /\ call' \in [Callers -> Request \union {NoRequest}]
  BY DEF CallInv, TypeOK, waiting
<1>4. TypeOK'
  BY <1>1, <1>2, <1>3, Zenon DEF TypeOK
<1>5. Numbered'
  BY DEF CallInv, Numbered, waiting
<1>6. Distinct'
  BY DEF CallInv, Distinct, waiting
<1> QED BY <1>4, <1>5, <1>6 DEF CallInv

LEMMA ServerCalls == ASSUME CallInv, Server PROVE CallInv'
<1> USE DEF control
<1>1. CASE Exit
  BY <1>1, QuietSteps DEF Exit, CallInv, TypeOK
<1>2. CASE GoDumb
  BY <1>2, QuietSteps DEF GoDumb, CallInv, TypeOK
<1>3. ASSUME NEW r \in Request, Answer(r) PROVE CallInv'
  <2>1. stdout \in Seq(Request) /\ inbox' \subseteq inbox /\ r.id = r.n
    BY <1>3 DEF Answer, CallInv, TypeOK, Numbered
  <2>2. /\ stdout' \in Seq(Request)
        /\ \A k \in 1 .. Len(stdout') : stdout'[k] = r \/ (k \in 1 .. Len(stdout) /\ stdout'[k] = stdout[k])
    BY <1>3, <2>1 DEF Answer
  <2>3. TypeOK'
    BY <1>3, <2>1, <2>2 DEF Answer, waiting, CallInv, TypeOK
  <2>4. Numbered'
    BY <1>3, <2>1, <2>2 DEF Answer, waiting, CallInv, Numbered
  <2>5. Distinct'
    BY <1>3 DEF Answer, waiting, CallInv, Distinct
  <2> QED BY <2>3, <2>4, <2>5 DEF CallInv
<1> QED BY <1>1, <1>2, <1>3 DEF Server

LEMMA StartStopCalls == ASSUME CallInv, Start \/ Stop PROVE CallInv'
<1> USE QuietSteps DEF process, CallInv, TypeOK
<1>1. CASE Launch
  BY <1>1 DEF Launch
<1>2. CASE MarkConnected
  BY <1>2 DEF MarkConnected
<1>3. CASE MarkStopped
  BY <1>3 DEF MarkStopped
<1>4. CASE CloseStdin
  BY <1>4 DEF CloseStdin
<1>5. CASE Reap
  BY <1>5 DEF Reap
<1> QED BY <1>1, <1>2, <1>3, <1>4, <1>5 DEF Start, Stop

LEMMA ReadLoopCalls == ASSUME CallInv, ReadLoop PROVE CallInv'
<1>1. CASE ReadAnswer
  <2> DEFINE r == Head(stdout)
  <2>1. /\ stdout \in Seq(Request) /\ stdout # <<>>
        /\ r \in Request /\ r.id = r.n /\ r.id \in Ids
    <3>1. stdout \in Seq(Request) /\ stdout # <<>>
      BY <1>1 DEF ReadAnswer, CallInv, TypeOK
    <3>2. 1 \in 1 .. Len(stdout) /\ r = stdout[1] /\ r \in Request
      BY <3>1
    <3> QED BY <3>1, <3>2 DEF CallInv, Numbered, Request
  <2>2. /\ stdout' \in Seq(Request)
        /\ \A k \in 1 .. Len(stdout') : k + 1 \in 1 .. Len(stdout) /\ stdout'[k] = stdout[k + 1]
    BY <1>1, <2>1 DEF ReadAnswer
  <2>3. chan' = chan \/ chan' = [chan EXCEPT ![r.id] = r.n]
    BY <1>1 DEF ReadAnswer
  <2>4. responses' \subseteq responses
    BY <1>1 DEF ReadAnswer
  <2>5. chan' \in [Ids -> Content]
    BY <2>1, <2>3, ContentFacts DEF CallInv, TypeOK
  <2>6. TypeOK'
    BY <1>1, <2>2, <2>4, <2>5 DEF ReadAnswer, control, CallInv, TypeOK
  <2>7. \A i \in Ids : chan'[i] \in {Empty, Nil, i}
    BY <2>1, <2>3 DEF CallInv, TypeOK, Numbered
  <2>8. Numbered'
    BY <1>1, <2>2, <2>7 DEF ReadAnswer, CallInv, Numbered
  <2>9. Distinct'
    BY <1>1 DEF ReadAnswer, CallInv, Distinct
  <2> QED BY <2>6, <2>8, <2>9 DEF CallInv
<1>2. CASE ReadEnd
  BY <1>2, QuietSteps DEF ReadEnd, process, CallInv, TypeOK
<1>3. CASE MarkDisconnected
  BY <1>3, QuietSteps DEF MarkDisconnected, process, CallInv, TypeOK
<1>4. CASE BeginDrain
  BY <1>4, QuietSteps DEF BeginDrain, process, CallInv, TypeOK
<1>5. CASE EndDrain
  BY <1>5, QuietSteps DEF EndDrain, process, CallInv, TypeOK
<1>6. ASSUME NEW i \in Ids, Drain(i) PROVE CallInv'
  <2>1. chan' = chan \/ chan' = [chan EXCEPT ![i] = Nil]
    BY <1>6 DEF Drain
  <2>2. responses' \subseteq responses
    BY <1>6 DEF Drain
  <2>3. chan' \in [Ids -> Content]
    BY <2>1, ContentFacts DEF CallInv, TypeOK
  <2>4. TypeOK'
    BY <1>6, <2>2, <2>3 DEF Drain, process, CallInv, TypeOK
  <2>5. Numbered'
    BY <1>6, <2>1 DEF Drain, process, CallInv, TypeOK, Numbered
  <2>6. Distinct'
    BY <1>6 DEF Drain, CallInv, Distinct
  <2> QED BY <2>4, <2>5, <2>6 DEF CallInv
<1> QED BY <1>1, <1>2, <1>3, <1>4, <1>5, <1>6 DEF ReadLoop

LEMMA ReturnKeeps == ASSUME CallInv, NEW c \in Callers, Return(c), UNCHANGED process
                     PROVE  CallInv'
<1>1. /\ pc' \in [Callers -> {"idle", "send", "wait"}]
      /\ call' \in [Callers -> Request \union {NoRequest}]
      /\ \A d \in Callers : d # c => pc'[d] = pc[d] /\ call'[d] = call[d]
      /\ pc'[c] = "idle" /\ call'[c] = NoRequest
  BY DEF Return, CallInv, TypeOK
<1>2. TypeOK'
  BY <1>1 DEF Return, process, control, CallInv, TypeOK
<1>3. Numbered'
  BY <1>1 DEF Return, process, CallInv, Numbered, NoRequest
<1>4. Distinct'
  BY <1>1 DEF Return, CallInv, Distinct
<1> QED BY <1>2, <1>3, <1>4 DEF CallInv

LEMMA CallsKeep == ASSUME CallInv, NEW c \in Callers, Call(c) PROVE CallInv'
<1>1. CASE Register(c)
  <2> DEFINE i == nextID + 1
             r == [id |-> i, n |-> i]
  <2>1. /\ nextID' = i /\ calls' = i /\ i \in Ids /\ nextID = calls
        /\ r \in Request
    BY <1>1 DEF Register, CallInv, TypeOK, Numbered, Ids, Request
  <2>2. /\ call' = [call EXCEPT ![c] = r]
        /\ chan' = [chan EXCEPT ![i] = Empty]
        /\ responses' = responses \union {i}
        /\ pc' = [pc EXCEPT ![c] = "send"]
    BY <1>1, <2>1 DEF Register
  <2>3. /\ call' \in [Callers -> Request \union {NoRequest}]
        /\ \A d \in Callers : d # c => pc'[d] = pc[d] /\ call'[d] = call[d]
        /\ pc'[c] = "send" /\ call'[c] = r
    BY <2>1, <2>2 DEF CallInv, TypeOK
  <2>4. chan' \in [Ids -> Content]
    BY <2>2, ContentFacts DEF CallInv, TypeOK
  <2>5. TypeOK'
    BY <1>1, <2>1, <2>2, <2>3, <2>4 DEF Register, process, control, CallInv, TypeOK, Ids
  <2>6. \A j \in Ids : chan'[j] \in {Empty, Nil, j}
    BY <2>2 DEF CallInv, TypeOK, Numbered
  <2>7. Numbered'
    BY <1>1, <2>1, <2>3, <2>6 DEF Register, process, CallInv, Numbered
  <2>8. \A d \in Callers : d # c /\ pc[d] # "idle" => call[d].id < i
    BY <2>1 DEF CallInv, Distinct, TypeOK, Request, Ids
  <2>9. \A d \in Callers : pc'[d] # "idle" => call'[d] \in Request /\ call'[d].id <= nextID'
    BY <2>1, <2>3 DEF CallInv, Distinct, TypeOK, Request, Ids
  <2>10. Distinct'
    <3>1. ASSUME NEW d \in Callers, NEW e \in Callers,
                 pc'[d] # "idle", pc'[e] # "idle", call'[d].id = call'[e].id
          PROVE  d = e
      <4>1. CASE d = c /\ e # c
        <5>1. call'[e].id < i
          BY <3>1, <4>1, <2>3, <2>8
        <5> QED BY <5>1, <4>1, <3>1, <2>1, <2>3
      <4>2. CASE e = c /\ d # c
        <5>1. call'[d].id < i
          BY <3>1, <4>2, <2>3, <2>8
        <5>2. call'[e].id = i
          BY <4>2, <2>3
        <5>3. call'[d].id = i /\ i \in Int
          BY <5>2, <3>1, <2>1 DEF Ids
        <5> HIDE DEF i
        <5> QED BY <5>1, <5>3
      <4>3. CASE d # c /\ e # c
        BY <4>3, <3>1, <2>3 DEF CallInv, Distinct
      <4> QED BY <4>1, <4>2, <4>3
    <3> QED BY <3>1, <2>9 DEF Distinct
  <2> QED BY <2>5, <2>7, <2>10 DEF CallInv
<1>2. CASE Send(c)
  <2>1. CASE connected /\ Writable
    <3>1. /\ inbox' = inbox \union {call[c]} /\ pc' = [pc EXCEPT ![c] = "wait"]
          /\ UNCHANGED <<server, stdinOpen, stdout, ended, control, nextID, responses,
                         chan, call, calls>>
      BY <1>2, <2>1 DEF Send
    <3>2. call[c] \in Request /\ call[c].id = call[c].n
      BY <1>2 DEF Send, CallInv, Distinct, Numbered
    <3>3. TypeOK'
      BY <3>1, <3>2 DEF control, CallInv, TypeOK
    <3>4. Numbered'
      BY <3>1, <3>2 DEF CallInv, Numbered
    <3>5. Distinct'
      BY <1>2, <3>1 DEF Send, CallInv, TypeOK, Distinct
    <3> QED BY <3>3, <3>4, <3>5 DEF CallInv
  <2>2. CASE ~(connected /\ Writable)
    BY <1>2, <2>2, ReturnKeeps DEF Send
  <2> QED BY <2>1, <2>2
<1>3. CASE Take(c)
  BY <1>3, ReturnKeeps DEF Take
<1>4. CASE Cancel(c)
  BY <1>4, ReturnKeeps DEF Cancel
<1> QED BY <1>1, <1>2, <1>3, <1>4 DEF Call

\* Types, and every answer on its way under the number of its call.
THEOREM CallInvariant == Spec => []CallInv
<1>1. CallInv /\ [Next]_vars => CallInv'
  <2> SUFFICES ASSUME CallInv, [Next]_vars PROVE CallInv'
    OBVIOUS
  <2>1. CASE UNCHANGED vars
    BY <2>1, QuietSteps DEF vars, process, control, CallInv, TypeOK
  <2> QED BY <2>1, ServerCalls, StartStopCalls, ReadLoopCalls, CallsKeep DEF Next
<1> QED BY InitCalls, <1>1, PTL DEF Spec

\* Each variable of the client keeps its type.
THEOREM ClientTypeCorrect == Spec => []TypeOK
BY CallInvariant, PTL DEF CallInv

\* However answers are delayed, reordered or repeated, a waiting call finds its own.
THEOREM AnswersMatch == Spec => []OwnAnswer
<1>1. CallInv => OwnAnswer
  BY DEF CallInv, Numbered, Distinct, OwnAnswer, Request
<1> QED BY <1>1, CallInvariant, PTL

-----------------------------------------------------------------------------
\* A call in progress is registered, or something is in its channel.
Reachable ==
  \A c \in Callers :
    pc[c] # "idle" => call[c].id \in responses \/ chan[call[c].id] # Empty

\* readLoop's Range still has to visit a waiting call, or has.
Visited ==
  /\ reader = "draining" => \A c \in Callers : pc[c] = "wait" =>
       call[c].id \in visit \/ chan[call[c].id] # Empty
  /\ NoOneStranded

\* stdout ends with the subprocess, or when Start has returned.
EndsLate ==
  /\ starter = "idle" => server = "unborn"
  /\ server = "unborn" => ~ended
  /\ ended => server = "exited" \/ starter = "done"
  /\ reader \in {"ended", "marked", "draining", "gone"} => ended

\* Once readLoop has marked the client, no request can be sent to it any more.
CutOff ==
  reader \in {"marked", "draining", "gone"} =>
    server = "exited" \/ (starter = "done" /\ ~connected)

WakeInv == CallInv /\ Reachable /\ Visited /\ EndsLate /\ CutOff

LEMMA InitWake == Init => WakeInv
<1> SUFFICES ASSUME Init PROVE WakeInv
  OBVIOUS
<1>1. Reachable /\ Visited
  BY DEF Init, Reachable, Visited, NoOneStranded
<1>2. EndsLate /\ CutOff
  BY DEF Init, EndsLate, CutOff
<1> QED BY <1>1, <1>2, InitCalls DEF WakeInv

\* No step of a call opens the client again, nor does the end of stdout.
LEMMA EndsLateKeeps ==
  ASSUME GoesDumb # "always", WakeInv, [Next]_vars PROVE EndsLate' /\ CutOff'
<1> USE DEF WakeInv, EndsLate, CutOff, CallInv, TypeOK
<1>1. CASE Server
  BY <1>1 DEF Server, Exit, GoDumb, Answer, control
<1>2. CASE Start
  BY <1>2 DEF Start, Launch, MarkConnected, process
<1>3. CASE Stop
  BY <1>3 DEF Stop, MarkStopped, CloseStdin, Reap, process
<1>4. CASE ReadLoop
  BY <1>4 DEF ReadLoop, ReadAnswer, ReadEnd, MarkDisconnected, BeginDrain, Drain, EndDrain,
              process, control
<1>5. ASSUME NEW c \in Callers, Call(c) PROVE EndsLate' /\ CutOff'
  <2>1. UNCHANGED <<control, server, ended>>
    BY <1>5 DEF Call, Register, Send, Take, Cancel, Return, process
  <2> QED BY <2>1 DEF control
<1>6. CASE UNCHANGED vars
  BY <1>6 DEF vars, process, control
<1> QED BY <1>1, <1>2, <1>3, <1>4, <1>5, <1>6 DEF Next

\* Steps of neither a call nor the drain.
LEMMA QuietWake ==
  ASSUME WakeInv, UNCHANGED waiting,
         reader' = reader \/ reader' \notin {"draining", "gone"}, UNCHANGED visit
  PROVE  Reachable' /\ Visited'
BY DEF WakeInv, waiting, Reachable, Visited, NoOneStranded

LEMMA ReadLoopWakes == ASSUME WakeInv, ReadLoop PROVE Reachable' /\ Visited'
<1>1. CASE ReadAnswer
  <2> DEFINE r == Head(stdout)
  <2>1. /\ UNCHANGED <<pc, call>>
        /\ reader = "reading" /\ reader' = "reading"
        /\ stdout # <<>>
    BY <1>1 DEF ReadAnswer, control
  <2>2. r.id \in Ids /\ r.n \in Ids
    <3>1. stdout \in Seq(Request)
      BY DEF WakeInv, CallInv, TypeOK
    <3>2. r \in Request
      BY <2>1, <3>1
    <3> QED BY <3>2 DEF Request
  <2>3. \/ UNCHANGED <<chan, responses>>
        \/ chan' = [chan EXCEPT ![r.id] = r.n] /\ responses' = responses \ {r.id}
    BY <1>1 DEF ReadAnswer
  <2>4. chan \in [Ids -> Content] /\ r.n # Empty
    BY <2>2, ContentFacts DEF WakeInv, CallInv, TypeOK
  <2>5. Reachable'
    <3> HIDE DEF r
    <3>1. CASE UNCHANGED <<chan, responses>>
      BY <3>1, <2>1 DEF WakeInv, Reachable
    <3>2. CASE chan' = [chan EXCEPT ![r.id] = r.n] /\ responses' = responses \ {r.id}
      BY <3>2, <2>1, <2>2, <2>4 DEF WakeInv, Reachable
    <3> QED BY <2>3, <3>1, <3>2
  <2>6. Visited'
    BY <2>1 DEF Visited, NoOneStranded
  <2> QED BY <2>5, <2>6
<1>2. CASE ReadEnd
  BY <1>2, QuietWake DEF ReadEnd
<1>3. CASE MarkDisconnected
  BY <1>3, QuietWake DEF MarkDisconnected
<1>4. CASE BeginDrain
  BY <1>4 DEF BeginDrain, waiting, WakeInv, Reachable, Visited, NoOneStranded
<1>5. CASE EndDrain
  BY <1>5 DEF EndDrain, waiting, WakeInv, Reachable, Visited, NoOneStranded
<1>6. ASSUME NEW i \in Ids, Drain(i) PROVE Reachable' /\ Visited'
  <2>1. /\ UNCHANGED <<pc, call, reader>> /\ visit' = visit \ {i}
        /\ reader = "draining"
    BY <1>6 DEF Drain
  <2>2. \/ UNCHANGED <<chan, responses>> /\ i \notin responses
        \/ chan' = [chan EXCEPT ![i] = Nil] /\ responses' = responses \ {i}
    BY <1>6 DEF Drain
  <2>3. chan \in [Ids -> Content]
    BY DEF WakeInv, CallInv, TypeOK
  <2>4. \A c \in Callers : pc[c] # "idle" => call[c].id \in Ids
    BY DEF WakeInv, CallInv, Distinct, Request
  <2>5. Reachable'
    BY <2>1, <2>2, <2>3, <2>4, ContentFacts DEF WakeInv, Reachable
  <2>6. Visited'
    BY <2>1, <2>2, <2>3, <2>4, ContentFacts DEF WakeInv, Reachable, Visited, NoOneStranded
  <2> QED BY <2>5, <2>6
<1> QED BY <1>1, <1>2, <1>3, <1>4, <1>5, <1>6 DEF ReadLoop

LEMMA ReturnWakes == ASSUME WakeInv, NEW c \in Callers, pc[c] # "idle", Return(c)
                     PROVE  Reachable' /\ Visited'
<1>1. /\ \A d \in Callers : d # c => pc'[d] = pc[d] /\ call'[d] = call[d]
      /\ pc'[c] = "idle"
      /\ responses' = responses \ {call[c].id}
      /\ UNCHANGED <<chan, reader, visit>>
  BY DEF Return, control, WakeInv, CallInv, TypeOK
<1>2. Reachable'
  BY <1>1 DEF WakeInv, CallInv, Distinct, Reachable
<1>3. Visited'
  BY <1>1 DEF WakeInv, Visited, NoOneStranded
<1> QED BY <1>2, <1>3

LEMMA CallsWake == ASSUME WakeInv, NEW c \in Callers, Call(c) PROVE Reachable' /\ Visited'
<1>1. CASE Register(c)
  <2> DEFINE i == nextID + 1
  <2>1. /\ chan' = [chan EXCEPT ![i] = Empty]
        /\ responses' = responses \union {i}
        /\ UNCHANGED <<reader, visit>>
        /\ i \in Ids
    BY <1>1 DEF Register, control, WakeInv, CallInv, TypeOK, Numbered, Ids
  <2>2. /\ \A d \in Callers : d # c => pc'[d] = pc[d] /\ call'[d] = call[d]
        /\ pc'[c] = "send" /\ call'[c].id = i
    BY <1>1 DEF Register, WakeInv, CallInv, TypeOK
  <2>3. \A d \in Callers : pc[d] # "idle" => call[d].id \in Ids /\ call[d].id # i
    BY <2>1 DEF WakeInv, CallInv, Distinct, TypeOK, Request, Ids
  <2>4. chan \in [Ids -> Content]
    BY DEF WakeInv, CallInv, TypeOK
  <2>5. Reachable'
    BY <2>1, <2>2, <2>3, <2>4 DEF WakeInv, Reachable
  <2>6. Visited'
    BY <2>1, <2>2, <2>3, <2>4 DEF WakeInv, Visited, NoOneStranded
  <2> QED BY <2>5, <2>6
<1>2. CASE Send(c)
  <2>1. CASE connected /\ Writable
    <3>1. /\ pc' = [pc EXCEPT ![c] = "wait"] /\ pc[c] = "send"
          /\ UNCHANGED <<reader, visit, responses, chan, call>>
      BY <1>2, <2>1 DEF Send, control
    <3>2. reader \notin {"draining", "gone"}
      BY <2>1 DEF WakeInv, CutOff, Writable
    <3>3. Reachable'
      BY <3>1 DEF WakeInv, CallInv, TypeOK, Reachable
    <3>4. Visited'
      BY <3>1, <3>2 DEF Visited, NoOneStranded
    <3> QED BY <3>3, <3>4
  <2>2. CASE ~(connected /\ Writable)
    BY <1>2, <2>2, ReturnWakes DEF Send
  <2> QED BY <2>1, <2>2
<1>3. CASE Take(c)
  BY <1>3, ReturnWakes DEF Take
<1>4. CASE Cancel(c)
  BY <1>4, ReturnWakes DEF Cancel
<1> QED BY <1>1, <1>2, <1>3, <1>4 DEF Call

LEMMA StepsWake == ASSUME WakeInv, [Next]_vars PROVE Reachable' /\ Visited'
<1>1. CASE Server
  BY <1>1, QuietWake DEF Server, Exit, GoDumb, Answer, control
<1>2. CASE Start
  BY <1>2, QuietWake DEF Start, Launch, MarkConnected
<1>3. CASE Stop
  BY <1>3, QuietWake DEF Stop, MarkStopped, CloseStdin, Reap
<1>4. CASE UNCHANGED vars
  BY <1>4, QuietWake DEF vars, control
<1> QED BY <1>1, <1>2, <1>3, <1>4, ReadLoopWakes, CallsWake DEF Next

\* A call that found the client connected is registered in time for readLoop's
\* last round, unless stdout went dumb while Start was still under way.
THEOREM NeverStranded == ASSUME GoesDumb # "always" PROVE Spec => []NoOneStranded
<1>1. WakeInv /\ [Next]_vars => WakeInv'
  <2> SUFFICES ASSUME WakeInv, [Next]_vars PROVE WakeInv'
    OBVIOUS
  <2>1. CallInv'
    <3>1. CASE UNCHANGED vars
      BY <3>1, QuietSteps DEF vars, process, control, WakeInv, CallInv, TypeOK
    <3> QED BY <3>1, ServerCalls, StartStopCalls, ReadLoopCalls, CallsKeep DEF Next, WakeInv
  <2> QED BY <2>1, EndsLateKeeps, StepsWake DEF WakeInv
<1>2. WakeInv => NoOneStranded
  BY DEF WakeInv, Visited
<1> QED BY InitWake, <1>1, <1>2, PTL DEF Spec
=============================================================================
