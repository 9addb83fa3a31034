------------------------------ MODULE MCPClient ------------------------------
(***************************************************************************)
(* One MCPClient: a subprocess that answers JSON-RPC requests on its       *)
(* stdout, the goroutine that reads the answers (readLoop), the goroutines *)
(* that call, and Start and Stop, which may run beside both.               *)
(*                                                                         *)
(* A request is an id and the number of the call that made it; so is its   *)
(* answer, whether a result or an error.  Lines that are no answer are     *)
(* skipped by readLoop and left out.                                       *)
(***************************************************************************)
EXTENDS Integers, Sequences, FiniteSets

CONSTANTS
  Callers,   \* goroutines that use the client
  MaxCalls,  \* bound: calls made in a behaviour
  MaxLines,  \* bound: answers on their way to readLoop
  MayRepeat, \* whether the server may answer a request twice
  GoesDumb   \* when stdout may end, or carry a line over 1 MB, although the
             \* subprocess still runs: "never", "started" (Start has returned), "always"

ASSUME ClientAssumption ==
  /\ MaxCalls \in Nat /\ MaxLines \in Nat
  /\ MayRepeat \in BOOLEAN /\ GoesDumb \in {"never", "started", "always"}

VARIABLES
  server,    \* the subprocess: "unborn", "alive", "exited"
  stdinOpen, \* whether requests can be written to it
  inbox,     \* the requests it has not answered
  stdout,    \* the answers readLoop has not read
  ended,     \* whether nothing more will be read from stdout
  starter,   \* where Start is
  stopper,   \* where Stop is
  reader,    \* where readLoop is
  visit,     \* the waiters its Range has still to visit
  connected,
  nextID,
  responses, \* the ids registered in the responses map
  chan,      \* what is in the channel of each id
  pc,        \* where each call is
  call,      \* the request of each caller's current call
  calls      \* history: number of calls made

process == <<server, stdinOpen, inbox, stdout, ended>>
control == <<starter, stopper, reader, visit, connected>>
waiting == <<nextID, responses, chan, pc, call, calls>>
vars == <<process, control, waiting>>

Ids == 1 .. MaxCalls
Request == [id : Ids, n : Ids]
NoRequest == [id |-> 0, n |-> 0]

\* The contents of a channel: nothing, readLoop's nil, or the answer to a call.
Empty == 0
Nil == -1
Content == -1 .. MaxCalls

Init ==
  /\ server = "unborn" /\ stdinOpen = FALSE
  /\ inbox = {} /\ stdout = <<>> /\ ended = FALSE
  /\ starter = "idle" /\ stopper = "idle"
  /\ reader = "idle" /\ visit = {}
  /\ connected = FALSE
  /\ nextID = 0 /\ responses = {}
  /\ chan = [i \in Ids |-> Empty]
  /\ pc = [c \in Callers |-> "idle"]
  /\ call = [c \in Callers |-> NoRequest]
  /\ calls = 0

-----------------------------------------------------------------------------
(* The subprocess *)

Answer(r) ==
  /\ server = "alive" /\ ~ended
  /\ r \in inbox /\ Len(stdout) < MaxLines
  /\ stdout' = Append(stdout, r)
  /\ inbox' \in {inbox \ {r}} \union (IF MayRepeat THEN {inbox} ELSE {})
  /\ UNCHANGED <<server, stdinOpen, ended, control, waiting>>

\* It exits, on its own or because stdin was closed; what it wrote can be read.
Exit ==
  /\ server = "alive"
  /\ server' = "exited" /\ ended' = TRUE
  /\ inbox' = {}
  /\ UNCHANGED <<stdinOpen, stdout, control, waiting>>

GoDumb ==
  /\ GoesDumb # "never" /\ (GoesDumb = "started" => starter = "done")
  /\ server = "alive" /\ ~ended
  /\ ended' = TRUE
  /\ UNCHANGED <<server, stdinOpen, inbox, stdout, control, waiting>>

-----------------------------------------------------------------------------
(* Start and Stop *)

\* The subprocess is started and readLoop with it ...
Launch ==
  /\ starter = "idle" /\ starter' = "launched"
  /\ server' = "alive" /\ stdinOpen' = TRUE
  /\ reader' = "reading"
  /\ UNCHANGED <<inbox, stdout, ended, stopper, visit, connected, waiting>>

\* ... and then the client is marked connected, whatever readLoop has come to.
MarkConnected ==
  /\ starter = "launched" /\ starter' = "done"
  /\ connected' = TRUE
  /\ UNCHANGED <<process, stopper, reader, visit, waiting>>

MarkStopped ==
  /\ stopper = "idle" /\ starter # "idle"
  /\ stopper' = "marked"
  /\ connected' = FALSE
  /\ UNCHANGED <<process, starter, reader, visit, waiting>>

CloseStdin ==
  /\ stopper = "marked" /\ stopper' = "closed"
  /\ stdinOpen' = FALSE
  /\ UNCHANGED <<server, inbox, stdout, ended, starter, reader, visit, connected, waiting>>

\* cmd.Wait returns when the subprocess has exited, and closes the stdout pipe
\* under readLoop.
Reap ==
  /\ stopper = "closed" /\ server = "exited"
  /\ stopper' = "done"
  /\ stdout' = <<>>
  /\ UNCHANGED <<server, stdinOpen, inbox, ended, starter, reader, visit, connected, waiting>>

-----------------------------------------------------------------------------
(* readLoop *)

\* LoadAndDelete, then the answer goes into the channel; an answer nobody is
\* registered for is dropped.
ReadAnswer ==
  /\ reader = "reading" /\ stdout # <<>>
  /\ LET r == Head(stdout)
     IN  IF r.id \in responses
         THEN /\ chan[r.id] = Empty
              /\ chan' = [chan EXCEPT ![r.id] = r.n]
              /\ responses' = responses \ {r.id}
         ELSE UNCHANGED <<chan, responses>>
  /\ stdout' = Tail(stdout)
  /\ UNCHANGED <<server, stdinOpen, inbox, ended, control, nextID, pc, call, calls>>

ReadEnd ==
  /\ reader = "reading" /\ stdout = <<>> /\ ended
  /\ reader' = "ended"
  /\ UNCHANGED <<process, starter, stopper, visit, connected, waiting>>

MarkDisconnected ==
  /\ reader = "ended" /\ reader' = "marked"
  /\ connected' = FALSE
  /\ UNCHANGED <<process, starter, stopper, visit, waiting>>

\* The waiters are woken before the client is marked: a call can still get in.
BeginDrain_Early ==
  /\ reader = "ended" /\ reader' = "draining"
  /\ visit' = responses
  /\ UNCHANGED <<process, starter, stopper, connected, waiting>>

\* Range visits every key there is when it begins ...
BeginDrain ==
  /\ reader = "marked" /\ reader' = "draining"
  /\ visit' = responses
  /\ UNCHANGED <<process, starter, stopper, connected, waiting>>

\* The waiters are only taken out of the map.
Drain_Silent(i) ==
  /\ reader = "draining" /\ i \in visit \union responses
  /\ visit' = visit \ {i}
  /\ responses' = responses \ {i}
  /\ UNCHANGED <<process, starter, stopper, reader, connected, nextID, chan, pc, call, calls>>

\* ... unless it is gone by then, and perhaps some that are added meanwhile.
Drain(i) ==
  /\ reader = "draining" /\ i \in visit \union responses
  /\ visit' = visit \ {i}
  /\ IF i \in responses
     THEN /\ chan[i] = Empty
          /\ chan' = [chan EXCEPT ![i] = Nil]
          /\ responses' = responses \ {i}
     ELSE UNCHANGED <<chan, responses>>
  /\ UNCHANGED <<process, starter, stopper, reader, connected, nextID, pc, call, calls>>

EndDrain ==
  /\ reader = "draining" /\ visit = {}
  /\ reader' = "gone"
  /\ UNCHANGED <<process, starter, stopper, visit, connected, waiting>>

ReadLoop ==
  \/ ReadAnswer \/ ReadEnd \/ MarkDisconnected \/ BeginDrain \/ EndDrain
  \/ \E i \in Ids : Drain(i)

-----------------------------------------------------------------------------
(* call *)

\* An id that no registered call has, rather than one that no call had.
Register_Reuse(c) ==
  /\ pc[c] = "idle" /\ calls < MaxCalls
  /\ \E i \in Ids \ responses :
       /\ \A j \in Ids \ responses : i <= j
       /\ call' = [call EXCEPT ![c] = [id |-> i, n |-> calls + 1]]
       /\ chan' = [chan EXCEPT ![i] = Empty]
       /\ responses' = responses \union {i}
  /\ calls' = calls + 1
  /\ pc' = [pc EXCEPT ![c] = "send"]
  /\ UNCHANGED <<process, control, nextID>>

\* The counter is advanced for the waiter and again for the request.
Register_Twice(c) ==
  /\ pc[c] = "idle" /\ calls < MaxCalls
  /\ nextID' = nextID + 2
  /\ calls' = calls + 1
  /\ call' = [call EXCEPT ![c] = [id |-> nextID', n |-> calls']]
  /\ chan' = [chan EXCEPT ![nextID'] = Empty]
  /\ responses' = responses \union {nextID'}
  /\ pc' = [pc EXCEPT ![c] = "send"]
  /\ UNCHANGED <<process, control>>

\* The waiter is registered before the request is sent.
Register(c) ==
  /\ pc[c] = "idle" /\ calls < MaxCalls
  /\ nextID' = nextID + 1
  /\ calls' = calls + 1
  /\ call' = [call EXCEPT ![c] = [id |-> nextID', n |-> calls']]
  /\ chan' = [chan EXCEPT ![nextID'] = Empty]
  /\ responses' = responses \union {nextID'}
  /\ pc' = [pc EXCEPT ![c] = "send"]
  /\ UNCHANGED <<process, control>>

\* call returns: its waiter is unregistered, if it still is registered.
Return(c) ==
  /\ pc' = [pc EXCEPT ![c] = "idle"]
  /\ call' = [call EXCEPT ![c] = NoRequest]
  /\ responses' = responses \ {call[c].id}
  /\ UNCHANGED <<control, nextID, chan, calls>>

Writable == stdinOpen /\ server = "alive"

\* Under the mutex: not connected, or the write fails, or the request is sent.
Send(c) ==
  /\ pc[c] = "send"
  /\ IF connected /\ Writable
     THEN /\ inbox' = inbox \union {call[c]}
          /\ pc' = [pc EXCEPT ![c] = "wait"]
          /\ UNCHANGED <<server, stdinOpen, stdout, ended, control, nextID, responses,
                         chan, call, calls>>
     ELSE Return(c) /\ UNCHANGED process

\* The answer came, or readLoop's nil.
Take(c) ==
  /\ pc[c] = "wait" /\ chan[call[c].id] # Empty
  /\ Return(c) /\ UNCHANGED process

\* The caller's context is done.
Cancel(c) ==
  /\ pc[c] = "wait"
  /\ Return(c) /\ UNCHANGED process

-----------------------------------------------------------------------------
Server == Exit \/ GoDumb \/ \E r \in Request : Answer(r)
Start == Launch \/ MarkConnected
Stop == MarkStopped \/ CloseStdin \/ Reap
Call(c) == Register(c) \/ Send(c) \/ Take(c) \/ Cancel(c)

Next == Server \/ Start \/ Stop \/ ReadLoop \/ \E c \in Callers : Call(c)

Spec == Init /\ [][Next]_vars

\* Goroutines are scheduled.  The server owes nothing, and no context need end.
FairSpec ==
  /\ Spec
  /\ WF_vars(ReadLoop)
  /\ \A c \in Callers : WF_vars(Send(c) \/ Take(c))

-----------------------------------------------------------------------------
(* Properties *)

TypeOK ==
  /\ server \in {"unborn", "alive", "exited"}
  /\ stdinOpen \in BOOLEAN /\ ended \in BOOLEAN /\ connected \in BOOLEAN
  /\ inbox \in SUBSET Request
  /\ stdout \in Seq(Request)
  /\ starter \in {"idle", "launched", "done"}
  /\ stopper \in {"idle", "marked", "closed", "done"}
  /\ reader \in {"idle", "reading", "ended", "marked", "draining", "gone"}
  /\ visit \in SUBSET Ids /\ responses \in SUBSET Ids
  /\ nextID \in 0 .. MaxCalls /\ calls \in 0 .. MaxCalls
  /\ chan \in [Ids -> Content]
  /\ pc \in [Callers -> {"idle", "send", "wait"}]
  /\ call \in [Callers -> Request \union {NoRequest}]

\* What waits in a call's channel is the answer to that very call, or readLoop's
\* nil: never a late answer to an earlier call of its caller, or of another.
OwnAnswer ==
  \A c \in Callers :
    pc[c] = "wait" => chan[call[c].id] \in {Empty, Nil, call[c].n}

\* mcp_client.go: Drain any pending waiters.  readLoop, once gone, has left nobody
\* waiting: a call that found the client connected was registered in time.
NoOneStranded ==
  reader = "gone" => \A c \in Callers : pc[c] = "wait" => chan[call[c].id] # Empty

\* A server that is alive can still answer the call.
Owed(c) == server = "alive" /\ ~ended /\ call[c] \in inbox

\* A call waits only as long as the server that was asked can still answer it:
\* with the answer, or the subprocess, out of the way it returns, although no
\* context is ever done (GBrainBridge's are context.Background).
CallsReturn ==
  \A c \in Callers : pc[c] = "wait" ~> (pc[c] = "idle" \/ Owed(c))
=============================================================================
