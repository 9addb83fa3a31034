------------------------------ MODULE Dispatch ------------------------------
(***************************************************************************)
(* How messages come to be handled.  Discord's gateway runs onMessage in a *)
(* goroutine per event; what is for the agent goes into a queue of its     *)
(* session, which a worker empties.  An /ask command is handled beside the *)
(* queue, and so is every Telegram update; the terminal is read line by    *)
(* line.  What a handler does is in SessionStore and AnswerStream.         *)
(***************************************************************************)
EXTENDS Integers, Sequences, FiniteSets

CONSTANTS
  Messages,         \* sent where Discord's gateway tells of them
  Direct,           \* commands ("ask"), updates ("telegram") and lines ("cli")
  AllowedUserIDs,   \* config
  MentionResponse,  \* config: answers where it is mentioned
  Configs,          \* sets of adapters the config may enable
  QueueSize,        \* capacity of a session's queue (16 in the code)
  Repeated,         \* messages the gateway may tell of more than once
  MaxEvents,        \* bound: events of one of these
  MaxExpired        \* bound: messages whose lifetime passes

ASSUME DispatchAssumption ==
  /\ \A m \in Messages : m.kind \in {"dm", "mention", "aside", "bot"}
  /\ <<>> \notin Messages
  /\ \A d \in Direct : d.via \in {"ask", "telegram", "cli"} /\ d.n \in Nat
  /\ MentionResponse \in BOOLEAN
  /\ Configs \subseteq SUBSET {"discord", "telegram", "cli"}
  /\ QueueSize \in Nat \ {0}
  /\ Repeated \subseteq Messages
  /\ MaxEvents \in Nat /\ MaxExpired \in Nat

VARIABLES
  enabled,    \* the adapters of this process
  at,         \* onMessage of an event: "unborn", "purge", "fetch", "put", "done"
  seen,       \* processedMsgs: of a message "no", "fresh" or "old" (past its lifetime)
  stale,      \* what an event's Range has found old and has not deleted yet
  queues,     \* sessionQueues: which event made the channel of a session
  channel,    \* the channel an event is to send to, by the event that made it
  queue,      \* what is in the channel an event made
  job,        \* what the worker an event started is handling
  direct,     \* "new", "handling", "handled", "dropped"
  accepted,   \* history: per user, messages in the order they entered a queue
  started,    \* history: per user, messages in the order workers took them
  expired     \* history: messages that were remembered for a lifetime

remembering == <<seen, stale, expired>>
queueing == <<queues, channel>>
working == <<queue, job, accepted, started>>
vars == <<enabled, at, remembering, queueing, working, direct>>

-----------------------------------------------------------------------------
Event == (Messages \X {1}) \union (Repeated \X (1 .. MaxEvents))
Msg(e) == e[1]
Users == {m.user : m \in Messages}

None == <<>>

\* One session for all.
SessionID_Shared(user) == "main:discord"

SessionID(user) == <<"main:discord", user>>

\* Both may be enabled: Discord takes precedence.
Runs(adapter) ==
  /\ adapter \in enabled
  /\ adapter = "telegram" => "discord" \notin enabled

IsAllowed(user) == user \in AllowedUserIDs

\* Which messages onMessage lets through once it knows their channel.
ForAgent(m) ==
  /\ m.kind = "dm" \/ (m.kind = "mention" /\ MentionResponse)
  /\ IsAllowed(m.user)

Init ==
  /\ enabled \in Configs
  /\ at = [e \in Event |-> "unborn"]
  /\ seen = [m \in Messages |-> "no"]
  /\ stale = [e \in Event |-> {}]
  /\ queues = {}
  /\ channel = [e \in Event |-> None]
  /\ queue = [e \in Event |-> <<>>]
  /\ job = [e \in Event |-> None]
  /\ direct = [d \in Direct |-> "new"]
  /\ accepted = [u \in Users |-> <<>>]
  /\ started = [u \in Users |-> <<>>]
  /\ expired = {}

Goes(e, label) == at' = [at EXCEPT ![e] = label]

-----------------------------------------------------------------------------
(* onMessage, a goroutine for each event *)

\* The gateway tells of a message, perhaps again; LoadOrStore lets one event through.
OnMessage(e) ==
  /\ Runs("discord")
  /\ at[e] = "unborn" /\ \A d \in 1 .. e[2] - 1 : at[<<Msg(e), d>>] # "unborn"
  /\ \/ /\ Msg(e).kind = "bot" \/ seen[Msg(e)] # "no"
        /\ Goes(e, "done") /\ UNCHANGED seen
     \/ /\ Msg(e).kind # "bot" /\ seen[Msg(e)] = "no"
        /\ Goes(e, "purge") /\ seen' = [seen EXCEPT ![Msg(e)] = "fresh"]
  /\ UNCHANGED <<enabled, stale, expired, queueing, working, direct>>

\* processedMsgTTL passes.
Expire(m) ==
  /\ seen[m] = "fresh" /\ Cardinality(expired \union {m}) <= MaxExpired
  /\ seen' = [seen EXCEPT ![m] = "old"]
  /\ expired' = expired \union {m}
  /\ UNCHANGED <<enabled, at, stale, queueing, working, direct>>

\* The comparison with the lifetime the other way round.
Stale_Young == {m \in Messages : seen[m] = "fresh"}

Stale == {m \in Messages : seen[m] = "old"}

\* Range finds old entries (one by one; an entry that turns old meanwhile is found here or by
\* a later purge) ...
Purge(e) ==
  /\ at[e] = "purge" /\ stale[e] = {}
  /\ stale' = [stale EXCEPT ![e] = Stale]
  /\ Goes(e, IF Stale = {} THEN "fetch" ELSE "purge")
  /\ UNCHANGED <<enabled, seen, expired, queueing, working, direct>>

\* ... and deletes them, whatever they are by then.
Delete(e) ==
  /\ at[e] = "purge" /\ stale[e] # {}
  /\ seen' = [m \in Messages |-> IF m \in stale[e] THEN "no" ELSE seen[m]]
  /\ stale' = [stale EXCEPT ![e] = {}]
  /\ Goes(e, "fetch")
  /\ UNCHANGED <<enabled, expired, queueing, working, direct>>

\* The channel is neither cached nor to be had, or the message is not for the agent.
Drop(e) ==
  /\ at[e] = "fetch"
  /\ Goes(e, "done")
  /\ UNCHANGED <<enabled, remembering, queueing, working, direct>>

\* The queue of a session; several may be there for a moment.
QueuesOf(user) == {q \in queues : q.session = SessionID(user)}

\* The channel is stored over what is there.
FindQueue_Store(e) ==
  /\ at[e] = "fetch" /\ ForAgent(Msg(e))
  /\ queues' = (queues \ QueuesOf(Msg(e).user)) \union
                 {[session |-> SessionID(Msg(e).user), maker |-> e]}
  /\ channel' = [channel EXCEPT ![e] = e]
  /\ Goes(e, "put")
  /\ UNCHANGED <<enabled, remembering, working, direct>>

\* enqueue: LoadOrStore finds the session's channel or puts this event's own there,
\* with a worker for it.
FindQueue(e) ==
  /\ at[e] = "fetch" /\ ForAgent(Msg(e))
  /\ \/ \E q \in QueuesOf(Msg(e).user) :
          channel' = [channel EXCEPT ![e] = q.maker] /\ UNCHANGED queues
     \/ /\ QueuesOf(Msg(e).user) = {}
        /\ queues' = queues \union {[session |-> SessionID(Msg(e).user), maker |-> e]}
        /\ channel' = [channel EXCEPT ![e] = e]
  /\ Goes(e, "put")
  /\ UNCHANGED <<enabled, remembering, working, direct>>

Accept(m) == accepted' = [accepted EXCEPT ![m.user] = Append(@, m)]

\* A channel without a limit.
Put_Unbounded(e) ==
  /\ at[e] = "put" /\ Goes(e, "done")
  /\ queue' = [queue EXCEPT ![channel[e]] = Append(@, Msg(e))]
  /\ Accept(Msg(e))
  /\ UNCHANGED <<enabled, remembering, queueing, job, started, direct>>

\* The message enters the queue, or is dropped if that is full.
Put(e) ==
  /\ at[e] = "put" /\ Goes(e, "done")
  /\ \/ /\ Len(queue[channel[e]]) < QueueSize
        /\ queue' = [queue EXCEPT ![channel[e]] = Append(@, Msg(e))]
        /\ Accept(Msg(e))
     \/ /\ Len(queue[channel[e]]) >= QueueSize
        /\ UNCHANGED <<queue, accepted>>
  /\ UNCHANGED <<enabled, remembering, queueing, job, started, direct>>

Handler(e) ==
  OnMessage(e) \/ Purge(e) \/ Delete(e) \/ Drop(e) \/ FindQueue(e) \/ Put(e)

-----------------------------------------------------------------------------
(* The worker that an event started with its channel *)

\* The last message that came goes first.
Take_Newest(e) ==
  /\ job[e] = None /\ queue[e] # <<>>
  /\ LET last == Len(queue[e]) IN
       /\ job' = [job EXCEPT ![e] = queue[e][last]]
       /\ queue' = [queue EXCEPT ![e] = SubSeq(@, 1, last - 1)]
       /\ started' = [started EXCEPT ![job'[e].user] = Append(@, job'[e])]
  /\ UNCHANGED <<enabled, at, remembering, queueing, accepted, direct>>

Take(e) ==
  /\ job[e] = None /\ queue[e] # <<>>
  /\ job' = [job EXCEPT ![e] = Head(queue[e])]
  /\ queue' = [queue EXCEPT ![e] = Tail(@)]
  /\ started' = [started EXCEPT ![Head(queue[e]).user] = Append(@, Head(queue[e]))]
  /\ UNCHANGED <<enabled, at, remembering, queueing, accepted, direct>>

\* process is back.
Finish(e) ==
  /\ job[e] # None
  /\ job' = [job EXCEPT ![e] = None]
  /\ UNCHANGED <<enabled, at, remembering, queueing, queue, accepted, started, direct>>

Worker(e) == Take(e) \/ Finish(e)

-----------------------------------------------------------------------------
(* Turns that no queue holds back *)

DirectOnly == UNCHANGED <<enabled, at, remembering, queueing, working>>

Becomes(d, state) == direct' = [direct EXCEPT ![d] = state]

\* onInteraction: acknowledged, the command gets a goroutine; it is dropped if
\* the user is refused or the acknowledgement fails.
OnInteraction(d) ==
  /\ d.via = "ask" /\ Runs("discord") /\ direct[d] = "new"
  /\ \/ IsAllowed(d.user) /\ Becomes(d, "handling")
     \/ Becomes(d, "dropped")
  /\ DirectOnly

\* Telegram's loop takes updates as they come, and starts a goroutine for each.
OnUpdate(d) ==
  /\ d.via = "telegram" /\ Runs("telegram") /\ direct[d] = "new"
  /\ \A x \in Direct : x.via = "telegram" /\ x.n < d.n => direct[x] # "new"
  /\ Becomes(d, IF IsAllowed(d.user) THEN "handling" ELSE "dropped")
  /\ DirectOnly

\* The terminal's next line, once the one before is answered.
ReadLine(d) ==
  /\ d.via = "cli" /\ Runs("cli") /\ direct[d] = "new"
  /\ \A x \in Direct : x.via = "cli" /\ x.n < d.n => direct[x] = "handled"
  /\ Becomes(d, "handling")
  /\ DirectOnly

EndDirect(d) ==
  /\ direct[d] = "handling"
  /\ Becomes(d, "handled")
  /\ DirectOnly

TurnBeside(d) == OnInteraction(d) \/ OnUpdate(d) \/ ReadLine(d) \/ EndDirect(d)

-----------------------------------------------------------------------------
Next ==
  \/ \E e \in Event : Handler(e) \/ Worker(e)
  \/ \E m \in Messages : Expire(m)
  \/ \E d \in Direct : TurnBeside(d)

Spec == Init /\ [][Next]_vars

-----------------------------------------------------------------------------
(* Properties *)

TypeOK ==
  /\ enabled \in Configs
  /\ at \in [Event -> {"unborn", "purge", "fetch", "put", "done"}]
  /\ seen \in [Messages -> {"no", "fresh", "old"}]
  /\ stale \in [Event -> SUBSET Messages]
  /\ queues \subseteq [session : {SessionID(u) : u \in Users}, maker : Event]
  /\ channel \in [Event -> Event \union {None}]
  /\ \A e \in Event : at[e] = "put" => channel[e] \in Event
  /\ queue \in [Event -> Seq(Messages)]
  /\ \A e \in Event : Len(queue[e]) <= QueueSize
  /\ job \in [Event -> Messages \union {None}]
  /\ direct \in [Direct -> {"new", "handling", "handled", "dropped"}]
  /\ accepted \in [Users -> Seq(Messages)]
  /\ started \in [Users -> Seq(Messages)]
  /\ expired \subseteq Messages

\* discord.go, enqueue: "Prevents concurrent handlers from racing on the same
\* session".  However many events arrive at once, a session has one queue and one
\* worker, so two of its queued messages are never handled together; nor are two lines
\* of the terminal.
OneAtATime ==
  /\ \A e, f \in Event :
       job[e] # None /\ job[f] # None /\ job[e].user = job[f].user => e = f
  /\ \A c, d \in Direct :
       /\ c.via = "cli" /\ direct[c] = "handling"
       /\ d.via = "cli" /\ direct[d] = "handling"
       => c.n = d.n

\* What a session has accepted is handled in the order it was accepted: nothing is
\* lost between the queue and the worker, and nothing is handled twice.
InOrderAccepted ==
  \A q \in queues : \A u \in Users :
    q.session = SessionID(u) => started[u] \o queue[q.maker] = accepted[u]

\* discord.go: "drop duplicate Gateway events for the same message ID".  However
\* events of a message race, with each other and with purges for other messages, it is
\* accepted once, unless its lifetime in the map is over.
OnceWhileRemembered ==
  \A m \in Messages \ expired :
    \A i, j \in 1 .. Len(accepted[m.user]) :
      accepted[m.user][i] = m /\ accepted[m.user][j] = m => i = j

WorkerOf(u) ==
  \E e \in Event :
    \/ job[e] = None /\ queue[e] # <<>> /\ Head(queue[e]).user = u /\ Take(e)
    \/ job[e] # None /\ job[e].user = u /\ Finish(e)

\* An accepted message is handled as long as the turns of its own session come to an
\* end: no other session's turn, /ask command or full queue holds it back (enqueue
\* makes a queue and a worker per session).
AcceptedHandled ==
  \A u \in Users :
    WF_vars(WorkerOf(u)) =>
      \A n \in 1 .. Cardinality({e \in Event : Msg(e).user = u}) :
        Len(accepted[u]) >= n ~> Len(started[u]) >= n
=============================================================================
