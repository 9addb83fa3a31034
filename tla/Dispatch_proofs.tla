-------------------------- MODULE Dispatch_proofs --------------------------
(***************************************************************************)
(* Theorems about Dispatch, for any messages, users, events and capacity:  *)
(* a session's queued messages are handled one at a time and in order, and *)
(* a message is accepted once while it is remembered.                      *)
(***************************************************************************)
EXTENDS Dispatch, SequenceTheorems, TLAPS

\* The queue a user's messages are sent to, if its channel was made by event e.
Queue(u, e) == [session |-> SessionID(u), maker |-> e]

\* A session has one queue, made for it, and all that was accepted or is being
\* handled went through the channel of a queue of its user.
Routed ==
  /\ \A q, r \in queues : q.session = r.session => q = r
  /\ \A q \in queues : q.session = SessionID(Msg(q.maker).user)
  /\ \A e \in Event : at[e] = "put" => Queue(Msg(e).user, channel[e]) \in queues
  /\ \A e \in Event : queue[e] # <<>> \/ job[e] # None => Queue(Msg(e).user, e) \in queues
  /\ \A e \in Event : \A i \in 1 .. Len(queue[e]) : queue[e][i].user = Msg(e).user
  /\ \A e \in Event : job[e] # None => job[e].user = Msg(e).user

\* What the workers took and what is queued is what was accepted.
Ordered ==
  /\ InOrderAccepted
  /\ \A u \in Users :
       (\A q \in queues : q.session # SessionID(u)) =>
         accepted[u] = <<>> /\ started[u] = <<>>

\* The lines before one that was read are answered.
LinesInTurn ==
  \A c, d \in Direct :
    c.via = "cli" /\ d.via = "cli" /\ direct[c] # "new" /\ d.n < c.n =>
      direct[d] = "handled"

Active(e) == at[e] \in {"purge", "fetch", "put"}

NotAccepted(m) == \A i \in 1 .. Len(accepted[m.user]) : accepted[m.user][i] # m

\* While a message is remembered, at most one event of it got through, and it has
\* either been accepted or not been decided.
OnceInv ==
  \A m \in Messages \ expired :
    /\ seen[m] # "old"
    /\ \A e \in Event : m \notin stale[e]
    /\ seen[m] = "no" =>
         NotAccepted(m) /\ \A e \in Event : Msg(e) = m => ~Active(e)
    /\ \A e, f \in Event : Msg(e) = m /\ Msg(f) = m /\ Active(e) /\ Active(f) => e = f
    /\ \A e \in Event : Msg(e) = m /\ Active(e) => NotAccepted(m)

Inv == TypeOK /\ Routed /\ Ordered /\ LinesInTurn /\ OnceInv /\ OnceWhileRemembered

-----------------------------------------------------------------------------
LEMMA EventFacts == \A e \in Event : Msg(e) \in Messages /\ Msg(e).user \in Users
BY DispatchAssumption DEF Event, Msg, Users

LEMMA OneSessionEach == \A u, v : SessionID(u) = SessionID(v) => u = v
BY DEF SessionID

\* Cutting a sequence elsewhere.
LEMMA MoveHead ==
  ASSUME NEW S, NEW s \in Seq(S), NEW q \in Seq(S), q # <<>>
  PROVE  Append(s, Head(q)) \o Tail(q) = s \o q
<1>1. Head(q) \in S /\ Tail(q) \in Seq(S) /\ Len(q) \in Nat \ {0} /\ Head(q) = q[1]
  BY HeadTailProperties, EmptySeq
<1>2. q = <<Head(q)>> \o Tail(q)
  <2>1. 1 \in 1 .. Len(q) /\ Len(q) \in 1 .. Len(q)
    BY <1>1
  <2>2. SubSeq(q, 1, Len(q)) = <<q[1]>> \o SubSeq(q, 1 + 1, Len(q))
    BY <2>1, SubSeqRecursiveFirst
  <2> QED BY <1>1, <2>2, SubSeqFull, TailIsSubSeq
<1>3. <<Head(q)>> \in Seq(S)
  BY <1>1
<1>4. Append(s, Head(q)) = s \o <<Head(q)>>
  BY <1>1, AppendIsConcat
<1>5. (s \o <<Head(q)>>) \o Tail(q) = s \o (<<Head(q)>> \o Tail(q))
  BY <1>1, <1>3, ConcatAssociative
<1> QED BY <1>2, <1>4, <1>5

\* Sending to the end.
LEMMA MoveAppend ==
  ASSUME NEW S, NEW s \in Seq(S), NEW q \in Seq(S), NEW x \in S
  PROVE  s \o Append(q, x) = Append(s \o q, x)
<1>1. <<x>> \in Seq(S) /\ s \o q \in Seq(S)
  BY ConcatProperties
<1>2. Append(q, x) = q \o <<x>> /\ Append(s \o q, x) = (s \o q) \o <<x>>
  BY <1>1, AppendIsConcat
<1>3. (s \o q) \o <<x>> = s \o (q \o <<x>>)
  BY <1>1, ConcatAssociative
<1> QED BY <1>2, <1>3

-----------------------------------------------------------------------------
LEMMA InitInv == Init => Inv
<1> SUFFICES ASSUME Init PROVE Inv
  OBVIOUS
<1>1. TypeOK
  <2>1. <<>> \in Seq(Messages)
    BY EmptySeq
  <2> QED BY <2>1, DispatchAssumption DEF Init, TypeOK, None
<1>2. Routed /\ Ordered /\ LinesInTurn
  BY DEF Init, Routed, Ordered, InOrderAccepted, LinesInTurn
<1>3. OnceInv /\ OnceWhileRemembered
  BY EventFacts DEF Init, OnceInv, OnceWhileRemembered, Active, NotAccepted, Users
<1> QED BY <1>1, <1>2, <1>3 DEF Inv

\* Steps that touch neither queues nor what workers do.
LEMMA QuietQueues ==
  ASSUME Inv, UNCHANGED <<queueing, working>>, \A e \in Event : at'[e] = "put" => at[e] = "put"
  PROVE  Routed' /\ Ordered'
BY DEF Inv, queueing, working, Routed, Ordered, InOrderAccepted

\* Steps that let no event through and decide none.
LEMMA QuietOnce ==
  ASSUME Inv, UNCHANGED <<seen, expired, accepted>>,
         \A e \in Event : at'[e] = at[e] \/ at'[e] = "done" \/ (Active(e) /\ Active(e)'),
         \A e \in Event : stale'[e] \in {stale[e], {}, Stale}
  PROVE  OnceInv' /\ OnceWhileRemembered'
<1>1. \A e \in Event : Active(e)' => Active(e)
  BY DEF Active
<1>2. \A m \in Messages \ expired : \A e \in Event : m \notin stale'[e]
  BY DEF Inv, OnceInv, Stale
<1> QED BY <1>1, <1>2 DEF Inv, OnceInv, OnceWhileRemembered, NotAccepted

LEMMA OnMessageKeeps == ASSUME Inv, NEW e \in Event, OnMessage(e) PROVE Inv'
<1> DEFINE m == Msg(e)
<1>1. /\ at[e] = "unborn" /\ UNCHANGED <<enabled, stale, expired, queueing, working, direct>>
      /\ \/ at' = [at EXCEPT ![e] = "done"] /\ UNCHANGED seen
         \/ /\ at' = [at EXCEPT ![e] = "purge"] /\ seen[m] = "no"
            /\ seen' = [seen EXCEPT ![m] = "fresh"]
  BY DEF OnMessage, Goes
<1>2. m \in Messages
  BY EventFacts
<1>3. TypeOK'
  <2>1. /\ at' \in [Event -> {"unborn", "purge", "fetch", "put", "done"}]
        /\ \A f \in Event : at'[f] = "put" => at[f] = "put"
    BY <1>1 DEF Inv, TypeOK
  <2>2. seen' \in [Messages -> {"no", "fresh", "old"}]
    BY <1>1, <1>2 DEF Inv, TypeOK
  <2> QED BY <1>1, <2>1, <2>2 DEF Inv, TypeOK, queueing, working
<1>4. \A f \in Event : at'[f] = "put" => at[f] = "put"
  BY <1>1 DEF Inv, TypeOK
<1>5. LinesInTurn'
  BY <1>1 DEF Inv, LinesInTurn
<1>6. OnceInv' /\ OnceWhileRemembered'
  <2>1. CASE at' = [at EXCEPT ![e] = "done"] /\ UNCHANGED seen
    <3>1. \A f \in Event : at'[f] = at[f] \/ at'[f] = "done"
      BY <2>1 DEF Inv, TypeOK
    <3>2. UNCHANGED <<seen, expired, accepted, stale>>
      BY <2>1, <1>1 DEF working
    <3> QED BY <3>1, <3>2, QuietOnce
  <2>2. CASE /\ at' = [at EXCEPT ![e] = "purge"] /\ seen[m] = "no"
             /\ seen' = [seen EXCEPT ![m] = "fresh"]
    <3>1. /\ \A f \in Event : f # e => (Active(f)' <=> Active(f))
          /\ \A k \in Messages : seen'[k] = IF k = m THEN "fresh" ELSE seen[k]
          /\ UNCHANGED accepted
      BY <2>2, <1>1 DEF Inv, TypeOK, Active, working
    <3>2. m \in Messages \ expired =>
            NotAccepted(m) /\ \A f \in Event : Msg(f) = m => ~Active(f)
      BY <2>2, <1>2 DEF Inv, OnceInv
    <3>3. OnceInv'
      <4> SUFFICES ASSUME NEW k \in Messages \ expired
                   PROVE  /\ seen'[k] # "old"
                          /\ \A f \in Event : k \notin stale'[f]
                          /\ seen'[k] = "no" =>
                               NotAccepted(k)' /\ \A f \in Event : Msg(f) = k => ~Active(f)'
                          /\ \A f, g \in Event : Msg(f) = k /\ Msg(g) = k /\ Active(f)' /\ Active(g)'
                               => f = g
                          /\ \A f \in Event : Msg(f) = k /\ Active(f)' => NotAccepted(k)'
        BY <1>1 DEF OnceInv
      <4>1. NotAccepted(k)' <=> NotAccepted(k)
        BY <3>1 DEF NotAccepted
      <4>2. CASE k = m
        BY <4>1, <4>2, <3>1, <3>2, <1>1 DEF Inv, OnceInv
      <4>3. CASE k # m
        BY <4>1, <4>3, <3>1, <1>1 DEF Inv, OnceInv
      <4> QED BY <4>2, <4>3
    <3>4. OnceWhileRemembered'
      BY <3>1, <1>1 DEF Inv, OnceWhileRemembered
    <3> QED BY <3>3, <3>4
  <2> QED BY <1>1, <2>1, <2>2
<1> QED BY <1>1, <1>3, <1>4, <1>5, <1>6, QuietQueues DEF Inv

LEMMA ExpireKeeps == ASSUME Inv, NEW m \in Messages, Expire(m) PROVE Inv'
<1>1. /\ seen' = [seen EXCEPT ![m] = "old"] /\ expired' = expired \union {m}
      /\ UNCHANGED <<enabled, at, stale, queueing, working, direct>>
  BY DEF Expire
<1>2. TypeOK'
  BY <1>1 DEF Inv, TypeOK, queueing, working
<1>3. Routed' /\ Ordered'
  BY <1>1, QuietQueues
<1>4. LinesInTurn'
  BY <1>1 DEF Inv, LinesInTurn
<1>5. \A k \in Messages \ expired' : seen'[k] = seen[k] /\ k \in Messages \ expired
  BY <1>1 DEF Inv, TypeOK
<1>6. OnceInv' /\ OnceWhileRemembered'
  BY <1>1, <1>5 DEF Inv, OnceInv, OnceWhileRemembered, Active, NotAccepted, working
<1> QED BY <1>2, <1>3, <1>4, <1>6 DEF Inv

LEMMA PurgeKeeps == ASSUME Inv, NEW e \in Event, Purge(e) PROVE Inv'
<1>1. /\ at[e] = "purge" /\ stale' = [stale EXCEPT ![e] = Stale]
      /\ \E l \in {"fetch", "purge"} : at' = [at EXCEPT ![e] = l]
      /\ UNCHANGED <<enabled, seen, expired, queueing, working, direct>>
  BY DEF Purge, Goes
<1>2. TypeOK'
  BY <1>1 DEF Inv, TypeOK, queueing, working, Stale
<1>3. \A f \in Event : /\ at'[f] = at[f] \/ (Active(f) /\ Active(f)')
                       /\ at'[f] = "put" => at[f] = "put"
                       /\ stale'[f] \in {stale[f], Stale}
  BY <1>1 DEF Inv, TypeOK, Active
<1>4. Routed' /\ Ordered'
  BY <1>1, <1>3, QuietQueues
<1>5. OnceInv' /\ OnceWhileRemembered'
  <2>1. UNCHANGED <<seen, expired, accepted>>
    BY <1>1 DEF working
  <2> QED BY <2>1, <1>3, QuietOnce
<1>6. LinesInTurn'
  BY <1>1 DEF Inv, LinesInTurn
<1> QED BY <1>2, <1>4, <1>5, <1>6 DEF Inv

LEMMA DeleteKeeps == ASSUME Inv, NEW e \in Event, Delete(e) PROVE Inv'
<1>1. /\ at[e] = "purge" /\ at' = [at EXCEPT ![e] = "fetch"]
      /\ seen' = [m \in Messages |-> IF m \in stale[e] THEN "no" ELSE seen[m]]
      /\ stale' = [stale EXCEPT ![e] = {}]
      /\ UNCHANGED <<enabled, expired, queueing, working, direct>>
  BY DEF Delete, Goes
<1>2. TypeOK'
  <2>1. seen' \in [Messages -> {"no", "fresh", "old"}]
    BY <1>1 DEF Inv, TypeOK
  <2> QED BY <1>1, <2>1 DEF Inv, TypeOK, queueing, working
<1>3. \A f \in Event : /\ Active(f)' => Active(f)
                       /\ at'[f] = "put" => at[f] = "put"
                       /\ stale'[f] \subseteq stale[f]
  BY <1>1 DEF Inv, TypeOK, Active
<1>4. Routed' /\ Ordered'
  BY <1>1, <1>3, QuietQueues
<1>5. \A k \in Messages \ expired : seen'[k] = seen[k]
  BY <1>1 DEF Inv, OnceInv
<1>6. OnceInv' /\ OnceWhileRemembered'
  BY <1>1, <1>3, <1>5 DEF Inv, OnceInv, OnceWhileRemembered, NotAccepted, working
<1>7. LinesInTurn'
  BY <1>1 DEF Inv, LinesInTurn
<1> QED BY <1>2, <1>4, <1>6, <1>7 DEF Inv

LEMMA DropKeeps == ASSUME Inv, NEW e \in Event, Drop(e) PROVE Inv'
<1>1. /\ at' = [at EXCEPT ![e] = "done"]
      /\ UNCHANGED <<enabled, remembering, queueing, working, direct>>
  BY DEF Drop, Goes
<1>2. TypeOK'
  BY <1>1 DEF Inv, TypeOK, remembering, queueing, working
<1>3. \A f \in Event : at'[f] = at[f] \/ at'[f] = "done"
  BY <1>1 DEF Inv, TypeOK
<1>4. Routed' /\ Ordered'
  BY <1>1, <1>3, QuietQueues
<1>5. OnceInv' /\ OnceWhileRemembered'
  BY <1>1, <1>3, QuietOnce DEF remembering, working
<1>6. LinesInTurn'
  BY <1>1 DEF Inv, LinesInTurn
<1> QED BY <1>2, <1>4, <1>5, <1>6 DEF Inv

\* LoadOrStore: the queue there is, or the event's own when there is none.
LEMMA FindQueueKeeps == ASSUME Inv, NEW e \in Event, FindQueue(e) PROVE Inv'
<1> DEFINE u == Msg(e).user
<1>1. /\ at[e] = "fetch" /\ at' = [at EXCEPT ![e] = "put"]
      /\ UNCHANGED <<enabled, remembering, working, direct>>
      /\ \/ \E q \in queues : /\ q.session = SessionID(u)
                             /\ channel' = [channel EXCEPT ![e] = q.maker]
                             /\ UNCHANGED queues
         \/ /\ \A q \in queues : q.session # SessionID(u)
            /\ queues' = queues \union {Queue(u, e)}
            /\ channel' = [channel EXCEPT ![e] = e]
  BY DEF FindQueue, Goes, QueuesOf, Queue
<1>2. PICK c \in Event : channel' = [channel EXCEPT ![e] = c] /\ Queue(u, c) \in queues'
  BY <1>1 DEF Inv, TypeOK, Queue
<1>3. /\ queues \subseteq queues'
      /\ queues' # queues => \A q \in queues : q.session # SessionID(u)
      /\ queues' \subseteq queues \union {Queue(u, e)}
  BY <1>1
<1>4. TypeOK'
  <2>1. u \in Users
    BY EventFacts
  <2>2. queues' \subseteq [session : {SessionID(v) : v \in Users}, maker : Event]
    BY <1>3, <2>1 DEF Inv, TypeOK, Queue
  <2>3. \A f \in Event : at'[f] = "put" => channel'[f] \in Event
    BY <1>1, <1>2 DEF Inv, TypeOK
  <2> QED BY <1>1, <1>2, <2>2, <2>3 DEF Inv, TypeOK, remembering, working
<1>5. Routed'
  <2>1. \A q, r \in queues' : q.session = r.session => q = r
    BY <1>3 DEF Inv, Routed, Queue
  <2>2. \A q \in queues' : q.session = SessionID(Msg(q.maker).user)
    BY <1>3 DEF Inv, Routed, Queue
  <2>3. \A f \in Event : at'[f] = "put" => Queue(Msg(f).user, channel'[f]) \in queues'
    BY <1>1, <1>2, <1>3 DEF Inv, TypeOK, Routed
  <2> QED BY <2>1, <2>2, <2>3, <1>1, <1>3 DEF Inv, Routed, working
<1>6. Ordered'
  <2> SUFFICES ASSUME NEW v \in Users
               PROVE  /\ \A q \in queues' : q.session = SessionID(v) =>
                            started[v] \o queue[q.maker] = accepted[v]
                      /\ (\A q \in queues' : q.session # SessionID(v)) =>
                            accepted[v] = <<>> /\ started[v] = <<>>
    BY <1>1 DEF Ordered, InOrderAccepted, working
  <2>1. (\A q \in queues : q.session # SessionID(v)) => accepted[v] = <<>> /\ started[v] = <<>>
    BY DEF Inv, Ordered
  <2>2. ASSUME NEW q \in queues', q.session = SessionID(v)
        PROVE  started[v] \o queue[q.maker] = accepted[v]
    <3>1. CASE q \in queues
      BY <2>2, <3>1 DEF Inv, Ordered, InOrderAccepted
    <3>2. CASE q \notin queues
      <4>1. q = Queue(u, e) /\ u = v
        BY <2>2, <3>2, <1>3, OneSessionEach DEF Queue
      <4>2. \A r \in queues : r.session # SessionID(u)
        BY <3>2, <1>3
      <4>3. queue[e] = <<>>
        BY <4>2 DEF Inv, Routed, Queue
      <4>4. <<>> \o <<>> = <<>>
        BY EmptySeq, ConcatEmptySeq
      <4> QED BY <4>1, <4>2, <4>3, <4>4, <2>1 DEF Queue
    <3> QED BY <3>1, <3>2
  <2> QED BY <1>3, <2>1, <2>2
<1>7. OnceInv' /\ OnceWhileRemembered'
  <2>1. \A f \in Event : at'[f] = at[f] \/ (Active(f) /\ Active(f)')
    BY <1>1 DEF Inv, TypeOK, Active
  <2> QED BY <1>1, <2>1, QuietOnce DEF remembering, working
<1>8. LinesInTurn'
  BY <1>1 DEF Inv, LinesInTurn
<1> QED BY <1>4, <1>5, <1>6, <1>7, <1>8 DEF Inv

\* A step of a direct turn.
LEMMA DirectKeeps == ASSUME Inv, NEW d \in Direct, TurnBeside(d) PROVE Inv'
<1>1. /\ UNCHANGED <<enabled, at, remembering, queueing, working>>
      /\ \E s \in {"handling", "handled", "dropped"} : direct' = [direct EXCEPT ![d] = s]
  BY DEF TurnBeside, OnInteraction, OnUpdate, ReadLine, EndDirect, DirectOnly, Becomes
<1>2. TypeOK'
  BY <1>1 DEF Inv, TypeOK, remembering, queueing, working
<1>3. Routed' /\ Ordered'
  BY <1>1, QuietQueues
<1>4. OnceInv' /\ OnceWhileRemembered'
  BY <1>1 DEF Inv, OnceInv, OnceWhileRemembered, Active, NotAccepted, remembering, working
<1>5. LinesInTurn'
  <2>1. d.via = "cli" => ReadLine(d) \/ EndDirect(d)
    BY DEF TurnBeside, OnInteraction, OnUpdate
  <2>2. CASE d.via = "cli" /\ ReadLine(d)
    <3>1. \A x \in Direct : x.via = "cli" /\ x.n < d.n => direct[x] = "handled"
      BY <2>2 DEF ReadLine
    <3>2. /\ direct' = [direct EXCEPT ![d] = "handling"] /\ direct[d] = "new"
      BY <2>2 DEF ReadLine, Becomes
    <3>3. ~(d.n < d.n)
      BY DispatchAssumption
    <3> QED BY <3>1, <3>2, <3>3 DEF Inv, TypeOK, LinesInTurn
  <2>3. CASE d.via = "cli" /\ EndDirect(d)
    BY <2>3 DEF EndDirect, Becomes, Inv, TypeOK, LinesInTurn
  <2>4. CASE d.via # "cli"
    BY <1>1, <2>4 DEF Inv, TypeOK, LinesInTurn
  <2> QED BY <2>1, <2>2, <2>3, <2>4
<1> QED BY <1>2, <1>3, <1>4, <1>5 DEF Inv

LEMMA FinishKeeps == ASSUME Inv, NEW e \in Event, Finish(e) PROVE Inv'
<1>1. /\ job' = [job EXCEPT ![e] = None]
      /\ UNCHANGED <<enabled, at, remembering, queueing, queue, accepted, started, direct>>
  BY DEF Finish
<1>2. TypeOK'
  BY <1>1 DEF Inv, TypeOK, remembering, queueing
<1>3. Routed'
  BY <1>1 DEF Inv, TypeOK, Routed, queueing
<1>4. Ordered' /\ LinesInTurn'
  BY <1>1 DEF Inv, Ordered, InOrderAccepted, LinesInTurn, queueing
<1>5. OnceInv' /\ OnceWhileRemembered'
  BY <1>1 DEF Inv, OnceInv, OnceWhileRemembered, Active, NotAccepted, remembering
<1> QED BY <1>2, <1>3, <1>4, <1>5 DEF Inv

\* A worker moves the head of its queue to what was started.
LEMMA TakeKeeps == ASSUME Inv, NEW e \in Event, Take(e) PROVE Inv'
<1> DEFINE h == Head(queue[e])
           u == Msg(e).user
<1>1. /\ queue[e] # <<>> /\ queue[e] \in Seq(Messages)
      /\ h \in Messages /\ h = queue[e][1] /\ h.user = u /\ u \in Users
      /\ Tail(queue[e]) \in Seq(Messages) /\ Len(queue[e]) \in Nat \ {0}
      /\ Len(Tail(queue[e])) = Len(queue[e]) - 1
      /\ \A i \in 1 .. Len(Tail(queue[e])) : Tail(queue[e])[i] = queue[e][i + 1]
  <2>1. queue[e] # <<>> /\ queue[e] \in Seq(Messages)
    BY DEF Take, Inv, TypeOK
  <2>2. Len(queue[e]) \in Nat \ {0} /\ h = queue[e][1]
    BY <2>1, EmptySeq
  <2>3. h.user = u
    BY <2>2 DEF Inv, Routed
  <2> QED BY <2>1, <2>2, <2>3, HeadTailProperties, EventFacts
<1>2. /\ job' = [job EXCEPT ![e] = h]
      /\ queue' = [queue EXCEPT ![e] = Tail(queue[e])]
      /\ started' = [started EXCEPT ![u] = Append(started[u], h)]
      /\ UNCHANGED <<enabled, at, remembering, queueing, accepted, direct>>
  BY <1>1 DEF Take
<1> HIDE DEF h
<1>3. started[u] \in Seq(Messages) /\ Append(started[u], h) \in Seq(Messages)
  BY <1>1, AppendProperties DEF Inv, TypeOK
<1>4. TypeOK'
  <2>1. queue' \in [Event -> Seq(Messages)] /\ started' \in [Users -> Seq(Messages)]
    BY <1>1, <1>2, <1>3 DEF Inv, TypeOK
  <2>2. \A f \in Event : Len(queue'[f]) <= QueueSize
    BY <1>1, <1>2, DispatchAssumption DEF Inv, TypeOK
  <2>3. job' \in [Event -> Messages \union {None}]
    BY <1>1, <1>2 DEF Inv, TypeOK
  <2> QED BY <1>2, <2>1, <2>2, <2>3 DEF Inv, TypeOK, remembering, queueing
<1>5. Routed'
  <2>1. Queue(u, e) \in queues
    BY <1>1 DEF Inv, Routed
  <2>2. \A f \in Event : queue'[f] # <<>> \/ job'[f] # None => Queue(Msg(f).user, f) \in queues
    BY <1>2, <2>1 DEF Inv, TypeOK, Routed
  <2>3. \A f \in Event : \A i \in 1 .. Len(queue'[f]) : queue'[f][i].user = Msg(f).user
    <3> SUFFICES ASSUME NEW f \in Event, NEW i \in 1 .. Len(queue'[f])
                 PROVE  queue'[f][i].user = Msg(f).user
      OBVIOUS
    <3>1. CASE f = e
      <4>1. queue'[e] = Tail(queue[e])
        BY <1>2 DEF Inv, TypeOK
      <4>2. i \in 1 .. Len(Tail(queue[e])) /\ i + 1 \in 1 .. Len(queue[e])
        BY <3>1, <4>1, <1>1
      <4> QED BY <3>1, <4>1, <4>2, <1>1 DEF Inv, Routed
    <3>2. CASE f # e
      BY <3>2, <1>2 DEF Inv, TypeOK, Routed
    <3> QED BY <3>1, <3>2
  <2>4. \A f \in Event : job'[f] # None => job'[f].user = Msg(f).user
    BY <1>1, <1>2 DEF Inv, TypeOK, Routed
  <2> QED BY <1>2, <2>2, <2>3, <2>4 DEF Inv, Routed, queueing
<1>6. Ordered'
  <2>1. Queue(u, e) \in queues
    BY <1>1 DEF Inv, Routed
  <2>2. started'[u] \o queue'[e] = started[u] \o queue[e]
    <3>1. started'[u] = Append(started[u], h) /\ queue'[e] = Tail(queue[e])
      BY <1>1, <1>2 DEF Inv, TypeOK
    <3> QED BY <3>1, <1>1, <1>3, MoveHead DEF h
  <2>3. ASSUME NEW q \in queues, NEW v \in Users, q.session = SessionID(v)
        PROVE  started'[v] \o queue'[q.maker] = accepted[v]
    <3>1. CASE v = u
      <4>1. q = Queue(u, e)
        BY <2>1, <2>3, <3>1 DEF Inv, Routed, Queue
      <4> QED BY <4>1, <2>2, <2>3, <3>1 DEF Inv, Ordered, InOrderAccepted, Queue
    <3>2. CASE v # u
      <4>1. q.maker # e
        BY <2>3, <3>2, OneSessionEach DEF Inv, Routed
      <4>2. started'[v] = started[v] /\ queue'[q.maker] = queue[q.maker]
        BY <4>1, <3>2, <1>2 DEF Inv, TypeOK
      <4> QED BY <4>2, <2>3 DEF Inv, Ordered, InOrderAccepted
    <3> QED BY <3>1, <3>2
  <2>4. \A v \in Users : (\A q \in queues : q.session # SessionID(v)) =>
          started'[v] = started[v]
    BY <2>1, <1>2 DEF Inv, TypeOK, Queue
  <2>5. UNCHANGED <<queues, accepted>>
    BY <1>2 DEF queueing
  <2>6. InOrderAccepted'
    BY <2>3, <2>5 DEF InOrderAccepted
  <2>7. \A v \in Users : (\A q \in queues' : q.session # SessionID(v)) =>
          accepted'[v] = <<>> /\ started'[v] = <<>>
    BY <2>4, <2>5 DEF Inv, Ordered
  <2> QED BY <2>6, <2>7 DEF Ordered
<1>7. OnceInv' /\ OnceWhileRemembered'
  BY <1>2 DEF Inv, OnceInv, OnceWhileRemembered, Active, NotAccepted, remembering
<1>8. LinesInTurn'
  BY <1>2 DEF Inv, LinesInTurn
<1> QED BY <1>4, <1>5, <1>6, <1>7, <1>8 DEF Inv

\* A message enters the queue of its session, or a full queue drops it.
LEMMA PutKeeps == ASSUME Inv, NEW e \in Event, Put(e) PROVE Inv'
<1> DEFINE m == Msg(e)
           u == Msg(e).user
           c == channel[e]
<1>1. /\ at[e] = "put" /\ at' = [at EXCEPT ![e] = "done"]
      /\ UNCHANGED <<enabled, remembering, queueing, job, started, direct>>
      /\ \/ UNCHANGED <<queue, accepted>>
         \/ /\ Len(queue[c]) < QueueSize
            /\ queue' = [queue EXCEPT ![c] = Append(queue[c], m)]
            /\ accepted' = [accepted EXCEPT ![u] = Append(accepted[u], m)]
  BY DEF Put, Goes, Accept
<1>2. \A f \in Event : at'[f] = at[f] \/ at'[f] = "done"
  BY <1>1 DEF Inv, TypeOK
<1>3. LinesInTurn'
  BY <1>1 DEF Inv, LinesInTurn
<1>4. CASE UNCHANGED <<queue, accepted>>
  <2>1. UNCHANGED working
    BY <1>1, <1>4 DEF working
  <2>2. TypeOK'
    BY <1>1, <1>2, <2>1 DEF Inv, TypeOK, remembering, queueing, working
  <2>3. Routed' /\ Ordered'
    BY <1>1, <1>2, <2>1, QuietQueues
  <2>4. OnceInv' /\ OnceWhileRemembered'
    BY <1>1, <1>2, <2>1, QuietOnce DEF remembering, working
  <2> QED BY <1>3, <2>2, <2>3, <2>4 DEF Inv
<1>5. CASE /\ Len(queue[c]) < QueueSize
           /\ queue' = [queue EXCEPT ![c] = Append(queue[c], m)]
           /\ accepted' = [accepted EXCEPT ![u] = Append(accepted[u], m)]
  <2>1. /\ m \in Messages /\ u \in Users /\ c \in Event /\ Queue(u, c) \in queues
        /\ Msg(c).user = u
    <3>1. m \in Messages /\ u \in Users /\ c \in Event /\ Queue(u, c) \in queues
      BY <1>1, EventFacts DEF Inv, TypeOK, Routed
    <3> QED BY <3>1, OneSessionEach DEF Inv, Routed, Queue
  <2>2. queue[c] \in Seq(Messages) /\ accepted[u] \in Seq(Messages) /\ started[u] \in Seq(Messages)
    BY <2>1 DEF Inv, TypeOK
  <2> DEFINE qc == Append(queue[c], m)
             au == Append(accepted[u], m)
  <2>3. /\ qc \in Seq(Messages) /\ Len(qc) = Len(queue[c]) + 1 /\ Len(queue[c]) \in Nat
        /\ \A i \in 1 .. Len(queue[c]) : qc[i] = queue[c][i]
        /\ qc[Len(queue[c]) + 1] = m
    BY <2>1, <2>2, AppendProperties
  <2>4. /\ au \in Seq(Messages) /\ Len(au) = Len(accepted[u]) + 1 /\ Len(accepted[u]) \in Nat
        /\ \A i \in 1 .. Len(accepted[u]) : au[i] = accepted[u][i]
        /\ au[Len(accepted[u]) + 1] = m
    BY <2>1, <2>2, AppendProperties
  <2>5. queue' = [queue EXCEPT ![c] = qc] /\ accepted' = [accepted EXCEPT ![u] = au]
    BY <1>5
  <2>6. started[u] \o qc = Append(started[u] \o queue[c], m)
    <3>1. \A s, q \in Seq(Messages) : \A x \in Messages : s \o Append(q, x) = Append(s \o q, x)
      BY MoveAppend
    <3> QED BY <2>1, <2>2, <3>1, Zenon
  <2>7. started[u] \o queue[c] = accepted[u]
    BY <2>1 DEF Inv, Ordered, InOrderAccepted, Queue
  <2>8. started[u] \o qc = au
    BY <2>6, <2>7
  <2> HIDE DEF qc, au, c
  <2>9. TypeOK'
    <3>1. queue' \in [Event -> Seq(Messages)] /\ accepted' \in [Users -> Seq(Messages)]
      BY <2>1, <2>3, <2>4, <2>5 DEF Inv, TypeOK
    <3>2. \A f \in Event : Len(queue'[f]) <= QueueSize
      BY <1>5, <2>1, <2>3, <2>5, DispatchAssumption DEF Inv, TypeOK
    <3> QED BY <1>1, <1>2, <3>1, <3>2 DEF Inv, TypeOK, remembering, queueing
  <2>10. Routed'
    <3>1. \A f \in Event : queue'[f] # <<>> \/ job[f] # None => Queue(Msg(f).user, f) \in queues
      BY <2>1, <2>5 DEF Inv, TypeOK, Routed
    <3>2. \A f \in Event : \A i \in 1 .. Len(queue'[f]) : queue'[f][i].user = Msg(f).user
      <4> SUFFICES ASSUME NEW f \in Event, NEW i \in 1 .. Len(queue'[f])
                   PROVE  queue'[f][i].user = Msg(f).user
        OBVIOUS
      <4>1. CASE f = c
        <5>1. queue'[f] = qc
          BY <4>1, <2>1, <2>5 DEF Inv, TypeOK
        <5>2. CASE i = Len(queue[c]) + 1
          BY <4>1, <5>1, <5>2, <2>1, <2>3
        <5>3. CASE i # Len(queue[c]) + 1
          <6>1. i \in 1 .. Len(queue[c])
            BY <5>1, <5>3, <2>3
          <6> QED BY <6>1, <4>1, <5>1, <2>1, <2>3 DEF Inv, Routed
        <5> QED BY <5>2, <5>3
      <4>2. CASE f # c
        BY <4>2, <2>1, <2>5 DEF Inv, TypeOK, Routed
      <4> QED BY <4>1, <4>2
    <3> QED BY <1>1, <1>2, <3>1, <3>2 DEF Inv, Routed, queueing
  <2>11. Ordered'
    <3>1. ASSUME NEW q \in queues, NEW v \in Users, q.session = SessionID(v)
          PROVE  started[v] \o queue'[q.maker] = accepted'[v]
      <4>1. CASE v = u
        <5>1. q.maker = c
          BY <2>1, <3>1, <4>1 DEF Inv, Routed, Queue
        <5> QED BY <5>1, <4>1, <2>1, <2>5, <2>8 DEF Inv, TypeOK
      <4>2. CASE v # u
        <5>1. q.maker # c
          BY <2>1, <3>1, <4>2, OneSessionEach DEF Inv, Routed
        <5>2. accepted'[v] = accepted[v] /\ queue'[q.maker] = queue[q.maker]
          BY <5>1, <4>2, <2>5 DEF Inv, TypeOK
        <5> QED BY <5>2, <3>1 DEF Inv, Ordered, InOrderAccepted
      <4> QED BY <4>1, <4>2
    <3>2. \A v \in Users : (\A q \in queues : q.session # SessionID(v)) =>
            accepted'[v] = accepted[v]
      BY <2>1, <2>5 DEF Inv, TypeOK, Queue
    <3> QED BY <1>1, <3>1, <3>2 DEF Inv, Ordered, InOrderAccepted, queueing
  <2>12. OnceInv' /\ OnceWhileRemembered'
    <3>1. \A f \in Event : (Active(f)' <=> Active(f) /\ f # e) /\ Active(e)
      BY <1>1 DEF Inv, TypeOK, Active
    <3>2. UNCHANGED <<seen, expired, stale>>
      BY <1>1 DEF remembering
    <3>3. ASSUME NEW k \in Messages, k # m PROVE NotAccepted(k) => NotAccepted(k)'
      <4>1. CASE k.user = u
        <5>1. accepted'[k.user] = au
          BY <4>1, <2>1, <2>5 DEF Inv, TypeOK
        <5>2. \A i \in 1 .. Len(au) : i \in 1 .. Len(accepted[u]) \/ i = Len(accepted[u]) + 1
          BY <2>4
        <5> QED BY <5>1, <5>2, <4>1, <3>3, <2>4 DEF NotAccepted
      <4>2. CASE k.user # u
        <5>1. accepted'[k.user] = accepted[k.user]
          BY <4>2, <2>5 DEF Inv, TypeOK, Users
        <5> QED BY <5>1 DEF NotAccepted
      <4> QED BY <4>1, <4>2
    <3>4. m \in Messages \ expired =>
            /\ NotAccepted(m) /\ seen[m] # "no"
            /\ \A f \in Event : Msg(f) = m => ~Active(f)'
      BY <3>1, <2>1 DEF Inv, OnceInv
    <3>5. OnceInv'
      <4> SUFFICES ASSUME NEW k \in Messages \ expired
                   PROVE  /\ seen[k] # "old"
                          /\ \A f \in Event : k \notin stale[f]
                          /\ seen[k] = "no" =>
                               NotAccepted(k)' /\ \A f \in Event : Msg(f) = k => ~Active(f)'
                          /\ \A f, g \in Event : Msg(f) = k /\ Msg(g) = k /\ Active(f)' /\ Active(g)'
                               => f = g
                          /\ \A f \in Event : Msg(f) = k /\ Active(f)' => NotAccepted(k)'
        BY <3>2 DEF OnceInv
      <4>1. CASE k = m
        BY <4>1, <3>4 DEF Inv, OnceInv
      <4>2. CASE k # m
        BY <4>2, <3>1, <3>3 DEF Inv, OnceInv
      <4> QED BY <4>1, <4>2
    <3>6. OnceWhileRemembered'
      <4> SUFFICES ASSUME NEW k \in Messages \ expired,
                          NEW i \in 1 .. Len(accepted'[k.user]), NEW j \in 1 .. Len(accepted'[k.user]),
                          accepted'[k.user][i] = k, accepted'[k.user][j] = k
                   PROVE  i = j
        BY <3>2 DEF OnceWhileRemembered
      <4>1. CASE k.user # u
        <5>1. accepted'[k.user] = accepted[k.user]
          BY <4>1, <2>5 DEF Inv, TypeOK, Users
        <5> QED BY <5>1 DEF Inv, OnceWhileRemembered
      <4>2. CASE k.user = u
        <5>1. accepted'[k.user] = au
          BY <4>2, <2>1, <2>5 DEF Inv, TypeOK
        <5>2. \A x \in 1 .. Len(au) : x \in 1 .. Len(accepted[u]) \/ x = Len(accepted[u]) + 1
          BY <2>4
        <5>3. CASE k = m
          BY <5>1, <5>2, <5>3, <3>4, <2>4 DEF NotAccepted
        <5>4. CASE k # m
          <6>1. i \in 1 .. Len(accepted[u]) /\ j \in 1 .. Len(accepted[u])
            BY <5>1, <5>2, <5>4, <2>4
          <6> QED BY <6>1, <5>1, <4>2, <2>4 DEF Inv, OnceWhileRemembered
        <5> QED BY <5>3, <5>4
      <4> QED BY <4>1, <4>2
    <3> QED BY <3>5, <3>6
  <2> QED BY <1>3, <2>9, <2>10, <2>11, <2>12 DEF Inv
<1> QED BY <1>1, <1>4, <1>5

-----------------------------------------------------------------------------
THEOREM Invariance == Spec => []Inv
<1>1. Inv /\ [Next]_vars => Inv'
  <2> SUFFICES ASSUME Inv, [Next]_vars PROVE Inv'
    OBVIOUS
  <2>1. CASE UNCHANGED vars
    <3>1. UNCHANGED <<enabled, at, remembering, queueing, working, direct>>
      BY <2>1 DEF vars
    <3>2. TypeOK' /\ LinesInTurn'
      BY <3>1 DEF remembering, queueing, working, Inv, TypeOK, LinesInTurn
    <3>3. Routed' /\ Ordered'
      BY <3>1, QuietQueues
    <3>4. OnceInv' /\ OnceWhileRemembered'
      BY <3>1, QuietOnce DEF remembering, working
    <3> QED BY <3>2, <3>3, <3>4 DEF Inv
  <2>2. ASSUME NEW e \in Event, Handler(e) PROVE Inv'
    BY <2>2, OnMessageKeeps, PurgeKeeps, DeleteKeeps, DropKeeps, FindQueueKeeps, PutKeeps
    DEF Handler
  <2>3. ASSUME NEW e \in Event, Worker(e) PROVE Inv'
    BY <2>3, TakeKeeps, FinishKeeps DEF Worker
  <2> QED BY <2>1, <2>2, <2>3, ExpireKeeps, DirectKeeps DEF Next
<1> QED BY InitInv, <1>1, PTL DEF Spec

\* Queues hold no more than they may, and events are where onMessage can be.
THEOREM DispatchTypeCorrect == Spec => []TypeOK
BY Invariance, PTL DEF Inv

\* Whatever events race to make a session's queue, its messages have one worker.
THEOREM OneAtATimeAlways == Spec => []OneAtATime
<1>1. Inv => OneAtATime
  <2> SUFFICES ASSUME Inv PROVE OneAtATime
    OBVIOUS
  <2>1. ASSUME NEW e \in Event, NEW f \in Event,
               job[e] # None, job[f] # None, job[e].user = job[f].user
        PROVE  e = f
    <3>1. Queue(Msg(e).user, e) \in queues /\ Queue(Msg(f).user, f) \in queues
      BY <2>1 DEF Inv, Routed
    <3>2. Msg(e).user = Msg(f).user
      BY <2>1 DEF Inv, Routed
    <3> QED BY <3>1, <3>2 DEF Inv, Routed, Queue
  <2>2. ASSUME NEW c \in Direct, NEW d \in Direct, c.via = "cli", direct[c] = "handling",
               d.via = "cli", direct[d] = "handling"
        PROVE  c.n = d.n
    <3>1. ~(c.n < d.n) /\ ~(d.n < c.n)
      BY <2>2 DEF Inv, LinesInTurn
    <3> QED BY <3>1, DispatchAssumption
  <2> QED BY <2>1, <2>2 DEF OneAtATime
<1> QED BY <1>1, Invariance, PTL

\* Workers take what was accepted, all of it, once, and in its order.
THEOREM AcceptedInOrder == Spec => []InOrderAccepted
<1>1. Inv => InOrderAccepted
  BY DEF Inv, Ordered
<1> QED BY <1>1, Invariance, PTL

\* No race of a message's events, and no purge, has it accepted twice in its lifetime.
THEOREM AcceptedOnce == Spec => []OnceWhileRemembered
<1>1. Inv => OnceWhileRemembered
  BY DEF Inv
<1> QED BY <1>1, Invariance, PTL
=============================================================================
