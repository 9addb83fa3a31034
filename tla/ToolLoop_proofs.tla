-------------------------- MODULE ToolLoop_proofs --------------------------
(***************************************************************************)
(* Theorems about ToolLoop, for any number of turns, tools, inputs and     *)
(* rounds: the model is sent a result for every tool use, of its own turn, *)
(* and a tool that succeeded is not run again within a turn.               *)
(***************************************************************************)
EXTENDS ToolLoop, FiniteSetTheorems, SequenceTheorems, TLAPS

ExecutionSet == [turn : Turns, n : Nat \ {0}, use : Use, ok : BOOLEAN]

Result == ExecutionSet \union {Refusal}

Message == [kind : {"uses"}, items : Seq(Use)] \union [kind : {"results"}, items : Seq(Result)]

Labels == {"ask", "execute", "run", "store", "returned", "failed"}

Typed ==
  /\ pc \in [Turns -> Labels]
  /\ round \in [Turns -> 0 .. Rounds]
  /\ \A t \in Turns : pc[t] \in {"ask", "execute", "run", "store"} => round[t] < Rounds
  /\ messages \in [Turns -> Seq(Message)]
  /\ uses \in [Turns -> Seq(Use)]
  /\ results \in [Turns -> Seq(Result)]
  /\ output \in [Turns -> Result]
  /\ executions \subseteq ExecutionSet /\ IsFiniteSet(executions)
  /\ kept \subseteq [key : Turns \X Names \X Inputs, execution : ExecutionSet]

\* The registry keeps executions that went well, each under its own key.
KeptOwn ==
  \A k \in kept :
    /\ k.execution \in executions /\ k.execution.ok
    /\ k.key = IdempotencyKey(k.execution.turn, k.execution.use)

\* What a turn has to show comes from its own executions, or from none.
Traced ==
  \A t \in Turns :
    /\ \A i \in 1 .. Len(results[t]) :
         /\ results[t][i] \in executions \union {Refusal}
         /\ results[t][i] # Refusal => results[t][i].turn = t
    /\ output[t] \in executions \union {Refusal}

\* A handler runs for the first use that is left, of which nothing is kept.
Running ==
  \A t \in Turns :
    /\ pc[t] \in {"run", "store"} => uses[t] # <<>> /\ KeptFor(t) = {}
    /\ pc[t] = "store" =>
         /\ output[t] \in executions /\ output[t].ok
         /\ output[t].turn = t /\ output[t].use = Head(uses[t])

\* An execution that went well is kept, or about to be.
AllKept ==
  \A e \in executions : e.ok =>
    (\E k \in kept : k.execution = e) \/ (pc[e.turn] = "store" /\ output[e.turn] = e)

\* Between a response with the tool uses us and their results: the first have the
\* results rs, and ws are left.
Pending(us, rs, ws) ==
  /\ Len(rs) + Len(ws) = Len(us)
  /\ \A j \in 1 .. Len(rs) : Answers(rs[j], us[j])
  /\ \A j \in 1 .. Len(ws) : ws[j] = us[Len(rs) + j]

LastItems(h) == h[Len(h)].items

Alternates(h) ==
  \A i \in 1 .. Len(h) :
    IF i % 2 = 1 THEN h[i].kind = "uses"
    ELSE /\ h[i].kind = "results"
         /\ Len(h[i].items) = Len(h[i - 1].items)
         /\ \A j \in 1 .. Len(h[i].items) : Answers(h[i].items[j], h[i - 1].items[j])

History ==
  \A t \in Turns :
    /\ Alternates(messages[t])
    /\ pc[t] \in {"ask", "returned", "failed"} => Len(messages[t]) % 2 = 0
    /\ pc[t] \in {"execute", "run", "store"} => 
         Len(messages[t]) % 2 = 1 /\ Pending(LastItems(messages[t]), results[t], uses[t])

Inv == Typed /\ KeptOwn /\ Traced /\ Running /\ AllKept /\ OncePerTurn /\ History

-----------------------------------------------------------------------------
LEMMA RoundsPositive == Rounds \in Nat \ {0}
BY LoopAssumption DEF Rounds

LEMMA NoRefusal == \A e \in ExecutionSet : e # Refusal
<1> SUFFICES ASSUME NEW e \in ExecutionSet, e = Refusal PROVE FALSE
  OBVIOUS
<1>1. e.n # 0
  BY DEF ExecutionSet
<1>2. Refusal.n = 0
  BY DEF Refusal
<1> QED BY <1>1, <1>2

\* A key tells the turn and the use it was made for.
LEMMA OwnKey ==
  ASSUME NEW t \in Turns, NEW u \in Use, NEW s \in Turns, NEW v \in Use,
         IdempotencyKey(t, u) = IdempotencyKey(s, v)
  PROVE  t = s /\ u = v
<1>1. t = s /\ u.name = v.name /\ u.input = v.input
  BY DEF IdempotencyKey
<1>2. u = [name |-> u.name, input |-> u.input] /\ v = [name |-> v.name, input |-> v.input]
  BY DEF Use
<1> QED BY <1>1, <1>2

LEMMA KeySet ==
  \A t \in Turns, u \in Use : IdempotencyKey(t, u) \in Turns \X Names \X Inputs
BY DEF IdempotencyKey, Use

\* The next execution of a turn.
LEMMA NextExecution ==
  ASSUME Typed, NEW t \in Turns, NEW u \in Use, NEW ok \in BOOLEAN
  PROVE  /\ Execution(t, u, ok) \in ExecutionSet
         /\ Execution(t, u, ok).turn = t
         /\ Execution(t, u, ok).use = u
         /\ Execution(t, u, ok).ok = ok
<1>1. {e \in executions : e.turn = t} \subseteq executions
  OBVIOUS
<1>2. IsFiniteSet({e \in executions : e.turn = t})
  BY <1>1, FS_Subset DEF Typed
<1>3. Cardinality({e \in executions : e.turn = t}) \in Nat
  BY <1>2, FS_CardinalityType
<1> QED BY <1>3 DEF Execution, ExecutionSet

LEMMA InitInv == Init => Inv
<1> SUFFICES ASSUME Init PROVE Inv
  OBVIOUS
<1>1. Typed
  <2>1. /\ <<>> \in Seq(Message) /\ <<>> \in Seq(Use) /\ <<>> \in Seq(Result)
    BY EmptySeq
  <2>2. IsFiniteSet({})
    BY FS_EmptySet
  <2> QED BY <2>1, <2>2, RoundsPositive DEF Init, Typed, Labels, Result
<1>2. KeptOwn /\ Traced /\ Running /\ AllKept /\ OncePerTurn
  BY DEF Init, KeptOwn, Traced, Running, AllKept, OncePerTurn
<1>3. History
  BY DEF Init, History, Alternates
<1> QED BY <1>1, <1>2, <1>3 DEF Inv

-----------------------------------------------------------------------------
(* The first tool use that is left gets a result. *)

LEMMA HeadUse ==
  ASSUME NEW ws \in Seq(Use), ws # <<>>
  PROVE  /\ Head(ws) \in Use /\ Head(ws) = ws[1]
         /\ Tail(ws) \in Seq(Use) /\ Len(Tail(ws)) = Len(ws) - 1
         /\ Len(ws) \in Nat \ {0}
         /\ \A i \in 1 .. Len(Tail(ws)) : Tail(ws)[i] = ws[i + 1]
BY HeadTailProperties, EmptySeq

LEMMA AnswerNext ==
  ASSUME NEW us, NEW rs \in Seq(Result), NEW ws \in Seq(Use), ws # <<>>,
         Pending(us, rs, ws), NEW r \in Result, Answers(r, Head(ws))
  PROVE  Pending(us, Append(rs, r), Tail(ws))
<1>1. /\ Len(rs) + Len(ws) = Len(us)
      /\ \A j \in 1 .. Len(rs) : Answers(rs[j], us[j])
      /\ \A j \in 1 .. Len(ws) : ws[j] = us[Len(rs) + j]
  BY DEF Pending
<1>2. /\ Len(Append(rs, r)) = Len(rs) + 1 /\ Len(rs) \in Nat
      /\ \A j \in 1 .. Len(rs) : Append(rs, r)[j] = rs[j]
      /\ Append(rs, r)[Len(rs) + 1] = r
  OBVIOUS
<1>3. Len(Append(rs, r)) + Len(Tail(ws)) = Len(us)
  BY <1>1, <1>2, HeadUse
<1>4. Answers(r, us[Len(rs) + 1])
  BY <1>1, HeadUse
<1>5. ASSUME NEW j \in 1 .. Len(Append(rs, r))
      PROVE  Answers(Append(rs, r)[j], us[j])
  <2>1. j \in 1 .. Len(rs) \/ j = Len(rs) + 1
    BY <1>2
  <2> QED BY <2>1, <1>1, <1>2, <1>4
<1>6. ASSUME NEW j \in 1 .. Len(Tail(ws))
      PROVE  Tail(ws)[j] = us[Len(Append(rs, r)) + j]
  <2>1. j + 1 \in 1 .. Len(ws) /\ j \in Nat
    BY HeadUse
  <2>2. Tail(ws)[j] = us[Len(rs) + (j + 1)]
    BY <2>1, <1>1, HeadUse
  <2> QED BY <2>1, <2>2, <1>2
<1> QED BY <1>3, <1>5, <1>6 DEF Pending

\* A use that is answered with what answers it leaves the history in order.
LEMMA AnsweredHistory ==
  ASSUME Inv, NEW t \in Turns, pc[t] \in {"execute", "run", "store"}, uses[t] # <<>>,
         NEW r \in Result, Answered(t, r), Answers(r, Head(uses[t])), UNCHANGED messages
  PROVE  History'
<1>1. ASSUME NEW s \in Turns, s # t
      PROVE  pc'[s] = pc[s] /\ uses'[s] = uses[s] /\ results'[s] = results[s]
  BY <1>1 DEF Answered, Goes, Inv, Typed
<1>2. /\ pc'[t] = "execute" /\ uses'[t] = Tail(uses[t])
      /\ results'[t] = Append(results[t], r)
  BY DEF Answered, Goes, Inv, Typed
<1>3. Pending(LastItems(messages[t]), results'[t], uses'[t])
  <2>1. results[t] \in Seq(Result) /\ uses[t] \in Seq(Use)
    BY DEF Inv, Typed
  <2>2. Pending(LastItems(messages[t]), results[t], uses[t])
    BY DEF Inv, History
  <2> QED BY <1>2, <2>1, <2>2, AnswerNext
<1>4. Len(messages[t]) % 2 = 1
  BY DEF Inv, History
<1>5. History
  BY DEF Inv
<1>6. messages' = messages
  OBVIOUS
<1> QED
  <2> SUFFICES ASSUME NEW s \in Turns
               PROVE  /\ Alternates(messages[s])
                      /\ pc'[s] \in {"ask", "returned", "failed"} => Len(messages[s]) % 2 = 0
                      /\ pc'[s] \in {"execute", "run", "store"} =>
                           /\ Len(messages[s]) % 2 = 1
                           /\ Pending(LastItems(messages[s]), results'[s], uses'[s])
    BY <1>6 DEF History
  <2>1. CASE s = t
    BY <2>1, <1>2, <1>3, <1>4, <1>5 DEF History
  <2>2. CASE s # t
    BY <2>2, <1>1, <1>5 DEF History
  <2> QED BY <2>1, <2>2

\* What a result that is taken does to the rest of the invariant but Typed.
LEMMA AnsweredRest ==
  ASSUME Inv, NEW t \in Turns, NEW r \in executions' \union {Refusal}, Answered(t, r),
         r # Refusal => r.turn = t, executions \subseteq executions', UNCHANGED output
  PROVE  Traced' /\ \A s \in Turns : s # t => pc'[s] = pc[s] /\ uses'[s] = uses[s]
<1>1. /\ \A s \in Turns : s # t =>
           pc'[s] = pc[s] /\ uses'[s] = uses[s] /\ results'[s] = results[s]
      /\ results'[t] = Append(results[t], r)
  BY DEF Answered, Goes, Inv, Typed
<1>2. results[t] \in Seq(Result)
  BY DEF Inv, Typed
<1>3. ASSUME NEW s \in Turns, NEW i \in 1 .. Len(results'[s])
      PROVE  /\ results'[s][i] \in executions' \union {Refusal}
             /\ results'[s][i] # Refusal => results'[s][i].turn = s
  <2>1. CASE s # t
    BY <1>1, <2>1 DEF Inv, Traced
  <2>2. CASE s = t
    <3>1. i \in 1 .. Len(results[t]) \/ i = Len(results[t]) + 1
      BY <1>1, <1>2, <2>2
    <3>2. CASE i \in 1 .. Len(results[t])
      <4>1. Append(results[t], r)[i] = results[t][i]
        BY <1>2, <3>2
      <4> QED BY <4>1, <1>1, <2>2, <3>2 DEF Inv, Traced
    <3>3. CASE i = Len(results[t]) + 1
      <4>1. Append(results[t], r)[i] = r
        BY <1>2, <3>3
      <4> QED BY <4>1, <1>1, <2>2
    <3> QED BY <3>1, <3>2, <3>3
  <2> QED BY <2>1, <2>2
<1> QED BY <1>1, <1>3 DEF Inv, Traced

\* Types after a result was taken.
LEMMA AnsweredTyped ==
  ASSUME Inv, NEW t \in Turns, pc[t] \in {"execute", "run", "store"}, uses[t] # <<>>,
         NEW r \in Result, Answered(t, r), UNCHANGED <<round, messages>>
  PROVE  /\ pc' \in [Turns -> Labels] /\ pc'[t] = "execute"
         /\ round' \in [Turns -> 0 .. Rounds]
         /\ \A s \in Turns : pc'[s] \in {"ask", "execute", "run", "store"} => round'[s] < Rounds
         /\ messages' \in [Turns -> Seq(Message)]
         /\ uses' \in [Turns -> Seq(Use)]
         /\ results' \in [Turns -> Seq(Result)]
<1>1. uses[t] \in Seq(Use) /\ results[t] \in Seq(Result)
  BY DEF Inv, Typed
<1>2. Tail(uses[t]) \in Seq(Use) /\ Append(results[t], r) \in Seq(Result)
  BY <1>1, HeadUse
<1> QED BY <1>2 DEF Answered, Goes, Inv, Typed, Labels

-----------------------------------------------------------------------------
(* Caller.Call *)

\* A turn that asks leaves it by returning, or failing.
LEMMA AskEnds ==
  ASSUME Inv, NEW t \in Turns, AskFails(t) \/ Answer(t)
  PROVE  Inv'
<1>1. /\ pc[t] = "ask" /\ pc' = [pc EXCEPT ![t] = pc'[t]] /\ pc'[t] \in {"failed", "returned"}
      /\ UNCHANGED <<round, messages, uses, results, output, kept, executions>>
  BY DEF AskFails, Answer, Goes, Inv, Typed
<1>2. Typed'
  BY <1>1 DEF Inv, Typed, Labels
<1>3. KeptOwn' /\ Traced' /\ OncePerTurn'
  BY <1>1 DEF Inv, KeptOwn, Traced, OncePerTurn
<1>4. Running'
  <2>1. \A s \in Turns : KeptFor(s)' = KeptFor(s)
    BY <1>1 DEF KeptFor
  <2> QED BY <1>1, <2>1 DEF Inv, Typed, Running
<1>5. AllKept'
  <2>1. ASSUME NEW e \in executions PROVE e.turn \in Turns
    BY DEF Inv, Typed, ExecutionSet
  <2> QED BY <1>1, <2>1 DEF Inv, Typed, AllKept
<1>6. History'
  BY <1>1 DEF Inv, Typed, History
<1> QED BY <1>2, <1>3, <1>4, <1>5, <1>6 DEF Inv

\* An append to a history in which everything is answered, or which waits for results.
LEMMA AppendUses ==
  ASSUME NEW h \in Seq(Message), Alternates(h), Len(h) % 2 = 0, NEW us \in Seq(Use)
  PROVE  /\ Append(h, Wants(us)) \in Seq(Message)
         /\ Alternates(Append(h, Wants(us))) /\ Len(Append(h, Wants(us))) % 2 = 1
         /\ LastItems(Append(h, Wants(us))) = us
<1>1. Wants(us) \in Message /\ Wants(us).kind = "uses" /\ Wants(us).items = us
  BY DEF Wants, Message
<1>2. /\ Len(h) \in Nat /\ Len(Append(h, Wants(us))) = Len(h) + 1
      /\ \A i \in 1 .. Len(h) : Append(h, Wants(us))[i] = h[i]
      /\ Append(h, Wants(us))[Len(h) + 1] = Wants(us)
      /\ Append(h, Wants(us)) \in Seq(Message)
  BY <1>1
<1> DEFINE g == Append(h, Wants(us))
<1>3. Len(g) % 2 = 1
  BY <1>2
<1>4. ASSUME NEW i \in 1 .. Len(g)
      PROVE  IF i % 2 = 1 THEN g[i].kind = "uses"
             ELSE /\ g[i].kind = "results"
                  /\ Len(g[i].items) = Len(g[i - 1].items)
                  /\ \A j \in 1 .. Len(g[i].items) : Answers(g[i].items[j], g[i - 1].items[j])
  <2> HIDE DEF g
  <2>1. CASE i = Len(h) + 1
    BY <2>1, <1>1, <1>2, <1>3 DEF g
  <2>2. CASE i \in 1 .. Len(h)
    <3>1. g[i] = h[i]
      BY <1>2, <2>2 DEF g
    <3>2. i % 2 # 1 => i - 1 \in 1 .. Len(h)
      <4>1. i \in Nat /\ 1 <= i /\ i <= Len(h) /\ (i = 1 => i % 2 = 1)
        BY <2>2, <1>2
      <4> QED BY <4>1, <1>2
    <3>3. i % 2 # 1 => g[i - 1] = h[i - 1]
      BY <3>2, <1>2 DEF g
    <3> QED BY <3>1, <3>3, <2>2 DEF Alternates
  <2>3. i = Len(h) + 1 \/ i \in 1 .. Len(h)
    BY <1>2 DEF g
  <2> QED BY <2>1, <2>2, <2>3
<1> QED BY <1>1, <1>2, <1>3, <1>4 DEF Alternates, LastItems

LEMMA AppendResults ==
  ASSUME NEW h \in Seq(Message), Alternates(h), Len(h) % 2 = 1, NEW rs \in Seq(Result),
         Len(rs) = Len(LastItems(h)),
         \A j \in 1 .. Len(rs) : Answers(rs[j], LastItems(h)[j])
  PROVE  /\ Append(h, Gives(rs)) \in Seq(Message)
         /\ Alternates(Append(h, Gives(rs))) /\ Len(Append(h, Gives(rs))) % 2 = 0
<1>1. Gives(rs) \in Message /\ Gives(rs).kind = "results" /\ Gives(rs).items = rs
  BY DEF Gives, Message
<1>2. /\ Len(h) \in Nat /\ Len(Append(h, Gives(rs))) = Len(h) + 1
      /\ \A i \in 1 .. Len(h) : Append(h, Gives(rs))[i] = h[i]
      /\ Append(h, Gives(rs))[Len(h) + 1] = Gives(rs)
      /\ Append(h, Gives(rs)) \in Seq(Message)
  BY <1>1
<1> DEFINE g == Append(h, Gives(rs))
<1>3. Len(g) % 2 = 0 /\ Len(h) \in 1 .. Len(h)
  BY <1>2
<1>4. ASSUME NEW i \in 1 .. Len(g)
      PROVE  IF i % 2 = 1 THEN g[i].kind = "uses"
             ELSE /\ g[i].kind = "results"
                  /\ Len(g[i].items) = Len(g[i - 1].items)
                  /\ \A j \in 1 .. Len(g[i].items) : Answers(g[i].items[j], g[i - 1].items[j])
  <2> HIDE DEF g
  <2>1. CASE i = Len(h) + 1
    <3>1. g[i] = Gives(rs) /\ g[i - 1] = h[Len(h)] /\ i % 2 # 1
      BY <2>1, <1>2, <1>3 DEF g
    <3> QED BY <3>1, <1>1 DEF LastItems
  <2>2. CASE i \in 1 .. Len(h)
    <3>1. g[i] = h[i]
      BY <1>2, <2>2 DEF g
    <3>2. i % 2 # 1 => i - 1 \in 1 .. Len(h)
      <4>1. i \in Nat /\ 1 <= i /\ i <= Len(h) /\ (i = 1 => i % 2 = 1)
        BY <2>2, <1>2
      <4> QED BY <4>1, <1>2
    <3>3. i % 2 # 1 => g[i - 1] = h[i - 1]
      BY <3>2, <1>2 DEF g
    <3> QED BY <3>1, <3>3, <2>2 DEF Alternates
  <2>3. i = Len(h) + 1 \/ i \in 1 .. Len(h)
    BY <1>2 DEF g
  <2> QED BY <2>1, <2>2, <2>3
<1> QED BY <1>2, <1>3, <1>4 DEF Alternates

LEMMA WantToolsInv ==
  ASSUME Inv, NEW t \in Turns, WantTools(t)
  PROVE  Inv'
<1>1. PICK k \in 1 .. MaxUses : \E us \in [1 .. k -> Use] :
        /\ messages' = [messages EXCEPT ![t] = Append(@, Wants(us))]
        /\ uses' = [uses EXCEPT ![t] = us]
  BY DEF WantTools
<1>2. PICK us \in [1 .. k -> Use] :
        /\ messages' = [messages EXCEPT ![t] = Append(@, Wants(us))]
        /\ uses' = [uses EXCEPT ![t] = us]
  BY <1>1
<1>3. us \in Seq(Use)
  BY LoopAssumption
<1>4. /\ pc[t] = "ask" /\ pc' = [pc EXCEPT ![t] = "execute"]
      /\ results' = [results EXCEPT ![t] = <<>>]
      /\ UNCHANGED <<round, output, kept, executions>>
  BY DEF WantTools, Goes
<1>5. /\ messages[t] \in Seq(Message) /\ Alternates(messages[t]) /\ Len(messages[t]) % 2 = 0
  BY <1>4 DEF Inv, Typed, History
<1>6. /\ Append(messages[t], Wants(us)) \in Seq(Message)
      /\ Alternates(Append(messages[t], Wants(us)))
      /\ Len(Append(messages[t], Wants(us))) % 2 = 1
      /\ LastItems(Append(messages[t], Wants(us))) = us
  BY <1>3, <1>5, AppendUses
<1>7. Typed'
  <2>1. <<>> \in Seq(Result)
    BY EmptySeq
  <2> QED BY <2>1, <1>2, <1>3, <1>4, <1>6 DEF Inv, Typed, Labels
<1>8. KeptOwn' /\ OncePerTurn'
  BY <1>4 DEF Inv, KeptOwn, OncePerTurn
<1>9. Traced'
  BY <1>4 DEF Inv, Typed, Traced
<1>10. Running'
  <2>1. \A s \in Turns : s # t => KeptFor(s)' = KeptFor(s)
    BY <1>2, <1>4 DEF KeptFor, Inv, Typed
  <2> QED BY <2>1, <1>2, <1>4 DEF Inv, Typed, Running
<1>11. AllKept'
  <2>1. ASSUME NEW e \in executions PROVE e.turn \in Turns
    BY DEF Inv, Typed, ExecutionSet
  <2> QED BY <1>4, <2>1 DEF Inv, Typed, AllKept
<1>12. History'
  <2>1. Pending(us, <<>>, us)
    BY <1>3 DEF Pending
  <2> SUFFICES ASSUME NEW s \in Turns
               PROVE  /\ Alternates(messages'[s])
                      /\ pc'[s] \in {"ask", "returned", "failed"} => Len(messages'[s]) % 2 = 0
                      /\ pc'[s] \in {"execute", "run", "store"} =>
                           /\ Len(messages'[s]) % 2 = 1
                           /\ Pending(LastItems(messages'[s]), results'[s], uses'[s])
    BY DEF History
  <2>2. CASE s = t
    <3>1. /\ messages'[t] = Append(messages[t], Wants(us)) /\ pc'[t] = "execute"
          /\ uses'[t] = us /\ results'[t] = <<>>
      BY <1>2, <1>4 DEF Inv, Typed
    <3> QED BY <3>1, <2>1, <2>2, <1>6
  <2>3. CASE s # t
    <3>1. /\ messages'[s] = messages[s] /\ pc'[s] = pc[s]
          /\ uses'[s] = uses[s] /\ results'[s] = results[s]
      BY <1>2, <1>4, <2>3 DEF Inv, Typed
    <3> QED BY <3>1 DEF Inv, History
  <2> QED BY <2>2, <2>3
<1> QED BY <1>7, <1>8, <1>9, <1>10, <1>11, <1>12 DEF Inv

LEMMA SendResultsInv ==
  ASSUME Inv, NEW t \in Turns, SendResults(t)
  PROVE  Inv'
<1>1. /\ pc[t] = "execute" /\ uses[t] = <<>>
      /\ messages' = [messages EXCEPT ![t] = Append(@, Gives(results[t]))]
      /\ round' = [round EXCEPT ![t] = @ + 1]
      /\ pc' = [pc EXCEPT ![t] = IF round'[t] < Rounds THEN "ask" ELSE "returned"]
      /\ UNCHANGED <<uses, results, output, kept, executions>>
  BY DEF SendResults, Goes
<1>2. pc'[t] \in {"ask", "returned"} /\ \A s \in Turns : s # t => pc'[s] = pc[s]
  BY <1>1 DEF Inv, Typed
<1>3. /\ messages[t] \in Seq(Message) /\ Alternates(messages[t]) /\ Len(messages[t]) % 2 = 1
      /\ results[t] \in Seq(Result)
      /\ Pending(LastItems(messages[t]), results[t], <<>>)
  BY <1>1 DEF Inv, Typed, History
<1>4. /\ Len(results[t]) = Len(LastItems(messages[t]))
      /\ \A j \in 1 .. Len(results[t]) : Answers(results[t][j], LastItems(messages[t])[j])
  BY <1>3 DEF Pending
<1>5. /\ Append(messages[t], Gives(results[t])) \in Seq(Message)
      /\ Alternates(Append(messages[t], Gives(results[t])))
      /\ Len(Append(messages[t], Gives(results[t]))) % 2 = 0
  BY <1>3, <1>4, AppendResults
<1>6. Typed'
  <2>1. round[t] \in Nat /\ round[t] < Rounds
    BY <1>1 DEF Inv, Typed
  <2>2. round' \in [Turns -> 0 .. Rounds] /\ round'[t] = round[t] + 1
    BY <2>1, <1>1, RoundsPositive DEF Inv, Typed
  <2>3. \A s \in Turns : pc'[s] \in {"ask", "execute", "run", "store"} => round'[s] < Rounds
    BY <2>2, <1>1 DEF Inv, Typed
  <2>4. pc' \in [Turns -> Labels]
    BY <1>1 DEF Inv, Typed, Labels
  <2> QED BY <2>2, <2>3, <2>4, <1>1, <1>5 DEF Inv, Typed
<1>7. KeptOwn' /\ OncePerTurn' /\ Traced'
  BY <1>1 DEF Inv, KeptOwn, OncePerTurn, Traced
<1>8. Running'
  <2>1. \A s \in Turns : KeptFor(s)' = KeptFor(s)
    BY <1>1 DEF KeptFor
  <2> QED BY <1>1, <1>2, <2>1 DEF Inv, Running
<1>9. AllKept'
  <2>1. ASSUME NEW e \in executions PROVE e.turn \in Turns
    BY DEF Inv, Typed, ExecutionSet
  <2> QED BY <1>1, <1>2, <2>1 DEF Inv, AllKept
<1>10. History'
  <2> SUFFICES ASSUME NEW s \in Turns
               PROVE  /\ Alternates(messages'[s])
                      /\ pc'[s] \in {"ask", "returned", "failed"} => Len(messages'[s]) % 2 = 0
                      /\ pc'[s] \in {"execute", "run", "store"} =>
                           /\ Len(messages'[s]) % 2 = 1
                           /\ Pending(LastItems(messages'[s]), results'[s], uses'[s])
    BY DEF History
  <2>1. CASE s = t
    <3>1. messages'[t] = Append(messages[t], Gives(results[t]))
      BY <1>1 DEF Inv, Typed
    <3> QED BY <3>1, <2>1, <1>2, <1>5
  <2>2. CASE s # t
    <3>1. messages'[s] = messages[s] /\ uses' = uses /\ results' = results
      BY <1>1, <2>2 DEF Inv, Typed
    <3> QED BY <3>1, <2>2, <1>2 DEF Inv, History
  <2> QED BY <2>1, <2>2
<1> QED BY <1>6, <1>7, <1>8, <1>9, <1>10 DEF Inv

-----------------------------------------------------------------------------
(* Registry.Execute *)

\* The use at hand.
LEMMA UseAtHand ==
  ASSUME Inv, NEW t \in Turns, uses[t] # <<>>
  PROVE  Head(uses[t]) \in Use
BY HeadUse DEF Inv, Typed

LEMMA UseKeptInv ==
  ASSUME Inv, NEW t \in Turns, UseKept(t)
  PROVE  Inv'
<1> DEFINE u == Head(uses[t])
<1>1. /\ pc[t] = "execute" /\ uses[t] # <<>>
      /\ UNCHANGED <<round, messages, output, kept, executions>>
  BY DEF UseKept
<1>2. u \in Use
  BY <1>1, UseAtHand
<1>3. PICK k \in KeptFor(t) :
        Answered(t, IF k.execution.use.name = u.name THEN k.execution ELSE Refusal)
  BY DEF UseKept
<1>4. /\ k \in kept /\ k.key = IdempotencyKey(t, u)
      /\ k.execution \in executions /\ k.execution \in ExecutionSet
      /\ k.key = IdempotencyKey(k.execution.turn, k.execution.use)
  BY <1>3 DEF KeptFor, Inv, KeptOwn, Typed
<1>5. k.execution.turn = t /\ k.execution.use = u
  <2>1. k.execution.turn \in Turns /\ k.execution.use \in Use
    BY <1>4 DEF ExecutionSet
  <2> QED BY <2>1, <1>2, <1>4, OwnKey
<1>6. Answered(t, k.execution)
  BY <1>3, <1>5
<1>7. Answers(k.execution, u) /\ k.execution \in Result
  BY <1>4, <1>5, NoRefusal DEF Answers, Result
<1> HIDE DEF u
<1>8. History'
  BY <1>1, <1>6, <1>7, AnsweredHistory DEF u
<1>9. Typed'
  BY <1>1, <1>6, <1>7, AnsweredTyped DEF Inv, Typed
<1>10. Traced' /\ \A s \in Turns : s # t => pc'[s] = pc[s] /\ uses'[s] = uses[s]
  BY <1>1, <1>4, <1>5, <1>6, AnsweredRest
<1>11. pc'[t] = "execute"
  BY <1>1, <1>6, <1>7, AnsweredTyped
<1>12. KeptOwn' /\ OncePerTurn'
  BY <1>1 DEF Inv, KeptOwn, OncePerTurn
<1>13. Running'
  <2>1. \A s \in Turns : s # t => KeptFor(s)' = KeptFor(s)
    BY <1>1, <1>10 DEF KeptFor
  <2> QED BY <2>1, <1>1, <1>10, <1>11 DEF Inv, Running
<1>14. AllKept'
  <2>1. ASSUME NEW e \in executions PROVE e.turn \in Turns
    BY DEF Inv, Typed, ExecutionSet
  <2> QED BY <1>1, <1>10, <2>1 DEF Inv, AllKept
<1> QED BY <1>8, <1>9, <1>10, <1>12, <1>13, <1>14 DEF Inv

LEMMA RefuseUnknownInv ==
  ASSUME Inv, NEW t \in Turns, RefuseUnknown(t)
  PROVE  Inv'
<1>1. /\ pc[t] = "execute" /\ uses[t] # <<>> /\ Answered(t, Refusal)
      /\ Head(uses[t]).name \notin Registered
      /\ UNCHANGED <<round, messages, output, kept, executions>>
  BY DEF RefuseUnknown
<1>2. Answers(Refusal, Head(uses[t])) /\ Refusal \in Result
  BY <1>1 DEF Answers, Result
<1>3. History'
  BY <1>1, <1>2, AnsweredHistory
<1>4. Typed' /\ pc'[t] = "execute"
  BY <1>1, <1>2, AnsweredTyped DEF Inv, Typed
<1>5. Traced' /\ \A s \in Turns : s # t => pc'[s] = pc[s] /\ uses'[s] = uses[s]
  BY <1>1, AnsweredRest
<1>6. KeptOwn' /\ OncePerTurn'
  BY <1>1 DEF Inv, KeptOwn, OncePerTurn
<1>7. Running'
  <2>1. \A s \in Turns : s # t => KeptFor(s)' = KeptFor(s)
    BY <1>1, <1>5 DEF KeptFor
  <2> QED BY <2>1, <1>1, <1>4, <1>5 DEF Inv, Running
<1>8. AllKept'
  <2>1. ASSUME NEW e \in executions PROVE e.turn \in Turns
    BY DEF Inv, Typed, ExecutionSet
  <2> QED BY <1>1, <1>5, <2>1 DEF Inv, AllKept
<1> QED BY <1>3, <1>4, <1>5, <1>6, <1>7, <1>8 DEF Inv

LEMMA StartHandlerInv ==
  ASSUME Inv, NEW t \in Turns, StartHandler(t)
  PROVE  Inv'
<1>1. /\ pc[t] = "execute" /\ uses[t] # <<>> /\ KeptFor(t) = {}
      /\ pc' = [pc EXCEPT ![t] = "run"]
      /\ UNCHANGED <<round, messages, uses, results, output, kept, executions>>
  BY DEF StartHandler, Goes
<1>2. Typed'
  BY <1>1 DEF Inv, Typed, Labels
<1>3. KeptOwn' /\ Traced' /\ OncePerTurn'
  BY <1>1 DEF Inv, KeptOwn, Traced, OncePerTurn
<1>4. Running'
  <2>1. \A s \in Turns : KeptFor(s)' = KeptFor(s)
    BY <1>1 DEF KeptFor
  <2> QED BY <1>1, <2>1 DEF Inv, Typed, Running
<1>5. AllKept'
  <2>1. ASSUME NEW e \in executions PROVE e.turn \in Turns
    BY DEF Inv, Typed, ExecutionSet
  <2> QED BY <1>1, <2>1 DEF Inv, Typed, AllKept
<1>6. History'
  BY <1>1 DEF Inv, Typed, History
<1> QED BY <1>2, <1>3, <1>4, <1>5, <1>6 DEF Inv

LEMMA HandlerFailsInv ==
  ASSUME Inv, NEW t \in Turns, HandlerFails(t)
  PROVE  Inv'
<1> DEFINE e == Execution(t, Head(uses[t]), FALSE)
<1>1. /\ pc[t] = "run" /\ uses[t] # <<>>
      /\ executions' = executions \union {e} /\ Answered(t, e)
      /\ UNCHANGED <<round, messages, output, kept>>
  BY DEF HandlerFails, Inv, Running
<1>2. /\ e \in ExecutionSet /\ e.turn = t /\ e.use = Head(uses[t]) /\ e.ok = FALSE
  BY <1>1, UseAtHand, NextExecution DEF Inv
<1> HIDE DEF e
<1>3. Answers(e, Head(uses[t])) /\ e \in Result /\ e \in executions'
  BY <1>1, <1>2, NoRefusal DEF Answers, Result
<1>4. History'
  BY <1>1, <1>3, AnsweredHistory
<1>5. Typed' /\ pc'[t] = "execute"
  <2>1. executions' \subseteq ExecutionSet /\ IsFiniteSet(executions')
    BY <1>1, <1>2, FS_AddElement DEF Inv, Typed
  <2> QED BY <1>1, <1>3, <2>1, AnsweredTyped DEF Inv, Typed
<1>6. Traced' /\ \A s \in Turns : s # t => pc'[s] = pc[s] /\ uses'[s] = uses[s]
  BY <1>1, <1>2, <1>3, AnsweredRest
<1>7. KeptOwn' /\ OncePerTurn'
  BY <1>1, <1>2 DEF Inv, KeptOwn, OncePerTurn
<1>8. Running'
  <2>1. \A s \in Turns : s # t => KeptFor(s)' = KeptFor(s)
    BY <1>1, <1>6 DEF KeptFor
  <2> QED BY <2>1, <1>1, <1>5, <1>6 DEF Inv, Running
<1>9. AllKept'
  <2>1. ASSUME NEW d \in executions PROVE d.turn \in Turns
    BY DEF Inv, Typed, ExecutionSet
  <2> QED BY <1>1, <1>2, <1>6, <2>1 DEF Inv, AllKept
<1> QED BY <1>4, <1>5, <1>6, <1>7, <1>8, <1>9 DEF Inv

LEMMA HandlerSucceedsInv ==
  ASSUME Inv, NEW t \in Turns, HandlerSucceeds(t)
  PROVE  Inv'
<1> DEFINE e == Execution(t, Head(uses[t]), TRUE)
<1>1. /\ pc[t] = "run" /\ uses[t] # <<>> /\ KeptFor(t) = {}
      /\ executions' = executions \union {e}
      /\ output' = [output EXCEPT ![t] = e] /\ pc' = [pc EXCEPT ![t] = "store"]
      /\ UNCHANGED <<round, messages, uses, results, kept>>
  BY DEF HandlerSucceeds, Goes, Inv, Running
<1>2. /\ e \in ExecutionSet /\ e.turn = t /\ e.use = Head(uses[t]) /\ e.ok = TRUE
  BY <1>1, UseAtHand, NextExecution DEF Inv
<1> HIDE DEF e
<1>3. Typed'
  <2>1. executions' \subseteq ExecutionSet /\ IsFiniteSet(executions')
    BY <1>1, <1>2, FS_AddElement DEF Inv, Typed
  <2> QED BY <1>1, <1>2, <2>1 DEF Inv, Typed, Labels, Result
<1>4. ASSUME NEW d \in executions, d.ok, d.turn = t, d.use = Head(uses[t])
      PROVE  FALSE
  <2>1. PICK k \in kept : k.execution = d
    BY <1>1, <1>4 DEF Inv, AllKept
  <2>2. k.key = IdempotencyKey(t, Head(uses[t]))
    BY <2>1, <1>4 DEF Inv, KeptOwn
  <2> QED BY <2>1, <2>2, <1>1 DEF KeptFor
<1>5. OncePerTurn'
  BY <1>1, <1>2, <1>4 DEF Inv, OncePerTurn
<1>6. KeptOwn' /\ Traced' /\ History'
  <2>1. KeptOwn'
    BY <1>1 DEF Inv, KeptOwn
  <2>2. Traced'
    BY <1>1 DEF Inv, Typed, Traced
  <2>3. History'
    BY <1>1 DEF Inv, Typed, History
  <2> QED BY <2>1, <2>2, <2>3
<1>7. Running'
  <2>1. \A s \in Turns : KeptFor(s)' = KeptFor(s)
    BY <1>1 DEF KeptFor
  <2>2. \A s \in Turns : s # t => pc'[s] = pc[s] /\ output'[s] = output[s]
    BY <1>1 DEF Inv, Typed
  <2>3. pc'[t] = "store" /\ output'[t] = e
    BY <1>1 DEF Inv, Typed
  <2> QED BY <1>1, <1>2, <2>1, <2>2, <2>3 DEF Inv, Running
<1>8. AllKept'
  <2>1. ASSUME NEW d \in executions PROVE d.turn \in Turns
    BY DEF Inv, Typed, ExecutionSet
  <2>2. \A s \in Turns : s # t => pc'[s] = pc[s] /\ output'[s] = output[s]
    BY <1>1 DEF Inv, Typed
  <2>3. pc'[t] = "store" /\ output'[t] = e
    BY <1>1 DEF Inv, Typed
  <2> QED BY <1>1, <1>2, <2>1, <2>2, <2>3 DEF Inv, AllKept
<1> QED BY <1>3, <1>5, <1>6, <1>7, <1>8 DEF Inv

LEMMA StoreResultInv ==
  ASSUME Inv, NEW t \in Turns, StoreResult(t)
  PROVE  Inv'
<1> DEFINE k == [key |-> IdempotencyKey(t, Head(uses[t])), execution |-> output[t]]
<1>1. /\ pc[t] = "store" /\ uses[t] # <<>> /\ KeptFor(t) = {}
      /\ output[t] \in executions /\ output[t].ok
      /\ output[t].turn = t /\ output[t].use = Head(uses[t])
      /\ kept' = kept \union {k} /\ Answered(t, output[t])
      /\ UNCHANGED <<round, messages, output, executions>>
  BY DEF StoreResult, Inv, Running
<1>2. output[t] \in ExecutionSet /\ output[t] \in Result
  BY <1>1 DEF Inv, Typed
<1>3. Answers(output[t], Head(uses[t]))
  BY <1>1, <1>2, NoRefusal DEF Answers
<1>4. History'
  BY <1>1, <1>2, <1>3, AnsweredHistory
<1>5. Typed' /\ pc'[t] = "execute"
  <2>1. k \in [key : Turns \X Names \X Inputs, execution : ExecutionSet]
    BY <1>1, <1>2, UseAtHand, KeySet
  <2> HIDE DEF k
  <2>2. kept' \subseteq [key : Turns \X Names \X Inputs, execution : ExecutionSet]
    BY <1>1, <2>1 DEF Inv, Typed
  <2> QED BY <1>1, <1>2, <2>2, AnsweredTyped DEF Inv, Typed
<1>6. Traced' /\ \A s \in Turns : s # t => pc'[s] = pc[s] /\ uses'[s] = uses[s]
  BY <1>1, AnsweredRest
<1>7. KeptOwn' /\ OncePerTurn'
  BY <1>1 DEF Inv, KeptOwn, OncePerTurn
<1>8. Running'
  <2>1. ASSUME NEW s \in Turns, s # t PROVE KeptFor(s)' = KeptFor(s)
    <3>1. k.key # IdempotencyKey(s, Head(uses[s]))
      BY <2>1 DEF IdempotencyKey
    <3> HIDE DEF k
    <3> QED BY <2>1, <3>1, <1>1, <1>6 DEF KeptFor
  <2> QED BY <2>1, <1>1, <1>5, <1>6 DEF Inv, Running
<1>9. AllKept'
  <2>1. ASSUME NEW d \in executions PROVE d.turn \in Turns
    BY DEF Inv, Typed, ExecutionSet
  <2>2. k \in kept' /\ k.execution = output[t]
    BY <1>1
  <2> HIDE DEF k
  <2> QED BY <1>1, <1>6, <2>1, <2>2 DEF Inv, AllKept
<1> QED BY <1>4, <1>5, <1>6, <1>7, <1>8, <1>9 DEF Inv

-----------------------------------------------------------------------------
LEMMA StutterInv == Inv /\ UNCHANGED vars => Inv'
<1> SUFFICES ASSUME Inv, UNCHANGED vars PROVE Inv'
  OBVIOUS
<1>1. Typed'
  BY DEF vars, Inv, Typed
<1>2. KeptOwn' /\ Traced' /\ AllKept' /\ OncePerTurn'
  BY DEF vars, Inv, KeptOwn, Traced, AllKept, OncePerTurn
<1>3. Running'
  <2>1. \A s \in Turns : KeptFor(s)' = KeptFor(s)
    BY DEF vars, KeptFor
  <2> QED BY <2>1 DEF vars, Inv, Running
<1>4. History'
  BY DEF vars, Inv, History
<1> QED BY <1>1, <1>2, <1>3, <1>4 DEF Inv

\* The invariant is inductive: histories, kept results and executions agree at every step.
THEOREM Invariance == Spec => []Inv
<1>1. Inv /\ [Next]_vars => Inv'
  <2> SUFFICES ASSUME Inv, [Next]_vars PROVE Inv'
    OBVIOUS
  <2>1. ASSUME NEW t \in Turns, Call(t) PROVE Inv'
    BY <2>1, AskEnds, WantToolsInv, SendResultsInv DEF Call
  <2>2. ASSUME NEW t \in Turns, Execute(t) PROVE Inv'
    BY <2>2, UseKeptInv, RefuseUnknownInv, StartHandlerInv, HandlerFailsInv,
       HandlerSucceedsInv, StoreResultInv DEF Execute
  <2>3. CASE UNCHANGED vars
    BY <2>3, StutterInv
  <2> QED BY <2>1, <2>2, <2>3 DEF Next
<1> QED BY <1>1, InitInv, PTL DEF Spec

\* Every variable of the tool loop keeps its type; no turn has more rounds than permitted
\* (llm.Caller.Call).
THEOREM LoopTypeCorrect == Spec => []TypeOK
<1>1. Inv => TypeOK
  BY DEF Inv, Typed, KeptOwn, Traced, Running, TypeOK, Labels, ExecutionSet
<1> QED BY <1>1, Invariance, PTL

\* The model is sent a result for every tool use, in order, whatever fails
\* (llm.Caller.Call, Registry.Execute).
THEOREM EveryUseIsAnswered == Spec => []EveryUseAnswered
<1>1. Inv => EveryUseAnswered
  BY DEF Inv, History, Alternates, EveryUseAnswered
<1> QED BY <1>1, Invariance, PTL

\* Turns that share the registry get no results of each other (llm.IdempotencyKey).
THEOREM ResultsAreOwn == Spec => []OwnResults
<1>1. Inv => OwnResults
  BY DEF Inv, Traced, OwnResults
<1> QED BY <1>1, Invariance, PTL

\* A tool that has succeeded is not run again in its turn (Registry.Execute).
THEOREM SucceedsOnce == Spec => []OncePerTurn
<1>1. Inv => OncePerTurn
  BY DEF Inv
<1> QED BY <1>1, Invariance, PTL

=============================================================================
