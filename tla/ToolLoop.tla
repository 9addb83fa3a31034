------------------------------ MODULE ToolLoop ------------------------------
(***************************************************************************)
(* The API backend: Caller.Call asks the model, runs the tools it wants    *)
(* through the registry, sends it their results and asks again, for at     *)
(* most so many rounds.  Several turns do so at once and share the         *)
(* registry, which keeps results by idempotency key.                       *)
(*                                                                         *)
(* Of a message only its tool uses or tool results are kept; of a tool's   *)
(* output, which execution it comes from.                                  *)
(***************************************************************************)
EXTENDS Integers, Sequences, FiniteSets

CONSTANTS
  Turns,          \* turns being answered, each with a TurnID of its own
  Registered,     \* names of the tools in the registry
  Names,          \* names the model uses
  Inputs,         \* inputs it gives them
  MaxToolRounds,  \* config; 0 or less: 5
  MaxUses         \* bound: tool uses in one response

ASSUME LoopAssumption ==
  /\ Registered \subseteq Names
  /\ MaxToolRounds \in Int
  /\ MaxUses \in Nat

VARIABLES
  pc,        \* "ask", "execute", "run", "store", "returned", "failed"
  round,     \* of Call's for loop
  messages,  \* what the model is sent: uses and results in turn
  uses,      \* tool uses of the response that have not been executed
  results,   \* tool results of the response so far
  output,    \* the execution whose output the handler has just returned
  kept,      \* the registry's idempotency map: key -> execution
  executions \* history: executions that handlers have finished

vars == <<pc, round, messages, uses, results, output, kept, executions>>

-----------------------------------------------------------------------------
Rounds == IF MaxToolRounds <= 0 THEN 5 ELSE MaxToolRounds

Use == [name : Names, input : Inputs]

\* The n-th execution of a turn, of which tool use, and whether it went well.
Execution(t, u, ok) ==
  [turn |-> t, n |-> Cardinality({e \in executions : e.turn = t}) + 1, use |-> u, ok |-> ok]

\* A result that comes from no execution: the registry knows no such tool, or no
\* such key for this tool.
Refusal == [n |-> 0]

Wants(us) == [kind |-> "uses", items |-> us]
Gives(rs) == [kind |-> "results", items |-> rs]

\* The key of a tool use, kept beside the name of the tool it was made for.
IdempotencyKey_NoTurn(t, u) == u

IdempotencyKey(t, u) == <<t, u.name, u.input>>

Init ==
  /\ pc = [t \in Turns |-> "ask"]
  /\ round = [t \in Turns |-> 0]
  /\ messages = [t \in Turns |-> <<>>]
  /\ uses = [t \in Turns |-> <<>>]
  /\ results = [t \in Turns |-> <<>>]
  /\ output = [t \in Turns |-> Refusal]
  /\ kept = {}
  /\ executions = {}

Goes(t, label) == pc' = [pc EXCEPT ![t] = label]

-----------------------------------------------------------------------------
(* Caller.Call *)

\* The request or the stream fails, or the context ends while a token waits for room.
AskFails(t) ==
  /\ pc[t] = "ask" /\ Goes(t, "failed")
  /\ UNCHANGED <<round, messages, uses, results, output, kept, executions>>

\* Any stop reason but tool_use ends the loop.
Answer(t) ==
  /\ pc[t] = "ask" /\ Goes(t, "returned")
  /\ UNCHANGED <<round, messages, uses, results, output, kept, executions>>

\* The assistant's message is appended with all it contains.
WantTools(t) ==
  /\ pc[t] = "ask"
  /\ \E k \in 1 .. MaxUses : \E us \in [1 .. k -> Use] :
       /\ messages' = [messages EXCEPT ![t] = Append(@, Wants(us))]
       /\ uses' = [uses EXCEPT ![t] = us]
  /\ results' = [results EXCEPT ![t] = <<>>]
  /\ Goes(t, "execute")
  /\ UNCHANGED <<round, output, kept, executions>>

\* A result is taken and the next tool use is up.
Answered(t, r) ==
  /\ results' = [results EXCEPT ![t] = Append(@, r)]
  /\ uses' = [uses EXCEPT ![t] = Tail(@)]
  /\ Goes(t, "execute")

\* Refusals are left out of the results.
SendResults_Succeeded(t) ==
  /\ pc[t] = "execute" /\ uses[t] = <<>>
  /\ messages' = [messages EXCEPT ![t] =
                    Append(@, Gives(SelectSeq(results[t], LAMBDA r : r.n # 0)))]
  /\ round' = [round EXCEPT ![t] = @ + 1]
  /\ Goes(t, IF round'[t] < Rounds THEN "ask" ELSE "returned")
  /\ UNCHANGED <<uses, results, output, kept, executions>>

\* The round is compared before it is counted.
SendResults_OneMore(t) ==
  /\ pc[t] = "execute" /\ uses[t] = <<>>
  /\ messages' = [messages EXCEPT ![t] = Append(@, Gives(results[t]))]
  /\ round' = [round EXCEPT ![t] = @ + 1]
  /\ Goes(t, IF round[t] < Rounds THEN "ask" ELSE "returned")
  /\ UNCHANGED <<uses, results, output, kept, executions>>

\* Every use has its result: they go to the model, or, after the last round, to
\* nobody, and Call returns the last text there was.
SendResults(t) ==
  /\ pc[t] = "execute" /\ uses[t] = <<>>
  /\ messages' = [messages EXCEPT ![t] = Append(@, Gives(results[t]))]
  /\ round' = [round EXCEPT ![t] = @ + 1]
  /\ Goes(t, IF round'[t] < Rounds THEN "ask" ELSE "returned")
  /\ UNCHANGED <<uses, results, output, kept, executions>>

Call(t) == AskFails(t) \/ Answer(t) \/ WantTools(t) \/ SendResults(t)

-----------------------------------------------------------------------------
(* Registry.Execute *)

\* What is kept for the tool use at hand.
KeptFor(t) == {k \in kept : k.key = IdempotencyKey(t, Head(uses[t]))}

UseKept(t) ==
  /\ pc[t] = "execute" /\ uses[t] # <<>>
  /\ \E k \in KeptFor(t) :
       Answered(t, IF k.execution.use.name = Head(uses[t]).name THEN k.execution ELSE Refusal)
  /\ UNCHANGED <<round, messages, output, kept, executions>>

RefuseUnknown(t) ==
  /\ pc[t] = "execute" /\ uses[t] # <<>> /\ KeptFor(t) = {}
  /\ Head(uses[t]).name \notin Registered
  /\ Answered(t, Refusal)
  /\ UNCHANGED <<round, messages, output, kept, executions>>

StartHandler(t) ==
  /\ pc[t] = "execute" /\ uses[t] # <<>> /\ KeptFor(t) = {}
  /\ Head(uses[t]).name \in Registered
  /\ Goes(t, "run")
  /\ UNCHANGED <<round, messages, uses, results, output, kept, executions>>

\* A failure is passed on and not kept.
HandlerFails(t) ==
  /\ pc[t] = "run"
  /\ LET e == Execution(t, Head(uses[t]), FALSE) IN
       /\ executions' = executions \union {e}
       /\ Answered(t, e)
  /\ UNCHANGED <<round, messages, output, kept>>

HandlerSucceeds(t) ==
  /\ pc[t] = "run"
  /\ LET e == Execution(t, Head(uses[t]), TRUE) IN
       /\ executions' = executions \union {e}
       /\ output' = [output EXCEPT ![t] = e]
  /\ Goes(t, "store")
  /\ UNCHANGED <<round, messages, uses, results, kept>>

\* The output is returned without being kept.
StoreResult_Skip(t) ==
  /\ pc[t] = "store"
  /\ Answered(t, output[t])
  /\ UNCHANGED <<round, messages, output, kept, executions>>

\* sync.Map.Store: over what is there.
StoreResult(t) ==
  /\ pc[t] = "store"
  /\ kept' = (kept \ KeptFor(t)) \union
               {[key |-> IdempotencyKey(t, Head(uses[t])), execution |-> output[t]]}
  /\ Answered(t, output[t])
  /\ UNCHANGED <<round, messages, output, executions>>

Execute(t) ==
  \/ UseKept(t) \/ RefuseUnknown(t) \/ StartHandler(t)
  \/ HandlerFails(t) \/ HandlerSucceeds(t) \/ StoreResult(t)

-----------------------------------------------------------------------------
Next == \E t \in Turns : Call(t) \/ Execute(t)

Spec == Init /\ [][Next]_vars

-----------------------------------------------------------------------------
(* Properties *)

\* Every variable has its type; in particular no turn has more rounds than permitted,
\* and a tool that runs is one the model asked for.
TypeOK ==
  /\ pc \in [Turns -> {"ask", "execute", "run", "store", "returned", "failed"}]
  /\ round \in [Turns -> 0 .. Rounds]
  /\ \A t \in Turns :
       /\ uses[t] \in Seq(Use)
       /\ pc[t] \in {"run", "store"} => uses[t] # <<>>
       /\ \A i \in 1 .. Len(results[t]) : results[t][i] \in executions \union {Refusal}
       /\ output[t] \in executions \union {Refusal}
  /\ \A e \in executions : e.turn \in Turns /\ e.use \in Use /\ e.n \in Nat \ {0}
  /\ \A k \in kept : k.execution \in executions /\ k.execution.ok

\* A result answers a tool use: it comes from an execution of that very use, or the
\* registry has no such tool.
Answers(r, u) == IF r = Refusal THEN u.name \notin Registered ELSE r.use = u

\* What the model is sent alternates: its tool uses, then a result for each of them, in
\* their order, whichever tools failed, were unknown or had run before
\* (llm.Caller.Call, Registry.Execute).  The API refuses any other history.
EveryUseAnswered ==
  \A t \in Turns : LET h == messages[t] IN
    /\ pc[t] \in {"ask", "returned", "failed"} => Len(h) % 2 = 0
    /\ \A i \in 1 .. Len(h) :
         IF i % 2 = 1 THEN h[i].kind = "uses"
         ELSE /\ h[i].kind = "results"
              /\ Len(h[i].items) = Len(h[i - 1].items)
              /\ \A j \in 1 .. Len(h[i].items) : Answers(h[i].items[j], h[i - 1].items[j])

\* Turns that run at once share the registry and its kept results, but no turn is given
\* the result of another's execution (llm.IdempotencyKey begins with the turn's id).
OwnResults ==
  \A t \in Turns : \A i \in 1 .. Len(results[t]) :
    results[t][i] # Refusal => results[t][i].turn = t

\* However often the model repeats a tool use within a turn, in one response or in a
\* later round, a tool that has succeeded is not run again (Registry.Execute: "prevents
\* double-execution").
OncePerTurn ==
  \A d, e \in executions :
    d.turn = e.turn /\ d.use = e.use /\ d.ok /\ e.ok => d = e
=============================================================================
