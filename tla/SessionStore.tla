---------------------------- MODULE SessionStore ----------------------------
(***************************************************************************)
(* One chat session of the agent: its turns in memory (Session.Turns), its *)
(* JSONL file, the goroutines that answer messages on it (HandleMessage    *)
(* and the post-turn hooks it waits for) and the compaction goroutine that *)
(* replaces old turns by a summary, with crashes and restarts from disk.   *)
(*                                                                         *)
(* Turns are numbered in the order AddTurn appends them.  What a turn says *)
(* is left out; what an entry of Session.Turns stands for is kept: a turn  *)
(* stands for itself, a summary for every turn of the block it was written *)
(* from.                                                                   *)
(***************************************************************************)
EXTENDS Integers, Sequences, FiniteSets

CONSTANTS
  Handlers,                  \* goroutines running HandleMessage on the session
  Jobs,                      \* goroutines running runCompaction on it
  MaxTurnsBeforeCompaction,  \* config: 0 or less disables compaction
  MaxTurnsInContext,         \* config: turns compaction keeps; 0 or less: 50
  MaxContextTokens,          \* config, in turns of one unit; 0 or less: no limit
  FlagAtBoot,                \* "absent": no entry in compactionFlags, as the program
                             \* boots; "idle": the entry is there
  BrainAtBoot,               \* outcomes of wiring the brain: "bridge", "nil"
  Extraction,                \* what the extractor returns: "entities", "none"
  BrainOutcomes,             \* "stored", "unavailable", "write_failed"
  WriteOutcomes,             \* of a write to the session file: "ok", "failed"
  LineLengths,               \* of what is written: "fits", or "too_long" for the 64 KB
                             \* that bufio.Scanner reads as one line
  MayRestart,                \* whether the process may stop and start again
  MaxTurns                   \* bound: turns added in a behaviour

ASSUME ConfigAssumption ==
  /\ MaxTurnsBeforeCompaction \in Int
  /\ MaxTurnsInContext \in Int
  /\ MaxContextTokens \in Int
  /\ MaxTurns \in Nat

ASSUME EnvironmentAssumption ==
  /\ FlagAtBoot \subseteq {"absent", "idle"}
  /\ BrainAtBoot \subseteq {"bridge", "nil"}
  /\ Extraction \subseteq {"entities", "none"}
  /\ BrainOutcomes \subseteq {"stored", "unavailable", "write_failed"}
  /\ WriteOutcomes \subseteq {"ok", "failed"}
  /\ LineLengths \subseteq {"fits", "too_long"}
  /\ MayRestart \in BOOLEAN

VARIABLES
  turns,       \* Session.Turns, guarded by Session.mu
  disk,        \* the session file, as its lines make up a session
  tooLong,     \* whether one of them is too long for the scanner
  flag,        \* compactionFlags[session]: "absent", "idle", "running"
  brain,       \* the bridge wired at boot: "bridge" or "nil"
  pc,          \* HandleMessage: "idle", "llm", "hooks"
  turn,        \* the turn a handler's hooks run for
  persisting,  \* whether PersistSessionHook has still to run
  hook,        \* CompactionHook: "check", "lookup", "swap", "cas", "done"
  job,         \* runCompaction: where it is, its n, oldTurns and what
               \* the extractor found
  said,        \* history: number of turns added
  known,       \* history: turns the running process has had in the session
  durable,     \* history: turns whose Persist returned no error
  remembered,  \* history: turns whose entities the brain has stored
  run,         \* history: the run of the process, even (0) or odd (1)
  lastExit     \* history: how the process last ended

memory == <<turns, flag, pc, turn, persisting, hook, job>>
file == <<disk, tooLong>>
history == <<said, known, durable, remembered, run, lastExit>>
vars == <<memory, file, brain, history>>

-----------------------------------------------------------------------------
(* Entries of Session.Turns and lines of the file *)

Turn(t) == [id |-> t, of |-> {t}]
Summary(S) == [id |-> 0, of |-> S]
IsSummary(e) == e.id = 0

Covered(s) == UNION {s[i].of : i \in DOMAIN s}

TurnId == 1 .. MaxTurns
Entry == [id : 0 .. MaxTurns, of : SUBSET TurnId]

\* The turns compaction keeps, with runCompaction's default.
Keep == IF MaxTurnsInContext <= 0 THEN 50 ELSE MaxTurnsInContext

LastTurns(s, n) == SubSeq(s, Len(s) - n + 1, Len(s))

\* The LLM's window: the most recent turns, within the token budget.
GetContextTurns(s) ==
  LET recent == IF MaxTurnsInContext > 0 /\ Len(s) > MaxTurnsInContext
                THEN LastTurns(s, MaxTurnsInContext) ELSE s
  IN IF MaxContextTokens > 0 /\ Len(recent) > MaxContextTokens
     THEN LastTurns(recent, MaxContextTokens) ELSE recent

\* What LoadFromDisk makes of one line more than it has read.
LoadTurn(loaded, t) == Append(loaded, Turn(t))

LoadCompaction_Unclamped(loaded, replaced, S) ==
  <<Summary(S)>> \o SubSeq(loaded, replaced + 2, Len(loaded))

LoadCompaction(loaded, replaced, S) ==
  LET replace == IF replaced > Len(loaded) THEN Len(loaded) ELSE replaced
  IN <<Summary(S)>> \o SubSeq(loaded, replace + 1, Len(loaded))

-----------------------------------------------------------------------------
(* Compaction jobs *)

JobRecord ==
  [pc : {"none", "snapshot", "extract", "brain", "replace", "append", "release"},
   n : Nat, old : Seq(Entry), found : {"entities", "none"}]

NoJob == [pc |-> "none", n |-> 0, old |-> <<>>, found |-> "none"]
Running(j) == job[j].pc # "none"

\* A block of turns a job has copied and not yet replaced.
Holding(j) == job[j].pc \in {"extract", "brain", "replace"}

GoTo(j, label) == job' = [job EXCEPT ![j].pc = label]

-----------------------------------------------------------------------------
Init ==
  /\ turns = <<>> /\ disk = <<>> /\ tooLong = FALSE
  /\ flag \in FlagAtBoot
  /\ brain \in BrainAtBoot
  /\ pc = [h \in Handlers |-> "idle"]
  /\ turn = [h \in Handlers |-> 0]
  /\ persisting = [h \in Handlers |-> FALSE]
  /\ hook = [h \in Handlers |-> "done"]
  /\ job = [j \in Jobs |-> NoJob]
  /\ said = 0
  /\ known = {} /\ durable = {} /\ remembered = {}
  /\ run = 0 /\ lastExit = "none"

\* What a restart makes of the file.  The scanner gives up at a line that is too
\* long, and LoadFromDisk with it: LoadAll skips the file, ResolveOrCreate starts
\* fresh.  The line stays in the file, so it is never read again.
Loaded == IF tooLong THEN <<>> ELSE disk

\* The process ends, its goroutines and memory with it, and starts again:
\* LoadAll or ResolveOrCreate rebuilds the session from its file.
Boot(reason) ==
  /\ turns' = Loaded
  /\ flag' \in FlagAtBoot
  /\ brain' \in BrainAtBoot
  /\ pc' = [h \in Handlers |-> "idle"]
  /\ turn' = [h \in Handlers |-> 0]
  /\ persisting' = [h \in Handlers |-> FALSE]
  /\ hook' = [h \in Handlers |-> "done"]
  /\ job' = [j \in Jobs |-> NoJob]
  /\ known' = Covered(Loaded)
  /\ run' = 1 - run /\ lastExit' = reason
  /\ UNCHANGED <<file, said, durable, remembered>>

Restart == MayRestart /\ Boot("restart")

-----------------------------------------------------------------------------
(* HandleMessage *)

Receive(h) ==
  /\ pc[h] = "idle"
  /\ pc' = [pc EXCEPT ![h] = "llm"]
  /\ UNCHANGED <<turns, flag, turn, persisting, hook, job, file, brain, history>>

\* The backend returns an error: HandleMessage returns it and adds no turn.
LLMFails(h) ==
  /\ pc[h] = "llm"
  /\ pc' = [pc EXCEPT ![h] = "idle"]
  /\ UNCHANGED <<turns, flag, turn, persisting, hook, job, file, brain, history>>

\* The hooks are started for the turn of the message before.
AddTurn_Previous(h) ==
  /\ pc[h] = "llm"
  /\ said < MaxTurns
  /\ said' = said + 1
  /\ turns' = Append(turns, Turn(said + 1))
  /\ known' = known \union {said + 1}
  /\ pc' = [pc EXCEPT ![h] = "hooks"]
  /\ persisting' = [persisting EXCEPT ![h] = TRUE]
  /\ hook' = [hook EXCEPT ![h] = "check"]
  /\ UNCHANGED <<turn, flag, job, file, brain, durable, remembered, run, lastExit>>

\* The answer is complete: the turn is appended to the session and RunHooks
\* starts every hook in a goroutine of its own.
AddTurn(h) ==
  /\ pc[h] = "llm"
  /\ said < MaxTurns
  /\ said' = said + 1
  /\ turns' = Append(turns, Turn(said + 1))
  /\ known' = known \union {said + 1}
  /\ pc' = [pc EXCEPT ![h] = "hooks"]
  /\ turn' = [turn EXCEPT ![h] = said + 1]
  /\ persisting' = [persisting EXCEPT ![h] = TRUE]
  /\ hook' = [hook EXCEPT ![h] = "check"]
  /\ UNCHANGED <<flag, job, file, brain, durable, remembered, run, lastExit>>

\* One O_APPEND write of a line; nothing looks at how long it is.
WriteLine(lines) ==
  /\ disk' = lines
  /\ \E l \in LineLengths : tooLong' = (tooLong \/ l = "too_long")

\* PersistSessionHook writes the turn's line.  A failure is logged by RunHooks and
\* otherwise ignored.
PersistTurn(h) ==
  /\ persisting[h]
  /\ persisting' = [persisting EXCEPT ![h] = FALSE]
  /\ \/ /\ "ok" \in WriteOutcomes
        /\ WriteLine(LoadTurn(disk, turn[h]))
        /\ durable' = durable \union {turn[h]}
     \/ /\ "failed" \in WriteOutcomes
        /\ UNCHANGED <<file, durable>>
  /\ UNCHANGED <<turns, flag, pc, turn, hook, job, brain, said, known,
                 remembered, run, lastExit>>

HookStep(h, from, to) ==
  /\ hook[h] = from
  /\ hook' = [hook EXCEPT ![h] = to]
  /\ UNCHANGED <<turns, pc, turn, persisting, file, brain, history>>

\* CompactionHook's two early returns, on a TurnCount read under the lock.
CheckThreshold(h) ==
  /\ UNCHANGED <<flag, job>>
  /\ HookStep(h, "check",
              IF \/ MaxTurnsBeforeCompaction <= 0
                 \/ Len(turns) < MaxTurnsBeforeCompaction
              THEN "done" ELSE "lookup")

\* compactionFlags.flag: the session's entry is found at once, or a copy of the
\* map that has it must be swapped in.
LookupFlag(h) ==
  /\ UNCHANGED <<flag, job>>
  /\ HookStep(h, "lookup", IF flag = "absent" THEN "swap" ELSE "cas")

\* atomic.Value.CompareAndSwap on a Value nothing was stored in succeeds only
\* when old is the nil interface.  flag passes a nil map, which is not: the swap
\* fails, nothing is ever stored, and the loop goes round.
SwapFlagMap(h) ==
  /\ UNCHANGED <<flag, job>>
  /\ HookStep(h, "swap", "lookup")

\* A mutex in place of the flag: a hook waits for the running compaction.
StartCompaction_Mutex(h) ==
  /\ flag = "idle"
  /\ flag' = "running"
  /\ \E j \in Jobs : ~Running(j) /\ GoTo(j, "snapshot")
  /\ HookStep(h, "cas", "done")

\* The flag is read and stored without the compare-and-swap.
StartCompaction_NoCAS(h) ==
  /\ flag' = "running"
  /\ \E j \in Jobs : ~Running(j) /\ GoTo(j, "snapshot")
  /\ HookStep(h, "cas", "done")

\* CompareAndSwapInt32(flag, 0, 1): the winner starts the goroutine, the others
\* return.  The hook does not wait for the goroutine.
StartCompaction(h) ==
  \/ /\ flag = "running"
     /\ HookStep(h, "cas", "done")
     /\ UNCHANGED <<flag, job>>
  \/ /\ flag = "idle"
     /\ flag' = "running"
     /\ \E j \in Jobs : ~Running(j) /\ GoTo(j, "snapshot")
     /\ HookStep(h, "cas", "done")

\* RunHooks returns when every hook has; so does HandleMessage.
HooksDone(h) ==
  /\ pc[h] = "hooks"
  /\ ~persisting[h] /\ hook[h] = "done"
  /\ pc' = [pc EXCEPT ![h] = "idle"]
  /\ UNCHANGED <<turns, flag, turn, persisting, hook, job, file, brain, history>>

HandlerStep(h) ==
  \/ PersistTurn(h)
  \/ CheckThreshold(h)
  \/ LookupFlag(h)
  \/ SwapFlagMap(h)
  \/ StartCompaction(h)
  \/ HooksDone(h)

Handle(h) == Receive(h) \/ LLMFails(h) \/ AddTurn(h) \/ HandlerStep(h)

-----------------------------------------------------------------------------
(* runCompaction *)

\* The goroutine's deferred store: the flag is free again.
Finish(j) ==
  /\ job' = [job EXCEPT ![j] = NoJob]
  /\ flag' = "idle"

\* Under the lock: read n, return if there is nothing to compact, else copy the
\* old turns; then unlock for the LLM calls.
Snapshot(j) ==
  /\ job[j].pc = "snapshot"
  /\ LET n == Len(turns) IN
       \/ /\ n <= Keep
          /\ Finish(j)
       \/ /\ n > Keep
          /\ job' = [job EXCEPT ![j] = [pc |-> "extract", n |-> n,
                       old |-> SubSeq(turns, 1, n - Keep), found |-> "none"]]
          /\ UNCHANGED flag
  /\ UNCHANGED <<turns, pc, turn, persisting, hook, file, brain, history>>

\* The extractor never fails: without an LLM it returns no entities and a
\* fallback summary.
Extract(j) ==
  /\ job[j].pc = "extract"
  /\ \E x \in Extraction :
       job' = [job EXCEPT ![j].pc = "brain", ![j].found = x]
  /\ UNCHANGED <<turns, flag, pc, turn, persisting, hook, file, brain, history>>

\* The entities go to the brain if it is available and there are any; an
\* unavailable brain or a failed write is logged, and compaction goes on.
WriteBrain(j) ==
  /\ job[j].pc = "brain"
  /\ brain = "bridge"
  /\ GoTo(j, "replace")
  /\ \E b \in BrainOutcomes :
       remembered' = remembered \union
         (IF b = "stored" /\ job[j].found = "entities" THEN Covered(job[j].old) ELSE {})
  /\ UNCHANGED <<turns, flag, pc, turn, persisting, hook, file, brain,
                 said, known, durable, run, lastExit>>

\* Without a bridge the interface still holds a (nil) *GBrainBridge, so
\* brain != nil, and Available dereferences it: the goroutine panics, nothing
\* recovers, the process dies.
PanicOnNilBrain(j) ==
  /\ job[j].pc = "brain"
  /\ brain = "nil"
  /\ Boot("panic")

\* The kept turns are copied with the old ones, before the LLM calls.
ReplaceTurns_Stale(j) ==
  /\ job[j].pc = "replace"
  /\ turns' = <<Summary(Covered(job[j].old))>> \o
                SubSeq(turns, job[j].n - Keep + 1, job[j].n)
  /\ GoTo(j, "append")
  /\ UNCHANGED <<flag, pc, turn, persisting, hook, file, brain, history>>

\* The kept turns are counted from the end of the session as it is now.
ReplaceTurns_Recount(j) ==
  /\ job[j].pc = "replace"
  /\ turns' = <<Summary(Covered(job[j].old))>> \o LastTurns(turns, Keep)
  /\ GoTo(j, "append")
  /\ UNCHANGED <<flag, pc, turn, persisting, hook, file, brain, history>>

\* Under the lock again: everything from index n - keep on is kept, the turns
\* added meanwhile included.
ReplaceTurns(j) ==
  /\ job[j].pc = "replace"
  /\ turns' = <<Summary(Covered(job[j].old))>> \o
                SubSeq(turns, job[j].n - Keep + 1, Len(turns))
  /\ GoTo(j, "append")
  /\ UNCHANGED <<flag, pc, turn, persisting, hook, file, brain, history>>

\* The record counts every turn of the session when it is written.
AppendRecord_Recount(j) ==
  /\ job[j].pc = "append"
  /\ GoTo(j, "release")
  /\ WriteLine(LoadCompaction(disk, Len(job[j].old) + 1, Covered(job[j].old)))
  /\ UNCHANGED <<turns, flag, pc, turn, persisting, hook, brain, history>>

\* The flag is released only at the end of a complete compaction.
AppendRecord_NoDefer(j) ==
  /\ job[j].pc = "append"
  /\ \/ /\ "ok" \in WriteOutcomes
        /\ WriteLine(LoadCompaction(disk, Len(job[j].old), Covered(job[j].old)))
        /\ GoTo(j, "release")
     \/ /\ "failed" \in WriteOutcomes
        /\ job' = [job EXCEPT ![j] = NoJob]
        /\ UNCHANGED file
  /\ UNCHANGED <<turns, flag, pc, turn, persisting, hook, brain, history>>

\* The compaction record is written, its summary in it; a failure is only logged.
AppendRecord(j) ==
  /\ job[j].pc = "append"
  /\ GoTo(j, "release")
  /\ \/ /\ "ok" \in WriteOutcomes
        /\ WriteLine(LoadCompaction(disk, Len(job[j].old), Covered(job[j].old)))
     \/ /\ "failed" \in WriteOutcomes
        /\ UNCHANGED file
  /\ UNCHANGED <<turns, flag, pc, turn, persisting, hook, brain, history>>

ReleaseFlag(j) ==
  /\ job[j].pc = "release"
  /\ Finish(j)
  /\ UNCHANGED <<turns, pc, turn, persisting, hook, file, brain, history>>

JobStep(j) ==
  \/ Snapshot(j)
  \/ Extract(j)
  \/ WriteBrain(j)
  \/ ReplaceTurns(j)
  \/ AppendRecord(j)
  \/ ReleaseFlag(j)

Compact(j) == JobStep(j) \/ PanicOnNilBrain(j)

-----------------------------------------------------------------------------
Next ==
  \/ \E h \in Handlers : Handle(h)
  \/ \E j \in Jobs : Compact(j)
  \/ Restart

Spec == Init /\ [][Next]_vars

\* Go runs every runnable goroutine; nothing here waits for a message to come,
\* an answer to be produced or the process to stop.
HandlerFairness == \A h \in Handlers : WF_vars(HandlerStep(h))

FairSpec == Spec /\ HandlerFairness

-----------------------------------------------------------------------------
(* Properties *)

TypeOK ==
  /\ turns \in Seq(Entry) /\ disk \in Seq(Entry) /\ tooLong \in BOOLEAN
  /\ flag \in {"absent", "idle", "running"}
  /\ brain \in {"bridge", "nil"}
  /\ pc \in [Handlers -> {"idle", "llm", "hooks"}]
  /\ turn \in [Handlers -> 0 .. MaxTurns]
  /\ persisting \in [Handlers -> BOOLEAN]
  /\ \A h \in Handlers : persisting[h] => turn[h] \in TurnId
  /\ hook \in [Handlers -> {"check", "lookup", "swap", "cas", "done"}]
  /\ job \in [Jobs -> JobRecord]
  /\ said \in 0 .. MaxTurns
  /\ known \subseteq TurnId /\ durable \subseteq TurnId
  /\ remembered \subseteq TurnId /\ run \in {0, 1}
  /\ lastExit \in {"none", "restart", "panic"}

\* Two compactions never overlap on a session: a goroutine in runCompaction
\* holds the flag, alone, until its deferred store.
OneCompaction ==
  /\ \A i, j \in Jobs : Running(i) /\ Running(j) => i = j
  /\ flag = "running" <=> \E j \in Jobs : Running(j)

\* What runCompaction read before it unlocked the session is still good when it
\* locks it again, whatever the handlers did meanwhile: oldTurns is still the
\* front of Session.Turns and n - keep still inside it (the slice expression
\* sess.Turns[n-keep:] cannot panic).
SnapshotStillGood ==
  \A j \in Jobs : Holding(j) =>
    /\ Keep < job[j].n /\ job[j].n <= Len(turns)
    /\ job[j].old = SubSeq(turns, 1, job[j].n - Keep)

\* No turn leaves a session's memory but into a summary written from it: the
\* session accounts for every turn the process loaded or added.
NothingForgotten == Covered(turns) = known

\* A turn whose Persist succeeded survives, as long as every line fits the scanner:
\* the session a restart would load accounts for it, verbatim or in a summary
\* written from it.
Resumable == ~tooLong => durable \subseteq Covered(Loaded)

\* As long as every line fits the scanner, when no hook and no compaction is at work
\* a restart would load the session exactly as it is in memory.
DiskMatchesMemory ==
  (/\ ~tooLong
   /\ \A h \in Handlers : ~persisting[h]
   /\ \A j \in Jobs : job[j].pc # "append") => Loaded = turns

\* PRD-10: facts are in the brain before the turns they come from are removed.  It
\* does not hold: an unavailable brain does not keep turns from being replaced.
FactsBeforeRemoval ==
  \A i \in DOMAIN turns : IsSummary(turns[i]) => turns[i].of \subseteq remembered

\* compaction.go: a nil brain makes compaction skip gracefully.
NilBrainIsHarmless == lastExit # "panic"

\* PRD-10: a session that was compacted gives its summary to the LLM.
SummaryReachesLLM ==
  (turns # <<>> /\ IsSummary(turns[1])) =>
    LET w == GetContextTurns(turns) IN w # <<>> /\ IsSummary(w[1])

\* Hooks never keep HandleMessage from returning, however long the compaction
\* they start takes: not even an extractor that never returns delays an answer.
ResponsePathFree ==
  \A h \in Handlers : pc[h] = "hooks" ~> pc[h] # "hooks"

\* If the LLM and brain calls of compactions return, every compaction that starts
\* gives the flag back, by whichever exit: later turns can be compacted.
CompactionFinishes ==
  (\A j \in Jobs : WF_vars(Compact(j))) => (flag = "running" ~> flag # "running")

\* The turns a list keeps word for word: all of it, but for a summary at its front.
Verbatim(s) == LET rest == IF s # <<>> /\ IsSummary(s[1]) THEN Tail(s) ELSE s
               IN [i \in DOMAIN rest |-> rest[i].id]

\* The session is an implementation of a conversation nobody has to compact, which
\* a restart brings back as it was saved unless a line was too long.
Conv == INSTANCE Conversation WITH
  known <- known,
  saved <- durable,
  verbatim <- Verbatim(turns),
  intact <- ~tooLong,
  run <- run

ConversationKept == Conv!Spec
=============================================================================
