# TLA+ models of the AKB48 agent

The agent (`src/cmd/akb48`, `src/internal`, `src/adapters`) answers chat messages with an LLM, remembers
each conversation in a session file, shortens long sessions by compaction, and keeps a "brain", a GBrain
subprocess spoken to over MCP. This directory models the parts of it where goroutines, subprocesses, files
and crashes meet, checks the models with TLC and proves the main safety properties with TLAPS.

## 1. Inventory

| Part | State it keeps | Operations | What is hard |
|---|---|---|---|
| Session, hooks, compaction (`internal/session/{session,hooks,compaction}.go`) | `Session.Turns`, the JSONL file, `compactionFlags` | `AddTurn`, `LoadFromDisk`, `RunHooks`, `CompactionHook`, `runCompaction` | unlock during LLM calls, memory and file updated by different goroutines, crash between them, records that count lines |
| Session manager (`internal/session/manager.go`) | maps of sessions and of file handles | `ResolveOrCreate`, `LoadAll`, `Persist`, `Shutdown`, `GetContextTurns` | check-then-act on two maps, stale objects, handles overwritten |
| MCP client (`internal/brain/mcp_client.go`) | subprocess, `pending` waiters, `connected` | `Start`, `Stop`, `call`, `readLoop` | calls racing the end of the reader, late and repeated answers, contexts that end |
| Brain bridge (`internal/brain/bridge.go`) | client, tools, `available` | `Start`, `Stop`, `healthMonitor`, `attemptRestart` | restarts racing checks, crashes and `Stop`; checks that wait on what they check |
| Runtime (`internal/runtime/runtime.go`) | the wiring; no state of a message outlives it | `HandleMessage`, `handleAPI`, `handleCLI`, `drainCLIEvents`, `Start`, `Stop` | a context that ends while channels close |
| CLI executor (`internal/llm/claudecli`) | subprocess, event channel | `Execute`, `parseStreamLine` | a reader that leaves, a subprocess that stalls |
| LLM caller (`internal/llm/llm.go`), tool registry (`internal/tools/tools.go`) | results kept by idempotency key | tool rounds, `Execute` | turns at once sharing kept results, failing and unknown tools, the last round |
| Adapters: Discord, Telegram, CLI (`adapters`) | Discord: message ids seen, a queue and a worker per session; all: the messages of an answer | `onMessage`, `enqueue`, `process`, `onInteraction`, `Start`, `sendStreaming` | events delivered twice, queues made twice or full, turns beside the queue, ticker against tokens, refused or hanging calls |
| Context: `GetContextTurns`, assembler (`internal/identity`), cold opener (`internal/session/cold.go`), CLI history (`internal/runtime/context.go`) | none | `Build`, `BuildColdContext`, `buildAppendContext` | windows by count and by tokens, turns added meanwhile, boundaries |
| Skill resolver (`internal/skills`), message splitting (`adapters/shared`) | none | `Resolve`, `SplitMessage` | boundaries, a directory that changes |
| Config, env, onboarding, types, `cmd/akb48` | none that changes after startup | | |

How they meet: an adapter calls `HandleMessage`, which resolves the session from the manager, runs a
backend that writes tokens into the adapter's channel, adds the turn and runs the hooks; a hook may start a
compaction, which calls the LLM and, through the bridge, the brain; the bridge owns one MCP client at a time.
Sessions are shared by handlers (a queued message and an `/ask`, or two adapters), the manager by
everything. What makes each part correct is listed with its module below.

## 2. Modules and their relation to the code

**`Conversation`** is the abstract session: what a user may rely on. A conversation grows by a turn, a turn
may be saved, and while a process runs nothing is taken from what the session accounts for: the oldest turns may stop
being quoted verbatim (`Condense`), the latest never. A restart (`run` changes) brings back exactly the saved turns, word
for word where they were kept so (`Resume`), or nothing once something was saved that cannot be read back (`Spoil`,
`StartFresh`). It does not know of files, flags or goroutines.

**`SessionStore`** is one session in full: `HandleMessage` per handler (`Receive`, `LLMFails`, `AddTurn`,
the two hooks step by step, `HooksDone`), `syncMap.flag` with its loop (`LookupFlag`, `SwapFlagMap`), the
compare-and-swap (`StartCompaction`), `runCompaction` cut at each unlock and each external call (`Snapshot`,
`Extract`, `WriteBrain`, `PanicOnNilBrain`, `ReplaceTurns`, `AppendRecord`, `ReleaseFlag`), and the process
ending at any point (`Restart`), after which the session is what `LoadFromDisk` makes of the file (`Boot`).
`turns` is `Session.Turns` and `disk` is what the lines of the file make up: loading is a fold over them, so appending one
line is one application of `LoadTurn` or `LoadCompaction`. A line over the 64 KB of `bufio.Scanner` (`WriteLine`) stays in
the file and makes `LoadFromDisk` return an error from then on (`tooLong`), so what a restart has to start with is
`Loaded`: `disk`, or nothing.
A turn is its number; a summary is the set of turns it was written from.

**`SessionCache`** is the race for one session id: `ResolveOrCreate` cut at the map load, the stat, the file
read or creation, and `LoadOrStore`; `Persist` cut at the handle map, the open, the store and the write;
`LoadAll`, `Shutdown`, `Restart`. A session object is named after the goroutine that made it and stands for
the set of its turns; a line too long for `bufio.Scanner` makes its file unloadable, as in the code.

**`MCPClient`** is one client and its subprocess: `Start` with the window between starting `readLoop` and setting
`connected`, `Stop`, `readLoop` to its drain (with the weak guarantees of `sync.Map.Range`), `call` from
registration to return, and a server (external) that answers in any order, repeatedly, never, or goes away.

**`GBrainBridge`** is the bridge over a client reduced to new/up/hung/down: `Start`, the health monitor, restarts
with their back-off and attempts, `Stop`. `lost` counts the attempts of the latest restart that failed.

**`Dispatch`** is how a message comes to be handled. Discord's gateway (external) starts `onMessage` in a goroutine per
event and may tell of a message again; `onMessage` is cut at its `LoadOrStore` (`OnMessage`), at the `Range` of the purge
(`Purge` collects the stale entries, which `Range` would visit one by one, and `Delete` deletes, so that another
goroutine may store in between), at the fetch of the channel
(`Drop`), at the `LoadOrStore` of the queue (`FindQueue`) and at the send (`Put`). A worker per queue takes and finishes
jobs. `/ask` commands, Telegram updates and lines of the terminal are turns beside it, each with its own rule of
when the next may start; `Runs` is the switch in `main.go`. A channel is named after the event that made it.

**`AnswerStream`** is one answer on its way: the claude subprocess (external), the executor's goroutine,
`drainCLIEvents`, and one of four ways to show it. `adapter` says which: `process` with its deadline and its 15-second
wait, and `sendStreaming` with `editFinal` (Discord); `processInteraction` and `sendStreamingInteraction` (`/ask`, no
deadline, one response that is edited); Telegram's `onMessage` and `sendStreaming` (the context of the process, a
sender that leaves when it ends); the terminal's loop. An action two adapters share is one action, and the comparison
with `adapter` in it is a difference between their sources. The subprocess writes lines of text, tool uses and a result
line, and then exits or lingers; it may exit with any code, with a result line or without; and one of its lines may be
over the 1 MB of the executor's scanner (`WriteTooLong`), which ends the loop of the executor without an error, with any
amount of the answer unread (`Scan`, `Wait`). The call that tells an error (`TellError`) is not among those
the adapter limits. The terminal prints its error before it closes its channel; nothing tells the two orders apart, and
`WaitSender` has both. Calls of the chat service are made one by one (`PutPart` for
each part of a text that was cut), and each may fail. Text is numbered units, so what the user reads can be compared with
what the session records.

**`Prompt`** is what the model is told: `GetContextTurns`, the API's messages (`BuildColdContext`, `Build`, `handleAPI`)
and the CLI's history (`buildAppendContext`, `handleCLI`), while handlers of one session add turns. A turn is its
number and two lengths, one unit of length a token or a byte. Running sums (`Tokens` from the newest turn back, `Ends` of the
texts in the history) stand for the loops that count and that write.

**`AnswerText`** is the text itself: `parseStreamLine` makes deltas of lines that repeat a message, and the CLI (external)
adds to a message, goes back to an earlier one or cuts one short. Characters are numbered as they are written, so that
one told twice can be told from two that look alike.

**`MessageSplit`** is `SplitMessage`, one pass of its loop at a time, over every short text of spaces, newlines and letters.

**`SkillResolver`** is `Resolve`: it lists the directory (`ReadDir`), reads one file after the other (`ReadSkill`) and
looks at each trigger (`ConsiderTrigger`), while the operator changes the directory (`Change`). `had` remembers what has
stood under each name since the listing, because that is what a choice can be measured against.

`MCTexts` runs these four in one state space, each from where the others begin, since they share nothing.

**`ToolLoop`** is the API backend: `llm.Caller.Call` of several turns at once, with each response either an answer,
an error or tool uses, and `Registry.Execute` cut at the lookup of the kept result, the handler's run and the
store. A tool's output is the execution it came from, so that a result can be traced to its turn and its use.

`MC*` modules instantiate a module for TLC. `*_proofs` modules hold its theorems. Definitions named
`Name_Variant` are variants of `Name` that carry a plausible bug; no specification uses them. They are there
to show that a property fails when the code is wrong.

## 3. Runs

Passing runs.

| Run | Question | Bounds, and why they suffice |
|---|---|---|
| `serial_restarts` | Messages one at a time, compactions beside them, panics and restarts: does the file load back to what memory holds while its lines fit the scanner, and is the whole a `Conversation`, also when one does not? | 1 handler; threshold and window small enough that a session compacts twice and a compaction overlaps new turns; booting with the flag absent and present; turns and records that fit and that are too long |
| `concurrent_turns` | Two messages at once, two possible compactions, failing writes: is what a compaction read before unlocking still good, is memory complete, does no compaction delay an answer, does the flag come back? | 2 handlers, 2 jobs, 3 turns, keep 1, compact at 2: two handlers reach the threshold together, a turn arrives during a compaction, a second compaction follows a first |
| `resolve_race` | Does one object win, and is it never older than the file? | goroutines enough for a winner, a loser and a latecomer; a turn too long for the loader; shutdown and restart |
| `brain_calls` | Does a call get its own answer, is nobody left waiting when `readLoop` is gone, does a call return when its server can no longer answer? | 2 callers, 3 calls: a caller whose old answer arrives during its next call, and one beside it; 2 unread lines; repeated answers |
| `brain_restarts` | One restart at a time; no availability before tools are listed; failures noticed; the bridge comes back, or its attempts are used up | 3 attempts, 4 failures, 2 crashes, hangs allowed: all attempts of a restart may fail, or some fail and a later one succeed, and a second crash may come during or after the restart for the first |
| `answer_stream` | Does the user read what is recorded, in order, whatever fails, and are worker and executor freed? | all four adapters; channels of 1 instead of 64, messages of 2, overflow above 1, pieces of 1 and 3, text of 3, one tool use, one line that is too long with any part of the text lost with it, exits of both kinds at any time, before and after a result: an overflow, a split, a continuation, a refused message and a full channel all occur |
| `tool_loop` | Does every tool use get its result, of its own turn; does a tool that succeeded run once? | 2 turns, 2 rounds, 2 uses in a response, 2 names of which one is registered: the same use twice in one response, again in a later round, and in both turns at once |
| `dispatch` | Is a session handled one message at a time, in order, once, and without waiting for others? | three messages of two users, one told twice, lifetime passing for one, a queue of 2 instead of 16: two events race to make a queue, it holds two messages in their order and is full for a third, a purge deletes between two events of a message; an `/ask`, two updates and two lines beside |
| `texts` | Is the model told the right turns, each once and in order? Do deltas and cuts lose or repeat nothing? Is the right skill taken while the directory changes? | 2 handlers, 4 turns of 2 lengths, window of 3 turns and of 9 tokens, history of 2 turns, cut at 6: each limit bites alone and with another. 3 messages, 2 characters a line, 6 in the answer: messages alternate, come back and are cut back. Texts up to 7 characters cut at 3: a line's end at, before and after the limit, three parts. 2 skills of 2 triggers, lengths 0 to 2: ties and empty triggers, a change between any two reads |

Bounds on turns, calls, text, events, failures and crashes only end the environment's supply of events (`MaxTurns`,
`MaxCalls`, `MaxUses`, `MaxLines`, `MaxText`, `MaxEvents`, `MaxExpired`, `MaxAnswer`, `MaxChunk`, `MaxChanges`,
`MaxTriggers`, `MaxTools`, `MaxFailures`, `MaxCrashes`); no step of the code is bounded.
Deadlock is not checked where a system that has used up this supply stops.

Runs that find the code disagreeing with its documents (each is quoted in `PROJECT.json`).

| Run | What it shows |
|---|---|
| `flag_spins` | As the program boots, `compactionFlags` holds nothing; `CompareAndSwap` with a nil map never succeeds on an empty `atomic.Value`, and the first session at the threshold spins for ever inside `HandleMessage` |
| `resume_out_of_order` | Two concurrent messages written in the other order: the record replaces the wrong lines, and a persisted turn is gone after a restart |
| `last_turns_cut` | On the CLI backend a history over 4 KB is written oldest first and cut at its end: the model is told of the oldest turns and not of the newest |

The compaction findings beyond `flag_spins` lie behind it: they need the flag entry to be there
(`FlagAtBoot = {"idle"}`), which the program as it is never reaches. They are about the code that runs once the
swap is repaired.

Disagreements met while modelling that have no run of their own:
- a disabled brain is a nil pointer in a non-nil interface: `brain != nil` is true, and a compaction panics in a
  goroutine nothing recovers and takes the process with it (`compaction.go:129`, called from `runtime.go:126`),
  where `compaction.go:69` says a nil brain "is skipped gracefully" (`NilBrainIsHarmless` fails in `serial_restarts`);
- with the brain unavailable a compaction still replaces the turns (`compaction.go:129`), where PRD-10:32 says
  it is skipped; section 7 of that document and a test agree with the code. The same goes for a write the brain refuses
  and for an extractor that finds nothing (`FactsBeforeRemoval`, which no run asks for, fails in `serial_restarts`). That
  facts are stored first when all goes well is the order of one goroutine's calls and needs no property;
- `config.toml` starts compaction at 30 turns and keeps 50, so between the two nothing is compacted;
- one line over 64 KB makes the whole file unloadable (`session.go:177`), where PRD-05:583 skips it: after a restart
  `LoadAll` leaves the session out, `ResolveOrCreate` starts it fresh, and since new turns go into the same file, no
  later restart reads them either. `SessionStore!Loaded` has this, and `Resumable` and `DiskMatchesMemory` hold while no
  such line is in the file;
- two first writes of a session open its file twice and `Shutdown` closes one handle (`manager.go:128`);
- a server that goes dumb before `Start` has set `connected` leaves later calls waiting
  (`NoOneStranded` fails with `GoesDumb = "always"`, `mcp_client.go:91`);
- a hung server holds the health check itself (`bridge.go:143`), where PRD-03:429 expects it to notice (an exception
  of `Reconnects`);
- after `max_restart_attempts` failures nothing tries again (`bridge.go:144`, `:196`), where PRD-03:354 says the monitor
  goes on. This happens in `brain_restarts`, where there are more failures than attempts; `Reconnects` says that it is the
  only such case (`lost = MaxAttempts`), and without that exception it fails there;
- `Stop` during a restart leaves the new subprocess running (`bridge.go:72`);
- after a compaction the session is one entry longer than the window and the entry left out is the summary
  (`manager.go:77`), where PRD-10:52 says the LLM receives it (`SummaryReachesLLM` fails in `serial_restarts`);
- `/ask` is handled beside the queue of its session (`Dispatch!OnInteraction`), and so is every Telegram update
  (`OnUpdate`), where PRD-01:531 wants one turn of a session at a time and `discord.go:162` says why; gateway events
  have goroutines of their own, so two messages may enter the queue in the other order than they were sent. These are
  the concurrent handlers of `concurrent_turns` and `resume_out_of_order`;
- a message that finds the queue full is dropped and its author is not told (`discord.go:186`);
- a message told again after `processedMsgTTL` is handled again, and one whose channel could not be fetched is
  remembered and dropped when told again (`discord.go:115` comes before `:127`). A purge may also delete an entry that
  was stored again after `Range` found the old one (`Dispatch!Delete`);
- a signal ends the process without waiting for handlers or queues (`main.go:99`), where PRD-01:518 wants adapters to
  drain within 10 seconds;
- the deadline closes the event channel as the end of an answer does, so `drainCLIEvents` may take a partial answer
  for a whole one and record it (`runtime.go:464`; without its condition about `ctx`, `RecordedIsWhole` fails);
- a line of the CLI over 1 MB ends the executor's loop, and nobody asks `scanner.Err` (`executor.go:94-110`): if the CLI
  then exits with code 0, what was read so far is recorded as the answer, with time left. `RecordedIsWhole` promises a
  beginning of the answer in this case, and fails without its condition about `overlong`;
- an exit with code 0 is a good end without a result line too (`executor.go:110`), hence `complete \/ proc = "exited"`;
- a CLI that writes an error as its result and does not exit keeps the executor in `scanner.Scan`: `drainCLIEvents` is
  back at the error (`runtime.go:478`), and under `/ask`, whose context is `context.Background()` (`discord.go:336`),
  nothing kills the CLI (`Lingers`; `ExecutorEnds` fails without it);
- Discord's worker sends its error message by a call that the 15-second cap (`discord.go:305`) does not cover
  (`:297`): if that call never returns, the messages queued behind are never handled. `WorkerFree` ends at that call,
  and with `main = "done"` alone it fails;
- if the last edit of a Discord message fails, the message keeps its older and longer text, and the parts that follow
  repeat some of it (`discord.go:484`; the exception for a cursor in `ReadsInOrder`);
- after an overflow the buffer has no limit until the next tick: longer than a Discord message it is sent uncut, is
  refused, and is lost (`discord.go:395`, `:422`), where PRD-06:430 has all parts delivered; an `/ask` response over the
  limit is refused the same way (`discord.go:465`);
- Telegram's sender leaves when its context ends or a message cannot be sent, and does not empty the channel
  (`telegram.go:147`, `:168`); its handler, which has no deadline, may then be held (`AnswerStream!Held`). After an
  overflow with which the answer ends it edits the next message to "(empty response)";
- text that begins with blank lines gives `SplitMessage` an empty first part, which the services refuse
  (`split.go:22`; the exception in `SplitKeepsText`);
- lines of two messages that alternate, or a text cut back, have text told twice (`executor.go:202`; the condition
  `plain` in `DeltasTellAll`), and the tool uses of a line that is repeated are counted again;
- the cold opener's recall is put into requests of the API backend only (`runtime.go:211` passes none).

### Fairness

Go runs every runnable goroutine, so steps of the code that wait for nothing outside are weakly fair, and so are
timers (the 90-second deadline, the 15-second wait) and the kill that follows a cancelled context. Nothing
is assumed of users, of the LLM, of the GBrain server, of the claude subprocess or of the chat services: they may be
silent for ever, and the liveness properties hold all the same or name the exception or the assumption:
- `ResponsePathFree` assumes nothing of compactions; `CompactionFinishes` has the fairness of the compaction's
  steps, its LLM and brain calls included, as its hypothesis, since those calls have no deadline;
- `CallsReturn` excepts a server that is alive and can still answer;
- `Reconnects` excepts a bridge being stopped, a hung server, and a restart whose attempts have all failed;
- `AcceptedHandled` has as its hypothesis, for each user, that the user's own worker goes on and its turns end, and
  nothing of other users: with one queue for all it fails. A queued turn does end, which is `WorkerFree`, unless the call that tells
  its error never returns;
- `WorkerFree` takes the hooks of `HandleMessage` to return, which is `ResponsePathFree`. For Discord's queue it
  assumes nothing of the calls that show the answer; `TellError`, which no cap covers, has no fairness either, and the
  property promises no more than that the worker gets there. For `/ask`, Telegram and the terminal, which wait for their sender, it takes calls of
  the service to return, and excepts (`Held`) a silent CLI and a sender that gave up, for which the code has no deadline.
  A signal (`Signal`) is not assumed to come;
- `ExecutorEnds` excepts a CLI that lingers after its result in a message whose context nobody ends.

## 4. Proofs

| Theorem | States | From |
|---|---|---|
| `SessionStore_proofs!TypeCorrect`, `SafeInvariant`, `Exclusive`, `SnapshotSafe`, `MemoryComplete` | types, `OneCompaction`, `SnapshotStillGood`, `NothingForgotten` | no assumption beyond the constants' types; restarts, lines that are too long and failed writes included |
| `SessionStore_proofs!ResumeComplete`, `ResumeExact`, `ImplementsConversation` | `Resumable`, `DiskMatchesMemory`, `ConversationKept`: every step of `SessionStore` is a step of `Conversation` or a stutter | one handler (`SerialHandling`) and writes that succeed (`WritesSucceed`); `resume_out_of_order` shows the first is needed. The first two are about a file without a line that is too long; the third covers such a line, after which a restart is `StartFresh` |
| `SessionCache_proofs!CacheTypeCorrect`, `OneSessionAlways`, `NeverStaleAlways` | types, `OneSession`, `NeverStale` | none |
| `MCPClient_proofs!ClientTypeCorrect`, `AnswersMatch`, `NeverStranded` | types, `OwnAnswer`, `NoOneStranded` | the last: the server does not go dumb before `Start` is over |
| `GBrainBridge_proofs!BridgeTypeCorrect`, `OneRestartAlways`, `AvailableAlwaysListed` | types, `OneRestart`, `AvailableWasListed` | none |
| `Dispatch_proofs!DispatchTypeCorrect`, `OneAtATimeAlways`, `AcceptedInOrder`, `AcceptedOnce` | types with the queues' capacity, `OneAtATime`, `InOrderAccepted`, `OnceWhileRemembered` | none |
| `AnswerStream_proofs!StreamTypeCorrect`, `UserReadsInOrder`, `UserReadsWhatIsRecorded`, `RecordedInTimeIsWhole` | types with the channels' capacity, `ReadsInOrder`, `ShownIsRecorded`, `RecordedIsWhole` | none |
| `Texts_proofs!ToldRight`, `AllTold`, `NothingCutAway`, `RightSkill` | `ToldInOrder`, `DeltasTellAll`, `SplitKeepsText`, `LongestTrigger` | none |
| `ToolLoop_proofs!LoopTypeCorrect`, `EveryUseIsAnswered`, `ResultsAreOwn`, `SucceedsOnce` | types, `EveryUseAnswered`, `OwnResults`, `OncePerTurn` | none |

The arguments, in short.
*Session in memory*: a job holds the flag from its compare-and-swap to its deferred store, so there is one; between
its two critical sections only `AddTurn` touches `turns`, and only at the end, so the old turns are still the
front; hence replacing them by a summary of themselves loses none. The invariant joins these three with the types,
because none is inductive alone.
*Session on disk*: with one handler there is at most one turn added and not yet written, and at most one block
replaced and not yet recorded; the file loads to memory with these two differences undone, and both writes
commute. The invariant says what the file loads to for each combination of the two (`FileInv`), while no line of it is too
long; once one is, it always is, and nothing is claimed.
*Refinement*: `AddTurn` says, `PersistTurn` saves, `ReplaceTurns` condenses or stutters, an `AppendRecord` that is too long
spoils, `Boot` resumes or starts fresh, and everything else stutters. That these are steps of `Conversation` needs, besides the invariant on disk, that memory and file are in
order with a summary only in front, that what is known or saved was said and the file holds only what is known, that the turn about to be written is later than
all of the file, and that a record's block is not empty (`KeptInv`).
*Cache*: the object in the map is never replaced (`LoadOrStore`), whoever uses a session uses it, a turn is in it
before it is written, and while there is none nobody writes, so an object on its way to the map has read all
there is.
*Client*: request ids are never reused, so an id in the map, in a line or in a channel belongs to one call; a
call that found the client connected registered before the drain began.
*Bridge*: a restart starts only when `available` falls, and `available` rises only at the end of a restart.
*Dispatch*: a session's entry in `sessionQueues` is never replaced, so all its events send to one channel and only the
worker of that channel takes its messages; what was started and what is queued is what was accepted, cut at the
worker's position. For a message still remembered, at most one event got past `LoadOrStore`, and until that event puts
it, it is in no queue; a purge cannot delete its entry because nothing found it old.
*Tool loop*: between a response and the message of its results, the results so far answer the first uses and the
uses left are the others. A handler runs only for a use nothing is kept for, what succeeded is kept before the turn goes
on, and a key tells its turn and its use; so a second success would have found the first.
*Answer*: the text is one queue through the lines of the subprocess, the executor's channel, the piece in hand, the
tokens, the sender's buffer and the messages; each holds what the next has not taken, and in order (`StreamInv`). A message that
was refused keeps what it showed before. What the handler and the event channel have is at any time a beginning of the
answer, and while the executor reads, with its line and the line in the pipe it is all of it (`AllRead`); so a drain that
ends with the channel has all, unless a line was too long. A bad end the executor knows of stays ahead of the handler
until the handler has read it (`EndTold`), so a drain that ends well had a good result or an exit with code 0.
*Deltas*: the message told last stands at the end of the answer; a line about it goes on there, a line about any other
starts anew there. *Cuts*: what is left of the text is a piece of it behind all parts, and only spaces lie between.
*Told*: running sums exist and never fall, so the turns within both limits are an end of the session, and the window is
that end. Messages go by place: pairs of a turn, an even number of places for what was recalled, so roles alternate
whatever comes between. In the history, a place shows the turn whose text ends there or later and begins before it.
What was sent stays true of the turns there were then, because handlers only append (`PromptInv`).
*Skills*: there is a directory in which each name read so far has what was read, and the best so far is its best.
Least and greatest elements of sets of numbers are proved to exist from the library's well-founded induction, in the form
that takes no operator (`NatMin`, `NatMax`); sums along a sequence are reached the same way, by the least place where one
would be missing or fall (`RunsExist`, `RunsRise`). This is as much of induction as the provers can use.

Only model-checked: every liveness property, since fairness and `ENABLED` are beyond the prover. Every invariant and action
property of a passing run is a theorem.

## 5. Not modelled, and why

The HTTP tools make one request per call and keep no state. Configuration, the allowlist of `.env` names, onboarding and
the wiring in `New` run once. Inside the modelled parts: a write is whole or absent (no torn lines); the stdin pipe of the
MCP server never fills; `LoadAll` takes `tool-calls.jsonl` for a session, which is a matter of names; bytes are characters, so
a cut inside a character is left out (`split.go:14`, `context.go:33`), as are queries, triggers and mentions as text; a
panic in a tool handler, which ends the process as any other crash does, is left out; a subprocess that outlives a kill
through children holding its stdout is left out; the log and brain-update hooks change no state; typing indicators and
back-off after a rate limit change nothing but time; `CLILLMClient` reads the executor's channel as `drainCLIEvents` does and
shows nothing.

`Dispatch`, `SessionStore` and `AnswerStream` are not composed into one state space, which would be out of TLC's reach.
They meet at one action each: `Take` or `OnInteraction` of `Dispatch` is `Receive` of a handler of `SessionStore`, whose
`AddTurn` or `LLMFails` is the return of the drain in `AnswerStream`. `OneAtATime` is what makes `SerialHandling` true of
messages that come through the queue alone.

## 6. What is left

1. Torn lines in the session file, and the loader as a fold over lines.
2. The truncation of tool results (`TruncateToolResult`) and of streams of the API backend, if they come to carry state.
