# A TLA+ model of toroid-kernel

toroid-kernel is an agent kernel in Go: a conversation, a loop that asks a
language model for one step at a time and runs the tools it calls, subagents
that work beside that loop, limits on turns and money, and a SQLite record that
a later process can continue from. This directory holds TLA+ modules of its
concurrent and stateful parts, configurations that model-check them with TLC,
and proofs that TLAPS checks.

`tlc -config X.cfg M` runs one configuration, `tlapm P.tla` the proofs of a module `P` (section 5).
`PROJECT.json` maps every definition to the lines of the source it stands for
(file and line references below are to `src/`).

## 1. Inventory

| Component | State | Operations | Talks to |
| --- | --- | --- | --- |
| **Run state, queue, wake** `kernel.go` | `runMu`, `wakeMu`, `running`, `messageQueue` (`queueMu`), `History` | `Stream`, `streamCurrent`, `Enqueue`, `drainQueue`, `SpawnBackground`, `tryResume` | the step loop (call, with `runMu` held), background goroutines (queue), the host (events, any goroutine) |
| **Step loop** `steploop.go` 1-328 | `turns`, `recentSigs`, guard flags, `History` | `streamViaStep`: step, bill, guard, tools, nudge, interrupt, compact | step layer, tool batch, spend budget, queue, `Compact` |
| **Tool batch** `steploop.go` 329-487 | one batch: slots, events | `runToolCalls`: announce, mutators in order, parallel wave, reassembly | tool handlers, event log |
| **Spend and limits** `kernel.go` | `runningCostUSD` (`usageMu`), `spendBudget` of a loop, `MaxTranscriptSpendUSD` | `recordUsage`, `UpdateUse`, `reached`, `runSubagent`'s share and roll-up, the structured-output pass | the cost table |
| **Compaction** `kernel.go` 764-885 | `History` | `Compact`: trim, summarise, reset | step layer, event log |
| **Event log, reconstruction** `kernel.go`, `history.go`, `store.go` | `seq`, table `events` | `fireEvent`, `AppendEvent`, `ReconstructHistory`, `NewKernel`'s restore | store |
| **Store, sessions** `store.go` | tables `traces`, `spans`, `costs`, `memories` | `SaveTraceMeta`, `SaveSpanMeta`, `UpdateTraceTitle`, `LoadTraceData`, `ListSessions`, `DeleteSession` | SQLite; the trace viewer (another process) |
| **OpenTelemetry** `store.go`, `otlp.go` | none (a fold of `events`) | `spanTreeEvents`, `buildLangfuseRequest`, export | OTLP collector |
| **LLM wire** `llm/`, `model.go`, `gateway.go` | one request, one SSE stream | `doWithRetry`, `StreamComplete`, `Deltas` | provider over HTTP |
| **Step layer** `step.go`, `gatewaystep.go`, `fauxstep.go` | none | `GatewayStep`: one request, deltas forwarded | LLM wire |
| **Configuration** `kernel.go`, `modellimits.go`, `utils.go` | `Config`, the limits of the model | `NewKernel`, `fetchModelLimits`, `applyModelLimits`, `ApplyDefaultDataTypes`; `loadConfig` of the CLI | gateway, subagents (they inherit it) |
| **Identifiers** `utils.go` | last millisecond, sequence | `snowflakeGen.next` | clock |
| **Built-in tools** `tools/` | files, processes | read, write, edit, multiedit, bash, skill, subagent | file system, process groups |
| **MCP** `tools/mcp.go` | connections | connect, list, register, call, close | MCP servers, the tool registry |
| **Skills, prompts, multimodal, transcript** `skills.go`, `prompt_compiler.go`, `multimodal.go`, `transcript.go` | files | text assembly | — |
| **Terminal interface** `examples/cli/tui.go` | `tuiModel`, a bounded channel of events | `Update`, `submit`, `delegate`, hooks that send events | the kernel (turns, queue, hooks) |
| **Trace viewer** `examples/cli/watch.go` | none | the page and the timeline of a trace | the store, read only |
| **Command line** `examples/cli/` | none | flags, one-shot runs, session list | the kernel |
| **Benchmark suite** `examples/harness-eval/` | ledger, report, logs on disk | `runHarness` with its sampler, `resolveNewBranch`, `recover`, `recheck` | agents (processes), git remote |
| **Other examples** `examples/` | — | sequential hosts | the kernel |

### What is hard in it, and what makes each part correct

*Run state.* Any number of goroutines may be in `Stream`, in `SpawnBackground`'s
function and in `Enqueue` at the same time. A background agent that finishes
reads `running` at the very moment a loop ends: either it must resume the kernel
or the loop that is still live must see its message. Correct means: one loop at a
time and `running` true to it; no result falls between the two decisions; each
queued message reaches the conversation once and in order; whoever waits for the
loop gets it; `MasterIdle` is told of an idle kernel; and `History` has one writer.

*Step loop.* Eight guards with their own flags and counters interact over many
turns, with messages, failures and summaries in between. Correct means: turn
events bracket, the repeat guard fires at its number and not before or after,
the completion guard decides on what really happened to the files, turns are
bounded, limits end the chat, each request satisfies the provider's rule that tool
calls are followed by their results, and the loop ends.

*Tool batch.* Handlers run in parallel on one file system. Correct means: the
result is that of some atomic batch, reported in the order of the calls.

*Spend.* The running total is read, compared and raised by loops, by agents that
finish in the background and by agents side by side, each kernel's row being
written apart from its total. Correct means: totals and ledger account for every
charge, limits are final, overrun is bounded.

*Record.* A process can die between any two events, events may be dropped, a
span may be continued by another process. Correct means: what is rebuilt is what
was there, less a turn, and is always acceptable to the provider.

*Wire.* A request is retried; its answer is read by one goroutine, forwarded by a
second over unbuffered channels and received by the host, while the context may
be cancelled and the body may end between any two steps. Correct means: a
provider is given up rightly, what is returned is a beginning of what it said with
each fragment in its part, what the host saw is in the message, and the step ends.

*Telemetry.* Events are numbered as they happen, by loops and by subagents at the
same time, and three projections fold them into spans, observations and totals
without scopes other than order and call ids. Correct means: no event is lost,
turns and calls get their own ends, results and cost, and totals are explained.

*Sessions.* The rows of one trace are written by several kernels with a statement each and read by another process
with a query per span and table; the host may delete the trace at any moment. Correct means: a page is never further from
the truth than the step a kernel is about to take, and what is in the tables after a deletion has a live author.

*Configuration and tools.* Values are probed, lowered, defaulted, registered and inherited in an order in which each step
reads what the one before left. Correct means: what was asked for is honoured when it fits, the compaction threshold is
positive, and each kernel has the tools its host chose and its servers offer, on open connections.

*Built-in tools.* Two kernels edit one file without a lock; a list of edits may fail in the middle; a page must say where
the next one begins; a shell command may leave anything behind. Correct means: edits that do not cross compose, a failed
list leaves no trace, pages cover the file as far as its lines fit the scanner, every command answers and a killed one leaves nothing of its group.

*Terminal.* A bounded channel carries what the kernel's hooks report to a loop that must ask for each message. Correct
means: chunks are shown in order and every turn ends for the user.

*Benchmark.* Money is spent by processes that only a sampler stops, and accounted for in files that a crash may separate.
Correct means: a run costs less than what was left and one response, the ledger has a line for every row of the report, as far as
its writes succeed, and never more than a run cost, rounded, and a run is credited with its own commit.

## 2. Modules

| Module | Models | How |
| --- | --- | --- |
| `KernelRun` | `Stream`, `streamCurrent`, the loop as far as the run state sees it, `tryResume`, `SpawnBackground`, `Enqueue` | one process per `Stream` call and per background agent; `pc` is its place in the code; each lock, store, check and drain is a step; an append to `History` is a read step and a write step |
| `Mailbox` | the promise about messages | pending, live and summarised messages; `KernelRun` refines it |
| `StepLoop` | `streamViaStep`, chat after chat on one history | an answer is the set of kinds of call it makes plus the signature of what they return; every guard, counter and flag of the code is a variable |
| `ToolBatch` | `runToolCalls` | a handler starts and ends in two steps; writes are torn in between |
| `AtomicBatch` | the promise about a batch | one step; `ToolBatch` refines it |
| `Spend` | `spendBudget`, `UpdateUse`, `AppendCost`, subagents, woken loops, the structured pass | one loop per kernel plus `Wake`; raising a total and inserting its row are two steps |
| `Replay` | the record and what is rebuilt from it | a process fires numbered events into a table that outlives it; `Crash` in every state |
| `Wire` | `doWithRetry`, `StreamComplete` of both clients, `Complete`, `GatewayStep.Stream` | a line of the answer is the set of parts it has fragments of; reader, forwarder and host are processes; handing over a delta is a joint step |
| `Telemetry` | the events and cost rows of a root kernel and its subagents; `spanTreeEvents`, `buildLangfuseRequest`, `ListSessions`, `LoadTraceTotal` | the writers are the actions; the projections are folds over the log, evaluated in every state |
| `Sessions` | one trace in the store: two kernels with their turns, summaries and structured answers, the host, a reader in another process | one row written is one step; a page is read query by query |
| `Startup` | `loadConfig`, `NewKernel`, `fetchModelLimits`, `applyModelLimits`, `ApplyDefaultDataTypes`, the registry, MCP connections, `Close` | a `Config` holds the fields later code decides on; `stage` is a kernel's place in `NewKernel` |
| `FileTools` | `edit`, `multiedit`, `write`, `read` of two kernels on one file | a file is a sequence of lines, read in one step and replaced in two, each of which may fail |
| `Shell` | `bash`: process group, deadline, cancellation, the end of the output | processes are alive or not; `os/exec` as bash.go uses it |
| `Tui` | the terminal's event loop, its channel, turns, delegations, queue and keys | the goroutine of a turn is the loop as the terminal sees it |
| `HarnessEval` | the suite: budget, sampler, timer, parsers, ledger, report, branches, recover, recheck | a run is a number, which is also the commit it pushes; the program may die between any two steps, and any write of its files may fail in part or as a whole |
| `KernelRunProofs`, `SpendProofs`, `TelemetryProofs` | — | proofs about the module they are named after |
| `LoopProofs` | — | proofs about `StepLoop` and `Startup` |
| `ToolBatchProofs` | — | proofs about `ToolBatch`, `Shell` and `FileTools` |
| `StreamProofs` | — | proofs about `Wire`, `Tui` and `Sessions` |
| `RecordProofs` | — | proofs about `Replay` and `HarnessEval` |
| `DataLemmas` | — | lemmas about sequences of sequences and sums, for all of these |
| `MC*` | — | instances for TLC: definitions a `.cfg` cannot state |

`MCRecord`, `MCToolBatch` and `MCSession` put several modules that share no state into one run: the variable `part` says
in the initial state which of them a behaviour is one of, and the others stand still. This is no composition and claims none; every
property is one of a single module, evaluated on the behaviours of that module.

`KernelRun`, `StepLoop`, `Spend`, `Replay` and `Telemetry` each show the same loop at the
detail their properties need. Where one leaves something open that another one
decides, it is nondeterministic: `KernelRun`'s turn may end in any way
`StepLoop`'s can; `Spend`'s steps cost anything in `Prices`; `StepLoop`'s queue may
be non-empty at any boundary. So a behaviour of the code is a behaviour of each
of them, and a property that passes does not rely on what another module says,
with three exceptions, each stated in its module: `Spend` takes from `KernelRun`
that `runMu` serialises the loops of a kernel and that a woken loop keeps
`wakeMu`; `Replay` looks at kernels on which one loop runs at a time, and `Telemetry`
at hosts that make one call at a time, with a woken loop that ends like any other
(that it waits for itself, as in `KernelRun`, would only take behaviours away).

What is a state of the code and what is not: `covered` and `posted` (KernelRun), `dirty`,
`lastBatch`, `streak`, `cut` (StepLoop), `paid`, `lost`, `beside` (Spend), `unheard`, `made`
(Replay), `own`, `offTurn`, `rolledUp` and the `turn` and `call` of an event (Telemetry), `file` (ToolBatch), `paidFor`, `astray`,
`objects`, `haunted` (Sessions), `promised`, `crossed`, `torn` (FileTools), `early` (Shell), `written`, `interrupted` (Tui) and `bill` and `lost` of the ledger (HarnessEval) are the truth that the properties compare the code's own
variables with; no guard of the code reads them.

Abstractions, by module:

* `KernelRun`: a turn's assistant and tool messages are one entry `Turn`; a step's
  answer, tokens and cost are left open. `Store(false)` and `Unlock` at the end
  of a loop are one step: between them another goroutine can only do what it can do
  right after them. A lost append is possible wherever the code appends without
  `runMu`; the slice's spare capacity is not modelled. The completion guard may send the model back at any turn but the first:
  whether files were changed is `StepLoop`'s, and that it does so once in a loop is its property.
* `StepLoop`: money comes in `Prices`; the bill of a synchronous subagent is added by
  `ToolTurn`, that of a background agent is not seen here but in `Spend`. Event order is that of `TurnStarted`,
  `TurnCompleted`, `TurnFailed`. The structured-output pass is after the loop and is in `Spend`.
* `ToolBatch`: one file stands for the file system. A read sees the writes before it, and whether one is half done.
* `Spend`: whole units of money; a child has no subagents of its own: `runSubagent` builds it without the
  tools that start them (kernel.go:911).
* `Replay`: a message is its role and a number. Events are fired by one goroutine at a time. Media
  stripping and the events of single tool calls are left out: neither is replayed.
* `Wire`: a fragment is the number of its line. Lines that do not parse, `[DONE]`, keep-alives and usage are lines
  without a fragment. The provider is external: it may answer, refuse, fail and end its body at any line. Building the request
  cannot fail.
* `Telemetry`: one process writes a span and one `Stream` call runs at a time, so two loops never interleave in one span. A total and its row are one
  step. A subagent starts while a tool of the root runs; in the background it may start later, which changes no projection, for its event is the root's own
  whenever it comes. The `kernel.run` span's own cost (store.go:566-581), the last total of its kernel, is left at zero: the properties add up the turns below it. `SessionStart`, `Reasoning`, `Stop` and `MasterIdle` are left out, and `PostToolUse` stands for its failure too:
  the projections treat them alike. A turn nudges at most once: the inspection nudge needs files
  untouched, the validation nudge files changed.
* `Sessions`: the root kernel makes `RootTurns` turns and starts one subagent at most; every request costs the same. A turn makes at most one
  call, whose id may be missing (`Unnamed`). The root is compacted before a prompt or at a boundary, and answers with an object after its loop, `Chores` times at most
  together with what the host does. Events that no reader looks at are left out. A process that opens the trace again is in `Replay`.
* `Startup`: identifiers, keys, directories, skills and the system prompt are left out; tokens are counted in any unit.
* `FileTools`: what an edit looks for is a line, not a substring of one; the answer of `read` has room for `Room` lines; a line over 64 KB is `LongLine`.
* `Shell`: signals reach a group at once; a process that left the group (`setsid`) is followed only by its hold on the output.
* `Tui`: the kernel behind a turn emits chunks and tool events and drains its queue at boundaries; background agents, rendering and
  keys that move the view are left out.
* `HarnessEval`: usage is one number per kind of line, costs are whole units of which `Grain` make the ten-thousandth of a dollar that a row is rounded to. A ledger
  that ends within a line swallows the next one, which is appended to it; both are `lost`. A `metrics.json` written in part yields no rows. Responses are further apart than the sampler's ticks of 100 ms: between two
  responses a live agent's log is sampled. Without this assumption no brake of this design holds.

## 3. Runs

| Run | Instance | Checks | Shows |
| --- | --- | --- | --- |
| `kernel_single` | 1 call, 2 agents of its turns, 1 host message, 3 turns, failures | `LoopSerialized NoWakeGap ImplementsMailbox` | with one `Stream` at a time the run state is honest, no result falls in the gap, and the kernel is a mailbox |
| `kernel_overlap` | 2 calls at once, 1 agent started at any time, failures, fairness | `DeliveredOnce IdleMeansIdle LoopTakesTurns` | with overlapping calls appends may be lost, but nothing is delivered twice, `MasterIdle` is never told of a woken loop, and whoever waits for the loop gets it |
| `kernel_wake` | 1 call, 1 agent | **violates** `WokenTurnGoesIdle` | a woken turn waits for its own `wakeMu` |
| `kernel_history` | 2 calls one after the other, 1 agent | **violates** `HistoryOneWriter` | two goroutines between reading and writing `History` |
| `loop` | 2 chats, `MaxIter` 3, `MaxRepeatCalls` 2, every answer, guards at 2, a limit | `TurnsBracketed LoopGuardExact ToolCallsAnswered CompletionGuardExact ChatEnds` | the guards are exact and the loop ends |
| `batch` | all messages of 1 to 4 calls of 5 kinds | `BatchReported ImplementsAtomicBatch BatchesReturn` | a batch is atomic and returns |
| | a channel of 2, 2 prompts, 3 events each, 1 queued line | `ShownInOrder TurnReturns` | chunks in order; turns end unless a queued message interrupts |
| | 2 agents, 2 changes, files of up to 4 lines in pages of 2, writes that fail | `EditsCompose PagesCover` | edits compose unless they cross or a write tears the file; who follows the hints sees each line once |
| | 2 commands, a child in the group and one out of it | `CommandsReturn` | every command answers |
| `spend` | 2 chats, 2 subagents side by side or in the background, both limits, failures | `HonestTotal LedgerComplete OverrunBounded LimitsFinal` | totals and ledger add up, limits are final, overrun is bounded |
| `replay` | 2 processes, 4 messages, everything that may happen, spend limits included | `CrashLosesOneTurn RebuiltCallsAnswered` | the record of the first process rebuilds all but the turn in flight, and every rebuilt history pairs the calls that were run with their results |
| | 2 turns, one with a call without an id, a subagent, limits, a page or a deletion, a chore of the host, a summary or a structured answer | `PageTells GhostsHaveAuthors` | a page lags by one step at most; what comes back after a deletion has an author |
| | 2 runs of the suite, 2 responses each, a crash or a failed write, and a repair | `BrakeHolds LedgerHonest CreditIsOwn` | the brake holds for metered agents; ledger and credit survive crashes, and a line is missing only if a write failed |
| `replay_restart` | 2 processes, nothing fails | **violates** `RestartRebuilds` | the second process's events are dropped |
| `session` | a kernel and a subagent, 4 documents of a gateway, up to 2 servers, all toolboxes, all flags | `LimitsFit RoomToCompact ToolboxRight` | limits fit, thresholds leave room but in two named cases, every kernel has its tools |
| | every answer of 1 to 3 lines, both clients, with and without a stream, 3 retries | `FinalIsTheAnswer DeltasFaithful GivesUpRightly EveryStepEnds` | whatever is cut, cancelled or abandoned, the result is a beginning of the answer, and the step ends |
| | 2 calls of the host, 2 turns, 1 subagent in front or in the background, failures, guards, summaries | `NothingLost TreeIsTrue TotalsAddUp` | the span tree loses nothing and says what happened; where totals count twice |
| `harness_budget` | 1 run, responses of 2 against a budget of 4 | **violates** `BrakeHoldsForAll` | a toroid or claude run is not stopped |
| `tui_pump` | 1 turn, 1 queued line, fairness | **violates** `ChunksShown` | after an injected message nobody reads the channel |

Every property of a passing run has a mutant in `PROJECT.json`: a plausible slip in one mapped definition that TLC finds by that property.
The type invariants `TypeOK` of `KernelRun`, `StepLoop` and `ToolBatch` and `StepsBounded`, `NoTurnPastLimit`, `NoTornRead` and
`TimeoutKillsTree` are proved and therefore in no run.

### Bounds

* `kernel_*`: two agents suffice for one to find the loop running while the other resumes it; three
  turns let an agent start in the first, be interrupted into the second and leave a summary before the
  third. Two calls are needed for overlapping appends. More processes repeat the same
  pairwise races; the theorems cover any number. `kernel_overlap` lets an agent be started by the host at any time, so that a
  result can wake the kernel while both calls are open.
* `loop`: `MaxRepeatCalls` 2 with `MaxIter` 3 lets a streak be broken and resumed
  before the iteration bound. `InspectionLimit` and `ValidationLimit` are 2 (8 and 2 in the code), so
  that both nudges fit in three turns. Two chats are the least in which a
  history left by one chat meets the next one.
* `batch`: four calls hold two mutators and two others, in any order.
* `spend`: prices 1 and 2 against limits 2 and 3 let a limit be hit exactly and be overstepped.
  A loop that has used its `Steps` may wait for ever: runs of `Spend` check safety only.
* `session`, wire: three lines let a cancelled reader be between two deltas of a line, see the interruption one line late
  (the Anthropic reader), and have lines left. The code's own 3 retries.
* `session`, trace: two turns let a call id of the first come back in the second; a message is a final text or four calls, one without an id, two with the same and between them one
  with an id of its own, whose result is then told apart from those of the others. Price 1
  shows each missing or doubled charge; an agent's single turn is enough for its cost to be in two spans. A loop begins only
  while a turn is left; that one ends without a turn, by a limit, is in the instance all the same.
* `session`, startup: sizes in units of 10000 tokens with `DefaultContext` 20 and `DefaultBuffer` 5 (200000 and 50000 in the code), windows
  of 5 and 8, so that a window can be below, at and above a buffer and the default. One subagent: it inherits from the host only.
* `replay`, trace: two turns are the least in which the first turn's rows are complete while the second one's are not. One page or one deletion (`Visits`): a page
  only reads, so what it saw and a later deletion have nothing to do with each other. The page's queries meet every state of the kernels. `Chores` 1 is a chore of the
  host, a compaction or a structured answer.
* `replay`, suite: two runs let a branch and a log of the first meet the second; the budget of 8 is not reached by the first run's two responses of 3 and is crossed by
  one more of the second's; a `Grain` of 5 rounds 3 up and 6 down. One `Mishap`: a crash or a failed write.
* `batch`, terminal: a channel of 2 (256 in the code) fills within the 3 events of a turn. Tools: two changes are enough for two agents to
  cross, three lines with a repeated one for an ambiguous edit, four for two pages. Two commands, so that what the first left behind meets the second.
* `replay`, span: four messages are two chats, or two turns of one, or one with a summary, a nudge or a woken result, and a second process that continues what a crash left; `MaxSeq` bounds
  when a chat may begin, and 7 is the least that lets a second one follow a whole first one. Five messages with `MaxSeq` 5 and six with 3 pass as well and only take longer; the theorems hold for any number.

`CHECK_DEADLOCK FALSE` is set everywhere because each of the systems really may stop: a host makes
no further call, a batch is done, the bound on chats or lives is used up.
Where stopping would be wrong, a liveness property says so (`LoopTakesTurns`, `ChatEnds`, `BatchesReturn`, `TurnReturns`, `CommandsReturn`, `EveryStepEnds`).

### Fairness

`KernelRun!Fairness`: a runnable goroutine runs (weak fairness of its steps); an llm-step
answers or fails, a tool or child returns (they are inside those steps; what that asks
of the provider is said under `Wire`); a Go mutex switches to starvation mode after a waiter has
waited 1 ms and then hands itself to waiters in turn (strong fairness of `LockRun` and
`ResumeLock`). `Advance(p)` joins the other steps of a goroutine, which is at one place of the code at a time. Nothing makes the host call `Stream`, `Enqueue` or `SpawnBackground`, nor the
model call a tool. `StepLoop!FairSpec` and `ToolBatch!FairSpec` are the same for one loop and one
batch. `Wire!WireFairSpec`: each goroutine that can move does, and the provider answers or its connection ends (the
client sets no timeout of its own: without that, and without a cancelled context, a step may hang for ever). `Tui!TuiFairSpec`: the Go
runtime runs a pending command, delivers what it returned and runs the goroutine of the turn; keys need not be pressed. `Shell!ShellFairSpec`: `Wait` sees
what has happened and time passes for the deadline; no process need ever end. `HarnessEval`, `Sessions`, `Startup`, `FileTools`, `Replay`, `Spend` and `Telemetry` are checked for
safety only. A host that stops receiving and never
cancels is exempt from `EveryStepEnds`, because then both goroutines do wait for ever; one that cancels later is not.
`StepLoop` is not fair to interrupts, cancellation or compaction; `ChatEnds` holds although
interrupts and compactions may come at every boundary, because `turns` rises in between.
`LoopTakesTurns` says `runMu`'s holders give it back; that a waiter for `wakeMu` gets *that*
lock is false, which is what `kernel_wake` shows.

## 4. Where the code and its documents disagree

Five disagreements have a run that exhibits them (`findings` in `PROJECT.json`):

1. **A woken turn waits for itself.** `tryResume` holds `wakeMu` (kernel.go:1042-1043) while it runs the
   woken loop (1063), which ends in `tryResume` (740). The background goroutine never returns; every later
   `tryResume` of the kernel waits behind it, so after a wake no `Stream` call that reaches the end of its loop returns.
   The host's own call does the same to itself when a message is queued after its last boundary.
2. **`History` has several writers.** The prompt (633) and the woken messages (1056-1058) are appended
   without `runMu`, against kernel.go:53-54.
3. **A restarted process's events are dropped**: `seq` starts at one again (441), the table keeps the old row (store.go:220).
4. **The benchmark's brake never fires for toroid or claude**: `parseToroid` adds up lines of a kind that is no longer
   written (examples/harness-eval/main.go:865), claude prints its cost at its end; against examples/harness-eval/README.md:64-65.
5. **The terminal stops showing what is streamed after a queued message was injected**: its handler does not wait for the
   next message of the channel (examples/cli/tui.go:932), against tui.go:26-28.

These were met while modelling. The modules do what the code does; no run is devoted to them:

Run state and loop.

* A loop that fails returns before `tryResume` (kernel.go:703-707), against kernel.go:1020-1022.
  `NoWakeGap` therefore speaks of the time since the queue was last drained without a failure (`failed`).
* `MasterIdle` is fired after a look at `running` without `runMu` (kernel.go:1045-1050): a `Stream` call that enters its loop in between, and whose prompt or interrupt has emptied the queue, is running when the
  event comes, against events.go:15 ("after the main agent is idle"). `IdleMeansIdle` says what remains: the event is never told of a loop that a background result has woken, of which the host knows nothing.
* The completion guard's `continue` (steploop.go:100) skips the `MaxIter` check: one more step than the
  README's line 288 allows. `StepsBounded` states the bound that holds.
* After a compaction inside the loop the next request ends with an assistant message
  (steploop.go:185, kernel.go:857-864), against llm/client.go:433-434; a chat stopped by the repeat guard or
  `MaxIter` leaves a tool message or a nudge last (steploop.go:161, 170), against kernel.go:666.
* The response that crosses a limit leaves its tool calls unanswered in the history
  (steploop.go:75-79), in memory and, by `TurnCompleted`, in the record. `ToolCallsAnswered` (`cut`) and `RebuiltCallsAnswered` (`cutCalls`) exempt exactly these.
* `bash` and `subagent` run in the parallel wave though they may write, against steploop.go:358-360.
  `NoTornRead` is about batches without them.
* Tool events are fired with `Fire`, not `FireInTurn` (steploop.go:365), against kernel.go:416-419.

Money.

* `MaxTranscriptSpendUSD` is not a cap once subagents work side by side: each is given the whole remainder (kernel.go:904-909,
  against 122-123). `OverrunBounded` speaks of subagents one at a time.
* A summary inside the loop is bought even past a limit (steploop.go:184), against README:251-252 and
  assets/ARCHITECTURE.md:117-121. `NoTurnPastLimit` and `LimitsFinal` speak of turns, not of this summary; `OverrunBounded` counts it.
* A woken loop gets a fresh budget without a turn limit (kernel.go:1063), against README:251-252.
* The spend of a child that fails is not rolled up (kernel.go:590), against kernel.go:943; `HonestTotal` counts it as `lost`.
* Cost rows may be inserted in another order than the totals were raised (kernel.go:379-381, 946-953),
  against store.go:568; a session's total counts a child twice (store.go:434, kernel.go:953), against store.go:428.

Record.

* Nudges, interrupts and woken messages are not replayed, and a `Compact` that fails has already trimmed
  (kernel.go:811, 845-848), against history.go:10-11. `Replay` keeps them as `unheard` and `Trim`.
* A root kernel never reconstructs its history, and `Config.Resume` is never read (kernel.go:265-270), against README:298.
* The save at the end of a run writes an empty title over the one of `UpdateTraceTitle` (kernel.go:729, store.go:159), and a root that
  is opened again begins anew (store.go:160), against store.go:152-154. `UpdateTraceTitle` inserts what is not there (store.go:146), against
  "an existing trace" (143): renaming a deleted trace brings it back (`haunted`).
* `DeleteSession` deletes the memories of the root span only (store.go:487).
* On the page of a trace, the calls of a turn cut by a limit have no time, nor has a call without an id (watch.go:246); the cost row of a structured answer (kernel.go:680) is told by no event.
  `PageTells` exempts these by name.

Wire.

* A stream that ends early without an error is returned as an answer, cut tool calls included; only the stop reason
  `other` tells (client.go:313-345, step.go:38-40). `FinalIsTheAnswer` speaks of a finish reason for that.
* After a delta was dropped the forwarder may still forward a later one: the select at gatewaystep.go:161-166 picks either
  when both are ready, against its comment "stop forwarding". `DeltasFaithful` therefore asks for all deltas only of a step that ends without an error.
* A step past its deadline in the middle of a stream is reported as `error`, one cancelled as `aborted` (gatewaystep.go:175-182), against
  gatewaystep.go:143-145.

Telemetry.

* Until the root kernel has completed a turn, its Langfuse observation shows a total that may hold a subagent's cost, which the subagent's
  observations show again (otlp.go:350, against 347-349). The antecedent of the last conjunct of `TotalsAddUp` is this case.
* The result of a tool call without an id, and of all but one of the calls with the same id, is missing in the Langfuse export
  (otlp.go:259-267, against 310-312). The span tree keeps it, on the turn. `TreeIsTrue` speaks of calls with an id of their own.
* Guard events, like all but turn and tool events, are hung under the kernel's span and not the turn's (store.go:703-706), against store.go:547.

Configuration.

* Defaults take zero for unset (utils.go:128-141): `MaxRepeatCalls` 0 becomes 3 though kernel.go:83 and the CLI (main.go:26) say it
  disables the guard; a flag with the default `true` cannot stay false. `IncludeSubagentTools` is false when tools are
  registered and true in the `Config` that prompts and children read, and a child gets the core tools its parent was refused (kernel.go:88-92, 208, 225).
* An empty `SmallerModel` becomes a model of its own (kernel.go:193-195), against "Empty means those paths use Model" (70-72).
* `applyModelLimits` clamps a buffer that is not set yet; the default of 50000 comes after (modellimits.go:211, kernel.go:187): in a window of 50000 or
  less every turn compacts, which is what 207-210 means to prevent. `RoomToCompact` names this case.
* No one closes the kernel of a subagent, nor the servers that were connected when a later one fails (kernel.go:243-246), against mcp.go:35.
* Two servers of one name override each other's tools (mcp.go:19-20 says they "can't collide").

Tools, terminal, benchmark.

* Two kernels that edit a file at once may lose an edit though both are told of success. `EditsCompose` exempts edits that crossed.
* An error of `os.WriteFile` is answered with an error though the file is truncated or half written (edit.go:51-54, multiedit.go:71-73, write.go:31-33). `EditsCompose` says nothing of the file until the next `write` succeeds (`torn`).
* At a line longer than its scanner's buffer of 64 KB `read` stops, drops the error, and says "Use offset=N to continue" with that line's number (the second `scanner.Scan()` at read.go:160 hands out
  the buffer): whoever follows the hint is sent back there for ever and never told of the end. `PagesCover` speaks of what was seen before. A long page is cut before the hint; its reader is told nothing (`Width`).
* A deadline that passes while bash, having exited, left its output open is reported as "killed" (bash.go:117).
* Chunks that arrive after the end of a turn are shown under the next prompt. Esc cancels a turn but not a delegation.
* `recheck` says it "targets the exact recorded branch" (main.go:790) but lists every suffix of it (803), and overwrites the cost that was captured.
  A failed `ls-remote` is an empty snapshot (803), which credits a run with an older branch. `CreditIsOwn` is about listings that succeed.
* `recover` writes the report before the ledger (main.go:384-385): if it dies in between, a row has no line (`LedgerHonest` speaks of the suite itself).
* A row's cost is rounded to four decimals (main.go:630), so a ledger may charge half a ten-thousandth too much. Errors of writing a ledger line (317) and the report (991) are dropped: a row may have no line, a line
  cut in the middle takes the next one with it (297 skips what does not parse), and a torn `metrics.json` loses its rows. `LedgerHonest` rounds, and counts those lines as `lost`.

## 5. Proofs

Seven modules of theorems, each for every value of the constants that satisfies the named assumption of its module, and `DataLemmas`, which they share.
Each is laid out the same way: an invariant in named parts, a lemma per part or per action, and a theorem that joins them.

`DataLemmas` says what `FlattenSeq` does with one sequence more at the end (`FlattenAppend`) and with the first taken away (`FlattenFirst`), and what a sum
(`MapThenSumSet`) is when one element is taken out (`SumOut`), when the value of one changes (`SumChange`), when none does (`SumCongruent`), when all others are zero (`SumOfOne`) and when none falls
(`SumMonotone`). Both operators are choices of a recursive function in the community modules, so each part begins with the existence of that function.

`KernelRunProofs` (`ProcAssumption`: processes, messages and markers are distinct, bounds are positive; any number of calls, agents and messages):

* `TypeCorrect` — `Spec => []TypeOK`.
* `RunStateIsHonest` — `Spec => []LoopSerialized`: at most one goroutine is in the loop, it holds
  `runMu`, and `running` is true exactly then. `LoopSerialized` is inductive together with `TypeOK`.
* `NoResultFallsInTheGap` — `Spec => []NoWakeGap`. This one is not inductive. The dangerous step is an agent
  that leaves (`ResumeNoop`) because it read `running`: fine while that loop is going to look at the queue
  again, which every loop does, either at a boundary or in the `tryResume` after it — *unless* the loop is a woken
  one, whose `tryResume` waits for itself. The missing fact is that no agent can leave then: leaving
  takes `wakeMu`, and the woken loop's goroutine has it. So `IInv` adds

  * `WakeHeld`: `wakeMu` belongs to a goroutine exactly from its check to the end of what it resumed;
  * `WakeClean`: while its owner is past its drain, the queue holds no result of an agent that is gone.

  `OrphanStep` is the lemma behind both: the only step that makes an orphan is `ResumeNoop` of the agent itself.
* `NothingTwice` — `Spec => []DeliveredOnce`, with no condition on the host: appends to `History` may overwrite each other, which loses messages but never doubles one.
  It rests on `OnePlace`: a message is still to come, or once in the queue, or once in one drained batch, or told; it is in none of the others then, and once at most in `History` and in every copy of it that an append works on.
* `MasterIdleIsTrue` — `Spec => []IdleMeansIdle`, for any number of calls — from `WokenHold`: an agent's goroutine in the loop, or waiting for `runMu` to enter it, holds `wakeMu`, and so does whoever fires
  `MasterIdle`; who runs then is another, and was not woken.
* Two theorems are about a host that calls `Stream` once and starts no agent itself (`OneCall`, a condition on the
  constants), with any number of background agents and queued messages: without it the code does not have these properties.
  `OneCallOneWriter` (`HistoryOneWriter`, the property `kernel_history` refutes for a host that does both) rests on `FirstRun`: until the call is in the
  loop no agent exists, and whoever enters it later holds `wakeMu`. `KernelIsMailbox` is the refinement `ImplementsMailbox`: each step is one of `Mailbox` or a stutter
  (`MailboxStep`). Its invariant adds that a drained batch is in hand exactly between drain and append (`HandsFull`), that no append works on
  an old copy (`SnapFresh`), and that what a summary covers is not still to come (`CoveredOld`).

`LoopProofs` (`LoopAssumption`, `StartupAssumption`; any bounds, limits, prices, answers and sizes):

* `LoopTypeCorrect`, from `FlagsTyped` and `Data`, which add to the types what is known of the answer at work and of the outcome.
* `TurnsAreBracketed` — events alternate; `OneMoreEvent` is what one more of them does.
* `StepsAreBounded`, `NoTurnIsTakenPastTheLimit` — from `WithinLimits`: where a step may still be taken, `turns` is below its bound, and the limit is not reached when a step goes out.
* `CompletionGuardIsExact` — from `FlagsTrue`: the two flags the guard reads agree with `dirty`, what really happened to the files.
* `CallsAreAnswered` — from `Answered`, which says for every place of the history that the message after a call is its result, unless its tools are at work.
* `LoopGuardIsExact` — from `GuardInv`: the sliding window ends with exactly the current streak of equal turns. `WindowTurns` is the lemma about the
  window: a turn extends the streak in it by one or begins one.
* `LimitsAlwaysFit` and `RoomUnlessAskedFor`, from a `StartInv` that knows which sizes a kernel starts from while it is being fitted, and that a child is started by a parent that is.
* `ToolboxIsRight` — any servers, tools and failures — from `ToolsRight`: the switches of a `Config` at each stage of `NewKernel`, the registry that follows from them, and the connections that are open for it.

`ToolBatchProofs` (`BatchAssumption`; batches of any length; `ShellAssumption`, `FileAssumption`: files and lists of edits are sequences):

* `BatchTypeCorrect`, `BatchIsReported` — from `CInv`, which says of each phase which handlers have run, how many events are fired and how much of the message is there.
* `ReadsAreNotTorn` — `Spec => []NoTornRead` — and `BatchIsAtomic` — `Spec => ImplementsAtomicBatch`, the refinement. Both rest on `FInv`, an
  invariant about the file: it holds the writes of the finished calls (`FileRight`), edits first and in the order of the calls, and what a read saw is a prefix of it that contains all edits (`ResultRight`).
  `AtomicBatch` stutters until the last part of the message is written; that step is its `Run`. Its witnesses are read off the file: the order of the edits, the order of the shell commands and the
  place of each read among them (`WritesInOrder`, `AnswersRight`).
* `KilledTreesStayDead` — `TimeoutKillsTree` is inductive as it stands.
* `EditsAlwaysCompose`, from `Composed`: which agent may have truncated the file, and that what the others are about to write is what
  their edits make of the file as it is, unless a write has torn it. That a fold of edits yields a file (`ApplyType`) is the one fact about the fold that it needs.
* `PagesAlwaysCover`, from `Paged`: what a reader has seen is the file up to where its next page begins. The end is told only of a file without a long line (`HasMore`).

`SpendProofs` (`SpendAssumption`: prices are numbers with a largest one; any number of calls, subagents and steps):

* `AccountingIsHonest`, `EveryDollarHasARow` — both compare sums over sets of kernels or rows before and after a step, with `SumOut` and `SumChange`.
* `LimitsAreFinal` — an action property, from the types (`Shapes`) and from `Tidy`: Root keeps its limit, and a row waits only for the goroutine that is about to insert it.
* `OverrunIsBounded` — from `Brake`: while one subagent works Root waits, the subagent's limit is what Root has left of its own, and a step begins below the limit of its kernel, to which one response and one summary may then come.

`StreamProofs` (`WireAssumption`, `TuiAssumption`, `SessionsAssumption`; answers of any length, any fragments in a line, any number of attempts, rows, visits and deletions):

* `FinalIsFaithful`, from `Accumulated`: what the client has put together is, part by part, the fragments of the lines it has read.
* `HostHearsTheAnswer`, from `InLine` — what the host has received, what the forwarder holds and what the reader has still to send are in this order
  the deltas of lines, each after the one before and each in the content — and from `NothingDropped`: while nobody has been told to stop, they are all deltas of the lines that were read.
* `GivesUpOnlyThen`, from `Retries`.
* `TranscriptIsInOrder` — `TuiSpec => []ShownInOrder` — from `Conveyed`: what the turns have written is, in this order, what is shown, what was received, what is still in the channel and what is being sent; and from
  `OneAtATime`: whoever has taken something out of a channel is its only reader, so nothing overtakes it.
* `GhostsAreAccountedFor` — `SessSpec => []GhostsHaveAuthors` — from `Ghosts`, what each row that appears after a deletion owes to whom, and `Haunting`: whoever may still
  write was there when the session was deleted, as itself or as the root kernel that started it.
* `PageIsTrue` — `SessSpec => []PageTells`. A page is read query by query while two kernels write, so its invariant `PageInv` speaks of the tables and of the page at once. `Straight`: the events of a
  span account for its cost rows but for the last, at each place its kernel may be at. `Working`: while the subagent works, the root waits for it. `Totals`: what the kernels carry and what their rows
  say against what was paid, with the subagent's bill `Apart` until it is rolled up; a structured answer adds a row that no event accounts for (`objects`), a summary one that its event does. `PageTrue`: what was read is bounded by what was read later or, for queries still to come, by what is in the
  tables now; and if all was quiet when the page began and nothing was paid since, some row of the root says what was paid.

`RecordProofs` (`ReplayAssumption`, `HarnessAssumption`; any number of messages, events, lives and failures; any prices, budgets, picks and number of runs):

* The operators first: what `ReconstructHistory` returns is the last summary and the messages of the events after it (`RebuildsTable`), so it grows by what one event carries
  (`RebuiltGrows`); and the part of the memory that a record is compared with grows by one message (`KeptGrows`, `TrimmedGrows`), whether it is trimmed before or after (`KeptTrim`).
* `RebuiltIsWhole` — `Spec => []RebuiltCallsAnswered`, whatever crashes, fails or is dropped — from `TurnIs`, what the turn in progress consists of at each place of the
  loop, the cut one included: an event carries a call that is run only together with its result.
* `RecordIsFaithful` — `Spec => []CrashLosesOneTurn`. Memory and record differ between an append and the event that carries it, so `FirstRebuilds` compares them with what is in flight added, and
  `HistoryEnds` says that what is in flight is the end of the memory. What makes it hold is that the first process stores each event it fires (`FirstLife`: numbers and rows agree; a later process
  starts its numbers again, and its events are dropped), and that a message nobody hears of is never confused with one that is (`Numbers`).
* `BrakeAlwaysHolds`, from `MeterRuns`: the log of a metered run says what it has cost, and whenever a response may come, that is below the run's budget.
* `LedgerIsHonest`, from `Books`: what a log, a ledger line, a row of a crashed report and the row in hand each say of a run's cost, at every point where the program may die or a write fail; `RoundedIs` bounds what rounding adds.
* `CreditGoesToItsRun`, from `Owned`: the branches of the remote are pushed by runs that began, each with its number as its commit, and the listing in hand is of what was there before the run.

`TelemetryProofs` (`TelemetryAssumption`; any number of subagents, turns and calls, any messages and prices, call ids that are missing or repeat):

* The operators first. `TreeOf` and `SeenOf` are folds over the events of a kernel; `TreeGrows` and `SeenGrows` say that one event more is one `TreeStep`, one `ObserveStep`, and a lemma for each of
  `Attach`, `OpenTurn`, `CloseTurn`, `OpenTool`, `CloseTool` and `Observe` what that step changes and what it leaves.
* `ProjectionIsLossless` — `Spec => []NothingLost` — from `Placed`: each observable event is at one place of one span, in the order of the events.
* `TreeTellsTheTruth` — `Spec => []TreeIsTrue`. The property is about finished and unfinished turns and calls in a log; whether it survives the next event depends on where the kernel is. So the invariant
  `Truth` relates three things at once: the log (`LogTrue`: one start, one end and one result of each turn and call, and of the open turn exactly the calls announced and collected so far), the two
  projections (`TurnsTrue`, `ToolsTrue`, `CallsTrue`), and the place of the kernel in its loops (`Busy`, `Announced`, `Collected`). The heart of it is `CallsTrue`: the open tool spans are those of
  the calls announced and not collected (`Hanging`), by id; a call whose id is its own has its span there, or has its result. A turn ends only when all
  calls of its message are collected, so nothing hangs between turns: that is why an id that a provider uses again in a later turn cannot take the result of an earlier call.
* `TotalsAreWhatWasPaid` — `Spec => []TotalsAddUp` — from `Truth` and `Totals`. `Ledger`: the kernels' totals are their own bills, and Root's the agents' too. `Paid`: of each kernel, the turns of the tree and
  the generations of the export each cost what was charged less what is off the turns, the bill of the open turn among it. Every step is of one of four kinds (`Quiet`, `Charges`,
  `Completes`, `RollsUp`), each with a lemma of its own.

The inductive invariants were checked with TLC before they were proved, on instances of the size of those of section 3 or smaller; the proved properties still are, in those runs.

Induction over data is done here by hand where it is needed: a set of numbers for which a lemma fails has a least
element (the library's theorem about well-founded orders), and the lemma is proved for it. The library's induction theorems themselves take an operator as a parameter, which no prover here instantiates.

Model-checked only: everything temporal under fairness (`LoopTakesTurns`, `ChatEnds`, `BatchesReturn`, `TurnReturns`, `CommandsReturn`, `EveryStepEnds`), since TLAPS proves
neither liveness under fairness nor `ENABLED` here. Every other property of a passing run is a theorem, and so is, under the condition that makes it true, what `kernel_history` refutes (`OneCallOneWriter`).

## 6. Not modelled, and why

* Skills, prompt assembly, multimodal input, the transcript writer and the bytes of OTLP requests: text and files, with no state whose changes a model would tell apart.
* Identifiers: one counter under a mutex. That a clock that steps back makes it give out an id again can be read in one line (utils.go:252); nothing else depends on more than that ids differ.
* The example hosts, the line mode and the lists of the command line, and the trace proxy: sequential programs around calls of the kernel. What a host may do is the environment of `KernelRun`, `Telemetry` and `Sessions`.
* Rendering, layout, HTTP routing and HTML of the terminal and the viewer.
* The slice of hooks that is appended to while events are fired (kernel.go:590): undefined behaviour of Go, of which a model would say only that anything may be read. The append of
  the structured-output request (kernel.go:669), which races like the prompt's.
* The queries that open and migrate the database; the order and filters of the session list; globs and the image branch of `read`.
* Token counts, prices and the contents of messages are abstract in every module. Whether an estimate triggers a compaction is a choice.
