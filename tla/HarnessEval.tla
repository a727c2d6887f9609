---------------------------- MODULE HarnessEval ----------------------------
(***************************************************************************)
(* The benchmark that runs toroid, claude and pi on one coding task under  *)
(* a common budget (examples/harness-eval/main.go): its ledger, its report *)
(* and log on disk, the sampler that kills an agent at the budget, and the *)
(* choice of the pushed branch it credits.  The agents and the git remote  *)
(* are external.  The program may die between any two of its steps; an     *)
(* agent it leaves behind dies at its next write to the broken pipe.       *)
(*                                                                         *)
(* A run is numbered, and the number is also the commit the run pushes.    *)
(* Branch n is bench/<harness>/<slug>-n, 1 the name without a suffix and 0 *)
(* the empty name of a recovered row.  Costs are whole units, and Grain of *)
(* them make the ten-thousandth of a dollar that a row is rounded to.      *)
(***************************************************************************)
EXTENDS Integers, Sequences, FiniteSets, FiniteSetsExt

CONSTANTS
  Budget,       \* HARNESS_EVAL_BUDGET_USD
  ReplyPrices,  \* what one response of an agent may cost
  Grain,        \* the unit of a row's cost, in units of a price
  Replies,      \* bound: responses of one run
  Runs,         \* bound: runs
  MaxSuffix,    \* bound: the highest suffix of a branch
  Mishaps,      \* bound: crashes of the program and failed writes
  Repairs       \* bound: uses of recover and recheck

ASSUME HarnessAssumption ==
  /\ Budget \in Nat \ {0} /\ Grain \in Nat \ {0}
  /\ Replies \in Nat /\ Runs \in Nat /\ Mishaps \in Nat /\ Repairs \in Nat
  /\ MaxSuffix \in Nat \ {0}
  /\ ReplyPrices \subseteq Nat /\ ReplyPrices # {}

Harness == {"toroid", "claude", "pi"}

\* The line an agent prints for each response, and the line its parser takes
\* usage from.  claude prints its result line last, if it gets to exit.
Emits  == [toroid |-> "TurnCompleted", claude |-> "assistant", pi |-> "message_end"]
Counts == [toroid |-> "TurnCost", claude |-> "result", pi |-> "message_end"]
Kinds  == {Emits[h] : h \in Harness} \cup {Counts[h] : h \in Harness}

\* The harnesses whose usage is read while they run.
Metered == {h \in Harness : Emits[h] = Counts[h]}

VARIABLES
  phase,    \* where the program is
  pick,     \* the harnesses it still has to run
  byName,   \* its rows, to be written
  spent,    \* what it thinks the suite has cost
  job,      \* the run in progress
  log,      \* out/<harness>.stdout.log: usage by kind of line, and whose run it is
  ledger,   \* spend-ledger.jsonl: its lines, their sum, whether it ends within a
            \* line, and (no file has them) the lines that were lost
  metrics,  \* metrics.json
  remote,   \* the commit of every branch; 0 where there is none
  bill,     \* what each run has really cost
  runs, mishaps, repairs

suiteBounds == <<runs, mishaps, repairs>>
suiteVars == <<phase, pick, byName, spent, job, log, ledger, metrics, remote, bill,
               suiteBounds>>

NoBranches == [n \in 1..MaxSuffix |-> 0]
NoUsage    == [k \in Kinds |-> 0]
Missing    == [run |-> 0, how |-> "none", cost |-> 0, branch |-> 0, sha |-> 0]
NoRows     == [h \in Harness |-> Missing]
NoJob      == [h |-> "pi", run |-> 0, budget |-> 0, before |-> NoBranches,
               listed |-> TRUE, alive |-> FALSE, due |-> FALSE, replies |-> 0,
               row |-> Missing]

\* The program ends, and with it what it holds in memory.
Ends == phase' = "idle" /\ pick' = <<>> /\ byName' = NoRows /\ spent' = 0 /\ job' = NoJob

SuiteInit ==
  /\ phase = "idle" /\ pick = <<>> /\ spent = 0 /\ job = NoJob
  /\ byName = NoRows
  /\ log = [h \in Harness |-> [run |-> 0, usage |-> NoUsage]]
  /\ ledger = [lines |-> {}, sum |-> 0, torn |-> FALSE, lost |-> {}]
  /\ metrics = NoRows
  /\ remote = [h \in Harness |-> NoBranches]
  /\ bill = [r \in 1..Runs |-> 0]
  /\ runs = 0 /\ mishaps = 0 /\ repairs = 0

----------------------------------------------------------------------------
(* The suite: main's loop over the picked harnesses.                        *)

\* glm.cost of what the harness's parser finds in its log.
Cost(h, usage) == usage[Counts[h]]

\* What applyParsed makes of it for a row: it is rounded, half up.
Rounded(c) == (c + Grain \div 2) - ((c + Grain \div 2) % Grain)
RowCost(h, usage) == Rounded(Cost(h, usage))

\* The line of a row in the ledger.
LineOf(h, row) == [h |-> h, run |-> row.run, how |-> row.how, cost |-> row.cost]

\* How much of a write reaches its file.  No caller looks at the error.
Writes == {"whole", "part", "none"}

Wrote(wrote) ==
  IF wrote = "whole" THEN UNCHANGED mishaps
    ELSE mishaps < Mishaps /\ mishaps' = mishaps + 1

\* A line that is written in part cannot be parsed, nor the next one, which is
\* appended to it: ledgerSpend skips both.
AppendLedger(h, row, wrote) ==
  LET kept == wrote = "whole" /\ ~ledger.torn IN
  ledger' = [lines |-> ledger.lines \cup (IF kept THEN {LineOf(h, row)} ELSE {}),
             sum   |-> ledger.sum + (IF kept THEN row.cost ELSE 0),
             torn  |-> wrote = "part" \/ (wrote = "none" /\ ledger.torn),
             lost  |-> ledger.lost \cup (IF kept THEN {} ELSE {LineOf(h, row)})]

\* writeReport: of a file that is written in part loadResults makes no rows.
Rewrite(rows, wrote) ==
  metrics' = CASE wrote = "whole" -> rows
               [] wrote = "part"  -> NoRows
               [] wrote = "none"  -> metrics

StartSuite(p) ==
  /\ phase = "idle"
  /\ phase' = "next" /\ pick' = p
  /\ byName' = metrics /\ spent' = ledger.sum
  /\ UNCHANGED <<job, log, ledger, metrics, remote, bill, suiteBounds>>

\* All are run, or the ledger leaves nothing to spend.
LeaveSuite ==
  /\ phase = "next"
  /\ pick = <<>> \/ Budget - spent <= 0
  /\ Ends
  /\ UNCHANGED <<log, ledger, metrics, remote, bill, suiteBounds>>

FreshRow(r) == [run |-> r, how |-> "run", cost |-> 0, branch |-> 1, sha |-> 0]

\* runHarness up to the start of the process.  The branches are listed before,
\* and an error of git ls-remote looks like a remote without branches.
Launch(listed) ==
  /\ phase = "next" /\ pick # <<>> /\ Budget - spent > 0 /\ runs < Runs
  /\ LET h == Head(pick) IN
     /\ job' = [h |-> h, run |-> runs + 1, budget |-> Budget - spent,
                before |-> IF listed THEN remote[h] ELSE NoBranches,
                listed |-> listed, alive |-> TRUE, due |-> FALSE, replies |-> 0,
                row |-> FreshRow(runs + 1)]
     /\ log' = [log EXCEPT ![h] = [run |-> runs + 1, usage |-> NoUsage]]
  /\ phase' = "run" /\ runs' = runs + 1
  /\ UNCHANGED <<pick, byName, spent, ledger, metrics, remote, bill, mishaps, repairs>>

\* The clone, the build, the proxy or the start fails; only the last of them
\* comes after the log has been truncated.
LaunchFails(truncated) ==
  /\ phase = "next" /\ pick # <<>> /\ Budget - spent > 0 /\ runs < Runs
  /\ LET h == Head(pick) IN
     /\ job' = [NoJob EXCEPT !.h = h, !.run = runs + 1, !.row = FreshRow(runs + 1)]
     /\ log' = IF truncated
                 THEN [log EXCEPT ![h] = [run |-> runs + 1, usage |-> NoUsage]] ELSE log
  /\ phase' = "ledger" /\ runs' = runs + 1
  /\ UNCHANGED <<pick, byName, spent, ledger, metrics, remote, bill, mishaps, repairs>>

----------------------------------------------------------------------------
(* The agent, and the program's timer and sampler.                          *)

\* A response is paid for and its line reaches the log.  Responses are further
\* apart than the sampler's ticks of 100 ms.
Respond(price) ==
  /\ job.alive /\ ~job.due /\ job.replies < Replies
  /\ bill' = [bill EXCEPT ![job.run] = @ + price]
  /\ log' = [log EXCEPT ![job.h].usage[Emits[job.h]] = @ + price]
  /\ job' = [job EXCEPT !.due = TRUE, !.replies = @ + 1]
  /\ UNCHANGED <<phase, pick, byName, spent, ledger, metrics, remote, suiteBounds>>

\* The prompt asks for the smallest free suffix; the agent may do otherwise.
Push(n) ==
  /\ job.alive /\ remote[job.h][n] # job.run
  /\ remote' = [remote EXCEPT ![job.h][n] = job.run]
  /\ UNCHANGED <<phase, pick, byName, spent, job, log, ledger, metrics, bill, suiteBounds>>

AgentExits ==
  /\ job.alive
  /\ job' = [job EXCEPT !.alive = FALSE]
  /\ log' = IF job.h = "claude"
              THEN [log EXCEPT !["claude"].usage["result"] = @ + bill[job.run]] ELSE log
  /\ UNCHANGED <<phase, pick, byName, spent, ledger, metrics, remote, bill, suiteBounds>>

TimerKills ==
  /\ job.alive
  /\ job' = [job EXCEPT !.alive = FALSE]
  /\ UNCHANGED <<phase, pick, byName, spent, log, ledger, metrics, remote, bill,
                 suiteBounds>>

\* Mutant of OverBudget: the run may use up the budget before it is stopped.
PastBudget == Cost(job.h, log[job.h].usage) > job.budget

OverBudget == Cost(job.h, log[job.h].usage) >= job.budget

Sample ==
  /\ job.alive /\ job.due
  /\ job' = [job EXCEPT !.due = FALSE, !.alive = ~OverBudget]
  /\ UNCHANGED <<phase, pick, byName, spent, log, ledger, metrics, remote, bill,
                 suiteBounds>>

----------------------------------------------------------------------------
(* What a run is worth.                                                     *)

\* Mutant of NewBranches: branches of earlier runs count as well.
AllBranches(refs, before) == {n \in 1..MaxSuffix : refs[n] # 0}

\* Of the branches base, base-2, ... the ones that are new or have moved.
NewBranches(refs, before) == {n \in 1..MaxSuffix : refs[n] # 0 /\ refs[n] # before[n]}

\* The one with the highest suffix; the base itself, unpushed, if there is none.
Choose(refs, before) ==
  LET new == NewBranches(refs, before)
      n   == IF new = {} THEN 1 ELSE Max(new)
  IN  [branch |-> n, sha |-> IF new = {} THEN 0 ELSE refs[n]]

Credit(row, choice) == [row EXCEPT !.branch = choice.branch, !.sha = choice.sha]

\* Again an error of git ls-remote looks like a remote without branches.
Collect(listed) ==
  /\ phase = "run" /\ ~job.alive
  /\ LET refs == IF listed THEN remote[job.h] ELSE NoBranches IN
     job' = [job EXCEPT
       !.listed = @ /\ listed,
       !.row = [Credit(job.row, Choose(refs, job.before))
                  EXCEPT !.cost = RowCost(job.h, log[job.h].usage)]]
  /\ phase' = "ledger"
  /\ UNCHANGED <<pick, byName, spent, log, ledger, metrics, remote, bill, suiteBounds>>

\* Mutant of RecordLedger: the line is forgotten.
RecordReportOnly(wrote) ==
  /\ phase = "ledger"
  /\ byName' = [byName EXCEPT ![job.h] = job.row]
  /\ spent' = spent + job.row.cost
  /\ phase' = "report" /\ Wrote(wrote)
  /\ UNCHANGED <<pick, job, log, ledger, metrics, remote, bill, runs, repairs>>

RecordLedger(wrote) ==
  /\ phase = "ledger"
  /\ byName' = [byName EXCEPT ![job.h] = job.row]
  /\ AppendLedger(job.h, job.row, wrote)
  /\ spent' = spent + job.row.cost
  /\ phase' = "report" /\ Wrote(wrote)
  /\ UNCHANGED <<pick, job, log, metrics, remote, bill, runs, repairs>>

WriteReport(wrote) ==
  /\ phase = "report"
  /\ Rewrite(byName, wrote) /\ pick' = Tail(pick) /\ job' = NoJob
  /\ phase' = "next" /\ Wrote(wrote)
  /\ UNCHANGED <<byName, spent, log, ledger, remote, bill, runs, repairs>>

----------------------------------------------------------------------------
(* Crashes, and the commands that repair what they leave.                   *)

\* By a crash, or because the ledger cannot be opened (which is fatal).
\* The agent is in a process group of its own: it may still pay for a response,
\* whose line nobody reads, before the broken pipe ends it.
ProgramDies(extra) ==
  /\ phase # "idle" /\ mishaps < Mishaps
  /\ extra = 0 \/ job.alive
  /\ bill' = IF extra = 0 THEN bill ELSE [bill EXCEPT ![job.run] = @ + extra]
  /\ Ends /\ mishaps' = mishaps + 1
  /\ UNCHANGED <<log, ledger, metrics, remote, runs, repairs>>

\* recover <harness>: the row of an interrupted run out of its partial log; the
\* report first and the ledger after it.
Recover(h, wrote) ==
  /\ phase = "idle" /\ log[h].run # 0 /\ repairs < Repairs
  /\ LET usage == log[h].usage
         cost  == IF h = "claude" /\ Cost(h, usage) = 0
                    THEN usage["assistant"] ELSE Cost(h, usage)
         row   == [run |-> log[h].run, how |-> "recovered", cost |-> Rounded(cost),
                   branch |-> 0, sha |-> 0]
     IN  /\ Rewrite([metrics EXCEPT ![h] = row], wrote)
         /\ job' = [NoJob EXCEPT !.h = h, !.row = row]
  /\ phase' = "recovered" /\ repairs' = repairs + 1 /\ Wrote(wrote)
  /\ UNCHANGED <<pick, byName, spent, log, ledger, remote, bill, runs>>

RecoverLedger(wrote) ==
  /\ phase = "recovered"
  /\ AppendLedger(job.h, job.row, wrote)
  /\ Ends /\ Wrote(wrote)
  /\ UNCHANGED <<log, metrics, remote, bill, runs, repairs>>

\* recheck asks for the recorded name with an empty list of older branches, so
\* the name without a suffix stands for every branch of the harness.
Recorded(h, branch) ==
  [n \in 1..MaxSuffix |-> IF branch = 1 \/ n = branch THEN remote[h][n] ELSE 0]

Rechecked(h, row) ==
  LET cost == IF log[h].run = 0 THEN row.cost ELSE RowCost(h, log[h].usage)
      seen == IF row.branch = 0 THEN [branch |-> 0, sha |-> 0]
                ELSE LET c == Choose(Recorded(h, row.branch), NoBranches)
                     IN  IF c.sha = 0 THEN [c EXCEPT !.branch = row.branch] ELSE c
  IN  [Credit(row, seen) EXCEPT !.cost = cost, !.how = "rechecked"]

Recheck(wrote) ==
  /\ phase = "idle" /\ repairs < Repairs
  /\ Rewrite([h \in Harness |-> IF metrics[h] = Missing THEN Missing
                                   ELSE Rechecked(h, metrics[h])], wrote)
  /\ repairs' = repairs + 1 /\ Wrote(wrote)
  /\ UNCHANGED <<phase, pick, byName, spent, job, log, ledger, remote, bill, runs>>

----------------------------------------------------------------------------
\* The lists of harnesses a command line may name.
Picks == {<<"toroid", "claude", "pi">>} \cup {<<h>> : h \in Harness}

Agent == \/ \E p \in ReplyPrices : Respond(p)
         \/ \E n \in 1..MaxSuffix : Push(n)
         \/ AgentExits \/ TimerKills \/ Sample

Repair == \E w \in Writes : \/ Recover("toroid", w) \/ Recover("claude", w)
                            \/ Recover("pi", w) \/ RecoverLedger(w) \/ Recheck(w)

SuiteNext ==
  \/ \E p \in Picks : StartSuite(p)
  \/ LeaveSuite
  \/ \E b \in BOOLEAN : Launch(b) \/ LaunchFails(b) \/ Collect(b)
  \/ Agent
  \/ \E w \in Writes : RecordLedger(w) \/ WriteReport(w)
  \/ \E p \in ReplyPrices \cup {0} : ProgramDies(p)
  \/ Repair

SuiteSpec == SuiteInit /\ [][SuiteNext]_suiteVars

----------------------------------------------------------------------------

\* The brake (README.md of the harness: "a single in-flight response can cross the
\* remaining estimate"): of a harness whose usage is read as it runs, a run costs
\* less than what was left of the budget and one more response, however the timer,
\* the sampler and the agent's own exit fall.
Braked(h) ==
  job.h = h /\ phase = "run" =>
    \E p \in ReplyPrices : bill[job.run] < job.budget + p

BrakeHolds == \A h \in Metered : Braked(h)

\* The same of every harness, as that README has it of "a process".  toroid prints
\* no line its parser counts and claude none before it exits: the sampler reads a
\* cost of nothing and the run goes on.
BrakeHoldsForAll == \A h \in Harness : Braked(h)

\* The ledger: a line never charges a run for more than it cost, but for the half of a
\* ten-thousandth that rounding may add; the suite's own line of a metered run is
\* exactly its cost, rounded; and a row the suite has put into the report is in the
\* ledger, wherever the program dies, unless the very write of its line failed or was
\* appended to one that had.
LedgerHonest ==
  /\ \A l \in ledger.lines :
       /\ l.cost <= bill[l.run] + Grain \div 2
       /\ l.how = "run" /\ l.h \in Metered => l.cost = Rounded(bill[l.run])
  /\ \A h \in Harness : metrics[h].how = "run" =>
       LineOf(h, metrics[h]) \in ledger.lines \cup ledger.lost

\* The credit: if the branches could be listed before it, a run is credited with a
\* branch exactly if it pushed one, and the commit it is credited with is its own;
\* branches of earlier runs never count, whatever their suffixes.
CreditIsOwn ==
  phase \in {"ledger", "report"} /\ job.listed =>
    /\ job.row.sha \in {0, job.run}
    /\ job.row.sha = 0 => \A n \in 1..MaxSuffix : remote[job.h][n] # job.run
=============================================================================
