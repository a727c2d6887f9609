---------------------------- MODULE MCToolBatch ----------------------------
(* Small instances for TLC of a batch of tool calls, of the terminal         *)
(* interface that shows it, and of the tools themselves: the file of two     *)
(* agents and the shell.  They share no state: a behaviour is one of one     *)
(* of the four, with the fairness of that module.                            *)
EXTENDS ToolBatch, Tui, FileTools, Shell

VARIABLE part

MCInit ==
  /\ Init /\ TuiInit /\ FileInit /\ ShellInit
  /\ part \in {"batch", "tui", "files", "shell"}
  /\ part # "batch" => calls = <<"read">>

MCNext ==
  /\ UNCHANGED part
  /\ \/ part = "batch" /\ Next /\ UNCHANGED <<tuiVars, fileVars, shellVars>>
     \/ part = "tui" /\ TuiNext /\ UNCHANGED <<vars, fileVars, shellVars>>
     \/ part = "files" /\ FileNext /\ UNCHANGED <<vars, tuiVars, shellVars>>
     \/ part = "shell" /\ ShellNext /\ UNCHANGED <<vars, tuiVars, fileVars>>

BatchFairness ==
  /\ WF_vars(part = "batch" /\ Runner)
  /\ \A i \in 1..MaxCalls : WF_vars(part = "batch" /\ i \in DOMAIN calls /\ Handler(i))

TuiFairness ==
  /\ WF_tuiVars(part = "tui" /\ Take) /\ WF_tuiVars(part = "tui" /\ Update)
  /\ WF_tuiVars(part = "tui" /\ TurnStep)

ShellFairness ==
  WF_shellVars(part = "shell" /\ ShellStep) /\ WF_shellVars(part = "shell" /\ Deadline)

MCSpec ==
  /\ MCInit /\ [][MCNext]_<<part, vars, tuiVars, fileVars, shellVars>>
  /\ BatchFairness /\ TuiFairness /\ ShellFairness

\* A batch returns: of the behaviours of ToolBatch.
BatchesReturn == part = "batch" => BatchReturns

AnyKind == {"edit", "badEdit", "read", "shell", "unknown"}

Change(old, new, all) == [old |-> old, new |-> new, all |-> all]

\* A file with a line that occurs twice; edits that are ambiguous, that fail as the
\* second of a list, and that undo each other; files longer than a page.
ThreeLines == <<"a", "b", "a">>
SomeEdits  == {<<Change("b", "c", FALSE)>>,
               <<Change("a", "c", TRUE), Change("b", "a", FALSE)>>,
               <<Change("b", "a", FALSE), Change("c", "b", TRUE)>>}
SomeFiles  == {<<"c", "long", "b">>, <<"wide", "b">>, <<"b", "c", "a", "c">>}
=============================================================================
