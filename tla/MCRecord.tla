------------------------------ MODULE MCRecord ------------------------------
(* What is on disk: a span and what is rebuilt from it; a trace in the store *)
(* and its readers; the benchmark suite with its ledger and report.  The     *)
(* three share no state: a behaviour is one of Replay, of Sessions or of     *)
(* HarnessEval, as the variable part says.                                   *)
EXTENDS MCReplay, Sessions, HarnessEval

VARIABLE part

MCInit == Init /\ SessInit /\ SuiteInit /\ part \in {"span", "trace", "suite"}

MCNext == /\ UNCHANGED part
          /\ \/ part = "span" /\ Next /\ UNCHANGED <<sessVars, suiteVars>>
             \/ part = "trace" /\ SessNext /\ UNCHANGED <<vars, suiteVars>>
             \/ part = "suite" /\ SuiteNext /\ UNCHANGED <<vars, sessVars>>

MCSpec == MCInit /\ [][MCNext]_<<part, vars, sessVars, suiteVars>>
=============================================================================
