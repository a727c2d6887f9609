----------------------------- MODULE MCSession ------------------------------
(* Small instances for TLC of how kernels start, of one request on the wire, *)
(* and of the trace that a session leaves.  They share no state: a behaviour *)
(* is one of one of the three, with the fairness of Wire.                    *)
EXTENDS Startup, Wire, Telemetry

VARIABLE part

MCInit == /\ part \in {"start", "wire", "trace"}
          /\ Init /\ WireInit /\ StartInit
          /\ part # "start" => asked = CHOOSE c \in Settings : TRUE
          /\ part # "wire" => wire = "openai" /\ mode = "stream" /\ answer = <<{}>>

MCNext ==
  /\ UNCHANGED part
  /\ \/ part = "start" /\ StartNext /\ UNCHANGED <<wireVars, vars>>
     \/ part = "wire" /\ WireNext /\ UNCHANGED <<startVars, vars>>
     \/ part = "trace" /\ Next /\ UNCHANGED <<startVars, wireVars>>

MCSpec ==
  /\ MCInit /\ [][MCNext]_<<part, startVars, wireVars, vars>>
  /\ WF_wireVars(part = "wire" /\ Posting) /\ WF_wireVars(part = "wire" /\ Reading)
  /\ WF_wireVars(part = "wire" /\ Forwarding)

\* A step ends: of the behaviours of Wire.
EveryStepEnds == part = "wire" => StepEnds

-----------------------------------------------------------------------------
(* Startup: tokens by the ten thousand, and a window below the default buffer. *)

Doc(input, length, output) ==
  [status |-> "ok", input |-> input, length |-> length, output |-> output]

SomeDocuments == {Doc(8, 40, 0), Doc(0, 5, 2), Doc(0, 0, 1), Doc(0, 0, 0)}

Find(id, name, tool) == [id |-> id, name |-> name, tools |-> {tool, "find"}]

\* Two servers: with names of their own, with the same, and one that replaces a core
\* tool.
SomeServers == {<<>>, <<Find("s1", "a", "list"), Find("s2", "b", "list")>>,
                <<Find("s1", "a", "list"), Find("s2", "a", "show")>>,
                <<Find("s1", "", "read")>>}

\* Every size with nothing else, and every toolbox with one size.
SomeSettings ==
  [context : {0, 10}, buffer : {0, 8, 10}, tokens : {0, 2}, repeat : {0}, iter : {0},
   computer : {TRUE}, delegates : {TRUE}, tools : {{}}, servers : {<<>>}]
  \cup
  [context : {10}, buffer : {0}, tokens : {0}, repeat : {2}, iter : {9}, computer : BOOLEAN,
   delegates : BOOLEAN, tools : {{}, {<<"bash">>}}, servers : SomeServers]

SomeCommandLines ==
  [contextSize : {0, 6, 30}, compactBuffer : {0, 6}, maxTokens : {0, 2},
   maxRepeatCalls : {0}, maxIter : {1000, 0}, envMaxIter : {0, 7}]

-----------------------------------------------------------------------------
(* Wire: lines with nothing the reader keeps, with one fragment, and with two. *)

SomeLines == {{}, {"text"}, {"text", "reasoning"}, {"call1"}, {"call2"}}

-----------------------------------------------------------------------------
(* Telemetry.                                                               *)

CONSTANTS root, agent, noId, id1, id2

\* A final text; four calls: one without an id, two with the same id, and between them
\* one with an id of its own.
SomeMessages ==
  [k \in {root, agent} |-> IF k = root THEN {<<>>, <<noId, id1, id2, id1>>} ELSE {<<>>}]

\* Everything happens to the root kernel; its agent may fail.
Anything ==
  [k \in {root, agent} |->
     IF k = root THEN {"fails", "guard", "compact"} ELSE {"fails"}]

SomeTurns == [k \in {root, agent} |-> IF k = root THEN 2 ELSE 1]
=============================================================================
