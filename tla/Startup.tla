------------------------------ MODULE Startup -------------------------------
(***************************************************************************)
(* How kernels come to their configuration and their tools: NewKernel of   *)
(* the host's kernel and of the subagents that inherit its Config          *)
(* (kernel.go), the question to the gateway what the model can take        *)
(* (modellimits.go), the defaults (utils.go), the connections to MCP       *)
(* servers (tools/mcp.go), the command line (examples/cli/main.go), and    *)
(* Close.                                                                  *)
(*                                                                         *)
(* Kept of a Config are the fields that later code decides on; tokens are  *)
(* counted in any unit.  Identifiers, directories, keys, skills and the    *)
(* system prompt are left out.  The gateway and the servers are external:  *)
(* each may answer anything of a set, or fail.                             *)
(***************************************************************************)
EXTENDS Integers, Sequences

CONSTANTS
  Host,            \* the kernel of the host
  Children,        \* its subagents
  Settings,        \* the Configs that hosts in Go start with
  CommandLines,    \* the flags that the CLI is started with
  Documents,       \* what a gateway may say of a model
  DefaultContext,  \* 200000
  DefaultBuffer    \* 50000

Kernels == {Host} \cup Children

Limits == [status : {"ok", "missing", "failed"}, input : Nat, length : Nat, output : Nat]

\* modelLimits: the window under its two spellings, the ceiling (the first of its
\* three that is set).
inputContext(lim) == IF lim.input > 0 THEN lim.input ELSE lim.length

Config ==
  [context : Int, buffer : Int, tokens : Int, repeat : Int, iter : Int, computer : BOOLEAN,
   delegates : BOOLEAN, tools : SUBSET Seq(STRING),
   servers : Seq([id : STRING, name : STRING, tools : SUBSET STRING])]

Flags == [contextSize : Int, compactBuffer : Int, maxTokens : Int, maxRepeatCalls : Int,
          maxIter : Int, envMaxIter : Int]

\* A quarter of a window is not nothing.
ASSUME StartupAssumption ==
  /\ Host \notin Children
  /\ DefaultContext \in Nat /\ DefaultContext > 3
  /\ DefaultBuffer \in 1..(DefaultContext - 1)
  /\ Documents \subseteq Limits
  /\ \A doc \in Documents : doc.status = "ok" /\ inputContext(doc) \notin 1..3
  /\ Settings \subseteq Config /\ \A c \in Settings : c.context \notin 1..3
  /\ CommandLines \subseteq Flags /\ \A f \in CommandLines : f.contextSize \notin 1..3

VARIABLES
  asked,     \* the Config that the host passes to NewKernel
  cfg,       \* the Config of each kernel
  limits,    \* what was found out about the model of each
  registry,  \* the tools of each: who runs the tool of a name
  open,      \* the open connections: kernel and server
  stage,     \* where each kernel is: a place in NewKernel, "ready", ...
  served     \* how many of its servers each kernel has connected

startVars == <<asked, cfg, limits, registry, open, stage, served>>

Missing  == [status |-> "missing", input |-> 0, length |-> 0, output |-> 0]
NoLimits == [Missing EXCEPT !.status = "failed"]
NoTools  == [name \in {} |-> Host]

-----------------------------------------------------------------------------
(* The command line.                                                        *)

\* loadConfig and newKernel: the flag of --max-iter wins over the environment.
LoadConfig(flags) ==
  [context |-> flags.contextSize, buffer |-> flags.compactBuffer,
   tokens |-> flags.maxTokens, repeat |-> flags.maxRepeatCalls,
   iter |-> IF flags.maxIter > 0 THEN flags.maxIter ELSE flags.envMaxIter,
   computer |-> TRUE, delegates |-> TRUE, tools |-> {}, servers |-> <<>>]

StartInit ==
  /\ asked \in Settings \cup {LoadConfig(flags) : flags \in CommandLines}
  /\ cfg = [k \in Kernels |-> asked] /\ limits = [k \in Kernels |-> NoLimits]
  /\ registry = [k \in Kernels |-> NoTools] /\ open = {}
  /\ stage = [k \in Kernels |-> "none"] /\ served = [k \in Kernels |-> 0]

Enter(k, from, to) == stage[k] = from /\ stage' = [stage EXCEPT ![k] = to]

-----------------------------------------------------------------------------
(* What the model can take.                                                 *)

Usable(lim) == lim.status = "ok" /\ (inputContext(lim) > 0 \/ lim.output > 0)

\* fetchModelLimits: /models/{id}; if that is not found, the first of its endpoints,
\* and then its entry in the list, which must tell a window.
FetchModelLimits(direct, endpoint, listed) ==
  CASE Usable(direct) -> direct
    [] direct.status = "missing" /\ Usable(endpoint) -> endpoint
    [] direct.status = "missing" /\ ~Usable(endpoint) /\ Usable(listed)
         /\ inputContext(listed) > 0 -> listed
    [] OTHER -> NoLimits

\* Mutant of Lower: the model's own ceiling is taken, whatever was configured.
LowerAlways(value, limit) == IF limit > 0 THEN limit ELSE value

\* A limit that is told replaces a value that is not set or does not fit.
Lower(value, limit) == IF limit > 0 /\ (value <= 0 \/ value > limit) THEN limit ELSE value

\* Mutant of ApplyModelLimits: a buffer as large as the window stays.
ApplyModelLimitsLax(c, lim) ==
  LET context == Lower(c.context, inputContext(lim)) IN
  [c EXCEPT
     !.context = context, !.tokens = Lower(@, lim.output),
     !.buffer = IF inputContext(lim) > 0 /\ @ > context THEN context \div 4 ELSE @]

\* The buffer is compared with the window before an unset one gets its default.
ApplyModelLimits(c, lim) ==
  LET context == Lower(c.context, inputContext(lim)) IN
  [c EXCEPT
     !.context = context, !.tokens = Lower(@, lim.output),
     !.buffer = IF inputContext(lim) > 0 /\ @ >= context THEN context \div 4 ELSE @]

OrDefault(value, default) == IF value <= 0 THEN default ELSE value

WindowDefaults(c) ==
  [c EXCEPT !.context = OrDefault(@, DefaultContext),
            !.buffer = OrDefault(@, DefaultBuffer), !.iter = OrDefault(@, 100)]

\* ApplyDefaultDataTypes: a value that is zero gets the default of its tag, a false
\* that was meant included.
ApplyDefaultDataTypes(c) ==
  [c EXCEPT !.repeat = IF @ = 0 THEN 3 ELSE @, !.computer = TRUE, !.delegates = TRUE]

-----------------------------------------------------------------------------
(* NewKernel.                                                               *)

NewKernel ==
  /\ Enter(Host, "none", "probe")
  /\ UNCHANGED <<asked, cfg, limits, registry, open, served>>

\* runSubagent: a copy of the parent's Config, as NewKernel left it.
RunSubagent(k) ==
  /\ k \in Children /\ stage[Host] = "ready" /\ <<"subagent">> \in DOMAIN registry[Host]
  /\ Enter(k, "none", "probe")
  /\ cfg' = [cfg EXCEPT ![k] = [cfg[Host] EXCEPT !.delegates = FALSE]]
  /\ UNCHANGED <<asked, limits, registry, open, served>>

Probe(k) ==
  /\ Enter(k, "probe", "register")
  /\ \E direct, endpoint, listed \in Documents \cup {Missing, NoLimits} :
       limits' = [limits EXCEPT ![k] = FetchModelLimits(direct, endpoint, listed)]
  /\ cfg' = [cfg EXCEPT ![k] = WindowDefaults(ApplyModelLimits(@, limits'[k]))]
  /\ UNCHANGED <<asked, registry, open, served>>

\* Register replaces what has the name already.
With(tools, names, owner) ==
  [name \in DOMAIN tools \cup names |-> IF name \in names THEN owner ELSE tools[name]]

Core     == {<<"read">>, <<"write">>, <<"bash">>, <<"edit">>, <<"multiedit">>}
Delegate == {<<"subagent">>, <<"subagent_async">>}

OwnTools(c) ==
  LET core == IF c.computer THEN With(NoTools, Core, "kernel") ELSE NoTools IN
  With(IF c.delegates THEN With(core, Delegate, "kernel") ELSE core, c.tools, "host")

\* Mutant of Register: the defaults of the tags come first.
RegisterLate(k) ==
  /\ Enter(k, "register", "connect")
  /\ cfg' = [cfg EXCEPT ![k] = ApplyDefaultDataTypes(@)]
  /\ registry' = [registry EXCEPT ![k] = OwnTools(cfg'[k])]
  /\ UNCHANGED <<asked, limits, open, served>>

Register(k) ==
  /\ Enter(k, "register", "connect")
  /\ registry' = [registry EXCEPT ![k] = OwnTools(cfg[k])]
  /\ cfg' = [cfg EXCEPT ![k] = ApplyDefaultDataTypes(@)]
  /\ UNCHANGED <<asked, limits, open, served>>

-----------------------------------------------------------------------------
(* The MCP servers, in their order.                                         *)

Server(k) == cfg[k].servers[served[k] + 1]

Connecting(k) == served[k] < Len(cfg[k].servers)

\* The server accepts streamable HTTP, or SSE after it has refused that.
Connect(k) ==
  /\ Connecting(k)
  /\ Enter(k, "connect", "list") \/ Enter(k, "sse", "list")
  /\ open' = open \cup {<<k, Server(k).id>>}
  /\ UNCHANGED <<asked, cfg, limits, registry, served>>

FallBack(k) ==
  /\ Connecting(k) /\ Enter(k, "connect", "sse")
  /\ UNCHANGED <<asked, cfg, limits, registry, open, served>>

\* NewKernel returns the error; the servers before this one stay connected.
ConnectFails(k) ==
  /\ Connecting(k)
  /\ Enter(k, "connect", "failed") \/ Enter(k, "sse", "failed")
  /\ UNCHANGED <<asked, cfg, limits, registry, open, served>>

ToolName(server, tool) == IF server.name = "" THEN <<tool>> ELSE <<server.name, tool>>

FinishConnection(k) ==
  /\ Enter(k, "list", "connect")
  /\ registry' = [registry EXCEPT ![k] =
       With(@, {ToolName(Server(k), tool) : tool \in Server(k).tools}, Server(k).id)]
  /\ served' = [served EXCEPT ![k] = @ + 1]
  /\ UNCHANGED <<asked, cfg, limits, open>>

ListFails(k) ==
  /\ Enter(k, "list", "failed")
  /\ open' = open \ {<<k, Server(k).id>>}
  /\ UNCHANGED <<asked, cfg, limits, registry, served>>

\* The store opens, if one is wanted, or it does not.
OpenStore(k) ==
  /\ ~Connecting(k)
  /\ Enter(k, "connect", "ready") \/ Enter(k, "connect", "failed")
  /\ UNCHANGED <<asked, cfg, limits, registry, open, served>>

\* runSubagent returns: its kernel is dropped, not closed.
SubagentEnds(k) ==
  /\ k \in Children /\ Enter(k, "ready", "dropped")
  /\ UNCHANGED <<asked, cfg, limits, registry, open, served>>

CloseKernel ==
  /\ Enter(Host, "ready", "closed")
  /\ open' = {c \in open : c[1] # Host}
  /\ UNCHANGED <<asked, cfg, limits, registry, served>>

StartNext ==
  \/ NewKernel \/ CloseKernel
  \/ \E k \in Kernels :
       \/ RunSubagent(k) \/ Probe(k) \/ Register(k) \/ Connect(k) \/ FallBack(k)
       \/ ConnectFails(k) \/ FinishConnection(k) \/ ListFails(k) \/ OpenStore(k)
       \/ SubagentEnds(k)

StartSpec == StartInit /\ [][StartNext]_startVars

-----------------------------------------------------------------------------
(* Properties.                                                              *)

Configured(k) == stage[k] \notin {"none", "probe"}

\* "Configured values are honoured when they fit and lowered when they do not"
\* (modellimits.go on applyModelLimits): of every kernel, the subagents' included,
\* whose model may be smaller than the one the Config was first fitted to.
LimitsFit ==
  \A k \in Kernels : Configured(k) =>
    LET window == inputContext(limits[k])
        before == IF k = Host THEN asked ELSE cfg[Host]
    IN  /\ window > 0 => cfg[k].context <= window
        /\ limits[k].output > 0 => cfg[k].tokens \in 1..limits[k].output
        /\ before.context > 0 /\ ~(window > 0 /\ window < before.context) =>
             cfg[k].context = before.context
        /\ before.tokens > 0 => cfg[k].tokens <= before.tokens
        /\ before.buffer > 0 => cfg[k].buffer <= before.buffer

\* A host that sets no buffer, or one below the window it can know of.
Prudent == asked.buffer < (IF asked.context > 0 THEN asked.context ELSE DefaultContext)

\* A kernel does not compact on every turn: the buffer leaves some of the window.
\* Two things spoil it, and nothing else: a buffer that was never below the window, if
\* the gateway is silent about it, and the default buffer in a window that is not
\* larger.  A subagent has its parent's trouble, or none if its own window is known.
RoomToCompact ==
  \A k \in Kernels : Configured(k) =>
    \/ cfg[k].buffer \in 1..(cfg[k].context - 1)
    \/ inputContext(limits[k]) = 0 /\ ~Prudent
    \/ asked.buffer <= 0 /\ cfg[k].context <= DefaultBuffer
         /\ (k = Host \/ inputContext(limits[k]) = 0)

\* Subagents do not delegate, although the defaults switch delegation on again in the
\* Config that they inherit; the core tools are the host's choice for its own kernel
\* only.  A kernel that is in use has every tool of every server it was given: the
\* connection is open, and the name belongs to this server or to a later one.  Once
\* the host has closed its kernel no connection of that kernel is open.
ToolboxRight ==
  /\ \A k \in Kernels : stage[k] = "ready" =>
       LET servers == cfg[k].servers
           names(i) == {ToolName(servers[i], tool) : tool \in servers[i].tools}
           taken == asked.tools \cup UNION {names(i) : i \in DOMAIN servers}
       IN  /\ \A name \in Delegate \ taken :
                name \in DOMAIN registry[k] <=> k = Host /\ asked.delegates
           /\ \A name \in Core \ taken :
                name \in DOMAIN registry[k] <=> k # Host \/ asked.computer
           /\ \A i \in DOMAIN servers :
                /\ <<k, servers[i].id>> \in open
                /\ \A name \in names(i) : \E j \in i..Len(servers) :
                     name \in names(j) /\ registry[k][name] = servers[j].id
  /\ stage[Host] = "closed" => \A c \in open : c[1] # Host
=============================================================================
