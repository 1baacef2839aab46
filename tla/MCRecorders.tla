----------------------------- MODULE MCRecorders -----------------------------
(* The recorders beside Claude Code's: the ingests of Codex, Copilot and
   Cursor, the proxy with its captures, and what it makes of one response;
   and forks, which record what a model answers to a changed past.  They share
   no state but the tables, in which their runs are apart: one of them runs at
   a time.  What each of them does first, opening the store, is here too, and
   what the rows of a run are for: the working tree at each of its steps. *)
EXTENDS CodexIngest, CopilotIngest, CursorIngest, Proxy, ProxyStream, MCForks, StoreSchema, WorkingTree,
        Regression, PostgresSync, MCBlobStore

VARIABLE recorder

-----------------------------------------------------------------------------
(* Codex: a shell call and a patch, with what is written around them.      *)
Records ==
  {[kind |-> "call", call |-> "c1"],
   [kind |-> "output", call |-> "c1", outcome |-> "ok"],
   [kind |-> "patch", call |-> "c1", path |-> "a", op |-> "update"],
   [kind |-> "turn", model |-> "m"]}
  \union {[kind |-> k] : k \in {"message", "usage", "done", "chatter"}}

-----------------------------------------------------------------------------
(* Copilot: an agent dispatched in a session with interaction ids and in    *)
(* one without, a session without ids, and one without agents.             *)
Event ==
  [type |-> "none", parent |-> 0, iid |-> "none", call |-> "none", tool |-> "none",
   text |-> "none", turn |-> "none", usage |-> 0, outcome |-> "ok"]
Typed(type) == [Event EXCEPT !.type = type]
User(iid, text) == [Typed("user.message") EXCEPT !.iid = iid, !.text = text]
Reply(iid, tokens) == [Typed("assistant.message") EXCEPT !.iid = iid, !.usage = tokens]
Starts(call, tool, text) ==
  [Typed("tool.execution_start") EXCEPT !.call = call, !.tool = tool, !.text = text]
Completes(call, iid) == [Typed("tool.execution_complete") EXCEPT !.call = call, !.iid = iid]
Subagent(type, call) == [Typed(type) EXCEPT !.call = call]
TurnStart(iid) == [Typed("assistant.turn_start") EXCEPT !.iid = iid, !.turn = "t"]
TurnEnd(tokens) == [Typed("assistant.turn_end") EXCEPT !.turn = "t", !.usage = tokens]
Under(event, parent) == [event EXCEPT !.parent = parent]

Squad(tool) ==
  <<User("main", "go"), Starts("k", "task", "prompt"), Subagent("subagent.started", "k"),
    User("agent", "prompt"), Starts("c1", tool, "x"), Starts("c2", "bash", "y"),
    Completes("c2", "agent"), Completes("c1", "agent"), Reply("agent", 1),
    Subagent("subagent.completed", "k")>>
Lone ==
  <<User("main", "go"), TurnStart("main"), Starts("c1", "bash", "x"), TurnEnd(1),
    TurnStart("main"), Reply("main", 1), TurnEnd(2), Completes("c1", "main"),
    Typed("session.error"), [Typed("session.shutdown") EXCEPT !.usage = 3]>>
Chain ==
  <<User("none", "go"), Under(Starts("k", "task", "prompt"), 1),
    Under(Subagent("subagent.started", "k"), 2), Under(Reply("none", 1), 3),
    Under(Starts("c1", "edit", "x"), 4), Under(Completes("c1", "none"), 5),
    Under(Reply("none", 1), 99), Under(Typed("subagent.completed"), 6)>>
NoIds == [i \in 1..5 |-> Under(Chain[i], -1)]

SquadScripts == {Squad("bash"), Chain, NoIds, Lone}

-----------------------------------------------------------------------------
(* Cursor: one turn edits a file.                                          *)
Tool(name, path) == [name |-> name, path |-> path, before |-> "text", after |-> "text"]
ToolOf == [b \in Bubbles |-> IF b = "b2" THEN Tool("edit_file_v2", "a") ELSE Tool("none", "none")]
CheckpointPaths == <<"a", "c">>

-----------------------------------------------------------------------------
(* The proxy: two upstreams under one explicit id, a conversation with tool  *)
(* calls and a retry, parallel calls, errors, calls that are not captured, and *)
(* more conversations than the grouper keeps.                              *)
DialectOf == [n \in {"openai", "anthropic", "groq"} |->
                IF n = "anthropic" THEN "anthropic" ELSE "openai"]

Plain(prefix, id) ==
  [prefix |-> prefix, rest |-> "openai", hop |-> FALSE, id |-> id, seed |-> "s",
   msgs |-> 1, answers |-> <<>>, call |-> NoCall, result |-> "ok"]
Turn(r, msgs, answers) == [r EXCEPT !.msgs = msgs, !.answers = answers]
Calls(r, call) == [r EXCEPT !.call = call]

TwoUpstreams ==
  <<Calls(Plain(NoName, "x"), "c1"), Turn(Plain(NoName, "x"), 3, <<"c1">>),
    Plain("groq", "x"), Plain("groq", "x")>>
Conversation ==
  <<Calls(Plain(NoName, NoId), "c1"), Calls(Turn(Plain(NoName, NoId), 3, <<"c1">>), "c2"),
    Turn(Plain(NoName, NoId), 3, <<"c1">>), Turn(Plain(NoName, NoId), 5, <<"c1", "c2">>)>>
Parallel ==
  <<Calls(Plain(NoName, "x"), "c1"), Calls(Plain(NoName, "x"), "c2"),
    Turn(Plain(NoName, "x"), 3, <<"c1", "c2">>), Plain("groq", NoId)>>
Errors ==
  <<[Plain(NoName, "x") EXCEPT !.result = "error"],
    [Plain(NoName, "x") EXCEPT !.result = "unparsed"],
    Plain(NoName, "x"), [Plain("anthropic", "y") EXCEPT !.rest = "anthropic"]>>
Strays ==
  <<[Plain("groq", "x") EXCEPT !.hop = TRUE], [Plain("groq", "x") EXCEPT !.rest = "other"],
    [Plain(NoName, "x") EXCEPT !.rest = "anthropic"], Plain("openai", "x")>>
Crowd ==
  <<Calls(Plain(NoName, "x"), "c1"), Plain(NoName, "y"), Plain(NoName, "z"),
    Turn(Plain(NoName, "x"), 3, <<"c1">>)>>

Clients == {TwoUpstreams, Conversation, Parallel, Errors, Strays, Crowd}

Block(kind, pieces) == [kind |-> kind, pieces |-> pieces]
Answer(dialect, named, blocks) ==
  [dialect |-> dialect, named |-> named, blocks |-> blocks, usage |-> 2]
Responses ==
  {Answer(d, TRUE, b) : d \in {"openai", "anthropic"},
     b \in {<<Block("thinking", 1), Block("text", 2)>>,
            <<Block("text", 1), Block("tool", 2), Block("tool", 2)>>,
            <<Block("thinking", 2)>>}}
  \union {Answer("openai", FALSE, <<>>), Answer("anthropic", TRUE, <<Block("tool", 0)>>),
          Answer("anthropic", TRUE, <<Block("text", 1), Block("text", 1)>>)}

-----------------------------------------------------------------------------
(* The store: none yet, of the first version, of two versions on the way, and *)
(* of a newer build.                                                       *)
Database(tables, columns, check, version) ==
  [tables |-> tables, columns |-> columns, check |-> check, version |-> version,
   notes |-> IF "annotations" \in tables THEN {<<"someone", "comment">>} ELSE {}]
OldTables == {"meta", "runs", "steps", "annotations"}
Legacy ==
  {Database({}, {}, "none", 0), Database(OldTables, {}, "none", 1),
   Database(OldTables, {"steps2", "runs4", "annotations5", "runs6", "steps6"}, "none", 6),
   Database(OldTables, AllColumns \ {"runs8"}, "narrow", 7),
   Database(OldTables, AllColumns \union {"runs9"}, "newer", 9)}

-----------------------------------------------------------------------------
(* The tree: one file is there when the run begins.                        *)
FirstTree == {[p \in WtPaths |-> IF p = "a" THEN "x" ELSE NoRef]}

-----------------------------------------------------------------------------
(* The agent: steps that call a tool or do nothing, and a tool that a test   *)
(* forbids.                                                                *)
NothingDone == [kind |-> "none", name |-> "none"]
Search == [kind |-> "tool_call", name |-> "search"]
Saying == [kind |-> "message", name |-> "text"]
AgentActions == {NothingDone, Search}
AgentReplies == {<<Saying, Search>>}
AgentCost == [a \in AgentActions |-> IF a = NothingDone THEN 0 ELSE 1]
NoSearch == {[kind |-> "excludes_tool_call", value |-> "search", at |-> -1]}

agentVars == <<tracerVars, rgVars>>


-----------------------------------------------------------------------------
Init ==
  /\ recorder \in {"codex", "copilot", "cursor", "proxy", "stream", "fork", "opener", "tree", "agent",
                  "sync", "blob"}
  /\ CodexInit /\ CopilotInit /\ CursorInit /\ ProxyInit /\ StreamInit /\ ForkInit
  /\ SchemaInit /\ TreeInit /\ RegressionInit /\ PgInit /\ BlobInit
  /\ recorder = "copilot" \/ coScript = CHOOSE s \in CopilotScripts : TRUE
  /\ recorder = "cursor" \/ /\ cuTalk = CHOOSE talk \in {<<b>> : b \in Bubbles \ OddBubbles} : TRUE
                            /\ (cuStore.status = "none") = (FALSE \in LegacyRows)
  /\ recorder = "proxy" \/ traffic = Parallel
  /\ recorder = "stream" \/ answer = Answer("openai", FALSE, <<>>)
  /\ recorder = "fork" \/ fkSteps = StillWaits
  /\ recorder = "opener" \/ scStore = Database({}, {}, "none", 0)
  /\ recorder = "agent" \/ tcTracer.lang = "ts"

Next ==
  \/ recorder = "codex" /\ CodexNext /\ UNCHANGED <<coVars, cuVars, vars, streamVars, fkVars, schemaVars, treeVars, agentVars, pgVars, blobVars, recorder>>
  \/ recorder = "copilot" /\ CopilotNext /\ UNCHANGED <<cxVars, cuVars, vars, streamVars, fkVars, schemaVars, treeVars, agentVars, pgVars, blobVars, recorder>>
  \/ recorder = "cursor" /\ CursorNext /\ UNCHANGED <<cxVars, coVars, vars, streamVars, fkVars, schemaVars, treeVars, agentVars, pgVars, blobVars, recorder>>
  \/ recorder = "proxy" /\ ProxyNext /\ UNCHANGED <<cxVars, coVars, cuVars, streamVars, fkVars, schemaVars, treeVars, agentVars, pgVars, blobVars, recorder>>
  \/ recorder = "stream" /\ StreamNext /\ UNCHANGED <<cxVars, coVars, cuVars, vars, fkVars, schemaVars, treeVars, agentVars, pgVars, blobVars, recorder>>
  \/ recorder = "fork" /\ ForkNext /\ UNCHANGED <<cxVars, coVars, cuVars, vars, streamVars, schemaVars, treeVars, agentVars, pgVars, blobVars, recorder>>
  \/ recorder = "opener" /\ SchemaNext /\ UNCHANGED <<cxVars, coVars, cuVars, vars, streamVars, fkVars, treeVars, agentVars, pgVars, blobVars, recorder>>
  \/ recorder = "agent" /\ RegressionNext /\ UNCHANGED <<cxVars, coVars, cuVars, vars, streamVars, fkVars, schemaVars, treeVars, pgVars, blobVars, recorder>>
  \/ recorder = "sync" /\ PgNext /\ UNCHANGED <<cxVars, coVars, cuVars, vars, streamVars, fkVars, schemaVars, treeVars, agentVars, blobVars, recorder>>
  \/ recorder = "tree" /\ TreeNext /\ UNCHANGED <<cxVars, coVars, cuVars, vars, streamVars, fkVars, schemaVars, agentVars, pgVars, blobVars, recorder>>
  \/ recorder = "blob" /\ BlobNext /\ UNCHANGED <<cxVars, coVars, cuVars, vars, streamVars, fkVars, schemaVars, treeVars, agentVars, pgVars, recorder>>

Spec == Init /\ [][Next]_<<cxVars, coVars, cuVars, vars, streamVars, fkVars, schemaVars, treeVars, agentVars, pgVars, blobVars, recorder>>
=============================================================================
