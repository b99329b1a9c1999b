------------------------------ MODULE MCTools ------------------------------
(* The tools of the MCP server, its language server client and the searches of graphs,
   which do not share state, in one run: a behaviour is one of one part, and the others
   stay where they begin. *)
EXTENDS LspClient, McpServer, BoundedRead, VcsDiff, SearchFiles, GraphViews, ImpactReach

CONSTANTS q1, d1, ts, c1, c2, c3

VARIABLE part

allVars == <<part, lspVars, mcpVars, readVars, vcsVars, searchVars, graphVars, impactVars>>
Parts == {"lsp", "mcp", "read", "vcs", "search", "graph", "impact"}

(* One of the initial states of a part stands for it while another one runs. *)
NoText == text = [encoding |-> [unit |-> 1, bom |-> 0], chars |-> <<>>, marks |-> {}] /\ window = 1
NoSearch == pattern = [empty |-> FALSE, unended |-> FALSE] /\ files = <<>>
NoRows == rows = [items |-> {}, dependencies |-> {}, intents |-> {}, sessions |-> {}]
NoGraph == graph = [edges |-> {}, targets |-> {}, others |-> {}]

ToolsInit ==
    /\ part \in Parts
    /\ LspInit /\ VcsInit
    /\ part = "mcp" \/ mcp = [trusted |-> FALSE, coordination |-> FALSE, evaluation |-> FALSE]
    /\ McpInit
    /\ part = "read" \/ NoText
    /\ TextInit
    /\ part = "search" \/ NoSearch
    /\ SearchInit
    /\ part = "graph" \/ NoRows
    /\ GraphInit
    /\ part = "impact" \/ NoGraph
    /\ ImpactInit

LspStep == part = "lsp" /\ LspNext
           /\ UNCHANGED <<part, mcpVars, readVars, vcsVars, searchVars, graphVars, impactVars>>
ServerStep == part = "mcp" /\ McpNext
           /\ UNCHANGED <<part, lspVars, readVars, vcsVars, searchVars, graphVars, impactVars>>
ReadStep == part = "read" /\ ReadNext
           /\ UNCHANGED <<part, lspVars, mcpVars, vcsVars, searchVars, graphVars, impactVars>>
VcsStep == part = "vcs" /\ VcsNext
           /\ UNCHANGED <<part, lspVars, mcpVars, readVars, searchVars, graphVars, impactVars>>
SearchStep == part = "search" /\ SearchNext
           /\ UNCHANGED <<part, lspVars, mcpVars, readVars, vcsVars, graphVars, impactVars>>
GraphStep == part = "graph" /\ GraphNext
           /\ UNCHANGED <<part, lspVars, mcpVars, readVars, vcsVars, searchVars, impactVars>>
ImpactStep == part = "impact" /\ ImpactNext
           /\ UNCHANGED <<part, lspVars, mcpVars, readVars, vcsVars, searchVars, graphVars>>
ToolsNext == LspStep \/ ServerStep \/ ReadStep \/ VcsStep \/ SearchStep \/ GraphStep \/ ImpactStep

(* The fairness of the parts: LspTimers, and McpStep of every call. *)
LspWork == part = "lsp" /\ LspTimers /\ UNCHANGED part
ServerWork(k) == part = "mcp" /\ McpStep(k) /\ UNCHANGED part
ToolsSpec ==
    /\ ToolsInit /\ [][ToolsNext]_allVars
    /\ WF_lspVars(LspWork) /\ \A k \in ToolCalls : WF_mcpVars(ServerWork(k))

(* The types of all parts. *)
ToolsTypesOK ==
    /\ LspTypeOK /\ McpTypeOK /\ ReadTypeOK /\ VcsTypeOK /\ SearchTypeOK /\ GraphTypeOK /\ ImpactTypeOK

(* What a call is answered is its own: a language server's answer is to the request of the query,
   which was sent after its document was opened, and the slots of the tool calls are those of the
   calls that run. *)
AnswersFit == AnswersAreOwn /\ QueriesFollowOpen /\ SlotsAreCounted

(* The answers about files: the windows of a file are the file, but for U+FEFF and for characters
   wider than a window; the matches are those of the files that could be read; a diff is shown
   whole or is whole in its artifact. *)
AnswersAreWhole == PagesAreTheFile /\ MatchesAreTheirs /\ DiffIsWhole /\ ArtifactIsWhole

(* An expansion that is not truncated is the whole graph, and a degraded one means a node the bounded
   snapshot lacks; an impact that is not truncated is whole up to its depth, which is no promise
   about what lies further away. *)
ViewsAreHonest == ExpansionIsHonest /\ ImpactIsWhole

MCDocument == [k \in Queries |-> ts]
MCToolOf == [k \in ToolCalls |-> CASE k = c1 -> "fs_write" [] k = c2 -> "coord_sync" [] k = c3 -> "coord_claim"]
MCLineKinds == {[bytes |-> 2, hit |-> TRUE], [bytes |-> 2, hit |-> FALSE], [bytes |-> 4, hit |-> TRUE]}
MCAgents == <<"agent:a">>
MCIntents == <<"intent:i">>
MCItems == <<"work:1", "work:2", "work:3">>
MCPairs == {<<"work:1", "work:2">>, <<"work:2", "work:3">>, <<"work:3", "work:2">>}
MCEdges ==
    {[from |-> "a", to |-> "b", kind |-> "contains"], [from |-> "c", to |-> "b", kind |-> "calls"],
     [from |-> "d", to |-> "c", kind |-> "imports"], [from |-> "d", to |-> "a", kind |-> "calls"],
     [from |-> "d", to |-> "c", kind |-> "calls"]}
=============================================================================
