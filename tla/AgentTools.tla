----------------------------- MODULE AgentTools -----------------------------
(***************************************************************************)
(* Which tools an agent works with.                                        *)
(*                                                                         *)
(* Discovery stores what each MCP server offers.  An administrator assigns *)
(* some of it to an agent, and every assignment is checked against what    *)
(* was discovered (AgentService).  An execution starts from the            *)
(* assignments it read with the agent, keeps those whose NAME is in the    *)
(* tenant's tool list (UnifiedToolService, cached for 60 s in each child   *)
(* process and never invalidated), reads which servers are active, and     *)
(* opens a session with one of them (MCPToolBridge): get_langchain_tools   *)
(* returns from inside its loop, so only the first server that has an      *)
(* assignment is ever loaded.                                              *)
(*                                                                         *)
(* One agent, and one child process of the workers, which executes it any  *)
(* number of times; another child has a cache of its own.                  *)
(***************************************************************************)
EXTENDS Naturals, FiniteSets

CONSTANTS
    Servers,     \* MCP servers of the tenant
    Remote,      \* of these, with transport http_sse: the bridge only speaks stdio
    Names,       \* names of tools, resources and prompts
    OpenApi,     \* names of the tenant's active OpenAPI tools
    Catalogue,   \* what the servers may ever offer
    Malformed,   \* of these, what the tool list cannot hold: UnifiedTool refuses it
                 \* (a description that is null), or a key it reads is missing
    MaxChanges   \* bound: changes of servers, their offers and the assignments

Assignment == [server : Servers, name : Names, kind : {"tool", "resource", "prompt"}]

ASSUME AgentToolsAssumption ==
    /\ Remote \subseteq Servers
    /\ OpenApi \subseteq Names
    /\ Catalogue \subseteq Assignment
    /\ Malformed \subseteq Catalogue
    /\ MaxChanges \in Nat

VARIABLES
    status,    \* status[s]: "active"; "down" (inactive or error); "gone": deleted
    found,     \* the rows' discovered_tools, _resources and _prompts
    offers,    \* what the servers offer at present
    assigned,  \* agents.assigned_mcp_tools
    changes,   \* changes so far
    cached,    \* _cache has a list for the tenant
    list,      \* the names in that list
    pc,        \* where the execution stands
    mine,      \* the assignments it has read
    wanted,    \* unified_tools: those that passed the filter
    servers,   \* mcp_servers: those it found active
    loaded,    \* the tools the agent works with
    outdated,  \* history: a row has changed since the list was last made, or tried
    wasUp      \* history: servers that were active during the execution

rowVars == <<status, found>>
worldVars == <<rowVars, offers, assigned, changes>>
cacheVars == <<cached, list>>
executionVars == <<pc, mine, wanted, servers, loaded>>
vars == <<worldVars, cacheVars, executionVars, outdated, wasUp>>

\* "done": tools were loaded, if any were wanted; "bare": loading failed, and the
\* agent works without tools; "failed": AgentExecutionError; "unlisted": the same,
\* because the tool list cannot be made.
Endings == {"done", "bare", "failed", "unlisted"}

TypeOK ==
    /\ status \in [Servers -> {"active", "down", "gone"}]
    /\ found \subseteq Catalogue
    /\ offers \subseteq Catalogue
    /\ assigned \subseteq Catalogue
    /\ changes \in Nat
    /\ cached \in BOOLEAN /\ list \subseteq Names
    /\ pc \in {"idle", "filter", "select", "load"} \cup Endings
    /\ loaded \subseteq wanted /\ wanted \subseteq mine /\ mine \subseteq Catalogue
    /\ servers \subseteq Servers
    /\ outdated \in BOOLEAN
    /\ wasUp \subseteq Servers

Init ==
    /\ status = [s \in Servers |-> "down"]
    /\ found = {}
    /\ offers = Catalogue
    /\ assigned = {}
    /\ changes = 0
    /\ cached = FALSE /\ list = {}
    /\ pc = "idle"
    /\ mine = {} /\ wanted = {} /\ servers = {} /\ loaded = {}
    /\ outdated = FALSE
    /\ wasUp = {}

Active == {s \in Servers : status[s] = "active"}
Of(set, s) == {a \in set : a.server = s}

-----------------------------------------------------------------------------
(* Servers and the API.                                                    *)

Change ==
    /\ changes < MaxChanges
    /\ changes' = changes + 1

\* A new version of a server offers one thing more or less.
Redeploy(a) ==
    /\ Change
    /\ offers' = IF a \in offers THEN offers \ {a} ELSE offers \cup {a}
    /\ UNCHANGED <<rowVars, assigned, cacheVars, executionVars, outdated, wasUp>>

Rows(newStatus, newFound) ==
    /\ Change
    /\ status' = newStatus
    /\ found' = newFound
    /\ outdated' = TRUE
    /\ wasUp' = wasUp \cup {s \in Servers : newStatus[s] = "active"}
    /\ UNCHANGED <<offers, assigned, cacheVars, executionVars>>

\* discover_capabilities, on request and when a server is created: all three
\* lists are stored, or the status becomes error and the lists stay.
Discover(s) ==
    /\ status[s] # "gone"
    /\ \/ Rows([status EXCEPT ![s] = "active"], (found \ Of(found, s)) \cup Of(offers, s))
       \/ Rows([status EXCEPT ![s] = "down"], found)

\* A check of the server's health: see module McpServerHealth.
CheckHealth(s) ==
    /\ status[s] # "gone"
    /\ \E outcome \in {"active", "down"} : Rows([status EXCEPT ![s] = outcome], found)

\* delete_server is a hard delete; nothing removes assignments to the server.
DeleteServer(s) ==
    /\ status[s] # "gone"
    /\ Rows([status EXCEPT ![s] = "gone"], found \ Of(found, s))

\* create_agent and update_agent: every assignment names an active server and
\* something discovered there.  (What changes between this check and the commit
\* has the effect of a change after it.  An update with an empty list sets an
\* attribute that is no column: the assignments stay.)
Assign(new) ==
    /\ Change
    /\ new # {}
    /\ \A a \in new : status[a.server] = "active" /\ a \in found
    /\ assigned' = new
    /\ UNCHANGED <<rowVars, offers, cacheVars, executionVars, outdated, wasUp>>

-----------------------------------------------------------------------------
(* An execution in the child process.                                      *)

Goto(step) == pc' = step

\* The row of the agent is loaded once: the session hands out the same object
\* to every later query of the task.
Begin ==
    /\ pc = "idle"
    /\ Goto("filter")
    /\ mine' = assigned
    /\ wasUp' = Active
    /\ UNCHANGED <<worldVars, cacheVars, wanted, servers, loaded, outdated>>

\* What the active servers put on the list.
Listed == {a \in found : status[a.server] = "active"}

\* list_tools on a miss.  A tool of the same name as an earlier one is renamed,
\* which leaves the name in the list; a resource is listed under
\* "resource://<uri>", which is not the name it was discovered under.
ToolList ==
    OpenApi \cup {a.name : a \in {b \in Listed : b.kind # "resource"}}

NeedsNewList == mine # {} /\ ~cached

\* Broken variant of Filter: the list is made of all servers, whatever their
\* status.
FilterAllServers ==
    /\ pc = "filter"
    /\ Goto("select")
    /\ IF mine = {}
       THEN UNCHANGED <<cacheVars, wanted, outdated>>
       ELSE /\ cached' = TRUE
            /\ list' = IF ~cached THEN {a.name : a \in found} \cup OpenApi ELSE list
            /\ outdated' = (cached /\ outdated)
            /\ wanted' = {a \in mine : a.name \in list'}
    /\ UNCHANGED <<worldVars, mine, servers, loaded, wasUp>>

\* get_agent_tools: assignments are kept by name alone.
Filter ==
    /\ pc = "filter"
    /\ NeedsNewList => Listed \cap Malformed = {}
    /\ Goto("select")
    /\ IF mine = {}
       THEN UNCHANGED <<cacheVars, wanted, outdated>>
       ELSE /\ cached' = TRUE
            /\ list' = IF ~cached THEN ToolList ELSE list
            /\ outdated' = (cached /\ outdated)
            /\ wanted' = {a \in mine : a.name \in list'}
    /\ UNCHANGED <<worldVars, mine, servers, loaded, wasUp>>

\* One thing that cannot be listed, of whatever server, and nothing is: the
\* exception leaves list_tools, get_agent_tools and execute_agent.
FilterFails ==
    /\ pc = "filter"
    /\ NeedsNewList /\ Listed \cap Malformed # {}
    /\ Goto("unlisted")
    /\ outdated' = FALSE
    /\ UNCHANGED <<worldVars, cacheVars, mine, wanted, servers, loaded, wasUp>>

\* Broken variant of Select: the servers are those the assignments name.
SelectAssigned ==
    /\ pc = "select"
    /\ servers' = {a.server : a \in wanted}
    /\ Goto("load")
    /\ UNCHANGED <<worldVars, cacheVars, mine, wanted, loaded, outdated, wasUp>>

\* execute_agent reads the active servers from the database.
Select ==
    /\ pc = "select"
    /\ servers' = Active
    /\ Goto("load")
    /\ UNCHANGED <<worldVars, cacheVars, mine, wanted, loaded, outdated, wasUp>>

\* The session with server s: its tools of the assigned names, and a wrapper for
\* every assigned resource and prompt, whether the server has it or not.
SessionOf(s) == {a \in Of(wanted, s) : a.kind = "tool" => a \in offers}

\* Broken variant of Load: an assignment whose server is not there is an error.
LoadStrict ==
    /\ pc = "load"
    /\ \/ /\ wanted = {} \/ servers = {}
          /\ Goto("done")
          /\ UNCHANGED loaded
       \/ \E s \in servers :
            /\ Of(wanted, s) # {}
            /\ s \notin Remote
            /\ Goto("done")
            /\ loaded' = SessionOf(s)
       \/ /\ wanted # {} /\ servers # {}
          /\ \E a \in wanted : a.server \notin servers
          /\ Goto("failed")
          /\ UNCHANGED loaded
    /\ UNCHANGED <<worldVars, cacheVars, mine, wanted, servers, outdated, wasUp>>

\* convert_tools_to_langchain.
Load ==
    /\ pc = "load"
    /\ \/ /\ wanted = {} \/ servers = {}
          /\ Goto("done")
          /\ UNCHANGED loaded
       \/ \E s \in servers :
            /\ Of(wanted, s) # {}
            /\ \/ s \notin Remote /\ Goto("done") /\ loaded' = SessionOf(s)
               \/ Goto("bare") /\ UNCHANGED loaded
       \/ \* the loop ends without its return: extend(None) raises
          /\ wanted # {} /\ servers # {}
          /\ \A s \in servers : Of(wanted, s) = {}
          /\ Goto("failed")
          /\ UNCHANGED loaded
    /\ UNCHANGED <<worldVars, cacheVars, mine, wanted, servers, outdated, wasUp>>

\* Broken variant of Finish: the tools stay where the next execution finds them.
FinishKeepingTools ==
    /\ pc \in Endings
    /\ Goto("idle")
    /\ mine' = {} /\ wanted' = {} /\ servers' = {}
    /\ wasUp' = {}
    /\ UNCHANGED <<worldVars, cacheVars, loaded, outdated>>

\* The agent has done its work; the task ends and forgets all this.
Finish ==
    /\ pc \in Endings
    /\ Goto("idle")
    /\ mine' = {} /\ wanted' = {} /\ servers' = {} /\ loaded' = {}
    /\ wasUp' = {}
    /\ UNCHANGED <<worldVars, cacheVars, outdated>>

\* Broken variant of Expire: only a list that is empty runs out.
ExpireEmpty ==
    /\ cached /\ list = {}
    /\ cached' = FALSE
    /\ UNCHANGED list
    /\ UNCHANGED <<worldVars, executionVars, outdated, wasUp>>

\* 60 seconds after the list was made.
Expire ==
    /\ cached
    /\ cached' = FALSE /\ list' = {}
    /\ UNCHANGED <<worldVars, executionVars, outdated, wasUp>>

World ==
    \/ \E a \in Catalogue : Redeploy(a)
    \/ \E s \in Servers : Discover(s) \/ CheckHealth(s) \/ DeleteServer(s)
    \/ \E new \in SUBSET Catalogue : Assign(new)

Execute == Begin \/ Filter \/ FilterFails \/ Select \/ Load \/ Finish

Next == World \/ Execute \/ Expire

Spec == Init /\ [][Next]_vars

\* Time passes, and an execution goes on: its waits have timeouts.  Nothing is
\* assumed of servers, users, or of executions being asked for.
FairSpec == Spec /\ WF_vars(Expire) /\ WF_vars(Filter \/ FilterFails \/ Select \/ Load \/ Finish)

-----------------------------------------------------------------------------
(* Properties.                                                             *)

Available(a) == status[a.server] = "active" /\ a \in found
SharedName(a) ==
    \/ a.name \in OpenApi
    \/ \E b \in Catalogue : b.name = a.name /\ b # a

\* The filter by name is as good as a look at the assignment's own server, unless
\* a row has changed since the list was made, or the name is used twice: nothing
\* available is left out (resources excepted), nothing unavailable is let in
\* (get_agent_tools, after list_tools).
FilterIsExact ==
    pc \notin {"idle", "filter", "unlisted"} /\ ~outdated =>
        \A a \in mine :
            /\ Available(a) /\ a.kind # "resource" => a \in wanted
            /\ a \in wanted => Available(a) \/ SharedName(a)

\* Every tool an agent works with is of a server that was active at some time
\* while the agent was executed, although the list that let it pass may be 60
\* seconds older (execute_agent reads the servers anew).
ToolsOfLiveServers == \A a \in loaded : a.server \in wasUp

\* An execution fails for want of a server only if a row has changed since the
\* list was made or all the names it wanted are used twice: an agent does not
\* answer with an error for a tool that was not there to begin with
\* (convert_tools_to_langchain, extend(None)).  And it fails for want of a list
\* only if some active server, whether the agent uses it or not, has something
\* that cannot be listed.
FailureHasCause ==
    ~outdated =>
        /\ pc = "failed" => \A a \in wanted : SharedName(a)
        /\ pc = "unlisted" => Listed \cap Malformed # {}

Sound(a) ==
    /\ a \in assigned
    /\ Available(a) /\ a \in offers
    /\ a.kind # "resource" /\ a.server \notin Remote
    /\ assigned = Of(assigned, a.server)
    /\ Listed \cap Malformed = {}

\* An assignment that stays sound, with all the others on the same server and
\* nothing on the list that cannot be there, reaches the agent from some time on in every execution that can load anything:
\* a stale list is not kept for ever (the TTL is the only thing that ends it).
SoundToolsArrive ==
    \A a \in Catalogue : <>[]Sound(a) => <>[](pc = "done" => a \in loaded)

=============================================================================
