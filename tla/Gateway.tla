------------------------------ MODULE Gateway ------------------------------
(***************************************************************************)
(* The FastAPI and FastMCP workers (fastapi_worker.py, fastmcp_worker.py): *)
(* a thread asks the broker for services and their workers for tasks, in a *)
(* few rounds, and discover jobs do the same at any time; what they find   *)
(* becomes routes, or tools and prompts, and requests over HTTP become     *)
(* jobs, one at a time, since the server waits for each in its event loop. *)
(***************************************************************************)
EXTENDS Naturals, Sequences, FiniteSets, SequencesExt, Functions

CONSTANTS
  ServiceOf,    \* of each worker that may register with the broker: its service
  TasksOf,      \* of each service: its tasks in the order that list_tasks tells
  TaskGuards,   \* of each task: its guards before a call and on its result
  McpInventory, \* of FastMCP: the rules of the policy and more guards
  Secured,      \* the kinds that need a token: FastAPI does, FastMCP may
  Tokens, Users,
  Arguments,    \* what a request may carry
  None,
  Scenes        \* how it may begin: the workers, the tokens that are left on disk, and
                \* the bounds: the HTTP requests, of each finder its rounds and the
                \* services it is for, and how many faults, comings, edits and exits

VARIABLES
  kind,         \* "api" or "mcp", it never changes
  workers,      \* those that are registered with the broker
  exit_event,
  published,    \* what may be called: of each service, the names of tasks
  prompts,      \* norfab_services_prompts
  finder,       \* of each finder: where it is, and what it has found
  http,         \* of each request: its state and the task it is for
  tokens,       \* the bearer tokens on disk, with the user and the tag of each
  granted,      \* history: to whom which token was last given, and not taken back
  may           \* bound: what of the scene may still happen

tables == <<published, prompts>>
access == <<tokens, granted>>
vars == <<kind, workers, exit_event, tables, finder, http, access, may>>

(* Workers offer services that have tasks, and no user is called None.     *)
GatewayIsGiven ==
  /\ IsFiniteSet(DOMAIN ServiceOf)
  /\ \A w \in DOMAIN ServiceOf : ServiceOf[w] \in DOMAIN TasksOf
  /\ \A s \in DOMAIN TasksOf : TasksOf[s] \in Seq(ToSet(TasksOf[s]))
  /\ \A scene \in Scenes : scene.workers \subseteq DOMAIN ServiceOf
  /\ None \notin Users /\ None # "call"

Finders == DOMAIN finder
HttpRequests == DOMAIN http
Nothing == [s \in {} |-> {}]
Spend(what) == may[what] > 0 /\ may' = [may EXCEPT ![what] = @ - 1]
Find(f, change) == finder' = [finder EXCEPT ![f] = change]

Init ==
  /\ kind \in {"api", "mcp"}
  /\ exit_event = FALSE
  /\ published = Nothing /\ prompts = Nothing
  /\ \E scene \in Scenes :
       /\ finder = [f \in DOMAIN scene.rounds |->
            [step |-> "round", cycles |-> scene.rounds[f].cycles, for |-> scene.rounds[f].services,
             todo |-> <<>>, tasks |-> <<>>, result |-> Nothing, prompts |-> Nothing]]
       /\ workers = scene.workers /\ tokens = scene.tokens /\ may = scene.may
       /\ http = [r \in scene.requests |-> [state |-> "idle", to |-> None, service |-> None, task |-> None, delivered |-> None]]
  /\ granted = {<<t, tokens[t].tag>> : t \in DOMAIN tokens}

-----------------------------------------------------------------------------
(***************************************************************************)
(* service_tasks_api_discovery and service_tasks_discovery.  An exception  *)
(* ends the round; what the round had found so far is kept.                *)
(***************************************************************************)
RoundEnds(me) == [me EXCEPT !.step = "round", !.cycles = @ - 1, !.todo = <<>>, !.tasks = <<>>]

FinderEnds(f) ==
  /\ finder[f].step = "round" /\ (exit_event \/ finder[f].cycles = 0)
  /\ Find(f, [finder[f] EXCEPT !.step = "over"])
  /\ UNCHANGED <<kind, workers, exit_event, tables, http, access, may>>

(* A row for each worker, so that a service with two is asked twice.       *)
ShowWorkers(f) ==
  LET rows == {w \in workers : ServiceOf[w] \in finder[f].for}
  IN  /\ finder[f].step = "round" /\ ~exit_event /\ finder[f].cycles > 0
      /\ \/ /\ \E order \in SetToSeqs(rows) :
                 Find(f, [finder[f] EXCEPT !.step = "ask", !.todo = [i \in DOMAIN order |-> ServiceOf[order[i]]]])
            /\ UNCHANGED may
         \/ Spend("faults") /\ Find(f, RoundEnds(finder[f]))
      /\ UNCHANGED <<kind, workers, exit_event, tables, http, access>>

(* list_tasks of any worker, for a service without a result: no answer in  *)
(* three seconds leaves it for the next round, an answer without a result  *)
(* raises.                                                                 *)
Present(service) == \E w \in workers : ServiceOf[w] = service
ListTasks(f) ==
  LET me == finder[f]
      service == Head(me.todo)
      found == [i \in DOMAIN TasksOf[service] |-> [service |-> service, task |-> TasksOf[service][i]]]
      later == [me EXCEPT !.todo = Tail(@)]
  IN  /\ me.step = "ask" /\ me.todo # <<>>
      /\ \/ service \in DOMAIN me.result /\ Find(f, later) /\ UNCHANGED may
         \/ /\ service \notin DOMAIN me.result
            /\ \/ Find(f, IF Present(service) THEN [later EXCEPT !.tasks = @ \o found] ELSE later) /\ UNCHANGED may
               \/ Spend("faults") /\ (Find(f, later) \/ Find(f, RoundEnds(me)))
      /\ UNCHANGED <<kind, workers, exit_event, tables, http, access>>
AllAsked(f) ==
  /\ finder[f].step = "ask" /\ finder[f].todo = <<>>
  /\ Find(f, [finder[f] EXCEPT !.step = "make"])
  /\ UNCHANGED <<kind, workers, exit_event, tables, http, access, may>>

(* A table of names by service, with room for a service or more for it.    *)
Names(table, s) == IF s \in DOMAIN table THEN table[s] ELSE {}
Adding(table, s, more) ==
  [t \in DOMAIN table \cup {s} |-> IF t = s THEN Names(table, s) \cup more ELSE table[t]]

Makes(f) == finder[f].step = "make" /\ finder[f].tasks # <<>>
ServiceAt(f) == Head(finder[f].tasks).service
TaskAt(f) == Head(finder[f].tasks).task
Leave(me) == [me EXCEPT !.tasks = Tail(@)]

(* A route can be called at once, and whoever has made it, it is not made  *)
(* again; a bad schema raises.                                             *)
MakeRoute(f) ==
  LET s == ServiceAt(f)
      task == TaskAt(f)
      name == task.name
      room == [finder[f] EXCEPT !.result = Adding(@, s, {})]
  IN  /\ kind = "api" /\ Makes(f)
      /\ \/ ~task.published.api /\ Find(f, Leave(finder[f])) /\ UNCHANGED published
         \/ task.published.api /\ name \in Names(published, s) /\ Find(f, Leave(room)) /\ UNCHANGED published
         \/ /\ task.published.api /\ name \notin Names(published, s) /\ "schema" \in task.flaws
            /\ Find(f, RoundEnds(room)) /\ UNCHANGED published
         \/ /\ task.published.api /\ name \notin Names(published, s) /\ "schema" \notin task.flaws
            /\ Find(f, [Leave(room) EXCEPT !.result = Adding(@, s, {name})])
            /\ published' = Adding(published, s, {name})
      /\ UNCHANGED <<kind, workers, exit_event, prompts, http, access, may>>

(* is_task_allowed_by_policy: the first rule that fits decides.            *)
Fits(s, name) ==
  {i \in DOMAIN McpInventory.policy : s \in McpInventory.policy[i].services /\ name \in McpInventory.policy[i].tasks}
Allowed(s, name) ==
  \A i \in Fits(s, name) :
    McpInventory.policy[i].action = "reject" => \E j \in Fits(s, name) : j < i

(* FastMCP leaves out what the policy rejects; a bad guardrail raises      *)
(* before there is room for the service, a bad tool is only left out, and  *)
(* a bad prompt, the last that a task tells, raises after its tool.        *)
Hidden(s, task) == IF kind = "api" THEN ~task.published.api ELSE ~task.published.mcp \/ ~Allowed(s, task.name)
Tools(task) == IF kind = "mcp" /\ "tool" \in task.flaws THEN {} ELSE {task.name}
Prompts(task) == ToSet(IF "prompt" \in task.flaws THEN Front(task.prompts) ELSE task.prompts)
MakeTool(f) ==
  LET s == ServiceAt(f)
      task == TaskAt(f)
      made == [finder[f] EXCEPT !.result = Adding(@, s, Tools(task)), !.prompts = Adding(@, s, Prompts(task))]
  IN  /\ kind = "mcp" /\ Makes(f)
      /\ \/ Hidden(s, task) /\ Find(f, Leave(finder[f]))
         \/ ~Hidden(s, task) /\ "guardrail" \in task.flaws /\ Find(f, RoundEnds(finder[f]))
         \/ /\ ~Hidden(s, task) /\ "guardrail" \notin task.flaws
            /\ Find(f, IF "prompt" \in task.flaws THEN RoundEnds(made) ELSE Leave(made))
      /\ UNCHANGED <<kind, workers, exit_event, tables, http, access, may>>

(* The tables of FastMCP are updated with all that the finder ever made.   *)
Assigned(table, new) == new    \* mutant: assigned, not updated
Updated(table, new) ==
  [s \in DOMAIN table \cup DOMAIN new |-> IF s \in DOMAIN new THEN new[s] ELSE table[s]]
AllMade(f) ==
  /\ finder[f].step = "make" /\ finder[f].tasks = <<>>
  /\ \/ kind = "api" /\ Find(f, RoundEnds(finder[f])) /\ UNCHANGED published
     \/ /\ kind = "mcp"
        /\ Find(f, [finder[f] EXCEPT !.step = "save prompts"])
        /\ published' = Updated(published, finder[f].result)
  /\ UNCHANGED <<kind, workers, exit_event, prompts, http, access, may>>
SavePrompts(f) ==
  /\ finder[f].step = "save prompts"
  /\ Find(f, RoundEnds(finder[f]))
  /\ prompts' = Updated(prompts, finder[f].prompts)
  /\ UNCHANGED <<kind, workers, exit_event, published, http, access, may>>

-----------------------------------------------------------------------------
(***************************************************************************)
(* bearer_token_store, which keeps the user of a token it has and changes  *)
(* the tag, and bearer_token_delete, of one token or of a tag.             *)
(***************************************************************************)
EditTokens == Spend("edits") /\ UNCHANGED <<kind, workers, exit_event, tables, finder, http>>
Entry(t, u, timed) ==
  [user |-> IF t \in DOMAIN tokens THEN tokens[t].user ELSE u, tag |-> u, timed |-> timed]
BearerTokenStore(t, u, timed) ==
  /\ EditTokens
  /\ tokens' = [k \in DOMAIN tokens \cup {t} |-> IF k = t THEN Entry(t, u, timed) ELSE tokens[k]]
  /\ granted' = {g \in granted : g[1] # t} \cup {<<t, u>>}
Without(gone) == [k \in DOMAIN tokens \ gone |-> tokens[k]]
BearerTokenDelete(t) ==
  /\ EditTokens
  /\ tokens' = Without({t})
  /\ granted' = {g \in granted : g[1] # t}
BearerTokensDelete(u) ==
  /\ EditTokens
  /\ tokens' = Without({k \in DOMAIN tokens : tokens[k].tag = u})
  /\ granted' = {g \in granted : g[2] # u}
TokenExpires(t) ==
  /\ EditTokens
  /\ t \in DOMAIN tokens /\ tokens[t].timed
  /\ tokens' = Without({t})
  /\ granted' = {g \in granted : g[1] # t}
BearerTokenList(u) == {t \in DOMAIN tokens : u = None \/ tokens[t].tag = u}
BearerTokenCheck(t) == t \in DOMAIN tokens

-----------------------------------------------------------------------------
(***************************************************************************)
(* A request: the endpoint of a route, or call_tool with the checks of     *)
(* get_allowed_task_call and the guards, for which the event loop waits;   *)
(* or FastAPI's /job/run, in a thread of its own and for any task; or a    *)
(* prompt of FastMCP, which needs no job.                                  *)
(***************************************************************************)
Waiting == {r \in HttpRequests : http[r].state = "runs" /\ http[r].to # "run"}
Verified(t) == kind \in Secured => BearerTokenCheck(t)
Callable(s, name) ==
  /\ name \in Names(published, s)
  /\ kind = "mcp" => Allowed(s, name)

(* make_task_guardrails and make_task_result_guardrails: those of the task *)
(* unless the inventory disables them, then those of the inventory, whose  *)
(* names are exact before a call and patterns after it.                    *)
BuiltIn(s, name, when) == IF McpInventory.disabled THEN <<>> ELSE TaskGuards[<<s, name>>][when]
GuardsBefore(s, name) ==
  BuiltIn(s, name, "before") \o SelectSeq(McpInventory.before, LAMBDA g : g.service = s /\ g.task = name)
GuardsAfter(s, name) ==
  BuiltIn(s, name, "after") \o SelectSeq(McpInventory.after, LAMBDA g : s \in g.services /\ name \in g.tasks)
Rejected(s, name, argument) ==
  kind = "mcp" /\ \E g \in ToSet(GuardsBefore(s, name)) : argument \in g.matches

Answer(r, to, s, name, state) ==
  /\ Waiting = {}
  /\ http[r].state = "idle"
  /\ http' = IF state = "refused" THEN [http EXCEPT ![r].state = state]
             ELSE [http EXCEPT ![r] = [state |-> state, to |-> to, service |-> s, task |-> name, delivered |-> None]]
  /\ UNCHANGED <<kind, workers, exit_event, tables, finder, access, may>>
Call(r, t, s, name, argument) ==
  Answer(r, "call", s, name,
    IF Verified(t) /\ Callable(s, name) /\ ~Rejected(s, name, argument) THEN "runs" ELSE "refused")
RunJob(r, t, s, name) ==
  /\ kind = "api"
  /\ Answer(r, "run", s, name, IF Verified(t) THEN "runs" ELSE "refused")
GetPrompt(r, t, s, prompt, valid) ==
  /\ kind = "mcp"
  /\ Answer(r, "prompt", s, prompt,
       IF Verified(t) /\ (\E x \in DOMAIN prompts : prompt \in prompts[x]) /\ valid THEN "done" ELSE "refused")

(* apply_task_result_guardrails, in their order: a result that is too long *)
(* ends them with a message in its place, a match is replaced, or gives    *)
(* way to a message, which the guards after that look at.                  *)
Apply(value, guard) ==
  IF value = "omitted" \/ value \notin guard.matches THEN value
  ELSE CASE guard.type = "limit" -> "omitted" [] guard.type = "replace" -> guard.by [] guard.type = "regex" -> "blocked"
Delivered(s, name, value) == FoldLeft(Apply, value, GuardsAfter(s, name))

(* Without a result there is nothing to guard; FastAPI passes results on.   *)
JobEnds(r, value) ==
  /\ http[r].state = "runs"
  /\ http' = [http EXCEPT ![r].state = "done",
                ![r].delivered = IF kind = "mcp" /\ value # None THEN Delivered(http[r].service, http[r].task, value)
                                 ELSE value]
  /\ UNCHANGED <<kind, workers, exit_event, tables, finder, access, may>>

(* Workers register with the broker and leave it; and the worker is to end. *)
WorkerComes(w) ==
  /\ Spend("comings")
  /\ workers' = IF w \in workers THEN workers \ {w} ELSE workers \cup {w}
  /\ UNCHANGED <<kind, exit_event, tables, finder, http, access>>
Exit ==
  /\ Spend("exits") /\ ~exit_event /\ exit_event' = TRUE
  /\ UNCHANGED <<kind, workers, tables, finder, http, access>>

Done ==
  /\ \A f \in Finders : finder[f].step = "over"
  /\ \A r \in HttpRequests : http[r].state \in {"done", "refused"}
  /\ UNCHANGED vars

FinderStep(f) ==
  \/ FinderEnds(f) \/ ShowWorkers(f) \/ ListTasks(f) \/ AllAsked(f)
  \/ MakeRoute(f) \/ MakeTool(f) \/ AllMade(f) \/ SavePrompts(f)
MakeRequest(r, t, s, task) ==
  \/ \E a \in Arguments : Call(r, t, s, task.name, a)
  \/ RunJob(r, t, s, task.name)
  \/ \E prompt \in ToSet(task.prompts), valid \in BOOLEAN : GetPrompt(r, t, s, prompt, valid)
Next ==
  \/ \E f \in Finders : FinderStep(f)
  \/ \E r \in HttpRequests, t \in Tokens, s \in DOMAIN TasksOf : \E task \in ToSet(TasksOf[s]) : MakeRequest(r, t, s, task)
  \/ \E r \in HttpRequests, value \in {"short", "long", None} : JobEnds(r, value)
  \/ \E t \in Tokens : \/ \E u \in Users, timed \in BOOLEAN : BearerTokenStore(t, u, timed)
                       \/ BearerTokenDelete(t) \/ TokenExpires(t)
  \/ \E u \in Users : BearerTokensDelete(u)
  \/ \E w \in DOMAIN ServiceOf : WorkerComes(w)
  \/ Exit
  \/ Done

Spec == Init /\ [][Next]_vars

-----------------------------------------------------------------------------
Shown(s) == {task \in ToSet(TasksOf[s]) : ~Hidden(s, task)}
Offered(s) == UNION {Tools(task) : task \in Shown(s)}
Raises == IF kind = "api" THEN {"schema"} ELSE {"guardrail", "prompt"}
Flawed(s) == \E task \in Shown(s) : task.flaws \cap Raises # {}

(* Whatever finders do at once, and even if workers come and go, requests  *)
(* fail and rounds end with an exception: no task that a service hides is  *)
(* published or called, but by /job/run, no prompt of it is told, and what *)
(* is published can be called.                                             *)
OnlyOffered ==
  /\ \A s \in DOMAIN published : published[s] \subseteq Offered(s)
  /\ \A s \in DOMAIN prompts : prompts[s] \subseteq UNION {Prompts(task) : task \in Shown(s)}
  /\ \A s \in DOMAIN published : \A name \in published[s] : Callable(s, name)
  /\ \A r \in HttpRequests : http[r].to = "call" => http[r].task \in Offered(http[r].service)

(* A service that a finder has done with in a round, and does not ask      *)
(* again, can be called with all its tasks and tells all its prompts; a    *)
(* service with a task that raises apart, and in FastMCP all that a finder *)
(* for such a service has found.                                           *)
FoundIsPublished ==
  \A f \in Finders : \A s \in DOMAIN finder[f].result :
    finder[f].step \in {"round", "over"} /\ (\A x \in IF kind = "api" THEN {s} ELSE finder[f].for : ~Flawed(x))
    => /\ Offered(s) \subseteq Names(published, s)
       /\ kind = "mcp" => UNION {Prompts(task) : task \in Shown(s)} \subseteq Names(prompts, s)

(* The guards of the inventory have the last word on a result.              *)
NothingBlockedIsDelivered ==
  kind = "mcp" => \A r \in HttpRequests : http[r].delivered # None =>
    \A g \in ToSet(McpInventory.after) :
      http[r].service \in g.services /\ http[r].task \in g.tasks => http[r].delivered \notin g.matches

(* A token opens the gateway exactly while it is given to someone: deleting *)
(* the tokens of a user takes back those last stored for that user and no   *)
(* other, and the list of a user's tokens tells just these.                 *)
TokensAsGranted ==
  /\ \A t \in Tokens : BearerTokenCheck(t) <=> \E g \in granted : g[1] = t
  /\ \A u \in Users : BearerTokenList(u) = {g[1] : g \in {x \in granted : x[2] = u}}
=============================================================================
