---------------------------- MODULE SiteConnection ----------------------------
(***************************************************************************)
(* The MCP connections of MCP Orchestrator (app/mcp_manager.py).  Every    *)
(* site has a connection loop that opens a session, reads the tool         *)
(* catalog, lists the site in _servers, caches its entities and waits; a   *)
(* lost connection clears the site and is tried again.  Meanwhile the tool *)
(* calls of chat requests (call_tool) use the site: they refresh its       *)
(* entities, or call a tool, and read the catalog again when the site says *)
(* that the tool does not exist.                                           *)
(*                                                                         *)
(* asyncio code is not interrupted between awaits, so an action is what    *)
(* runs from one await to the next.  An answer arrives in two steps: the   *)
(* site answers, which needs the connection, and the process resumes,      *)
(* which does not; between them the connection loop may clear the site.    *)
(* Both kinds of process share _refresh_tool_catalog and _fetch_entities.  *)
(*                                                                         *)
(* A catalog is a version of the site's tools, and a tool has another name *)
(* in every version (so that an old name is unknown to the site).          *)
(***************************************************************************)
EXTENDS Naturals, FiniteSets

CONSTANTS
    Sites,         \* configured servers, with different names
    Tasks,         \* tool tasks of chat requests, one call each
    Versions,      \* the versions of a site's tools
    LiveVersions,  \* those that have a GetLiveContext tool
    MaxChanges,    \* bound: changes of the tools
    MaxFaults,     \* bound: lost connections and failed attempts
    NoOne          \* nobody holds the lock

Procs == Sites \cup Tasks

ASSUME ProcsAssumption == Sites \cap Tasks = {} /\ NoOne \notin Procs
ASSUME VersionAssumption == LiveVersions \subseteq Versions /\ Versions \subseteq Nat \ {0}
ASSUME BoundAssumption == MaxChanges \in Nat /\ MaxFaults \in Nat

VARIABLES
    session,    \* server.session: the number of the session, 0 for None
    catalog,    \* server.tools: the session they were read in, and their version
    entities,   \* server.entities: the session they were read in, 0 for []
    servers,    \* manager._servers
    ready,      \* sites whose ready event is set
    made,       \* sessions of the site so far
    alive,      \* the connection of the last session is up
    remote,     \* the version of the tools that the site has now
    toolLock,   \* server.tool_refresh_lock
    entityLock, \* server.entity_refresh_lock
    pc,         \* the await a process is at
    goal,       \* what a process reads the catalog for
    used,       \* the session of the call a process waits for
    asked,      \* the version of the tool's name in its last call
    again,      \* that call was the one retry
    reply,      \* the answer to the call, not yet seen by the process
    at,         \* the site of a task
    executed,   \* executions of a task's tool at the site
    shutdown,   \* manager._shutdown_event
    faults, changes

siteVars == <<session, catalog, entities, servers, ready>>
outside == <<made, alive, remote, at, executed, shutdown, faults, changes>>
locks == <<toolLock, entityLock>>
callVars == <<used, asked, again, reply>>
vars == <<siteVars, outside, locks, pc, goal, callVars>>

None == 0   \* no version
NoCatalog == [from |-> 0, version |-> None]
NoReply == [kind |-> "none", version |-> None]
Waiting == {"listing", "fetching", "calling"}
Connected == {"lockTools", "listing", "fetching", "up"}   \* inside the loop's async with
LoopSteps == Connected \cup {"opening", "delay", "stopped"}
TaskSteps == Waiting \cup {"idle", "lockEntities", "lockTools", "done"}
Goals == {"register", "refetch", "recall"}

Init ==
    /\ session = [s \in Sites |-> 0]
    /\ catalog = [s \in Sites |-> NoCatalog]
    /\ entities = [s \in Sites |-> 0]
    /\ servers = {} /\ ready = {}
    /\ made = [s \in Sites |-> 0]
    /\ alive = [s \in Sites |-> FALSE]
    /\ remote \in [Sites -> Versions]
    /\ toolLock = [s \in Sites |-> NoOne]
    /\ entityLock = [s \in Sites |-> NoOne]
    /\ pc = [p \in Procs |-> IF p \in Sites THEN "opening" ELSE "idle"]
    /\ goal = [p \in Procs |-> "register"]
    /\ used = [p \in Procs |-> 0]
    /\ asked = [p \in Procs |-> None]
    /\ again = [p \in Procs |-> FALSE]
    /\ reply = [p \in Procs |-> NoReply]
    /\ at \in [Tasks -> Sites]
    /\ executed = [t \in Tasks |-> 0]
    /\ shutdown = FALSE /\ faults = 0 /\ changes = 0

Site(p) == IF p \in Sites THEN p ELSE at[p]
Fault == faults < MaxFaults /\ faults' = faults + 1

-----------------------------------------------------------------------------
(* What a process does between two awaits. *)

Release(lock, p) == [s \in Sites |-> IF lock[s] = p THEN NoOne ELSE lock[s]]

(* Send a call in session n and wait for the answer *)
Send(p, step, n, name, retry) ==
    /\ pc' = [pc EXCEPT ![p] = step]
    /\ used' = [used EXCEPT ![p] = n]
    /\ asked' = [asked EXCEPT ![p] = name]
    /\ again' = [again EXCEPT ![p] = retry]
    /\ reply' = [reply EXCEPT ![p] = NoReply]

(* Go on without a call under way *)
Go(p, step) ==
    /\ pc' = [pc EXCEPT ![p] = step]
    /\ reply' = [reply EXCEPT ![p] = NoReply]
    /\ UNCHANGED <<used, asked, again>>

EndTaskLocked(t) ==
    /\ Go(t, "done")
    /\ entityLock' = Release(entityLock, t)
    /\ UNCHANGED <<toolLock, goal>>

(* A task's call returns, raises or is cancelled: async with releases the  *)
(* locks that it holds.                                                    *)
EndTask(t) ==
    /\ Go(t, "done")
    /\ toolLock' = Release(toolLock, t)
    /\ entityLock' = Release(entityLock, t)
    /\ UNCHANGED goal

ClearListed(s) ==
    /\ session' = [session EXCEPT ![s] = 0]
    /\ catalog' = [catalog EXCEPT ![s] = NoCatalog]
    /\ entities' = [entities EXCEPT ![s] = 0]
    /\ UNCHANGED servers

(* except BaseException: the site is cleared and unlisted, ...             *)
Clear(s) ==
    /\ session' = [session EXCEPT ![s] = 0]
    /\ catalog' = [catalog EXCEPT ![s] = NoCatalog]
    /\ entities' = [entities EXCEPT ![s] = 0]
    /\ servers' = servers \ {s}

(* ... startup is not blocked any longer, and the retry delay begins       *)
LoopFails(s) ==
    /\ Clear(s)
    /\ ready' = ready \cup {s}
    /\ Go(s, "delay")
    /\ toolLock' = Release(toolLock, s)
    /\ UNCHANGED <<goal, entityLock>>

(* _refresh_tool_catalog up to its first await: a free lock is taken at    *)
(* once, for another one the process waits.  n is the session it finds.    *)
Refresh(p, why, n) ==
    /\ goal' = [goal EXCEPT ![p] = why]
    /\ IF toolLock[Site(p)] = NoOne
       THEN /\ toolLock' = [toolLock EXCEPT ![Site(p)] = p]
            /\ Send(p, "listing", n, asked[p], FALSE)
       ELSE Go(p, "lockTools") /\ UNCHANGED toolLock

(* The loop's session is ready for requests, with these entities *)
Up(s, found) ==
    /\ entities' = [entities EXCEPT ![s] = found]
    /\ ready' = ready \cup {s}
    /\ Go(s, "up")
    /\ UNCHANGED <<goal, entityLock>>

-----------------------------------------------------------------------------
(* The connection loop. *)

(* The session is initialized: the catalog is next, and the site is not    *)
(* listed yet.  Answers of an older session do not stay unseen for a whole *)
(* retry delay, which is at least five seconds.                            *)
Connect(s) ==
    /\ pc[s] = "opening"
    /\ \A p \in Procs : Site(p) = s => reply[p] = NoReply
    /\ made' = [made EXCEPT ![s] = @ + 1]
    /\ alive' = [alive EXCEPT ![s] = TRUE]
    /\ session' = [session EXCEPT ![s] = made[s] + 1]
    /\ Refresh(s, "register", made[s] + 1)
    /\ UNCHANGED <<catalog, entities, servers, ready, remote, entityLock, at, executed,
                   shutdown, faults, changes>>

ConnectFails(s) ==
    /\ pc[s] = "opening" /\ Fault
    /\ LoopFails(s)
    /\ UNCHANGED <<made, alive, remote, at, executed, shutdown, changes>>

(* The connection is lost, and pending answers with it *)
Break(s) ==
    /\ alive[s] /\ Fault
    /\ alive' = [alive EXCEPT ![s] = FALSE]
    /\ UNCHANGED <<siteVars, made, remote, at, executed, shutdown, changes, locks, pc,
                   goal, callVars>>

(* ... which the loop learns at its await, wherever that is *)
Interrupted(s) ==
    /\ pc[s] \in Connected /\ ~alive[s]
    /\ LoopFails(s)
    /\ UNCHANGED outside

(* The retry delay has passed, or shutdown has come *)
Retry(s) ==
    /\ pc[s] = "delay"
    /\ pc' = [pc EXCEPT ![s] = IF shutdown THEN "stopped" ELSE "opening"]
    /\ UNCHANGED <<siteVars, outside, locks, goal, callVars>>

(* Shutdown ends the wait: the session is closed, the site not cleared *)
Stop(s) ==
    /\ pc[s] = "up" /\ shutdown
    /\ pc' = [pc EXCEPT ![s] = "stopped"]
    /\ alive' = [alive EXCEPT ![s] = FALSE]
    /\ UNCHANGED <<siteVars, made, remote, at, executed, shutdown, faults, changes, locks,
                   goal, callVars>>

Shutdown ==
    /\ ready = Sites /\ ~shutdown
    /\ shutdown' = TRUE
    /\ UNCHANGED <<siteVars, made, alive, remote, at, executed, faults, changes, locks, pc,
                   goal, callVars>>

(* close() has waited for the loops and forgets the servers *)
Close ==
    /\ shutdown /\ servers # {}
    /\ \A s \in Sites : pc[s] = "stopped"
    /\ servers' = {}
    /\ UNCHANGED <<session, catalog, entities, ready, outside, locks, pc, goal, callVars>>

-----------------------------------------------------------------------------
(* Tool calls of chat requests, which are served once all sites are ready. *)

Reachable(s) == s \in servers /\ session[s] # 0
HasLiveContext(s) == catalog[s].version \in LiveVersions

(* SearchEntities, GetEntityState and GetLiveContext: _refresh_entities.   *)
(* _fetch_entities looks at the session again once the lock is taken.      *)
SearchEntities(t) ==
    LET s == at[t] IN
    /\ pc[t] = "idle" /\ ready = Sites
    /\ Reachable(s) /\ HasLiveContext(s)
    /\ IF entityLock[s] = NoOne
       THEN /\ entityLock' = [entityLock EXCEPT ![s] = t]
            /\ Send(t, "fetching", session[s], catalog[s].version, FALSE)
       ELSE Go(t, "lockEntities") /\ UNCHANGED entityLock
    /\ UNCHANGED <<siteVars, outside, toolLock, goal>>

LockEntities(t) ==
    LET s == at[t] IN
    /\ pc[t] = "lockEntities" /\ entityLock[s] = NoOne
    /\ IF session[s] # 0 /\ HasLiveContext(s)
       THEN /\ entityLock' = [entityLock EXCEPT ![s] = t]
            /\ Send(t, "fetching", session[s], catalog[s].version, FALSE)
            /\ UNCHANGED <<toolLock, goal>>
       ELSE EndTask(t)
    /\ UNCHANGED <<siteVars, outside>>

(* Any other tool: its name is resolved in the current catalog *)
CallTool(t) ==
    LET s == at[t] IN
    /\ pc[t] = "idle" /\ ready = Sites
    /\ Reachable(s)
    /\ Send(t, "calling", session[s], catalog[s].version, FALSE)
    /\ UNCHANGED <<siteVars, outside, locks, goal>>

(* The request's deadline, or its client, cancels the task at any await *)
Cancel(t) ==
    /\ pc[t] \notin {"idle", "done"}
    /\ EndTask(t)
    /\ UNCHANGED <<siteVars, outside>>

-----------------------------------------------------------------------------
(* The site. *)

Pending(p) == pc[p] \in Waiting /\ reply[p] = NoReply
Replies(p, kind) == reply' = [reply EXCEPT ![p] = [NoReply EXCEPT !.kind = kind]]

(* While connected, the site lists its tools, executes what it is asked,   *)
(* or answers with an error that says "not found": it has no such tool, or *)
(* the tool found no such device.  Nothing was executed then.              *)
Answer(p) ==
    LET s == Site(p) IN
    /\ Pending(p) /\ alive[s] /\ used[p] = made[s]
    /\ \/ /\ pc[p] = "listing"
          /\ reply' = [reply EXCEPT ![p] = [kind |-> "ok", version |-> remote[s]]]
          /\ UNCHANGED executed
       \/ /\ pc[p] # "listing"
          /\ Replies(p, "unknown")
          /\ UNCHANGED executed
       \/ /\ pc[p] = "fetching" /\ asked[p] = remote[s]
          /\ Replies(p, "ok")
          /\ UNCHANGED executed
       \/ /\ pc[p] = "calling" /\ asked[p] = remote[s]
          /\ \E kind \in {"ok", "failed"} : Replies(p, kind)
          /\ executed' = [executed EXCEPT ![p] = @ + 1]
    /\ UNCHANGED <<siteVars, made, alive, remote, at, shutdown, faults, changes, locks, pc,
                   goal, used, asked, again>>

(* The call raises: another error of the site or of the transport.  It     *)
(* costs the loop its connection while it reads the first catalog.         *)
Fail(p) ==
    /\ Pending(p)
    /\ IF p \in Sites /\ goal[p] = "register" /\ pc[p] = "listing"
       THEN Fault
       ELSE UNCHANGED faults
    /\ Replies(p, "failed")
    /\ UNCHANGED <<siteVars, made, alive, remote, at, executed, shutdown, changes, locks, pc,
                   goal, used, asked, again>>

(* The site's tools change, as they do when it is updated or reloaded *)
Change(s) ==
    /\ changes < MaxChanges
    /\ changes' = changes + 1
    /\ remote' \in [Sites -> Versions]
    /\ \A x \in Sites \ {s} : remote'[x] = remote[x]
    /\ UNCHANGED <<siteVars, made, alive, at, executed, shutdown, faults, locks, pc, goal,
                   callVars>>

-----------------------------------------------------------------------------
(* _refresh_tool_catalog. *)

(* The lock is free for one of those who wait.  The session is looked up   *)
(* now; without one the call raises.                                       *)
LockTools(p) ==
    LET s == Site(p) IN
    /\ pc[p] = "lockTools" /\ toolLock[s] = NoOne
    /\ IF session[s] # 0
       THEN /\ toolLock' = [toolLock EXCEPT ![s] = p]
            /\ Send(p, "listing", session[s], asked[p], FALSE)
            /\ UNCHANGED <<goal, entityLock>>
       ELSE p \in Tasks /\ EndTask(p)
    /\ UNCHANGED <<siteVars, outside>>

(* The catalog is stored and the lock released *)
StoreCatalog(p, why) ==
    /\ pc[p] = "listing" /\ reply[p].kind = "ok" /\ goal[p] = why
    /\ catalog' = [catalog EXCEPT ![Site(p)] = [from |-> used[p], version |-> reply[p].version]]
    /\ toolLock' = Release(toolLock, p)

RegisterKeeping(s) ==
    /\ StoreCatalog(s, "register")
    /\ servers' = servers \cup {s}
    /\ IF reply[s].version \in LiveVersions
       THEN /\ Send(s, "fetching", session[s], reply[s].version, FALSE)
            /\ UNCHANGED <<entities, ready, goal, entityLock>>
       ELSE Up(s, entities[s])
    /\ UNCHANGED <<session, outside>>

(* The loop lists the site; then it fetches the entities, or empties them  *)
(* when the site offers none.                                              *)
Register(s) ==
    /\ StoreCatalog(s, "register")
    /\ servers' = servers \cup {s}
    /\ IF reply[s].version \in LiveVersions
       THEN /\ Send(s, "fetching", session[s], reply[s].version, FALSE)
            /\ UNCHANGED <<entities, ready, goal, entityLock>>
       ELSE Up(s, 0)
    /\ UNCHANGED <<session, outside>>

(* The session is closed again when its first catalog cannot be read *)
RegisterFails(s) ==
    /\ pc[s] = "listing" /\ reply[s].kind = "failed" /\ goal[s] = "register"
    /\ alive' = [alive EXCEPT ![s] = FALSE]
    /\ LoopFails(s)
    /\ UNCHANGED <<made, remote, at, executed, shutdown, faults, changes>>

-----------------------------------------------------------------------------
(* _fetch_entities, for the loop (which goes on without entities when it   *)
(* raises) and for tasks.                                                  *)

FetchRaises(p) ==
    /\ toolLock' = Release(toolLock, p)
    /\ IF p \in Sites
       THEN Up(p, 0)
       ELSE /\ Go(p, "done")
            /\ entityLock' = Release(entityLock, p)
            /\ UNCHANGED <<entities, ready, goal>>

(* The site does not know the tool: the catalog is read again, once *)
FetchUnknown(p) ==
    /\ pc[p] = "fetching" /\ reply[p].kind = "unknown"
    /\ IF ~again[p] /\ session[Site(p)] # 0
       THEN Refresh(p, "refetch", session[Site(p)]) /\ UNCHANGED <<entities, ready, entityLock>>
       ELSE FetchRaises(p)
    /\ UNCHANGED <<session, catalog, servers, outside>>

(* ... and the entities are fetched by the tool's new name *)
Refetch(p) ==
    LET s == Site(p) IN
    /\ StoreCatalog(p, "refetch")
    /\ IF reply[p].version \in LiveVersions /\ session[s] # 0
       THEN /\ Send(p, "fetching", session[s], reply[p].version, TRUE)
            /\ UNCHANGED <<entities, ready, goal, entityLock>>
       ELSE FetchRaises(p)
    /\ UNCHANGED <<session, servers, outside>>

FetchFails(p) ==
    /\ reply[p].kind = "failed"
    /\ \/ pc[p] = "fetching"
       \/ pc[p] = "listing" /\ goal[p] = "refetch"
    /\ FetchRaises(p)
    /\ UNCHANGED <<session, catalog, servers, outside>>

Fetched(p) ==
    /\ pc[p] = "fetching" /\ reply[p].kind = "ok"
    /\ IF p \in Sites
       THEN Up(p, used[p]) /\ UNCHANGED toolLock
       ELSE /\ entities' = [entities EXCEPT ![at[p]] = used[p]]
            /\ UNCHANGED ready
            /\ EndTask(p)
    /\ UNCHANGED <<session, catalog, servers, outside>>

-----------------------------------------------------------------------------
(* The rest of call_tool. *)

WorthRetryAny(t) == reply[t].kind \in {"unknown", "failed"} /\ ~again[t]

(* Only a tool that the site does not know is called a second time *)
WorthRetry(t) == reply[t].kind = "unknown" /\ ~again[t]

Called(t) ==
    /\ pc[t] = "calling" /\ reply[t] # NoReply
    /\ IF WorthRetry(t) /\ session[at[t]] # 0
       THEN Refresh(t, "recall", session[at[t]]) /\ UNCHANGED entityLock
       ELSE EndTask(t)
    /\ UNCHANGED <<siteVars, outside>>

(* ... under a name that is another one in the new catalog *)
Recall(t) ==
    LET s == at[t] IN
    /\ StoreCatalog(t, "recall")
    /\ IF reply[t].version # asked[t] /\ session[s] # 0
       THEN Send(t, "calling", session[s], reply[t].version, TRUE)
       ELSE Go(t, "done")
    /\ UNCHANGED <<session, entities, servers, ready, outside, goal, entityLock>>

RecallFails(t) ==
    /\ pc[t] = "listing" /\ reply[t].kind = "failed" /\ goal[t] = "recall"
    /\ EndTask(t)
    /\ UNCHANGED <<siteVars, outside>>

-----------------------------------------------------------------------------
Resume(p) ==
    \/ LockTools(p)
    \/ FetchUnknown(p) \/ Refetch(p) \/ FetchFails(p) \/ Fetched(p)

LoopStep(s) ==
    \/ Connect(s) \/ Interrupted(s) \/ Retry(s) \/ Stop(s)
    \/ Register(s) \/ RegisterFails(s) \/ Resume(s)

TaskStep(t) ==
    \/ LockEntities(t) \/ Cancel(t)
    \/ Called(t) \/ Recall(t) \/ RecallFails(t) \/ Resume(t)

Next ==
    \/ \E s \in Sites : LoopStep(s) \/ ConnectFails(s) \/ Break(s) \/ Change(s)
    \/ \E t \in Tasks : TaskStep(t) \/ SearchEntities(t) \/ CallTool(t)
    \/ \E p \in Procs : Answer(p) \/ Fail(p)
    \/ Shutdown \/ Close

Spec == Init /\ [][Next]_vars

(* The event loop runs what is ready, every request has a deadline, and a  *)
(* site that accepts a connection answers the loop or breaks it off.       *)
(* Nothing is assumed of answers to tasks.                                 *)
FairSpec ==
    /\ Spec
    /\ \A s \in Sites : WF_vars(LoopStep(s)) /\ WF_vars(Answer(s))
    /\ \A t \in Tasks : WF_vars(TaskStep(t))
    /\ WF_vars(Close)

-----------------------------------------------------------------------------
(* The types of the manager's and the servers' fields, and of the calls    *)
(* that processes wait for.                                                *)
Calls ==
    /\ pc \in [Procs -> LoopSteps \cup TaskSteps]
    /\ \A s \in Sites : pc[s] \in LoopSteps
    /\ \A t \in Tasks : pc[t] \in TaskSteps
    /\ used \in [Procs -> Nat]
    /\ asked \in [Procs -> Versions \cup {None}]
    /\ again \in [Procs -> BOOLEAN]
    /\ reply \in [Procs -> [kind : {"none", "ok", "unknown", "failed"},
                            version : Versions \cup {None}]]

Fields ==
    /\ session \in [Sites -> Nat] /\ made \in [Sites -> Nat]
    /\ catalog \in [Sites -> [from : Nat, version : Versions \cup {None}]]
    /\ entities \in [Sites -> Nat]
    /\ servers \subseteq Sites /\ ready \subseteq Sites
    /\ alive \in [Sites -> BOOLEAN] /\ remote \in [Sites -> Versions]
    /\ toolLock \in [Sites -> Procs \cup {NoOne}]
    /\ entityLock \in [Sites -> Tasks \cup {NoOne}]
    /\ goal \in [Procs -> Goals]
    /\ at \in [Tasks -> Sites] /\ executed \in [Tasks -> Nat]
    /\ shutdown \in BOOLEAN
    /\ faults \in 0..MaxFaults /\ changes \in 0..MaxChanges

(* The catalog's lock is held by the one process that reads the catalog:   *)
(* every way out of async with, raised, cancelled or interrupted, frees it.*)
Holders ==
    \A s \in Sites : \A p \in Procs :
        toolLock[s] = p <=> pc[p] = "listing" /\ Site(p) = s

TypeOK == Fields /\ Calls /\ Holders

(* A listed site has a session, and its tools were read in this session:   *)
(* whatever refreshes outlive a connection, the model is never offered the *)
(* catalog of an earlier one (mcp_manager.py:286-288, 325-333, 564).       *)
CatalogIsCurrent ==
    \A s \in servers : session[s] # 0 /\ catalog[s].from = session[s]

(* A refresh may put entities back that the loop has just cleared; when    *)
(* the site is up again they are gone (mcp_manager.py:292-305, 714-725).   *)
EntitiesAreCurrent ==
    \A s \in Sites : pc[s] = "up" => entities[s] \in {0, session[s]}

(* The README's "a tool-not-found response triggers catalog re-discovery   *)
(* and one automatic retry": no call is executed twice, whatever fails and *)
(* changes in between.                                                     *)
CallsRunOnce == \A t \in Tasks : executed[t] <= 1

(* A site comes back after every lost connection, though a task may hold   *)
(* the catalog's lock and wait for an answer that was lost (unless the     *)
(* add-on is shut down: then it is forgotten at last).                     *)
SitesComeBack == <>[](IF shutdown THEN servers = {} ELSE servers = Sites)
=============================================================================
