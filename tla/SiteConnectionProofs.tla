------------------------ MODULE SiteConnectionProofs ------------------------
(***************************************************************************)
(* The safety of SiteConnection for any sites, tasks, versions and bounds. *)
(*                                                                         *)
(* The catalog's lock is what keeps it current: the loop lists a site in   *)
(* the step in which it releases the lock, so no reader of an earlier      *)
(* session is left then, and every later one finds the present session.    *)
(* The entities have no such step; there the argument is that an answer of *)
(* an earlier session is seen before the next session begins.              *)
(***************************************************************************)
EXTENDS SiteConnection, TLAPS

(* A loop inside its async with has the last session, and only a site      *)
(* whose catalog the loop has read is listed.                              *)
Sessions ==
    \A s \in Sites :
        /\ session[s] \in {0, made[s]}
        /\ pc[s] \in Connected => session[s] # 0
        /\ s \in servers => /\ session[s] # 0
                            /\ \/ pc[s] \in {"fetching", "up", "stopped"}
                               \/ pc[s] \in {"lockTools", "listing"} /\ goal[s] = "refetch"

(* A loop reads in its own session, and so does everybody who reads the    *)
(* catalog of a listed site.                                               *)
Readers ==
    \A s \in Sites :
        /\ pc[s] \in {"listing", "fetching"} => used[s] = session[s]
        /\ s \in servers =>
              \A t \in Tasks : pc[t] = "listing" /\ at[t] = s => used[t] = session[s]

(* An answer with entities that is not seen yet is one of the last session *)
Answers ==
    \A t \in Tasks : pc[t] = "fetching" /\ reply[t].kind = "ok" => used[t] = made[at[t]]

(* A call that was executed is not answered with "unknown", or it is over  *)
Executions ==
    \A t \in Tasks :
        executed[t] = 0 \/ /\ executed[t] = 1
                           /\ \/ pc[t] = "done"
                              \/ pc[t] = "calling" /\ reply[t].kind \in {"ok", "failed"}

Current == /\ Sessions /\ Readers /\ Answers /\ Executions
           /\ CatalogIsCurrent /\ EntitiesAreCurrent

IInv == TypeOK /\ Current

USE ProcsAssumption, VersionAssumption, BoundAssumption

LEMMA Persons ==
  /\ Sites \subseteq Procs /\ Tasks \subseteq Procs
  /\ \A t \in Tasks : t \notin Sites
  /\ NoOne \notin Procs
  BY DEF Procs

LEMMA SiteIsSite == ASSUME Fields, NEW p \in Procs PROVE Site(p) \in Sites
  BY Persons DEF Site, Procs, Fields

-----------------------------------------------------------------------------
(* What the steps of a process leave behind. *)

LEMMA SendTyped ==
  ASSUME Calls, NEW p \in Procs, NEW step, NEW n \in Nat,
         NEW name \in Versions \cup {None}, NEW retry \in BOOLEAN,
         p \in Sites => step \in LoopSteps, p \in Tasks => step \in TaskSteps,
         Send(p, step, n, name, retry)
  PROVE  Calls'
<1>1. NoReply \in [kind : {"none", "ok", "unknown", "failed"}, version : Versions \cup {None}]
  BY DEF NoReply
<1> QED
  BY Persons, <1>1 DEF Calls, Send, Procs

LEMMA GoTyped ==
  ASSUME Calls, NEW p \in Procs, NEW step,
         p \in Sites => step \in LoopSteps, p \in Tasks => step \in TaskSteps,
         Go(p, step)
  PROVE  Calls'
<1>1. NoReply \in [kind : {"none", "ok", "unknown", "failed"}, version : Versions \cup {None}]
  BY DEF NoReply
<1> QED
  BY Persons, <1>1 DEF Calls, Go, Procs

LEMMA StepNames ==
  /\ {"opening", "delay", "stopped", "lockTools", "listing", "fetching", "up"} \subseteq LoopSteps
  /\ {"idle", "lockEntities", "lockTools", "listing", "fetching", "calling", "done"} \subseteq TaskSteps
  BY DEF LoopSteps, TaskSteps, Connected, Waiting

LEMMA RefreshTyped ==
  ASSUME Calls, NEW p \in Procs, NEW why, NEW n \in Nat, Refresh(p, why, n)
  PROVE  Calls'
<1>1. asked[p] \in Versions \cup {None}
  BY DEF Calls
<1>2. CASE toolLock[Site(p)] = NoOne
  <2>1. Send(p, "listing", n, asked[p], FALSE)
    BY <1>2 DEF Refresh
  <2> QED
    BY <2>1, <1>1, SendTyped, StepNames
<1>3. CASE toolLock[Site(p)] # NoOne
  <2>1. Go(p, "lockTools")
    BY <1>3 DEF Refresh
  <2> QED
    BY <2>1, GoTyped, StepNames
<1> QED
  BY <1>2, <1>3

LEMMA InitIInv == Init => IInv
<1> SUFFICES ASSUME Init PROVE IInv
  OBVIOUS
<1> USE Persons DEF Init
<1>1. Fields
  <2>1. NoCatalog \in [from : Nat, version : Versions \cup {None}]
    BY DEF NoCatalog
  <2>2. session \in [Sites -> Nat] /\ made \in [Sites -> Nat] /\ entities \in [Sites -> Nat]
    OBVIOUS
  <2>3. catalog \in [Sites -> [from : Nat, version : Versions \cup {None}]]
    BY <2>1
  <2>4. alive \in [Sites -> BOOLEAN] /\ goal \in [Procs -> Goals] /\ executed \in [Tasks -> Nat]
    BY DEF Goals
  <2>5. /\ toolLock \in [Sites -> Procs \cup {NoOne}]
        /\ entityLock \in [Sites -> Tasks \cup {NoOne}]
    OBVIOUS
  <2>6. servers \subseteq Sites /\ ready \subseteq Sites /\ shutdown \in BOOLEAN
    OBVIOUS
  <2>7. faults \in 0..MaxFaults /\ changes \in 0..MaxChanges
    OBVIOUS
  <2>8. remote \in [Sites -> Versions] /\ at \in [Tasks -> Sites]
    OBVIOUS
  <2> QED
    BY <2>2, <2>3, <2>4, <2>5, <2>6, <2>7, <2>8 DEF Fields
<1>2. Calls
  BY DEF Calls, NoReply, None, LoopSteps, TaskSteps, Connected, Waiting
<1>3. Holders
  BY DEF Holders, Site
<1>4. Sessions /\ Readers /\ Answers /\ Executions
  BY DEF Sessions, Readers, Answers, Executions, Connected, NoReply
<1>5. CatalogIsCurrent /\ EntitiesAreCurrent
  BY DEF CatalogIsCurrent, EntitiesAreCurrent
<1> QED
  BY <1>1, <1>2, <1>3, <1>4, <1>5 DEF IInv, TypeOK, Current


(* The types of calls. *)
LEMMA StepCalls == Fields /\ Calls /\ [Next]_vars => Calls'
<1> SUFFICES ASSUME Fields, Calls, [Next]_vars
             PROVE  Calls'
  OBVIOUS
<1> USE Persons DEF siteVars, outside, locks
<1>1. ASSUME NEW s \in Sites, Connect(s) PROVE Calls'
  <2>1. made[s] + 1 \in Nat
    BY DEF Fields
  <2> QED
    BY <1>1, <2>1, RefreshTyped DEF Connect
<1>2. ASSUME NEW s \in Sites, ConnectFails(s) PROVE Calls'
  BY <1>2, GoTyped, StepNames DEF ConnectFails, LoopFails
<1>3. ASSUME NEW s \in Sites, Break(s) PROVE Calls'
  BY <1>3 DEF Break, Calls, callVars
<1>4. ASSUME NEW s \in Sites, Interrupted(s) PROVE Calls'
  BY <1>4, GoTyped, StepNames DEF Interrupted, LoopFails
<1>5. ASSUME NEW s \in Sites, Retry(s) PROVE Calls'
  BY <1>5, StepNames DEF Retry, Calls, callVars
<1>6. ASSUME NEW s \in Sites, Stop(s) PROVE Calls'
  BY <1>6, StepNames DEF Stop, Calls, callVars
<1>7. CASE Shutdown
  BY <1>7 DEF Shutdown, Calls, callVars
<1>8. CASE Close
  BY <1>8 DEF Close, Calls, callVars
<1>9. ASSUME NEW t \in Tasks, SearchEntities(t) PROVE Calls'
  <2>1. session[at[t]] \in Nat /\ catalog[at[t]].version \in Versions \cup {None}
    BY DEF Fields
  <2> QED
    BY <1>9, <2>1, GoTyped, SendTyped, StepNames DEF SearchEntities
<1>10. ASSUME NEW t \in Tasks, LockEntities(t) PROVE Calls'
  <2>1. session[at[t]] \in Nat /\ catalog[at[t]].version \in Versions \cup {None}
    BY DEF Fields
  <2> QED
    BY <1>10, <2>1, GoTyped, SendTyped, StepNames DEF LockEntities, EndTask
<1>11. ASSUME NEW t \in Tasks, CallTool(t) PROVE Calls'
  <2>1. session[at[t]] \in Nat /\ catalog[at[t]].version \in Versions \cup {None}
    BY DEF Fields
  <2> QED
    BY <1>11, <2>1, GoTyped, SendTyped, StepNames DEF CallTool
<1>12. ASSUME NEW t \in Tasks, Cancel(t) PROVE Calls'
  BY <1>12, GoTyped, StepNames DEF Cancel, EndTask
<1>13. ASSUME NEW p \in Procs, Answer(p) PROVE Calls'
  <2>1. remote[Site(p)] \in Versions
    BY SiteIsSite DEF Fields
  <2>2. reply' \in [Procs -> [kind : {"none", "ok", "unknown", "failed"}, version : Versions \cup {None}]]
    BY <1>13, <2>1 DEF Answer, Replies, NoReply, Calls
  <2> QED
    BY <1>13, <2>2 DEF Answer, Calls
<1>14. ASSUME NEW p \in Procs, Fail(p) PROVE Calls'
  <2>1. reply' \in [Procs -> [kind : {"none", "ok", "unknown", "failed"}, version : Versions \cup {None}]]
    BY <1>14 DEF Fail, Replies, NoReply, Calls
  <2> QED
    BY <1>14, <2>1 DEF Fail, Calls
<1>15. ASSUME NEW s \in Sites, Change(s) PROVE Calls'
  BY <1>15 DEF Change, Calls, callVars
<1>16. ASSUME NEW p \in Procs, LockTools(p) PROVE Calls'
  <2>1. /\ session[Site(p)] \in Nat
        /\ reply[p].version \in Versions \cup {None}
        /\ asked[p] \in Versions \cup {None}
    BY SiteIsSite DEF Fields, Calls
  <2> QED
    BY <1>16, <2>1, GoTyped, SendTyped, RefreshTyped, StepNames DEF LockTools, EndTask
<1>17. ASSUME NEW s \in Sites, Register(s) PROVE Calls'
  <2>1. session[s] \in Nat /\ reply[s].version \in Versions \cup {None}
    BY DEF Fields, Calls
  <2> QED
    BY <1>17, <2>1, GoTyped, SendTyped, StepNames DEF Register, Up
<1>18. ASSUME NEW s \in Sites, RegisterFails(s) PROVE Calls'
  BY <1>18, GoTyped, StepNames DEF RegisterFails, LoopFails
<1>19. ASSUME NEW p \in Procs, FetchUnknown(p) PROVE Calls'
  <2>1. /\ session[Site(p)] \in Nat
        /\ reply[p].version \in Versions \cup {None}
        /\ asked[p] \in Versions \cup {None}
    BY SiteIsSite DEF Fields, Calls
  <2> QED
    BY <1>19, <2>1, GoTyped, SendTyped, RefreshTyped, StepNames DEF FetchUnknown,
       FetchRaises, Up
<1>20. ASSUME NEW p \in Procs, Refetch(p) PROVE Calls'
  <2>1. /\ session[Site(p)] \in Nat
        /\ reply[p].version \in Versions \cup {None}
        /\ asked[p] \in Versions \cup {None}
    BY SiteIsSite DEF Fields, Calls
  <2> QED
    BY <1>20, <2>1, GoTyped, SendTyped, RefreshTyped, StepNames DEF Refetch,
       FetchRaises, Up
<1>21. ASSUME NEW p \in Procs, FetchFails(p) PROVE Calls'
  <2>1. /\ session[Site(p)] \in Nat
        /\ reply[p].version \in Versions \cup {None}
        /\ asked[p] \in Versions \cup {None}
    BY SiteIsSite DEF Fields, Calls
  <2> QED
    BY <1>21, <2>1, GoTyped, SendTyped, RefreshTyped, StepNames DEF FetchFails,
       FetchRaises, Up
<1>22. ASSUME NEW p \in Procs, Fetched(p) PROVE Calls'
  <2>1. /\ session[Site(p)] \in Nat
        /\ reply[p].version \in Versions \cup {None}
        /\ asked[p] \in Versions \cup {None}
    BY SiteIsSite DEF Fields, Calls
  <2> QED
    BY <1>22, <2>1, GoTyped, SendTyped, RefreshTyped, StepNames DEF Fetched, EndTask, Up
<1>23. ASSUME NEW t \in Tasks, Called(t) PROVE Calls'
  <2>1. session[at[t]] \in Nat
    BY DEF Fields
  <2> QED
    BY <1>23, <2>1, GoTyped, RefreshTyped, StepNames DEF Called, EndTask
<1>24. ASSUME NEW t \in Tasks, Recall(t) PROVE Calls'
  <2>1. session[at[t]] \in Nat /\ reply[t].version \in Versions \cup {None}
    BY DEF Fields, Calls
  <2> QED
    BY <1>24, <2>1, GoTyped, SendTyped, StepNames DEF Recall
<1>25. ASSUME NEW t \in Tasks, RecallFails(t) PROVE Calls'
  BY <1>25, GoTyped, StepNames DEF RecallFails, EndTask
<1>26. CASE UNCHANGED vars
  BY <1>26 DEF vars, Calls, callVars
<1> QED
  BY <1>1, <1>2, <1>3, <1>4, <1>5, <1>6, <1>7, <1>8, <1>9, <1>10, <1>11, <1>12, <1>13,
     <1>14, <1>15, <1>16, <1>17, <1>18, <1>19, <1>20, <1>21, <1>22, <1>23, <1>24, <1>25,
     <1>26 DEF Next, LoopStep, TaskStep, Resume

(* The types of the fields. *)
LEMMA ReleaseTyped ==
  ASSUME Fields, NEW p \in Procs
  PROVE  /\ Release(toolLock, p) \in [Sites -> Procs \cup {NoOne}]
         /\ Release(entityLock, p) \in [Sites -> Tasks \cup {NoOne}]
  BY DEF Release, Fields

LEMMA RefreshFields ==
  ASSUME Fields, NEW p \in Procs, NEW why \in Goals, NEW n, Refresh(p, why, n)
  PROVE  /\ toolLock' \in [Sites -> Procs \cup {NoOne}]
         /\ goal' \in [Procs -> Goals]
<1>1. Site(p) \in Sites
  BY SiteIsSite
<1>2. goal' \in [Procs -> Goals]
  BY DEF Refresh, Fields
<1>3. [toolLock EXCEPT ![Site(p)] = p] \in [Sites -> Procs \cup {NoOne}]
  BY <1>1 DEF Fields
<1> QED
  BY <1>2, <1>3 DEF Refresh, Fields

LEMMA UpFields ==
  ASSUME Fields, NEW s \in Sites, NEW found \in Nat, Up(s, found)
  PROVE  /\ entities' \in [Sites -> Nat] /\ ready' \subseteq Sites
         /\ goal' = goal /\ entityLock' = entityLock
  BY DEF Up, Fields

LEMMA ClearFields ==
  ASSUME Fields, NEW s \in Sites, LoopFails(s)
  PROVE  /\ session' \in [Sites -> Nat] /\ entities' \in [Sites -> Nat]
         /\ catalog' \in [Sites -> [from : Nat, version : Versions \cup {None}]]
         /\ servers' \subseteq Sites /\ ready' \subseteq Sites
         /\ toolLock' \in [Sites -> Procs \cup {NoOne}]
         /\ goal' = goal /\ entityLock' = entityLock
<1>1. NoCatalog \in [from : Nat, version : Versions \cup {None}]
  BY DEF NoCatalog
<1>2. toolLock' \in [Sites -> Procs \cup {NoOne}]
  BY ReleaseTyped, Persons DEF LoopFails
<1> QED
  BY <1>1, <1>2 DEF LoopFails, Clear, Fields

LEMMA EndFields ==
  ASSUME Fields, NEW t \in Tasks, EndTask(t)
  PROVE  /\ toolLock' \in [Sites -> Procs \cup {NoOne}]
         /\ entityLock' \in [Sites -> Tasks \cup {NoOne}]
         /\ goal' = goal
  BY ReleaseTyped, Persons DEF EndTask

LEMMA RaiseFields ==
  ASSUME Fields, NEW p \in Procs, FetchRaises(p)
  PROVE  /\ toolLock' \in [Sites -> Procs \cup {NoOne}]
         /\ entityLock' \in [Sites -> Tasks \cup {NoOne}]
         /\ entities' \in [Sites -> Nat] /\ ready' \subseteq Sites
         /\ goal' = goal
<1>1. toolLock' \in [Sites -> Procs \cup {NoOne}]
  BY ReleaseTyped DEF FetchRaises
<1>2. CASE p \in Sites
  BY <1>1, <1>2, UpFields DEF FetchRaises, Fields
<1>3. CASE p \notin Sites
  BY <1>1, <1>3, ReleaseTyped DEF FetchRaises, Fields
<1> QED
  BY <1>2, <1>3

LEMMA StoreFields ==
  ASSUME Fields, Calls, NEW p \in Procs, NEW why, StoreCatalog(p, why)
  PROVE  /\ toolLock' \in [Sites -> Procs \cup {NoOne}]
         /\ catalog' \in [Sites -> [from : Nat, version : Versions \cup {None}]]
<1>1. toolLock' \in [Sites -> Procs \cup {NoOne}]
  BY ReleaseTyped DEF StoreCatalog
<1>2. [from |-> used[p], version |-> reply[p].version] \in [from : Nat, version : Versions \cup {None}]
  BY DEF Calls
<1> QED
  BY <1>1, <1>2, SiteIsSite DEF StoreCatalog, Fields

LEMMA StepFields == Fields /\ Calls /\ [Next]_vars => Fields'
<1> SUFFICES ASSUME Fields, Calls, [Next]_vars
             PROVE  Fields'
  OBVIOUS
<1> USE Persons DEF siteVars, outside
<1>1. ASSUME NEW s \in Sites, Connect(s) PROVE Fields'
  <2>1. made[s] + 1 \in Nat
    BY DEF Fields
  <2>2. toolLock' \in [Sites -> Procs \cup {NoOne}] /\ goal' \in [Procs -> Goals]
    BY <1>1, RefreshFields DEF Connect, Goals
  <2> QED
    BY <1>1, <2>1, <2>2 DEF Connect, Fields
<1>2. ASSUME NEW s \in Sites, ConnectFails(s) PROVE Fields'
  BY <1>2, ClearFields DEF ConnectFails, Fields, Fault
<1>3. ASSUME NEW s \in Sites, Break(s) PROVE Fields'
  BY <1>3 DEF Break, Fields, Fault, locks
<1>4. ASSUME NEW s \in Sites, Interrupted(s) PROVE Fields'
  BY <1>4, ClearFields DEF Interrupted, Fields, Fault
<1>5. ASSUME NEW s \in Sites, Retry(s) PROVE Fields'
  BY <1>5 DEF Retry, Fields, locks
<1>6. ASSUME NEW s \in Sites, Stop(s) PROVE Fields'
  BY <1>6 DEF Stop, Fields, locks
<1>7. CASE Shutdown
  BY <1>7 DEF Shutdown, Fields, locks
<1>8. CASE Close
  BY <1>8 DEF Close, Fields, locks
<1>9. ASSUME NEW t \in Tasks, SearchEntities(t) PROVE Fields'
  <2>1. [entityLock EXCEPT ![at[t]] = t] \in [Sites -> Tasks \cup {NoOne}]
    BY DEF Fields
  <2>2. entityLock' \in [Sites -> Tasks \cup {NoOne}]
    BY <1>9, <2>1 DEF SearchEntities, Fields
  <2> QED
    BY <1>9, <2>2 DEF SearchEntities, Fields
<1>10. ASSUME NEW t \in Tasks, LockEntities(t) PROVE Fields'
  <2>1. CASE EndTask(t)
    BY <1>10, <2>1, EndFields DEF LockEntities, Fields
  <2>2. CASE /\ entityLock' = [entityLock EXCEPT ![at[t]] = t]
             /\ UNCHANGED <<toolLock, goal>>
    BY <1>10, <2>2 DEF LockEntities, Fields
  <2> QED
    BY <1>10, <2>1, <2>2 DEF LockEntities
<1>11. ASSUME NEW t \in Tasks, CallTool(t) PROVE Fields'
  BY <1>11 DEF CallTool, Fields, locks
<1>12. ASSUME NEW t \in Tasks, Cancel(t) PROVE Fields'
  BY <1>12, EndFields DEF Cancel, Fields
<1>13. ASSUME NEW p \in Procs, Answer(p) PROVE Fields'
  BY <1>13 DEF Answer, Fields, locks
<1>14. ASSUME NEW p \in Procs, Fail(p) PROVE Fields'
  BY <1>14 DEF Fail, Fields, Fault, locks
<1>15. ASSUME NEW s \in Sites, Change(s) PROVE Fields'
  BY <1>15 DEF Change, Fields, locks
<1>16. ASSUME NEW p \in Procs, LockTools(p) PROVE Fields'
  <2>1. CASE session[Site(p)] # 0
    BY <1>16, <2>1, SiteIsSite DEF LockTools, Fields
  <2>2. CASE session[Site(p)] = 0
    BY <1>16, <2>2, EndFields DEF LockTools, Fields
  <2> QED
    BY <2>1, <2>2
<1>17. ASSUME NEW s \in Sites, Register(s) PROVE Fields'
  <2>1. /\ toolLock' \in [Sites -> Procs \cup {NoOne}]
        /\ catalog' \in [Sites -> [from : Nat, version : Versions \cup {None}]]
    BY <1>17, StoreFields DEF Register
  <2>2. CASE reply[s].version \in LiveVersions
    BY <1>17, <2>1, <2>2 DEF Register, Fields
  <2>3. CASE reply[s].version \notin LiveVersions
    BY <1>17, <2>1, <2>3, UpFields DEF Register, Fields
  <2> QED
    BY <2>2, <2>3
<1>18. ASSUME NEW s \in Sites, RegisterFails(s) PROVE Fields'
  BY <1>18, ClearFields DEF RegisterFails, Fields, Fault
<1>19. ASSUME NEW p \in Procs, FetchUnknown(p) PROVE Fields'
  <2>1. CASE ~again[p] /\ session[Site(p)] # 0
    <3>1. toolLock' \in [Sites -> Procs \cup {NoOne}] /\ goal' \in [Procs -> Goals]
      BY <1>19, <2>1, RefreshFields DEF FetchUnknown, Goals
    <3> QED
      BY <1>19, <2>1, <3>1 DEF FetchUnknown, Fields
  <2>2. CASE ~(~again[p] /\ session[Site(p)] # 0)
    BY <1>19, <2>2, RaiseFields DEF FetchUnknown, Fields
  <2> QED
    BY <2>1, <2>2
<1>20. ASSUME NEW p \in Procs, Refetch(p) PROVE Fields'
  <2>1. /\ toolLock' \in [Sites -> Procs \cup {NoOne}]
        /\ catalog' \in [Sites -> [from : Nat, version : Versions \cup {None}]]
    BY <1>20, StoreFields DEF Refetch
  <2>2. CASE FetchRaises(p)
    BY <1>20, <2>1, <2>2, RaiseFields DEF Refetch, Fields
  <2>3. CASE UNCHANGED <<entities, ready, goal, entityLock>>
    BY <1>20, <2>1, <2>3 DEF Refetch, Fields
  <2> QED
    BY <1>20, <2>2, <2>3 DEF Refetch
<1>21. ASSUME NEW p \in Procs, FetchFails(p) PROVE Fields'
  BY <1>21, RaiseFields DEF FetchFails, Fields
<1>22. ASSUME NEW p \in Procs, Fetched(p) PROVE Fields'
  <2>1. used[p] \in Nat
    BY DEF Calls
  <2>2. CASE p \in Sites
    BY <1>22, <2>1, <2>2, UpFields DEF Fetched, Fields
  <2>3. CASE p \notin Sites
    <3>1. p \in Tasks
      BY <2>3 DEF Procs
    <3> QED
      BY <1>22, <2>1, <2>3, <3>1, EndFields DEF Fetched, Fields
  <2> QED
    BY <2>2, <2>3
<1>23. ASSUME NEW t \in Tasks, Called(t) PROVE Fields'
  <2>1. CASE WorthRetry(t) /\ session[at[t]] # 0
    <3>1. toolLock' \in [Sites -> Procs \cup {NoOne}] /\ goal' \in [Procs -> Goals]
      BY <1>23, <2>1, RefreshFields DEF Called, Goals
    <3> QED
      BY <1>23, <2>1, <3>1 DEF Called, Fields
  <2>2. CASE ~(WorthRetry(t) /\ session[at[t]] # 0)
    BY <1>23, <2>2, EndFields DEF Called, Fields
  <2> QED
    BY <2>1, <2>2
<1>24. ASSUME NEW t \in Tasks, Recall(t) PROVE Fields'
  <2>1. /\ toolLock' \in [Sites -> Procs \cup {NoOne}]
        /\ catalog' \in [Sites -> [from : Nat, version : Versions \cup {None}]]
    BY <1>24, StoreFields DEF Recall
  <2> QED
    BY <1>24, <2>1 DEF Recall, Fields
<1>25. ASSUME NEW t \in Tasks, RecallFails(t) PROVE Fields'
  BY <1>25, EndFields DEF RecallFails, Fields
<1>26. CASE UNCHANGED vars
  BY <1>26 DEF vars, locks, Fields
<1> QED
  BY <1>1, <1>2, <1>3, <1>4, <1>5, <1>6, <1>7, <1>8, <1>9, <1>10, <1>11, <1>12, <1>13,
     <1>14, <1>15, <1>16, <1>17, <1>18, <1>19, <1>20, <1>21, <1>22, <1>23, <1>24, <1>25,
     <1>26 DEF Next, LoopStep, TaskStep, Resume

-----------------------------------------------------------------------------
(* What a step does to the process that makes it, and to no other one. *)
Others(p) ==
    \A q \in Procs : q # p => /\ pc'[q] = pc[q] /\ used'[q] = used[q]
                              /\ reply'[q] = reply[q]

Moves(p, step, n) ==
    Others(p) /\ pc'[p] = step /\ used'[p] = n /\ reply'[p] = NoReply

LEMMA SendMoves ==
  ASSUME Calls, NEW p \in Procs, NEW step, NEW n, NEW name, NEW retry,
         Send(p, step, n, name, retry)
  PROVE  Moves(p, step, n)
  BY DEF Moves, Others, Send, Calls

LEMMA GoMoves ==
  ASSUME Calls, NEW p \in Procs, NEW step, Go(p, step)
  PROVE  Moves(p, step, used[p])
  BY DEF Moves, Others, Go, Calls

LEMMA RefreshMoves ==
  ASSUME Fields, Calls, NEW p \in Procs, NEW why, NEW n, Refresh(p, why, n)
  PROVE  /\ Moves(p, "listing", n) \/ Moves(p, "lockTools", used[p])
         /\ goal'[p] = why
         /\ \A q \in Procs : q # p => goal'[q] = goal[q]
<1>1. Moves(p, "listing", n) \/ Moves(p, "lockTools", used[p])
  BY SendMoves, GoMoves DEF Refresh
<1> QED
  BY <1>1 DEF Refresh, Fields

(* The discipline of the catalog's lock: a process takes it when it is     *)
(* free and starts to read, and frees what it holds when it goes on.       *)
Takes(p) ==
    /\ toolLock[Site(p)] = NoOne /\ pc[p] # "listing" /\ pc'[p] = "listing"
    /\ toolLock' = [toolLock EXCEPT ![Site(p)] = p]

Frees(p) ==
    /\ pc'[p] # "listing"
    /\ \/ toolLock' = Release(toolLock, p)
       \/ toolLock' = toolLock /\ pc[p] # "listing"

LockStep(p) == at' = at /\ Others(p) /\ (Takes(p) \/ Frees(p))

LEMMA LockStepKeepsHolders ==
  ASSUME Fields, Holders, NEW p \in Procs, LockStep(p)
  PROVE  Holders'
<1> SUFFICES ASSUME NEW s \in Sites, NEW q \in Procs
             PROVE  toolLock'[s] = q <=> pc'[q] = "listing" /\ Site(q)' = s
  BY DEF Holders
<1>1. Site(q)' = Site(q) /\ Site(p) \in Sites /\ NoOne # q /\ NoOne # p
  BY SiteIsSite, Persons DEF LockStep, Site
<1>2. q # p => pc'[q] = pc[q]
  BY DEF LockStep, Others
<1>3. toolLock[s] = q <=> pc[q] = "listing" /\ Site(q) = s
  BY DEF Holders
<1>4. toolLock[s] = p <=> pc[p] = "listing" /\ Site(p) = s
  BY DEF Holders
<1>5. CASE Takes(p)
  <2>1. toolLock'[s] = IF s = Site(p) THEN p ELSE toolLock[s]
    BY <1>5 DEF Takes, Fields
  <2> QED
    BY <1>1, <1>2, <1>3, <1>4, <1>5, <2>1 DEF Takes
<1>6. CASE toolLock' = Release(toolLock, p) /\ pc'[p] # "listing"
  <2>1. toolLock'[s] = IF toolLock[s] = p THEN NoOne ELSE toolLock[s]
    BY <1>6 DEF Release
  <2> QED
    BY <1>1, <1>2, <1>3, <1>4, <1>6, <2>1
<1>7. CASE toolLock' = toolLock /\ pc[p] # "listing" /\ pc'[p] # "listing"
  BY <1>1, <1>2, <1>3, <1>7
<1> QED
  BY <1>5, <1>6, <1>7 DEF LockStep, Frees

LEMMA RefreshLocks ==
  ASSUME Fields, Calls, NEW p \in Procs, NEW why, NEW n, Refresh(p, why, n),
         pc[p] # "listing", at' = at
  PROVE  LockStep(p)
<1>1. CASE toolLock[Site(p)] = NoOne
  <2>1. Moves(p, "listing", n)
    BY <1>1, SendMoves DEF Refresh
  <2> QED
    BY <1>1, <2>1 DEF Refresh, LockStep, Takes, Moves
<1>2. CASE toolLock[Site(p)] # NoOne
  <2>1. Moves(p, "lockTools", used[p])
    BY <1>2, GoMoves DEF Refresh
  <2> QED
    BY <1>2, <2>1 DEF Refresh, LockStep, Frees, Moves
<1> QED
  BY <1>1, <1>2

LEMMA EndLocks ==
  ASSUME Fields, Calls, NEW t \in Tasks, EndTask(t), at' = at
  PROVE  LockStep(t) /\ Moves(t, "done", used[t])
  BY Persons, GoMoves DEF EndTask, LockStep, Frees, Moves

LEMMA FailLocks ==
  ASSUME Fields, Calls, NEW s \in Sites, LoopFails(s), at' = at
  PROVE  LockStep(s) /\ Moves(s, "delay", used[s])
  BY Persons, GoMoves DEF LoopFails, LockStep, Frees, Moves

(* The process that raises ends, or goes on without entities. *)
LEMMA RaiseLocks ==
  ASSUME Fields, Calls, NEW p \in Procs, FetchRaises(p), at' = at
  PROVE  /\ LockStep(p)
         /\ p \in Sites => Moves(p, "up", used[p]) /\ entities' = [entities EXCEPT ![p] = 0]
         /\ p \in Tasks => Moves(p, "done", used[p]) /\ entities' = entities
         /\ goal' = goal
<1>1. CASE p \in Sites
  BY <1>1, Persons, GoMoves DEF FetchRaises, Up, LockStep, Frees, Moves
<1>2. CASE p \in Tasks
  BY <1>2, Persons, GoMoves DEF FetchRaises, LockStep, Frees, Moves
<1> QED
  BY <1>1, <1>2 DEF Procs

LEMMA StepHolders == Fields /\ Calls /\ Holders /\ [Next]_vars => Holders'
<1> SUFFICES ASSUME Fields, Calls, Holders, [Next]_vars
             PROVE  Holders'
  OBVIOUS
<1> USE Persons DEF siteVars, outside
<1>1. ASSUME NEW s \in Sites, Connect(s) PROVE Holders'
  BY <1>1, RefreshLocks, LockStepKeepsHolders DEF Connect
<1>2. ASSUME NEW s \in Sites, ConnectFails(s) PROVE Holders'
  BY <1>2, FailLocks, LockStepKeepsHolders DEF ConnectFails
<1>3. ASSUME NEW s \in Sites, Break(s) PROVE Holders'
  BY <1>3 DEF Break, locks, Holders, Site
<1>4. ASSUME NEW s \in Sites, Interrupted(s) PROVE Holders'
  BY <1>4, FailLocks, LockStepKeepsHolders DEF Interrupted
<1>5. ASSUME NEW s \in Sites, Retry(s) PROVE Holders'
  <2>1. Others(s) /\ pc'[s] # "listing" /\ pc[s] # "listing" /\ UNCHANGED <<at, toolLock>>
    BY <1>5 DEF Retry, locks, callVars, Others, Calls
  <2> QED
    BY <2>1, LockStepKeepsHolders DEF LockStep, Frees
<1>6. ASSUME NEW s \in Sites, Stop(s) PROVE Holders'
  <2>1. Others(s) /\ pc'[s] # "listing" /\ pc[s] # "listing" /\ UNCHANGED <<at, toolLock>>
    BY <1>6 DEF Stop, locks, callVars, Others, Calls
  <2> QED
    BY <2>1, LockStepKeepsHolders DEF LockStep, Frees
<1>7. CASE Shutdown
  BY <1>7 DEF Shutdown, locks, Holders, Site
<1>8. CASE Close
  BY <1>8 DEF Close, locks, Holders, Site
<1>9. ASSUME NEW t \in Tasks, SearchEntities(t) PROVE Holders'
  <2>1. Moves(t, "fetching", session[at[t]]) \/ Moves(t, "lockEntities", used[t])
    BY <1>9, SendMoves, GoMoves DEF SearchEntities
  <2>2. pc[t] # "listing" /\ UNCHANGED <<at, toolLock>>
    BY <1>9 DEF SearchEntities
  <2>3. LockStep(t)
    BY <2>1, <2>2 DEF LockStep, Frees, Moves
  <2> QED
    BY <2>3, LockStepKeepsHolders
<1>10. ASSUME NEW t \in Tasks, LockEntities(t) PROVE Holders'
  <2>1. CASE EndTask(t)
    BY <1>10, <2>1, EndLocks, LockStepKeepsHolders DEF LockEntities
  <2>2. CASE ~EndTask(t)
    <3>1. Moves(t, "fetching", session[at[t]])
      BY <1>10, <2>2, SendMoves DEF LockEntities
    <3>2. pc[t] # "listing" /\ UNCHANGED <<at, toolLock>>
      BY <1>10, <2>2 DEF LockEntities
    <3>3. LockStep(t)
      BY <3>1, <3>2 DEF LockStep, Frees, Moves
    <3> QED
      BY <3>3, LockStepKeepsHolders
  <2> QED
    BY <2>1, <2>2
<1>11. ASSUME NEW t \in Tasks, CallTool(t) PROVE Holders'
  <2>1. Moves(t, "calling", session[at[t]])
    BY <1>11, SendMoves DEF CallTool
  <2>2. pc[t] # "listing" /\ UNCHANGED <<at, toolLock>>
    BY <1>11 DEF CallTool, locks
  <2>3. LockStep(t)
    BY <2>1, <2>2 DEF LockStep, Frees, Moves
  <2> QED
    BY <2>3, LockStepKeepsHolders
<1>12. ASSUME NEW t \in Tasks, Cancel(t) PROVE Holders'
  BY <1>12, EndLocks, LockStepKeepsHolders DEF Cancel
<1>13. ASSUME NEW p \in Procs, Answer(p) PROVE Holders'
  BY <1>13 DEF Answer, locks, Holders, Site
<1>14. ASSUME NEW p \in Procs, Fail(p) PROVE Holders'
  BY <1>14 DEF Fail, locks, Holders, Site
<1>15. ASSUME NEW s \in Sites, Change(s) PROVE Holders'
  BY <1>15 DEF Change, locks, Holders, Site
<1>16. ASSUME NEW p \in Procs, LockTools(p) PROVE Holders'
  <2>1. CASE session[Site(p)] = 0
    BY <1>16, <2>1, EndLocks, LockStepKeepsHolders DEF LockTools
  <2>2. CASE session[Site(p)] # 0
    <3>1. LockStep(p)
      BY <1>16, <2>2, SendMoves DEF LockTools, LockStep, Takes, Moves
    <3> QED
      BY <3>1, LockStepKeepsHolders
  <2> QED
    BY <2>1, <2>2
<1>17. ASSUME NEW s \in Sites, Register(s) PROVE Holders'
  <2>1. LockStep(s)
    <3>1. toolLock' = Release(toolLock, s) /\ at' = at
      BY <1>17 DEF Register, StoreCatalog
    <3>2. Moves(s, "fetching", session[s]) \/ Moves(s, "up", used[s])
      BY <1>17, SendMoves, GoMoves DEF Register, Up
    <3> QED
      BY <3>1, <3>2 DEF LockStep, Frees, Moves
  <2> QED
    BY <2>1, LockStepKeepsHolders
<1>18. ASSUME NEW s \in Sites, RegisterFails(s) PROVE Holders'
  BY <1>18, FailLocks, LockStepKeepsHolders DEF RegisterFails
<1>19. ASSUME NEW p \in Procs, FetchUnknown(p) PROVE Holders'
  <2>1. CASE FetchRaises(p)
    BY <1>19, <2>1, RaiseLocks, LockStepKeepsHolders DEF FetchUnknown
  <2>2. CASE Refresh(p, "refetch", session[Site(p)])
    BY <1>19, <2>2, RefreshLocks, LockStepKeepsHolders DEF FetchUnknown
  <2> QED
    BY <1>19, <2>1, <2>2 DEF FetchUnknown
<1>20. ASSUME NEW p \in Procs, Refetch(p) PROVE Holders'
  <2>1. CASE FetchRaises(p)
    BY <1>20, <2>1, RaiseLocks, LockStepKeepsHolders DEF Refetch
  <2>2. CASE ~FetchRaises(p)
    <3>1. LockStep(p)
      BY <1>20, <2>2, SendMoves DEF Refetch, StoreCatalog, LockStep, Frees, Moves
    <3> QED
      BY <3>1, LockStepKeepsHolders
  <2> QED
    BY <2>1, <2>2
<1>21. ASSUME NEW p \in Procs, FetchFails(p) PROVE Holders'
  BY <1>21, RaiseLocks, LockStepKeepsHolders DEF FetchFails
<1>22. ASSUME NEW p \in Procs, Fetched(p) PROVE Holders'
  <2>1. CASE p \in Sites
    <3>1. LockStep(p)
      BY <1>22, <2>1, GoMoves DEF Fetched, Up, LockStep, Frees, Moves
    <3> QED
      BY <3>1, LockStepKeepsHolders
  <2>2. CASE p \notin Sites
    BY <1>22, <2>2, EndLocks, LockStepKeepsHolders DEF Fetched, Procs
  <2> QED
    BY <2>1, <2>2
<1>23. ASSUME NEW t \in Tasks, Called(t) PROVE Holders'
  <2>1. CASE EndTask(t)
    BY <1>23, <2>1, EndLocks, LockStepKeepsHolders DEF Called
  <2>2. CASE Refresh(t, "recall", session[at[t]])
    BY <1>23, <2>2, RefreshLocks, LockStepKeepsHolders DEF Called
  <2> QED
    BY <1>23, <2>1, <2>2 DEF Called
<1>24. ASSUME NEW t \in Tasks, Recall(t) PROVE Holders'
  <2>1. Moves(t, "calling", session[at[t]]) \/ Moves(t, "done", used[t])
    BY <1>24, SendMoves, GoMoves DEF Recall
  <2>2. LockStep(t)
    BY <1>24, <2>1 DEF Recall, StoreCatalog, LockStep, Frees, Moves
  <2> QED
    BY <2>2, LockStepKeepsHolders
<1>25. ASSUME NEW t \in Tasks, RecallFails(t) PROVE Holders'
  BY <1>25, EndLocks, LockStepKeepsHolders DEF RecallFails
<1>26. CASE UNCHANGED vars
  BY <1>26 DEF vars, locks, Holders, Site
<1> QED
  BY <1>1, <1>2, <1>3, <1>4, <1>5, <1>6, <1>7, <1>8, <1>9, <1>10, <1>11, <1>12, <1>13,
     <1>14, <1>15, <1>16, <1>17, <1>18, <1>19, <1>20, <1>21, <1>22, <1>23, <1>24, <1>25,
     <1>26 DEF Next, LoopStep, TaskStep, Resume

-----------------------------------------------------------------------------
(* The sessions.  Three kinds of step cover most actions: a task goes on,  *)
(* a loop goes on inside its session, and a loop's attempt fails.          *)
(* Tasks leave the sessions alone.  They store a catalog that was read     *)
(* under the lock, and entities that were answered in the last session.    *)
TaskMove(t, step, n) ==
    /\ Moves(t, step, n)
    /\ step = "listing" => n = session[at[t]]
    /\ executed[t] = 0 \/ step = "done"
    /\ \A s \in Sites : goal'[s] = goal[s]
    /\ \A s \in Sites : \/ catalog'[s] = catalog[s]
                        \/ pc[t] = "listing" /\ at[t] = s /\ catalog'[s].from = used[t]
    /\ \A s \in Sites : \/ entities'[s] = entities[s]
                        \/ /\ pc[t] = "fetching" /\ reply[t].kind = "ok"
                           /\ at[t] = s /\ entities'[s] = used[t]
    /\ UNCHANGED <<session, servers, made, at, executed>>

LEMMA TaskMoveCurrent ==
  ASSUME TypeOK, Current, NEW t \in Tasks, NEW step, NEW n, TaskMove(t, step, n)
  PROVE  Current'
<1> USE Persons DEF TaskMove, Moves, Others
<1>0. \A s \in Sites : pc'[s] = pc[s] /\ used'[s] = used[s]
  OBVIOUS
<1>1. Sessions'
  BY <1>0 DEF Current, Sessions
<1>2. Readers'
  <2> SUFFICES ASSUME NEW s \in Sites
               PROVE  /\ pc'[s] \in {"listing", "fetching"} => used'[s] = session[s]
                      /\ s \in servers => \A q \in Tasks :
                            pc'[q] = "listing" /\ at[q] = s => used'[q] = session[s]
    BY DEF Readers
  <2> QED
    BY <1>0 DEF Current, Readers
<1>3. Answers'
  BY DEF Current, Answers, NoReply
<1>4. Executions'
  BY DEF Current, Executions
<1>5. CatalogIsCurrent'
  <2> SUFFICES ASSUME NEW s \in servers
               PROVE  session[s] # 0 /\ catalog'[s].from = session[s]
    BY DEF CatalogIsCurrent
  <2>1. s \in Sites
    BY DEF TypeOK, Fields
  <2> QED
    BY <2>1 DEF Current, Readers, CatalogIsCurrent
<1>6. EntitiesAreCurrent'
  <2> SUFFICES ASSUME NEW s \in Sites, pc'[s] = "up"
               PROVE  entities'[s] \in {0, session[s]}
    BY DEF EntitiesAreCurrent
  <2>1. pc[s] = "up" /\ session[s] = made[s]
    BY <1>0 DEF Current, Sessions, Connected
  <2> QED
    BY <2>1 DEF Current, Answers, EntitiesAreCurrent
<1> QED
  BY <1>1, <1>2, <1>3, <1>4, <1>5, <1>6 DEF Current

(* A loop lists its site when it frees the catalog's lock that it held to  *)
(* read the catalog in its own session.                                    *)
LoopMove(s, step, n) ==
    /\ Moves(s, step, n)
    /\ pc[s] \in Connected /\ step \in {"lockTools", "listing", "fetching", "up"}
    /\ step \in {"listing", "fetching"} => n = session[s]
    /\ \A x \in Sites : x # s => goal'[x] = goal[x] /\ catalog'[x] = catalog[x]
                                 /\ entities'[x] = entities[x]
    /\ \/ catalog'[s] = catalog[s]
       \/ pc[s] = "listing" /\ catalog'[s].from = used[s]
    /\ \/ servers' = servers
       \/ servers' = servers \cup {s} /\ pc[s] = "listing" /\ catalog'[s].from = used[s]
    /\ s \in servers' /\ step \in {"lockTools", "listing"} => goal'[s] = "refetch"
    /\ step = "up" => entities'[s] \in {0, session[s]}
    /\ UNCHANGED <<session, made, at, executed>>

LEMMA LoopMoveCurrent ==
  ASSUME TypeOK, Current, NEW s \in Sites, NEW step, NEW n, LoopMove(s, step, n)
  PROVE  Current'
<1> USE Persons DEF LoopMove, Moves, Others
<1>0. /\ \A x \in Sites : x # s => pc'[x] = pc[x] /\ used'[x] = used[x]
      /\ \A t \in Tasks : pc'[t] = pc[t] /\ used'[t] = used[t] /\ reply'[t] = reply[t]
  OBVIOUS
<1>1. session[s] # 0
  BY DEF Current, Sessions
<1>2. pc[s] = "listing" => \A t \in Tasks : pc[t] = "listing" => at[t] # s
  <2> SUFFICES ASSUME pc[s] = "listing", NEW t \in Tasks, pc[t] = "listing", at[t] = s
               PROVE  FALSE
    OBVIOUS
  <2>1. toolLock[s] = s /\ toolLock[s] = t
    BY DEF TypeOK, Holders, Site
  <2> QED
    BY <2>1
<1>3. Sessions'
  <2> SUFFICES ASSUME NEW x \in Sites
               PROVE  /\ session[x] \in {0, made[x]}
                      /\ pc'[x] \in Connected => session[x] # 0
                      /\ x \in servers' =>
                            /\ session[x] # 0
                            /\ \/ pc'[x] \in {"fetching", "up", "stopped"}
                               \/ pc'[x] \in {"lockTools", "listing"} /\ goal'[x] = "refetch"
    BY DEF Sessions
  <2>1. CASE x = s
    BY <1>1, <2>1 DEF Current, Sessions
  <2>2. CASE x # s
    BY <1>0, <2>2 DEF Current, Sessions
  <2> QED
    BY <2>1, <2>2
<1>4. Readers'
  <2> SUFFICES ASSUME NEW x \in Sites
               PROVE  /\ pc'[x] \in {"listing", "fetching"} => used'[x] = session[x]
                      /\ x \in servers' => \A t \in Tasks :
                            pc'[t] = "listing" /\ at[t] = x => used'[t] = session[x]
    BY DEF Readers
  <2>1. pc'[x] \in {"listing", "fetching"} => used'[x] = session[x]
    BY <1>0 DEF Current, Readers
  <2>2. CASE x \in servers
    BY <1>0, <2>1, <2>2 DEF Current, Readers
  <2>3. CASE x \notin servers
    BY <1>0, <1>2, <2>1, <2>3
  <2> QED
    BY <2>2, <2>3
<1>5. Answers' /\ Executions'
  BY <1>0 DEF Current, Answers, Executions
<1>6. CatalogIsCurrent'
  <2> SUFFICES ASSUME NEW x \in servers'
               PROVE  session[x] # 0 /\ catalog'[x].from = session[x]
    BY DEF CatalogIsCurrent
  <2>1. x \in Sites
    BY DEF TypeOK, Fields
  <2>2. pc[s] = "listing" => used[s] = session[s]
    BY DEF Current, Readers
  <2>3. CASE x = s
    BY <1>1, <2>2, <2>3 DEF Current, CatalogIsCurrent
  <2>4. CASE x # s
    BY <2>1, <2>4 DEF Current, CatalogIsCurrent
  <2> QED
    BY <2>3, <2>4
<1>7. EntitiesAreCurrent'
  <2> SUFFICES ASSUME NEW x \in Sites, pc'[x] = "up"
               PROVE  entities'[x] \in {0, session[x]}
    BY DEF EntitiesAreCurrent
  <2> QED
    BY <1>0 DEF Current, EntitiesAreCurrent
<1> QED
  BY <1>3, <1>4, <1>5, <1>6, <1>7 DEF Current

LEMMA LoopFailsCurrent ==
  ASSUME TypeOK, Current, NEW s \in Sites, LoopFails(s), UNCHANGED <<made, at, executed>>
  PROVE  Current'
<1> USE Persons
<1>1. Moves(s, "delay", used[s])
  BY FailLocks DEF TypeOK
<1>2. /\ \A x \in Sites : x # s => pc'[x] = pc[x] /\ used'[x] = used[x]
      /\ \A t \in Tasks : pc'[t] = pc[t] /\ used'[t] = used[t] /\ reply'[t] = reply[t]
      /\ pc'[s] = "delay"
  BY <1>1 DEF Moves, Others
<1>3. /\ \A x \in Sites : x # s => /\ session'[x] = session[x] /\ catalog'[x] = catalog[x]
                                   /\ entities'[x] = entities[x]
      /\ session'[s] = 0 /\ servers' = servers \ {s} /\ goal' = goal
  BY DEF LoopFails, Clear, TypeOK, Fields
<1>4. Sessions' /\ Readers'
  BY <1>2, <1>3 DEF Current, Sessions, Readers, Connected
<1>5. Answers' /\ Executions'
  BY <1>2 DEF Current, Answers, Executions
<1>6. CatalogIsCurrent' /\ EntitiesAreCurrent'
  BY <1>2, <1>3 DEF Current, CatalogIsCurrent, EntitiesAreCurrent, TypeOK, Fields
<1> QED
  BY <1>4, <1>5, <1>6 DEF Current

(* Every step keeps what is current. *)
LEMMA StepCurrent == TypeOK /\ Current /\ [Next]_vars => Current'
<1> SUFFICES ASSUME TypeOK, Current, [Next]_vars
             PROVE  Current'
  OBVIOUS
<1> USE Persons DEF siteVars, outside
<1>1. ASSUME NEW s \in Sites, Connect(s) PROVE Current'
  <2>1. Moves(s, "listing", made[s] + 1) \/ Moves(s, "lockTools", used[s])
    BY <1>1, RefreshMoves DEF Connect, TypeOK
  <2>2. /\ \A x \in Sites : x # s => pc'[x] = pc[x] /\ used'[x] = used[x]
        /\ \A t \in Tasks : pc'[t] = pc[t] /\ used'[t] = used[t] /\ reply'[t] = reply[t]
        /\ pc'[s] \in {"listing", "lockTools"} /\ (pc'[s] = "listing" => used'[s] = made[s] + 1)
    BY <2>1 DEF Moves, Others
  <2>3. /\ \A x \in Sites : x # s => session'[x] = session[x] /\ made'[x] = made[x]
        /\ session'[s] = made[s] + 1 /\ made'[s] = made[s] + 1 /\ session'[s] # 0
        /\ \A x \in Sites : x # s => goal'[x] = goal[x]
        /\ UNCHANGED <<servers, catalog, entities, at, executed>>
    BY <1>1, RefreshMoves DEF Connect, TypeOK, Fields
  <2>4. s \notin servers
    BY <1>1 DEF Connect, Current, Sessions
  <2>5. \A t \in Tasks : at[t] = s => reply[t].kind # "ok"
    BY <1>1 DEF Connect, NoReply, Site
  <2>6. Sessions'
    BY <2>2, <2>3, <2>4 DEF Current, Sessions
  <2>7. Readers'
    BY <2>2, <2>3, <2>4 DEF Current, Readers
  <2>8. Answers' /\ Executions'
    <3>1. \A t \in Tasks : at[t] \in Sites
      BY DEF TypeOK, Fields
    <3> QED
      BY <2>2, <2>3, <2>5, <3>1 DEF Current, Answers, Executions
  <2>9. CatalogIsCurrent' /\ EntitiesAreCurrent'
    BY <2>2, <2>3, <2>4 DEF Current, CatalogIsCurrent, EntitiesAreCurrent, TypeOK, Fields
  <2> QED
    BY <2>6, <2>7, <2>8, <2>9 DEF Current
<1>2. ASSUME NEW s \in Sites, ConnectFails(s) PROVE Current'
  BY <1>2, LoopFailsCurrent DEF ConnectFails
<1>3. ASSUME NEW s \in Sites, Break(s) PROVE Current'
  BY <1>3 DEF Break, callVars, Current, Sessions, Readers, Answers, Executions,
     CatalogIsCurrent, EntitiesAreCurrent
<1>4. ASSUME NEW s \in Sites, Interrupted(s) PROVE Current'
  BY <1>4, LoopFailsCurrent DEF Interrupted
<1>5. ASSUME NEW s \in Sites, Retry(s) PROVE Current'
  <2>1. /\ \A q \in Procs : q # s => pc'[q] = pc[q]
        /\ pc'[s] \in {"opening", "stopped"} /\ pc[s] \in {"delay", "up"}
        /\ pc[s] = "delay" \/ pc'[s] = "stopped"
        /\ UNCHANGED <<session, catalog, entities, servers, made, at, executed, goal, used, reply>>
    BY <1>5 DEF Retry, callVars, TypeOK, Calls
  <2>2. Sessions'
    BY <2>1 DEF Current, Sessions, Connected
  <2>3. Readers' /\ Answers' /\ Executions'
    BY <2>1 DEF Current, Readers, Answers, Executions
  <2>4. CatalogIsCurrent' /\ EntitiesAreCurrent'
    BY <2>1 DEF Current, CatalogIsCurrent, EntitiesAreCurrent
  <2> QED
    BY <2>2, <2>3, <2>4 DEF Current
<1>6. ASSUME NEW s \in Sites, Stop(s) PROVE Current'
  <2>1. /\ \A q \in Procs : q # s => pc'[q] = pc[q]
        /\ pc'[s] \in {"opening", "stopped"} /\ pc[s] \in {"delay", "up"}
        /\ pc[s] = "delay" \/ pc'[s] = "stopped"
        /\ UNCHANGED <<session, catalog, entities, servers, made, at, executed, goal, used, reply>>
    BY <1>6 DEF Stop, callVars, TypeOK, Calls
  <2>2. Sessions'
    BY <2>1 DEF Current, Sessions, Connected
  <2>3. Readers' /\ Answers' /\ Executions'
    BY <2>1 DEF Current, Readers, Answers, Executions
  <2>4. CatalogIsCurrent' /\ EntitiesAreCurrent'
    BY <2>1 DEF Current, CatalogIsCurrent, EntitiesAreCurrent
  <2> QED
    BY <2>2, <2>3, <2>4 DEF Current
<1>7. CASE Shutdown
  BY <1>7 DEF Shutdown, callVars, Current, Sessions, Readers, Answers, Executions,
     CatalogIsCurrent, EntitiesAreCurrent
<1>8. CASE Close
  BY <1>8 DEF Close, callVars, Current, Sessions, Readers, Answers, Executions,
     CatalogIsCurrent, EntitiesAreCurrent
<1>9. ASSUME NEW t \in Tasks, SearchEntities(t) PROVE Current'
  <2>1. Moves(t, "fetching", session[at[t]]) \/ Moves(t, "lockEntities", used[t])
    BY <1>9, SendMoves, GoMoves DEF SearchEntities, TypeOK
  <2>2. executed[t] = 0
    BY <1>9 DEF SearchEntities, Current, Executions
  <2>3. TaskMove(t, "fetching", session[at[t]]) \/ TaskMove(t, "lockEntities", used[t])
    BY <1>9, <2>1, <2>2 DEF SearchEntities, TaskMove
  <2> QED
    BY <2>3, TaskMoveCurrent
<1>10. ASSUME NEW t \in Tasks, LockEntities(t) PROVE Current'
  <2>1. CASE EndTask(t)
    <3>1. Moves(t, "done", used[t])
      BY <1>10, <2>1, EndLocks DEF LockEntities, TypeOK
    <3>2. TaskMove(t, "done", used[t])
      BY <1>10, <2>1, <3>1 DEF LockEntities, EndTask, TaskMove
    <3> QED
      BY <3>2, TaskMoveCurrent
  <2>2. CASE ~EndTask(t)
    <3>1. Moves(t, "fetching", session[at[t]])
      BY <1>10, <2>2, SendMoves DEF LockEntities, TypeOK
    <3>2. executed[t] = 0
      BY <1>10 DEF LockEntities, Current, Executions
    <3>3. TaskMove(t, "fetching", session[at[t]])
      BY <1>10, <2>2, <3>1, <3>2 DEF LockEntities, TaskMove
    <3> QED
      BY <3>3, TaskMoveCurrent
  <2> QED
    BY <2>1, <2>2
<1>11. ASSUME NEW t \in Tasks, CallTool(t) PROVE Current'
  <2>1. Moves(t, "calling", session[at[t]])
    BY <1>11, SendMoves DEF CallTool, TypeOK
  <2>2. executed[t] = 0
    BY <1>11 DEF CallTool, Current, Executions
  <2>3. TaskMove(t, "calling", session[at[t]])
    BY <1>11, <2>1, <2>2 DEF CallTool, TaskMove
  <2> QED
    BY <2>3, TaskMoveCurrent
<1>12. ASSUME NEW t \in Tasks, Cancel(t) PROVE Current'
  <2>1. Moves(t, "done", used[t])
    BY <1>12, EndLocks DEF Cancel, TypeOK
  <2>2. TaskMove(t, "done", used[t])
    BY <1>12, <2>1 DEF Cancel, EndTask, TaskMove
  <2> QED
    BY <2>2, TaskMoveCurrent
<1>13. ASSUME NEW p \in Procs, Answer(p) PROVE Current'
  <2>1. /\ UNCHANGED <<session, catalog, entities, servers, made, at, goal, pc, used>>
        /\ \A q \in Procs : q # p => reply'[q] = reply[q]
        /\ \A t \in Tasks : t # p => executed'[t] = executed[t]
    BY <1>13 DEF Answer, Replies, TypeOK, Fields, Calls
  <2>2. Sessions' /\ Readers' /\ CatalogIsCurrent' /\ EntitiesAreCurrent'
    BY <2>1 DEF Current, Sessions, Readers, CatalogIsCurrent, EntitiesAreCurrent
  <2>3. Answers'
    BY <1>13, <2>1 DEF Current, Answers, Answer, Site
  <2>4. Executions'
    <3> SUFFICES ASSUME NEW t \in Tasks
                 PROVE  \/ executed'[t] = 0
                        \/ /\ executed'[t] = 1
                           /\ \/ pc[t] = "done"
                              \/ pc[t] = "calling" /\ reply'[t].kind \in {"ok", "failed"}
      BY <2>1 DEF Executions
    <3>1. CASE t # p
      BY <2>1, <3>1 DEF Current, Executions
    <3>2. CASE t = p
      <4>1. executed[t] = 0
        BY <1>13, <3>2 DEF Answer, Pending, Waiting, NoReply, Current, Executions
      <4>2. CASE executed' = executed
        BY <4>1, <4>2
      <4>3. CASE executed' # executed
        <5>1. /\ pc[t] = "calling" /\ executed' = [executed EXCEPT ![t] = @ + 1]
              /\ \E kind \in {"ok", "failed"} : Replies(t, kind)
          BY <1>13, <3>2, <4>3 DEF Answer
        <5>2. executed'[t] = 1
          BY <4>1, <5>1 DEF TypeOK, Fields
        <5>3. reply'[t].kind \in {"ok", "failed"}
          BY <5>1 DEF Replies, NoReply, TypeOK, Calls
        <5> QED
          BY <5>1, <5>2, <5>3
      <4> QED
        BY <4>2, <4>3
    <3> QED
      BY <3>1, <3>2
  <2> QED
    BY <2>2, <2>3, <2>4 DEF Current
<1>14. ASSUME NEW p \in Procs, Fail(p) PROVE Current'
  <2>1. /\ UNCHANGED <<session, catalog, entities, servers, made, at, goal, pc, used, executed>>
        /\ \A q \in Procs : q # p => reply'[q] = reply[q]
        /\ reply'[p].kind = "failed"
    BY <1>14 DEF Fail, Replies, NoReply, TypeOK, Calls
  <2>2. Sessions' /\ Readers' /\ CatalogIsCurrent' /\ EntitiesAreCurrent'
    BY <2>1 DEF Current, Sessions, Readers, CatalogIsCurrent, EntitiesAreCurrent
  <2>3. Answers' /\ Executions'
    BY <2>1 DEF Current, Answers, Executions
  <2> QED
    BY <2>2, <2>3 DEF Current
<1>15. ASSUME NEW s \in Sites, Change(s) PROVE Current'
  BY <1>15 DEF Change, callVars, Current, Sessions, Readers, Answers, Executions,
     CatalogIsCurrent, EntitiesAreCurrent
<1>16. ASSUME NEW p \in Procs, LockTools(p) PROVE Current'
  <2>1. CASE session[Site(p)] = 0
    <3>1. p \in Tasks /\ EndTask(p)
      BY <1>16, <2>1 DEF LockTools
    <3>2. Moves(p, "done", used[p])
      BY <1>16, <3>1, EndLocks DEF LockTools, TypeOK
    <3>3. TaskMove(p, "done", used[p])
      BY <1>16, <3>1, <3>2 DEF LockTools, EndTask, TaskMove
    <3> QED
      BY <3>1, <3>3, TaskMoveCurrent
  <2>2. CASE session[Site(p)] # 0
    <3>1. Moves(p, "listing", session[Site(p)])
      BY <1>16, <2>2, SendMoves DEF LockTools, TypeOK
    <3>2. CASE p \in Tasks
      <4>1. executed[p] = 0
        BY <1>16, <3>2 DEF LockTools, Current, Executions
      <4>2. TaskMove(p, "listing", session[Site(p)])
        BY <1>16, <2>2, <3>1, <3>2, <4>1 DEF LockTools, TaskMove, Site
      <4> QED
        BY <3>2, <4>2, TaskMoveCurrent
    <3>3. CASE p \in Sites
      <4>1. p \in servers => goal[p] = "refetch"
        BY <1>16, <3>3 DEF LockTools, Current, Sessions
      <4>2. /\ pc[p] \in Connected /\ Site(p) = p
            /\ UNCHANGED <<session, catalog, entities, servers, made, at, executed, goal>>
        BY <1>16, <2>2, <3>3 DEF LockTools, Site, Connected
      <4>3. LoopMove(p, "listing", session[p])
        BY <3>1, <4>1, <4>2 DEF LoopMove
      <4> QED
        BY <3>3, <4>3, LoopMoveCurrent
    <3> QED
      BY <3>2, <3>3 DEF Procs
  <2> QED
    BY <2>1, <2>2
<1>17. ASSUME NEW s \in Sites, Register(s) PROVE Current'
  <2>1. /\ \A x \in Sites : x # Site(s) => catalog'[x] = catalog[x]
        /\ catalog'[Site(s)].from = used[s]
    BY <1>17, SiteIsSite DEF Register, StoreCatalog, TypeOK, Fields
  <2>2. Moves(s, "fetching", session[s]) \/ Moves(s, "up", used[s])
    BY <1>17, SendMoves, GoMoves DEF Register, Up, TypeOK
  <2>3. /\ pc'[s] = "up" => entities'[s] = 0
        /\ \A x \in Sites : x # s => entities'[x] = entities[x]
        /\ goal' = goal
    BY <1>17, <2>2 DEF Register, Up, Send, TypeOK, Fields, Calls
  <2>4. LoopMove(s, "fetching", session[s]) \/ LoopMove(s, "up", used[s])
    BY <1>17, <2>1, <2>2, <2>3 DEF Register, StoreCatalog, LoopMove, Moves, Site,
       Connected
  <2> QED
    BY <2>4, LoopMoveCurrent
<1>18. ASSUME NEW s \in Sites, RegisterFails(s) PROVE Current'
  BY <1>18, LoopFailsCurrent DEF RegisterFails
<1>19. ASSUME NEW p \in Procs, FetchUnknown(p) PROVE Current'
  <2>1. CASE FetchRaises(p)
    <3>1. CASE p \in Sites
      <4>1. Moves(p, "up", used[p]) /\ entities' = [entities EXCEPT ![p] = 0] /\ goal' = goal
        BY <1>19, <2>1, <3>1, RaiseLocks DEF FetchUnknown, TypeOK
      <4>2. /\ pc[p] \in Connected /\ entities'[p] = 0
            /\ \A x \in Sites : x # p => entities'[x] = entities[x]
            /\ UNCHANGED <<session, servers, made, at, executed>>
        BY <1>19, <3>1, <4>1 DEF FetchUnknown, Connected, TypeOK, Fields
      <4>3. LoopMove(p, "up", used[p])
        BY <1>19, <3>1, <4>1, <4>2 DEF FetchUnknown, LoopMove
      <4> QED
        BY <3>1, <4>3, LoopMoveCurrent
    <3>2. CASE p \in Tasks
      <4>1. Moves(p, "done", used[p]) /\ entities' = entities /\ goal' = goal
        BY <1>19, <2>1, <3>2, RaiseLocks DEF FetchUnknown, TypeOK
      <4>2. TaskMove(p, "done", used[p])
        BY <1>19, <3>2, <4>1 DEF FetchUnknown, TaskMove
      <4> QED
        BY <3>2, <4>2, TaskMoveCurrent
    <3> QED
      BY <3>1, <3>2 DEF Procs
  <2>2. CASE Refresh(p, "refetch", session[Site(p)]) /\ UNCHANGED <<entities, ready, entityLock>>
    <3>1. /\ Moves(p, "listing", session[Site(p)]) \/ Moves(p, "lockTools", used[p])
          /\ goal'[p] = "refetch"
          /\ \A q \in Procs : q # p => goal'[q] = goal[q]
      BY <2>2, RefreshMoves DEF TypeOK
    <3>2. CASE p \in Tasks
      <4>1. executed[p] = 0
        BY <1>19, <3>2 DEF FetchUnknown, Current, Executions
      <4>2. TaskMove(p, "listing", session[Site(p)]) \/ TaskMove(p, "lockTools", used[p])
        BY <1>19, <2>2, <3>1, <3>2, <4>1 DEF FetchUnknown, TaskMove, Site
      <4> QED
        BY <3>2, <4>2, TaskMoveCurrent
    <3>3. CASE p \in Sites
      <4>1. /\ pc[p] \in Connected /\ Site(p) = p
            /\ UNCHANGED <<session, catalog, entities, servers, made, at, executed>>
        BY <1>19, <2>2, <3>3 DEF FetchUnknown, Site, Connected
      <4>2. LoopMove(p, "listing", session[p]) \/ LoopMove(p, "lockTools", used[p])
        BY <3>1, <4>1 DEF LoopMove
      <4> QED
        BY <3>3, <4>2, LoopMoveCurrent
    <3> QED
      BY <3>2, <3>3 DEF Procs
  <2> QED
    BY <1>19, <2>1, <2>2 DEF FetchUnknown
<1>20. ASSUME NEW p \in Procs, Refetch(p) PROVE Current'
  <2>1. /\ \A x \in Sites : x # Site(p) => catalog'[x] = catalog[x]
        /\ catalog'[Site(p)].from = used[p]
    BY <1>20, SiteIsSite DEF Refetch, StoreCatalog, TypeOK, Fields
  <2>2. CASE FetchRaises(p)
    <3>1. CASE p \in Sites
      <4>1. Moves(p, "up", used[p]) /\ entities' = [entities EXCEPT ![p] = 0] /\ goal' = goal
        BY <1>20, <2>2, <3>1, RaiseLocks DEF Refetch, TypeOK
      <4>2. /\ pc[p] \in Connected /\ entities'[p] = 0
            /\ \A x \in Sites : x # p => entities'[x] = entities[x]
            /\ UNCHANGED <<session, servers, made, at, executed>>
        BY <1>20, <3>1, <4>1 DEF Refetch, Connected, TypeOK, Fields, StoreCatalog
      <4>3. LoopMove(p, "up", used[p])
        BY <1>20, <2>1, <3>1, <4>1, <4>2 DEF Refetch, LoopMove, StoreCatalog, Site
      <4> QED
        BY <3>1, <4>3, LoopMoveCurrent
    <3>2. CASE p \in Tasks
      <4>1. Moves(p, "done", used[p]) /\ entities' = entities /\ goal' = goal
        BY <1>20, <2>2, <3>2, RaiseLocks DEF Refetch, TypeOK
      <4>2. TaskMove(p, "done", used[p])
        BY <1>20, <2>1, <3>2, <4>1 DEF Refetch, TaskMove, StoreCatalog, Site
      <4> QED
        BY <3>2, <4>2, TaskMoveCurrent
    <3> QED
      BY <3>1, <3>2 DEF Procs
  <2>3. CASE /\ Moves(p, "fetching", session[Site(p)])
             /\ UNCHANGED <<entities, ready, goal, entityLock>>
    <3>1. CASE p \in Tasks
      <4>1. executed[p] = 0
        BY <1>20, <3>1 DEF Refetch, StoreCatalog, Current, Executions
      <4>2. TaskMove(p, "fetching", session[Site(p)])
        BY <1>20, <2>1, <2>3, <3>1, <4>1 DEF Refetch, StoreCatalog, TaskMove, Site
      <4> QED
        BY <3>1, <4>2, TaskMoveCurrent
    <3>2. CASE p \in Sites
      <4>1. LoopMove(p, "fetching", session[Site(p)])
        BY <1>20, <2>1, <2>3, <3>2 DEF Refetch, StoreCatalog, LoopMove, Site, Connected
      <4> QED
        BY <3>2, <4>1, LoopMoveCurrent
    <3> QED
      BY <3>1, <3>2 DEF Procs
  <2> QED
    BY <1>20, <2>2, <2>3, SendMoves DEF Refetch, TypeOK
<1>21. ASSUME NEW p \in Procs, FetchFails(p) PROVE Current'
  <2>1. CASE FetchRaises(p)
    <3>1. CASE p \in Sites
      <4>1. Moves(p, "up", used[p]) /\ entities' = [entities EXCEPT ![p] = 0] /\ goal' = goal
        BY <1>21, <2>1, <3>1, RaiseLocks DEF FetchFails, TypeOK
      <4>2. /\ pc[p] \in Connected /\ entities'[p] = 0
            /\ \A x \in Sites : x # p => entities'[x] = entities[x]
            /\ UNCHANGED <<session, servers, made, at, executed>>
        BY <1>21, <3>1, <4>1 DEF FetchFails, Connected, TypeOK, Fields
      <4>3. LoopMove(p, "up", used[p])
        BY <1>21, <3>1, <4>1, <4>2 DEF FetchFails, LoopMove
      <4> QED
        BY <3>1, <4>3, LoopMoveCurrent
    <3>2. CASE p \in Tasks
      <4>1. Moves(p, "done", used[p]) /\ entities' = entities /\ goal' = goal
        BY <1>21, <2>1, <3>2, RaiseLocks DEF FetchFails, TypeOK
      <4>2. TaskMove(p, "done", used[p])
        BY <1>21, <3>2, <4>1 DEF FetchFails, TaskMove
      <4> QED
        BY <3>2, <4>2, TaskMoveCurrent
    <3> QED
      BY <3>1, <3>2 DEF Procs
  <2> QED
    BY <1>21, <2>1 DEF FetchFails
<1>22. ASSUME NEW p \in Procs, Fetched(p) PROVE Current'
  <2>1. CASE p \in Sites
    <3>1. Moves(p, "up", used[p]) /\ entities' = [entities EXCEPT ![p] = used[p]] /\ goal' = goal
      BY <1>22, <2>1, GoMoves DEF Fetched, Up, TypeOK
    <3>2. used[p] = session[p]
      BY <1>22, <2>1 DEF Fetched, Current, Readers
    <3>3. /\ pc[p] \in Connected /\ entities'[p] = used[p]
          /\ \A x \in Sites : x # p => entities'[x] = entities[x]
          /\ UNCHANGED <<session, catalog, servers, made, at, executed>>
      BY <1>22, <2>1, <3>1 DEF Fetched, Connected, TypeOK, Fields
    <3>4. LoopMove(p, "up", used[p])
      BY <2>1, <3>1, <3>2, <3>3 DEF LoopMove
    <3> QED
      BY <2>1, <3>4, LoopMoveCurrent
  <2>2. CASE p \in Tasks
    <3>1. EndTask(p) /\ entities' = [entities EXCEPT ![at[p]] = used[p]]
      BY <1>22, <2>2 DEF Fetched, Procs
    <3>2. Moves(p, "done", used[p])
      BY <1>22, <2>2, <3>1, EndLocks DEF Fetched, TypeOK
    <3>3. TaskMove(p, "done", used[p])
      BY <1>22, <2>2, <3>1, <3>2 DEF Fetched, EndTask, TaskMove, TypeOK, Fields
    <3> QED
      BY <2>2, <3>3, TaskMoveCurrent
  <2> QED
    BY <2>1, <2>2 DEF Procs
<1>23. ASSUME NEW t \in Tasks, Called(t) PROVE Current'
  <2>1. CASE EndTask(t)
    <3>1. Moves(t, "done", used[t])
      BY <1>23, <2>1, EndLocks DEF Called, TypeOK
    <3>2. TaskMove(t, "done", used[t])
      BY <1>23, <2>1, <3>1 DEF Called, EndTask, TaskMove
    <3> QED
      BY <3>2, TaskMoveCurrent
  <2>2. CASE WorthRetry(t) /\ Refresh(t, "recall", session[at[t]])
    <3>1. /\ Moves(t, "listing", session[at[t]]) \/ Moves(t, "lockTools", used[t])
          /\ \A q \in Procs : q # t => goal'[q] = goal[q]
      BY <2>2, RefreshMoves DEF TypeOK
    <3>2. executed[t] = 0
      BY <1>23, <2>2 DEF Called, WorthRetry, Current, Executions
    <3>3. TaskMove(t, "listing", session[at[t]]) \/ TaskMove(t, "lockTools", used[t])
      BY <1>23, <3>1, <3>2 DEF Called, TaskMove
    <3> QED
      BY <3>3, TaskMoveCurrent
  <2> QED
    BY <1>23, <2>1, <2>2 DEF Called
<1>24. ASSUME NEW t \in Tasks, Recall(t) PROVE Current'
  <2>1. /\ \A x \in Sites : x # Site(t) => catalog'[x] = catalog[x]
        /\ catalog'[Site(t)].from = used[t]
    BY <1>24, SiteIsSite DEF Recall, StoreCatalog, TypeOK, Fields
  <2>2. Moves(t, "calling", session[at[t]]) \/ Moves(t, "done", used[t])
    BY <1>24, SendMoves, GoMoves DEF Recall, TypeOK
  <2>3. executed[t] = 0
    BY <1>24 DEF Recall, StoreCatalog, Current, Executions
  <2>4. TaskMove(t, "calling", session[at[t]]) \/ TaskMove(t, "done", used[t])
    BY <1>24, <2>1, <2>2, <2>3 DEF Recall, StoreCatalog, TaskMove, Site
  <2> QED
    BY <2>4, TaskMoveCurrent
<1>25. ASSUME NEW t \in Tasks, RecallFails(t) PROVE Current'
  <2>1. Moves(t, "done", used[t])
    BY <1>25, EndLocks DEF RecallFails, TypeOK
  <2>2. TaskMove(t, "done", used[t])
    BY <1>25, <2>1 DEF RecallFails, EndTask, TaskMove
  <2> QED
    BY <2>2, TaskMoveCurrent
<1>26. CASE UNCHANGED vars
  BY <1>26 DEF vars, callVars, Current, Sessions, Readers, Answers, Executions,
     CatalogIsCurrent, EntitiesAreCurrent
<1> QED
  BY <1>1, <1>2, <1>3, <1>4, <1>5, <1>6, <1>7, <1>8, <1>9, <1>10, <1>11, <1>12, <1>13,
     <1>14, <1>15, <1>16, <1>17, <1>18, <1>19, <1>20, <1>21, <1>22, <1>23, <1>24, <1>25,
     <1>26 DEF Next, LoopStep, TaskStep, Resume

-----------------------------------------------------------------------------
(* The invariant holds in every reachable state. *)
THEOREM Invariance == Spec => []IInv
<1>1. Init => IInv
  BY InitIInv
<1>2. IInv /\ [Next]_vars => IInv'
  BY StepFields, StepCalls, StepHolders, StepCurrent DEF IInv, TypeOK
<1> QED
  BY <1>1, <1>2, PTL DEF Spec

(* Types, and the catalog's lock is held by the process that reads it.     *)
THEOREM TypeCorrect == Spec => []TypeOK
<1>1. IInv => TypeOK
  BY DEF IInv
<1> QED
  BY <1>1, Invariance, PTL

(* A listed site offers the tools of its present session.                  *)
THEOREM NoStaleCatalog == Spec => []CatalogIsCurrent
<1>1. IInv => CatalogIsCurrent
  BY DEF IInv, Current
<1> QED
  BY <1>1, Invariance, PTL

(* A site that is up has the entities of its present session, or none.     *)
THEOREM NoStaleEntities == Spec => []EntitiesAreCurrent
<1>1. IInv => EntitiesAreCurrent
  BY DEF IInv, Current
<1> QED
  BY <1>1, Invariance, PTL

(* No tool call is executed twice by its retry.                            *)
THEOREM RetryIsSafe == Spec => []CallsRunOnce
<1>1. IInv => CallsRunOnce
  BY DEF IInv, Current, Executions, CallsRunOnce
<1> QED
  BY <1>1, Invariance, PTL
=============================================================================
