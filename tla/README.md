# Specifications of the hh-hassio-repo add-ons

TLA+ models of the Home Assistant add-ons in this repository, checked with TLC
on small instances and, for the safety properties that matter most, proved with
TLAPS for every value of the constants.  Names of variables, actions and phases
are those of the source; line numbers are those of the modelled commit.

Contents: 1 the system, 2 the modules, 3 correspondence with the code, 4 runs
and bounds, 5 fairness, 6 what is proved and how, 7 disagreements with the
documentation, 8 what is not modelled, 9 plan.

## 1. The system

The repository holds five add-ons that do not interact with one another.  Three
have program logic of their own.

### ACME Courier (`acme-courier`, Go)

A daemon that obtains wildcard certificates through DNS-01 challenges at
Namecheap, stores them, copies them to targets and restarts apps.

| part | state | operations | interacts with |
|---|---|---|---|
| daemon, `cmd/acme-courier/main.go` | channel `triggers` of capacity 1, current configuration, scheduler | cron trigger, poll of the options, reconcile loop | reconciliation (call) |
| reconciliation, `internal/certmanager/manager.go` | four PEM files, deployment and restart markers on disk; a `failures` list and file set in memory | `Reconcile`, `issue`, `storeCertificate`, `deployTargets`, `restartApps` | DNS client, deployment, Supervisor (calls) |
| DNS client, `internal/namecheap/client.go` | none of its own: the zone at the provider | `Present`, `Cleanup` | Namecheap API, shared with other instances of the add-on |
| deployment, `internal/deploy/deploy.go` | the target's files | `deployLocal`, `deployRemote` | SSH host or local directory |
| Supervisor client, `internal/supervisor/client.go` | none | `Restart` | Supervisor API |
| configuration, `internal/config/config.go` | none | parse, validate | files |

Hard behaviours: the provider's API replaces the whole zone, so concurrent
instances overwrite each other, and a request may be applied after its sender
gave up; the process may die between any two file replacements; a target or an
app may fail in the middle of a list; nothing is retried before the next
scheduled run.  Correctness: the user's DNS records survive; success is
reported on evidence; challenges are cleaned up; a mixture of two certificates
is never deployed; a marker never vouches for what is not there; apps restart
only after deployment, and no restart or target is forgotten.

### MCP Orchestrator (`mcp-orchestrator`, Python, asyncio)

An HTTP server that answers chat requests with a language model that calls
tools at several Home Assistant sites over MCP.

| part | state | operations | interacts with |
|---|---|---|---|
| HTTP server, `server.py` | none but the objects of its lifespan | start, stop, Ollama-compatible endpoints | chat request, sensors, remote log |
| statistics, `StatsTracker` in `llm.py` | totals per site since the start | `record`, `snapshot` | sensors |
| chat request, `llm.py`, `request_budget.py` | `RequestBudget` (deadline, attempts, retry, speech, results), the input list | `chat`, `chat_stream_ollama`, `_execute_tool_calls` | model API, MCP connections, skills |
| MCP connections, `mcp_manager.py` | `_servers` per site, tool catalog, entities | connection loop, refresh, `call_tool`, routing | MCP servers |
| skills, `skills.py` | skill directory with a marker; per request a `SkillContext` and a `SkillSession` | seeding, loading, activation, injection | files the user edits, chat request |
| routing and policy, `_select_sites` and `BroadcastPolicy` in `llm.py` | none: computed when a request starts | choice of sites, check of every call | chat request, MCP connections |
| sensors, `ha_sensors.py` | none | push of a statistics snapshot, sensor by sensor | Home Assistant API |
| remote log, `remote_logging.py` | pending tasks, a lock, whether the container exists | append to the day's blob, creation, flush | blob storage |

Hard behaviours: model and tools may never answer, may answer when the deadline
has just passed, and the client may leave at every await; a timed-out attempt
is retried once; tool tasks run concurrently and have effects in the house;
sites disconnect while refreshes are under way; requests are concurrent, and so
are their pushes and log records; a first writer creates, and thereby empties,
the blob of its day; skills are added in front of a prompt that is in use; the
user edits files that the program is about to write.
Correctness: a request ends, and ends clean; an answer is not spoken twice; an
action that was executed is not repeated by the retry; nothing starts after
the deadline; what the catalog says matches a connected site; a request sees the
sites that its conversation means and calls no other; the prompt is complete and
in order at every model call; the user's skill files are left alone; what is
logged stays and is in order; counters do not go back.

### audio-powersave (Ruby)

A loop that reads PulseAudio events and switches an amplifier.  State: `@sinks`,
`@schedule`, `@state`.  The delayed switch-off runs on a pool thread and shares
`@state` with the loop without a lock.  Correctness: the amplifier follows the
audio; a pending switch-off can be cancelled.

### audio-player, dnsrobocert

Shell scripts that start a packaged program: no state, nothing to model.

## 2. The modules

| module | what it is |
|---|---|
| `NamecheapZone` | instances of the DNS client and their caller `issue` on one shared zone |
| `AtomicZone` | what the client promises to a caller that is alone: atomic additions and removals |
| `NamecheapZoneProofs` | theorems about `NamecheapZone` |
| `ChatRequest` | one chat request: the loop, model attempts, tool tasks, deadlines, disconnect |
| `ChatRequestProofs` | theorems about `ChatRequest` |
| `CertReconcile` | the daemon and the reconciliation of one certificate, up to the app restarts |
| `CertReconcileProofs` | theorems about `CertReconcile` |
| `AudioPowersave` | the event loop, the timer tasks and their HTTP calls |
| `AudioPowersaveProofs` | theorems about `AudioPowersave` |
| `SiteConnection` | the connection loops of MCP Orchestrator and the tool calls that share the sites with them |
| `SiteConnectionProofs` | theorems about `SiteConnection` |
| `RequestScope` | what one request may see and do: routing, broadcast policy, skills and prompt, while sites come and go |
| `RequestScopeProofs` | theorems about `RequestScope` |
| `SkillStore` | the skills folder: seeding, loading, crashes, updates, the user's edits |
| `SkillStoreProofs` | theorems about `SkillStore` |
| `Telemetry` | statistics, their push to the sensors, and the remote log, over several lives of the server |
| `Journal` | what the remote log promises to its callers: an append-only log, first come, first served |
| `TelemetryProofs` | theorems about `Telemetry` |
| `MC*` | instances for TLC; each `.cfg` is one run |

`NamecheapZone` and `CertReconcile` meet at one point: `issue`.  The first
models its DNS calls in detail and leaves out everything else; the second lets
an order succeed or fail as a whole.  What one assumes of the other is that
`issue` returns (`CallsReturn`) and that its failure changes no file.
`ChatRequest` and `SiteConnection` meet at `call_tool`: the first lets a tool
call end in any way or not at all, and cancels it at the deadline; the second
takes over that cancellation (`Cancel`) and models the call itself.
`RequestScope` lets the sites of `SiteConnection` come and go, and takes from
`ChatRequest` that the results of a batch are used in the order of its calls.
`Telemetry` takes from `ChatRequest` that a request is recorded once, when its
reply is settled (`CleanEnd`).  `SkillStore` and `Telemetry` meet in `lifespan`
only: the server starts when the skills are loaded.  Their product was tried and
has far more states than TLC can visit, without any behaviour that the two do
not have by themselves.

A module contains a few operators named after a definition with a suffix
(`MutatedNoMerge`, `TimeOutAgain`, ...).  They stand before that definition,
are used by no action, and each is a plausible error of the code; with it in the
definition's place the property it is listed with in `PROJECT.json` fails.

## 3. Correspondence with the code

`PROJECT.json` maps every definition to its lines.  The main points:

**NamecheapZone.**  `zone` is the record set at the provider; user's records
(`Base`) and challenges.  The list order and TTLs are abstracted: `Present`
adds a record only when it is absent and `Cleanup` drops every equal one.
`pc[c]` is the position in `Present`'s or `Cleanup`'s loop: read (`getHosts`),
write (`setHosts`, sent up to `HttpTries` times by `do`), settle and backoff
(`waitForMutation`), verify (the second `getHosts`).  `snap[c]` is the list
between read and write, the stale copy everything turns on.  `status` and
`stage` are `issue`'s: `CallPresent` covers the first publication and the
repairs during the propagation wait, `CallCleanup` the deferred cleanup on every
way out, with a fresh context.  `WriteFails` is a lost request, a lost reply, or
(`LateWrites`) a request applied at any later time, once.  `Crash` loses
`issue`'s list.

**ChatRequest.**  An action is the code from one await or yield to the next,
since asyncio code is not interrupted in between.  `pc` names the await.
`StartAttempt`, `TimeOut`, `Fail` and `EndAttempt` are `_start_attempt`,
`_retry_timeout`, the `except Exception` branch and the `finally` clause, which
may raise (`CloseFails`).  Tool tasks start in the order of creation and end in
any order.  Time is a counter up to the request's deadline; it may pass anywhere.
Model output is reduced to: text deltas (empty or not), a batch of calls, or an
answer.  A call is an action, one of the read-only tools, or one refused before
dispatch.  `spoken` and `dispatched` are history variables.

**CertReconcile.**  A file's content is a number: the revision of its
certificate or the number of its key.  The markers' digests are such contents,
so two markers are equal exactly when the digests' inputs are.  `live` is the
storage directory, `target` and `running` the outside world.  Each file
replacement is an action (`StoreFile`, `PutFile`); `atomicWrite` makes it atomic.
`pos` and `put` are loop indices, lost by `Crash` together with `files`.
`ConfigChange` sets or clears `force_renew` or makes the current certificate
unwanted (changed domains).  `pending` is the trigger channel.

**AudioPowersave.**  `task` holds the states of `Concurrent::ScheduledTask`;
`cancel` works on a pending one only.  `post[t]` is the HTTP call of a thread,
0 being the loop: sent, applied by Home Assistant, answered.  `switch` reads
`@state` when the call is made and writes it when the call returns.  `events` is
the pipe from `pactl`; `playing` is what PulseAudio really plays.

**SiteConnection.**  An action is again the code between two awaits.  A loop and
a task are both processes; `pc` names the await: `listing` is `list_tools`,
`fetching` and `calling` are `call_tool` of the session, `lockTools` and
`lockEntities` wait for the two locks of a site.  `session[s]` is the number of
the session object, so that data can be compared with it: `catalog` and
`entities` carry the session they were read in.  An answer is given (`Answer`,
`Fail`) and seen (the process's next action) in two steps, between which the
loop may clear the site.  `async with` frees a lock on every way out
(`EndTask`, `LoopFails`, `StoreCatalog`).  A tool's name changes with the
version of the catalog; `Answer` with `unknown` stands for every error that
`_is_tool_not_found_error` accepts, also one of a tool that does exist, and it
is assumed that such an error means that nothing was executed.  `Connect` is
possible only when no answer of an older session is still unseen: the retry
delay is five seconds or more, and the event loop resumes a process at once.

**RequestScope.**  A message is the outcome of matching its text: the sites it
names, whether it holds a global keyword, whether it reads as a follow-up.
Matching looks at connected sites only (`Matched`), and levels 1 and 3 only when
some connected site has keywords (`HasKeywords`); level 2 is the walk back of
`_followup_sites`.  `Arrive` is the head of both endpoints, which has no await.
A prompt is a sequence of items; `Inject` is the slice assignment of
`SkillSession.inject`, with the count of the previous injection.  `ToolBatch` is
the loop over a batch's results and the `_update_skills` after it.  `Reaches` is
what lies between a call of the model and a site: the policy, the request's tool
list, and the connection.

**SkillStore.**  A `SKILL.md` is the text of a release, a user's valid text, an
invalid one, or absent with or without its folder.  `Seed` and `Link` are the two
halves of `_write_if_missing`: the look for the file and the `os.link` that
publishes it.  `Read` takes one file per step, since the user may edit between
two.  `End` is any end of the process; `Update` another image.

**Telemetry.**  Requests are numbered as they finish, and a sensor's value is the
number of requests it sums up, with the life of the server it comes from.  Each
post of a push is an action.  Whoever stops waiting for the answer to its post
gives the post up (`GiveUp`): the post timed out, or the push was cancelled with
the response of a client that left (`Leave`), or the process ended (`Exit`).  Home
Assistant never gets such a post, or applies it later (`ApplyLate`), after newer
ones and perhaps in the next life; `crossed` records that this may happen, or that
pushes overlapped.  `queue` is the set `_pending` in the order in which its tasks came
to the lock; the head holds it.  `stage` is where a record is in `log_event`;
`blob` and `created` are the container's, and outlive the process.
`append_block` may be applied although it fails, or twice when the SDK repeats
it; `create_append_blob` empties a blob that exists.  Of all this `Journal` has only
the records in their order and the lines: `ImplementsJournal` maps the stages of
a record to its fate.

## 4. Runs and bounds

| run | instance | properties |
|---|---|---|
| `zone_faults` | two instances, one challenge each, two attempts, a repair, crashes, late writes | `TypeOK`, `BasePreserved`, `ReportsAreVerified`, `RemovedStaysGone`, `CallsReturn`, `PublishedIsCleanedUp` |
| `zone_single` | one instance, two challenges, three attempts, two HTTP tries | `ImplementsAtomicZone` |
| `zone_converge` | two instances, no faults | `CleanupsConverge` fails (section 7) |
| `chat_stream` | streamed and whole, three iterations, two calls per response | `TypeOK`, `AttemptsBounded`, `OneVoice`, `CleanEnd`, `NoRepeatAfterRetry`, `NothingStartsLate`, `RequestEnds` |
| `cert_own` | own keys or one for all, two targets, two apps, two faults, a configuration change | `TypeOK`, `OneIssuance`, `MarkersAreTrue`, `RestartAfterDeploy`, `RestartsAreTrue`, `EventuallyConsumed` |
| `cert_fresh` | one key, one target, one fault | `ReusedFilesAreFresh` fails (section 7) |
| `audio_events` | two sink inputs, six events, one failed call | `TypeOK`, `TimerMeansSilence`, `FollowsUnlessRaced` |
| `audio_crossed` | the same with four events and no failed call | `IncreaseCalls` fails (section 7) |
| `site_connection` | one site, two tasks, one change of its tools, one lost connection or failed attempt | `TypeOK`, `CatalogIsCurrent`, `EntitiesAreCurrent`, `CallsRunOnce`, `SitesComeBack` |
| `request_scope` | two sites, one with keywords, three skills, three messages, three iterations of up to two calls | `TypeOK`, `ScopeIsMeant`, `CallsStayInScope`, `PromptIsComplete` |
| `skill_store` | three names, two bundled, two releases, three starts, three edits | `TypeOK`, `LeavesFilesAlone`, `DefaultsAreServed`, `RestartTakesEdits` |
| `telemetry` | two requests, two sensors, two lives, two days, two faults | `TypeOK`, `ImplementsJournal`, `OnlyCrossedPushesGoBack`, `FlushEnds` |

Why the bounds are enough:

- *Zone.*  Interference needs two instances; with two attempts a call can lose
  a race and win the next.  `MaxCalls` = 2 allows one repair.  In `zone_faults`
  `HttpTries` is 1: sending a request again after a lost reply has the same
  effect on the zone as a late application, which that run has; `zone_single`
  has the retries themselves.  The late set holds requests of any age.
- *Chat.*  Three iterations: a batch before the retry, a repetition after it,
  and an answer.  `LLMTimeout` 1 of `RequestTimeout` 3 lets the attempt's and
  the request's deadline fire apart and together.  Two deltas: one before and
  one after a point where a timeout may strike.  `MaxIterations` is also
  reached.
- *Certificates.*  Three revisions can be mixed on disk, in a target and in a
  marker; `Spare` keeps one revision for every fault that may still come, so
  that the bound never makes renewal impossible while one is due (that would
  break `EventuallyConsumed` for a reason the code does not have).  Two faults:
  one destroys, the other hits the repair.  `CronFires` is unbounded.
- *Audio.*  Two sink inputs: one left when another stops.  Six events make
  three tasks, so that one may be running, one cancelled and one pending.
- *Sites.*  Sites share nothing but `ready` and `shutdown`, so one site is
  enough for TLC (the proofs have any number).  Two tasks: one may hold a lock
  for which the other and the loop wait.  One lost connection separates two
  sessions; failed calls (`Fail`) are not bounded.  With one change of the tools
  a name is old or it is not, and `unknown` is possible for both.
- *Scope.*  A chain of two follow-ups behind a standalone message needs three
  messages.  Two sites: one in scope and one beside it, origin and target of a
  broadcast.  Three skills: one that is in the prompt from the start, and two
  that are activated later and go in front of it; three iterations inject three
  times.  `ScopeIsMeant` assumes that the sites which the conversation names are
  connected and that some connected site has keywords: without the first, neither
  the code nor its documentation says what is right (section 8); without the
  second they disagree (section 7).
- *Skills.*  Two bundled skills can be half seeded, the third name is the
  user's own.  Two starts may fail before the third succeeds, with an update
  between them.
- *Telemetry.*  Two requests overlap in every way; two sensors can show
  different totals; the second life starts its totals at 0; the second day has
  a blob of its own, also for a record that waited past midnight.  Posts that are
  given up by a client that leaves or by the end of the process are not counted
  as faults, so they come on top of the two.

Deadlock checking is off (`CHECK_DEADLOCK FALSE`) where the modelled process
really comes to an end: a certificate order, a request, an add-on whose `pactl`
has ended, connections that are closed, the bounded lives of a server.  `CertReconcile`'s daemon never ends and is checked for deadlock.

## 5. Fairness

- `NamecheapZone`: weak fairness of each instance's steps and of the deferred
  cleanup.  Every wait in the client is a timer with a context, `http.Client`
  has a timeout, and `issue` runs `Cleanup` under a context with a timeout.  No
  fairness for new calls, late writes, or crashes, and none that makes an API
  call succeed.
- `ChatRequest`: weak fairness of time, of the program's own steps (the event
  loop runs what is ready; timers fire) and of the client's reading.  A
  connected client that stops reading holds the request at a yield, which the
  code has no timer for.  None for the model or the tools: `RequestEnds` holds
  although they may never answer.  Closing the stream counts as an own step: it
  releases a local connection.
- `CertReconcile`: weak fairness of the cron job and of the daemon's progress.
  Failures are not fair and at most `MaxFaults`: the property is that finitely
  many failures are made good, since with failures for ever nothing can be
  promised.
- `AudioPowersave`: safety only.
- `RequestScope`, `SkillStore`: safety only.
- `Telemetry`: weak fairness of the log's tasks and of the closing of the server.
  Every call of the blob SDK ends, with success or an error, since the SDK has
  timeouts; none is assumed to succeed.  That the server comes to its flush is not
  claimed (`Stop` has no fairness), so neither is that `llm_client.close()`, which
  stands before it, returns; from the flush on, `FlushEnds` needs the log alone.
  Nothing is assumed of pushes, which the flush does not wait for.
- `SiteConnection`: weak fairness of the loops' and the tasks' own steps (the
  event loop; the retry delay is a timer), with `Cancel` among the tasks' steps
  since every request has a deadline; and of a connected site's answer to its
  loop.  None for answers to tasks: `SitesComeBack` holds although a task may
  hold the catalog's lock for an answer that is lost, because its deadline
  frees it.  Lost connections are at most `MaxFaults`.  A connection that dies
  without anybody noticing is not modelled; nothing could be promised of it,
  since the loop waits without a timeout.

## 6. What is proved

All proofs hold for arbitrary sets and bounds, under the named assumptions of
the modules (`OwnerAssumption`, `BoundAssumption`, ...), which TLC evaluates
in the runs.  Each proof module defines an inductive invariant `IInv`, proves
that `Init` implies it and that every action keeps it, and derives the theorems.

`NamecheapZoneProofs`: `TypeCorrect` (with at most `MutationAttempts` attempts),
`UserRecordsSurvive` (`BasePreserved`) and `CleanupIsFinal`
(`RemovedStaysGone`).  The invariant adds that every list on its way to the
provider, in a client's hands or late, contains the user's records: such a list
is always a changed copy of a zone that was served.  `SuccessIsVerified`
(`ReportsAreVerified`) needs only the types: the two actions that return success
look at the zone they have read.  `AloneIsAtomic` (`ImplementsAtomicZone`) assumes
one instance and no late requests (`Alone`) and adds `AloneInv`: the list that a
pending `setHosts` carries is still the change of the zone as it is, and every record
that `issue` has listed is served, unless its own cleanup is under way.  From these,
whatever an attempt does is one atomic change, a true report, a given up cleanup
or nothing (`Attempted`).  `CallsAreFinite` is the safety part of `CallsReturn`: a
call has at most `MutationAttempts * (HttpTries + 4)` steps of its own, 42 with the
code's constants.  `StepsLeft` counts what is left of them; each step takes some
away and no other instance brings any back.  What fairness adds, that a step which can
be taken is taken, is left to TLC.

`ChatRequestProofs`: `OneRetryPerRequest`, `NoAnswerSpokenTwice`,
`EveryEndIsClean`, `ActionsRunOnceAfterRetry`, `DeadlineStopsWork` and
`TypeCorrect`.  The invariant ties the attempt's number to the retry flag, speech
to the attempts it came from, open streams and running tasks to the phase, and
dispatched actions to recorded results: every action of an earlier iteration
has left a result, which is what makes its reuse after the retry possible.
`RequestIsFiniteWork` does for `RequestEnds` what `CallsAreFinite` does for
`CallsReturn`: `WorkLeft` adds up the iterations to come, the rest of the running
one (its tool tasks by their number, two steps each) and the retry, and every step
lowers it but the passing of time and of text.  The point is the retry: it leads
back to an attempt's beginning, and is worth the steps it repeats because it is
granted once.  The bounds of the model on time and text play no part.

`CertReconcileProofs`: `SkippingIsSafe` (`MarkersAreTrue`), `DeployedBeforeRestart`,
`NoRestartForgotten`, `TypeCorrect`, and `NoMixtureDeployed` (`OneIssuance`, which
speaks of keys that are not reused).  The argument is that contents only grow: a stored file is never
replaced by an older one, no marker is ahead of the stored files, so a marker
equal to the stored files was written when they were these and the target has not
changed since.  For `OneIssuance` the files are ordered as they are stored
(cert, chain, fullchain, privkey: each at least as new as the next), and equal
numbers at both ends leave no room in between.

`AudioPowersaveProofs`: `NoStrayTimer` (`TimerMeansSilence`), `AmplifierFollows`
(`FollowsUnlessRaced`) and `TypeCorrect`.  The invariant says that without a race
or a failure the loop and the tasks take turns in `switch`, and what `@state`
says of the amplifier in every phase of a call.

`SiteConnectionProofs`: `NoStaleCatalog` (`CatalogIsCurrent`), `NoStaleEntities`
(`EntitiesAreCurrent`), `RetryIsSafe` (`CallsRunOnce`) and `TypeCorrect`, whose last
part says that the catalog's lock is held by exactly the process that reads the
catalog.  That is what keeps the catalog current: the loop lists a site in the
step in which it frees the lock, so nobody is left then who reads in an earlier
session, and whoever begins later finds the present one.  The entities have
another lock, which the loop does not take; there the invariant says that an
unseen answer is one of the last session.  Most actions are one of three kinds
(`TaskMove`, `LoopMove`, `LoopFails`), each with one lemma.

`SkillStoreProofs`: `FilesLeftAlone` (`LeavesFilesAlone`), `DefaultsServed`
(`DefaultsAreServed`), `EditsTaken` (`RestartTakesEdits`) and `TypeCorrect`.  The
invariant says what each phase knows of the files behind and before the loop's
position, for the skills the user has not touched, and that the marker is
written after all of them.

`TelemetryProofs`: `LogIsAppendOnly` (`ImplementsJournal`), `PushesOrdered`
(`OnlyCrossedPushesGoBack`), `TypeCorrect`, and `LogSound`, which says in one
invariant what the journal means for the blobs: what was written is there, a
closed log is complete, the lines are in order.  The waiters of the lock are in the
order of their numbers and behind every line that is written; only the holder has
found its blob missing, so what it creates it does not empty.  Every step does
one of five things to the log (`LogSteps`): nothing, a record joins, the holder
advances, the holder ends, the process dies.  Under the refinement mapping these are
a stutter or `Close`, `Offer`, a stutter, `Settle` and `Die` of the journal (`JournalStep`), and
the emptying of a blob by `CreateBlob` disappears, because the blob is empty then.
For the sensors the invariant says that until pushes cross there is at most one,
of a total no sensor exceeds, and no post that was given up is left.
`PushesOrdered` thus says no more than the code gives: a sensor may go back when
pushes overlap and when a post is given up, by a timeout, a client that leaves or
the end of the process (`GiveUpFacts`), and in no other case.

`RequestScopeProofs`: `CallsInScope` (`CallsStayInScope`), `ScopeMeant`
(`ScopeIsMeant`), `PromptComplete` (`PromptIsComplete`), `TypeCorrect` and
`SkillsByPriority`.  A policy with an origin has the one site that the caller
declared, because a singleton that meets the connected sites lies in them, and it is
not computed again when sites change.  For `ScopeMeant` the code's walk back from
the last message and the meaning's recursion from the first have to meet: `Earlier`
and `WalkEnds` stop at the newest message that names sites or stands by itself, and
the meant route is handed on unchanged over every follow-up behind it
(`RouteIsHandedOn`).  For `PromptComplete` the invariant `PromptInv` splits the prompt
into the items of the injected skills, as many as were counted, and the rest, which
only grows at its end; the next injection cuts exactly the former (`InjectReplaces`).
That there is an order of the skills to inject is not obvious for an arbitrary finite
set: `SkillsByPriority` builds it.

The last module needs induction, over messages and over the number of skills.
The library's induction theorems cannot be used (they take an operator), but its
`WFMin` is about sets: `SmallestNumber` and `AllNumbers` state it for sets of
numbers, and each induction names the set of the numbers for which its claim holds.
For `MeantRoute`, a recursive function, `SolutionExists` builds a function that
satisfies the equation, and so the `CHOOSE` behind the definition has one to choose.

Every safety property that a passing run checks, invariant or action property, is
stated by a theorem, and so are both refinements.  Only model-checked are the
liveness properties (`CallsReturn`, `PublishedIsCleanedUp`, `RequestEnds`,
`EventuallyConsumed`, `SitesComeBack`, `FlushEnds`): they rest on fairness, and
so on `ENABLED`, which TLAPS does not support.

## 7. Disagreements with the documentation

- `zone_converge`: `acme-courier/DOCS.md:89` says that concurrent removals
  converge safely.  They do not when one instance verifies before the other
  writes its stale copy, and both still report success; the challenge stays in
  the zone.  What does hold is `RemovedStaysGone`: a removed challenge returns
  only through a copy that was taken before its removal.
- `cert_fresh`: `acme-courier/DOCS.md:157` says that PEM files are reused until they
  enter the renewal window.  With `reuse_key` a crash after the first of four
  replaced files leaves a set that validates and whose `fullchain.pem` is
  already in the window; only `cert.pem` is looked at.
- `audio_crossed`: `audio-powersave/DOCS.md:3` says of the number of sink inputs
  that it is zero at first and that "upon an increase it calls" the endpoint.  In
  the run the amplifier is on, the last sink input is gone and the switch-off call
  is sent but not answered when the next sink input appears: `@state` still says
  `on`, `switch` returns without a call, and the amplifier is switched off while
  audio plays.  `IncreaseCalls` is about the missing call only.  Another order has
  the same end and breaks no sentence of the documentation: the on call is made
  while the off call is under way, and Home Assistant takes the off call last.
  `FollowsUnlessRaced` exempts both (`raced`).

Two things the documentation does not speak of show up as well: a
`Present` that fails after its write was applied leaves a record that is never
cleaned up, and an app is restarted again with the same revision when a later
app of the list fails, because one marker covers the list.

Two more were found by reading and have no run.  `mcp-orchestrator/README.md:45`
says that without a keyword or follow-up "the orchestrator detects the origin site
from the Ollama integration's Instructions"; `_select_sites` looks at them only
when some connected site has keywords (`llm.py:635`), and sends all tools
otherwise.  `ByInstructions` has the code's guard and `ScopeIsMeant` leaves the
case out.  The other is about the cleaning of arguments, which is not
modelled: `mcp-orchestrator/README.md:130` says that duplicate names "retain
only the area or domain needed to disambiguate them".  For the operations that
keep `area` (`_ASSIST_AREA_ACTION_TOOLS`) `_sanitize_assist_arguments` drops the
domain that has singled out one of several entities of a name
(`mcp_manager.py:1171-1177`), and the second pass over the same arguments, in
`call_tool` (1273), then refuses them as ambiguous.

## 8. What is not modelled

- ACME Courier: the ACME protocol inside `issue` and the propagation check (DNS),
  draft mode, several certificates (independent, reconciled one after the
  other), a change of the target or restart lists, the temporary files of an
  SSH upload, the one-shot mode, configuration parsing.  Edits of the zone by a
  user at the same moment: the API has no compare-and-swap and the code can do
  nothing about them.
- MCP Orchestrator.  Connections: two sites with one name, which the
  configuration does not exclude and which would share an entry of `_servers`;
  catalogs of several pages (their errors are `Fail`); argument cleaning and
  the search among entities, which are pure functions.
  Requests: the words of prompts and texts, the entity context, the fields of an
  interaction record.  Routing when a site that the conversation names is not
  connected: the walk back of `_followup_sites` matches connected sites only, so
  a follow-up may go on to an older request or to all sites; and when no
  connected site has keywords, levels 1 and 3 are skipped, so that a site's bare
  name counts in level 2 only.  The model behaves as the code does there, and no
  property speaks of it.
  Skills: symbolic links, removal of the whole folder or of the marker, several
  processes on one folder, and the syntax of a `SKILL.md`.
  Telemetry: the effect of a blob call is settled when the call ends, with
  success or an error, or when the process ends: it is not applied after that,
  unlike a post to a sensor, and the SDK repeats an append at most once;
  one server writes to a container (two would empty each other's
  first lines of a day); the attributes of a sensor; authentication, the model
  list and error bodies of the server, which keep no state.
- audio-powersave: a timed-out call that Home Assistant applies later; the
  length of the timeout.
- Shell scripts, Dockerfiles, AppArmor profiles, workflows: no logic.

## 9. Plan

Done: `NamecheapZone`, `AtomicZone`, `ChatRequest`, `CertReconcile`,
`AudioPowersave`, `SiteConnection`, `SkillStore`, `Telemetry`, `RequestScope` and
their proofs; the abstract `AtomicZone` and `Journal` with their refinements.  Left, the
most important first:

1. `IssueOrder`: the order of accepts, waits and finalisation inside `issue`,
   composed with the DNS client's promises; then `NamecheapZone` and
   `CertReconcile` share it.
2. `DeployRemote`: temporary files and activation, as a refinement of the
   deploy phase of `CertReconcile`.
3. Two sites with one name in `SiteConnection` (a set of entries keyed by name).
4. More to prove: an abstract pipeline (a revision is stored, then on the targets,
   then in the apps, each behind the one before) that `CertReconcile` implements;
   bounds like `RequestIsFiniteWork` for the passes of `Reconcile` and for the
   tool calls of `SiteConnection`.
5. The cleaning of arguments in `mcp_manager.py` as operators on a small catalog:
   it is applied twice to every call, and the second pass should change nothing
   (section 7).
