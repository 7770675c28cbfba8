# Verification of the smart assistant API

This directory holds TLA+ models of the Go service in `src/`, the TLC
configurations that check them on small instances, and proofs of their most
important properties for every instance, checked by TLAPS. Each definition
that models code is tied to its lines by `map` in `PROJECT.json`; line numbers
below refer to the same commit.

## 1. The system

An HTTP API in front of a relational store, a cache and a queue. A user
installs plugins from a catalog, sets them up (Google OAuth or a Composio API
key) and talks to an assistant that turns messages into plugin executions;
plugins create reminders and calendar meetings. Several instances of the
process may run against the same Postgres and Redis.

There are almost no transactions: `TxManager.Do` only ever wraps a single
INSERT. The pattern everywhere is *read a row, check the copy, write the whole
row back by id*, without a lock, a version column or a condition in the UPDATE.
What can go wrong therefore lies **between two statements**: another request,
another instance's scheduler, a failed statement, an ended request context, a
crash. This is what the models keep; texts, formats and wording they leave out.

### Inventory

| component (source) | state it keeps | operations | interacts with | what is hard | what makes it correct |
|---|---|---|---|---|---|
| reminders (`internal/domain/reminder`) | table `reminders` | create, cancel, trigger, acknowledge, sweep of an uninstall, dispatch every 30 s | scheduler runs it, plugin executors create, uninstall sweeps | stale copies of handlers and of the dispatchers of all instances; failing writes; restarts in a batch | columns fit the status, a reminder is armed once, none that is due is forgotten |
| scheduler (`pkg/worker/scheduler.go`) | quit channel, run context, task goroutines | Start, loop, Stop | the lifecycle context, the container's closers | tick and quit ready together, a grace period that ends during a run | Stop returns, and after it nothing runs |
| lifecycle (`internal/app`, `internal/server`) | resources open, HTTP server, consumer | boot, serve, shut down, close in reverse order | everything | signal and listener failure, time-outs, who cancels which context, closers that wait | nothing is used after it was closed; the process ends |
| memory queue (`pkg/queue/memory.go`) | one buffered channel per topic | Publish, consume with retries, Close | registration publishes `user.created` | a full buffer, stops during a retry | bounded attempts, order, Publish and Close end |
| Redis queue (`pkg/queue/redis.go`) | stream and consumer group (in Redis) | XADD, XREADGROUP, XACK, Close | same | crashes and lost replies between read, handling and acknowledgement | acknowledged only when settled, held by one at a time |
| plugin installs (`internal/domain/user_plugin`) | `user_plugins` | install, uninstall, enable | credentials, reminders, setup, assistant | four statements per uninstall, unique-key races | nothing outlives an install |
| credentials and setup (`plugin_credential`, `plugin_setup`) | `plugin_credentials`, signed OAuth state | init, callback, submit, mark failed | installs | remote calls between the read and the write, reusable callbacks | completed means a credential was stored; status, error and configuration agree |
| assistant sessions (`internal/domain/assistant`) | `assistant_sessions.pending_action` | one message = load, orchestrate, maybe run a plugin, save | installs, executors, language model | concurrent messages of one session, save after an irreversible run | what runs was confirmed as asked, and once |
| user accounts (`internal/domain/user`) | `users`, entries `user:<id>` | create, read through the cache, update, delete | cache, queue | racing registrations, load/invalidate/fill races, lost invalidations | one account per address, a stale entry has a reason and an end |
| assistant settings (`internal/domain/assistant_settings`) | one row per user | get or create, update | accounts (cascade) | racing first accesses | nobody fails for losing the race, defaults never overwrite |
| cache (`pkg/cache`) | entries with a TTL | read-through, set, delete, janitor | users, plugin catalog | see accounts | see accounts |
| plugin catalog (`internal/domain/plugin`) | `plugins`, entries by slug | register, update, read, list | cache, installs, assistant | the read-through pattern again, overtaken loads, failed deletions | a stale edition has a reason; nothing unregistered is answered |
| agent loop (`assistant/composio_mcp_executor.go`, `pkg/llm/composio_agent.go`, `pkg/composio/v31.go`) | none of its own; a remote session, the pending question | plan and execute at most ten steps | language model, Composio, assistant sessions | a result may ask in four places, errors that are dropped, resumption, stale confirmations | questions reach the user, a yes is told only where it was given, a no ends the task, every turn ends |
| meetings (`internal/domain/calendar/availability`, `assistant/google_calendar_meet.go`, `builtin/google_calendar_meet.go`, `pkg/composio/composio.go`) | the pending action | recommend a slot, take a time or addresses, confirm, create with a list of accounts | Composio | calendars change between question and answer; a call that took effect and failed | a slot can be had, one event per meeting |
| spoken reminders (`assistant/wake_word.go`, `builtin/reminder.go`, `builtin/location_reminder.go`, `builtin/datetime.go`, `pkg/places/cache.go`) | the pending action, geocode cache | ask, normalise, confirm, geocode, create | reminders, settings, a provider | the clock moves between the question and the answer, two look-ups overlap | what is set is what was confirmed; coordinates are recent |
| stores (`pkg/store`) | a collection | query, insert in a transaction, claim, page through | every repository | one query, three evaluators; a claim in two statements; offsets under changes | a query selects what it means, a record is claimed by one |
| rate limiter (`pkg/ratelimit`, `internal/middleware/ratelimit.go`) | counter and window per key | Allow, janitor | middleware | both sides of a boundary, the key of a request | fewer than twice the limit in any window, nobody refused without cause |
| authentication (`pkg/auth`, `middleware/auth.go`, `user/service.go`) | none (signed tokens) | login, refresh, Auth, RequireRole | users, handlers | roles and accounts that change after a token was signed | a role that opens a route was held, and not long ago |
| handlers, DTOs, other clients, text heuristics, configuration, migrations, logging | none | decode, call, encode | - | - | - |

`PROJECT.json` lists all of them under `components`, with the reason where one
is not modelled, and under `hazards` every place found where the code is hard
to test, with the properties that watch it or a note why none does.

## 2. Modules

| module | models | abstract state ↔ code |
|---|---|---|
| `Reminders` | `reminder/service.go`, `repository.go`, `dispatcher.go`, `cleaner.go` | `rows` = the table; `call[p]` = the copies a handler or dispatcher read and will write; `due[d]` = the rest of `FindDue`'s result; `sent` = history |
| `ReminderPromise` | the promise of the component (abstract) | `status`, `op`, `hands`: a status, an operation under way and what it has still to change; no rows, copies or stamps |
| `RemindersProofs` | theorems of `Reminders`, its refinement of the promise | |
| `Scheduler` | `pkg/worker/scheduler.go` | `loop[t]` = where each task goroutine is; `quit`, `runCtxDone` = the channel and the context; `stop[s]` = each call of `Stop` |
| `Lifecycle` (extends `Scheduler`) | `app.go`, `container.go`, `server.go`, the queues' `Close` | `open` = resources whose closer has not run; `driver`, `caching`, `database` = `QUEUE_DRIVER`, `CACHE_DRIVER`, `DB_DRIVER`; `request[r]` = a handler, "querying" while it holds a database connection; `consumer` = the queue's goroutine |
| `LifecycleProofs` | theorems of `Scheduler` and `Lifecycle` | |
| `JobQueue` | the promise of `queue.Queue` (abstract) | `state[m]`, `tries[m]` |
| `MemoryQueue` | `pkg/queue/memory.go`, one topic | `accepted`/`taken` = the channel; `publish[m]` = the caller; `fate` = the verdict |
| `RedisQueue` | `pkg/queue/redis.go`, one topic | `fresh`, `pending` = stream and group (external); `batch[p]` = the entries a process has read |
| `QueueDrivers` | `container.go`, `buildQueue` | `queue` = the driver built; instances of both queues |
| `QueueDriversProofs` | theorems of both queues, the refinements among them | |
| `PluginInstalls` | `user_plugin`, `plugin_credential`, `plugin_setup` | `install`, `cred`, `reminder` = tables; `call[c]` = a call between two store calls, with the row it read |
| `PluginInstallsProofs` | its theorems | |
| `AssistantSession` | `assistant/service.go`, `google_calendar_meet.go`, parts of `wake_word.go` | `row` = `pending_action`; `rq[m]` = the goroutine of message `m` with its copy; `ran`, `asked`, `refused`, `disturbed` = history |
| `SessionPromise` | the promise of the component (abstract) | `stage`, `session`, `lacks`, `runs`: of each action where it stands, what it lacks and who ran it; no requests, copies, texts or prompts |
| `AssistantSessionProofs` | its theorems: what one request may do; what many may do to one another; its refinement of the promise | |
| `ComposioAgent` | `composio_mcp_executor.go`, `composio_agent.go`, the tool-router calls of `v31.go` | `turn[m]` = the goroutine of a message with its session and step count; `asking` = the open question in `pending_action` |
| `SpokenTimes` | `builtin/datetime.go` | `now`; a phrase is a weekday, or today or tomorrow, and a clock time after an "at", before or after other words, or as a period of the day |
| `MeetingBooking` (extends `SpokenTimes`) | `availability/service.go`, the two `google_calendar_meet.go`, the tool call of `composio.go` | `busy[c]` = a calendar (external); `talk` = the pending action and the request that serves it |
| `SpokenReminders` (extends `SpokenTimes`) | `wake_word.go`, `builtin/reminder.go`, `location_reminder.go`, `places/cache.go` | `spoken[u]` = a conversation of one reminder; `geocodes` = the cache; `radius` = the setting |
| `PluginExecution` (extends the agent, the meetings and the spoken reminders) | `assistant/executor.go`, the wiring in `container.go` | `plug` = the plugin a behaviour follows; `wired` = `COMPOSIO_API_KEY` is set |
| `PluginExecutionProofs` | theorems of the three | |
| `Accounts` | `user/service.go`, `pkg/cache`, `assistant_settings/service.go` | `rows`, `settings` = tables; `cache` = entries with the ticks they have left; `events` = published registrations; `call[w]` = what a handler holds between two statements |
| `AccountsProofs` | its theorems | |
| `Stores` | `pkg/store`: query builder, Postgres, Mongo and in-memory drivers, `FindOneAndUpdate`, the page arithmetic; the repositories' queries | `rows` = a collection; `tx`, `claim`, `walk` = a transaction, a claim, a listing under way |
| `RateLimiter` | `pkg/ratelimit`, `middleware/ratelimit.go` | `windows[k]` = counter and reset of a key; `admitted`, `refused` = history |
| `Gateway` (extends `RateLimiter`) | `pkg/auth`, `middleware/auth.go`, login and refresh of `user/service.go`, the order of middleware in `app.go` | `tokens` = tokens given out; `issuing[k]` = a login or refresh between reading the account and signing |
| `Catalog` | `plugin/service.go` | `plugins`, `entries` = table and cache; `doing[h]` = a handler between two statements |
| `Backend` (extends `Stores`, `Gateway`, `Catalog`) | one instance below its handlers | `part` = the part a behaviour follows |
| `BackendProofs` | theorems of `Gateway`, `Catalog`, `Stores` and their composition | |

Composition: `Lifecycle` extends `Scheduler` and joins its actions with those of
the container, so that what is proved of the scheduler's steps holds of the
process. `QueueDrivers` holds an instance of each queue and builds one of them, as `buildQueue` does; each is
shown, and proved, to implement `JobQueue` under a refinement mapping.
`Reminders` implements `ReminderPromise` in the same way: the mapping keeps the
status of each row and, of each process, its operation and which ids it holds.
`AssistantSession` implements `SessionPromise`: the stage of an action is
computed from who has it (the row, or the copy of a request) and from the
history; of an action that two requests held at once, or whose run was not
saved, nothing is promised any more (`disturbed`).
`PluginExecution` routes a task as `RoutingExecutor` does: to the agent, to one
Composio tool, to a builtin adapter, or, without an API key, to the stub.
`Backend` puts the store, the gateway and the catalog side by side. In both a
behaviour follows one part, because the parts share nothing but the clock: a
product of them would multiply states and show nothing new. `PluginInstalls`
carries its own small `reminder` table: what it needs of reminders is their
install and whether they are pending.

Conventions. A statement of the code against a shared store is one step; local
computation is merged into the step before it. A statement may fail (an action
of its own, or `GiveUp`); a statement that took effect although its reply was
lost is its success followed by giving up. Ids are used once, as uuids are.
Operators that the comment calls a *mutant* are plausible errors (a dropped
guard, a missing reset): no action uses them, they exist to show that each
property can fail.

## 3. Runs

Twelve runs; each passes with no error or finds the violation it announces.

| run | instance | states | what it shows |
|---|---|---|---|
| `reminders` | 1 user, 2 reminders, 1 handler, 2 dispatchers, clock to 2 | 341 284 | no interleaving of reads and whole-row writes mixes columns (`RowsCoherent`) or has one dispatcher notify twice (`NotifiedAtMostOnce`); every status is the effect of one admitted operation, taken once, on a reminder that is still there, so that nothing is re-armed or brought back (`ImplementsPromise`); a due reminder is not forgotten across failing writes and restarts (`DueIsSettled`) |
| `lifecycle_shutdown` | every choice of queue, cache and database drivers, 2 tasks, 2 requests | 207 768 | nothing is closed under a task, a request in time, a statement or the consumer (`ResourcesOutliveUsers`), an orderly stop (`StopIsRespected`), a shutdown ends although closers wait for the tasks, the database connections and the consumer (`ShutdownTerminates`) |
| `lifecycle_hang` | 1 task, 1 request | - | **violation** of `ShutdownNeverHangs` |
| `queues` | 3 messages, 2 attempts, buffer 1; 2 processes, batches of 2 | 116 344 | both drivers implement `JobQueue` (`DriversImplementJobQueue`), order (`HandledInOrder`), acknowledgements (`AckedOnlyWhenSettled`), and publishers, `Close` and consumers get on (`NobodyWaitsForever`) |
| `redisqueue_reclaim` | 1 message, 2 processes | - | **violation** of `OrphansAreReclaimed` |
| `plugin_installs` | 2 overlapping calls, 2 installs, 2 credentials, 1 reminder, for an OAuth, a form and the reminder plugin | 1 755 094 | installs, credentials and reminders agree under partial failures (`SetupIsTruthful`, `NoOrphanCredential`, `UninstallSweeps`) |
| `assistant_turns` | 3 concurrent messages, 6 plugin shapes, all text classes | 851 186 | what runs was confirmed as asked (`RunsAreConfirmed`), once (`RunsOnce`), by a request that met the plugin, and without it a pending action waits (`ActsWithItsPlugin`); a no is final (`RefusedStaysRefused`), answers are kept, but for a vague place, which is asked for again (`AnswersAreKept`); an action that is over stays over and no request touches another one's (`ImplementsPromise`) |
| `assistant_confirmed` | 3 messages, the Composio shape | - | **violation** of `ConfirmedMeansYes` |
| `accounts` | 2 ids, 1 address, 2 names, 2 handlers, TTL 2 | 1 260 221 | staleness of the cache, uniqueness, settings races |
| `plugin_execution` | 3 messages, 2 sessions, 2 steps; a week of 3 days of 5 ticks, 2 calendars, 2 people, 2 accounts; 2 speakers | 487 546 | the agent understands what a step asks and obeys the answers (`OutcomesAreUnderstood`, `AnswersAreObeyed`); a recommended slot can be had, and one that is passed over began inside a free block (`SlotsAreExplained`), a named time is where it was named or it is known why not (`NamedTimeIsExplained`), one event per meeting (`OneEventPerMeeting`); what is set is what was confirmed (`ReminderIsAsConfirmed`), addresses are recent (`AnswersAreRecent`); turns end (`TurnsEnd`) |
| `backend` | 3 records, 3 drivers, 2 claimers, pages of 2; 2 connections, limit 2, window 2; 1 plugin of 2 editions, 2 handlers; symmetric | 394 107 | queries select what they mean on Postgres, and elsewhere when portable (`QuestionsAreAnswered`), claims are exclusive (`ClaimedOnce`), a listing misses nothing without a reason (`MissedIsExplained`), the limiter is fair (`AdmissionsAreFair`), tokens (`RolesWereHeld`), catalog (`CatalogStaleIsExplained`) |
| `api_budget` | 1 user, 2 connections, limit 1 | - | **violation** of `BudgetIsTheUsers` |

### Bounds, and why they are enough

Every bound is a constant of the module and a line of a `.cfg`. The hazards
are races of two actors around one row, so two handlers (or two dispatchers, or
one and one) on one row already have every order of a read and a write; a third
actor is where the proofs take over (section 5). A second row is there where
code loops over rows (`reminders`: a batch with a stale copy) or where an id is
reused by key (`plugin_installs`: an uninstall and a re-install of the same
plugin). `MaxTime = 2` lets a reminder be due, notified and acknowledged at
different times; `TTL = 2` tells a fresh entry from one about to expire; two
attempts tell the first failure from the last; a buffer of one makes
publishers wait with three messages. In `assistant_turns` three messages are
the shortest conversation in which a slow first message meets a question and
its answer. `Accounts` uses one address (the interesting case is the same one)
and one wake word beside the default, and no threshold: the settings race does
not depend on which column was changed; the proof covers all.

In `plugin_execution` two steps tell a turn that goes on from one whose steps
are used up, and three messages hold a task, its answer, and a message that
races it. A week of three days has a weekend in the middle, so that a working
day lies on both sides; a day of five ticks has ticks before, in and after the
working hours; meetings of two ticks fit into, around and across free blocks,
and of a horizon of ten ticks every slot lies in the week and the next; a zone
two ticks from UTC moves a time out of the working hours or into them. Two
accounts distinguish the first, the next and none. In `backend` three records
and pages of two are the smallest listing with a last, partial page under which
records move; three instants with days of two lie on both sides of midnight;
a limit and a window of two let a burst come on both sides of a boundary; an
access token of one tick and a refresh token of two expire in each order.

Where a clock stops at its bound, or a conversation's messages are used up, the
system may really stop: those runs switch the deadlock check off. Symmetry is
used for safety only, never where a liveness property is checked.

### Fairness, and why the code justifies it

* `Reminders!FairSpec`: the ticker calls `Dispatch` for ever (weak fairness of
  its steps); the store fails now and then but not for ever, so a write tried
  again and again succeeds (strong fairness). Nothing is assumed of users.
* `Lifecycle!FairSpec`: goroutines are scheduled; Go's `select` picks at random
  among ready channels, so an exit that is ready at every turn is taken (strong
  fairness); a task is trusted to return only once its context is cancelled.
  A statement of a request ends and gives its connection back, because the
  `Timeout` middleware (`app.go:101`, 30 s by default) puts a deadline on the
  context every statement carries; this is what `pool.Close` (`container.go:304`),
  which has no deadline of its own, relies on. (A panic inside `PostgresTxManager.Do`
  would keep the connection; none is assumed.) Neither a signal nor the end of a
  request is assumed.
* `MemoryQueue!FairSpec`, `RedisQueue!FairSpec`: the consumer goroutine keeps
  going, handlers return (the one registered handler only logs), timers fire.
  Starts, stops, crashes and results are unconstrained.
* `Accounts!FairSpec`: only time passes.
* `PluginExecution!FairExecutionSpec`: a request goes on until it has answered:
  its goroutine is scheduled, and each call is answered, fails or times out (the
  clients of Composio and of the planner have time-outs). Nothing is assumed of
  the user, the clock or what Composio answers.
* `QueueDrivers!FairSpec`: the fairness of both queues; of the one that was not
  built no step is enabled, so it asks for nothing.

## 4. Findings

1. `lifecycle_hang` - after a listener failure `App.Run` closes the container
   with the consumer's context still alive and `RedisQueue.Close`
   (`queue/redis.go:154`) waits for ever; the repository's README says shutdown
   cannot hang.
2. `redisqueue_reclaim` - nothing claims pending entries (`queue/redis.go:88`),
   though the comment at `:17` says other consumers reclaim them.
3. `assistant_confirmed` - the flag set by a "yes" (`assistant/service.go:800`)
   stays in the arguments of the next pending action and is sent as a
   confirmation with the answer to a later question, which the planner's prompt
   (`llm/composio_agent.go:84`) excludes.
4. `api_budget` - the limiter is installed with `r.Use` before the handlers mount
   authentication on their routes (`app.go:111`), so the key of a request is
   never its user (`middleware/ratelimit.go:45`, comment `:13`).

Differences met while reading that no run shows:

* `MarkNotified` checks a copy (`reminder/service.go:236`) and writes the whole
  row: a reminder cancelled in between becomes notified. `MarkTriggered` and
  `Cancel` accept reminders of either kind (`:290`, `:311`, comments `:289`, `:309`).
* A tick that is ready may start a run after the quit channel closed
  (`worker/scheduler.go:74`, comment `:24`), as `Scheduler!LoopQuit` and the tick
  show side by side.
* Only the start of a free block is tried (`availability/service.go:127`): a block that
  begins before the working hours offers no slot, although the comments promise the
  earliest one (`:58`) and an error only when none matches (`:31`). With calendars
  that are free for a fortnight, a question asked in the evening finds nothing.
  `OverlookedIsInsideABlock`, a part of `SlotsAreExplained`, says that this is all
  that is overlooked: when no slot lies inside a longer block the promise is kept.
* A free block whose times name no zone is read as UTC (`availability/service.go:281`)
  although the zone of meetings was asked for (`:74`), and of an answer nested by
  calendar only one calendar is read (`:203`), whichever the map yields first: the
  slot recommended may be taken. `RecommendedIsBookable` promises a free slot only of
  an answer about everybody with its zone.
* A place that is too vague for an address is deleted and asked for again
  (`wake_word.go:328`), so that what the user gave is missing once more.
  `AnswersAreKept` and `SessionPromise` admit it once for each vague answer.
* The Mongo filter is a map by field: a second condition on a field replaces the
  first (`store/mongo.go:163`), so that reminders of one day come with those of
  the days before, and a pattern finds nothing. `QuestionsAreAnswered` therefore
  speaks of every query under Postgres and of portable ones elsewhere.
* A weekday is lost when a clock time is understood beside it: "friday at 3pm",
  "3pm friday" and "friday morning" are today or tomorrow (`builtin/datetime.go:74-80`);
  in "friday 3pm" the clock time is lost instead, since the figures come last (`:141`).
* Without `COMPOSIO_API_KEY` a meeting is "booked" by the stub executor: the user
  is told of success and no event exists.
* The fallback to the user's active account is tried when any pinned account was
  unknown (`composio.go:146`); the comment at `:126` asks that every one was.
* The agent may report success after a tool error it dropped
  (`composio_mcp_executor.go:177`) when the planner calls the task done.

## 5. Proofs

TLAPS proves the following for every value of the constants that satisfies the
named assumptions (`ConstantsAssumption`, `ShapesAssumption`, `QueueDriversAssumption`,
`StoresAssumption`, `NullAssumption`, `GatewayAssumption`, `CatalogAssumption`, `InstallsAssumption`,
`AgentAssumption`, `TimesAssumption`, `BookingAssumption`, `RemindersAssumption`:
`None` and its like are not members of the sets, handlers and dispatchers are
different, bounds are positive, the working hours lie within a day). TLC evaluates the assumptions in the runs.

**RemindersProofs** - `TypeCorrect`, `InductiveInvariant`, `Coherence`
(`RowsCoherent`), `AtMostOnce` (`NotifiedAtMostOnce`), `NeverRearmed`
and `NeverResurrected` (what the promise says of re-arming and removal, of the
rows themselves), `RemindersImplement` (`ImplementsPromise`). `RowsCoherent`
alone is not inductive: the row a process is about to write is not in the
table yet. `IInv` adds what each process *holds*: its copy was coherent when it
was read (`CopyOK`), it carries the guard the operation checked and no stamp
later than the read (`CallOK`), what waits in a batch is due or has left pending
(`DueOK`), and what a dispatcher has recorded has left pending for good
(`SentOK`). The last is why at-most-once survives restarts: a stale copy can
bring back any column except the status pending. The refinement rests on the
same invariant: an acknowledgement writes the whole copy back, and only because
the copy still has the status its operation asked for (`CopyOK`) is the status
it puts the one the promise allows.

**QueueDriversProofs** - `MemoryInOrder` (`HandledInOrder`), `RedisAcknowledges`
(`AckedOnlyWhenSettled`), and the refinements `MemoryImplements`,
`RedisImplements` and `DriversImplement` (`DriversImplementJobQueue`). For the
in-process queue `Stretches` divides the messages accepted into the settled
ones, the one being dispatched and those nobody has tried; order follows, and
so does the refinement: each action moves one message, or on the end of the
process a set of them, and changes nothing else the abstract queue sees
(`MemoryMoves`). For the stream `Dispatching` says that a goroutine about to
acknowledge has just written a verdict, and `Places` that an entry is in one
place only: it waits, or one goroutine has it once in its batch. Without
`Places` the refinement fails, since an entry read twice would be handled
after its verdict.

**LifecycleProofs** - `SchedulerQuiet` (the scheduler alone is quiet after
`Stop` and respects its grace), `StopRespected` (`StopIsRespected`)
of the whole process; `TypeCorrect` and `ResourcesOutlive`
(`ResourcesOutliveUsers`). The invariant of the last, `LifeInv`, says that what
is open is all that was registered before something open (`ClosedInOrder`), that
a closer that waits is over only when those it waits for are (`WaitedFor`), and
that requests in flight at closing mean a shutdown that ran out of time.
`WaitedFor` also covers the database: it is closed only when no statement runs on
it, and afterwards none begins. `ShutdownDoesNotDeadlock` is what `ShutdownTerminates` rests on besides
fairness: while the container closes, the next closer can be called or what the
waiting one waits for can take a step. It needs what the callers have told those
they wait for: a `Stop` in its grace has closed the quit channel and one that
drains has cancelled the runs (`StopTells`), the scheduler is closed first and
once, and the in-process queue has closed its channel (`CloserTells`). A database
that waits for connections waits for requests that outlasted the server, and
admits no new ones (`DatabaseGoesOn`); that each gives its connection back in time
is the fairness of section 3. The proof needs the exception it states, the Redis consumer that nobody has told to end,
which is the finding `lifecycle_hang` shows. It assumes that the container has
somebody to call `Stop` (`Stoppers # {}`).

**BackendProofs** - `GatewayRoles` and `BackendRoles` (`RolesWereHeld`),
`CatalogStale` and `BackendCatalog` (`CatalogStaleIsExplained`), `StoresClaims`
and `BackendClaims` (`ClaimedOnce`), `GatewayAdmissions` and `BackendAdmissions`
(`AdmissionsAreFair`), `StoresListing` and `BackendListing` (`MissedIsExplained`),
`StoresQuestions` and `BackendQuestions` (`QuestionsAreAnswered`). Each invariant extends the property to what
is under way. `HeldInv`: nobody held a role later than now, and a reading between
the look-up and the signing, like every token, carries a role that was held when
it was read. `CatalogInv`: rows are written and never deleted, so that a handler
that fills, writes or drops still has the row its slug names, and an entry falls
behind only by one of the three explanations. `ClaimInv`: a pending record has no
claim on it, and a locked one is pending and locked by one caller. `LimiterInv`
relates what a window counts to what was let through (`Burst`): since it was opened
that is its count up to the limit, the request that opened it is the oldest of
these, and of earlier windows fewer than the limit are recent enough to matter
(`PastFew`), which is where "fewer than twice" comes from. `WalkInv` is about a
listing read page by page: a record in no tie has a place, after the newer ones
(`PlaceIs`), an insert moves it to a later page and never to an earlier one, so
that what was not shown yet is still ahead (`Ahead`) or explained. The questions
need no induction but one fact, that a time reminder has a time (`TimedInv`);
the rest is that a driver evaluates a query it can evaluate as SQL does
(`SelectsAlike`), what each condition means of a record (`ColumnsAsked`) and that
the bounds of a day hold the instants of that day (`WithinDayAsks`). That the parts do not
disturb each other is the last step of each theorem about the composition.

**AssistantSessionProofs** - `TypeCorrect`, `ConfirmedBeforeRun`
(`RunsAreConfirmed`), `OnlyInstalledRuns` (that what was run was eligible at some moment of its
request). The invariant
says that a pending action at the stage "confirm", in the row or in any
request's copy, is one whose arguments were saved under a prompt
(`Recorded`), that a request about to run something that needs a confirmation
has a yes and such arguments (`Justified`), and that past runs were so
(`Sound`). It holds for any number of concurrent messages and any plugin shapes.

The second part of the module proves `ActionsRunOnce` (`RunsOnce`), `RefusalIsFinal`
(`RefusedStaysRefused`), `AnswersStay` (`AnswersAreKept`). An action is named by
the message that began it. `TurnsInv` says who can know of it: nobody before that
message is over (`Unheard`); one request at a time, or it counts as disturbed
(`OneHolder`); what that request decided is about the same action and forgets
nothing but a vague place, which it asks for next (`Follows`, from the lemmas on
every branch of `advancePlugin` and `handlePendingAction`); its copy is the row while the row has the action
(`CopyIsRow`); and what has been run or refused is about to be cleared or is
nowhere (`Finished`, `Nowhere`).

The third part proves `SessionImplements` (`ImplementsPromise`). It needs one
more invariant, `RunsFollow`: a request that ran an action and has not ended is
about to save a turn of that very action, in which nothing is refused. With it
each action of the session is one of the promise or a stutter: deciding is
invisible (`ThinkKeeps`, `SameStages`), `ExecutePlugin` runs what lives
(`PromiseRuns`), a second `Load` of what the session remembers is `Share`
(`PromiseLoads`), a failing request leaves the session its action
(`PromiseEnds`), and a save is about one action, which is alive
(`SavedLives`), drops only that one or the one whose place it takes
(`SaveDrops`) and loses no answer but a doubtful one, which is so no
longer (`SaveAnswers`). `WaitsForItsPlugin`
(`ActsWithItsPlugin`) needs one fact more (`Met`): a request about to save has
met the plugin, or found neither an action nor the plugin.

**AccountsProofs** - `TypeCorrect`, `InductiveInvariant`, `StaleExplained`
(`StaleIsExplained`), `Registration` (`OneAccountPerEmail`), `FirstAccess`
(`RefusedOnlyWhenGone`), `DefaultsKept` (`DefaultsNeverOverwrite`). `IInv` adds
`Held`: the row an update will write has the address of the account, the
settings a save will write carry a wake word of the user's, and a request whose
insert conflicted has a row to find unless the account is gone; and that an id
not used yet is not cached, which a registration needs, since it changes the
row without invalidating. The proof splits a step into what it does to the
tables whoever acts (`Evolves`: an id is used once, an address stays with its
account, settings go only with the account) and what the acting handler holds
afterwards; `OthersHold` then covers all other handlers at once.

**PluginInstallsProofs** - `TypeCorrect`, `SetupStaysTruthful`
(`SetupIsTruthful`), `NoCredentialOutlives` (`NoOrphanCredential`),
`GoneMeansSwept` (`UninstallSweeps`). The tables alone are not inductive, for a
call may write back any row it read: `Holds` says what a call under way carries.
Its row is true of its install (`Truthful`; the histories only grow, so that it
stays true while others write), one that will be written is live, only a plugin
that has a setup is at a point of one, and an uninstall that has listed the
reminders has all in hand that are still unswept. `Begins`, `Returns`, `GoesOn`
and `CallStep` reduce each action to what it does to its own call and one table.

**PluginExecutionProofs** - for `ExecutionSpec`, which `FairExecutionSpec`
implies, one inductive invariant per executor, each kept by the steps of the
others because these touch only the clock. `AgentInv`, for `OutcomesUnderstood`
(`OutcomesAreUnderstood`) and `AnswersObeyed` (`AnswersAreObeyed`): a goroutine
carries the session it answers for (`Carried`), has said nothing before it
concludes (`Concluded`), holds a yes only of a session with a yes (`Given`);
a session it opened itself is nobody else's until it is saved (`Own`, `Apart`),
and one that holds a refused session shares it (`Left`). The same invariant
gives `TurnsAreBounded`: `Rest` counts the steps a message has before it, each
step takes one message nearer (`Nearer`) and leaves the others alone, and no
message is farther than twice the steps of the loop and four from its answer; a
message can end early but never go round again, because `GoOn` counts. `ReminderInv`, for
`RemindersAsConfirmed` (`ReminderIsAsConfirmed`) and `AnswersRecent`
(`AnswersAreRecent`): the arguments are those of the question, or the setting has
changed since (`Faithful`), and a look-up under way began before what it will
keep (`Recent`). `BookingInv`, for `SlotsExplained` (`SlotsAreExplained`),
`NamedTimeExplained` (`NamedTimeIsExplained`) and `OneEvent`
(`OneEventPerMeeting`): every event made is the one reported or was lost
(`Counted`), and the three properties themselves. The lemmas under it are about
the algorithms: `RecommendIs` (the slot is free as long as the meeting lasts),
`OverlookedIs` (a valid beginning with nothing free before it begins a block that
is looked at), `WeekdayComes` and `NamedTime` (a weekday comes within a week), and
`SameDay` (a meeting within the working hours does not leave its day).

Only model-checked: every liveness property (`DueIsSettled`, `ShutdownTerminates`,
`NobodyWaitsForever`, `TurnsEnd`, `StaleExpires`), which needs fairness and ENABLED
and is out of the prover's reach; of two of them the safety core is proved,
the variant of `TurnsEnd` (`TurnsAreBounded`) and the absence of a deadlock under
`ShutdownTerminates` (`ShutdownDoesNotDeadlock`). Every safety property of the passing runs has
its theorem.

## 6. Not modelled, and limits of what is

* Postgres with its keys and cascades is assumed outside `Stores`. The Mongo
  driver has no cascades: with it credentials and settings outlive their owner,
  and the properties that rest on a cascade do not apply. The same holds for the
  in-memory store of the tests.
* The cache of `Accounts` and `Catalog` is one for all instances: Redis, or the
  memory driver with one instance. With the memory driver and several instances
  an invalidation reaches one of them, and only the TTL bounds staleness.
  An entry with TTL 0 would never expire; the default is five minutes.
* A cached user has no password (`json:"-"`); the model has no column for it,
  since nobody that reads through the cache checks one.
* A user who saves the default wake word and threshold has settings that equal
  the defaults; `DefaultsNeverOverwrite` speaks of settings that differ.
* `Lifecycle` has one call of `Stop`, as the program; `Scheduler` allows more.
* The transcript of a session, its (always active) status and reply texts are
  left out; the classifier's and the planner's judgement, and what Composio
  answers, are choices. Of an answer `ComposioAgent` keeps every place in which it
  may ask something; tool listings and prompts are data.
* `ComposioAgent` assumes of Composio (`Sound`) that a result asks for one thing at a
  time, that one which says the task is over asks for nothing, and that a link to
  some other page does not come with an error whose wording asks a question, since
  any `http` link is taken for one to connect an app (`composio_mcp_executor.go:346`).
  A result may be called completed and carry an error all the same: it is reported
  as a success (`:243`), and the property excepts it.
* Of phrases, dates without a time and texts with two clock times are left out. The
  place of a reminder may be vague for either mode: which mode was chosen is not kept.
* A few statements are merged where the properties do not tell the difference: a
  transient failure of the credential store, which `markFailed` records too
  (`oauth_google/service.go:216`), with any other failed call; the two look-ups of the
  cleaner (`cleaner.go:24`, `repository.go:33`); the test that a reminder lies ahead
  (`reminder/service.go:35`) with its insert. A Redis limiter script that ran but
  whose reply was lost is let through (`ratelimit/redis.go:33`) and not counted.
* A session whose pending action lost its plugin fails on every later message
  (`assistant/service.go:216`): this is what the code does, and no document says
  when a pending action ends; `ActsWithItsPlugin` says that the action is kept
  as it was.
* Signatures of tokens are taken to be sound. Time zones are one, but for free blocks
  that are read as UTC; the clock does
  not jump back.
* `places.SearchNearby`, the Trello, GitHub, Slack and Cursor clients, and the
  delegation agent are calls without state that no service operation combines.
* Handlers, validation (manifests against their JSON schema among it),
  configuration, logging, encryption, migrations, the HTTP clients, the keyword
  heuristics of `pkg/llm` and the generated documentation are pure I/O or pure
  functions without a boundary a model checker would find.

## 7. Plan

What is left, in order:

1. A manifest that changes while a session is under way (`Catalog` beside
   `AssistantSession`).
