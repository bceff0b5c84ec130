# A verification project for the AI Microservices platform

TLA+ models of the platform in `src/`, checked with TLC on small instances, and
theorems about them checked with TLAPS. `PROJECT.json` maps every modelled
definition to the lines it stands for; this file says what is modelled and how,
what the checks and the proofs show, and what is left.

## 1. The system

The repository holds two layers that share the idea of an *AI job*: a client
submits a job, gets an id at once, and polls its status until it is terminal.

* **`ai_engine/`**: a job engine that runs inside one process over MongoDB, in a
  thread-pool form (Flask) and an asyncio form.
* **`services/`**: four services (api, ai-worker, notification, auth) around
  MongoDB and RabbitMQ, with the libraries of `shared/`.

### Inventory

| Component | State it keeps | Operations | Interacts with | Hard behaviour | What makes it correct |
|---|---|---|---|---|---|
| Jobs API (`api_service`: routes, use cases, entity, repository, dispatcher) | collection `jobs`; what each request thread has read | create + dispatch, update, cancel, delete, get, list, poll | MongoDB; queue `ai.default` | read-modify-write by several threads, a write-back of a stale document, a dispatch that fails after the save | documents stay coherent; a job moves along `JobStatus.TRANSITIONS`; terminal is terminal; a deleted job stays deleted |
| Celery task (`ai_worker/.../ai_jobs.py`) | the execution in progress; a job in a fresh `JobManager` | receive, mark running, run, publish, report, acknowledge | `ai.default`, `jobs` (written directly), `notifications.default` | late acknowledgement, lost worker, lost connection, hard time limit, swallowed write errors, no transaction over event and status | no job is lost; no execution without a reason; an outcome is announced before it is stored and only once; every message leads to an outcome |
| Notification consumer | events received | consume, log | `notifications.default` | acknowledged on receipt | only events that were published are logged |
| Engine, thread pool (`orchestrator`, `job_worker`, `mongo_repository`, `flask_routes`, `app.py`) | collection `ai_jobs`; the backlog and the threads of the pool | submit, enqueue, process, shut down | MongoDB, the tasks | failing updates, a pool shut down while requests go on, process death with a backlog in memory | at most one execution; completed means executed; accepted work finishes |
| Engine, asyncio (`async_orchestrator`, `async_job_worker`, `motor_repository`, `container`) | `ai_jobs`; tasks; semaphore | submit, enqueue, cancel, shut down | Motor, the tasks | cancellation at any await, writes that are under way when a coroutine is cancelled, timeout of shutdown | slots are never lost; a cancelled job does not execute; the stored status is the announced one |
| ai-worker over HTTP (`job_manager`, job routes, `container`, `AIWorkerClient` of api-service) | dictionary of jobs, the singleton manager; calls in progress | submit, status, details, list, statistics, cancel, sweep; the calls of the client | each other | Flask threads on an unlocked dictionary which the sweep and the statistics iterate, a POST that is sent again, a deadline, a lazily built singleton | an unknown id was swept; one submission is one job unless something went wrong; every call ends |
| Sessions (`auth_service`: OAuth login, refresh, logout, `container`) | OAuth states, users, refresh tokens in families, the singletons | start, callback, refresh (rotate), revoke, expire; resolve | the identity provider, MongoDB or memory | a callback delivered twice, two refreshes of one token, a logout in between, find-or-create, stores built lazily by two first requests | a state is used once; a revoked session stays revoked; one identity is one user; a session's tokens are found |
| Process of api-service (`app.py`, JWT middleware, controllers, repository) | client of MongoDB, registered use cases, requests in progress | connect, serve, exit; admit, check ownership, read, write, list; submit AI jobs | MongoDB, the worker, the engine in the same process | two commands per request, exit under running requests, a command that fails after it was applied | only owners and admins see or change a job; an answer says what happened |
| AI tasks and model services (`ai_engine/application/tasks`, `services`) | task and service singletons, loaded pipelines, a lock per service, the shared threshold | validate, load, infer, build the output | runners and pool threads | double-checked locking, a shared attribute overridden for one call | one pipeline is built; a call gets its own answer; every call returns |
| Dataset profiling | none | profile a table | pandas | samples that decide for a column | a profile adds up; numeric means numeric |
| MongoDB connection manager, base repository | client, metrics, indexes | connect, disconnect; save, find, delete, paginate | MongoDB | retries at startup, best-effort indexes | in the modules above |
| Service containers | factories, singletons | register, resolve | every service | unlocked lazy creation | in the rows of ai-worker and of the sessions |
| JWT, roles | none | verify, authorise | every service | | in the api-service row |
| `ModelExecutor`, AI processing results, `policies.py`, `shared_auth/middleware.py` | | | used by no service | | not modelled |
| Configuration, logging, HTTP helpers, health routes, deployment | none that matters | | | | not modelled |

## 2. The modules

| Module | What it is |
|---|---|
| `JobDocument` | the api-service job as data: statuses, transitions, entity methods, `IsValid` |
| `JobLifecycle` | abstract specification: what a client of the jobs API is promised of a status |
| `JobPipeline` | api threads, broker, Celery workers, notification consumer: the core |
| `JobPipelineProofs` | theorems about `JobPipeline` |
| `MCJobPipeline` | instances: fault budgets, symmetry |
| `AIJob` | the engine's aggregate as data |
| `AIJobLifecycle` | abstract specification of the engine's stored status |
| `SyncEngine`, `MCSyncEngine` | the thread-pool engine and its instances |
| `SyncEngineProofs` | theorems about `SyncEngine` |
| `AsyncEngine` | the asyncio engine |
| `AsyncEngineProofs` | theorems about `AsyncEngine` |
| `AITasks` | sentiment and summarization: tasks, model services, runners |
| `AITasksProofs` | theorems about `AITasks` |
| `DatasetProfile`, `MCDatasetProfile` | the profiling computation, and its cells |
| `DatasetProfileProofs` | theorems about `DatasetProfile` |
| `WorkerService` | ai-worker's job routes, their manager and their client |
| `WorkerServiceProofs` | theorems about `WorkerService` |
| `AuthSessions`, `MCAuthSessions` | logins, refresh tokens, logout |
| `AuthSessionsProofs` | theorems about `AuthSessions` |
| `ApiService`, `MCApiService` | startup, admission, ownership and exit of api-service |
| `ApiServiceProofs` | theorems about `ApiService` |

`JobPipeline` (over `JobLifecycle`) and `SyncEngine`, `AsyncEngine` (over
`AIJobLifecycle`) are shown to implement their abstract specification by
`INSTANCE ... WITH status <- [j \in Job |-> ...]` under the conditions in which
they do.

How the modules fit together. `ApiService` and `JobPipeline` look at the same
routes: the first at who may do what and at what the answers say, with a document
reduced to its status and owner; the second at what becomes of a document that
several writers touch, with callers left out. `AITasks` and `DatasetProfile` detail
what is one step of the engines (`ExecuteTask`, `StartExecution`) and of the
pipeline (`RunWorkload`). `WorkerService` composes both ends of an HTTP
connection.

Every module is written the same way. A document is a record of what the
properties tell apart (status, whether timestamps are set and in order, which
kind of result, whether there is an error). A collection is a function from ids
to documents, with the status `"absent"` for a document that is not there. An
actor has a `pc` and the document it has read. One action is one call that
another actor can get in front of: a database call, a broker call, the workload,
or, in asyncio, what runs between two awaits, or, where threads share objects
without a lock, what one does between two accesses to them. A variable called
*history* is read by the properties only. Definitions marked *Seeded fault*
are not used by the specifications: they are plausible mistakes in the code, and
putting one in the place of the definition below it must make a check fail.

### JobPipeline

State: `jobs` (collection), `created`, `queue` (ready messages), `request` (what
each api thread is in the middle of), `worker` (what each Celery process
executes: step, job, whether the broker still counts the delivery as held, the
number of the delivery, the outcome), `attempts`, `emitted` / `inbox` / `logged`
(events handed to the publisher, in the queue, consumed), `faults`; and `disturbed`
(history: the jobs whose record no longer follows one writer, see `FollowsLifecycle`).

| Action | Code |
|---|---|
| `CreateJob`, `Dispatch`, `DispatchFails` | `CreateJobUseCase.execute` up to and including `save`; `JobDispatcher.dispatch`; the swallowed exception of `_dispatch_to_queue` or the death of the process |
| `ReadForUpdate`, `ReadForCancel`, then `SaveDocument` or `SaveFails` | `UpdateJobUseCase`, `CancelJobUseCase`: read, check, change in memory; `MongoBaseRepository.save` is `replace_one(upsert=True)` |
| `DeleteJob` | `DeleteJobUseCase` |
| `Receive` | delivery; the task creates and starts its local job |
| `MarkRunning`, `Report` | `_update_api_job_status`: `update_one` with `$set`, no upsert, errors swallowed |
| `RunWorkload` | `runner.run`: a dict, a dict that says it failed, or an exception |
| `Publish` | `JobManager.complete_job` / `fail_job` and `JobEventPublisher` |
| `Ack`, `WorkerLost`, `ConnectionLost`, `HardTimeLimit` | `acks_late`, `reject_on_worker_lost`, `task_time_limit` as Celery and RabbitMQ act on them |
| `Consume`, `ConsumerLost` | the notification task, acknowledged on receipt |

The local job of an execution has a random id that no other process learns; it
is abstracted to the pair of the job and the number of the delivery.
Timestamps are abstracted to what `is_valid` compares. Clocks of hosts are taken
to agree. A message is published once per dispatch: publisher confirms and
retries inside kombu, which could duplicate it, are not modelled.

### SyncEngine

One action per repository, pool or task call of `POST /jobs` and of
`AIJobOrchestrator.process_job`. The pool is a FIFO backlog and `max_workers`
threads; after `shutdown(wait=False)` it refuses work and still serves what it
has. `ShutdownOnTeardown` distinguishes the standalone `app.py` (which shuts the
pool down in `teardown_appcontext`) from the embedding in api-service (which does
not). A failing update may have been applied or not. `Restart` is the death and
restart of the process.

### AsyncEngine

One event loop. A write is three steps: sent (`flight`), applied by the driver
(`ApplyWrite`, in any order), answered. Cancelling a coroutine raises
`CancelledError` at its current await, gives its slot back, and does not take
back a write under way (the driver may drop one it has not begun). `shutdown`
waits, or times out, cancels what it waited for, and then what is left.
`AwaitableTasks` says whether the registered tasks are `AsyncBaseAITask`s: the run
takes tasks written to that contract (see "Seen while modelling"). Each id is
enqueued once.

### AITasks

State: how the process was wired (`create_engine`, a Celery process, or with an
injected sentiment model), the pipelines built, the lock of each service, the
`_neutral_threshold` of the shared sentiment service, and for each thread the step
of its call. `Begin` and `EnsureModel` are `run()` of the runners; `Validate` is
`validate_payload` and `execute` up to the service; `FirstLook`, `AcquireLock`,
`LoadPipeline` are `_get_pipeline`, which `BuildFails` ends with an exception; `Infer`
(`Analyze` or `Summarize`) is the call of the pipeline; `SaveThreshold`,
`OverrideThreshold`, `ReadThreshold`, `CompareThreshold`, `RestoreThreshold` are
`_ThresholdShim.analyze` around `_build_output`, which reads the threshold twice. A
sentiment text is its margin, a text to summarize its length class. A Celery
process executes one call at a time; the pools of the engine do not.

### DatasetProfile

One step, `Run`, from a payload to its profile; the operators are the methods of
`DatasetProfilingService` (`DetectColumnType`, `NumericStats`, `ProfileColumn`,
`ProfileDataframe`) and of the lightweight service. Quartiles are kept times four,
ratios as products. The sample sizes (100 and 50 in the code) are constants, so that
small tables are longer than the sample. Two parsers decide what a number is: `Convertible` is
`float(value)`, which decides the type of a column; `Coercible` is
`pd.to_numeric(errors="coerce").dropna()`, which decides what the statistics are about.
A cell of kind `loose` passes the first only (`"1_000"`, `"nan"`). `raising` are the columns
whose statistics raise, which the code catches: the column stays numeric and has none.
Dropping nulls and sorting are both `InOrder`: the
k-th element is the one with k - 1 before it, in the order of positions or of values. A
recursive definition would compute the same, but nothing could be proved of it.

### WorkerService

State: the dictionary of each manager that was built, the container's singleton,
ids issued, which jobs are past the retention, requests being served (`slot`) and
callers (`client`). `Look`, `BuildManager`, `Register` are `ServiceContainer.resolve`;
`CreateJob`, `CleanupIfNeeded`, `CollectExpired`, `DeleteExpired` are a submission
with its sweep; `ReadStatus`, `CheckCancel`, `WriteCancelled`, `ReadDetails` and
`ListJobs` the other routes; the statistics are `GetStatistics` and, for each status
in turn, `BeginCount` and `EndCount`. `CollectExpired` and `EndCount` end a
pass over the dictionary. Python compares the size at every step of a pass, so one that was
`Interrupted` (something was stored or deleted since it began) may raise, and one whose
insertions and deletions cancel out may also go unnoticed (`WalkedThrough`), whatever it has found by then. The
statuses no job has in this process are not counted. Nothing in this process starts or completes a job, so
a job is pending until it is cancelled. The client's side is `Submit`, `Call`,
`Send` and `Receive`, which is `Submitted`, `Polled`, `Cancelled`, `Detailed`,
`ListReceived` or `StatsReceived` by what was called, with the retries of
`_create_session` and the deadline of `poll_until_complete`; any free thread of the
server may take a request, and as they are alike the model picks one.
`GiveUpAttempt` is a read timeout or a lost connection, after
which the server works on. `DaysPass` moves the clock past the retention when
nothing is under way.

### AuthSessions

State: the singletons of the container (`built`: repositories and state store; `cases`: the
repositories each use case holds), the OAuth states and the store each is in, the users of one identity and
the repositories with one of them, whether the unique index exists, the refresh tokens, which of them a
client knows, and the request in each thread. Everything but the connected MongoDB repositories is built by the
first request that asks (`Resolve` looks, `Build` and `Install` build and register, and nothing
is locked), so two first requests may each build one, and the one that is
registered later stays. A login is `StartOAuth`, `StoreState`, `Callback`,
`ConsumeState`, `ExchangeFails` or `FindUser`, `InsertUser`, `FinishLogin` (`Login` is the
route that starts or completes); a refresh is
`CheckToken`, then `Sweep` if the token was revoked, else `SaveSuccessor`, `Rotate`,
`IssueAccess`; a logout is `LookUp` and `Sweep`. Each call of a repository is atomic (a
lock, or one MongoDB command), and one of MongoDB may fail (`CommandFails`). Expiry and the TTL index act at any time. `backend`
is chosen at startup, as `_wire_mongodb_if_configured` falls back to memory. `Starts` says
whether the first requests are behind (`warm`) or not (`cold`). The update of a known user
at its login (`last_login_at`) is left out, and `update_many` over a family is
one step: MongoDB sweeps its documents one by one, but there no token is ever rotated (see below), so a family has one.

### ApiService

State: the phase of the process and its MongoDB client, the collection (status and
owner of each document), who really created each job (`owner`, history), the jobs of
the engine (`ai`), and the request in each thread. `ConnectFails`, `Connect`, `GiveUp`,
`Register`, `Serve`, `Exit` are startup and the exit handler; `Refuse`, `ArriveToRead`,
`ArriveToChange`, `ArriveList`, `ArriveCreate`, `ArriveToProcess` and `RefuseToProcess` are what the
middleware, the decorators and the first lines of a route decide; `Probe` is the
readiness route, whose checks are placeholders; `FindJob`,
`RefetchJob`, `SaveJob`, `DeleteJob`, `CountJobs`, `FindPage` are one MongoDB command
each; `SubmitJob` is the adapter of the AI routes, whose job goes to the collection and
the pool of the embedded engine (`SyncEngine` with `ShutdownOnTeardown = FALSE`);
`CommandFails` is a command that raises, applied or not; `Send` the response.
`WorkerFinishes` stands for the Celery task, external to this process.

## 3. Runs

TLC finishes each run in seconds to about three minutes (two workers).

| Run | Instance | Shows |
|---|---|---|
| `JobPipeline_faults` | 1 job, 2 threads, 2 workers, all use cases; one failed dispatch, one lost connection, one failing write, one failed publication, one killed execution, one lost notification | `TypeOK`, `RecordsStayCoherent`, `AnnouncedBeforeReported`, `SavedBeforeDispatch`, `SingleExecution`, `OnlySavesInsert`, `OutcomesStay`, `FollowsLifecycle` |
| `JobPipeline_live` | 2 jobs, 1 thread, 1 worker, updates; the worker is lost once, one write fails, fair | `NoJobLost`, `MessagesAreExecuted`, `RunningJobsFinish` |
| `SyncEngine_pool` | 3 jobs, 2 pool threads, teardown, one death, one failing call, fair | `TypeOK`, `ExecutedAtMostOnce`, `AcceptedIsCarried`, `AcceptedJobsFinish`, `FollowsLifecycle` |
| `AsyncEngine_loop` | 2 jobs, 1 slot, cancel and shutdown, one failing call, fair | `TypeOK`, `SlotsAreKept`, `CancelledNeverExecutes`, `ShutdownLeavesNothing`, `RunsEnd`, `FollowsLifecycle` |
| `AITasks_pool` | 2 threads with two calls each, the three wirings, thresholds below, at and above the margins, one failing pipeline, fair | `TypeOK`, `ModelLoadsOnce`, `AnswersUndisturbed`, `CallsReturn` |
| `DatasetProfile_tables` | every table of one column of up to six rows or two of up to two, six cells of five kinds, samples of 4 and 3, with pandas, without, and with neither | `ProfileAddsUp`, `NumericMeansNumeric` |
| `WorkerService_http` | 2 clients, 2 server threads, a cold and a warm process, one retry, one given-up attempt, one further call each (details, lists and statistics by one of them: `Reader`), fair | `TypeOK`, `MissingMeansSwept`, `DuplicatesNeedTrouble`, `CallsEnd` |
| `AuthSessions_threads` | a warm process, 3 threads, 2 states, 2 sessions, 3 tokens, 2 users of one identity, both storages, index present or not | `TypeOK`, `SweptStaysDead`, `StateUsedOnce` |
| `AuthSessions_cold` | a cold process, 2 threads, 2 states, 1 session, 2 tokens, 2 users of one identity, both storages, index present or not | `OneUserPerIdentity`, `TokensAreFound` |
| `ApiService_requests` | 2 threads, 2 jobs, a user, an admin and the anonymous caller, authentication on and off, 3 connection attempts, one failing command | `TypeOK`, `OwnersOnly`, `AnswersAreTrue` |
| `JobPipeline_overwritten` | 1 job, one update, no fault | `ReportedOutcomeIsRead`: violated |
| `ApiService_poll` | 1 thread, 1 job, no failure | `PollUrlIsServed`: violated |

What the less obvious properties say:

* `OutcomesStay`: a job reported completed or failed changes its status only by
  its deletion, by a use case that writes back what it had read, or after a worker
  or a connection was lost. With no loss, a second execution does not exist.
* `NoJobLost`: whatever workers and connections are lost, a job whose dispatch
  succeeded is in the queue, held by a worker, or announced; only the hard time
  limit takes a message away.
* `SingleExecution`: lost workers alone never lead to two executions at once; a lost
  connection does, and then the coherence of the records is what still holds, and that one execution
  announces one outcome (theorem `PipelineOneOutcomePerExecution`).
* `FollowsLifecycle` of `JobPipeline`: the collection follows `JobStatus.TRANSITIONS` under every use case and
  every fault, for each job until its record is *disturbed*. From then on the abstract
  specification sees the job as deleted. What disturbs a record is a use case that stores
  something else than what is stored (every cancellation, as the worker has the message
  still; an update only when it is stale), a status write of a worker that fails, and a message
  that is delivered after the outcome or while an execution without it goes on. A lost worker, a
  killed execution, a deletion or an update in time does not, and one job never disturbs another.
* `RunningJobsFinish`: a running job does not stay running, with three exceptions: the
  hard time limit killed an execution (in `JobPipeline_faults` only); a status write failed, which the worker
  swallows (`ai_jobs.py:113`); or the record was disturbed otherwise (a running document written
  back over the outcome, `update_job.py:95`; a second execution that is lost).
* `SavedBeforeDispatch`: the message of a job is sent after the job was saved, so that no status
  write of a worker can come before the insert.
* `ExecutedAtMostOnce` also says that what is stored as completed did run, whatever
  updates fail and whenever the process dies.
* `SlotsAreKept`, `CancelledNeverExecutes`: through cancellations at every await of
  the coroutine.
* `FollowsLifecycle` of `AsyncEngine` describes a job up to the moment a client
  cancels it: what is stored afterwards may be overwritten, see below.
* `AnswersUndisturbed`: the shim writes the threshold of one call into the service
  all threads share. The property says exactly how far that is harmless: as long as
  no two calls met in the output phase (`overlap`), every answer is the one the call
  would get alone, and the default is back.
* `NumericMeansNumeric`: a text column is called numeric by its first hundred values
  against four fifths of *all* values; so it never is when too few convert, and may
  not be when a column is longer than the sample. Its statistics are over exactly the values
  that `to_numeric` keeps, which may be fewer than `float()` accepted, and are missing when none is left or pandas raises.
* `MissingMeansSwept`: within the life of one ai-worker process, the one way an accepted job is "not found"
  without a sweep is a second manager, built by two first requests at once. (A restart loses
  the dictionary with every job in it; no restart is modelled.) A list or the statistics
  overlook only jobs that are swept meanwhile: the statuses are counted one after the
  other, and a job only moves to one that is counted later. (It may be counted twice.)
* `DuplicatesNeedTrouble`: each further job of one submission is accounted for by an
  attempt that was given up or answered with 500. `POST` is in `allowed_methods`
  of the retries, so trouble does lead to duplicates.
* `SweptStaysDead`: a session revoked while no refresh of it is past its check has no
  live token and gets no access token ever again. The condition is needed: a refresh
  that passed its check before a logout saves its successor after it.
* `OneUserPerIdentity`: in memory, duplicates need two overlapping first logins in one repository, or two
  first requests that each built a repository: the user in the one that was overwritten
  is lost, and the next login of the identity makes another. In MongoDB they need the overlap *and* no unique index.
* `TokensAreFound`: a token the process has stored is found by refresh and logout, unless two requests raced
  to build the repository: the three use cases, each built at its own first request, hold the same one.
* `OwnersOnly`: the update route checks ownership on one read and works on another; it
  is right because a document never changes its owner, through stale writes and
  resurrections.
* `AnswersAreTrue`: only after a 500 does a caller not know whether a write was applied.

Two runs are expected to find a violation; each checks a statement of the repository,
quoted in `PROJECT.json`. In `JobPipeline_overwritten` a priority update that straddles
the worker's report erases the outcome, which the poll route promises to read. In
`ApiService_poll` an AI route accepts a job and answers a `poll_url` of the jobs API,
which reads another collection and says 404.

### Seen while modelling

Where the code does something else than it says. In the pipeline and the engines:

* the worker writes over a cancelled job, although `JobStatus.TRANSITIONS` calls
  cancelled terminal (`job_status.py:32`, `ai_jobs.py:109`): the message of a pending job stays
  in the queue when the job is cancelled, and the task looks at no status;
* a finished job whose worker is lost before the acknowledgement is executed again
  and goes back to running (`OutcomesStay` says that this needs a loss);
* an update that had read a job stores it again after its deletion
  (`OnlySavesInsert` says that nothing else does);
* a runner's dict with `success=False` is stored as completed;
* an execution killed by the hard time limit, a status write that fails, and a running document that is
  written back leave a job running for ever (`RunningJobsFinish` says that nothing else does);
* the teardown of the first request shuts the pool of the standalone application down
  (`src/app.py:45`): a later job is stored, refused and never processed;
* a write of an interrupted coroutine may land after the cancellation was stored
  (`async_job_worker.py:116`);
* `create_async_engine` registers the synchronous tasks (`ai_engine/.../container.py:128`),
  whose `validate_payload` cannot be awaited: with `AwaitableTasks = FALSE` in
  `AsyncEngine` every job fails.

In the tasks: `_ThresholdShim` mutates the service its docstring says it does not
mutate (`sentiment_analysis.py:232`), so two calls that overlap may answer with each other's threshold, and
one of them may stay (`AnswersUndisturbed` is about the others), and with the lexicon service a payload with a
threshold fails; the minimum length of a text is only asked once a service was resolved
(`summarization.py:88`), so a first short text is accepted and later ones are not; the
profiling runner calls its service pandas-backed and resolves the lightweight one.

In the services: with MongoDB the stored times of refresh tokens have no time zone, so
every refresh of an active token ends in a `TypeError` (`refresh_token.py:50` of the use
cases); a logout with a token that was rotated is answered as a success and revokes
nothing (`token_ops.py:26`), though `docs/AUTHENTICATION.md:53` says it revokes the family; on a cold process in memory, two first requests may each build a
repository, and the users and tokens of one of them are lost (`auth_service/src/container.py:38`); access tokens outlive the logout of their session; failures to create indexes
are logged only; auth-service falls back to memory without MongoDB;
`JWT_AUTH_REQUIRED` makes no difference on the job routes, whose `require_auth`
refuses anyway; `AIWorkerClient.list_jobs` builds `JobResult` from dictionaries that do not
fit it, so any job in the list raises; the sweep of `JobManager` may raise after the new job was stored, and the client
then submits again; the readiness route of api-service (`health.py:53`) says it verifies
MongoDB, the cache and the queue, and answers ready whatever their state.

**Bounds.** In the pipeline and the engines `Budget`, `CallFailures` and the number of
jobs, threads, workers and slots are the only bounds; nothing else grows. One job is enough for what
concerns a single document, because no code relates two documents; two jobs are
needed for competition over workers and messages; two threads give every
read-modify-write race of two requests; two workers give overlap after a
redelivery. The budgets are split by what a fault meets: `ExecutionFaults` meet an
execution and its writes, and are combined with every use case (there, an execution
whose connection is lost and which is killed later stands for a lost worker);
`LivenessFaults` are those that leave a message or a record behind, and are combined with a second job that competes for the one worker,
and with updates. That lost workers
alone never make two of them execute one job is the theorem `PipelineSingleExecution`. The theorems below hold for
every budget at once.

`AITasks`: two threads meet in a lock and in the shim, and a second call of a thread
finds what the first one left. `WorkerService`: `MaxJobs` is five, enough for two
submissions with one repetition each over a job of an earlier day; `Timeout = 0` is one
poll before the deadline, `Retries = 1` one repetition. `AuthSessions`: three threads give a
logout between two refreshes of one token, three tokens a rotation beside another
session; ids are numbers, so a thread about to save holds one back (`Pending`). For the race over the container two
threads and one session are enough, from the first request on.
`ApiService`: two jobs and two threads, because a request works on one job; one failing
command, as no request issues a command after one that failed.

**Deadlock** is not checked: every instance ends when its clients have made all their
calls, or the process has stopped; that nobody waits for ever is stated by the liveness
properties.

**Fairness.** A request thread finishes the call it is in, a worker that holds a
message goes on, the notification worker consumes, pool threads and the event
loop go on, the driver applies what was sent: weak fairness, as none of them
waits for another (each call has a timeout or returns). Strong fairness on the
delivery of a message, because an idle worker is only enabled intermittently and
RabbitMQ serves a queue in order; on the acquisition of a slot, because
`asyncio.Semaphore` serves its waiters in order. In `AITasks` a thread goes on
whatever it stands at (the lock is held for one bounded step); in `WorkerService` the threads
of the server and of a client in a call go on. `AuthSessions`, `ApiService` and
`DatasetProfile` have safety properties only. Clients, faults, deaths and
timeouts are never assumed to happen.

## 4. Proofs

Eight modules hold theorems, one per component; each extends the
component's module. They hold for any sets of jobs, threads, workers and clients, any
cells and any length of tables, and for any bounds and budgets, from the `ASSUME` of the component's module alone. Every safety property
and action property that a passing run checks is proved, and so is each refinement of an
abstract specification.

| Module | Theorem | Property |
|---|---|---|
| `JobPipelineProofs` | `PipelineTypeCorrect` | `TypeOK` |
| | `PipelineSavedBeforeDispatch` | `SavedBeforeDispatch` |
| | `PipelineSingleExecution` | `SingleExecution` |
| | `PipelineNoRetryWithoutLoss` | `NoRetryWithoutLoss` |
| | `PipelineNoJobLost` | `NoJobLost` |
| | `PipelineRecordsStayCoherent` | `RecordsStayCoherent` |
| | `PipelineAnnouncedBeforeReported` | `AnnouncedBeforeReported` |
| | `PipelineOneOutcomePerExecution` | `OneOutcomePerExecution` |
| | `PipelineOnlySavesInsert` | `OnlySavesInsert` |
| | `PipelineOutcomesStay` | `OutcomesStay` |
| | `PipelineFollowsLifecycle` | `FollowsLifecycle` |
| `SyncEngineProofs` | `EngineTypeCorrect` | `TypeOK` |
| | `EngineExecutesAtMostOnce` | `ExecutedAtMostOnce` |
| | `EngineCarriesAccepted` | `AcceptedIsCarried` |
| | `EngineFollowsLifecycle` | `FollowsLifecycle` |
| `AsyncEngineProofs` | `AsyncTypeCorrect` | `TypeOK` |
| | `AsyncSlotsAreKept` | `SlotsAreKept` |
| | `AsyncCancelledNeverExecutes` | `CancelledNeverExecutes` |
| | `AsyncShutdownLeavesNothing` | `ShutdownLeavesNothing` |
| | `AsyncFollowsLifecycle` | `FollowsLifecycle` |
| `AITasksProofs` | `TasksTypeCorrect` | `TypeOK` |
| | `TasksModelLoadsOnce` | `ModelLoadsOnce` |
| | `TasksAnswersUndisturbed` | `AnswersUndisturbed` |
| `WorkerServiceProofs` | `WorkerTypeCorrect` | `TypeOK` |
| | `WorkerMissingMeansSwept` | `MissingMeansSwept` |
| | `WorkerDuplicatesNeedTrouble` | `DuplicatesNeedTrouble` |
| `AuthSessionsProofs` | `AuthTypeCorrect` | `TypeOK` |
| | `AuthSweptStaysDead` | `SweptStaysDead` |
| | `AuthStateUsedOnce` | `StateUsedOnce` |
| | `AuthOneUserPerIdentity` | `OneUserPerIdentity` |
| | `AuthTokensAreFound` | `TokensAreFound` |
| `ApiServiceProofs` | `ApiTypeCorrect` | `TypeOK` |
| | `ApiOwnersOnly` | `OwnersOnly` |
| | `ApiAnswersAreTrue` | `AnswersAreTrue` |
| `DatasetProfileProofs` | `ProfilesAddUp` | `ProfileAddsUp` |
| | `ProfileNumericMeansNumeric` | `NumericMeansNumeric` |

Almost none of these is inductive alone. What is, module by module:

### JobPipelineProofs

Five invariants, each built on the ones before:

1. `TypeOK`.
2. `Custody`: what is dispatched, queued or executed was created, and a job is with
   *one carrier*: the thread that is about to dispatch it (and then nowhere else),
   the queue, or a worker that holds its delivery. It is needed because a message
   put back by a lost worker must not meet a copy of itself.
3. `Delivery`: the deliveries of a job, counted together with the message if it
   is ready, never exceed one plus the losses; a worker past publication has its
   event in `emitted`; and `NoJobLost`.
4. `Records`: every document in the collection, *and every document a request
   thread has read and may still write back*, carries what its status needs and
   was announced. The second half is what makes stale writes harmless for
   coherence: a thread can only write back something that was once coherent, and
   announcements are never withdrawn.
5. `Identities`: deliveries are numbered from one, no two executions of a job have the same
   number, and an execution that has not published has no event. It holds even
   when a lost connection makes two workers execute one job.

`OnlySavesInsert` follows from type correctness and the form of each action: a
`$set` without upsert never inserts.

`OutcomesStay` needs all five. A stored outcome was announced (`Records`); without a
loss a job is delivered once (`Delivery`), so the announcement and any execution
still under way bear the same number (`Identities`, lemma `OnlyExecution`). An
execution that has not published has no event of its number, so it cannot be about
to write running; one that is about to report announced the very outcome that is
stored, because one execution announces one outcome.

`PipelineFollowsLifecycle` is the refinement of `JobLifecycle`: a save of a new
document is its `Create`, a status write its `Move`, a deletion its `Delete`, what disturbs a
record a `Delete`, all else a stutter. It has no hypothesis but the assumption of the module. The invariant is
`Steady`: a job that was not disturbed is executed by one worker at a time, and its record is as far as
that worker (`InStep`), so that what the worker writes next is a legal move from what is stored, or the document
is deleted.

### SyncEngineProofs

`Custody` is `OnePlace` (a job is in the backlog once, or with one thread, or in neither),
`Progress` (a job that waits is untouched, and what a thread is about to store fits what
is stored and how often the task ran) and `ExecutedAtMostOnce`. The refinement of
`AIJobLifecycle` and `AcceptedIsCarried` follow from it: what a thread writes is one of the
moves that `Progress` allows. A failing update keeps `Progress` whether it was applied or not,
as it is followed by the write of a failure.

### AsyncEngineProofs

`Slots` counts: free permits plus the coroutines inside the semaphore are its value. Which
coroutines are inside is finite for an infinite set of jobs too, and that is
part of the induction. `AllOK` says of each job on its own how the step of its coroutine, the step of
its cancellation, the stored status and the writes in flight fit together (`JobOK`); it
is what orders writes that reach the database in any order. `Awaited` is about the tasks a shutdown
waits for. The refinement is `AllOK` again: a write in flight is a lawful move from what
is stored.

### AITasksProofs

`Locks`: who is at the loading step holds the lock of its service, whoever holds a lock
is at that step, and a service is loaded once at most. `Threshold`, as long as no two calls have
met: whoever overrides the threshold is the only call in the output phase of the shared
service, saved the default, and finds its own threshold from the override on; an answer
that was formed is the one the call gets alone.

### WorkerServiceProofs

`StoreOK`, `SlotsOK`, `Waits` and `Clients` relate the dictionaries, the requests the server works on
and the calls that wait for them: an id that was issued is stored, swept or was made by another
manager; a listing that is under way has overlooked only what was swept since it
began. `Accounted` counts: the jobs a submission made, with the requests that
will still make one, are at most the attempts that were sent. A timeout or
a 500 answer leaves a request behind which is still counted, and that is why
`DuplicatesNeedTrouble` alone is not inductive.

### AuthSessionsProofs

`Core`: the stored tokens are numbered without a gap, with a number kept back for every
refresh that is past its check, and a request holds a token that is stored, with its
session. This is why the set of threads must be finite, which the assumption says. On
it, `Swept` (no live token of a swept session, and no request of it past its check),
`Once` (who holds a state is alone and took it out of the store), `Shared` (whatever a request, a use case or
a session holds of the container is what is registered now, except for what two
requests raced to build; a use case in place holds all it needs) and `Users` (users are in the registered repository only, unless it was built
twice; without an overlap one login at a time is past its look-up, and only while there is no user).

### ApiServiceProofs

`IInv`: every document, stored *or held by a request*, belongs to whoever created the job
(`Owned`), and each request is `Sound`: its caller may see what it holds, past its check, and
its answer is about what it did. A stale or resurrected document keeps its owner, and that is
what the update route rests on when it checks one read and works on another.

### DatasetProfileProofs

The invariant is that the result is the one of the payload (`Ran`); the work is in the lemmas about
the operators, for columns of any length. `Ranks` and `InOrderPositions` say what `InOrder` returns: in a strict
total order of a finite set every rank is taken once, so each selected position appears
once, the earlier first. From there:

* `TypeOfColumn`, `PrefixCount`: the sample holds no more convertible values than the column, so four
  fifths of the column found in the sample are four fifths of the column. `FrameCounts`: what
  `read_csv` does to a column of numerals changes neither which cells are null nor which
  convert.
* `TopAndDistinct`: the other distinct values sit at the other positions (`FS_Surjection`).
* `ValuesAscend`: a value at a position between two elements, counted in quarters of a step, grows with the
  position; the quartiles are such values.
* `OutliersAtMostHalf`: no element between the quartiles is an outlier, and there are enough of them
  unless the number of steps is 1 or 2 modulo 4. Then the element before them counts too: it is at most
  half a step below the first quartile, and the quartiles are far enough apart (`BeforeIsNoOutlier`).

### What stays with TLC

* Liveness (`MessagesAreExecuted`, `RunningJobsFinish`, `AcceptedJobsFinish`, `RunsEnd`,
  `CallsReturn`, `CallsEnd`): with fairness and `ENABLED` it is beyond the prover.
* `ReportedOutcomeIsRead` and `PollUrlIsServed`, which do not hold.

`PipelineNoRetryWithoutLoss` and `PipelineOneOutcomePerExecution` are proved and have no run of their own.

## 5. Not modelled

* `ModelExecutor`: no service instantiates it. `AIProcessingResult` and its repository,
  `policies.py`, `shared_auth/middleware.py`, `MongoConnectionManager.reconnect`,
  `GetAIJobUseCase`: called by nothing. `Job.start`, `complete`, `fail`, and `timeout_seconds` with `is_timed_out`: no service
  calls them; the worker writes the fields itself.
* The in-memory repository of the `TESTING` configuration of api-service.
* Job lists see the total and the page in two commands (`_find_paginated`), which may
  disagree; no property is about the total.
* The race of two threads for a singleton in api-service: what is built twice there keeps
  no state.
* In `ApiService`: the status running (a job is pending until the worker or a cancellation ends it; the moves
  through running are in `JobPipeline`), the filters of a list, and the `ValueError` of an invalid
  priority, which the schema of the route refuses before (`schemas.py:36`).
* In `WorkerService`: a compaction of the dictionary during a pass over it, which could make the pass skip
  an entry; a restart of the process.
* In `AuthSessions`: a deactivated user (no code deactivates one), the claims of access tokens, and the
  single documents of an `update_many`.
* In `DatasetProfile`: cells that are booleans, lists or dictionaries, but for the exceptions they cause in
  the statistics (`raising`).
* Validation rules, formatting, logging, metrics, health routes, configuration, deployment.
* Means, deviations, sample values of a profile; scores and texts of the models.
* Enqueuing one id twice in the asyncio worker (the callback of the older task removes the
  entry of the newer one).
* Duplicate publications by the broker's client; a clock that is not shared by hosts.

## 6. Plan

Done: the job pipeline, both engines, the AI tasks and profiling, ai-worker over HTTP,
sessions and the process of api-service, modelled and checked; every safety property,
action property and refinement of them proved.

Next: further action properties (what a step of `WorkerService` and `AuthSessions` may never do) with
their proofs; what happens to a cancelled job that was never dispatched, which `FollowsLifecycle` counts as disturbed.
