# Verification of the online judge

TLA+ models of the backend of the online judge (`src/backend`), the TLC runs that
check them on small instances and the TLAPS proofs that hold for every instance.
Paths below are relative to `src/backend` unless they start with `docs/`, which
is `src/backend/docs`.

## The system

An HTTP server accepts submissions and lets administrators edit problems. It
stores everything in PostgreSQL. Judge servers, each with several worker threads,
lease submissions from a queue table, build and run them in a sandbox against
the testcases of their problem, and write the verdict back. The two kinds of
process share nothing but the database (and a NOTIFY channel of it).

| component | its state | its operations | what makes it correct |
|---|---|---|---|
| submission queue (`db_repository/submission_queue_repository`) | `submission_queue`: priority, attempt_no, lease_token, leased_until | enqueue, lease (SKIP LOCKED), release, delete | one live lease per row; nothing lost |
| status writes (`submission_finalize_repository`, `submission_judge_service`, `submission_command_service`) | `submissions`, `submission_status_history` | create, mark judging, requeue, finalize, rejudge of one submission or of a problem | late workers are fenced off; the history is a path; results belong to verdicts |
| counters (`user_problem_summary_repository`, `problem_statistics_repository`) | `user_problem_attempt_summary`, `problem_statistics` | increments and decrements inside those transactions, in an order of locks | equal to a recount; deadlocks are survived |
| transaction retry (`db_service/db_service_util.hpp`, `db_connection_util`) | one connection, an attempt number | begin, commit, map the error, reconnect, try again | a write is done once, and the answer is true |
| judge worker (`judge_core/entry`, `judge_core/application`, `judge_core/gateway`, `main/judge_server.cpp`) | the lease a thread works under, its completion | start, listen, lease, mark, judge, complete, crash, restart | every submission is decided; no work is overlooked |
| judge workspace (`workspace_manager`, `workspace_session`) | a directory per submission and attempt number | create, write, build in, remove by path | an attempt has its directory to itself |
| verdict policy (`judge_core/policy`, `submission_decision`) | none | compiler run and testcase runs to status and score | the verdict is that of the first failure that counts |
| testcase snapshot cache (`judge_core/testcase_snapshot`) | directories of published versions, a lock per problem and process | acquire, download, validate, publish by rename, replace | a worker reads a whole version, which nobody takes away |
| sandbox (`sandbox_runner`, `nsjail_util`) | two cached directories, scratch files and a child per thread | prepare, run, wait, kill, read | every run ends, with its own output and policy |
| judge runtime status (`judge_runtime_registry`, `judge_runtime_status_reporter`, `system_service`) | busy counter, heartbeat row | mark busy, self check, heartbeat, add up | the rows follow the processes |
| testcase authoring (`testcase_*_service`, `testcase_*_repository`, `problem_snapshot_repository`) | the testcases of a problem, its version, its snapshots | create, update, move, delete, replace, publish | orders are 1..n in every snapshot; a published version never changes |
| problem content (`problem_content_service`, `problem_core_service`) | title, statement, limits, samples | create, set, delete of samples; set limits, title, statement | counts and manifests agree with the rows |
| HTTP server and session (`http_core/http_server`, `http_session`) | socket, one timer, the running request | accept, read, dispatch, write, time out, close | one response per request, in order, none after the close |
| worker pool, connection pool (`common/worker_pool.hpp`, `common/db_connection_pool.cpp`) | bounded queue, threads; connection slots | post, take, run; acquire, release, reconnect | no more than the limit; no slot lost or given twice |
| dispatcher and routers (`http_dispatcher`, `http_router`) | the route tables | choose a router, a connection, a route | every route is reached |
| endpoints, guards, handlers (`http_endpoint`, `http_guard`, `http_handler`) | the context of a request | parse, guards in order, execute, answer | nobody is served without the permission |
| users, login, tokens, bans (`auth_service`, `user_service`) | users, token rows | sign up, log in, renew, revoke, promote, ban | an expired or revoked token is refused |

They interact through calls inside one transaction (services over repositories),
through the rows of the tables between transactions, and through callbacks of
the event loop (HTTP session, dispatcher, worker pool).

What is hard here, and what a test would hardly reach, is listed with its line in
`PROJECT.json` under `hazards`. In short: workers that come back after their
lease; an attempt number that starts again at zero; a commit whose answer is lost;
lists read before the rows are locked; statements of two transactions that
interleave; rows locked in two orders; callbacks that still run after they were
cancelled; a permission read by one guard and used by a later step; directories
found by path; counters that are moved and never recounted; and a crash between
any two steps.

## Modules

| module | what it is |
|---|---|
| `SubmissionStatus` | the status values and their classes |
| `SubmissionLifecycle` | abstract specification: one submission's statuses and audit trail |
| `JudgeQueue` | the queue, the tables and the workers; implements `SubmissionLifecycle` |
| `CounterLocks` | the rows the same transactions lock, and in which order |
| `TransactionRetry` | one call of the retry loop around every write transaction |
| `TestcaseList` | abstract specification: a list edited atomically, published version by version |
| `TestcaseAuthoring` | the testcases of a problem under concurrent edits; implements `TestcaseList` |
| `ProblemContent` | samples, limits, title and statement under concurrent edits |
| `Transactions` | `ProblemContent`, `TransactionRetry` and `CounterLocks` together |
| `JudgeAttempt`, `JudgeVerdict` | one attempt step by step in its workspace; how runs become a verdict |
| `SnapshotCache` | the directories of testcases on a judge server |
| `Sandbox` | the sandbox directories, and the wait for a child |
| `JudgeWorkers` | start, sleep, notification and restart of worker threads |
| `JudgeStatus` | heartbeats, and what a health check makes of them |
| `JudgeServer` | `SnapshotCache`, `Sandbox`, `JudgeWorkers` and `JudgeStatus` together: what the threads of the judge servers share |
| `HttpServer` | sessions, over `WorkerPool` (the handlers' queue) and `ConnectionPool` |
| `WorkerPool`, `ConnectionPool` | the two pools, step by step |
| `Endpoints` | the endpoints as their handlers specify them: guards, operation, statuses |
| `Requests` | requests that race over accounts, tokens, bans and a problem; uses `Endpoints` |
| `Routes` | the route tables and the dispatcher; its routes bear the names of `Endpoints` |
| `Api` | `Routes` in front of `Requests`: the whole way of a request through the server |
| `JudgeQueueProofs` | theorems about `JudgeQueue` and `SubmissionLifecycle` |
| `TransactionProofs` | theorems about `Transactions` and its three modules |
| `JudgeServerProofs` | theorems about `JudgeServer` and its four modules |
| `TestcaseAuthoringProofs`, `JudgeAttemptProofs`, `HttpServerProofs`, `WorkerPoolProofs` | theorems about the module of that name |
| `RequestsProofs` | theorems about `Requests` and about `Routes`, as `Api` puts them together |
| `TestcaseEdits` | the edits of testcases that the runs ask for |
| `MC...` | the instances of the runs |

An operator that stands before its original and is called a mutant in its comment
(`RowsOfFinalizeSwapped`, `RevokedByExpiry`, ...) is a plausible bug of the original.
Nothing uses it: it is there to see that a property fails when the code is that
much different (`PROJECT.json`, `mutants`).

### JudgeQueue

One action is one database transaction, because PostgreSQL makes them atomic,
except where the code lets something matter happen in the middle:

- `ChooseRow` / `CommitLease`: `lease_submission` locks its row with `FOR UPDATE
  SKIP LOCKED`. Between the two the row is `Locked`: other lease transactions
  skip it, `finalize` and its siblings wait for it and then look at it again.
- `BeginTransaction`: `NOW()` is fixed when a transaction begins, so a lease that
  was found in time may be passed when the transaction writes. The actions after
  it check the token and attempt number again, as the re-evaluated WHERE clause
  does, but not the time.
- `ListForRejudge` / `RejudgeProblem` / `RejudgeProblemConflict`:
  `rejudge_problem` reads its list without a lock.

| variable | code |
|---|---|
| `status`, `result` | `submissions.status`; its score and output columns, abstracted to whose verdict they belong to |
| `history` | `submission_status_history` |
| `queue[s]` | the row of `submission_queue`, `Null` when there is none |
| `problem_statistics`, `attempt_summary` | the counter tables |
| `rejudge_list` | the vector a running `rejudge_problem` holds |
| `pc`, `held`, `completion` | where a thread is in `judge_worker::run` and `submission_processor::process`, its `leased_submission`, its `submission_completion` |
| `clock` | orders the `created_at` of queue rows; rows of one transaction tie |
| `faults` | counts the faults of the environment |

Time is abstracted to whether `leased_until` is null, ahead of `NOW()` or passed;
`available_at` is never in the future in this code and is left out. A token is
fresh when nothing remembers it, which is what 128 random bits give. A worker's
error return and the death of its process are one action (`Crash`), because
`run_judge_worker_loop` builds everything anew either way. A transaction whose
commit is in doubt is not retried (`TransactionRetry`), so for a worker it is the
transaction, or nothing, followed by `Crash`. `Judge` stands for
the attempt that `JudgeAttempt` spells out; it ends because the
sandbox enforces time limits. `JudgeUnavailable` is the one class of error that
`decide_retry_directive` sends back to the queue. A retry that rolled back
changes nothing and is a stutter. A create that is refused (a banned user, an
unknown problem) changes nothing.

`SubmissionLifecycle` is what a reader of the tables may rely on: statuses move
along submit, start, give back, decide, rejudge, and each move leaves its audit
row. `JudgeQueue` implements it with the identity on `status` and `history`.

### CounterLocks and TransactionRetry

`JudgeQueue` takes a transaction for one step; these two show what that leaves out.
In `CounterLocks` a transaction is a list of rows it asks for one after the other
(`RowsOfFinalize`, `RowsOfRejudge`, ...: the statements of
`submission_finalize_repository` in their order), it keeps what it got until
`Commit`, and `EndDeadlock` is PostgreSQL's detector, which may end any
transaction of a circle. A row is given to those who wait for it in the order they
came. `lease_submission` skips locked rows and waits for none, so it is left out; so
are the locks foreign keys take, which do not conflict with these. `Execute` looks
at the submission again after the wait, as the WHERE clauses do.

In `TransactionRetry` an attempt is begun, its callback executed, refused or
interrupted, and committed; a commit may also fail, or be in doubt: the connection is
lost and `applied` may or may not have grown. `layer` chooses between the two loops
of the code: that of services, and `retry_db_operation`, which go on differently
when a reconnection fails. libpqxx is external: its exceptions are what
`from_psql_exception` catches, and `in_doubt_error`, which it does not.

### TestcaseAuthoring and ProblemContent

Here a transaction is not atomic. The services run at READ COMMITTED, so the
statements of two edits interleave, and each statement sees what is committed
when it begins. Every statement of an edit that reads or writes testcases,
counts or versions is an action, in the order `Statements` gives:

| action of `TestcaseAuthoring` | code |
|---|---|
| `Begin`, `Fail`, `Commit` | `with_retry_service_write_transaction`; a retry is another `Begin` |
| `Execute`, then `Write` | an UPDATE or DELETE on `problem_testcases`: it finds its rows in its snapshot, waits for rows another transaction has written, and writes those that still match |
| `Refuses` | what the code makes of `affected_rows()` |
| `IncreaseCount`, `DecreaseCount`, `ClearCount` | the updates of `problem_statements.testcase_count`, which lock that row |
| `Insert` | `create_testcase`, at the order the count gave; the unique constraint waits or refuses |
| `GetTestcase`, `CountRows` | the two reads that decide how an edit goes on |
| `IncreaseVersion`, `ReadManifest`, `Publish` | `increase_version_and_publish_current_snapshot` |

| variable | code |
|---|---|
| `testcases` | the committed rows of `problem_testcases`, by `testcase_id` |
| `testcase_count`, `version` | columns of `problem_statements` and `problems` |
| `published` | `problem_version_manifests` and `problem_version_testcases` |
| `tx[s]` | the transaction open on a connection: statements left, rows found, uncommitted writes (which are its locks), manifest and copy |

One problem is modelled; problems share nothing here. Requests the code refuses
before it opens a transaction are not made, and a move to the order the testcase has
already only reads (`OperationAssumption`). A deadlock that PostgreSQL
breaks is `Fail`. The unique constraint is checked by `Insert` at once and for
delete and move at the commit, as `SET CONSTRAINTS ... DEFERRED` says. The edits
of limits, statement and samples that make a version are the operation `edit`
there; `ProblemContent` models them.

`TestcaseList` is what an administrator expects. The refinement mapping reads the
committed rows in their order, and maps a `Commit` to the edit and every other
step to a stutter. It holds as long as an edit that deletes testcases (`delete`,
`delete_all`, `replace`) meets no other (`DeletionsAreAlone`): for one administrator, and
for several whose edits delete nothing, however they interleave. Nothing in the code sees
to that condition; without it the refinement does not hold (`orders` below).

`ProblemContent` is built the same way: `First` and `After` give the statements of
an edit (`problem_content_service`, `problem_core_service`), `tx[t].holds` the rows
it has locked. Of a text only its existence matters; the limits have values, since
they are part of a manifest. `create_sample` makes no version, `set_sample` and
`delete_sample` do. A retry is another `Begin`. `Init` is what `create_problem` leaves.

### JudgeAttempt and JudgeVerdict

What `JudgeQueue` calls `Judge`, step by step as `submission_processor::process`
takes it. Each step finds the directory by its path, submission and attempt number:
`dir[p]` says whose source and program are there. The queue is reduced to what
tells one lease from another (`row`: state, owner, attempt number, and `life`, how
often the submission was rejudged). A lease may expire at any time, since nothing
here depends on when. `StepFails` is a failed call in any step, `WorkspaceIsGone`
what happens when the directory was removed meanwhile; of an error code only
matters whether it is `unavailable`, which requeues. `remove_all` empties a
directory and then removes it (`EmptyWorkspace`, `CloseWorkspace`). A run of the
compiler is what the sandbox reports of it; its `cause` is a history variable that says
what was really wrong, which no code reads. An error in the source and a compiler
that runs too long show themselves as such, while a compiler that is out of memory or
missing (`Indistinct`) exits as one that found an error does (`CompilationsAssumption`).

`JudgeVerdict` has no state. An execution is a record of what the sandbox reports,
a measure stands for its comparison with a limit, and the operators follow
`execution_failure_classifier`, `checker`, `judge_policy`, `submission_decision` and
`program_build_support` in their order of tests.

### JudgeServer: SnapshotCache, Sandbox, JudgeWorkers and JudgeStatus

`JudgeServer` instantiates the four, and its `ServerSpec` is the conjunction of their
specifications: their variables are disjoint, and no step of one reads a variable of another.

- `SnapshotCache` has one action per file operation of `testcase_snapshot_acquirer`
  and `testcase_store`. A testcase is two files, which are written under the staging
  name; a directory of a version appears by a rename and disappears entry by entry.
  The lock is per process, and is given back before the directory is used.
- `Sandbox` follows `sandbox_runner::run`: scratch files, the cache behind its
  mutex (`Lock` ... `FinishBuild`), `Fork`, `wait_wall_clock` with its clock in
  ticks, `ReturnResult`. A directory is removed with its last `shared_ptr`
  (`Released`), and emptying the cache takes the mutex (`Invalidate`). The history
  variable `old` holds the directories that were made before the cache was last
  emptied. A child stands for its process group, stdout and stderr are one
  text. `Abandon` is a system call that fails: the child goes on without anyone who
  waits. `BreakDir` is whatever cleans up `/tmp`.
- `JudgeWorkers` is about `judge_worker::run`, `wait_for_work` and
  `run_judge_worker_loop`: a worker LISTENs before it looks, so that a notification
  sent in between is waiting for it; an expired lease sends none.
- `JudgeStatus` has the rows of `judge_instances` and what `system_service::get_status`
  adds up from them, as a function of table and clock.

### HttpServer, WorkerPool and ConnectionPool

`http_session` is a strand of callbacks. `session[s]` is the state of the object,
`completions[s]` the callbacks that will still run: of a read, a write, a timer, a
handler. A timer that has expired can no longer be cancelled (`Expire` puts its
callback there), so a callback may find another phase, another request or another
timer generation than it was made for; the guards of the code (`ReadMatches`,
`ResponseMatches`, `WriteMatches`, `TimerIsCurrent`) are then false and it does
nothing (`OnStale`). `async_handle` posts to the `WorkerPool` while the strand
waits, and the thread that takes the task goes through the `ConnectionPool`. The
bytes of requests and responses are left out: a read completes with a request,
something that does not parse, the end, or an error. Posting a handler's answer to the
strand may throw; the code then only logs it (`http_session.cpp:290`) and the answer is
lost. So `Answers` has two outcomes, and the history variable `lost` holds the
requests that met the second. With a deadline the timer of the request answers in the
handler's place. Without one nothing refers to the session any more, and its destructor
closes the connection: the client gets no answer, but does not wait (`Dropped`). Left out is a `bad_alloc` where nothing catches it (line 279,
or a handler outside its `try`): it ends the process. boost::asio, beast and the
condition variable are external.

`WorkerPool` has the compare-and-exchange on `queued_task_count_` as two steps
(read, then reserve or read again), and the place is given back after the task was
taken from the queue. `ConnectionPool` has a slot checked, reconnected or failed
after it was taken, and given back in every case.

### Endpoints, Requests and Routes

`Endpoints` is a table of the handlers: which guards in which order, which
operation, which status. `Requests` executes it: a request keeps the identity its
first guard has read while accounts, tokens, bans and the problem change under it.
A guard, and an operation of one statement, is one step. A write transaction takes
its `NOW()` when it begins and takes effect when it commits; a statement that
waited for a row reads the row again with the same `NOW()`. One problem is
modelled. The operations `other` and `content` do nothing here: what they do is in
the modules of submissions and of content. Whether a password is right is a choice;
`Tokens` bounds the sessions there may be. `seen` records what was true at some
moment of a request, which is what the properties compare it with.

`Routes` has the route tables with their patterns, and the three decisions of
`http_dispatcher`: by prefix, connection or none, and the table. Which segments are
numbers of 32 or 64 bits and which are no encoding are constants; the run gives them
a small alphabet with every kind of difference a matcher makes (a number too large
for an int32, an encoding that is none, an empty segment). Whether there is a
connection is a choice. `Api` puts the two together; it assumes of the numbers what
`parse_positive_int32` and `parse_positive_int64` see to: those of 32 bits are among
those of 64, and no word that stands beside a number in a table is one
(`NumbersAssumption`).

## Runs

| run | instance | question |
|---|---|---|
| `judge_queue` | 2 submissions of one user and problem, 2 workers; `faults`: 1 verdict, 3 enqueues, 2 faults; `disagreeing`: 2 verdicts, 3 enqueues, 1 fault; `verdicts`: 4 kinds of verdict, 4 enqueues, no fault; 0.5 million states | leases, fencing, loss, results, counters, refinement of the life cycle |
| `liveness` | 2 submissions, 2 workers, 2 faults, 2 enqueues; 0.1 million | every submission is decided |
| `testcase_list` | 2 administrators, 3 contents; `alone`: every edit, where one that deletes testcases meets no other, lists of none or three testcases at first, up to 2 edits; `keeping`: edits that delete nothing, 3 testcases at first; 0.27 million | every edit is an atomic edit of the list |
| `transactions` | `edits`: 3 edits of content, 3 samples, 3 versions; `testcases`: 2 administrators, every edit at the first two orders, lists of none or two testcases at first, 4 versions; `locks`: 4 transactions of 7 workloads on 4 submissions of 2 users; `retry`: 5 attempts; 1.8 million states | counts, manifests and versions are consistent, immutable and current; deadlocks and their retry; true answers |
| `attempts` | `workspaces`, `late`, `verdicts`, `broken`; 2 workers, 2 submissions, 0 to 3 testcases, 15 kinds of runs, of compiler runs every symptom and cause; 0.7 million | the verdict follows from the runs, of this life and in a directory of its own |
| `judge_server` | `one process`, `two processes` (snapshots), `shared`, `wait` (sandbox), `crowd`, `pair` (workers), `status`; 0.3 million | what a worker uses is whole and not older than its life, and every wait ends |
| `http` | `load`: 3 sessions, 2 handlers, a queue of 2, 1 connection; `session`: 1 session, 2 requests, both timers; `patient`: 2 sessions, a place for each, no timeout; answers may be lost in each; 0.2 million | one answer per request, in order; nothing is kept for ever, and every request ends: with an answer, or, without a deadline, with its connection if the answer was lost |
| `requests` | `routes`: every path of a route or next to one; `authority`, `sessions`, `submitting`, `sources`: 2 requests at a time; 0.6 million | each finds its handler, and none is served without the right |
| `orders` | 2 administrators who create and delete | orders with a gap are published |
| `sample_append` | 2 administrators who create and delete samples | a sample that cannot be appended any more |
| `attempt_late_worker` | 2 workers, a rejudge between them | two attempts in one directory |
| `compile_failures` | the instance of `attempts` | a compiler out of memory, or missing, ends as `compile_error` |

A run with several parts has a variable `part` that is chosen in `Init` and never
changes: each part is an instance of its own, checked together because they are one
question. The part fixes constants (`INSTANCE ... WITH`), or keeps some of the
actors out. The variables of the other modules stand still. A safety property of the
module an MC module extends holds of every part, as the theorems about it say; one
that the MC module states itself is restricted to the parts it is about.

Why the bounds are enough. `judge_queue`: two workers are what a lease race needs, two
submissions what an order, a batch rejudge and a shared counter row need; three
enqueues leave room for a rejudge of either submission after both were created, so
that attempt numbers repeat; two faults reach a crash of each worker, a lease
that runs out under a worker twice, and so on; one is enough for a late worker that
comes back with another verdict (`disagreeing`). `verdicts` uses four kinds of
verdict so that each class of `is_failed_submission_status` moves in and out.
`clock` is bounded by `MaxEnqueue`, faults by `MaxFault`; neither bound is in the
way of a worker. Workers and submissions are symmetric there; no run with a
liveness property uses symmetry.

`TestcaseAuthoring`: two transactions and two commits are what any conflict
between two statements needs: the one that began first sees the other commit
between any two of its statements. Three testcases of three contents tell a
rotation from an exchange. `MaxVersion` stops further edits at their
`increase_version`, where they may fail; all that comes before it is explored.
`Row` is large enough that no insert ever waits for an identifier.
That is `testcase_list`, where edits are checked against the list. What versions show is
checked in `transactions` (`testcases`) of every pair of edits: two
orders tell the testcase at the order of an edit from one after it, and a list of one
is what a create leaves.
The order of a move is refused by three checks (the row count, the rows that still
match, and the unique constraint). Removing either of the first two alone does
not break `ImplementsTestcaseList` in `keeping`: the constraint
catches what they let through.

`transactions`: three edits, so that one waits for a lock while another commits;
the workloads of `locks` mix submits, verdicts and rejudges of the same user, of two
users and of one submission. Two attempts are not enough for some of them, three
are, and the code makes five.

`attempts`: two workers and one rejudge are what a shared directory needs; the
executions have one symptom each and the pairs in which the order of tests
matters. In `verdicts` only one worker is at work and only one attempt is made, in
`broken` one attempt. `judge_server`: `Dirs` has one directory more than the
profiles, for one that is being replaced while it is used; in `shared` no time passes
and no child writes, in `wait` the second thread is idle; `two processes` has one
failure, `one process` two, and its third worker, of the second process, is idle. `http`: the second session of
`session` is never opened (it names what the other is not); two requests let a
callback of the first meet the second. A session of `load` ends with its first
request, and what it is about is the competition for threads, places and connections: three
sessions want the two places of the queue. A queue without a limit (`NoLimit`) is
left to the theorems.
`requests`: two requests at a time, one of which
changes what the other has read; `MaxTime` is long enough for a token or a ban to
end under it. In `submitting` one administrator bans the other user, who
submits meanwhile.

Fairness. In `liveness` each worker's step is weakly fair (`run` loops for ever and
`run_judge_worker_loop` restarts it), and so is the passing of time for a lease
nobody works under. Requests and faults are not fair. A worker that is slower
than its lease is a fault, so it happens finitely often: if every judging took
more than five minutes nothing would ever be decided, and a dependency that is
always unavailable would requeue a submission for ever (there is no cap on
attempts). Both are listed as hazards. The bound on enqueues also means that
new submissions (priority 100) cannot starve a rejudge (priority 0) for ever,
which in the code they can. In `judge_server` threads and clocks are weakly fair,
children and failures are not; the database steps of `JudgeWorkers` are strongly
fair: what is asked of the database again and again is granted some time, though
other workers lock the row in between. In `http` threads, expired timers and callbacks of
the server's own are weakly fair; a client need never send, read or close. In
`transactions` the statements of a transaction are, and the deadlock detector; how
a call ends is not.

### Disagreements

- `orders`: `delete_testcase_and_shift_after` deletes, shifts and only then locks
  the count. A `create_testcase` that commits between these statements puts its
  row at an order the shift has not seen, and the deletion publishes testcases
  2 without 1. `testcase_snapshot_acquirer.cpp:37` refuses such a version, and
  all its submissions become `infra_failure` until the testcases are replaced.
  `delete_all_testcases` and `replace_testcases` have the same window: they
  leave a row outside the count they clear. Taking the lock on
  `problem_statements` (or `problems`) first in every edit would close it.
- `sample_append`: the same window of samples. `delete_sample` looks for the highest
  committed sample while a `create_sample` has the next one uncommitted: it deletes
  sample n, leaves n+1 and a count of n, and every `create_sample` after that is a 409
  until a sample is deleted.
- `attempt_late_worker`: `docs/schema/submission_schema.md` calls `attempt_no` the
  current lease generation. It restarts at zero with every rejudge, so two workers can
  judge one submission under one attempt number. The lease token still fences
  the late one off (`OnlyTheLeaseholderDecides`), but both have the same
  workspace directory (`workspace_manager.cpp:84`), and the one removes it under the
  other. The verdict may then be of a run that found no program, or another's.
- `compile_failures`: `docs/schema/submission_schema.md:154` has a compiler that runs out of
  memory end as `build_resource_exceeded`, and `:203` wants a broken toolchain handled
  as a failure of the infrastructure. `make_compile_failure_artifact` takes every compiler
  that exits with a code of its own for an error in the source, and a compiler out of
  memory does exit so, as nsjail does when there is no compiler: both are stored as
  `compile_error`, and to the author it is his program.
  `VerdictFollowsTheRuns` asks of the causes that can be told apart that they are;
  `CompileFailuresAreToldApart` asks it of all.

Seen while modelling, and without a run of their own:

- nothing in the running system writes `user_submission_statistics` after the row
  of zeros is inserted; `docs/api/user_api.md:132` documents its
  `submission_count` as the total (`user_statistics` of `JudgeQueue` never changes);
- `build_resource_exceeded` is counted as failed, and the list in
  `docs/schema/user_problem_schema.md` does not have it;
- for a number of the path that is none, `docs/api/problem_api.md:721`
  (`sample_order`), `:1013` and `:1133` (`testcase_order`) and
  `docs/api/submission_api.md:71` (`problem_id`) promise 400. The dispatcher answers 404,
  because a path with such a segment matches no route and no handler sees it.
  `EveryRequestFindsItsRoute` leaves the status of these requests open;
- without a deadline (`request_deadline_opt` is `nullopt`), a request whose answer could not
  be posted gets none, not even a 500: its connection is closed (`Dropped` in `HttpServer`);
- a server whose self check failed counts among the live ones until its one
  heartbeat is stale (`LiveInstances`);
- the limits of a problem that was deleted under the request are answered with 400,
  other edits with 404 (`gone` of `Endpoints`);
- two processes and a directory of an older schema version: one may remove what the
  other has just published (`SnapshotCache`; the run starts two processes without
  such directories, and the theorem assumes it).

## Proofs

Everything below holds for every value of the constants, under the assumptions
named in the modules (sets of workers, submissions and transactions are finite, `Null` and
its like are no member of them, bounds are natural numbers). TLC evaluates them on the
instances of the runs. Where a module is only used by others (`WorkerPool`), its theorem
has them as a hypothesis, `Parameters`, and they are proved where it is used.

`JudgeQueueProofs`: the inductive invariant is `TypeInvariant /\ LeaseInvariant`.
`QueueMatchesStatus` and `JudgingIsLeased` are not inductive alone: that a
finalize removes the row of a submission that says judging needs
`WorkersHoldLeases` (a worker past its lease still has one), that a lease
transaction writes a token over a row nobody works under needs
`LeasingLocksItsRow`, and that a second worker's token does not make it a holder
needs `TokensAreDistinct`. The step is proved once per kind of action: the
lemmas named `...KeepsLeases`, tied together by `LeaseStep`. Every step of the queue
is a step of the life cycle or leaves status and history alone
(`JudgeQueueImplementsLifecycle`); so the audit trail, proved unbroken of the
abstraction (`AuditTrailIsKept`), is unbroken in the queue. The two
action properties, and that a result belongs to its verdict, are proved from the
same invariant. `CountersExact` is inductive with it: the
work is in lemmas about the cardinality of the sets of submissions with a
status, when one submission moves, or when a set of them is rejudged.
`CountersNeverRefuse` follows from exact counters.

`TransactionProofs`: while the retry loop may go on, `applied` is 0: after an attempt
that may have been committed no other is begun, because `in_doubt_error` is mapped
to `internal`, which is not retried. That a write is applied at most once, and that
each answer is true, follow. Of `ProblemContent`: a row lock is held by one transaction,
and what a transaction has read of a row it holds stays true until it commits. Hence the
count is that of the committed samples, the version a transaction has taken is the next one
and not published, and the manifest it publishes has the limits that are committed.
While nobody may delete samples, they are numbered without a gap: `sample_append`
is about deletions only. Of `CounterLocks` (`LockInvariant`): a transaction that is no
rejudge has locked, or asked for, only rows whose rank (submission, queue, summary,
statistics) is below that of what it has still to lock. In a circle without a rejudge, who
waits for a row of the highest rank, at the least place in its line, would be behind one
of a rank no lower and a lower place (`NoCircleWithoutRejudge`). To be able to say this,
`WaitsFor` is the least set that is closed under `Ahead`, without recursion.

`TestcaseAuthoringProofs`: what is left of a transaction is the end of its list of
statements (`Remains`), so `increase_version` is among its last four. From there to the
commit it holds the row of the problem (`VersionIsLocked`): no other edit commits, and
the rows it sees are the committed ones with its own writes. That it counted and copied
the same rows (`SnapshotIsCurrent`) is then stable, and the manifest it commits is
consistent and current. The rows of testcases may be locked, shifted and deleted in any
order before that: the proof uses nothing of them but that they are finitely many
(`RowsAreFinite`), which is why the two properties survive the window that the run
`orders` shows. `TypeCorrectness` is proved apart, with one lemma per statement.

As long as an edit that deletes testcases meets no other (`DeletionsAreAlone`; edits that
delete nothing may meet each other), more is true, for any number of administrators.
`ListInvariant` says what each of them has written by the time it publishes, in terms of
the rows that are committed now and not of those it found. Of edits that delete nothing
(`Inserted`, `Replaced`, `HasMoved`): two of them never write the same row, only one has
increased the count, and so what one commits leaves the others' claims true (`CommitKeeps`).
A move needs that the rows it writes are all those between the two orders: its UPDATE
affects as many rows as there are orders, and no two rows share one (`AllOrdersTaken`). Of
edits that delete, `DeletesRows` says it for each place in the list of statements: the row
at the order is gone, those after it are found and then shifted, the count is one less; or
all rows are gone, the count is 0, and so many of the new contents are there as the
`insert`s that are left do not bring (`OneMoreWritten`).

Then the committed orders are 1, 2, ... (`DeletingAloneKeepsListsSound`), and read in that
order the rows of a commit are the list before with one element appended, replaced, moved or
removed, the new list, or the same (`CommittedList`), which is the step of `TestcaseList`
(`DeletingAloneIsEditingAList`). `DeletionsAreAlone` is a hypothesis about the behaviour, not
about a constant: it is true of every behaviour in which edits come one after the other, and
when no edit deletes it is always true (`KeepingIsAlone`), so that
`KeepingEditsKeepListsSound` and `KeepingEditsAreEditsOfAList` follow. It cannot be dropped:
the run `orders` is a counterexample.

`JudgeAttemptProofs`: the invariant `IInv` has six parts. `Phases` says what a worker has
at each step of its attempt. `ResultsAreJustified` keeps with each result how its worker
came to it: that failures of the compiler, runs and their first failure give that
verdict, score and measures is then proved once, of the operators of `JudgeVerdict`
(`ClassifierIsRight`, `VerdictOfFailure`, `MeasuresBoundTheRuns`; the
least failing testcase and the greatest measure exist by the well-foundedness of <). That a failure of the compiler
has the status of its cause (`FailureHasItsStatus`) needs `CompilationsAssumption`, and is
said only of the causes that show themselves. One step of it
rests on `execution.signal # "none" => execution.exit_code # 0`, which `sandbox_runner`
sees to (`exit_code_` is 128 + signal) and `ExecutionsAssumption` states. `Leases`: a
lease is one that was given out, and no two workers have the same. `Workspaces`: two
leases of one life have different attempt numbers, so paths differ (`PathsApart`), so
nobody else writes or removes a worker's directory while its submission is not `late`; a
directory that no worker uses was left by a fault (`WhatIsAbandoned`). The field
`late` of a row is a history variable: it records whether workers were at the submission when
it was last rejudged. It makes the boundary of the finding `attempt_late_worker` exact:
without a late worker `WorkspacesAreTheirOwn` holds, for any number of workers, rejudges and
faults.

`JudgeServerProofs`, about `ServerSpec`, for any processes, workers, threads and servers:

- *Snapshots.* A directory that was whole is never touched again, so what a
  worker uses is whole, if all workers are of one process or no directory of an older
  schema version is found (`OneProcess \/ NothingOutdated`). The invariant says
  where a staging directory stands at each step of the worker that makes it, that
  within a process only the holder of the lock is past it, and that whoever removes or
  replaces a directory has seen it invalid: between the look and the removal only
  another process could have made it valid, and under the second assumption there
  is nothing invalid to remove. Without that assumption `StagingInvariant` still holds,
  and a staging directory outlives the worker's turn only when its process died.
- *Sandbox directories* (`DirectoriesInvariant`). Whoever reads or changes the cache holds
  its mutex (`MutexIsHeld`), builds only while the slot is empty (`BuildsIntoAnEmptySlot`)
  and has a directory exactly between the cache and its return (`RunHasNoDirectory`).
  A directory is there while somebody holds it, with the policy of the profile it is held
  for (`HeldIsThere`); one that nobody holds is removed by the same step. So a
  thread may throw a broken directory out of the cache under another that uses it.
- *Renewal of the cache* (`OldInvariant`). No directory of the cache was made before the
  cache was last emptied, as it is when a stopped worker starts anew
  (`CacheIsRenewed`). That a build which was under way
  when the cache was emptied does not bring an old directory back is due to the mutex: a
  thread holds it from its look at the slot to the end of its build, so nobody empties the
  cache in between, and what it builds is new.
- *Children* (`ChildrenInvariant`). A thread waits exactly while it has a child, and text of
  an earlier child is in its files only while that child was given up without being
  reaped (`left`): `RunsAreSeparate`.
- *Work* (`CrowdInvariant`). When all workers are idle or asleep and none has a
  notification to read, no submission is ready (`NewsIsSeen`): a worker LISTENs before it
  looks, so what becomes ready after its look is announced to it.
- *Status* (`StatusInvariant`). A heartbeat is due an interval after the one in the row, a
  row of a server that ended is no younger than its end, and the last check is that of a
  row and no row has a later one. The sums of the query are cardinalities of sets of
  numbered workers, so that no more are active than configured is an inclusion.

`WorkerPoolProofs`: every place counted is held by exactly one of a poster that has
reserved, a task that waits, and a thread that has taken one and not yet given the
place back; `queued_task_count` is the sum of the three. The compare-and-exchange
keeps it below the limit, so the queue is bounded.

`HttpServerProofs`: the first invariant is about one session and its callbacks (`Good`),
so each callback is one lemma: answers are numbered upwards and below the present
request while it is read or handled, at most one write is outstanding, and a timer
callback whose generation is the current one is of the present request.
`SessionsCloseWhenTheyShould` follows from it. `RequestsAreKept` adds the queue
(`QueueInvariant`): each task is of the present request of a session that waits, and is in
one place only. A request that waits and is none of them is in `lost`; and if
it has a deadline, its timer is armed or the timer's callback has its generation and is still to
come (`DeadlineStands`), so a lost answer is not the end of it. `ConnectionsAreKept` adds the slots (`SlotsInvariant`): a thread holds one
only while it executes, and the free ones are distinct. `ImplementsItsPools` maps every
step of the server to a step of `WorkerPool`, and of `ConnectionPool`, or to a stutter, so
what `WorkerPoolProofs` says of any such pool holds of the queue in the server
(`HandlersQueueIsSound`, with any limit and with none). `AnswersStayInOrder` takes the
types of the two pools from there.

`RequestsProofs`, for any accounts, tokens and requests of which the tokens there are
were issued to accounts there are (`FirstAssumption`): a request that is past its first
guard has the level that this guard asks for, and had it at a moment of its own
(`RequestsAreGood`); what `seen` keeps is never less than what was true at any of its
moments (`MomentsAreSeen`). That each endpoint has the guard its documentation calls for
is a lemma about the table (`EndpointFacts`). A token that was logged out stays revoked: a
renewal, whose `NOW()` may be older, only writes rows that are not
(`LoggedOutAreRevoked`). That no submission is without its problem is the foreign key: a
deletion is refused while there are submissions, and an insert sees the problem.

About `Routes`, for any paths (`RequestsFindTheirRoute`): for each of the ten tables one
lemma says what a path has that its routes stand for (`UserQueryMatches`, ...). Two routes
of a table then differ in length, in a word, or in a word where the other has a number
(`UserQueryApart`, ...), two of an area's tables in their methods or in the word that
follows the number (`UserRoutesAreApart`, ...), so none is shadowed (`NoneIsShadowed`) and the
order of the tables, and of their routes, never decides. The table that is dispatched
through has all the routes the request may be meant for (`DbCandidates`,
`SystemCandidates`); the invariant `RoutingInv` adds that nothing is decided before the
table and that the routes of the database are only looked at with a connection.
`NumbersAssumption` is needed: if `list` were a number, `/user/list` would have two routes.

Only model-checked: liveness under fairness, which is out of the proof system's reach
(`EverySubmissionIsDecided`, `EveryRequestEnds`, `SilentClientsLoseTheirSession`,
`EveryWaitEnds`, `WorkIsTaken`, `EveryCallEnds`). Every safety property of the passing runs
is stated by a theorem.

## Not modelled

- Parsers, serializers, row mappers and query builders: stateless conversions
  between JSON, DTOs and SQL text, which no order of steps can break.
- Read queries: transactions that change nothing. The reads by which another
  transaction decides are part of its module.
- The upload of an archive, before it is a list of testcases.
- SQL migrations and operations scripts; the constraints of the tables are part of
  the modules that use them.
- The frontend, logging, and configuration.

Partly modelled: problem content (the deletion of a problem is in `Requests`, as far
as requests race with it; what it cascades to is not), the sandbox (what nsjail and
the kernel enforce is assumed), and the statistics of a user (its update functions
have no caller).

## What could come next

- `JudgeAttempt` within `JudgeQueue`: one model of the lease and of the workspace.
- The cascade of a deleted problem against edits, submissions and judging.
