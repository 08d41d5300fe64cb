# hi-stock: models and proofs

hi-stock is a single-user server (TypeScript, PostgreSQL) that keeps a stock
database up to date, lets an LLM agent analyse it in conversations and in
scheduled jobs, and publishes plans, notifications and strategy versions. This
directory holds TLA+ models of that server, the TLC instances that check them
and TLAPS proofs about them. Paths below are relative to `src/`.

## 1. Inventory

One Node process (`server/index.ts`) runs everything; PostgreSQL keeps all
state that survives it. Components talk through rows, through in-process calls
and through advisory locks. "Concurrent" here means: async functions that
interleave at every `await`, transactions that interleave at every statement,
and a process that may end at any of these points.

| component | state | operations | what is hard | what makes it correct |
|---|---|---|---|---|
| Job scheduler `server/scheduler/*` | `job_definition`, `job_run`, `job_run_output`; in memory `lastTickAt`, `ticking`, worker set | start-up recovery, tick, manual run, drain workers, claim, execute, finish, retry, cancel, stop | three workers select the same row; crash between any two writes; unheard commits; scans that fail half way | one owner, two attempts, one end and one result per run; one row per cron occurrence |
| Market mutation lock `server/datasource/mutation-lock.ts` | session advisory lock | try-lock around a pipeline | released by the server, later, when a process dies | one pipeline at a time |
| Plan publication `server/modules/plans/repo.ts`, `server/agent/job-tools.ts` | `daily_plan_playbook`, `daily_plan_auction_assessment` | draft writes by tools, activation inside `finishRun`, discard | READ COMMITTED statements of two bookings; drafts of a failed attempt; unheard commits | only booked runs are shown, the newest plan, assessments all or none |
| Notifications `server/modules/notifications/service.ts` | `notification_delivery`, settings | enqueue, lease, send, settle, manual retry, cancel by settings | a send that outlives its lease; retry that reuses attempt numbers; settings changed while a send is under way | settled once, by the last claimer; no delivery forgotten; none to another group than it was meant for; none twice unless the first answer is in doubt |
| Agent session runner `server/agent/session-runner.ts`, `run-control.ts`, `events.ts`, `core/loop.ts` | `chat_session`, `chat_message`, events; in memory the turn chain and abort handles | start turn, serialise, abort, continue, recover | abort before, during and after a turn; events out of order; restarts | one turn at a time per session, gap-free message order |
| Confirmations `server/agent/confirmations.ts`, `mutation-lock.ts`, `domain-write-tools.ts` | `agent_confirmation` | request, approve, reject, expire | double approval, expiry against approval, hash of what was shown | an operation runs once, and only as confirmed |
| Completion gate `server/agent/job-workflow.ts` | calls and results of one attempt | observe, missing | order of calls, failed calls after good ones | a job that ends has made its writes |
| Agent session events `server/agent/events.ts`, `session-routes.ts`, `web/src/views/ChatView.vue` | `chat_session_event`; streams, a cursor per page | store, publish, replay, follow, reconnect | replay against live events, order of ids against order of publishing, reconnection | every event acts on a page, once |
| Strategy versions `server/modules/strategy/*` | documents, proposals, review tokens | propose, approve, reject, publish | stale bases, token reuse, two reviewers | publishing is serial and on the base reviewed |
| Standard backtests `server/modules/backtests/*` | runs, days, leases | claim, heartbeat, append a day, complete, cancel, expire | an expired owner that goes on writing | days are contiguous and of one owner |
| Backtest engines `server/backtest/engine.ts`, `research-engine.ts`, `portfolio-engine.ts`, `settlement.ts` | positions, pending orders, cash, pauses of one strategy | a day: sells, buys, exits, risk, orders; settlement | partial fills, suspended days, orders given before a pause, exits that meet pending ones | the settlement agrees with every day; limits and pauses hold; a stop stays a stop; a signal sells what it asked for |
| Indicators `server/indicators/*` | dirty queue, generations, leases | mark dirty, claim, recompute, complete | dirtied again while recomputed | the last change is computed in the end |
| Datasources `server/datasource/*` | request queue, rate limiter | schedule, limit, fetch | fairness and limits under aborts | limit kept, every request answered |
| Daily bars `server/datasource/service.ts`, `hithink.ts`, `server/scheduler/time.ts` | `market_bar` | daily update, backfill, loads by pages and agents, averages | gaps looked for at the last bar only, open days, averages without a lock | no code missed, no open day left, no unnoticed hole, averages fresh |
| Risk gate `server/modules/plans/risk-gate.ts` | none | evaluate | boundaries | conservative when data are missing |
| Positions ledger `server/modules/positions/repo.ts` | positions, change log | buy, sell, set, clear, reopen | cost and quantity over long sequences | log and position agree |
| Pools `server/modules/pools/*` | roles over time, attention | onboard, end, attention by hand and by daily plans, entry | long sequences of changes as of any day | past roles stay, the mark of a plan is the last one's, the user's attention is the user's |
| Memory, job prompts, boards, analysis | versioned rows | CRUD | version counters | revisions are append-only |
| Volume sync `server/volume/*` | export and import of data | batch I/O | partial restore | all or nothing |
| Daily context, agent tools and validation | none of their own | read, validate, format | - | - |
| Web client `web/src` | presentation | - | - | - |

How they interact: the scheduler calls the agent session runner for
`agent_flow` jobs and the datasource pipelines for `datasource` jobs; tools
called by the agent write drafts under the agent mutation lock; `finishRun`
books the result, activates the drafts and enqueues the notification in one
transaction; start-up fails interrupted conversations, then recovers interrupted
runs, then looks for missed occurrences, then starts ticking.

`PROJECT.json` lists every component with its status and every hazard at its
line.

## 2. Plan

Done so far, in order of importance:

1. `JobRunLifecycle` (abstract) and `JobScheduler` (detailed, implements it),
   with `JobSchedulerProofs`.
2. `PlanPublication`, the inside of the step `Finish` of `JobScheduler`, with
   `PlanPublicationProofs`.
3. `NotificationDelivery`, what becomes of the row `finishRun` enqueues, with
   `WorkersProofs`.
4. `SessionRunner`, the turns of a conversation that jobs and users share, with
   `ConversationsProofs`.
5. `Confirmations`: approval, rejection and expiry under the mutation lock, with
   `ConversationsProofs`.
6. `StrategyPublishing`: proposals, tokens, the serial publication, with
   `RecordsProofs`.
7. `BacktestRuns`: leases, heartbeats, contiguous days, expiry and cancel, with
   `WorkersProofs`.
8. `IndicatorQueue`: dirty marks, generations, leases, with `WorkersProofs`.
9. `RequestScheduler`: priorities, pause, burst, aborts, with `DatasourceProofs`.
10. `PositionsLedger`: buys, sells, clearing and reopening, with `RecordsProofs`.
11. `BacktestEngine`: the days of a backtest and their settlement, with
    `BacktestEngineProofs`.
12. `EventStream`: storing, publishing and replaying the events of a conversation, with
    `EventStreamProofs`.
13. `MarketUpdate`: the bars of a day, gaps, reloads and averages, with
    `DatasourceProofs`.
14. `PoolMembership`: roles, attention and what a daily plan marks, with `RecordsProofs`.

`MCConversations`, `MCWorkers` and `MCRecords` put components without common state
into one instance each (section 17).


Next:

1. The completion gate, the risk gate.
2. Revisions of memory, prompts and boards; restore of volumes.


What is proved and what is not (the proofs are described with their component):

| component | proved for every instance | only checked by TLC |
|---|---|---|
| `JobScheduler` | every safety property of its runs, and the refinement of `JobRunLifecycle` | `QueuedRunsEnd`, `ComesUp` |
| `PlanPublication` | every safety property of its runs | `RunsEnd` |
| `NotificationDelivery` | `SentAsMeant`, `SettledRight` | its part of `WorkGetsDone` |
| `SessionRunner` | `OneTurnAtATime`, `MessagesStayTogether`, `AbortHitsItsTurn`, `StatusSettles` | its part of `ConversationsEnd` |
| `Confirmations` | `ApprovalsAreHonest` | its part of `ConversationsEnd` |
| `BacktestRuns` | `BacktestsAreSound` | its part of `WorkGetsDone` |
| `StrategyPublishing` | `StrategyIsConsistent` | - |
| `IndicatorQueue` | `IndicatorsAreFresh` | its part of `WorkGetsDone` |
| `RequestScheduler` | `RequestsArePaced` | its part of `ConversationsEnd` |
| `MarketUpdate` | `BarsAreSound` | - |
| `EventStream` | `EventsArrive` | - |
| `PoolMembership` | `PoolsAreKept` | - |
| `PositionsLedger` | `LedgerAddsUp` | - |
| `BacktestEngine` | `BacktestsAddUp` | - |
| joint instances | `WorkersTypeOK`, `ConversationsTypeOK`, `RecordsTypeOK` | `WorkGetsDone`, `ConversationsEnd` |

Every invariant and every action property of the passing runs is proved. Liveness
under fairness is out of the prover's reach and stays with TLC: `QueuedRunsEnd`,
`ComesUp`, `RunsEnd`, `ConversationsEnd`, `WorkGetsDone`. What the findings say stays
with TLC as well: their runs show behaviours.

The joint type invariants of `MCConversations`, `MCWorkers` and `MCRecords` are proved
by composition: a step of a joint instance is a step of one component and leaves the
variables of the others alone, so a behaviour of the instance is one of each component
(`EachWorkersSpec`, `EachConversationsSpec`, `EachRecordsSpec`), and the theorem of each
component carries over.

Every theorem rests on the named assumptions about the constants in the module of
its component and on nothing else. TLC evaluates them in the runs.

## 3. The scheduler: `JobScheduler`, `JobRunLifecycle`

**State.** `status`, `attempts`, ... are the columns of `job_run`, one function
per column over `RunIds`; `outputs` counts `job_run_output` rows; the cron
occurrences of a job are a set of times `Cron[j]`, the expression being constant
per job. `phase`, `ticking`, `lastTickAt` are fields of the `JobScheduler`
object, `pc[w]`, `run[w]`, `result[w]` the locals of a drain worker. The place
of a row in `ORDER BY COALESCE(next_retry_at, created_at), id` is its rank
`dueKey`; the five minutes of a retry are the action `RetryFallsDue`.

**Actions.** One per database round trip of the code: `Select` and `Claim` are
two, as a worker may lose the claim; `TickInsert` inserts one occurrence;
`RecoverRow` repairs one row; a manual run is inserted (`QueueManual`) and
becomes visible later (`CommitManual`). `Finish` is the whole booking
transaction, `FinishRollsBack` and `FinishUnheard` its two failures, the second
being a commit whose answer never arrives. `Crash` and `Stop`/`Exit` end the
process anywhere; the advisory lock of a dead process is freed by a later step
(`OrphanedLockReleased`). The inside of an execution is a nondeterministic
result.

**Bounds.** `Horizon` bounds the clock, `Budgets` what users, operators and
faults may do, `OccurrenceLimit` and `BatchLimit` stand for the code's 1000 and
100, two and one here. In `scheduler_liveness` it is one, and one of the jobs has two
occurrences: a scan that finds both missed is refused, as the code's is with more than
1000. Two workers, two jobs and two or three rows suffice for every race the code
has: its conditions mention a row and one other.

**Fairness.** Timers tick, queries and executions end, a commit that was sent
arrives, the service is restarted after it went down, time passes. Users, stops,
crashes and faults are owed nothing.

**Runs.**

| run | question |
|---|---|
| `scheduler_life` | (a stop or fault with two jobs; stop and fault, a start by hand, an edit, a pause with one) is each run executed by one worker, at most twice, with one end and at most one result, through a stop or crash, a database fault anywhere and a start by hand, and do the rows live as `JobRunLifecycle` says (refinement)? After a crash between any two writes, is no conversation left "running", and do two market pipelines stay apart? |
| `records` | (section 17) does each occurrence of an enabled job get exactly one row, whatever scan fails, through edits, pauses, stops and crashes? |
| `scheduler_liveness` | do all runs end and does the service come up again, and what if more occurrences were missed than a scan accepts? |
| `scheduler_two_datasources` | finding: two datasource runs are claimed at once |
| `scheduler_edit_gap` | finding: an edit hides the occurrences of a downtime |

**Proofs.** `JobSchedulerProofs` proves that `TypeInv` is inductive: `TypeOK`,
what a worker holds at each point of its loop (`WorkerShape`), at most two
attempts (`TwoAttempts`), and that an absent row is untouched (`NewRow`).
To it `RowInv` is added. `OneOwner` is not inductive: that a claim finds a
row "queued" excludes a second owner only if the row of an owner is never
"queued", and that needs to know that nothing but its owner writes a row while
it is owned, except one case: the owner's commit went through unheard and the
row says "success" (`OwnerShape`). Recovery writes rows too, and may because no
worker runs before it is over (`WorkersStartUp`). From `TypeInv /\ RowInv`
follow `OneOwner`, `RunningIsWorkedOn`, `ResultBelongsToSuccess`, the action
property `EndIsFinal` and the refinement `KeepsLifecycle`, for any number of
jobs, rows, workers and any budget. The assumptions are those on the constants,
named in `JobScheduler`.

Its second half proves the rest. `OnePipeline` needs that who runs a
pipeline holds the advisory lock, and that only the lock of a dead process is freed
by somebody else. `ConversationNotStuck` is nearly inductive once recovery's part is
added; proving it showed that a worker which fails while it ends a run (`WorkerFails`
at the steps "settle" and "mirror") leaves the conversation unsettled as well, which
the history variable `silent` had not recorded. `EveryOccurrenceOnce` needs what a scan has done
so far: it has planned the wanted occurrences of a job or it has refused the job and
will fail (`ScanCovers`), and a job's rows come in the order of time, failed scans
and downtimes included, so that recovery may start from the last one (`InOrder`).

Only model-checked: liveness (`QueuedRunsEnd`, `ComesUp`).

A start that finds more than `OccurrenceLimit` missed occurrences of a job throws
(`time.ts:106`) before it records any, so the next start finds them again, and more of
them. `ComesUp` says both halves: the service is up again and again unless such a backlog
stays (`BacklogTooLong`), and the backlog never goes but by an edit of a definition, which
moves the boundary of the scan. `QueuedRunsEnd` has the same exception, and that of a tick
that is refused in the same way (`TickTooLong`), as neither then reaches the workers.

Not modelled: log texts, artifacts, prompt and strategy pins; a second process
on one database (the code is written for one).

## 4. Plans: `PlanPublication`

**State.** `table` is the committed status of every possible playbook item and
assessment (`"none"` when there is no row), `outputOf` the committed output id
of a run. Each booking transaction has its own `change`s, its current statement
(`step`), whether it has started and the rows it still has to write. `lastWrite`,
`met` and `repeated` are history: what a run was last given to write and by which
attempt, which bookings were open together, which runs were booked twice.

**Actions.** The tools' transactions are serializable and under the agent
mutation lock, hence one step each (`WritePlan`, `WriteAssessments`). Only an attempt of the run takes
them: `associatedRunningJob` would accept any turn of the run's conversation, but
`toolsForScope` (`agent/tools.ts:290-320`, `JOB_FLOW_ONLY_TOOLS`) takes
`daily_plan_write` and `auction_assessment_write` from every turn that is not a job's own
(only `runner.ts` asks for the scope "job"), so no user's turn comes that far. The booking
transaction of `finishRun` is READ COMMITTED: `StartStatement` picks the rows of
a statement from what is committed then, `WriteRow` writes one, waits while
another open transaction has written it, and asks the WHERE again. The partial
unique index refuses the second active assessment of an item
(`BookingRefused`). PostgreSQL's lock waits, deadlock detection and index are
marked external. Failures are `CommitUnheard`, `AttemptFails`, `Incomplete`
(the gate stays shut), `Abort`, `DiscardFails`, `Crash`; the last includes the
recovery of start-up, which requeues or fails the run and discards nothing.
A failing `failOrRetry` is in `JobScheduler` and not repeated here.

**Runs.** `plan_bookings` (two plans with faults and a crash, or two plans and an
auction run with a fault), `plan_two_auctions` (two auction runs over two items,
with deadlocks and index conflicts; a plan of two codes whose attempt fails or dies; a
plan and an auction run that fails or is booked twice; every run ending), and the finding
`plan_superseded`. Two runs of each kind are all that can meet in one wait; two
items are needed for a deadlock and for "all or none". `Scenarios` holds which
runs there are (the others have ended without a result) and the faults and
crashes they meet; `Closable` holds the auction runs whose day may turn out to be
closed. Runs of the same kind are interchangeable where no property names one,
which is the symmetry.

**Exceptions the properties make**, each a behaviour the code really has:
`BoardIsLatest` excludes overlapping plan bookings and runs booked twice after an
unheard commit; `AssessmentsFollowPlan` excludes an overlap of a plan and an
auction booking (each reads what the other has not committed);
`ShownIsLastWrite` allows a plan's retry that finds nothing it must write to publish
the drafts of the attempt before it - the code never discards a plan's drafts - and says
that they come whole and from one write; an attempt that had to write shows its own, and
an auction shows its last attempt's or nothing (its drafts are discarded before a retry).
For auctions runs booked twice are excluded: the second booking deletes rows or leaves
them beside new ones.

**Fairness** (`FairSpec`): a worker goes on (weak fairness of `RunStep`), the
agent's turn ends, PostgreSQL resolves deadlocks. Faults, aborts and the agent's
writes are owed nothing.

**Proofs.** `PlanPublicationProofs` proves `PublicationInv`, for any runs, codes and
faults, and from it every safety property of the runs. Each conjunct says what the
commit of an open transaction relies on while others commit around it:

| conjunct | says | for |
|---|---|---|
| `PhaseInv` | where a run is and what its transaction may have touched; row locks exclude each other | all |
| `BookedInv` | what is shown, or will be if a transaction commits, is of a booked run or of its own | `OnlyBookedIsShown` |
| `FreshInv` | an attempt its gate made write has written last, and nobody later | `ShownIsLastWrite` |
| `LastInv` | the drafts of a run, and what its booking has published of them, are its last write, whole | `ShownIsLastWrite` |
| `OutputInv`, `LatestInv` | output ids grow, open bookings have met, a plan has seen all older ones | `BoardIsLatest` |
| `FollowInv` | an assessment's item is active, or its plan's booking was met | `AssessmentsFollowPlan` |
| `SnapshotInv`, `UniqueInv` | what a transaction sees of a row it has not locked; the unique index | `AssessedAllOrNone` |
| `PlanInv`, `HangInv`, `CoverInv`, `ClearInv`, `AllOrNone` | a plan is published and cleared whole, an auction's drafts cover it and are published whole | `AssessedAllOrNone` |

A step of a transaction changes little, so the proof states once, as a frame, what each
kind of step leaves alone, and then treats the conjuncts one kind of step at a time.
The attempt to prove `PhaseInv` found a hole in the model: a plan that an agent
writes again while its booking is open (after an unheard commit) deletes the rows the
booking still had to write, and the booking then has nothing left to do
(`NothingLeft`); the model had left it waiting for rows that were gone, and had not
deleted the assessments that hang on them (`OfPlan`). Only `RunsEnd` is left to TLC.

## 5. Notifications: `NotificationDelivery`

**State.** `enabled`, `configured`, `revision` are the row of
`notification_setting` (the switch together with the chosen jobs; whether a webhook
with its secret is there; the number of the credentials). `status`, `channel`,
`attempts`, `due`, `leased`, `old` are a row of `notification_delivery`: `due` is
`next_attempt_at <= now()`, `leased` is `lease_until > now()`, `old` is
`created_at <= now() - 1 day`. A row whose transaction has not committed is
"booking" (of a result) or "testing". A worker is at one of the queries of
`deliverNextNotification` and holds what its claim returned.

**Actions.** One per statement: `Sweep`, `FailSpent`, `Claim` or `NothingToSend`,
`Send`, `Settle`. `AnswerLost` is a request the group accepts and the worker hears
nothing of; `SaveFails` follows the `catch` of the code, which settles an accepted
message as failed when saving it fails, and gives up when that fails too. `Crash`
ends a worker. `UpdateSettings` is one transaction, and waits for open bookings,
which hold the settings row FOR SHARE; a test does not. Time passes in steps of
its own: `FallsDue`, `LeaseExpires`, `DayPasses`.

**Properties** (in the run `workers`: `SentAsMeant`, `SettledRight`, `WorkGetsDone`).
`RightChannel`, `NewResultIsCurrent`: the credentials of a message
are those it was enqueued for, and those in force when its result was booked.
`OvertakenIsSilent`, `SettledForGood`: the fence (`status = 'sending' AND attempts =
$2`) works, with one exception: resending by hand starts the count of attempts
again, and a worker stalled since before can then match a number of the new count.
`NoDuplicateWithoutDoubt`: two workers never send the same row unless an answer or
a save was lost or a worker was stalled for longer than its lease.
`WorkGetsDone` (`NoDeliveryIsLeft`): with the switch on and credentials there, no row stays
"pending" or "sending".

**Bounds.** One row suffices for every fence, as rows do not see each other; a
newer result is a `Quiet` output; two workers stand for the worker of this process
and one of another. `Acts` and `Faults` bound the user's acts and the faults;
leases may run out any number of times. **Fairness**: the worker's timer and
queries, the clock, a commit that was sent. The order of the claim
(`ORDER BY next_attempt_at`) is abstracted to any row that may be claimed.

**Proofs.** `WorkersProofs` proves `SentAsMeant` and `SettledRight` for any rows,
workers, acts and faults. What a worker holds is what its claim returned (`HoldInv`),
a booking has the credentials in force and "sent" is said of accepted rows only
(`RowInv`), and until a row is resent by hand the count of its attempts tells its
claimers apart (`CountInv`). `NoDuplicateWithoutDoubt`
needs one more: as long as nothing about a row was in doubt, its one worker is the
one that will settle it (`DoubtInv`). That no delivery is left stays with TLC.

## 6. Conversations: `SessionRunner`

**State.** `status` is `chat_session.session_status`, `author[s]` who wrote the
`chat_message` with `seq = s`, `tail` the entry of the session in the map
`sessionQueues`, `prev[t]` the promise a turn awaits. `pc[t]` is the step of a turn
in `runAgentSessionTurn`, and for the attempt of a job also of what
`executeJobRun` does around it; `nextSeq`, `segment`, `outcome` are its locals,
`abortRequested` is the field of the registered run. `accepted` and `strayed` are
history.

**Actions.** A turn enters the chain (`Post`, `JobOpens`), begins when the one
before it let go (`Begin`), announces "running", takes its number
(`StartTalking`), appends messages, ends segments (`EndSegment`: complete, cut off,
error, short of an answer), closes. What fails before the `try` block
(`PreparationFails`) leaves the announced status; what fails inside it goes through
`Catch`. The loop of the agent library is external: a segment writes any number
of messages and ends in any way. `Mirror`, `ReadSeq` and `Note` are the scheduler's
writes, which do not wait for the chain. `Crash` loses the chain; `Boot` and
`JobRecovers` are the two recoveries of start-up, between which requests are taken.

**Properties.** `OneTurnAtATime`; `MessagesStayTogether`: no gap in the numbers, and
nothing between two messages of a turn, which is so because a turn whose number
a note has taken fails as a whole; `AbortHitsItsTurn`; `StatusSettles`: with
nobody at work the status is not "running", except where a query failed before the
`try` block or while the status itself was saved; `ConversationsEnd`
(`NoTurnIsLeft`): turns come to an end.

**Bounds.** Three turns are what it takes to break the chain (one leaves, one
waits, one comes); two messages of a turn are what a note can come between; one
continuation in place of three; one fault. `SeqBound` bounds the messages and notes;
the run gives it the number that turns, notes and repeated notes can reach
(`AllMessages`), so it never cuts a behaviour short. **Fairness**: queries return and
segments end; nothing is posted, appended or aborted of necessity.

**Proofs.** `ConversationsProofs` proves the four safety properties for any turns,
continuations, messages and faults. One turn works at a time because those that await
promises form a line of which only the first may work (`LineInv`): a line is a
sequence, and what a turn leaves behind, from wherever it leaves, is one again.
`MessagesStayTogether` follows from what a turn's next number is next to
(`MessageInv`), `AbortHitsItsTurn` from where the mark of an abort can be
(`AbortInv`), and `StatusSettles` from who will still write the status (`StatusInv`).
An outcome used to be a CASE with two arms that both apply when a segment stops just
as it is aborted: TLC takes the first, TLA+ does not say which, and the prover insisted;
it is an IF now, in the order of the code. That turns come to an end stays with TLC.

## 7. Domain writes and their confirmations: `Confirmations`

**State.** `confirmation` is a row of `agent_confirmation` (status, tool,
`expected_state_hash`, whether it is over 24 hours old). What a tool writes to is
one object with a `version`; pages and jobs change it without the agents' lock
(`OutsideWrite`). `mutex` is the advisory lock, `rowLock` the lock of a proposal's
row, `request` a tool call or an HTTP request with the snapshot its SERIALIZABLE
transaction reads. `done`, `doneOn`, `announced`, `audited` are history.

**Actions.** A call begins, takes the mutex or finds it busy, and then writes
(`CommitDirectWrite`) or proposes (`CommitProposal`); a decision first expires what
is old in a transaction of its own, locks the row, asks the status, the tool, the
mutex and the state of the target, writes and commits, and announces the outcome in
a transaction of its own that may be lost. `Breaks` ends any open transaction.

**Property.** `ApprovalsAreHonest`: the write of a proposal is done once if and
only if it was approved; on the version that was shown; a session is told nothing
that was not decided; a decision is for good.

**Proofs.** `ConversationsProofs` proves it for any proposals, requests and outside
writes. The invariant (`Guards`) says which locks a request holds at each of its steps
and what cannot change while it does: the status of the proposal under its row lock,
the version of the target, equal to that of the snapshot, under the lock of the target.

**Finding** (`confirmations_memory`): two tools leave proposals that no approval
accepts, as the table of executors does not list them.

## 8. The strategy: `StrategyPublishing`

**State.** `body` maps a document to its version, `state` is the row with
`change_seq` and the hash (which stands for all bodies), `proposal` a row of
`strategy_publish_proposal` with its evolution, `grant` the token in force of a
proposal, `page` and `scribe` the pages of a user and the agents.

**Actions.** Reading is two queries, the state first and `FOR SHARE`
(`ReadState`, `ReadDocuments`); proposing and deciding are SERIALIZABLE under the
agents' try-lock: taking it (`AuthorTakesLock`, `PageTakesLock`), locking the state row,
publishing or refusing. A conflict is committed as a status of its own
(`MarkConflict`). Tokens expire and are lost with the process.

**Property.** `StrategyIsConsistent`: what a reader has read belongs together; the
adopted evolutions are an unbroken chain from the seed to the current strategy; a
session waits for one decision; a token opens the way to one; decisions are final.

**Proofs.** `RecordsProofs` proves it for any agents, pages, documents and
proposals. The induction rests on `LocksInv`: nobody shares the state row while an
approval has locked it, and one of all agents and pages has the agents' lock. So a
reader between its two reads holds the state in force (`ReadInv`), a page that decides
finds its proposal pending (`PageInv`), each adopted evolution starts where the one
before it ended (`ChainInv`), and tokens in force are distinct and have opened nothing
(`TokenInv`).

## 9. Standard backtests: `BacktestRuns`

**State.** `backtest` holds a run's status, request, lease token, generation and
whether the lease is alive; `equity` the days written with their writer; `runner`
the step of each process; `claimLock` the advisory lock of the claim; `answers` what
callers were told.

**Actions.** A statement or a locked transaction each: starting (once per
idempotency key), claiming in two steps, heartbeat, attaching the input, appending a
day, completing, failing, cancelling, expiring. `LeaseLapses` at any time;
`RunnerCrashes`, `TimesOut`, `DayFails`, `StopRunner`.

**Properties.** `BacktestsAreSound`: one live run at a time, a run is claimed once,
a success has all its days from one writer, the answer to a key is the run with
that request, what has ended stays so. `WorkGetsDone`: no run is left open.

**Proofs.** `WorkersProofs` proves `BacktestsAreSound` for any runners, runs, keys,
requests, days and mishaps. The claim is two steps, so one live run at a time rests on
the advisory lock: from the look for a live run to the claim its holder is the only
one there and no run comes to life (`ClaimInv`). That a success is complete rests on
the owner's own count (`OwnerInv`): who holds a run has written all of its days and
as many as it counts, because a run is claimed once (`RunInv`) and a token that was
lost does not return. Only `WorkGetsDone` is left to TLC.

## 10. Indicators: `IndicatorQueue`

**State.** Bars of a series are counted by their writes and values name the count
they came from, so "stale" is a comparison. `marks` is the dirty queue in the order
of `updated_at`, with generations that start again at 1 once a mark was deleted;
`seriesLock` the session lock; `computer` a worker or an onboarding.

**Properties.** `IndicatorsAreFresh`: a series without a mark has the values of its
last bars; what is shown includes what an onboarding fetched; values never go back;
a member is taken in on the profile that was shown. `WorkGetsDone`: marks are worked
off, if computations do not fail for ever (a series that always fails keeps the
later ones waiting: the worker takes the oldest mark first).

**Proofs.** `WorkersProofs` proves `IndicatorsAreFresh` for any series, workers,
onboardings and writes. The commit of a computation deletes a mark whose generation
is still the one it has seen, and generations start again at 1: that a mark of the
same generation is the same mark holds because only who has the lock of the series
deletes it (`ComputerInv`), so that during a computation the generation only grows
and, if it did not, what was read are the bars there are (`SnapshotInv`).
`ValueInv` says it of the values, `OnboardingInv` carries the bars an onboarding has
fetched from its load to what it shows.

## 11. Requests to the provider: `RequestScheduler`

Callers of three priorities, the pump with its flag, its pause and the burst
counter; aborts of requests that wait, sleep or run; retries after the provider's
limit. Each loop of `pump()` is a pump of its own, so that starting a second one is
a behaviour the flag must exclude. `RequestsArePaced`: one request at a time, a pause
apart, and at most `BurstLimit` high ones pass a waiting low one. `ConversationsEnd`
includes that a low request is taken up. Medium ones have no such right: the code
promises them nothing and a stream of interactive requests starves them.

**Proofs.** `DatasourceProofs` proves `RequestsArePaced` for any callers, pumps and
burst. One pump at a time is its flag (`PumpInv`), and a pump that is about to release
has rested; that a request waits in one queue at most (`QueuedInv`) makes an abort
take out the right one. The count of the property never exceeds the code's own
`burst`. `RetryInv`, that who waits to ask again has a retry left, was missing in
the first attempt: without it the counter of retries leaves its type.

## 12. The ledger: `PositionsLedger`

**State.** `holding` is the row of `portfolio_position`, `ledger` the events of
`portfolio_position_change`; money in grains of a cent so that averages of small
holdings are whole; `round2` as in the code. One transaction is one step: the
agents' lock and the row lock admit one at a time. The date of a change is whatever its
author writes (`Fills`): two holdings may begin on one day, shares may be sold on the day
they were bought, and a change may be dated before the ones entered earlier. The code
reads no date but a purchase's, so the other events have none here.

**Properties.** `LedgerAddsUp`: the holding is what its events add up to, whatever their
dates; a sale carries
the signal of the entry it closes, also after clearing and reopening; a corrected type
reaches the latest buy; and money neither appears nor disappears (`ResultsAddUp`): what the
purchases cost and the sales realized, less what these brought, is what is held at
cost, up to half a cent a sale (`round2`) and a grain a share for each average cost.
The allowance is counted event by event, so that nothing may drift but by roundings that
happened; the grain is the model's, an average being a whole number of grains here and
a decimal in the code. A correction of a holding breaks the account, and none is asked
for then.

**Exceptions**, each a behaviour the code really has. The code finds the buys of a holding
by their date (`change_date >= opened_at`, `repo.ts:316` and `:567`). A holding cleared and
opened again on one day, or a purchase dated before the opening of its holding, makes the
dates tell the holdings apart no longer: a sale then inherits the entry of an earlier
holding, or misses one of its own. `SaleInheritsItsEntry` excludes sales for which they do
not (`DatesTellApart`), and only those. And a correction takes the latest buy by date: if a
purchase entered earlier is dated later than the last one, the correction reaches that one
and the row shows the type of the other; `TypeFollowsLatestBuy` asks only for holdings
whose last buy entered is the last by date. Without either exception TLC finds the
property violated within four events. The comment at `repo.ts:556` ("持仓周期内最近一笔买入
事件同步补正") speaks of the holding's own buy.

**Proofs.** `RecordsProofs` proves `LedgerAddsUp` for any quantities, prices, dates in
any order and number of events. The code finds the buys of a holding by the date it was
opened, the property by their place in the stream, after the last event that left nothing.
The core of the invariant is that the row's date of opening is that of the buy at this
place (`OpeningInv`), through additions, partial sales and corrections; with it, a sale
whose dates tell its holding apart finds the holding's own entries, and a correction finds
the last buy entered if no other is dated later. What is booked follows event by event (`Moves`): a purchase pays its
price into what is held at cost, an average loses less than a grain a share
(`AverageLoses`), a sale takes its shares out at their cost whether the row goes or
stays, and its result is off by half a cent at most (`CentIs`). `QuantityAfter`,
`BookedAfter` and `RoundedAfter` are recursive functions; that they have
a value, and keep it when an event is added, is shown by the least number of events for
which it would fail.

## 13. The days of a backtest: `BacktestEngine`

**State.** `held`, `sells`, `buys`, `account` are the maps and counters of
`createStandardEngine` and `createResearchEngine` for one strategy; `risk` the pause
and the streak of stops, of the kernel or of the portfolio around it (`circuit`);
`recent` the closes a drawdown is measured over; `stored` and `realized` what the
settlement keeps from day to day. `intent` is history: what the last sell signal of
a code asked for, and what was sold under it.

**Actions.** `next(day)` one order at a time: `OpenDay`, `SellNext`, `BuyNext`, then
`CloseDay` with everything that looks at the close; `SettleDay` is
`verifySettlement`, which knows only the events and the day before. A day may be
suspended for a code, open at a limit, have little volume. Signals and indicators
(`Candidates`, `Hints`) are chosen freely.

**Abstractions.** Prices are integers, a lot is one share, charges are 1 % and at
least 1, slippage and the take-profit of the simple exits are left out, the
regular stop of the swing rule is its 7 %, the breakout price of a research buy is
2 % above the signal's close, and the portfolio has one strategy.

**Properties** (in `records`, `BacktestsAddUp`). `SettlementAgrees`, `WithinLimits`,
`PausedBuysNothing`, `StopIsNotSoftened`.

**Proofs.** `BacktestEngineProofs` proves `BacktestsAddUp` for any codes, bars, days and
kernels. That a settlement never finds a mismatch is not inductive, as it looks at the
end of a day only: `BookInv` says after every fill that what the settlement would
recompute from the events so far is the account, the positions and their realized
results. It needs the laws of the fold by which the settlement reads the events (a walk
over one more event, `WalkOverOneMore`) and of the sum over the codes held. `OrdersInv`
(a sell is pending for what is held only, and is tried once a day) is why a sale always
finds its shares; `PlacesInv` counts the places differently for the standard kernel,
which asks again before it buys, and for the research kernels, which do not. The proof
asks for finitely many codes, and for the order of the sells as a relation (`Before`).

**Finding** (`backtest_scale_out`, `SellsWhatWasIntended`): the research kernel sells
a scale again every day until nothing is held; the standard kernel forgets what a
partial fill left of a signal.

## 14. Events of a conversation: `EventStream`

**State.** `drawn` are the ids of `chat_session_event`; a flow (a turn, a note of the
scheduler, a refresh) draws an id, commits and publishes in three steps (`writing`). The
stream's handler (`stream`: its step, `last`, what it `held`, the `rows` it emits)
replays in pages and then goes live; `wire` is what the page has not read. The page keeps
its `cursor` and the refreshes it put off while the replay lasted (`putOff`).

**Actions.** `InsertEvent`, `CommitEvent`, `PublishEvent` of a flow; `Subscribe`,
`QueryRows`, `EmitRows`, `StreamBreaks` of `streamChatSessionEvents`; `OpenEvents`,
`CloseEvents`, `Receive` of the page. The browser reconnects with the cursor its address
had.

**Property.** `EventsArrive`: an event reaches a page that follows the conversation,
makes it refresh, and does so once.

**Exceptions**, each a behaviour of the code: events of two flows that are published in
another order than their ids are drawn make the page drop the smaller one for good
(`acceptCursor`); a replay that breaks drops the refreshes it had put off. Seen and not
modelled: `req.on("close")` is registered only after the replay
(`agent/session-routes.ts:115`), so a stream closed during it is never unsubscribed.

**Proofs.** `EventStreamProofs` proves it for any flows, number of events, rows of a
page and reopenings. The induction speaks of the events below an id: an event is behind
the page when its cursor is past it or a later one was ahead of it (`Behind`), and
whatever is on the wire has all before it on the wire before it or behind the page
(`Covered`). From there on `ReplayInv` follows the handler: what is up to `last` is behind
the page or on the wire, a page of rows leaves no gap, and what the last page does not
bring was held. Two things in the model came of the proof: with no event at all
(`EventLimit = 0`) `drawn` had no type, so the assumption asks for one at least; and the
order of events is by a definition of its own (`Ascending`), as TLC's sort is no
definition to prove about.

## 15. Daily bars: `MarketUpdate`

**State.** `dailyBar[c][d]` is the row of `market_bar`: none, of a day that was still open, or
final. `average[c][d]` names the bars it was computed over, so that "stale" is a
comparison. `update` is `dailyMarketUpdate` with what it has still to do, `loading` a
`fetchAndStore` of the update and one of a page, an agent or an onboarding, which take no
lock. `passedOver`, `cutShort`, `off` are history and hold the exceptions below.

**Actions.** `StartUpdate` (gate and scope), `TakeQuotes`, then for each code
`ReadPrevious` and `AppendBar` or a load; `FindMissing`, `BackfillNext` and
`RecheckMissing` for a past day; `Fetch`, `Store`, `ReadBars` and `WriteAverage`, one row
at a time; `LoadFails`, `AppendRefused`, `MarketCrash`.

**Property.** `BarsAreSound`: when an update is over every code of its scope has its
bar or is reported; a day taken after its close has a final bar, whatever was stored
before; no hole opens unnoticed; averages are of the bars that are there.

**Proofs.** `DatasourceProofs` proves it for any instruments, days, loads and mishaps.
`BarsAreSound` speaks of the end of an update, so the invariant says what holds on the
way: each code is still to do, final, reported or in the hands of a load that has not
stored yet (`AccountInv`); what a load holds lies within its days, has every day that
traded but today, and no unfinished bar of a day that closed (`GotInv`); what is appended
or reloaded joins a bar that is there (`BehindInv`), and bars are never lost, so the only
holes that open are those somebody passes over (`BarsStored`). For the averages it says
more than that they are right when nobody works: wherever one is off, somebody has still to
read the bars, or has read the bars as they are and will write that row (`FreshInv`); a
day without a bar has none (`BlankInv`), without which a computation could leave such a
row behind.

**Exceptions.** A reload in snapshot mode that does not reach the day is no gap (the
historical mode asks again); codes that are only appended to keep their holes and are
averaged by the weekly job; a calendar that lacks the day leaves gaps of up to three
days unseen; a load of a page over a part of the days hides a hole from the update; an
overlap of two computations, or a failure in one, leaves averages off until the next.

**Assumptions.** The half hour between the close and 15:30 is longer than a load, and an
evening longer than an update, except that one may begin before midnight.

Not modelled: futures and half-hour bars (the same `fetchAndStore`); that a reload after
a change of rights loads only the missing days, so older forward-adjusted prices keep
their scale.

## 16. Pools: `PoolMembership`

**State.** `roles[c]` is `pool_membership` of an instrument in the order of id,
`attentionOf` what the open row carries and who wrote it, `proposed` the pending
onboarding with the facts it was shown on, `marked` what the last daily plan marked.

**Actions.** `ProposeOnboarding`, `CommitOnboarding`, `DropOnboarding`, `EndRole`,
`SetAttention`, `Reconcile` (the whole of `pool_attention_write`), `BuyIn`, `SellOut`. All
writers but the page's clearing hold the agents' mutation lock in a SERIALIZABLE
transaction, so each is one step.

**Property.** `PoolsAreKept`: a change leaves the roles of the days before it; nothing
held waits for an entry; a daily plan's mark is of the last one; what the user wrote stays.

**Proofs.** `RecordsProofs` proves it for any stocks, days and onboardings. The core is a
lemma about histories: what a row added, rewritten or ended as of a day leaves of the days
before it (`ChangedAsOf`), however many rows there are and as of whatever day they were
ended. The invariant adds that no attention outlives the role that carried it
(`CarriedInv`), or a member taken in again would show a mark of an old plan.

Assumed: an agent that sets an attention by hand does not begin its text with the prefix
of the daily plan, which no validation refuses. Seen and not modelled: `remove` does not
compare the pool it names, though its error text does; a removal and an onboarding to
the same pool on one day meet the unique key (`DropOnboarding`); `pool_onboard` holds the
agents' lock while it loads from the network, and every other domain write fails
meanwhile; the order of the boards.

## 17. The runs that hold several components

Components without common state share a run: `moving` picks the one that moves,
the others stay at `Init`. This loses nothing, since no property relates them, and
lets one property state what a component promises as a conjunction of named parts.

| run | component | bounds |
|---|---|---|
| `conversations` | `SessionRunner` | three turns (one leaves, one waits, one comes), two messages for a note to come between, one continuation, one fault |
| | `Confirmations` | two proposals, three requests, of which one writes or decides and two interfere, two disturbances |
| | `RequestScheduler` | two interactive callers, one medium, one low, two pumps, one retry; the burst of 5 is 3 |
| | `MarketUpdate` | one instrument, three days, averages over two bars, a tolerated gap of two days for three, one load of a page or one failure or crash |
| `workers` | `NotificationDelivery` | one delivery and a newer result, two workers, one act of the user, one fault |
| | `BacktestRuns` | two runners, two runs, two days, one mishap; leases lapse at will |
| | `IndicatorQueue` | two series, a worker and an onboarding, two writes each, one failure |
| `records` | `JobScheduler` | one job, three occurrences; a stop and a failed scan, a failed scan and an edit, or a pause |
| | `StrategyPublishing` | one document, two sessions, pages, proposals and tokens, one restart |
| | `PositionsLedger` | four events on two days, entered in any order, with a price for each; a holding starts with the attention of the daily plan only |
| | `BacktestEngine` | five rules, three ways to be paused, two codes, six days, one place |
| | `EventStream` | two flows, three events, pages of two, one reopening |
| | `PoolMembership` | one stock, two days, three onboardings |

**Fairness** is stated for each component while it moves: timers, queries, leases and
the event loop; never for users, faults, crashes or outside writers. `records`
checks safety only and uses symmetry.

## How to run

`tlc -config <cfg> <module>` with the pairs listed under "runs" in
`PROJECT.json`; `tlapm <module>` with the eight modules whose names end with
`Proofs`: `JobSchedulerProofs`,
`PlanPublicationProofs`, `WorkersProofs` (notifications, backtest runs, indicators),
`DatasourceProofs` (requests, daily bars), `ConversationsProofs` (sessions,
confirmations), `BacktestEngineProofs`, `RecordsProofs` (strategy, pools, ledger; the
longest, about ten minutes from nothing), `EventStreamProofs` (events). The last of the
proofs about a joint instance is its type invariant.
