---------------------------- MODULE JobScheduler ----------------------------
(***************************************************************************)
(* The job scheduler of the server: the cron scan that queues job_run      *)
(* rows, the drain workers that claim and execute them, the transaction    *)
(* that books a result, the retry and cancel paths, and the recovery at    *)
(* start-up of what a crash left behind.                                   *)
(*                                                                         *)
(* The database rows survive a crash, the scheduler's fields and the       *)
(* workers do not.  A handler is split where it awaits the database, so    *)
(* that other workers, the tick and the users interleave at every await.   *)
(* Wall-clock time appears twice, and only as far as it is compared:       *)
(* `clock' for cron occurrences, and "the retry delay has passed" as the   *)
(* action RetryFallsDue.                                                   *)
(***************************************************************************)
EXTENDS Integers, FiniteSets

CONSTANTS
    Jobs,          \* the job_definition rows, numbered in the order of "code"
    TypesOf,       \* the job types an edit may give a job
    Cron,          \* the occurrences of each job's cron expression
    Horizon,       \* the last instant of the model's clock
    OccurrenceLimit, \* how many occurrences one scan of a cron accepts (1000)
    Workers,       \* the drain slots (MAX_PARALLEL_RUNS = 3)
    BatchLimit,    \* how many rows one drain worker tries (100)
    RunIds,        \* ids a job_run may get, enough for every insertion
    Budgets        \* the bounds on what the environment does, one is chosen: see BudgetKinds

JobTypes == {"datasource", "analysis", "agent_flow"}
BudgetKinds == {"manual", "edit", "pause", "stop", "fault"}
MaxAttempts == 2

ASSUME JobsAssumption ==
    /\ Jobs \subseteq Nat /\ Jobs # {}
    /\ Horizon \in Nat
    /\ Cron \in [Jobs -> SUBSET (1..Horizon)]
    /\ TypesOf \in [Jobs -> (SUBSET JobTypes) \ {{}}]
ASSUME BoundsAssumption ==
    /\ RunIds \subseteq Nat \ {0} /\ IsFiniteSet(RunIds)
    /\ OccurrenceLimit \in Nat \ {0}
    /\ BatchLimit \in Nat \ {0}
    /\ Budgets \subseteq [BudgetKinds -> Nat]

VARIABLES
    \* job_definition
    enabled, updated, jobType,
    \* job_run, a column each; a row that is not there has status "absent"
    jobOf, scheduledFor, status, attempts, dueKey,
    \* chat_session.session_status of the run's conversation, and the number
    \* of job_run_output rows of the run
    session, outputs,
    \* the market advisory lock
    marketLock,
    \* the process: phase of its life, the fields of JobScheduler, the scan
    phase, lastTickAt, ticking, now, todo, overLimit,
    \* the drain workers
    pc, run, runType, result, batch,
    \* the world: time, and what is left of each budget
    clock, left,
    \* history, read by properties only: runs whose result was committed
    \* without the worker hearing of it, runs whose worker died on a fault,
    \* runs whose conversation was not told what became of them
    unacked, stranded, silent

definitions == <<enabled, updated, jobType>>
identity == <<jobOf, scheduledFor>>
row == <<status, attempts, dueKey>>
scan == <<phase, lastTickAt, ticking, now, todo, overLimit>>
slots == <<pc, run, runType, result, batch>>
history == <<unacked, stranded, silent>>
vars == <<definitions, identity, row, session, outputs, marketLock, scan,
          slots, clock, left, history>>

-----------------------------------------------------------------------------
(* The values the columns and fields take.                                 *)

Finished == {"success", "partial", "failed", "cancelled"}
Terminal == Finished \cup {"missed"}
RunStatus == Terminal \cup {"absent", "inserting", "queued", "running"}
SessionStatus == Finished \cup {"none", "queued", "running"}
Phases == {"down", "rows", "missed", "starting", "up", "stopping"}
Results == {"none", "success", "partial", "retryable", "fatal", "abort",
            "queued", "failed", "cancelled"}
Steps == {"off", "select", "claim", "load", "execute", "locked", "finish",
          "settle", "mirror"}
Occurrences == Jobs \X (1..Horizon)
NoRun == 0
KeyBound == 2 * Cardinality(RunIds)

-----------------------------------------------------------------------------
(* Readings of the tables that the code's queries make.                    *)

\* The row can be claimed: no retry delay is running.
Due(r) == status[r] = "queued" /\ dueKey[r] > 0

IsDatasource(r) == jobType[jobOf[r]] = "datasource"

DatasourceRunning ==
    \E q \in RunIds : status[q] = "running" /\ IsDatasource(q)

\* Mutant: the query forgets rows that wait for their second attempt.
EligibleFirstTryOnly(r) == Due(r) /\ attempts[r] = 0

Eligible(r) == Due(r) /\ (IsDatasource(r) => ~DatasourceRunning)

\* ORDER BY COALESCE(next_retry_at, created_at), id LIMIT 1
FirstInLine(r) ==
    /\ Eligible(r)
    /\ \A q \in RunIds : Eligible(q) => dueKey[r] <= dueKey[q]

\* The place at the end of that order that a new or newly due row takes.
LastPlace(k) ==
    /\ \A q \in RunIds : dueKey[q] < k
    /\ \A m \in 1..KeyBound : (\A q \in RunIds : dueKey[q] < m) => k <= m

FreshId(r) ==
    /\ status[r] = "absent"
    /\ \A q \in RunIds : q < r => status[q] # "absent"

\* Mutant: no ON CONFLICT, so no occurrence is found to be there.
RecordedNever(o) == FALSE

Recorded(o) ==
    \E r \in RunIds : /\ status[r] # "absent"
                      /\ jobOf[r] = o[1] /\ scheduledFor[r] = o[2]

\* What the enabled jobs' cron expressions name up to `through'.
Named(through) ==
    {o \in Occurrences : enabled[o[1]] /\ o[2] \in Cron[o[1]] /\ o[2] <= through}

\* runTick looks from the last successful tick on ...
TickScan(through) == {o \in Named(through) : lastTickAt < o[2]}

\* ... recoverMissed from the later of the job's last recorded occurrence
\* (latestScheduledFor) and the definition's last edit.
RecoveryScan(through) ==
    {o \in Named(through) :
        /\ updated[o[1]] < o[2]
        /\ \A r \in RunIds : (status[r] # "absent" /\ jobOf[r] = o[1])
                                => scheduledFor[r] < o[2]}

\* Mutant: the limit is reached one occurrence early.
RefusedAtLimit(scanned) ==
    {j \in Jobs : Cardinality({o \in scanned : o[1] = j}) >= OccurrenceLimit}

\* Mutant: what is over the limit is cut off, not refused.
RefusedNever(scanned) == {}

\* The jobs at which cronOccurrences throws.
Refused(scanned) ==
    {j \in Jobs : Cardinality({o \in scanned : o[1] = j}) > OccurrenceLimit}

\* What the scan inserts: the jobs in order, up to the first that throws.
Plan(scanned) == {o \in scanned : \A j \in Refused(scanned) : o[1] < j}

\* Mutant: the newest occurrence is inserted first.
NextOfPlanNewestFirst(o) ==
    /\ o \in todo
    /\ \A p \in todo : o[1] < p[1] \/ (o[1] = p[1] /\ p[2] <= o[2])

NextOfPlan(o) ==
    /\ o \in todo
    /\ \A p \in todo : o[1] < p[1] \/ (o[1] = p[1] /\ o[2] <= p[2])

\* setJobSessionStatus: nothing to do for a run without a conversation.
Tell(r, what) ==
    session' = IF session[r] = "none" THEN session ELSE [session EXCEPT ![r] = what]

Spend(kind) == left[kind] > 0 /\ left' = [left EXCEPT ![kind] = @ - 1]

-----------------------------------------------------------------------------
(* An empty database apart from the definitions; the process is down.      *)

Init ==
    /\ enabled \in [Jobs -> BOOLEAN]
    /\ updated = [j \in Jobs |-> 0]
    /\ jobType \in {f \in [Jobs -> JobTypes] : \A j \in Jobs : f[j] \in TypesOf[j]}
    /\ jobOf = [r \in RunIds |-> CHOOSE j \in Jobs : TRUE]
    /\ scheduledFor = [r \in RunIds |-> 0]
    /\ status = [r \in RunIds |-> "absent"]
    /\ attempts = [r \in RunIds |-> 0]
    /\ dueKey = [r \in RunIds |-> 0]
    /\ session = [r \in RunIds |-> "none"]
    /\ outputs = [r \in RunIds |-> 0]
    /\ marketLock = "free"
    /\ phase = "down" /\ lastTickAt = 0 /\ ticking = FALSE /\ now = 0
    /\ todo = {} /\ overLimit = FALSE
    /\ pc = [w \in Workers |-> "off"]
    /\ run = [w \in Workers |-> NoRun]
    /\ runType = [w \in Workers |-> "analysis"]
    /\ result = [w \in Workers |-> "none"]
    /\ batch = [w \in Workers |-> 0]
    /\ clock = 0
    /\ left \in Budgets
    /\ unacked = {} /\ stranded = {} /\ silent = {}


-----------------------------------------------------------------------------
(* The process: start, stop, crash.                                        *)

\* Mutant: conversations are left as the dead process had them.
ConversationsUntouched == session

\* recoverInterruptedAgentSessions: a conversation a dead process left running
\* has failed, unless its run is itself still marked running.
InterruptedConversations ==
    [r \in RunIds |-> IF session[r] = "running" /\ status[r] # "running"
                         THEN "failed" ELSE session[r]]

(* Start-up: then HTTP listens and start() begins with the time it will    *)
(* scan up to.                                                             *)
Boot ==
    /\ phase = "down"
    /\ phase' = "rows" /\ now' = clock
    /\ session' = InterruptedConversations
    /\ silent' = {}
    /\ UNCHANGED <<definitions, identity, row, outputs, marketLock, lastTickAt,
                   ticking, todo, overLimit, slots, clock, left, unacked, stranded>>

\* Mutant: one attempt too many.
AfterFailureOffByOne(r) == IF attempts[r] <= MaxAttempts THEN "queued" ELSE "failed"

\* A row that still has an attempt goes back to the queue behind its delay.
AfterFailure(r) == IF attempts[r] < MaxAttempts THEN "queued" ELSE "failed"

(* recoverInterruptedJobRuns, one row: what the last process was running   *)
(* counts as a failed attempt.  The conversation is told, or telling it    *)
(* fails and is only logged.                                               *)
RecoverRow(r) ==
    /\ phase = "rows" /\ status[r] = "running"
    /\ status' = [status EXCEPT ![r] = AfterFailure(r)]
    /\ \/ Tell(r, AfterFailure(r)) /\ UNCHANGED <<left, silent>>
       \/ UNCHANGED session /\ Spend("fault") /\ silent' = silent \cup {r}
    /\ stranded' = stranded \ {r}
    /\ UNCHANGED <<definitions, identity, attempts, dueKey, outputs, marketLock,
                   scan, slots, clock, unacked>>

(* recoverMissed reads the definitions and plans the gap up to now - 1.    *)
PlanMissed ==
    /\ phase = "rows" /\ \A r \in RunIds : status[r] # "running"
    /\ phase' = "missed"
    /\ todo' = Plan(RecoveryScan(now - 1))
    /\ overLimit' = (Refused(RecoveryScan(now - 1)) # {})
    /\ UNCHANGED <<definitions, identity, row, session, outputs, marketLock,
                   lastTickAt, ticking, now, slots, clock, left, history>>

(* insertScheduledJobRun: a row unless the occurrence already has one; the *)
(* row of a queued agent_flow run gets its conversation with it.           *)
InsertOccurrence(o, as) ==
    IF Recorded(o)
      THEN UNCHANGED <<identity, row, session>>
      ELSE \E r \in RunIds, k \in 1..KeyBound :
             /\ FreshId(r) /\ LastPlace(k)
             /\ jobOf' = [jobOf EXCEPT ![r] = o[1]]
             /\ scheduledFor' = [scheduledFor EXCEPT ![r] = o[2]]
             /\ status' = [status EXCEPT ![r] = as]
             /\ dueKey' = [dueKey EXCEPT ![r] = IF as = "queued" THEN k ELSE 0]
             /\ session' = [session EXCEPT ![r] =
                    IF as = "queued" /\ jobType[o[1]] = "agent_flow"
                      THEN "queued" ELSE "none"]
             /\ UNCHANGED attempts

RecordMissed(o) ==
    /\ phase = "missed" /\ NextOfPlan(o)
    /\ InsertOccurrence(o, "missed")
    /\ todo' = todo \ {o}
    /\ UNCHANGED <<definitions, outputs, marketLock, phase, lastTickAt, ticking,
                   now, overLimit, slots, clock, left, history>>

(* The gap is recorded: the first tick scans the one instant that is left. *)
(* A refused expression rejects start() instead, and index.ts shuts down.  *)
FinishRecovery ==
    /\ phase = "missed" /\ todo = {}
    /\ IF overLimit
         THEN /\ phase' = "stopping" /\ overLimit' = FALSE
              /\ UNCHANGED <<lastTickAt, ticking, todo>>
         ELSE /\ phase' = "starting" /\ ticking' = TRUE
              /\ lastTickAt' = now - 1
              /\ todo' = Plan({o \in Named(now) : now - 1 < o[2]})
              /\ overLimit' = FALSE
    /\ UNCHANGED <<definitions, identity, row, session, outputs, marketLock,
                   now, slots, clock, left, history>>

(* SIGTERM: no new tick, no new row for a worker; what runs may finish.    *)
Stop ==
    /\ phase \in {"starting", "up"} /\ Spend("stop")
    /\ phase' = "stopping"
    /\ UNCHANGED <<definitions, identity, row, session, outputs, marketLock,
                   lastTickAt, ticking, now, todo, overLimit, slots, clock, history>>

\* The memory of the process, gone.
ForgetProcess ==
    /\ phase' = "down" /\ ticking' = FALSE /\ todo' = {} /\ overLimit' = FALSE
    /\ now' = 0 /\ lastTickAt' = 0
    /\ pc' = [w \in Workers |-> "off"]
    /\ run' = [w \in Workers |-> NoRun]
    /\ runType' = [w \in Workers |-> "analysis"]
    /\ result' = [w \in Workers |-> "none"]
    /\ batch' = [w \in Workers |-> 0]

(* Workers and tick have ended, and server.close has waited for requests.  *)
Exit ==
    /\ phase = "stopping" /\ ~ticking /\ \A w \in Workers : pc[w] = "off"
    /\ \A r \in RunIds : status[r] # "inserting"
    /\ ForgetProcess
    /\ UNCHANGED <<definitions, identity, row, session, outputs, marketLock,
                   clock, left, history>>

(* The process dies anywhere.  A manual run that was being inserted is     *)
(* rolled back; the backend that holds the market lock may outlive the     *)
(* process until its statement ends.                                       *)
Crash ==
    /\ phase # "down" /\ Spend("stop")
    /\ ForgetProcess
    /\ LET lost == {r \in RunIds : status[r] = "inserting"}
       IN  /\ status' = [r \in RunIds |-> IF r \in lost THEN "absent" ELSE status[r]]
           /\ dueKey' = [r \in RunIds |-> IF r \in lost THEN 0 ELSE dueKey[r]]
           /\ session' = [r \in RunIds |-> IF r \in lost THEN "none" ELSE session[r]]
    /\ IF marketLock = "held" THEN marketLock' \in {"free", "orphaned"}
                              ELSE UNCHANGED marketLock
    /\ UNCHANGED <<definitions, identity, attempts, outputs, clock, history>>

OrphanedLockReleased ==
    /\ marketLock = "orphaned" /\ marketLock' = "free"
    /\ UNCHANGED <<definitions, identity, row, session, outputs, scan, slots,
                   clock, left, history>>

-----------------------------------------------------------------------------
(* The tick.                                                               *)

(* The 30 s timer or a wake: one scan at a time.                           *)
TickBegin ==
    /\ phase = "up" /\ ~ticking
    /\ ticking' = TRUE /\ now' = clock
    /\ todo' = Plan(TickScan(clock))
    /\ overLimit' = (Refused(TickScan(clock)) # {})
    /\ UNCHANGED <<definitions, identity, row, session, outputs, marketLock,
                   phase, lastTickAt, slots, clock, left, history>>

TickInsert(o) ==
    /\ ticking /\ NextOfPlan(o)
    /\ InsertOccurrence(o, "queued")
    /\ todo' = todo \ {o}
    /\ UNCHANGED <<definitions, outputs, marketLock, phase, lastTickAt, ticking,
                   now, overLimit, slots, clock, left, history>>

\* startWorkers fills the free slots, unless the scheduler is stopping.
StartWorkers ==
    IF phase = "stopping"
      THEN UNCHANGED slots
      ELSE /\ pc' = [w \in Workers |-> IF pc[w] = "off" THEN "select" ELSE pc[w]]
           /\ UNCHANGED <<run, runType, result, batch>>

TickEnd ==
    /\ ticking /\ todo = {} /\ ~overLimit
    /\ ticking' = FALSE /\ lastTickAt' = now
    /\ phase' = IF phase = "starting" THEN "up" ELSE phase
    /\ StartWorkers
    /\ UNCHANGED <<definitions, identity, row, session, outputs, marketLock,
                   now, todo, overLimit, clock, left, history>>

(* A refused expression or a database error ends the scan half way: the    *)
(* next tick scans from the same instant again.  In start() it is fatal.   *)
TickFails ==
    /\ ticking
    /\ \/ todo = {} /\ overLimit /\ UNCHANGED left
       \/ todo # {} /\ Spend("fault")
    /\ ticking' = FALSE /\ todo' = {} /\ overLimit' = FALSE
    /\ phase' = IF phase = "starting" THEN "stopping" ELSE phase
    /\ UNCHANGED <<definitions, identity, row, session, outputs, marketLock,
                   lastTickAt, now, slots, clock, history>>


-----------------------------------------------------------------------------
(* A drain worker: select, claim, load, execute, book or settle, mirror.   *)

AtStep(w, step) == pc[w] = step
Goto(w, step) == pc' = [pc EXCEPT ![w] = step]

\* Back to the loop head of drainWorker, one batch spent.
NextBatch(w) ==
    /\ Goto(w, "select")
    /\ run' = [run EXCEPT ![w] = NoRun]
    /\ runType' = [runType EXCEPT ![w] = "analysis"]
    /\ result' = [result EXCEPT ![w] = "none"]
    /\ batch' = [batch EXCEPT ![w] = @ + 1]

\* The worker's promise ends and leaves the set of workers.
Leave(w) ==
    /\ Goto(w, "off")
    /\ run' = [run EXCEPT ![w] = NoRun]
    /\ runType' = [runType EXCEPT ![w] = "analysis"]
    /\ result' = [result EXCEPT ![w] = "none"]
    /\ batch' = [batch EXCEPT ![w] = 0]

Yield(w, outcome) ==
    /\ result' = [result EXCEPT ![w] = outcome]
    /\ UNCHANGED <<run, runType, batch>>

(* The query at the loop head.  Nothing reserves the row it returns.       *)
Select(w, r) ==
    /\ AtStep(w, "select") /\ phase # "stopping" /\ batch[w] < BatchLimit
    /\ FirstInLine(r)
    /\ Goto(w, "claim") /\ run' = [run EXCEPT ![w] = r]
    /\ UNCHANGED <<definitions, identity, row, session, outputs, marketLock,
                   scan, runType, result, batch, clock, left, history>>

Drained(w) ==
    /\ AtStep(w, "select")
    /\ \/ phase = "stopping"
       \/ batch[w] = BatchLimit
       \/ \A r \in RunIds : ~Eligible(r)
    /\ Leave(w)
    /\ UNCHANGED <<definitions, identity, row, session, outputs, marketLock,
                   scan, clock, left, history>>

\* Mutant: UPDATE ... WHERE id = $1 alone.
ClaimableById(r) == TRUE

\* The WHERE of claimRun's UPDATE.
Claimable(r) == Due(r)

(* claimRun: one UPDATE that asks again whether the row is queued and due, *)
(* but not whether another datasource run has started meanwhile.           *)
Claim(w) ==
    /\ AtStep(w, "claim")
    /\ IF Claimable(run[w])
         THEN /\ status' = [status EXCEPT ![run[w]] = "running"]
              /\ attempts' = [attempts EXCEPT ![run[w]] = @ + 1]
              /\ dueKey' = [dueKey EXCEPT ![run[w]] = 0]
              /\ Goto(w, "load") /\ UNCHANGED <<run, runType, result, batch>>
         ELSE NextBatch(w) /\ UNCHANGED row
    /\ UNCHANGED <<definitions, identity, session, outputs, marketLock, scan,
                   clock, left, history>>

(* findJobRunById reads the definition as it is now; the conversation is   *)
(* set running.  A configuration that does not validate is a failure.      *)
Load(w) ==
    /\ AtStep(w, "load")
    /\ runType' = [runType EXCEPT ![w] = jobType[jobOf[run[w]]]]
    /\ Tell(run[w], "running")
    /\ \/ Goto(w, "execute") /\ UNCHANGED result
       \/ Goto(w, "settle") /\ result' = [result EXCEPT ![w] = "retryable"]
    /\ UNCHANGED <<definitions, identity, row, outputs, marketLock, scan, run,
                   batch, clock, left, history>>

\* Mutant: the advisory lock is taken again by its own session.
LockReentrant == TRUE

\* pg_try_advisory_xact_lock says whether it got the lock.
LockAcquired == marketLock = "free"

(* executeDatasource: the daily gate skips or rejects, or the market lock  *)
(* is tried; a lock that is busy fails the attempt.                        *)
EnterDatasource(w) ==
    /\ AtStep(w, "execute") /\ runType[w] = "datasource"
    /\ \/ Goto(w, "finish") /\ Yield(w, "success") /\ UNCHANGED marketLock
       \/ Goto(w, "settle") /\ Yield(w, "fatal") /\ UNCHANGED marketLock
       \/ /\ LockAcquired /\ marketLock' = "held"
          /\ Goto(w, "locked") /\ UNCHANGED <<run, runType, result, batch>>
       \/ /\ ~LockAcquired /\ UNCHANGED marketLock
          /\ Goto(w, "settle") /\ Yield(w, "retryable")
    /\ UNCHANGED <<definitions, identity, row, session, outputs, scan, clock,
                   left, history>>

LeaveDatasource(w) ==
    /\ AtStep(w, "locked")
    /\ marketLock' = "free"
    /\ \/ Goto(w, "finish") /\ (Yield(w, "success") \/ Yield(w, "partial"))
       \/ Goto(w, "settle") /\ Yield(w, "retryable")
    /\ UNCHANGED <<definitions, identity, row, session, outputs, scan, clock,
                   left, history>>

ExecuteAnalysis(w) ==
    /\ AtStep(w, "execute") /\ runType[w] = "analysis"
    /\ \/ Goto(w, "finish") /\ (Yield(w, "success") \/ Yield(w, "partial"))
       \/ Goto(w, "settle") /\ Yield(w, "retryable")
    /\ UNCHANGED <<definitions, identity, row, session, outputs, marketLock,
                   scan, clock, left, history>>

(* executeAgentFlow: a run without a conversation fails, the user may      *)
(* abort the turn, and only a complete Markdown is a success.              *)
ExecuteAgentFlow(w) ==
    /\ AtStep(w, "execute") /\ runType[w] = "agent_flow"
    /\ \/ session[run[w]] # "none" /\ Goto(w, "finish") /\ Yield(w, "success")
       \/ session[run[w]] # "none" /\ Goto(w, "settle") /\ Yield(w, "abort")
       \/ Goto(w, "settle") /\ Yield(w, "retryable")
    /\ UNCHANGED <<definitions, identity, row, session, outputs, marketLock,
                   scan, clock, left, history>>

\* Mutant: the output is inserted without asking for an existing one.
BookResultAgain(w) ==
    /\ status' = [status EXCEPT ![run[w]] = result[w]]
    /\ dueKey' = [dueKey EXCEPT ![run[w]] = 0]
    /\ outputs' = [outputs EXCEPT ![run[w]] =
                     IF runType[w] = "agent_flow" THEN @ + 1 ELSE @]
    /\ UNCHANGED attempts

\* The transaction of finishRun: the run's end and, of an agent run, its one
\* output.  The row's status is not asked.
BookResult(w) ==
    /\ status' = [status EXCEPT ![run[w]] = result[w]]
    /\ dueKey' = [dueKey EXCEPT ![run[w]] = 0]
    /\ outputs' = [outputs EXCEPT ![run[w]] =
                     IF runType[w] = "agent_flow" /\ @ = 0 THEN 1 ELSE @]
    /\ UNCHANGED attempts

Finish(w) ==
    /\ AtStep(w, "finish") /\ BookResult(w)
    /\ Goto(w, "mirror") /\ UNCHANGED <<run, runType, result, batch>>
    /\ UNCHANGED <<definitions, identity, session, marketLock, scan, clock,
                   left, history>>

\* It rolls back (a draft that may not be activated, a database error) ...
FinishRollsBack(w) ==
    /\ AtStep(w, "finish")
    /\ Goto(w, "settle") /\ Yield(w, "retryable")
    /\ UNCHANGED <<definitions, identity, row, session, outputs, marketLock,
                   scan, clock, left, history>>

\* ... or commits, and the connection is lost before the worker hears of it.
FinishUnheard(w) ==
    /\ AtStep(w, "finish") /\ Spend("fault") /\ BookResult(w)
    /\ Goto(w, "settle") /\ Yield(w, "retryable")
    /\ unacked' = unacked \cup {run[w]}
    /\ UNCHANGED <<definitions, identity, session, marketLock, scan, clock,
                   stranded, silent>>

\* Mutant: an aborted run is not written back.
SettlementForgetsAbort(w) ==
    IF result[w] = "abort" THEN "running"
    ELSE IF result[w] = "retryable" THEN AfterFailure(run[w])
    ELSE "failed"

\* What failOrRetry and cancelRun write.
Settlement(w) ==
    IF result[w] = "abort" THEN "cancelled"
    ELSE IF result[w] = "retryable" THEN AfterFailure(run[w])
    ELSE "failed"

Settle(w) ==
    /\ AtStep(w, "settle")
    /\ status' = [status EXCEPT ![run[w]] = Settlement(w)]
    /\ dueKey' = [dueKey EXCEPT ![run[w]] = 0]
    /\ Goto(w, "mirror") /\ Yield(w, Settlement(w))
    /\ UNCHANGED <<definitions, identity, attempts, session, outputs, marketLock,
                   scan, clock, left, history>>

(* The conversation follows the row as the worker last wrote it; an error  *)
(* here is logged and never undoes the row.                                *)
Mirror(w) ==
    /\ AtStep(w, "mirror")
    /\ Tell(run[w], result[w])
    /\ NextBatch(w)
    /\ UNCHANGED <<definitions, identity, row, outputs, marketLock, scan, clock,
                   left, history>>

MirrorFails(w) ==
    /\ AtStep(w, "mirror") /\ Spend("fault")
    /\ NextBatch(w)
    /\ silent' = silent \cup {run[w]}
    /\ UNCHANGED <<definitions, identity, row, session, outputs, marketLock, scan,
                   clock, unacked, stranded>>

(* A database error outside the handler's try: the worker ends, and a row  *)
(* it had claimed stays as it is until the next start-up.                  *)
WorkerFails(w) ==
    /\ pc[w] \in {"select", "claim", "load", "settle", "mirror"} /\ Spend("fault")
    /\ Leave(w)
    /\ stranded' = IF pc[w] \in {"load", "settle"}
                     THEN stranded \cup {run[w]} ELSE stranded
    /\ silent' = IF pc[w] \in {"settle", "mirror"} THEN silent \cup {run[w]} ELSE silent
    /\ UNCHANGED <<definitions, identity, row, session, outputs, marketLock,
                   scan, clock, unacked>>

-----------------------------------------------------------------------------
(* Users, agents and time.                                                 *)

(* queueManualJob's transaction takes its id and created_at ...            *)
QueueManual(j) ==
    /\ phase # "down" /\ Spend("manual")
    /\ \E r \in RunIds, k \in 1..KeyBound :
         /\ FreshId(r) /\ LastPlace(k)
         /\ jobOf' = [jobOf EXCEPT ![r] = j]
         /\ scheduledFor' = [scheduledFor EXCEPT ![r] = 0]
         /\ status' = [status EXCEPT ![r] = "inserting"]
         /\ dueKey' = [dueKey EXCEPT ![r] = k]
         /\ session' = [session EXCEPT ![r] =
                IF jobType[j] = "agent_flow" THEN "queued" ELSE "none"]
    /\ UNCHANGED <<definitions, attempts, outputs, marketLock, scan, slots,
                   clock, history>>

\* ... and only its commit shows the row to the workers.
CommitManual(r) ==
    /\ status[r] = "inserting"
    /\ status' = [status EXCEPT ![r] = "queued"]
    /\ UNCHANGED <<definitions, identity, attempts, dueKey, session, outputs,
                   marketLock, scan, slots, clock, left, history>>

(* updateJobDefinition (or the creation of a job): whatever it changes,    *)
(* updated_at moves to the present.                                        *)
EditDefinition(j) ==
    /\ phase # "down" /\ Spend("edit")
    /\ \E t \in TypesOf[j] : jobType' = [jobType EXCEPT ![j] = t]
    /\ updated' = [updated EXCEPT ![j] = clock]
    /\ UNCHANGED <<enabled, identity, row, session, outputs, marketLock, scan,
                   slots, clock, history>>

PauseOrResume(j) ==
    /\ phase # "down" /\ Spend("pause")
    /\ enabled' = [enabled EXCEPT ![j] = ~@]
    /\ updated' = [updated EXCEPT ![j] = clock]
    /\ UNCHANGED <<jobType, identity, row, session, outputs, marketLock, scan,
                   slots, clock, history>>

(* The five minutes of next_retry_at are over.                             *)
RetryFallsDue(r) ==
    /\ status[r] = "queued" /\ dueKey[r] = 0
    /\ \E k \in 1..KeyBound : LastPlace(k) /\ dueKey' = [dueKey EXCEPT ![r] = k]
    /\ UNCHANGED <<definitions, identity, status, attempts, session, outputs,
                   marketLock, scan, slots, clock, left, history>>

TimePasses ==
    /\ clock < Horizon /\ clock' = clock + 1
    /\ UNCHANGED <<definitions, identity, row, session, outputs, marketLock,
                   scan, slots, left, history>>

-----------------------------------------------------------------------------

Process ==
    \/ Boot \/ PlanMissed \/ FinishRecovery \/ Stop \/ Exit \/ Crash
    \/ OrphanedLockReleased \/ TickBegin \/ TickEnd \/ TickFails
    \/ \E r \in RunIds : RecoverRow(r)
    \/ \E o \in Occurrences : RecordMissed(o) \/ TickInsert(o)

\* The steps a worker takes by itself.
WorkerStep(w) ==
    \/ \E r \in RunIds : Select(w, r)
    \/ Drained(w) \/ Claim(w) \/ Load(w)
    \/ EnterDatasource(w) \/ LeaveDatasource(w)
    \/ ExecuteAnalysis(w) \/ ExecuteAgentFlow(w)
    \/ Finish(w) \/ FinishRollsBack(w) \/ Settle(w) \/ Mirror(w)

World ==
    \/ \E j \in Jobs : QueueManual(j) \/ EditDefinition(j) \/ PauseOrResume(j)
    \/ \E r \in RunIds : CommitManual(r) \/ RetryFallsDue(r)
    \/ TimePasses

Next ==
    \/ Process
    \/ \E w \in Workers : WorkerStep(w) \/ FinishUnheard(w) \/ MirrorFails(w) \/ WorkerFails(w)
    \/ World

Spec == Init /\ [][Next]_vars

(* The timer keeps ticking, started queries and executions end, a commit   *)
(* that was sent arrives, the service is started again after it ended, and *)
(* time goes on.  Users, stops, crashes and faults are never owed.         *)
Fairness ==
    /\ WF_vars(Boot) /\ WF_vars(\E r \in RunIds : RecoverRow(r))
    /\ WF_vars(PlanMissed) /\ WF_vars(\E o \in Occurrences : RecordMissed(o))
    /\ WF_vars(FinishRecovery) /\ WF_vars(Exit) /\ WF_vars(OrphanedLockReleased)
    /\ WF_vars(TickBegin) /\ WF_vars(\E o \in Occurrences : TickInsert(o))
    /\ WF_vars(TickEnd) /\ WF_vars(ticking /\ todo = {} /\ TickFails)
    /\ \A w \in Workers : WF_vars(WorkerStep(w))
    /\ \A r \in RunIds : WF_vars(CommitManual(r)) /\ WF_vars(RetryFallsDue(r))
    /\ WF_vars(TimePasses)

-----------------------------------------------------------------------------
(* Properties.                                                             *)

\* Every variable keeps its type (tables, scheduler fields, worker locals).
TypeOK ==
    /\ enabled \in [Jobs -> BOOLEAN]
    /\ updated \in [Jobs -> 0..Horizon]
    /\ jobType \in [Jobs -> JobTypes]
    /\ jobOf \in [RunIds -> Jobs]
    /\ scheduledFor \in [RunIds -> 0..Horizon]
    /\ status \in [RunIds -> RunStatus]
    /\ attempts \in [RunIds -> 0..MaxAttempts]
    /\ dueKey \in [RunIds -> 0..KeyBound]
    /\ session \in [RunIds -> SessionStatus]
    /\ outputs \in [RunIds -> {0, 1}]
    /\ marketLock \in {"free", "held", "orphaned"}
    /\ phase \in Phases /\ ticking \in BOOLEAN /\ overLimit \in BOOLEAN
    /\ lastTickAt \in -1..Horizon /\ now \in 0..Horizon
    /\ todo \subseteq Occurrences
    /\ pc \in [Workers -> Steps]
    /\ run \in [Workers -> RunIds \cup {NoRun}]
    /\ runType \in [Workers -> JobTypes]
    /\ result \in [Workers -> Results]
    /\ batch \in [Workers -> 0..BatchLimit]
    /\ clock \in 0..Horizon
    /\ left \in [BudgetKinds -> Nat]
    /\ unacked \subseteq RunIds /\ stranded \subseteq RunIds
    /\ silent \subseteq RunIds

\* The worker has claimed its row and has not yet written the row's end.
Owns(w, r) ==
    /\ pc[w] \in {"load", "execute", "locked", "finish", "settle"}
    /\ run[w] = r

\* However selects, claims, retries and restarts interleave, a run is in the
\* hands of one worker at a time, and a worker that owns a run finds it marked
\* running -- unless its own commit went through unheard.
OneOwner ==
    \A w \in Workers, r \in RunIds :
        Owns(w, r) => /\ \A v \in Workers : Owns(v, r) => v = w
                      /\ status[r] = "running" \/ r \in unacked

\* Once start-up has recovered the rows of the last process, a row marked
\* running is being worked on; the exception is a row whose worker died on a
\* database error, which nothing touches before the next start-up.
RunningIsWorkedOn ==
    \A r \in RunIds : status[r] = "running" =>
        \/ phase \in {"down", "rows"}
        \/ \E w \in Workers : Owns(w, r)
        \/ r \in stranded

\* "At most two attempts" (T17): restarts and retries together never give a
\* run a third one, and a run waits in the queue only if it has one left.
TwoAttempts ==
    \A r \in RunIds :
        /\ attempts[r] <= MaxAttempts
        /\ status[r] = "queued" => attempts[r] < MaxAttempts

\* A finished or missed run is never run again nor rewritten: not by a worker
\* holding an old id, not by recovery, not by the tick.  Only a commit the
\* worker did not hear of can be overwritten.
EndIsFinal ==
    [][\A r \in RunIds :
          status[r] \in Terminal /\ status'[r] # status[r] => r \in unacked]_vars

\* A run has at most one result, and a result belongs to a run that succeeded;
\* a retry after an unheard commit reuses the result it finds.
ResultBelongsToSuccess ==
    \A r \in RunIds : outputs[r] > 0 =>
        outputs[r] = 1 /\ (status[r] = "success" \/ r \in unacked)

\* An occurrence gets one row, whatever ticks fail half way and are repeated.
OneRowPerOccurrence ==
    \A r, q \in RunIds :
        /\ status[r] # "absent" /\ status[q] # "absent"
        /\ scheduledFor[r] > 0
        /\ jobOf[r] = jobOf[q] /\ scheduledFor[r] = scheduledFor[q]
        => r = q

\* No occurrence falls between a dead process and the next: up to the last
\* tick every occurrence of an enabled job since its last edit has a row.
OccurrencesAccounted ==
    phase = "up" =>
        \A o \in Occurrences :
            /\ enabled[o[1]] /\ o[2] \in Cron[o[1]]
            /\ updated[o[1]] < o[2] /\ o[2] <= lastTickAt
            => Recorded(o)

\* An occurrence has exactly one row, whatever scans fail half way and are
\* repeated, and however often the process ends between.
EveryOccurrenceOnce == OneRowPerOccurrence /\ OccurrencesAccounted

\* Market pipelines never overlap, although two datasource runs may be claimed.
OnePipeline ==
    \A v, w \in Workers : pc[v] = "locked" /\ pc[w] = "locked" => v = w

\* After recovery no conversation shows "running" for a run that nobody runs,
\* except while the worker that ended the run is about to say so, or when a
\* database error kept it from saying so, which the next start-up repairs.
ConversationNotStuck ==
    \A r \in RunIds : session[r] = "running" =>
        \/ phase \in {"down", "rows"}
        \/ status[r] = "running" \/ r \in silent
        \/ \E w \in Workers : pc[w] \in {"settle", "mirror"} /\ run[w] = r

\* One job has more occurrences in an interval than a scan accepts.
TooMany(scanned) ==
    \E j \in Jobs : Cardinality({o \in scanned : o[1] = j}) > OccurrenceLimit

\* A job's missed occurrences are more than one scan accepts, and the process
\* is not up or has not yet got as far as to look for them.
BacklogTooLong ==
    LET through == IF phase \in {"rows", "missed"} THEN now - 1 ELSE clock - 1 IN
    /\ phase \in {"down", "rows", "missed"} \/ (phase = "stopping" /\ ~ticking)
    /\ TooMany(RecoveryScan(through))

\* What the next tick has to scan is more than it accepts.
TickTooLong == phase = "up" /\ TooMany(TickScan(clock))

NoRunIsLeft == \A r \in RunIds : status[r] \notin {"inserting", "queued", "running"}

\* Queued runs end, across retries, stops and crashes -- unless an interval with
\* more occurrences than a scan accepts stops the scans, and the workers with
\* them, for good.
QueuedRunsEnd == []<>NoRunIsLeft \/ <>[](BacklogTooLong \/ TickTooLong)

\* The service comes up again after every end; only more missed occurrences
\* than a scan accepts keep it down, and they do so on every start until a
\* definition is edited.
ComesUp ==
    /\ []<>(phase = "up") \/ <>[]BacklogTooLong
    /\ [][BacklogTooLong => BacklogTooLong' \/ updated' # updated]_vars

\* The design's "at most one datasource at a time", read off the rows.
OneDatasourceRunning ==
    \A r, q \in RunIds :
        /\ status[r] = "running" /\ IsDatasource(r)
        /\ status[q] = "running" /\ IsDatasource(q)
        => r = q

\* The design's recovery rule: from the job's last scheduled_for, whatever
\* was edited since, every occurrence of a job that is never paused has a row.
GapIsRecorded ==
    phase = "up" =>
        \A o \in Occurrences :
            /\ enabled[o[1]] /\ o[2] \in Cron[o[1]] /\ o[2] <= lastTickAt
            /\ \E r \in RunIds : /\ status[r] # "absent" /\ jobOf[r] = o[1]
                                 /\ 0 < scheduledFor[r] /\ scheduledFor[r] < o[2]
            => Recorded(o)

-----------------------------------------------------------------------------
(* The rows, seen through the promise made about each of them.  A manual   *)
(* run that is being inserted is not there yet.                            *)
Lifecycle == INSTANCE JobRunLifecycle WITH
    Rows <- RunIds,
    state <- [r \in RunIds |-> IF status[r] = "inserting" THEN "absent"
                                                          ELSE status[r]],
    tries <- attempts,
    results <- outputs,
    doubted <- unacked

\* Every step of the scheduler is, for the rows, a step of their life or none.
KeepsLifecycle == Lifecycle!Spec

=============================================================================
