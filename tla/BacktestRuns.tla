---------------------------- MODULE BacktestRuns ----------------------------
(***************************************************************************)
(* Standard backtests: runs are queued in backtest_run, one runner in each *)
(* application process claims them, works in a child process and writes    *)
(* its ledger day by day under a lease (modules/backtests/runtime.ts,      *)
(* backtest/runner.ts).  A lease that is not renewed for 30 seconds runs   *)
(* out; a watchdog then fails the run.  A run is never continued.          *)
(*                                                                         *)
(* Every action on a run is one statement or one transaction that holds    *)
(* its row lock; the claim, which looks at other rows, is two steps.       *)
(***************************************************************************)
EXTENDS Integers, Sequences, FiniteSets

CONSTANTS
    Runners,        \* StandardBacktestRunner, one in each process
    RunIds,         \* ids of backtest_run, in the order of created_at
    Keys,           \* idempotency keys of a session
    Requests,       \* contents of a request, by request_sha256
    LastDay,        \* formal days of the frozen input
    Mishaps         \* bound on stops, crashes, timeouts and lost heartbeats

ASSUME BacktestAssumption ==
    /\ Runners # {} /\ "none" \notin Runners /\ RunIds \subseteq Nat \ {0}
    /\ Keys # {} /\ Requests # {}
    /\ LastDay \in Nat \ {0} /\ Mishaps \in Nat

VARIABLES
    backtest,       \* backtest_run: status, lease and request of a run
    equity,         \* backtest_equity_daily: days of a run with their writer
    runner,         \* run() of each process: step, run, day, aborted
    claimLock,      \* the advisory lock 'standard-backtest-claim'
    answers,        \* what startStandardBacktest returned: key, request, id
    mishaps

backtestVars == <<backtest, equity, runner, claimLock, answers, mishaps>>

NoRunner == "none"
Active == {"preparing", "running"}
Ended == {"success", "failed", "rejected", "cancelled"}
NoRun == [status |-> "absent", key |-> CHOOSE k \in Keys : TRUE, request |-> CHOOSE q \in Requests : TRUE,
          generation |-> 0, token |-> NoRunner, alive |-> FALSE]
AtRest == [step |-> "idle", id |-> 0, day |-> 0, aborted |-> FALSE, stopping |-> FALSE, verdict |-> "failed"]

BacktestInit ==
    /\ backtest = [r \in RunIds |-> NoRun]
    /\ equity = [r \in RunIds |-> <<>>]
    /\ runner = [w \in Runners |-> AtRest]
    /\ claimLock = NoRunner /\ answers = {} /\ mishaps = 0

RunnerAt(w, step) == runner[w].step = step
RunnerTo(w, step) == runner' = [runner EXCEPT ![w].step = step]
\* The rest of run() is skipped; failStandardRun comes next.
Throws(w, verdict) == runner' = [runner EXCEPT ![w].step = "failing", ![w].verdict = verdict]
Mishap == mishaps < Mishaps /\ mishaps' = mishaps + 1
\* current is set to null, the abort controller too.
ComesToRest(w) == runner' = [runner EXCEPT ![w] = [AtRest EXCEPT !.stopping = runner[w].stopping]]

-----------------------------------------------------------------------------
(* Requests.                                                               *)

\* Mutant: the key alone decides.
SameRequestAlways(r, q) == TRUE

\* request_sha256 of the run that has the key.
SameRequest(r, q) == backtest[r].request = q

HoldsKey(r, key) == backtest[r].status # "absent" /\ backtest[r].key = key

\* INSERT .. ON CONFLICT DO NOTHING; the unique index lets one request in.
StartRun(key, q) ==
    /\ \A r \in RunIds : ~HoldsKey(r, key)
    /\ \E r \in RunIds :
          /\ \A s \in RunIds : backtest[s].status = "absent" <=> s >= r
          /\ backtest' = [backtest EXCEPT ![r] = [NoRun EXCEPT !.status = "queued", !.key = key, !.request = q]]
          /\ answers' = answers \cup {[key |-> key, request |-> q, id |-> r]}
    /\ UNCHANGED <<equity, runner, claimLock, mishaps>>

\* The request was made before: it is answered with the same run.
StartAgain(key, q) ==
    /\ \E r \in RunIds :
          /\ HoldsKey(r, key) /\ SameRequest(r, q)
          /\ answers' = answers \cup {[key |-> key, request |-> q, id |-> r]}
    /\ UNCHANGED <<backtest, equity, runner, claimLock, mishaps>>

CancelRun(r) ==
    /\ backtest[r].status \in Active \cup {"queued"}
    /\ backtest' = [backtest EXCEPT ![r].status = "cancelled", ![r].token = NoRunner, ![r].alive = FALSE]
    /\ UNCHANGED <<equity, runner, claimLock, answers, mishaps>>

-----------------------------------------------------------------------------
(* The tick of a runner: the watchdog, then the claim.                     *)

\* Mutant: runs that were still being prepared are forgotten.
LeaseRanOutRunning(r) == backtest[r].status = "running" /\ ~backtest[r].alive

\* execution_status IN ('preparing','running') AND lease_expires_at<=now().
LeaseRanOut(r) == backtest[r].status \in Active /\ ~backtest[r].alive

\* Mutant: a run whose runner was lost is queued once more.
AfterLeaseAgain == "queued"

AfterLease == "failed"

ExpireLeases(w) ==
    /\ RunnerAt(w, "idle") /\ ~runner[w].stopping
    /\ backtest' = [r \in RunIds |-> IF LeaseRanOut(r)
          THEN [backtest[r] EXCEPT !.status = AfterLease, !.token = NoRunner] ELSE backtest[r]]
    /\ RunnerTo(w, "claim")
    /\ UNCHANGED <<equity, claimLock, answers, mishaps>>

\* Mutant: live runs of other processes are not looked for.
NobodyWorksAnyhow == TRUE

NobodyWorks == \A r \in RunIds : ~(backtest[r].status \in Active /\ backtest[r].alive)

\* pg_try_advisory_xact_lock and the look for a live run.
BeginClaim(w) ==
    /\ RunnerAt(w, "claim") /\ ~runner[w].stopping
    /\ claimLock = NoRunner /\ NobodyWorks
    /\ claimLock' = w /\ RunnerTo(w, "take")
    /\ UNCHANGED <<backtest, equity, answers, mishaps>>

NoClaim(w) ==
    /\ RunnerAt(w, "claim")
    /\ runner[w].stopping \/ claimLock # NoRunner \/ ~NobodyWorks
    /\ ComesToRest(w)
    /\ UNCHANGED <<backtest, equity, claimLock, answers, mishaps>>

Queued == {r \in RunIds : backtest[r].status = "queued"}

TakeRun(w) ==
    /\ RunnerAt(w, "take")
    /\ claimLock' = NoRunner
    /\ \E r \in Queued :
          /\ \A s \in Queued : r <= s
          /\ backtest' = [backtest EXCEPT ![r].status = "preparing", ![r].token = w, ![r].alive = TRUE,
                                          ![r].generation = @ + 1]
          /\ runner' = [runner EXCEPT ![w].id = r,
                           ![w].step = IF runner[w].stopping THEN "failing" ELSE "freeze"]
    /\ UNCHANGED <<equity, answers, mishaps>>

NothingQueued(w) ==
    /\ RunnerAt(w, "take") /\ Queued = {}
    /\ claimLock' = NoRunner /\ ComesToRest(w)
    /\ UNCHANGED <<backtest, equity, answers, mishaps>>

-----------------------------------------------------------------------------
(* The work on a run.                                                      *)

\* Mutant: rows are written without a look at the lease.
LeaseHeldAnyhow(w) == TRUE

\* lockLease: generation, token, lease, status and cancellation, row locked.
LeaseHeld(w) ==
    LET claimed == backtest[runner[w].id]
    IN  claimed.token = w /\ claimed.alive /\ claimed.status \in Active

\* freezeStandardBacktestInput stored an input, attachStandardInput names it.
AttachInput(w) ==
    /\ RunnerAt(w, "freeze") /\ LeaseHeld(w)
    /\ backtest' = [backtest EXCEPT ![runner[w].id].status = "running"]
    /\ RunnerTo(w, "days")
    /\ UNCHANGED <<equity, claimLock, answers, mishaps>>

\* Data is missing, the input is not the one of the preflight, or an abort.
FreezeFails(w) ==
    /\ RunnerAt(w, "freeze")
    /\ \E verdict \in {"failed", "rejected"} : Throws(w, verdict)
    /\ UNCHANGED <<backtest, equity, claimLock, answers, mishaps>>

Working(w) == runner[w].step \in {"freeze", "days"}

LosesLease(w) ==
    /\ Working(w) /\ ~LeaseHeld(w) /\ Throws(w, "failed")
    /\ UNCHANGED <<backtest, equity, claimLock, answers, mishaps>>

\* A day of the child process is verified and written, with its events.
AppendDay(w) ==
    /\ RunnerAt(w, "days") /\ runner[w].day < LastDay
    /\ ~runner[w].aborted /\ LeaseHeld(w)
    /\ equity' = [equity EXCEPT ![runner[w].id] = Append(@, [day |-> runner[w].day + 1, by |-> w])]
    /\ runner' = [runner EXCEPT ![w].day = @ + 1]
    /\ UNCHANGED <<backtest, claimLock, answers, mishaps>>

\* The child failed or hung, the verification found the ledger wrong, an
\* abort was seen between two days.
DayFails(w) ==
    /\ RunnerAt(w, "days") /\ (runner[w].day < LastDay \/ runner[w].aborted)
    /\ Throws(w, "failed")
    /\ UNCHANGED <<backtest, equity, claimLock, answers, mishaps>>

\* Mutant: the days are not counted.
AllDaysWrittenSome(w) == Len(equity[runner[w].id]) > 0

\* The days in the ledger are as many as the input has formal ones.
AllDaysWritten(w) == Len(equity[runner[w].id]) = LastDay

CompleteRun(w) ==
    /\ RunnerAt(w, "days") /\ LeaseHeld(w) /\ AllDaysWritten(w)
    /\ backtest' = [backtest EXCEPT ![runner[w].id].status = "success", ![runner[w].id].token = NoRunner,
                                    ![runner[w].id].alive = FALSE]
    /\ ComesToRest(w)
    /\ UNCHANGED <<equity, claimLock, answers, mishaps>>

\* failStandardRun: generation, token and status, whether the lease is alive
\* or not.  Where another verdict was faster, nothing happens.
FailRun(w) ==
    LET claimed == backtest[runner[w].id] IN
    /\ RunnerAt(w, "failing")
    /\ backtest' = IF claimed.token = w /\ claimed.status \in Active
         THEN [backtest EXCEPT ![runner[w].id].status = runner[w].verdict, ![runner[w].id].token = NoRunner,
                               ![runner[w].id].alive = FALSE]
         ELSE backtest
    /\ ComesToRest(w)
    /\ UNCHANGED <<equity, claimLock, answers, mishaps>>

\* The heartbeat meets no row: the child is killed.
HeartbeatRefused(w) ==
    /\ Working(w) /\ ~LeaseHeld(w) /\ ~runner[w].aborted
    /\ runner' = [runner EXCEPT ![w].aborted = TRUE]
    /\ UNCHANGED <<backtest, equity, claimLock, answers, mishaps>>

-----------------------------------------------------------------------------
(* What goes wrong.                                                        *)

\* Thirty seconds without a heartbeat: of a runner that is gone, or of one
\* that was held up.
LeaseLapses(r) ==
    /\ backtest[r].alive
    /\ backtest' = [backtest EXCEPT ![r].alive = FALSE]
    /\ IF \E w \in Runners : runner[w].id = r THEN Mishap ELSE UNCHANGED mishaps
    /\ UNCHANGED <<equity, runner, claimLock, answers>>

\* stop(), when the process ends in order, or the limit of thirty minutes.
StopRunner(w) ==
    /\ ~runner[w].stopping /\ Mishap
    /\ runner' = [runner EXCEPT ![w].stopping = TRUE, ![w].aborted = Working(w)]
    /\ UNCHANGED <<backtest, equity, claimLock, answers>>

TimesOut(w) ==
    /\ Working(w) /\ ~runner[w].aborted /\ Mishap
    /\ runner' = [runner EXCEPT ![w].aborted = TRUE]
    /\ UNCHANGED <<backtest, equity, claimLock, answers>>

\* start() of the next process, after stop() has awaited the work.
StartRunner(w) ==
    /\ runner[w].stopping /\ RunnerAt(w, "idle")
    /\ runner' = [runner EXCEPT ![w].stopping = FALSE]
    /\ UNCHANGED <<backtest, equity, claimLock, answers, mishaps>>

\* The process dies and is started anew; the database rolls its claim back.
RunnerCrashes(w) ==
    /\ ~RunnerAt(w, "idle") /\ Mishap
    /\ runner' = [runner EXCEPT ![w] = AtRest]
    /\ claimLock' = IF claimLock = w THEN NoRunner ELSE claimLock
    /\ UNCHANGED <<backtest, equity, answers>>

RunnerStep(w) ==
    \/ ExpireLeases(w) \/ BeginClaim(w) \/ NoClaim(w) \/ TakeRun(w) \/ NothingQueued(w)
    \/ AttachInput(w) \/ FreezeFails(w) \/ LosesLease(w) \/ AppendDay(w) \/ DayFails(w)
    \/ CompleteRun(w) \/ FailRun(w) \/ HeartbeatRefused(w) \/ StartRunner(w)

BacktestNext ==
    \/ \E w \in Runners : RunnerStep(w) \/ StopRunner(w) \/ TimesOut(w) \/ RunnerCrashes(w)
    \/ \E key \in Keys, q \in Requests : StartRun(key, q) \/ StartAgain(key, q)
    \/ \E r \in RunIds : CancelRun(r) \/ LeaseLapses(r)

BacktestSpec == BacktestInit /\ [][BacktestNext]_backtestVars

\* Ticks and work go on; a lease nobody renews runs out.
BacktestFairness ==
    /\ \A w \in Runners : WF_backtestVars(RunnerStep(w))
    /\ \A r \in RunIds : WF_backtestVars(LeaseLapses(r) /\ \A w \in Runners : runner[w].id # r)

BacktestFairSpec == BacktestSpec /\ BacktestFairness

-----------------------------------------------------------------------------
(* Properties.                                                             *)

\* Every variable keeps its type.
BacktestTypeOK ==
    /\ backtest \in [RunIds -> [status : {"absent", "queued"} \cup Active \cup Ended, key : Keys, request : Requests,
                                generation : Nat, token : Runners \cup {NoRunner}, alive : BOOLEAN]]
    /\ equity \in [RunIds -> Seq([day : 1..LastDay, by : Runners])]
    /\ runner \in [Runners -> [step : {"idle", "claim", "take", "freeze", "days", "failing"}, id : RunIds \cup {0},
                   day : 0..LastDay, aborted : BOOLEAN, stopping : BOOLEAN, verdict : {"failed", "rejected"}]]
    /\ claimLock \in Runners \cup {NoRunner} /\ mishaps \in 0..Mishaps
    /\ answers \subseteq [key : Keys, request : Requests, id : RunIds]

\* At most one run of all processes is in work under a live lease.
OneLiveRun ==
    \A r, s \in RunIds : backtest[r].status \in Active /\ backtest[r].alive
                         /\ backtest[s].status \in Active /\ backtest[s].alive => r = s

\* A run that succeeded has every formal day once and in order, all of them
\* written by the runner that claimed it.
SuccessIsComplete ==
    \A r \in RunIds : backtest[r].status = "success" =>
        /\ Len(equity[r]) = LastDay
        /\ \A i \in DOMAIN equity[r] : equity[r][i].day = i /\ equity[r][i].by = equity[r][1].by

\* No run is worked on twice: a lost one fails for good.
ClaimedOnce == \A r \in RunIds : backtest[r].generation <= 1

\* What startStandardBacktest answered for a key and a request is the one run
\* of that key, made for that request.
AnswersNameTheirRun ==
    \A a \in answers : backtest[a.id].key = a.key /\ backtest[a.id].request = a.request
                       /\ \A b \in answers : a.key = b.key => a.id = b.id

\* A run that has ended is never touched again, and neither is its ledger:
\* not by a runner that was cancelled, held up or replaced.
RunIsFinal ==
    [][\A r \in RunIds : backtest[r].status \in Ended
         => backtest'[r] = backtest[r] /\ equity'[r] = equity[r]]_backtestVars

\* No run is waiting or in work: this is so again and again, also when runners
\* die.
NoRunIsLeft == \A r \in RunIds : backtest[r].status \in Ended \cup {"absent"}

\* One run is in work at a time and none twice, requests are answered with
\* their own run, a success is complete, and what has ended stays as it is.
BacktestsAreSound ==
    /\ [](OneLiveRun /\ SuccessIsComplete /\ ClaimedOnce /\ AnswersNameTheirRun)
    /\ RunIsFinal

=============================================================================
