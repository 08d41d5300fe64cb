--------------------------- MODULE PlanPublication ---------------------------
(***************************************************************************)
(* How a daily plan and the auction assessments of its opportunities are   *)
(* published: the tools write drafts while a run works, and the            *)
(* transaction that books the run's result activates them and supersedes   *)
(* what was active before.                                                 *)
(*                                                                         *)
(* The tools' transactions are serialised by the agent mutation lock and   *)
(* are single steps.  The booking transaction runs at READ COMMITTED: each *)
(* statement picks its rows from what is committed when it starts, writes  *)
(* them one by one, waits for a row another open transaction has written,  *)
(* and asks its condition again of the row it waited for.                  *)
(***************************************************************************)
EXTENDS Integers, FiniteSets

CONSTANTS
    PlanRuns,       \* runs of daily_plan_flow
    AuctionRuns,    \* runs of auction_opportunity_assessment
    Codes,          \* instrument codes an item of a plan may be about
    Opportunities,  \* those off the pools: the others are positions
    Closable,       \* auction runs whose date may be no trading day
    Scenarios       \* the runs there are, how many lost connections, errors
                    \* and aborts each of them meets, how many crashes all

ASSUME PublicationAssumption ==
    /\ PlanRuns \cap AuctionRuns = {}
    /\ IsFiniteSet(PlanRuns) /\ IsFiniteSet(AuctionRuns)
    /\ Opportunities \subseteq Codes /\ Closable \subseteq AuctionRuns
    /\ \A s \in Scenarios :
         /\ s.runs \subseteq PlanRuns \cup AuctionRuns /\ s.crashes \in Nat
         /\ s.faults \in [PlanRuns \cup AuctionRuns -> Nat]

Runs == PlanRuns \cup AuctionRuns
MaxAttempts == 2

\* A row of daily_plan_playbook: UNIQUE (source_job_run_id, item_kind, code).
Items == PlanRuns \X Codes
\* A row of daily_plan_auction_assessment: UNIQUE (source_job_run_id, item).
Assessments == AuctionRuns \X (PlanRuns \X Opportunities)
Rows == Items \cup Assessments

VARIABLES
    \* what is committed: the rows' status, each run's job_run_output.id
    table, outputOf,
    \* the output id sequence
    nextOutput,
    \* the runs: where each is, its attempt, what its completion gate knows
    step, attempt, required, wrote, ending,
    \* the booking transactions: the id inserted, the rows written, whether
    \* the current statement has started and the rows it still has to write
    newOutput, change, started, target,
    \* auction runs whose target date is no trading day (market_trading_day)
    closed,
    \* what is left of the faults and crashes
    faults, crashes,
    \* history, read by properties only: what a run was last given to write and
    \* by which attempt, pairs of runs whose transactions were open together,
    \* runs booked twice
    lastWrite, met, repeated

run == <<step, attempt, required, wrote, ending>>
transaction == <<newOutput, change, started, target>>
history == <<lastWrite, met, repeated>>
world == <<closed, faults, crashes>>
vars == <<table, outputOf, nextOutput, run, transaction, world, history>>

-----------------------------------------------------------------------------

RowStatus == {"none", "draft", "active", "superseded"}
Booking == {"activate", "supersede", "clear", "judge", "replace", "publish", "commit"}
Steps == Booking \cup {"queued", "started", "working", "settle", "discard", "over"}
NoOutput == 0

Open(t) == step[t] \in Booking

\* What run t's transaction sees of a row.
View(t, x) == IF change[t][x] = "same" THEN table[x] ELSE change[t][x]

WrittenByOther(t, x) == \E u \in Runs \ {t} : change[u][x] # "same"

\* SELECT ... FROM job_run_output ... ORDER BY output.id DESC LIMIT 1
Latest(r) ==
    /\ r \in PlanRuns /\ outputOf[r] # NoOutput
    /\ \A q \in PlanRuns : outputOf[q] <= outputOf[r]

\* latestActiveOpportunityRows
Expected(t) ==
    {i \in PlanRuns \X Opportunities : Latest(i[1]) /\ View(t, i) = "active"}

Drafts(a) == {i \in PlanRuns \X Opportunities : table[<<a, i>>] = "draft"}

\* Mutant: only what is given is compared.
CompleteIfKnown(given, expected) == given \subseteq expected

\* An assessment must cover the current opportunities, no more and no less.
Complete(given, expected) == given = expected

Untouched(t) == change[t] = [x \in Rows |-> "same"]

Rewind(t) ==
    /\ change' = [change EXCEPT ![t] = [x \in Rows |-> "same"]]
    /\ newOutput' = [newOutput EXCEPT ![t] = NoOutput]
    /\ started' = [started EXCEPT ![t] = FALSE]
    /\ target' = [target EXCEPT ![t] = {}]

\* Mutant: the client goes back to the pool with its transaction open.
NoRollback(t) ==
    /\ started' = [started EXCEPT ![t] = FALSE] /\ target' = [target EXCEPT ![t] = {}]
    /\ UNCHANGED <<newOutput, change>>

\* Every failed transaction is rolled back before its client is released.
Rollback(t) == Rewind(t)

Goto(t, s) == step' = [step EXCEPT ![t] = s]
Spend(t) ==
    /\ faults[t] > 0 /\ faults' = [faults EXCEPT ![t] = @ - 1]
    /\ UNCHANGED <<closed, crashes>>

Init ==
    /\ table = [x \in Rows |-> "none"]
    /\ outputOf = [t \in Runs |-> NoOutput] /\ nextOutput = 1
    /\ \E s \in Scenarios :
         /\ step = [t \in Runs |-> IF t \in s.runs THEN "queued" ELSE "over"]
         /\ faults = s.faults /\ crashes = s.crashes
    /\ attempt = [t \in Runs |-> 0]
    /\ required = [t \in Runs |-> FALSE] /\ wrote = [t \in Runs |-> FALSE]
    /\ ending = [t \in Runs |-> "none"]
    /\ newOutput = [t \in Runs |-> NoOutput]
    /\ change = [t \in Runs |-> [x \in Rows |-> "same"]]
    /\ started = [t \in Runs |-> FALSE] /\ target = [t \in Runs |-> {}]
    /\ closed \in SUBSET {t \in Closable : step[t] = "queued"}
    /\ lastWrite = [t \in Runs |-> [by |-> 0, rows |-> {}]] /\ met = {} /\ repeated = {}

-----------------------------------------------------------------------------
(* An attempt: the agent reads its context, writes its drafts, and is let  *)
(* go when the completion gate misses nothing.                             *)

\* DELETE of the run's own draft assessments.
WithoutDrafts(a) ==
    [x \in Rows |-> IF x \in Assessments /\ x[1] = a /\ table[x] = "draft"
                      THEN "none" ELSE table[x]]

\* Mutant: the gate is made once for the run.
SameGate(t) == UNCHANGED <<wrote, required>>

\* Each attempt makes its gate anew, and it knows nothing yet.
NewGate(t) ==
    /\ wrote' = [wrote EXCEPT ![t] = FALSE]
    /\ required' = [required EXCEPT ![t] = FALSE]

(* A repeated auction attempt begins by discarding the drafts of the first *)
(* (a repeated plan attempt does not).                                     *)
BeginAttempt(t) ==
    /\ step[t] = "queued" /\ Goto(t, "started")
    /\ attempt' = [attempt EXCEPT ![t] = @ + 1] /\ NewGate(t)
    /\ table' = IF t \in AuctionRuns /\ attempt[t] > 0 THEN WithoutDrafts(t) ELSE table
    /\ UNCHANGED <<outputOf, nextOutput, ending, transaction, world, history>>

(* daily_plan_context_query and limit_up_signal_query find positions or    *)
(* signals or none; auction_context_query lists the opportunities there    *)
(* are, and says whether the day trades.                                   *)
ReadContext(t) ==
    /\ step[t] = "started" /\ Goto(t, "working")
    /\ \E needed \in BOOLEAN :
         /\ t \in AuctionRuns =>
              needed = (t \notin closed
                        /\ \E i \in PlanRuns \X Opportunities :
                             Latest(i[1]) /\ table[i] = "active")
         /\ required' = [required EXCEPT ![t] = needed]
    /\ UNCHANGED <<table, outputOf, nextOutput, attempt, wrote, ending,
                   transaction, world, history>>

\* The items of a plan run, and the assessments that hang on them.
OfPlan(r) ==
    {i \in Items : i[1] = r} \cup {x \in Assessments : x[2][1] = r}

(* daily_plan_write: replaceDraftPlaybook deletes the run's rows, whatever *)
(* their status, and the assessments that hang on them, and inserts the    *)
(* new ones.  Serializable, it fails on a row another transaction wrote; a  *)
(* statement that has started sees the old rows gone and not the new ones. *)
(* Only an attempt of the run has the tool: toolsForScope takes it, and    *)
(* auction_assessment_write, from every turn that is not a job's own, so   *)
(* that a user's turn of the run's conversation cannot come to             *)
(* associatedRunningJob.                                                   *)
WritePlan(r) ==
    /\ step[r] \in {"started", "working"}
    /\ \A x \in OfPlan(r) : ~WrittenByOther(r, x)
    /\ \E given \in SUBSET Codes \ {{}} :
         /\ table' = [x \in Rows |->
                        IF x \notin OfPlan(r) THEN table[x]
                        ELSE IF x \in Items /\ x[2] \in given THEN "draft" ELSE "none"]
         /\ lastWrite' = [lastWrite EXCEPT
                ![r] = [by |-> attempt[r], rows |-> {r} \X given]]
    /\ target' = [t \in Runs |-> target[t] \ OfPlan(r)]
    /\ wrote' = [wrote EXCEPT ![r] = TRUE]
    /\ repeated' = IF outputOf[r] # NoOutput THEN repeated \cup {r} ELSE repeated
    /\ UNCHANGED <<outputOf, nextOutput, step, attempt, required, ending,
                   newOutput, change, started, world, met>>

(* auction_assessment_write: every opportunity of the latest plan, or      *)
(* nothing; an item this run has already assessed for good is a unique     *)
(* violation.                                                              *)
WriteAssessments(a) ==
    /\ step[a] \in {"started", "working"}
    /\ \E given \in SUBSET (PlanRuns \X Opportunities) :
         /\ given # {} /\ Complete(given, Expected(a))
         /\ \A i \in given : table[<<a, i>>] \in {"none", "draft"}
         /\ table' = [x \in Rows |->
                        IF x \in Assessments /\ x[1] = a
                          THEN IF x[2] \in given THEN "draft" ELSE WithoutDrafts(a)[x]
                          ELSE table[x]]
         /\ lastWrite' = [lastWrite EXCEPT
                ![a] = [by |-> attempt[a], rows |-> {a} \X given]]
    /\ wrote' = [wrote EXCEPT ![a] = TRUE]
    /\ UNCHANGED <<outputOf, nextOutput, step, attempt, required, ending,
                   transaction, world, met, repeated>>

\* createJobCompletionGate: what this attempt must have written, it has.
GateOpen(t) == required[t] => wrote[t]

-----------------------------------------------------------------------------
(* The booking transaction of finishRun.                                   *)

(* The run is marked finished and its output inserted, unless an earlier   *)
(* commit left one.  The gate and what it knew are gone.                   *)
StartBooking(t) ==
    /\ step[t] = "working" /\ GateOpen(t)
    /\ Goto(t, IF t \in PlanRuns THEN "activate" ELSE "judge")
    /\ IF outputOf[t] # NoOutput
         THEN newOutput' = [newOutput EXCEPT ![t] = outputOf[t]] /\ UNCHANGED nextOutput
         ELSE newOutput' = [newOutput EXCEPT ![t] = nextOutput] /\ nextOutput' = nextOutput + 1
    /\ met' = met \cup {{t, u} : u \in {v \in Runs \ {t} : Open(v)}}
    /\ repeated' = IF outputOf[t] # NoOutput THEN repeated \cup {t} ELSE repeated
    /\ wrote' = [wrote EXCEPT ![t] = FALSE]
    /\ UNCHANGED <<table, outputOf, attempt, required, ending, change,
                   started, target, world, lastWrite>>

\* Mutant: the older rows of the same run's earlier output only.
SupersededSameRun(t) == {i \in Items : i[1] = t /\ table[i] = "active"}

\* Active items of every other output: not only of the older ones.
Outdated(t) == {i \in Items : i[1] # t /\ View(t, i) = "active"}

\* The rows a statement finds when it starts.
Found(t) ==
    CASE step[t] = "activate"  -> {i \in Items : i[1] = t /\ View(t, i) = "draft"}
      [] step[t] = "supersede" -> Outdated(t)
      [] step[t] = "clear"     -> {x \in Assessments : View(t, x) = "active"
                                                  /\ View(t, x[2]) = "superseded"}
      [] step[t] = "replace"   -> {x \in Assessments : x[2] \in Drafts(t)
                                                  /\ View(t, x) = "active"}
      [] step[t] = "publish"   -> {x \in Assessments : x[1] = t /\ View(t, x) = "draft"}
      [] OTHER -> {}

\* What its WHERE asks of a row again after a wait, and what it sets.
From(s) == IF s \in {"activate", "publish"} THEN "draft" ELSE "active"
Into(s) == IF s \in {"activate", "publish"} THEN "active" ELSE "superseded"

After(s) ==
    CASE s = "activate" -> "supersede" [] s = "supersede" -> "clear"
      [] s = "clear" -> "commit"       [] s = "replace" -> "publish"
      [] s = "publish" -> "commit"

\* Two activations of an item's assessment exclude each other by the unique
\* index: the second waits for the first, and then fails.
IndexBusy(t, x) ==
    /\ step[t] = "publish"
    /\ \E y \in Assessments : y[2] = x[2] /\ WrittenByOther(t, y)
IndexTaken(t, x) ==
    /\ step[t] = "publish"
    /\ \E y \in Assessments \ {x} : y[2] = x[2] /\ View(t, y) = "active"

StartStatement(t) ==
    /\ step[t] \in {"activate", "supersede", "clear", "replace", "publish"} /\ ~started[t]
    /\ IF Found(t) = {}
         THEN Goto(t, After(step[t])) /\ UNCHANGED <<started, target>>
         ELSE /\ started' = [started EXCEPT ![t] = TRUE]
              /\ target' = [target EXCEPT ![t] = Found(t)]
              /\ UNCHANGED step
    /\ UNCHANGED <<table, outputOf, nextOutput, attempt, required, wrote, ending,
                   newOutput, change, world, history>>

\* Mutant: the helper is given the pool, not the transaction's client.
WriteThrough(t, x, status) ==
    table' = [table EXCEPT ![x] = status] /\ UNCHANGED change

\* A row written by a transaction is seen by others at its commit.
WriteInside(t, x, status) ==
    change' = [change EXCEPT ![t][x] = status] /\ UNCHANGED table

WriteRow(t, x) ==
    /\ started[t] /\ x \in target[t]
    /\ ~WrittenByOther(t, x) /\ ~IndexBusy(t, x) /\ ~IndexTaken(t, x)
    /\ IF View(t, x) = From(step[t])
         THEN WriteInside(t, x, Into(step[t])) ELSE UNCHANGED <<change, table>>
    /\ target' = [target EXCEPT ![t] = @ \ {x}]
    /\ IF target[t] = {x}
         THEN started' = [started EXCEPT ![t] = FALSE] /\ Goto(t, After(step[t]))
         ELSE UNCHANGED <<started, step>>
    /\ UNCHANGED <<outputOf, nextOutput, attempt, required, wrote, ending,
                   newOutput, world, history>>

\* The rows it still had to write have all been deleted.
NothingLeft(t) ==
    /\ started[t] /\ target[t] = {}
    /\ started' = [started EXCEPT ![t] = FALSE] /\ Goto(t, After(step[t]))
    /\ UNCHANGED <<table, outputOf, nextOutput, attempt, required, wrote, ending,
                   newOutput, change, target, world, history>>

\* Mutant: only the number of drafts is compared.
CoversByNumber(a) == Cardinality(Drafts(a)) = Cardinality(Expected(a))

Covers(a) == Complete(Drafts(a), Expected(a))

(* activateAuctionAssessmentsForRun: on a trading day the drafts must be   *)
(* the opportunities of the plan that is the latest now.                   *)
JudgePasses(a) ==
    /\ step[a] = "judge"
    /\ IF a \in closed THEN Drafts(a) = {} ELSE Covers(a)
    /\ Goto(a, IF Drafts(a) = {} THEN "commit" ELSE "replace")
    /\ UNCHANGED <<table, outputOf, nextOutput, attempt, required, wrote, ending,
                   transaction, world, history>>

\* It throws, and so does the unique index: the transaction rolls back.
BookingRefused(t) ==
    /\ \/ /\ step[t] = "judge"
          /\ IF t \in closed THEN Drafts(t) # {} ELSE ~Covers(t)
       \/ /\ started[t]
          /\ \E x \in target[t] : ~WrittenByOther(t, x) /\ ~IndexBusy(t, x) /\ IndexTaken(t, x)
    /\ Rollback(t) /\ Goto(t, "settle")
    /\ UNCHANGED <<table, outputOf, nextOutput, attempt, required, wrote, ending,
                   world, history>>

(* A transaction that waits for one that waits for it is the victim.       *)
Waits(t, u) ==
    /\ started[t] /\ u # t
    /\ \A x \in target[t] : WrittenByOther(t, x) \/ IndexBusy(t, x)
    /\ \E x \in target[t] :
         \/ change[u][x] # "same"
         \/ step[t] = "publish" /\ \E y \in Assessments : y[2] = x[2] /\ change[u][y] # "same"

DeadlockVictim(t) ==
    /\ \E u \in Runs : Waits(t, u) /\ Waits(u, t)
    /\ Rollback(t) /\ Goto(t, "settle")
    /\ UNCHANGED <<table, outputOf, nextOutput, attempt, required, wrote, ending,
                   world, history>>

Committed(t) ==
    /\ table' = [x \in Rows |-> View(t, x)]
    /\ outputOf' = [outputOf EXCEPT ![t] = newOutput[t]]
    /\ Rewind(t)

Commit(t) ==
    /\ step[t] = "commit" /\ Committed(t)
    /\ Goto(t, "over") /\ ending' = [ending EXCEPT ![t] = "success"]
    /\ UNCHANGED <<nextOutput, attempt, required, wrote, world, history>>

-----------------------------------------------------------------------------
(* What goes wrong.                                                        *)

(* The commit is done, its answer lost: the worker settles a failure of a  *)
(* run whose row says success.                                             *)
CommitUnheard(t) ==
    /\ step[t] = "commit" /\ Spend(t) /\ Committed(t)
    /\ Goto(t, "settle") /\ ending' = [ending EXCEPT ![t] = "success"]
    /\ UNCHANGED <<nextOutput, attempt, required, wrote, history>>

(* The agent's turn fails or ends incomplete, or a statement fails.        *)
AttemptFails(t) ==
    /\ step[t] \in {"started", "working"} \cup Booking /\ Spend(t)
    /\ Rollback(t) /\ Goto(t, "settle")
    /\ UNCHANGED <<table, outputOf, nextOutput, attempt, required, wrote, ending, history>>

\* A gate that stays shut fails the attempt as well.
Incomplete(t) ==
    /\ step[t] = "working" /\ ~GateOpen(t)
    /\ Goto(t, "settle")
    /\ UNCHANGED <<table, outputOf, nextOutput, attempt, required, wrote, ending,
                   transaction, world, history>>

\* Mutant: the first attempt is not counted.
RetryLeftOffByOne(t) == attempt[t] <= MaxAttempts

RetryLeft(t) == attempt[t] < MaxAttempts

(* failOrRetry, whatever the row says; of an auction run that failed the   *)
(* drafts are then discarded.                                              *)
Settle(t) ==
    /\ step[t] = "settle"
    /\ IF RetryLeft(t)
         THEN Goto(t, "queued") /\ ending' = [ending EXCEPT ![t] = "none"]
         ELSE /\ Goto(t, IF t \in AuctionRuns THEN "discard" ELSE "over")
              /\ ending' = [ending EXCEPT ![t] = "failed"]
    /\ UNCHANGED <<table, outputOf, nextOutput, attempt, required, wrote,
                   transaction, world, history>>

(* The user aborts the turn: cancelRun.                                    *)
Abort(t) ==
    /\ step[t] \in {"started", "working"} /\ Spend(t)
    /\ Goto(t, IF t \in AuctionRuns THEN "discard" ELSE "over")
    /\ ending' = [ending EXCEPT ![t] = "cancelled"]
    /\ UNCHANGED <<table, outputOf, nextOutput, attempt, required, wrote,
                   transaction, history>>

\* discardDraftAuctionAssessmentsForRun
Discard(a) ==
    /\ step[a] = "discard" /\ Goto(a, "over")
    /\ table' = WithoutDrafts(a)
    /\ UNCHANGED <<outputOf, nextOutput, attempt, required, wrote, ending,
                   transaction, world, history>>

DiscardFails(a) ==
    /\ step[a] = "discard" /\ Spend(a) /\ Goto(a, "over")
    /\ UNCHANGED <<table, outputOf, nextOutput, attempt, required, wrote, ending,
                   transaction, history>>

(* The process dies: open transactions roll back, and start-up counts the  *)
(* runs it finds running as failed attempts, and discards nothing.         *)
Crash ==
    LET lost == {t \in Runs : step[t] \notin {"queued", "over"}}
        dead(t) == ending[t] = "none" /\ ~RetryLeft(t)
    IN  /\ lost # {} /\ crashes > 0 /\ crashes' = crashes - 1
        /\ step' = [t \in Runs |->
              IF t \notin lost THEN step[t]
              ELSE IF ending[t] # "none" \/ dead(t) THEN "over" ELSE "queued"]
        /\ ending' = [t \in Runs |-> IF t \in lost /\ dead(t) THEN "failed" ELSE ending[t]]
        /\ change' = [t \in Runs |-> [x \in Rows |-> "same"]]
        /\ newOutput' = [t \in Runs |-> NoOutput]
        /\ started' = [t \in Runs |-> FALSE] /\ target' = [t \in Runs |-> {}]
        /\ UNCHANGED <<table, outputOf, nextOutput, attempt, required, wrote,
                       closed, faults, history>>

-----------------------------------------------------------------------------

RunStep(t) ==
    \/ BeginAttempt(t) \/ ReadContext(t)
    \/ StartBooking(t) \/ StartStatement(t) \/ NothingLeft(t)
    \/ \E x \in Rows : WriteRow(t, x)
    \/ BookingRefused(t) \/ DeadlockVictim(t) \/ Commit(t)
    \/ Incomplete(t) \/ Settle(t)
    \/ t \in AuctionRuns /\ (JudgePasses(t) \/ Discard(t))

Next ==
    \/ \E t \in Runs : RunStep(t) \/ CommitUnheard(t) \/ AttemptFails(t) \/ Abort(t)
    \/ \E r \in PlanRuns : WritePlan(r)
    \/ \E a \in AuctionRuns : WriteAssessments(a) \/ DiscardFails(a)
    \/ Crash

Spec == Init /\ [][Next]_vars

\* Queries end and workers go on; drafts are written by an agent that may
\* also give up, and is owed nothing.
FairSpec == Spec /\ \A t \in Runs : WF_vars(RunStep(t))

-----------------------------------------------------------------------------
(* Properties.                                                             *)

\* Every variable keeps its type.
TypeOK ==
    /\ table \in [Rows -> RowStatus]
    /\ outputOf \in [Runs -> Nat] /\ nextOutput \in Nat \ {0} /\ newOutput \in [Runs -> Nat]
    /\ step \in [Runs -> Steps] /\ attempt \in [Runs -> 0..MaxAttempts]
    /\ required \in [Runs -> BOOLEAN] /\ wrote \in [Runs -> BOOLEAN]
    /\ ending \in [Runs -> {"none", "success", "failed", "cancelled"}]
    /\ change \in [Runs -> [Rows -> RowStatus \cup {"same"}]]
    /\ started \in [Runs -> BOOLEAN] /\ target \in [Runs -> SUBSET Rows]
    /\ faults \in [Runs -> Nat] /\ crashes \in Nat
    /\ closed \subseteq Closable
    /\ lastWrite \in [Runs -> [by : 0..MaxAttempts, rows : SUBSET Rows]]
    /\ met \subseteq SUBSET Runs /\ repeated \subseteq Runs

\* Only booked runs are seen: no retry, rollback, crash or abort leaves a row
\* of a run without a committed output on the board.
OnlyBookedIsShown ==
    /\ \A i \in Items : table[i] \in {"active", "superseded"} => outputOf[i[1]] # NoOutput
    /\ \A x \in Assessments : table[x] \in {"active", "superseded"} => outputOf[x[1]] # NoOutput

\* The board has the latest plan: what is active belongs to the output with the
\* highest id, all of that output's items are active -- if plan transactions
\* did not overlap and no run was booked twice.
BoardIsLatest ==
    (repeated = {} /\ \A pair \in met : ~(pair \subseteq PlanRuns)) =>
        \A i \in Items :
            /\ table[i] = "active" => Latest(i[1])
            /\ Latest(i[1]) => table[i] # "superseded"

\* An item is assessed by one active assessment at most, and the opportunities
\* of a plan are assessed all or none.
AssessedAllOrNone ==
    LET assessed(i) == {x \in Assessments : x[2] = i /\ table[x] = "active"}
    IN  \A i, j \in PlanRuns \X Opportunities :
            /\ Cardinality(assessed(i)) <= 1
            /\ i[1] = j[1] /\ table[i] = "active" /\ table[j] = "active" /\ assessed(i) # {}
                 => assessed(j) # {}

\* An active assessment is about an item that is active itself, unless a plan
\* was booked while the assessment was.
AssessmentsFollowPlan ==
    \A x \in Assessments : table[x] = "active" =>
        \/ table[x[2]] = "active"
        \/ \E r \in PlanRuns : {x[1], r} \in met

\* The rows of run t that are or were on the board.
Published(t) == {x \in Rows : x[1] = t /\ table[x] \in {"active", "superseded"}}

\* A successful run shows exactly its last write: never rows of two writes or
\* of two attempts side by side, never a part.  The write is its last
\* attempt's if that attempt had to write; a plan's may be of the attempt
\* before (its drafts are never discarded), an auction's may not.  A repeated
\* booking deletes assessments or leaves them to stand beside new ones.
ShownIsLastWrite ==
    \A t \in Runs : ending[t] = "success" =>
        LET own == lastWrite[t].by = attempt[t]
        IN  /\ required[t] => own
            /\ t \in PlanRuns => Published(t) = lastWrite[t].rows
            /\ t \in AuctionRuns /\ repeated = {} =>
                 Published(t) = IF own THEN lastWrite[t].rows ELSE {}

\* Every run ends: waits for each other's rows are resolved, a failed attempt
\* lets go of what it locked, and attempts run out.
RunsEnd == \A t \in Runs : <>(step[t] = "over")

\* "Older active rows become superseded, the board shows only the newest":
\* said without the exception of BoardIsLatest.
OlderIsSuperseded ==
    (\A t \in Runs : ~Open(t)) => \A i \in Items :
        /\ table[i] = "active" => Latest(i[1])
        /\ Latest(i[1]) => table[i] # "superseded"

=============================================================================
