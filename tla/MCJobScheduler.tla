--------------------------- MODULE MCJobScheduler ---------------------------
(* Small instances of JobScheduler for TLC.                                *)
EXTENDS JobScheduler, TLC

CONSTANTS w1, w2

MCWorkers == {w1, w2}
Slots == Permutations(MCWorkers)

\* One conversation job and one market job.
MixedJobs == {1, 2}
MixedTypes == (1 :> {"agent_flow"}) @@ (2 :> {"datasource"})

NoBudget == [k \in BudgetKinds |-> 0]

\* A conversation and a market job, each due once; or an analysis due twice,
\* once more than a scan accepts; with a stop or crash.
LiveJobs == {1, 2, 3}
LiveTypes == (1 :> {"agent_flow"}) @@ (2 :> {"datasource"}) @@ (3 :> {"analysis"})
LiveCron == (1 :> {1}) @@ (2 :> {3}) @@ (3 :> {1, 2})
StopOnce == {[NoBudget EXCEPT !["stop"] = 1]}
LiveInit == Init /\ enabled[3] = (~enabled[1] /\ ~enabled[2])
LiveSpec == LiveInit /\ [][Next]_vars /\ Fairness

\* Scenarios: the two jobs of above, each queued by the clock, with a stop or
\* crash or a database fault; and the first job alone: a conversation with a
\* stop and a fault, a conversation started by hand with a stop, a conversation
\* or a market job queued by the clock and once more by hand, an analysis that
\* is edited or paused in its course.
LifeTypes == (1 :> {"agent_flow", "datasource", "analysis"}) @@ (2 :> {"datasource"})
LifeCron == (1 :> {1}) @@ (2 :> {1})
Budget(kinds) == [k \in BudgetKinds |-> IF k \in kinds THEN 1 ELSE 0]
TwoJobBudgets == {Budget({"stop"}), Budget({"fault"})}
LifeBudgets == TwoJobBudgets \cup
    {Budget({"stop", "fault"}), Budget({"stop", "manual"}), Budget({"manual"}), Budget({"edit"}), Budget({"pause"})}
LifeInit ==
    /\ Init
    /\ enabled[1] = (left # Budget({"stop", "manual"}))
    /\ enabled[2] => left \in TwoJobBudgets
    /\ jobType[1] \in CASE left["stop"] = 1 \/ left["fault"] = 1 -> {"agent_flow"}
                        [] left["manual"] = 1 -> {"agent_flow", "datasource"}
                        [] OTHER -> {"analysis"}
LifeSpec == LifeInit /\ [][Next]_vars

\* Two market jobs: one occurrence, one started by hand.
MarketJobs == {1, 2}
MarketTypes == [j \in MarketJobs |-> {"datasource"}]
MarketCron == (1 :> {1}) @@ (2 :> {})
MarketBudget == {[NoBudget EXCEPT !["manual"] = 1, !["stop"] = 1]}

\* Two occurrences of one job, through a failing scan and a stop, a failing
\* scan and an edit, or a pause.
ScanJobs == {1}
ScanTypes == [j \in ScanJobs |-> {"analysis"}]
ScanCron == (1 :> {1, 2})
ScanBudget == {Budget({"stop", "fault"}), Budget({"fault", "edit"}), Budget({"pause"})}
EditBudget == {[NoBudget EXCEPT !["edit"] = 1, !["stop"] = 1]}

=============================================================================
