------------------------------ MODULE MCWorkers ------------------------------
(* Workers beside the scheduler, on small instances.  Notifications,       *)
(* backtests and indicators share no state: in one behaviour one of them   *)
(* moves and the others stay at their Init.                                *)
EXTENDS NotificationDelivery, BacktestRuns, IndicatorQueue, TLC

CONSTANTS n1, n2, b1, b2

VARIABLE moving     \* the component that moves

TwoWorkers == {n1, n2}
TwoRunners == {b1, b2}

WorkersInit ==
    /\ moving \in {"notification", "backtest", "indicator"}
    /\ Init /\ BacktestInit /\ IndicatorInit

WorkersVars == <<moving, vars, backtestVars, indicatorVars>>

\* (Names of keys and requests do not matter: the first ones are these.)
FirstNames == answers' # {} => \E a \in answers' : a.key = "key" /\ a.request = "request"

WorkersNext ==
    /\ UNCHANGED moving
    /\ \/ moving = "notification" /\ Next /\ UNCHANGED <<backtestVars, indicatorVars>>
       \/ moving = "backtest" /\ BacktestNext /\ FirstNames /\ UNCHANGED <<vars, indicatorVars>>
       \/ moving = "indicator" /\ IndicatorNext /\ UNCHANGED <<vars, backtestVars>>

\* The fairness of each component, while it is the one that moves.
WorkersSpec ==
    /\ WorkersInit /\ [][WorkersNext]_WorkersVars
    /\ \A w \in Workers : WF_vars(moving = "notification" /\ Round(w))
    /\ \A d \in Deliveries : /\ WF_vars(moving = "notification" /\ Clock(d))
                             /\ WF_vars(moving = "notification" /\ CommitDelivery(d))
    /\ \A w \in Runners : WF_backtestVars(moving = "backtest" /\ RunnerStep(w))
    /\ \A r \in RunIds : WF_backtestVars(moving = "backtest" /\ LeaseLapses(r) /\ \A w \in Runners : runner[w].id # r)
    /\ \A c \in Computers : WF_indicatorVars(moving = "indicator" /\ ComputerStep(c))

-----------------------------------------------------------------------------
(* What the components promise together.                                   *)

\* Every variable of the three keeps its type; no row of a notification is
\* tried more often than three times.
WorkersTypeOK == TypeOK /\ BacktestTypeOK /\ IndicatorTypeOK

\* Deliveries are settled, backtests end and marks are worked off.
WorkGetsDone == []<>(NoDeliveryIsLeft /\ NoRunIsLeft /\ NoMarkIsLeft)

=============================================================================
