------------------------------ MODULE MCRecords ------------------------------
(* Records that must add up, on small instances: the occurrences of a job  *)
(* through failing scans and stops, the evolutions of the strategy, the    *)
(* events of a holding, the days of a backtest, the events of a            *)
(* conversation, the pools.  They share no state: in one behaviour one of  *)
(* them moves and the others stay at one of their initial states.          *)
EXTENDS MCJobScheduler, StrategyPublishing, PositionsLedger, MCBacktestEngine, EventStream,
        PoolMembership

CONSTANTS s1, s2, g1, g2, f1, f2

VARIABLE moving     \* the component that moves

TwoSessions == {s1, s2}
TwoPages == {g1, g2}
TwoFlows == {f1, f2}
Names == Permutations(TwoSessions) \cup Permutations(TwoPages) \cup Permutations(TwoFlows)

\* Two days, their prices: averages that do and do not divide.
TwoDays == {<<1, 100>>, <<2, 103>>}

SchedulerAtRest == enabled[1] /\ left["edit"] = 1

RecordsInit ==
    /\ moving \in {"schedule", "strategy", "position", "backtest", "events", "pools"}
    /\ Init /\ PublishingInit /\ LedgerInit /\ EngineInit /\ StreamInit /\ PoolInit
    /\ moving # "schedule" => SchedulerAtRest
    /\ attention = "plan"
    /\ moving # "backtest" => kernel = "simple" /\ circuit = "none"
    /\ moving # "events" => drawn = 0

RecordsVars ==
    <<moving, vars, publishingVars, ledgerVars, engineVars, streamVars, poolVars>>

RecordsNext ==
    /\ UNCHANGED moving
    /\ \/ /\ moving = "schedule" /\ Next
          /\ UNCHANGED <<publishingVars, ledgerVars, engineVars, streamVars, poolVars>>
       \/ /\ moving = "strategy" /\ PublishingNext
          /\ UNCHANGED <<vars, ledgerVars, engineVars, streamVars, poolVars>>
       \/ /\ moving = "position" /\ LedgerNext
          /\ UNCHANGED <<vars, publishingVars, engineVars, streamVars, poolVars>>
       \/ /\ moving = "backtest" /\ EngineNext
          /\ UNCHANGED <<vars, publishingVars, ledgerVars, streamVars, poolVars>>
       \/ /\ moving = "events" /\ StreamNext
          /\ UNCHANGED <<vars, publishingVars, ledgerVars, engineVars, poolVars>>
       \/ /\ moving = "pools" /\ PoolNext
          /\ UNCHANGED <<vars, publishingVars, ledgerVars, engineVars, streamVars>>

RecordsSpec == RecordsInit /\ [][RecordsNext]_RecordsVars

-----------------------------------------------------------------------------
(* What the components promise together.                                   *)

\* Every variable of the strategy, the ledger, the backtest and the stream
\* keeps its type.
RecordsTypeOK == PublishingTypeOK /\ LedgerTypeOK /\ EngineTypeOK /\ StreamTypeOK

=============================================================================
