-------------------------- MODULE MCBacktestEngine --------------------------
(* Small instances of BacktestEngine for TLC.                              *)
EXTENDS BacktestEngine

\* A code that falls with little volume, rises from its limit or does not
\* trade, and one that stays as it is.
Bar(open, close, capacity) == [open |-> open, close |-> close, capacity |-> capacity]
Bars == <<{Suspended, Bar("limit_down", 100, 9), Bar("last", 85, 3)}, {Bar("last", 100, 9)}>>

=============================================================================
