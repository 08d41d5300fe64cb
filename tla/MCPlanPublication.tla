-------------------------- MODULE MCPlanPublication --------------------------
(* Small instances of PlanPublication for TLC.                             *)
EXTENDS PlanPublication, TLC

CONSTANTS p1, p2, a1, a2, c1, c2

TwoPlans == {p1, p2}
OnePlan == {p1}
OneAuction == {a1}
TwoAuctions == {a1, a2}
TwoCodes == {c1, c2}
OneCode == {c1}
Nothing == {}
Plans == Permutations(TwoPlans)

\* Which runs there are, and what each plan run, each auction run and the
\* process meet.
Scenario(rs, ofPlan, ofAuction, lost) ==
    [runs |-> rs, crashes |-> lost,
     faults |-> [t \in Runs |-> IF t \in PlanRuns THEN ofPlan ELSE ofAuction]]
Undisturbed == {Scenario(Runs, 0, 0, 0)}
\* Two auction bookings of one plan; a plan of two codes that fails or dies;
\* one assessed by a run that fails or is booked twice.
OverTwoCodes ==
    {Scenario(Runs, 0, 0, 0), Scenario({p1}, 1, 0, 1), Scenario({p1, a1}, 0, 1, 0)}
\* Two plans, each with a fault, and a crash; two plans and an auction run
\* with a fault.
Disturbed == {Scenario(TwoPlans, 1, 0, 1), Scenario(Runs, 0, 1, 0)}
=============================================================================
