--------------------------- MODULE JobRunLifecycle ---------------------------
(***************************************************************************)
(* What the scheduler promises about a job_run row, whoever touches it:    *)
(* a row is queued or recorded as missed, is tried at most twice, and      *)
(* ends once; a result comes with success.  The one thing that may rewrite *)
(* an end is a worker whose commit went through without it knowing.        *)
(***************************************************************************)
EXTENDS Naturals

CONSTANT Rows
VARIABLES state, tries, results, doubted

vars == <<state, tries, results, doubted>>
MaxTries == 2

Set(r, s) == state' = [state EXCEPT ![r] = s]

Init ==
    /\ state = [r \in Rows |-> "absent"]
    /\ tries = [r \in Rows |-> 0]
    /\ results = [r \in Rows |-> 0]
    /\ doubted = {}

Record(r) ==
    /\ state[r] = "absent" /\ (Set(r, "queued") \/ Set(r, "missed"))
    /\ UNCHANGED <<tries, results, doubted>>

Try(r) ==
    /\ state[r] = "queued" /\ tries[r] < MaxTries /\ Set(r, "running")
    /\ tries' = [tries EXCEPT ![r] = @ + 1]
    /\ UNCHANGED <<results, doubted>>

Succeed(r) ==
    /\ state[r] = "running"
    /\ \/ Set(r, "partial") /\ UNCHANGED results
       \/ Set(r, "success") /\ UNCHANGED results
       \/ Set(r, "success") /\ results' = [results EXCEPT ![r] = 1]
    /\ doubted' \in {doubted, doubted \cup {r}}
    /\ UNCHANGED tries

\* A try that failed: another one if there is one left and it may help.
GiveUp(r) ==
    /\ \/ state[r] = "running"
       \/ r \in doubted /\ state[r] \in {"success", "partial"}
    /\ \/ tries[r] < MaxTries /\ Set(r, "queued")
       \/ Set(r, "failed")
       \/ state[r] = "running" /\ Set(r, "cancelled")
    /\ UNCHANGED <<tries, results, doubted>>

Next == \E r \in Rows : Record(r) \/ Try(r) \/ Succeed(r) \/ GiveUp(r)

Spec == Init /\ [][Next]_vars

=============================================================================
