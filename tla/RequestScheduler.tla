-------------------------- MODULE RequestScheduler --------------------------
(***************************************************************************)
(* The one queue in front of the data provider: HithinkRequestScheduler    *)
(* (datasource/request-scheduler.ts) lets one request run at a time, a     *)
(* pause apart, by three priorities; its callers repeat requests that met  *)
(* the provider's limit (datasource/ratelimit.ts).  Callers ask again and  *)
(* again, and may abort whatever they asked for.                           *)
(*                                                                         *)
(* Every loop of pump() is a pump of its own here, so that it matters      *)
(* whether a second one can start.  Between an answer and the choice of    *)
(* the next request nothing else runs.                                     *)
(***************************************************************************)
EXTENDS Integers, Sequences, FiniteSets, SequencesExt

CONSTANTS
    Interactive, Medium, Low,   \* callers, by the priority they ask with
    Pumps,          \* loops of pump()
    BurstLimit,     \* 5: as many high requests may pass a waiting low one
    MaxRetries      \* retries of withBackoff

ASSUME RequestAssumption ==
    /\ Interactive \cap Medium = {} /\ Interactive \cap Low = {} /\ Medium \cap Low = {}
    /\ Pumps # {} /\ BurstLimit \in Nat \ {0} /\ MaxRetries \in Nat

Callers == Interactive \cup Medium \cup Low
Priority(c) == IF c \in Interactive THEN "interactive"
               ELSE IF c \in Medium THEN "scheduled-medium" ELSE "scheduled-low"
Priorities == <<"interactive", "scheduled-medium", "scheduled-low">>
Levels == {"interactive", "scheduled-medium", "scheduled-low"}

VARIABLES
    queues,         \* waiting callers of every priority
    running,        \* the flag that keeps a second pump out
    pump,           \* a loop: step and the caller it has taken
    rested,         \* the pause since the last release is over
    burst,          \* highPriorityBurst, up to BurstLimit
    caller,         \* a caller: status, attempt, aborted
    passed          \* history: requests chosen since a low one waits first

requestVars == <<queues, running, pump, rested, burst, caller, passed>>

NoCaller == "none"
NotAsking == [status |-> "idle", attempt |-> 0, aborted |-> FALSE]
PumpOff == [step |-> "off", item |-> NoCaller]

RequestInit ==
    /\ queues = [p \in Levels |-> <<>>]
    /\ running = FALSE /\ pump = [i \in Pumps |-> PumpOff]
    /\ rested = TRUE /\ burst = 0
    /\ caller = [c \in Callers |-> NotAsking] /\ passed = 0

-----------------------------------------------------------------------------
(* next().                                                                 *)

Waiting == {p \in Levels : queues[p] # <<>>}

\* Mutant: the low queue has no turn of its own.
LowsTurnNever == FALSE

LowsTurn == burst >= BurstLimit /\ "scheduled-low" \in Waiting

NextPriority ==
    IF LowsTurn THEN "scheduled-low"
    ELSE Priorities[CHOOSE i \in 1..3 : Priorities[i] \in Waiting /\ \A j \in 1..(i - 1) : Priorities[j] \notin Waiting]

\* highPriorityBurst after a choice.
BurstAfter(p) == IF p = "scheduled-low" THEN 0 ELSE IF burst < BurstLimit THEN burst + 1 ELSE burst

\* The pump chooses a request, and with it whether to sleep, or ends.
ChoosesNext(i, answered) ==
    LET item == Head(queues[NextPriority])
        lowWaits == "scheduled-low" \in Waiting
    IN  IF Waiting = {}
          THEN /\ pump' = [pump EXCEPT ![i] = PumpOff] /\ running' = FALSE
               /\ caller' = answered /\ UNCHANGED <<queues, burst, passed>>
          ELSE /\ queues' = [queues EXCEPT ![NextPriority] = Tail(@)]
               /\ burst' = BurstAfter(NextPriority)
               /\ pump' = [pump EXCEPT ![i] = [step |-> IF rested THEN "ready" ELSE "sleep", item |-> item]]
               /\ caller' = [answered EXCEPT ![item].status = "taken"]
               /\ passed' = IF lowWaits /\ NextPriority # "scheduled-low" THEN passed + 1 ELSE 0
               /\ UNCHANGED running

-----------------------------------------------------------------------------
(* Callers.                                                                *)

Enters(c) ==
    /\ queues' = [queues EXCEPT ![Priority(c)] = Append(@, c)]
    /\ UNCHANGED <<running, pump, rested, burst, passed>>

\* schedule(); the pump is called at once and starts with StartPump.
Ask(c) ==
    /\ caller[c].status = "idle"
    /\ caller' = [caller EXCEPT ![c] = [NotAsking EXCEPT !.status = "queued"]]
    /\ Enters(c)

\* withBackoff: the wait is over, the request is scheduled anew.
AskAgain(c) ==
    /\ caller[c].status = "backoff"
    /\ caller' = [caller EXCEPT ![c].status = "queued", ![c].attempt = @ + 1]
    /\ Enters(c)

\* indexOf and splice.
Left(q, c) == IF c \in Range(q) THEN RemoveAt(q, CHOOSE i \in DOMAIN q : q[i] = c) ELSE q

\* onAbort takes a waiting request out of its queue.
AbortWaiting(c) ==
    /\ caller[c].status \in {"queued", "backoff"}
    /\ queues' = [queues EXCEPT ![Priority(c)] = Left(@, c)]
    /\ caller' = [caller EXCEPT ![c] = NotAsking]
    /\ passed' = IF queues'["scheduled-low"] = <<>> THEN 0 ELSE passed
    /\ UNCHANGED <<running, pump, rested, burst>>

\* The promise is rejected; the pump still has the request.
AbortTaken(c) ==
    /\ caller[c].status = "taken" /\ ~caller[c].aborted
    /\ caller' = [caller EXCEPT ![c].aborted = TRUE]
    /\ UNCHANGED <<queues, running, pump, rested, burst, passed>>

-----------------------------------------------------------------------------
(* pump().                                                                 *)

\* Mutant: the flag is not looked at.
MayStartAnyhow == TRUE

MayStart == ~running

\* schedule(), or the end of a pump, calls pump() while requests wait.
StartPump(i) ==
    /\ pump[i].step = "off" /\ MayStart /\ Waiting # {}
    /\ queues' = [queues EXCEPT ![NextPriority] = Tail(@)]
    /\ burst' = BurstAfter(NextPriority)
    /\ pump' = [pump EXCEPT ![i] = [step |-> IF rested THEN "ready" ELSE "sleep", item |-> Head(queues[NextPriority])]]
    /\ caller' = [caller EXCEPT ![Head(queues[NextPriority])].status = "taken"]
    /\ passed' = IF "scheduled-low" \in Waiting /\ NextPriority # "scheduled-low" THEN passed + 1 ELSE 0
    /\ running' = TRUE
    /\ UNCHANGED rested

\* minIntervalMs go by: whoever slept for them wakes.
PauseEnds ==
    /\ ~rested /\ rested' = TRUE
    /\ pump' = [i \in Pumps |-> IF pump[i].step = "sleep" THEN [pump[i] EXCEPT !.step = "ready"] ELSE pump[i]]
    /\ UNCHANGED <<queues, running, burst, caller, passed>>

\* lastRelease is set and the operation is called.
Release(i) ==
    /\ pump[i].step = "ready" /\ ~caller[pump[i].item].aborted
    /\ pump' = [pump EXCEPT ![i].step = "operate"] /\ rested' = FALSE
    /\ UNCHANGED <<queues, running, burst, caller, passed>>

\* throwIfAborted, or the sleep is broken off: on to the next request.
DropAborted(i) ==
    /\ pump[i].step \in {"sleep", "ready"} /\ caller[pump[i].item].aborted
    /\ ChoosesNext(i, [caller EXCEPT ![pump[i].item] = NotAsking])
    /\ UNCHANGED rested

\* Mutant: the retries are not counted.
MayRetryAlways(c) == TRUE

MayRetry(c) == caller[c].attempt < MaxRetries

\* The operation ends: with an answer, an error or the provider's limit.
OperationEnds(i) ==
    LET c == pump[i].item IN
    /\ pump[i].step = "operate"
    /\ \E limited \in BOOLEAN :
          ChoosesNext(i, [caller EXCEPT ![c] =
              IF limited /\ MayRetry(c) /\ ~caller[c].aborted THEN [@ EXCEPT !.status = "backoff"] ELSE NotAsking])
    /\ UNCHANGED rested

PumpStep(i) == StartPump(i) \/ Release(i) \/ DropAborted(i) \/ OperationEnds(i)

RequestNext ==
    \/ \E c \in Callers : Ask(c) \/ AskAgain(c) \/ AbortWaiting(c) \/ AbortTaken(c)
    \/ \E i \in Pumps : PumpStep(i)
    \/ PauseEnds

RequestSpec == RequestInit /\ [][RequestNext]_requestVars

\* The event loop and the timers run; operations end by their own timeout.
RequestFairness ==
    /\ \A i \in Pumps : WF_requestVars(PumpStep(i))
    /\ WF_requestVars(PauseEnds)
    /\ \A c \in Callers : WF_requestVars(AskAgain(c))

RequestFairSpec == RequestSpec /\ RequestFairness

-----------------------------------------------------------------------------
(* Properties.                                                             *)

\* Every variable keeps its type.
RequestTypeOK ==
    /\ queues \in [Levels -> Seq(Callers)] /\ running \in BOOLEAN /\ rested \in BOOLEAN
    /\ pump \in [Pumps -> [step : {"off", "sleep", "ready", "operate"}, item : Callers \cup {NoCaller}]]
    /\ burst \in 0..BurstLimit /\ passed \in Nat
    /\ caller \in [Callers -> [status : {"idle", "queued", "taken", "backoff"}, attempt : 0..MaxRetries, aborted : BOOLEAN]]

\* One request is with the provider at a time, and no caller is in a queue
\* and with a pump.
OneRequestAtATime ==
    /\ \A i, j \in Pumps : pump[i].step # "off" /\ pump[j].step # "off" => i = j
    /\ \A c \in Callers : caller[c].status = "queued" <=> \E p \in DOMAIN queues : c \in Range(queues[p])

\* Releases are a pause apart, though a pump does not look at the clock again
\* when it wakes.
ReleasesAreSpaced ==
    [][(\E i \in Pumps : pump[i].step # "operate" /\ pump'[i].step = "operate") => rested]_requestVars

\* No more than BurstLimit requests pass a low one that waits.
BurstIsBounded == passed <= BurstLimit

\* A low request is taken up, however many others keep coming.
LowIsTaken ==
    \A c \in Low : caller[c].status = "queued" ~> caller[c].status # "queued"

\* The provider sees one request at a time, a pause apart, and a waiting
\* low one is passed by no more than BurstLimit others.
RequestsArePaced == [](OneRequestAtATime /\ BurstIsBounded) /\ ReleasesAreSpaced

=============================================================================
