------------------------ MODULE NotificationDelivery ------------------------
(***************************************************************************)
(* Notifications to a Feishu group robot.  A delivery is enqueued with the *)
(* result of a job, or as a test of the connection; a worker claims one    *)
(* row at a time with a lease, sends it, and settles it if the row is      *)
(* still the one it claimed.  Every statement is one step: the settings,   *)
(* the results and the row may change between any two.                     *)
(***************************************************************************)
EXTENDS Integers, FiniteSets

CONSTANTS
    Deliveries,     \* notifications; one for a result has the output's id
    Quiet,          \* outputs without a conclusion worth sending
    Workers,        \* notification workers (one a process)
    Acts,           \* bound on changes of the settings and resends by hand
    Faults          \* bound on crashes, failed queries and lost answers

ASSUME DeliveryAssumption ==
    /\ Deliveries \subseteq Nat \ {0} /\ IsFiniteSet(Deliveries)
    /\ Quiet \subseteq Nat /\ Quiet \cap Deliveries = {}
    /\ Acts \in Nat /\ Faults \in Nat

\* Outputs of one job for one target date.
Outputs == Deliveries \cup Quiet
MaxTries == 3

VARIABLES
    \* notification_setting: the switch and the chosen jobs, whether there is
    \* a webhook with its secret, and their revision
    enabled, configured, revision,
    \* job_run_output: what is committed
    outputs,
    \* notification_delivery; absent, or being inserted, when not yet there
    status, channel, attempts, due, leased, old,
    \* a worker: where it is in deliverNextNotification, the row it claimed,
    \* the attempt and the webhook it read with it, the answer it got
    at, item, attempt, webhook, answer,
    \* what is left of the bounds
    acts, faults,
    \* history, read by properties only: acceptances by the group (two stand
    \* for more), rows with a doubt, last claimer, resent rows
    accepted, doubted, claimer, resent

settings == <<enabled, configured, revision>>
row == <<status, channel, attempts, due, leased, old>>
worker == <<at, item, attempt, webhook, answer>>
bounds == <<acts, faults>>
history == <<accepted, doubted, claimer, resent>>
vars == <<settings, outputs, row, worker, bounds, history>>

-----------------------------------------------------------------------------

Status == {"absent", "booking", "testing", "pending", "sending", "sent", "failed", "cancelled"}
Nobody == "nobody"
NoItem == 0

Init ==
    /\ enabled = TRUE /\ configured = TRUE /\ revision = 1 /\ outputs = {}
    /\ status = [d \in Deliveries |-> "absent"]
    /\ channel = [d \in Deliveries |-> 0] /\ attempts = [d \in Deliveries |-> 0]
    /\ due = [d \in Deliveries |-> FALSE] /\ leased = [d \in Deliveries |-> FALSE]
    /\ old = [d \in Deliveries |-> FALSE]
    /\ at = [w \in Workers |-> "idle"] /\ item = [w \in Workers |-> NoItem]
    /\ attempt = [w \in Workers |-> 0] /\ webhook = [w \in Workers |-> 0]
    /\ answer = [w \in Workers |-> "none"]
    /\ acts = Acts /\ faults = Faults
    /\ accepted = [d \in Deliveries |-> 0] /\ doubted = {}
    /\ claimer = [d \in Deliveries |-> Nobody] /\ resent = {}

\* kind = 'test': a row without an output.
IsTest(d) == d \notin outputs

\* SUBSCRIBED
Subscribed(d) == IsTest(d) \/ enabled

\* SUPERSEDED
Superseded(d) == ~IsTest(d) /\ \E newer \in outputs : newer > d

Fault == faults > 0 /\ faults' = faults - 1 /\ UNCHANGED acts

-----------------------------------------------------------------------------
(* Enqueueing.                                                             *)

Inserted(d, by) ==
    /\ status' = [status EXCEPT ![d] = by]
    /\ channel' = [channel EXCEPT ![d] = revision]
    /\ UNCHANGED <<attempts, due, leased, old>>

(* enqueueJobConclusion, inside the booking transaction of the run: the    *)
(* settings are read FOR SHARE and stay locked until it ends.              *)
EnqueueResult(r) ==
    /\ status[r] = "absent" /\ r \notin outputs /\ enabled
    /\ Inserted(r, "booking")
    /\ UNCHANGED <<settings, outputs, worker, bounds, history>>

(* A result that is not to be sent: no conclusion, not subscribed.         *)
BookSilently(r) ==
    /\ r \notin outputs /\ outputs' = outputs \cup {r}
    /\ r \in Deliveries => ~enabled /\ status[r] = "absent"
    /\ UNCHANGED <<settings, row, worker, bounds, history>>

(* queueTestNotification reads the settings without a lock.                *)
QueueTest(d) ==
    /\ status[d] = "absent" /\ d \notin outputs /\ configured /\ Inserted(d, "testing")
    /\ UNCHANGED <<settings, outputs, worker, bounds, history>>

CommitDelivery(d) ==
    /\ status[d] \in {"booking", "testing"}
    /\ status' = [status EXCEPT ![d] = "pending"] /\ due' = [due EXCEPT ![d] = TRUE]
    /\ outputs' = IF status[d] = "booking" THEN outputs \cup {d} ELSE outputs
    /\ UNCHANGED <<settings, channel, attempts, leased, old, worker, bounds, history>>

(* The booking rolls back, with its output and the row.                    *)
RollBackDelivery(d) ==
    /\ status[d] \in {"booking", "testing"} /\ Fault
    /\ status' = [status EXCEPT ![d] = "absent"] /\ channel' = [channel EXCEPT ![d] = 0]
    /\ UNCHANGED <<settings, outputs, attempts, due, leased, old, worker, history>>

-----------------------------------------------------------------------------
(* Settings, and resending by hand.                                        *)

\* Mutant: the settings are read without FOR SHARE.
SettingsFreeAlways == TRUE

\* SELECT ... FOR UPDATE waits for every open booking that has read them.
SettingsFree == \A r \in Deliveries : status[r] # "booking"

(* updateNotificationSettings: other credentials make a new revision and   *)
(* cancel what waits for the old one; a send under way goes on.            *)
UpdateSettings ==
    /\ acts > 0 /\ acts' = acts - 1 /\ SettingsFree
    /\ \E on, set, changed \in BOOLEAN :
         /\ on => set
         /\ set # configured => changed
         /\ changed => set \/ configured
         /\ enabled' = on /\ configured' = set
         /\ revision' = IF changed THEN revision + 1 ELSE revision
         /\ status' = IF changed
                        THEN [d \in Deliveries |->
                                IF status[d] \in {"pending", "failed"} THEN "cancelled" ELSE status[d]]
                        ELSE status
    /\ UNCHANGED <<outputs, channel, attempts, due, leased, old, worker,
                   faults, history>>

(* retryNotification starts the count of attempts again.                   *)
Resend(d) ==
    /\ acts > 0 /\ acts' = acts - 1
    /\ status[d] = "failed" /\ channel[d] = revision /\ configured
    /\ Subscribed(d) /\ ~old[d] /\ ~Superseded(d)
    /\ status' = [status EXCEPT ![d] = "pending"] /\ attempts' = [attempts EXCEPT ![d] = 0]
    /\ due' = [due EXCEPT ![d] = TRUE] /\ leased' = [leased EXCEPT ![d] = FALSE]
    /\ resent' = resent \cup {d}
    /\ UNCHANGED <<settings, outputs, channel, old, worker, faults,
                   accepted, doubted, claimer>>

-----------------------------------------------------------------------------
(* deliverNextNotification.                                                *)

Goto(w, step) == at' = [at EXCEPT ![w] = step]
EndRound(w) ==
    /\ Goto(w, "idle") /\ item' = [item EXCEPT ![w] = NoItem]
    /\ attempt' = [attempt EXCEPT ![w] = 0] /\ webhook' = [webhook EXCEPT ![w] = 0]
    /\ answer' = [answer EXCEPT ![w] = "none"]
Interrupted(d) == status[d] = "sending" /\ ~leased[d]

Hopeless(d) == old[d] \/ channel[d] # revision \/ Superseded(d)

(* What is too old, of another channel or superseded is cancelled.         *)
Sweep(w) ==
    /\ at[w] = "idle" /\ Goto(w, "swept")
    /\ status' = [d \in Deliveries |->
          IF (status[d] \in {"pending", "failed"} \/ Interrupted(d)) /\ Hopeless(d)
            THEN "cancelled" ELSE status[d]]
    /\ UNCHANGED <<settings, outputs, channel, attempts, due, leased, old,
                   item, attempt, webhook, answer, bounds, history>>

\* Mutant: the statement is missing.
SpentNever(d) == FALSE

\* A third attempt that was interrupted.
Spent(d) == Interrupted(d) /\ attempts[d] >= MaxTries

FailSpent(w) ==
    /\ at[w] = "swept" /\ Goto(w, "checked")
    /\ status' = [d \in Deliveries |-> IF Spent(d) THEN "failed" ELSE status[d]]
    /\ UNCHANGED <<settings, outputs, channel, attempts, due, leased, old,
                   item, attempt, webhook, answer, bounds, history>>

\* Mutant: a row that is being sent may be claimed at any time.
ClaimableAnyTime(d) ==
    /\ configured /\ channel[d] = revision /\ Subscribed(d) /\ attempts[d] < MaxTries
    /\ (status[d] = "pending" /\ due[d]) \/ status[d] = "sending"

\* Mutant: the channel is not compared again.
ClaimableOnAnyChannel(d) ==
    /\ configured /\ Subscribed(d) /\ attempts[d] < MaxTries
    /\ (status[d] = "pending" /\ due[d]) \/ Interrupted(d)

\* Mutant: the attempts are not counted.
ClaimableForEver(d) ==
    /\ configured /\ channel[d] = revision /\ Subscribed(d)
    /\ (status[d] = "pending" /\ due[d]) \/ Interrupted(d)

(* The claim asks for channel and subscription again, not for age and      *)
(* newer results.                                                          *)
Claimable(d) ==
    /\ configured /\ channel[d] = revision /\ Subscribed(d) /\ attempts[d] < MaxTries
    /\ (status[d] = "pending" /\ due[d]) \/ Interrupted(d)

Claim(w, d) ==
    /\ at[w] = "checked" /\ Claimable(d) /\ Goto(w, "sending")
    /\ status' = [status EXCEPT ![d] = "sending"]
    /\ attempts' = [attempts EXCEPT ![d] = @ + 1]
    /\ leased' = [leased EXCEPT ![d] = TRUE] /\ due' = [due EXCEPT ![d] = FALSE]
    /\ item' = [item EXCEPT ![w] = d]
    /\ attempt' = [attempt EXCEPT ![w] = attempts[d] + 1]
    /\ webhook' = [webhook EXCEPT ![w] = revision]
    /\ claimer' = [claimer EXCEPT ![d] = w]
    /\ UNCHANGED <<settings, outputs, channel, old, answer, bounds,
                   accepted, doubted, resent>>

NothingToSend(w) ==
    /\ at[w] = "checked" /\ ~ \E d \in Deliveries : Claimable(d)
    /\ Goto(w, "idle")
    /\ UNCHANGED <<settings, outputs, row, item, attempt, webhook, answer, bounds, history>>

Answers == {"ok", "again", "refused"}

\* Mutant: HTTP 200 is enough, whatever the code in the answer.
ReadAsAccepted(heard) == IF heard = "refused" THEN "ok" ELSE heard

\* Only code 0 is an acceptance.
Read(heard) == heard

Counted(d) == [accepted EXCEPT ![d] = IF @ = 0 THEN 1 ELSE 2]

(* sendFeishu: accepted; throttled or unreachable; refused for good.       *)
Send(w, heard) ==
    /\ at[w] = "sending" /\ Goto(w, "settle")
    /\ answer' = [answer EXCEPT ![w] = Read(heard)]
    /\ accepted' = IF heard = "ok" THEN Counted(item[w]) ELSE accepted
    /\ UNCHANGED <<settings, outputs, row, item, attempt, webhook, bounds,
                   doubted, claimer, resent>>

(* The group got it, the answer was lost or came too late.                 *)
AnswerLost(w) ==
    /\ at[w] = "sending" /\ Fault /\ Goto(w, "settle")
    /\ answer' = [answer EXCEPT ![w] = "again"]
    /\ accepted' = Counted(item[w])
    /\ doubted' = doubted \cup {item[w]}
    /\ UNCHANGED <<settings, outputs, row, item, attempt, webhook, claimer, resent>>

\* Mutant: by id and status only.
StillMineById(w) == status[item[w]] = "sending"

\* Mutant: by id and attempt only.
StillMineByAttempt(w) == attempts[item[w]] = attempt[w]

\* WHERE id = $1 AND status = 'sending' AND attempts = $2
StillMine(w) == status[item[w]] = "sending" /\ attempts[item[w]] = attempt[w]

Retries(w) == answer[w] = "again" /\ attempt[w] < MaxTries

Outcome(w) ==
    CASE answer[w] = "ok" -> "sent" [] Retries(w) -> "pending" [] OTHER -> "failed"

Settle(w) ==
    /\ at[w] = "settle" /\ EndRound(w)
    /\ IF StillMine(w)
         THEN /\ status' = [status EXCEPT ![item[w]] = Outcome(w)]
              /\ leased' = [leased EXCEPT ![item[w]] = FALSE]
         ELSE UNCHANGED <<status, leased>>
    /\ UNCHANGED <<settings, outputs, channel, attempts, due, old, bounds, history>>

(* Saving an acceptance fails: it is settled as an error that may pass.    *)
(* Saving an error fails: the row keeps its lease.                         *)
SaveFails(w) ==
    /\ at[w] = "settle" /\ Fault
    /\ IF answer[w] = "ok"
         THEN /\ answer' = [answer EXCEPT ![w] = "again"]
              /\ doubted' = doubted \cup {item[w]} /\ UNCHANGED <<at, item, attempt, webhook>>
         ELSE EndRound(w) /\ UNCHANGED doubted
    /\ UNCHANGED <<settings, outputs, row, accepted, claimer, resent>>

(* The worker's process dies and is started again.                         *)
Crash(w) ==
    /\ at[w] # "idle" /\ Fault /\ EndRound(w)
    /\ doubted' = IF answer[w] = "ok" THEN doubted \cup {item[w]} ELSE doubted
    /\ UNCHANGED <<settings, outputs, row, accepted, claimer, resent>>

-----------------------------------------------------------------------------
(* Time.                                                                   *)

FallsDue(d) ==
    /\ status[d] = "pending" /\ ~due[d] /\ due' = [due EXCEPT ![d] = TRUE]
    /\ UNCHANGED <<settings, outputs, status, channel, attempts, leased, old,
                   worker, bounds, history>>

(* A worker that still holds the row has been stalled for a minute.        *)
LeaseExpires(d) ==
    /\ status[d] = "sending" /\ leased[d] /\ leased' = [leased EXCEPT ![d] = FALSE]
    /\ doubted' = IF \E w \in Workers : item[w] = d THEN doubted \cup {d} ELSE doubted
    /\ UNCHANGED <<settings, outputs, status, channel, attempts, due, old, worker,
                   bounds, accepted, claimer, resent>>

DayPasses(d) ==
    /\ status[d] \in {"pending", "sending", "failed"} /\ ~old[d]
    /\ old' = [old EXCEPT ![d] = TRUE]
    /\ UNCHANGED <<settings, outputs, status, channel, attempts, due, leased,
                   worker, bounds, history>>

-----------------------------------------------------------------------------

Round(w) ==
    \/ Sweep(w) \/ FailSpent(w) \/ NothingToSend(w) \/ Settle(w)
    \/ \E d \in Deliveries : Claim(w, d)
    \/ \E heard \in Answers : Send(w, heard)

Clock(d) == FallsDue(d) \/ LeaseExpires(d)

Next ==
    \/ \E w \in Workers : Round(w) \/ AnswerLost(w) \/ SaveFails(w) \/ Crash(w)
    \/ \E r \in Outputs : BookSilently(r)
    \/ \E d \in Deliveries :
         \/ EnqueueResult(d) \/ QueueTest(d) \/ CommitDelivery(d)
         \/ RollBackDelivery(d) \/ Resend(d) \/ Clock(d) \/ DayPasses(d)
    \/ UpdateSettings

Spec == Init /\ [][Next]_vars

\* The worker's timer, its queries (10 s for the request) and the clock go on.
FairSpec ==
    /\ Spec
    /\ \A w \in Workers : WF_vars(Round(w))
    /\ \A d \in Deliveries : WF_vars(Clock(d)) /\ WF_vars(CommitDelivery(d))

-----------------------------------------------------------------------------
(* Properties.                                                             *)

\* Every variable keeps its type; no row is tried more often than three times.
TypeOK ==
    /\ enabled \in BOOLEAN /\ configured \in BOOLEAN /\ revision \in Nat
    /\ outputs \subseteq Outputs
    /\ status \in [Deliveries -> Status] /\ channel \in [Deliveries -> Nat]
    /\ attempts \in [Deliveries -> 0..MaxTries] /\ due \in [Deliveries -> BOOLEAN]
    /\ leased \in [Deliveries -> BOOLEAN] /\ old \in [Deliveries -> BOOLEAN]
    /\ at \in [Workers -> {"idle", "swept", "checked", "sending", "settle"}]
    /\ item \in [Workers -> Deliveries \cup {NoItem}]
    /\ attempt \in [Workers -> 0..MaxTries] /\ webhook \in [Workers -> Nat]
    /\ answer \in [Workers -> Answers \cup {"none"}]
    /\ acts \in 0..Acts /\ faults \in 0..Faults
    /\ accepted \in [Deliveries -> 0..2]
    /\ doubted \subseteq Deliveries /\ resent \subseteq Deliveries
    /\ claimer \in [Deliveries -> Workers \cup {Nobody}]

\* A message enqueued for one channel is never sent to another, whenever
\* the credentials change.
RightChannel == \A w \in Workers : at[w] = "sending" => webhook[w] = channel[item[w]]

\* "Sent" is said of nothing the group did not accept.
SentWasAccepted == \A d \in Deliveries : status[d] = "sent" => accepted[d] > 0

\* A message is delivered twice only where the first time was in doubt: an
\* answer or a save was lost, or a stalled worker's lease ran out.
NoDuplicateWithoutDoubt ==
    \A d \in Deliveries : accepted[d] > 1 => d \in doubted

\* The credentials a result is enqueued with are those in force when its run
\* is booked.
NewResultIsCurrent ==
    [][\A r \in Deliveries : status[r] = "booking" /\ status'[r] = "pending"
          => channel'[r] = revision']_vars

\* What was sent or cancelled stays so.
SettledForGood ==
    [][\A d \in Deliveries : status[d] \in {"sent", "cancelled"} => status'[d] = status[d]]_vars

\* A worker that was overtaken does not settle the row for the one that has
\* it now -- unless the count of attempts was started again by hand.
OvertakenIsSilent ==
    [][\A w \in Workers : Settle(w) /\ status' # status
          => claimer[item[w]] = w \/ item[w] \in resent]_vars

\* With the switch on and credentials there, every delivery is settled: this
\* is so again and again.
NoDeliveryIsLeft ==
    enabled /\ configured => \A d \in Deliveries : status[d] \notin {"pending", "sending"}

\* A notification is sent where it was meant to go, "sent" is said of nothing
\* the group did not accept, and nothing is sent twice without a doubt.
SentAsMeant == RightChannel /\ SentWasAccepted /\ NoDuplicateWithoutDoubt

\* A result is enqueued with the credentials in force, what is settled stays
\* so, and a worker that was overtaken does not settle the row of another.
SettledRight == NewResultIsCurrent /\ SettledForGood /\ OvertakenIsSilent

=============================================================================
