--------------------------- MODULE WorkersProofs ----------------------------
(***************************************************************************)
(* Theorems about the delivery of notifications, for any set of rows and   *)
(* workers and any number of changes of the settings, resendings, crashes, *)
(* failed queries and lost answers.                                        *)
(*                                                                         *)
(* Then about the runs of standard backtests: one is in work at a time, none *)
(* twice, a success is complete, and what has ended is not touched.  The   *)
(* claim is two steps, so that one run is live at a time rests on the      *)
(* advisory lock: from the look for a live run to the claim nobody else gets *)
(* that far (ClaimInv).  That a success is complete rests on the owner's   *)
(* count of the days it wrote (OwnDays): only who holds the lease writes, and *)
(* a run is claimed once, so nobody wrote before.                          *)
(*                                                                         *)
(* Then about the recomputation of indicators, where the induction rests on *)
(* SnapshotInv: who computes a series holds its lock, so its mark is not   *)
(* deleted meanwhile, and a mark of the generation that was read means the *)
(* bars that were read.                                                    *)
(*                                                                         *)
(* Last, that every behaviour of the small instances checked together is one *)
(* of each component.                                                      *)
(***************************************************************************)
EXTENDS MCWorkers, SequenceTheorems, TLAPS

-----------------------------------------------------------------------------
(* The inductive invariants.                                               *)

Written == {"pending", "sending", "sent", "failed", "cancelled"}

\* A worker holds a row from its claim until its round is over; it sends with
\* the credentials of the row, and an acceptance it heard was one.
HoldsARow(w) ==
    /\ at[w] \in {"sending", "settle"} <=> item[w] \in Deliveries
    /\ item[w] \in Deliveries => status[item[w]] \in Written
    /\ at[w] = "sending" => webhook[w] = channel[item[w]]
    /\ answer[w] = "ok" => item[w] \in Deliveries /\ accepted[item[w]] > 0
HoldInv == \A w \in Workers : HoldsARow(w)

\* A booking has the revision in force; a row that says it was sent was.
RowIsTrue(d) ==
    /\ status[d] = "booking" => channel[d] = revision
    /\ status[d] = "sent" => accepted[d] > 0
RowInv == \A d \in Deliveries : RowIsTrue(d)

\* Until a row is sent again by hand its count of attempts tells its claimers
\* apart.
CountTells(w) ==
    item[w] \in Deliveries \ resent =>
        /\ attempt[w] <= attempts[item[w]]
        /\ attempt[w] = attempts[item[w]] => claimer[item[w]] = w
CountInv == \A w \in Workers : CountTells(w)

\* Without a doubt a row has one worker, under its lease, and an acceptance is
\* in the row or in the hands of the worker that is about to save it.
Holds(w, d) == item[w] = d
HasOneWorker(d) ==
    \A w \in Workers : Holds(w, d) =>
        /\ status[d] = "sending" /\ leased[d] /\ attempts[d] = attempt[w]
        /\ \A u \in Workers : Holds(u, d) => u = w
AboutToSave(w) == at[w] = "settle" /\ answer[w] = "ok"
AcceptanceIsKnown(d) ==
    accepted[d] > 0 =>
        /\ accepted[d] = 1
        /\ status[d] = "sent" \/ \E w \in Workers : Holds(w, d) /\ AboutToSave(w)
Undoubted(d) == d \notin doubted => HasOneWorker(d) /\ AcceptanceIsKnown(d)
DoubtInv == \A d \in Deliveries : Undoubted(d)

DeliveryInv == HoldInv /\ RowInv /\ CountInv /\ DoubtInv

-----------------------------------------------------------------------------
(* Types.                                                                  *)

LEMMA TypesInit == Init => TypeOK
<1> SUFFICES ASSUME Init PROVE TypeOK
  OBVIOUS
<1> USE DeliveryAssumption DEF Init
<1>1. enabled \in BOOLEAN /\ configured \in BOOLEAN /\ revision \in Nat /\ outputs \subseteq Outputs
  OBVIOUS
<1>2. status \in [Deliveries -> Status] /\ channel \in [Deliveries -> Nat]
  BY DEF Status
<1>3. /\ attempts \in [Deliveries -> 0..MaxTries] /\ due \in [Deliveries -> BOOLEAN]
      /\ leased \in [Deliveries -> BOOLEAN] /\ old \in [Deliveries -> BOOLEAN]
  BY DEF MaxTries
<1>4. /\ at \in [Workers -> {"idle", "swept", "checked", "sending", "settle"}]
      /\ item \in [Workers -> Deliveries \cup {NoItem}]
      /\ attempt \in [Workers -> 0..MaxTries] /\ webhook \in [Workers -> Nat]
      /\ answer \in [Workers -> Answers \cup {"none"}]
  BY DEF MaxTries
<1>5. acts \in 0..Acts /\ faults \in 0..Faults
  OBVIOUS
<1>6. /\ accepted \in [Deliveries -> 0..2] /\ doubted \subseteq Deliveries /\ resent \subseteq Deliveries
      /\ claimer \in [Deliveries -> Workers \cup {Nobody}]
  OBVIOUS
<1> QED BY <1>1, <1>2, <1>3, <1>4, <1>5, <1>6 DEF TypeOK

LEMMA FaultType == TypeOK /\ Fault => faults' \in 0..Faults /\ acts' = acts
BY DeliveryAssumption DEF TypeOK, Fault

\* No row has the name that stands for none.
LEMMA NoItemIsNone == NoItem \notin Deliveries
BY DeliveryAssumption DEF NoItem

LEMMA EndRoundType ==
    ASSUME TypeOK, NEW w \in Workers, EndRound(w)
    PROVE  /\ at' \in [Workers -> {"idle", "swept", "checked", "sending", "settle"}]
           /\ item' \in [Workers -> Deliveries \cup {NoItem}]
           /\ attempt' \in [Workers -> 0..MaxTries] /\ webhook' \in [Workers -> Nat]
           /\ answer' \in [Workers -> Answers \cup {"none"}]
BY DEF TypeOK, EndRound, Goto, MaxTries

LEMMA CountedType ==
    ASSUME TypeOK, NEW d \in Deliveries
    PROVE  Counted(d) \in [Deliveries -> 0..2]
BY DEF TypeOK, Counted

\* What happens to the rows and the settings.
LEMMA RowTypes ==
    ASSUME TypeOK,
           \/ \E r \in Outputs : BookSilently(r)
           \/ \E d \in Deliveries :
                \/ EnqueueResult(d) \/ QueueTest(d) \/ CommitDelivery(d)
                \/ RollBackDelivery(d) \/ Resend(d) \/ Clock(d) \/ DayPasses(d)
           \/ UpdateSettings
    PROVE  TypeOK'
<1> USE DeliveryAssumption
<1> USE DEF settings, row, worker, bounds, history
<1>1. ASSUME NEW r \in Outputs, BookSilently(r) PROVE TypeOK'
  BY <1>1 DEF TypeOK, BookSilently
<1>2. ASSUME NEW d \in Deliveries, EnqueueResult(d) \/ QueueTest(d) PROVE TypeOK'
  <2>1. status' \in [Deliveries -> Status] /\ channel' \in [Deliveries -> Nat]
    BY <1>2 DEF TypeOK, EnqueueResult, QueueTest, Inserted, Status
  <2> QED BY <1>2, <2>1, ZenonT(40) DEF TypeOK, EnqueueResult, QueueTest, Inserted
<1>3. ASSUME NEW d \in Deliveries, CommitDelivery(d) PROVE TypeOK'
  BY <1>3 DEF TypeOK, CommitDelivery, Status, Outputs
<1>4. ASSUME NEW d \in Deliveries, RollBackDelivery(d) PROVE TypeOK'
  BY <1>4, FaultType DEF TypeOK, RollBackDelivery, Status
<1>5. ASSUME NEW d \in Deliveries, Resend(d) PROVE TypeOK'
  <2>1. acts' \in 0..Acts
    BY <1>5 DEF TypeOK, Resend
  <2> QED BY <1>5, <2>1 DEF TypeOK, Resend, Status, MaxTries
<1>6. ASSUME NEW d \in Deliveries, Clock(d) \/ DayPasses(d) PROVE TypeOK'
  BY <1>6 DEF TypeOK, Clock, FallsDue, LeaseExpires, DayPasses
<1>7. CASE UpdateSettings
  <2>1. acts' \in 0..Acts
    BY <1>7 DEF TypeOK, UpdateSettings
  <2>2. enabled' \in BOOLEAN /\ configured' \in BOOLEAN /\ revision' \in Nat
    BY <1>7 DEF TypeOK, UpdateSettings
  <2>3. status' \in [Deliveries -> Status]
    BY <1>7 DEF TypeOK, UpdateSettings, Status
  <2> QED BY <1>7, <2>1, <2>2, <2>3 DEF TypeOK, UpdateSettings
<1> QED BY <1>1, <1>2, <1>3, <1>4, <1>5, <1>6, <1>7

\* What the workers do.
LEMMA WorkerTypes ==
    ASSUME TypeOK, HoldInv, NEW w \in Workers,
           Round(w) \/ AnswerLost(w) \/ SaveFails(w) \/ Crash(w)
    PROVE  TypeOK'
<1> USE DeliveryAssumption
<1> USE DEF settings, row, worker, bounds, history
<1>0. at[w] \in {"sending", "settle"} => item[w] \in Deliveries
  BY DEF HoldInv, HoldsARow
<1>1. CASE Sweep(w) \/ FailSpent(w)
  <2>1. status' \in [Deliveries -> Status]
    BY <1>1 DEF TypeOK, Sweep, FailSpent, Status
  <2> QED BY <1>1, <2>1 DEF TypeOK, Sweep, FailSpent, Goto
<1>2. ASSUME NEW d \in Deliveries, Claim(w, d) PROVE TypeOK'
  <2>1. attempts[d] + 1 \in 0..MaxTries
    BY <1>2 DEF TypeOK, Claim, Claimable, MaxTries
  <2>2. attempts' \in [Deliveries -> 0..MaxTries] /\ attempt' \in [Workers -> 0..MaxTries]
    BY <1>2, <2>1 DEF TypeOK, Claim
  <2>3. /\ status' \in [Deliveries -> Status] /\ leased' \in [Deliveries -> BOOLEAN]
        /\ due' \in [Deliveries -> BOOLEAN] /\ item' \in [Workers -> Deliveries \cup {NoItem}]
    BY <1>2 DEF TypeOK, Claim, Status
  <2>4. /\ at' \in [Workers -> {"idle", "swept", "checked", "sending", "settle"}]
        /\ webhook' \in [Workers -> Nat] /\ claimer' \in [Deliveries -> Workers \cup {Nobody}]
    BY <1>2 DEF TypeOK, Claim, Goto
  <2> QED BY <1>2, <2>2, <2>3, <2>4 DEF TypeOK, Claim
<1>3. CASE NothingToSend(w)
  BY <1>3 DEF TypeOK, NothingToSend, Goto
<1>4. ASSUME NEW heard \in Answers, Send(w, heard) PROVE TypeOK'
  <2>1. accepted' \in [Deliveries -> 0..2]
    BY <1>0, <1>4, CountedType DEF TypeOK, Send
  <2> QED BY <1>4, <2>1 DEF TypeOK, Send, Goto, Read
<1>5. CASE AnswerLost(w)
  <2>0. item[w] \in Deliveries
    BY <1>0, <1>5 DEF AnswerLost
  <2>1. accepted' \in [Deliveries -> 0..2] /\ doubted' \subseteq Deliveries
    BY <1>5, <2>0, CountedType DEF TypeOK, AnswerLost
  <2> QED BY <1>5, <2>1, FaultType DEF TypeOK, AnswerLost, Goto, Answers
<1>6. CASE Settle(w)
  <2>1. item[w] \in Deliveries
    BY <1>0, <1>6 DEF Settle
  <2>0. Outcome(w) \in Status
    BY DEF Outcome, Status, Retries
  <2>2. status' \in [Deliveries -> Status] /\ leased' \in [Deliveries -> BOOLEAN]
    <3>1. CASE StillMine(w)
      <4>1. /\ status' = [status EXCEPT ![item[w]] = Outcome(w)]
            /\ leased' = [leased EXCEPT ![item[w]] = FALSE]
        BY <1>6, <3>1 DEF Settle
      <4> QED BY <2>0, <2>1, <4>1 DEF TypeOK
    <3>2. CASE ~StillMine(w)
      BY <1>6, <3>2 DEF TypeOK, Settle
    <3> QED BY <3>1, <3>2
  <2>3. EndRound(w) /\ UNCHANGED <<settings, outputs, channel, attempts, due, old, bounds, history>>
    BY <1>6 DEF Settle
  <2> QED BY <2>2, <2>3, EndRoundType DEF TypeOK
<1>7. CASE SaveFails(w)
  <2>1. faults' \in 0..Faults /\ acts' = acts /\ item[w] \in Deliveries
    BY <1>0, <1>7, FaultType DEF SaveFails
  <2>2. CASE answer[w] = "ok"
    <3>1. answer' = [answer EXCEPT ![w] = "again"] /\ doubted' = doubted \cup {item[w]}
      BY <1>7, <2>2 DEF SaveFails
    <3>2. answer' \in [Workers -> Answers \cup {"none"}] /\ doubted' \subseteq Deliveries
      BY <2>1, <3>1 DEF TypeOK, Answers
    <3>3. UNCHANGED <<at, item, attempt, webhook, settings, outputs, row, accepted, claimer, resent>>
      BY <1>7, <2>2 DEF SaveFails
    <3> QED BY <2>1, <3>2, <3>3 DEF TypeOK
  <2>3. CASE answer[w] # "ok"
    <3>1. EndRound(w) /\ UNCHANGED <<doubted, settings, outputs, row, accepted, claimer, resent>>
      BY <1>7, <2>3 DEF SaveFails
    <3> QED BY <2>1, <3>1, EndRoundType DEF TypeOK
  <2> QED BY <2>2, <2>3
<1>8. CASE Crash(w)
  <2>1. doubted' \subseteq Deliveries
    <3>1. answer[w] = "ok" => item[w] \in Deliveries
      BY DEF HoldInv, HoldsARow
    <3>2. doubted' = IF answer[w] = "ok" THEN doubted \cup {item[w]} ELSE doubted
      BY <1>8 DEF Crash
    <3> QED BY <3>1, <3>2 DEF TypeOK
  <2> QED BY <1>8, <2>1, FaultType, EndRoundType DEF TypeOK, Crash
<1> QED BY <1>1, <1>2, <1>3, <1>4, <1>5, <1>6, <1>7, <1>8 DEF Round

-----------------------------------------------------------------------------
(* The invariants, step by step.                                           *)

LEMMA DeliveryInit == Init => DeliveryInv
<1> SUFFICES ASSUME Init PROVE DeliveryInv
  OBVIOUS
<1>1. HoldInv
  BY NoItemIsNone DEF Init, HoldInv, HoldsARow
<1>2. RowInv
  BY DEF Init, RowInv, RowIsTrue
<1>3. CountInv
  BY NoItemIsNone DEF Init, CountInv, CountTells
<1>4. DoubtInv
  BY NoItemIsNone DEF Init, DoubtInv, Undoubted, HasOneWorker, Holds, AcceptanceIsKnown
<1> QED BY <1>1, <1>2, <1>3, <1>4 DEF DeliveryInv

\* The workers keep what they hold.
WorkersHoldOn ==
    /\ item' = item /\ attempt' = attempt /\ webhook' = webhook /\ answer' = answer
    /\ accepted' = accepted /\ claimer' = claimer
    /\ \A w \in Workers : at'[w] = at[w] \/ {at[w], at'[w]} \cap {"sending", "settle"} = {}

\* What may become of a row while the workers hold on to theirs.
RowMay(d) ==
    /\ status[d] \in Written => status'[d] \in Written /\ channel'[d] = channel[d]
    /\ status'[d] = "sent" <=> status[d] = "sent"
    /\ status'[d] = "booking" => channel'[d] = revision'
    /\ attempts'[d] = attempts[d] \/ d \in resent'
    /\ d \in resent => d \in resent'
    /\ d \in doubted => d \in doubted'
    /\ \/ status[d] = "sending" /\ leased[d]
          => status'[d] = "sending" /\ leased'[d] /\ attempts'[d] = attempts[d]
       \/ \A w \in Workers : ~Holds(w, d)
       \/ d \in doubted'

LEMMA RowsMove ==
    ASSUME TypeOK, DeliveryInv, WorkersHoldOn, \A d \in Deliveries : RowMay(d)
    PROVE  DeliveryInv'
<1>1. HoldInv'
  <2> SUFFICES ASSUME NEW w \in Workers PROVE HoldsARow(w)'
    BY DEF HoldInv
  <2>1. HoldsARow(w)
    BY DEF DeliveryInv, HoldInv
  <2>2. item[w] \in Deliveries => RowMay(item[w])
    OBVIOUS
  <2>3. at'[w] = at[w] \/ (at[w] \notin {"sending", "settle"} /\ at'[w] \notin {"sending", "settle"})
    BY DEF WorkersHoldOn
  <2> QED BY <2>1, <2>2, <2>3 DEF HoldsARow, RowMay, WorkersHoldOn
<1>2. RowInv'
  BY DEF DeliveryInv, RowInv, RowIsTrue, RowMay, WorkersHoldOn
<1>3. CountInv'
  BY DEF DeliveryInv, CountInv, CountTells, RowMay, WorkersHoldOn
<1>4. DoubtInv'
  <2> SUFFICES ASSUME NEW d \in Deliveries, d \notin doubted'
               PROVE  HasOneWorker(d)' /\ AcceptanceIsKnown(d)'
    BY DEF DoubtInv, Undoubted
  <2>1. HasOneWorker(d) /\ AcceptanceIsKnown(d) /\ RowMay(d)
    BY DEF DeliveryInv, DoubtInv, Undoubted, RowMay
  <2>2. \A w \in Workers : Holds(w, d)' <=> Holds(w, d)
    BY DEF Holds, WorkersHoldOn
  <2>3. \A w \in Workers : AboutToSave(w) => AboutToSave(w)'
    BY DEF AboutToSave, WorkersHoldOn
  <2>4. HasOneWorker(d)'
    BY <2>1, <2>2 DEF HasOneWorker, RowMay, WorkersHoldOn
  <2>5. AcceptanceIsKnown(d)'
    BY <2>1, <2>2, <2>3 DEF AcceptanceIsKnown, RowMay, WorkersHoldOn
  <2> QED BY <2>4, <2>5
<1> QED BY <1>1, <1>2, <1>3, <1>4 DEF DeliveryInv

\* The rows are enqueued, committed and rolled back; the settings change and a
\* row is sent again; time passes; what is hopeless or spent is put aside.
LEMMA RowSteps ==
    ASSUME TypeOK, DeliveryInv,
           \/ \E r \in Outputs : BookSilently(r)
           \/ \E d \in Deliveries :
                \/ EnqueueResult(d) \/ QueueTest(d) \/ CommitDelivery(d)
                \/ RollBackDelivery(d) \/ Resend(d) \/ Clock(d) \/ DayPasses(d)
           \/ UpdateSettings
           \/ \E w \in Workers : Sweep(w) \/ FailSpent(w) \/ NothingToSend(w)
           \/ UNCHANGED vars
    PROVE  DeliveryInv'
<1> USE DEF settings, row, worker, bounds, history
<1>0. \A d \in Deliveries : status[d] = "booking" => channel[d] = revision
  BY DEF DeliveryInv, RowInv, RowIsTrue
<1>1. ASSUME NEW r \in Outputs, BookSilently(r) PROVE DeliveryInv'
  BY <1>0, <1>1, RowsMove DEF BookSilently, WorkersHoldOn, RowMay
<1>2. ASSUME NEW r \in Deliveries, EnqueueResult(r) \/ QueueTest(r) PROVE DeliveryInv'
  <2>1. /\ status[r] = "absent" /\ status'[r] \in {"booking", "testing"}
        /\ channel'[r] = revision
        /\ \A d \in Deliveries \ {r} : status'[d] = status[d] /\ channel'[d] = channel[d]
        /\ UNCHANGED <<revision, attempts, leased, resent, doubted>>
    BY <1>2 DEF EnqueueResult, QueueTest, Inserted, TypeOK
  <2>2. WorkersHoldOn
    BY <1>2 DEF EnqueueResult, QueueTest, WorkersHoldOn
  <2>3. \A d \in Deliveries : RowMay(d)
    BY <1>0, <2>1 DEF RowMay, Written
  <2> QED BY <2>2, <2>3, RowsMove
<1>3. ASSUME NEW r \in Deliveries, CommitDelivery(r) \/ RollBackDelivery(r) PROVE DeliveryInv'
  <2>1. /\ status[r] \in {"booking", "testing"} /\ status'[r] \in {"pending", "absent"}
        /\ \A d \in Deliveries \ {r} : status'[d] = status[d] /\ channel'[d] = channel[d]
        /\ UNCHANGED <<revision, attempts, leased, resent, doubted>>
    BY <1>3 DEF CommitDelivery, RollBackDelivery, TypeOK
  <2>2. WorkersHoldOn
    BY <1>3 DEF CommitDelivery, RollBackDelivery, WorkersHoldOn
  <2>3. \A d \in Deliveries : RowMay(d)
    BY <1>0, <2>1 DEF RowMay, Written
  <2> QED BY <2>2, <2>3, RowsMove
<1>4. ASSUME NEW r \in Deliveries, Resend(r) PROVE DeliveryInv'
  <2>1. /\ status[r] = "failed" /\ status'[r] = "pending" /\ resent' = resent \cup {r}
        /\ \A d \in Deliveries \ {r} :
              status'[d] = status[d] /\ attempts'[d] = attempts[d] /\ leased'[d] = leased[d]
        /\ UNCHANGED <<revision, channel, doubted>>
    BY <1>4 DEF Resend, TypeOK
  <2>2. WorkersHoldOn
    BY <1>4 DEF Resend, WorkersHoldOn
  <2>3. \A d \in Deliveries : RowMay(d)
    BY <1>0, <2>1 DEF RowMay, Written
  <2> QED BY <2>2, <2>3, RowsMove
<1>5. ASSUME NEW r \in Deliveries, FallsDue(r) \/ DayPasses(r) PROVE DeliveryInv'
  BY <1>0, <1>5, RowsMove DEF FallsDue, DayPasses, WorkersHoldOn, RowMay
<1>6. ASSUME NEW r \in Deliveries, LeaseExpires(r) PROVE DeliveryInv'
  <2>1. /\ \A d \in Deliveries \ {r} : leased'[d] = leased[d]
        /\ UNCHANGED <<status, revision, channel, attempts, resent>>
        /\ r \in doubted' \/ \A w \in Workers : ~Holds(w, r)
        /\ \A d \in doubted : d \in doubted'
    BY <1>6 DEF LeaseExpires, TypeOK, Holds
  <2>2. WorkersHoldOn
    BY <1>6 DEF LeaseExpires, WorkersHoldOn
  <2>3. \A d \in Deliveries : RowMay(d)
    BY <1>0, <2>1 DEF RowMay
  <2> QED BY <2>2, <2>3, RowsMove
<1>7. CASE UpdateSettings
  <2>1. /\ \A d \in Deliveries : status[d] # "booking"
        /\ \A d \in Deliveries : status'[d] = status[d]
                                 \/ (status[d] \in {"pending", "failed"} /\ status'[d] = "cancelled")
        /\ UNCHANGED <<channel, attempts, leased, resent, doubted>>
    BY <1>7 DEF UpdateSettings, SettingsFree
  <2>2. WorkersHoldOn
    BY <1>7 DEF UpdateSettings, WorkersHoldOn
  <2>3. \A d \in Deliveries : RowMay(d)
    BY <2>1 DEF RowMay, Written
  <2> QED BY <2>2, <2>3, RowsMove
<1>8. ASSUME NEW w \in Workers, Sweep(w) \/ FailSpent(w) \/ NothingToSend(w) PROVE DeliveryInv'
  <2>1. /\ \A d \in Deliveries :
              \/ status'[d] = status[d]
              \/ /\ status[d] \in {"pending", "failed"} \/ (status[d] = "sending" /\ ~leased[d])
                 /\ status'[d] \in {"failed", "cancelled"}
        /\ UNCHANGED <<revision, channel, attempts, leased, resent, doubted>>
    BY <1>8 DEF Sweep, FailSpent, NothingToSend, Spent, Interrupted
  <2>2. WorkersHoldOn
    BY <1>8 DEF Sweep, FailSpent, NothingToSend, Goto, WorkersHoldOn, TypeOK
  <2>3. \A d \in Deliveries : RowMay(d)
    BY <1>0, <2>1 DEF RowMay, Written
  <2> QED BY <2>2, <2>3, RowsMove
<1>9. CASE UNCHANGED vars
  BY <1>0, <1>9, RowsMove DEF vars, WorkersHoldOn, RowMay
<1> QED BY <1>1, <1>2, <1>3, <1>4, <1>5, <1>6, <1>7, <1>8, <1>9 DEF Clock

\* Nobody without a doubt holds a row that may be claimed.
LEMMA ClaimedIsFree ==
    ASSUME DeliveryInv, NEW d \in Deliveries, Claimable(d), d \notin doubted, NEW u \in Workers
    PROVE  ~Holds(u, d)
BY DEF DeliveryInv, DoubtInv, Undoubted, HasOneWorker, Claimable, Interrupted

LEMMA ClaimStep ==
    ASSUME TypeOK, DeliveryInv, NEW w \in Workers, NEW d \in Deliveries, Claim(w, d)
    PROVE  DeliveryInv'
<1> USE DEF settings, row, worker, bounds, history
<1>1. /\ at[w] = "checked" /\ Claimable(d) /\ at'[w] = "sending" /\ item'[w] = d
      /\ attempt'[w] = attempts[d] + 1 /\ webhook'[w] = revision
      /\ \A u \in Workers \ {w} : at'[u] = at[u] /\ item'[u] = item[u] /\ attempt'[u] = attempt[u]
                                /\ webhook'[u] = webhook[u]
      /\ UNCHANGED <<answer, accepted, doubted, resent, revision, channel>>
  BY DEF Claim, Goto, TypeOK
<1>2. /\ status'[d] = "sending" /\ attempts'[d] = attempts[d] + 1 /\ leased'[d] /\ claimer'[d] = w
      /\ \A x \in Deliveries \ {d} : status'[x] = status[x] /\ attempts'[x] = attempts[x]
                                   /\ leased'[x] = leased[x] /\ claimer'[x] = claimer[x]
  BY DEF Claim, TypeOK
<1>3. /\ channel[d] = revision /\ status[d] \in {"pending", "sending"} /\ attempts[d] \in Nat
      /\ \A u \in Workers : attempt[u] \in Nat
  BY <1>1 DEF Claimable, Interrupted, TypeOK, MaxTries
<1>4. item[w] \notin Deliveries /\ answer[w] # "ok"
  BY <1>1 DEF DeliveryInv, HoldInv, HoldsARow
<1>5. HoldInv'
  <2> SUFFICES ASSUME NEW u \in Workers PROVE HoldsARow(u)'
    BY DEF HoldInv
  <2>1. CASE u = w
    BY <1>1, <1>2, <1>3, <1>4, <2>1 DEF HoldsARow, Written
  <2>2. CASE u # w
    BY <1>1, <1>2, <2>2 DEF DeliveryInv, HoldInv, HoldsARow, Written
  <2> QED BY <2>1, <2>2
<1>6. RowInv'
  BY <1>1, <1>2 DEF DeliveryInv, RowInv, RowIsTrue
<1>7. CountInv'
  <2> SUFFICES ASSUME NEW u \in Workers, item'[u] \in Deliveries \ resent
               PROVE  /\ attempt'[u] <= attempts'[item'[u]]
                      /\ attempt'[u] = attempts'[item'[u]] => claimer'[item'[u]] = u
    BY <1>1 DEF CountInv, CountTells
  <2>1. CASE u = w
    BY <1>1, <1>2, <1>3, <2>1
  <2>2. CASE u # w /\ item[u] = d
    <3>1. attempt[u] <= attempts[d]
      BY <1>1, <2>2 DEF DeliveryInv, CountInv, CountTells
    <3> QED BY <1>1, <1>2, <1>3, <2>2, <3>1
  <2>3. CASE u # w /\ item[u] # d
    BY <1>1, <1>2, <2>3 DEF DeliveryInv, CountInv, CountTells
  <2> QED BY <2>1, <2>2, <2>3
<1>8. DoubtInv'
  <2> SUFFICES ASSUME NEW x \in Deliveries, x \notin doubted
               PROVE  HasOneWorker(x)' /\ AcceptanceIsKnown(x)'
    BY <1>1 DEF DoubtInv, Undoubted
  <2>1. HasOneWorker(x) /\ AcceptanceIsKnown(x)
    BY DEF DeliveryInv, DoubtInv, Undoubted
  <2>2. CASE x = d
    <3>1. \A u \in Workers : ~Holds(u, d)
      BY <1>1, <2>2, ClaimedIsFree
    <3>2. \A u \in Workers : Holds(u, d)' <=> u = w
      BY <1>1, <3>1 DEF Holds
    <3>3. HasOneWorker(x)'
      BY <1>1, <1>2, <2>2, <3>2 DEF HasOneWorker
    <3>4. AcceptanceIsKnown(x)'
      BY <1>1, <1>3, <2>1, <2>2, <3>1 DEF AcceptanceIsKnown
    <3> QED BY <3>3, <3>4
  <2>3. CASE x # d
    <3>1. \A u \in Workers : Holds(u, x)' <=> Holds(u, x)
      BY <1>1, <1>4, <2>3 DEF Holds
    <3>2. HasOneWorker(x)'
      <4>1. \A u \in Workers : Holds(u, x) => u # w
        BY <1>4 DEF Holds
      <4> QED BY <1>1, <1>2, <2>1, <2>3, <3>1, <4>1 DEF HasOneWorker
    <3>3. AcceptanceIsKnown(x)'
      <4>1. \A u \in Workers : AboutToSave(u) => AboutToSave(u)'
        BY <1>1 DEF AboutToSave
      <4> QED BY <1>1, <1>2, <2>1, <2>3, <3>1, <4>1 DEF AcceptanceIsKnown
    <3> QED BY <3>2, <3>3
  <2> QED BY <2>2, <2>3
<1> QED BY <1>5, <1>6, <1>7, <1>8 DEF DeliveryInv

\* A request has its answer; if it was accepted and nobody knows there is a doubt.
LEMMA SendStep ==
    ASSUME TypeOK, DeliveryInv, NEW w \in Workers,
           AnswerLost(w) \/ \E heard \in Answers : Send(w, heard)
    PROVE  DeliveryInv'
<1> USE DEF settings, row, worker, bounds, history
<1> DEFINE d == item[w]
<1>1. /\ at[w] = "sending" /\ at'[w] = "settle"
      /\ \A u \in Workers \ {w} : at'[u] = at[u] /\ answer'[u] = answer[u]
      /\ UNCHANGED <<revision, status, channel, attempts, leased, item, attempt, webhook, claimer, resent>>
  BY DEF AnswerLost, Send, Goto, TypeOK
<1>2. d \in Deliveries
  BY <1>1 DEF DeliveryInv, HoldInv, HoldsARow
<1>3. \/ accepted' = accepted /\ answer'[w] # "ok" /\ doubted' = doubted
      \/ accepted' = Counted(d) /\ answer'[w] = "ok" /\ doubted' = doubted
      \/ accepted' = Counted(d) /\ answer'[w] # "ok" /\ doubted' = doubted \cup {d}
  <2>1. CASE AnswerLost(w)
    <3>1. /\ accepted' = Counted(d) /\ doubted' = doubted \cup {d}
          /\ answer' = [answer EXCEPT ![w] = "again"]
      BY <2>1 DEF AnswerLost
    <3> QED BY <3>1 DEF TypeOK
  <2>3. CASE \E heard \in Answers : Send(w, heard)
    <3>1. PICK heard \in Answers : Send(w, heard)
      BY <2>3
    <3>2. /\ answer' = [answer EXCEPT ![w] = heard] /\ doubted' = doubted
          /\ accepted' = IF heard = "ok" THEN Counted(d) ELSE accepted
      BY <3>1 DEF Send, Read
    <3>3. answer'[w] = heard
      BY <3>2 DEF TypeOK
    <3> QED BY <3>2, <3>3
  <2> QED BY <2>1, <2>3
<1>4. /\ Counted(d)[d] = IF accepted[d] = 0 THEN 1 ELSE 2
      /\ \A x \in Deliveries \ {d} : Counted(d)[x] = accepted[x]
  BY <1>2 DEF Counted, TypeOK
<1> HIDE DEF d
<1>5. \A x \in Deliveries : accepted[x] \in 0..2 /\ (accepted[x] > 0 => accepted'[x] > 0)
  BY <1>2, <1>3, <1>4 DEF TypeOK
<1>6. answer'[w] = "ok" => accepted'[d] > 0
  BY <1>2, <1>3, <1>4
<1>7. HoldInv'
  <2> SUFFICES ASSUME NEW u \in Workers PROVE HoldsARow(u)'
    BY DEF HoldInv
  <2>1. HoldsARow(u)
    BY DEF DeliveryInv, HoldInv
  <2>2. CASE u = w
    BY <1>1, <1>2, <1>6, <2>1, <2>2 DEF HoldsARow, d
  <2>3. CASE u # w
    BY <1>1, <1>5, <2>1, <2>3 DEF HoldsARow
  <2> QED BY <2>2, <2>3
<1>8. RowInv'
  BY <1>1, <1>5 DEF DeliveryInv, RowInv, RowIsTrue
<1>9. CountInv'
  BY <1>1 DEF DeliveryInv, CountInv, CountTells
<1>10. DoubtInv'
  <2> SUFFICES ASSUME NEW x \in Deliveries, x \notin doubted'
               PROVE  HasOneWorker(x)' /\ AcceptanceIsKnown(x)'
    BY DEF DoubtInv, Undoubted
  <2>1. x \notin doubted
    BY <1>3
  <2>2. HasOneWorker(x) /\ AcceptanceIsKnown(x)
    BY <2>1 DEF DeliveryInv, DoubtInv, Undoubted
  <2>3. \A u \in Workers : Holds(u, x)' <=> Holds(u, x)
    BY <1>1 DEF Holds
  <2>4. HasOneWorker(x)'
    BY <1>1, <2>2, <2>3 DEF HasOneWorker
  <2>5. CASE x = d
    <3>1. Holds(w, x) /\ ~AboutToSave(w)
      BY <1>1, <2>5 DEF Holds, AboutToSave, d
    <3>2. status[x] = "sending" /\ \A u \in Workers : Holds(u, x) => u = w
      BY <2>2, <3>1 DEF HasOneWorker
    <3>3. accepted[x] = 0
      BY <1>5, <2>2, <3>1, <3>2 DEF AcceptanceIsKnown
    <3>4. accepted'[x] = 0 \/ (accepted'[x] = 1 /\ answer'[w] = "ok")
      BY <1>2, <1>3, <1>4, <2>5, <3>3
    <3> QED BY <1>1, <2>3, <2>4, <3>1, <3>4 DEF AcceptanceIsKnown, AboutToSave
  <2>6. CASE x # d
    <3>1. accepted'[x] = accepted[x]
      BY <1>3, <1>4, <2>6
    <3>2. \A u \in Workers : Holds(u, x) => u # w
      BY <2>6 DEF Holds, d
    <3>3. AcceptanceIsKnown(x)'
      BY <1>1, <2>2, <2>3, <3>1, <3>2 DEF AcceptanceIsKnown, AboutToSave
    <3> QED BY <2>4, <3>3
  <2> QED BY <2>5, <2>6
<1> QED BY <1>7, <1>8, <1>9, <1>10 DEF DeliveryInv

\* A worker lets go of its row; what is then said of the row.
LEMMA LetGo ==
    ASSUME TypeOK, DeliveryInv, NEW w \in Workers, EndRound(w),
           UNCHANGED <<revision, channel, attempts, accepted, claimer, resent>>,
           \A x \in Deliveries : x \in doubted => x \in doubted',
           \A x \in Deliveries : ~Holds(w, x) => status'[x] = status[x] /\ leased'[x] = leased[x],
           \A x \in Deliveries : status[x] \in Written => status'[x] \in Written,
           \A x \in Deliveries : status'[x] = "booking" => status[x] = "booking",
           \A x \in Deliveries : status'[x] = "sent" => accepted[x] > 0,
           \A x \in Deliveries :
              Holds(w, x) /\ AboutToSave(w) => status'[x] = "sent" \/ x \in doubted',
           \A x \in Deliveries : status[x] = "sent" => status'[x] = "sent"
    PROVE  DeliveryInv'
<1>1. /\ at'[w] = "idle" /\ item'[w] = NoItem /\ answer'[w] = "none"
      /\ \A u \in Workers \ {w} : at'[u] = at[u] /\ item'[u] = item[u] /\ attempt'[u] = attempt[u]
                                /\ webhook'[u] = webhook[u] /\ answer'[u] = answer[u]
  BY DEF EndRound, Goto, TypeOK
<1>2. HoldInv'
  BY <1>1, NoItemIsNone DEF DeliveryInv, HoldInv, HoldsARow
<1>3. RowInv'
  BY DEF DeliveryInv, RowInv, RowIsTrue
<1>4. CountInv'
  BY <1>1, NoItemIsNone DEF DeliveryInv, CountInv, CountTells
<1>5. DoubtInv'
  <2> SUFFICES ASSUME NEW x \in Deliveries, x \notin doubted'
               PROVE  HasOneWorker(x)' /\ AcceptanceIsKnown(x)'
    BY DEF DoubtInv, Undoubted
  <2>1. HasOneWorker(x) /\ AcceptanceIsKnown(x)
    BY DEF DeliveryInv, DoubtInv, Undoubted
  <2>2. \A u \in Workers : Holds(u, x)' <=> Holds(u, x) /\ u # w
    BY <1>1, NoItemIsNone DEF Holds
  <2>3. \A u \in Workers \ {w} : Holds(u, x) => ~Holds(w, x)
    BY <2>1 DEF HasOneWorker
  <2>4. HasOneWorker(x)'
    BY <1>1, <2>1, <2>2, <2>3 DEF HasOneWorker
  <2>5. AcceptanceIsKnown(x)'
    BY <1>1, <2>1, <2>2 DEF AcceptanceIsKnown, AboutToSave
  <2> QED BY <2>4, <2>5
<1> QED BY <1>2, <1>3, <1>4, <1>5 DEF DeliveryInv

\* What a worker writes is what it heard.
LEMMA SettleStep ==
    ASSUME TypeOK, DeliveryInv, NEW w \in Workers, Settle(w)
    PROVE  DeliveryInv'
<1> USE DEF settings, row, worker, bounds, history
<1>1. /\ at[w] = "settle" /\ EndRound(w)
      /\ UNCHANGED <<revision, channel, attempts, accepted, claimer, resent, doubted>>
  BY DEF Settle
<1>2. item[w] \in Deliveries /\ (answer[w] = "ok" => accepted[item[w]] > 0)
  BY <1>1 DEF DeliveryInv, HoldInv, HoldsARow
<1>3. CASE StillMine(w)
  <2>1. /\ status' = [status EXCEPT ![item[w]] = Outcome(w)]
        /\ leased' = [leased EXCEPT ![item[w]] = FALSE]
    BY <1>3 DEF Settle
  <2>2. /\ status'[item[w]] = Outcome(w) /\ status[item[w]] = "sending"
        /\ \A x \in Deliveries : x # item[w] => status'[x] = status[x] /\ leased'[x] = leased[x]
    BY <1>2, <1>3, <2>1 DEF StillMine, TypeOK
  <2>3. /\ Outcome(w) \in {"sent", "pending", "failed"}
        /\ Outcome(w) = "sent" <=> answer[w] = "ok"
    BY DEF Outcome, Retries
  <2>4. \A x \in Deliveries : Holds(w, x) <=> x = item[w]
    BY DEF Holds
  <2>5. \A x \in Deliveries : status[x] = "sent" => accepted[x] > 0
    BY DEF DeliveryInv, RowInv, RowIsTrue
  <2> QED BY <1>1, <1>2, <2>2, <2>3, <2>4, <2>5, LetGo DEF Written, AboutToSave
<1>4. CASE ~StillMine(w)
  <2>1. UNCHANGED <<status, leased>>
    BY <1>4 DEF Settle
  <2>2. \A x \in Deliveries : Holds(w, x) => x \in doubted
    BY <1>4 DEF DeliveryInv, DoubtInv, Undoubted, HasOneWorker, Holds, StillMine
  <2>3. \A x \in Deliveries : status[x] = "sent" => accepted[x] > 0
    BY DEF DeliveryInv, RowInv, RowIsTrue
  <2> QED BY <1>1, <2>1, <2>2, <2>3, LetGo
<1> QED BY <1>3, <1>4

\* Saving fails, or the worker dies.
LEMMA FailureStep ==
    ASSUME TypeOK, DeliveryInv, NEW w \in Workers, SaveFails(w) \/ Crash(w)
    PROVE  DeliveryInv'
<1> USE DEF settings, row, worker, bounds, history
<1>1. \A x \in Deliveries : status[x] = "sent" => accepted[x] > 0
  BY DEF DeliveryInv, RowInv, RowIsTrue
<1>2. UNCHANGED <<revision, channel, attempts, accepted, claimer, resent, status, leased>>
  BY DEF SaveFails, Crash
<1>3. CASE Crash(w)
  <2>1. EndRound(w) /\ doubted' = IF answer[w] = "ok" THEN doubted \cup {item[w]} ELSE doubted
    BY <1>3 DEF Crash
  <2>2. \A x \in Deliveries : Holds(w, x) /\ AboutToSave(w) => x \in doubted'
    BY <2>1 DEF Holds, AboutToSave
  <2>3. \A x \in Deliveries : x \in doubted => x \in doubted'
    BY <2>1
  <2> QED BY <1>1, <1>2, <2>1, <2>2, <2>3, LetGo
<1>4. CASE SaveFails(w) /\ answer[w] # "ok"
  <2>1. EndRound(w) /\ doubted' = doubted
    BY <1>4 DEF SaveFails
  <2> QED BY <1>1, <1>2, <1>4, <2>1, LetGo DEF AboutToSave
<1>5. CASE SaveFails(w) /\ answer[w] = "ok"
  <2>1. /\ answer'[w] = "again" /\ doubted' = doubted \cup {item[w]}
        /\ UNCHANGED <<at, item, attempt, webhook>>
        /\ \A u \in Workers \ {w} : answer'[u] = answer[u]
    BY <1>5 DEF SaveFails, TypeOK
  <2>2. HoldInv'
    BY <1>2, <2>1 DEF DeliveryInv, HoldInv, HoldsARow
  <2>3. RowInv'
    BY <1>2 DEF DeliveryInv, RowInv, RowIsTrue
  <2>4. CountInv'
    BY <1>2, <2>1 DEF DeliveryInv, CountInv, CountTells
  <2>5. DoubtInv'
    <3> SUFFICES ASSUME NEW x \in Deliveries, x \notin doubted'
                 PROVE  HasOneWorker(x)' /\ AcceptanceIsKnown(x)'
      BY DEF DoubtInv, Undoubted
    <3>1. HasOneWorker(x) /\ AcceptanceIsKnown(x) /\ ~Holds(w, x)
      BY <2>1 DEF DeliveryInv, DoubtInv, Undoubted, Holds
    <3>2. HasOneWorker(x)'
      BY <1>2, <2>1, <3>1 DEF HasOneWorker, Holds
    <3>3. AcceptanceIsKnown(x)'
      BY <1>2, <2>1, <3>1 DEF AcceptanceIsKnown, AboutToSave, Holds
    <3> QED BY <3>2, <3>3
  <2> QED BY <2>2, <2>3, <2>4, <2>5 DEF DeliveryInv
<1> QED BY <1>3, <1>4, <1>5

LEMMA DeliveryNext == TypeOK /\ DeliveryInv /\ [Next]_vars => DeliveryInv'
<1> SUFFICES ASSUME TypeOK, DeliveryInv, [Next]_vars PROVE DeliveryInv'
  OBVIOUS
<1> QED BY RowSteps, ClaimStep, SendStep, SettleStep, FailureStep DEF Next, Round

LEMMA TypesNext == TypeOK /\ DeliveryInv /\ [Next]_vars => TypeOK'
<1> SUFFICES ASSUME TypeOK, DeliveryInv, [Next]_vars PROVE TypeOK'
  OBVIOUS
<1>1. CASE UNCHANGED vars
  BY <1>1 DEF TypeOK, vars, settings, row, worker, bounds, history
<1> QED BY <1>1, RowTypes, WorkerTypes DEF Next, DeliveryInv

\* Every variable keeps its type, and no row is tried more often than three
\* times.
THEOREM NotificationTypes == Spec => [](TypeOK /\ DeliveryInv)
BY TypesInit, DeliveryInit, TypesNext, DeliveryNext, PTL DEF Spec

\* A message goes to the channel it was written for; what is called sent was
\* accepted; and nothing is accepted twice unless the first time was in doubt:
\* until then the row has one worker, and it is the one that will save it.
THEOREM NotificationsSentAsMeant == Spec => []SentAsMeant
<1>1. TypeOK /\ DeliveryInv => RightChannel
  BY DEF DeliveryInv, HoldInv, HoldsARow, RightChannel
<1>2. TypeOK /\ DeliveryInv => SentWasAccepted
  BY DEF DeliveryInv, RowInv, RowIsTrue, SentWasAccepted
<1>3. TypeOK /\ DeliveryInv => NoDuplicateWithoutDoubt
  <2> SUFFICES ASSUME TypeOK, DeliveryInv, NEW d \in Deliveries, accepted[d] > 1, d \notin doubted PROVE FALSE
    BY DEF NoDuplicateWithoutDoubt
  <2>1. accepted[d] > 0 /\ accepted[d] # 1
    BY DEF TypeOK
  <2> QED BY <2>1 DEF DeliveryInv, DoubtInv, Undoubted, AcceptanceIsKnown
<1>4. TypeOK /\ DeliveryInv => SentAsMeant
  BY <1>1, <1>2, <1>3 DEF SentAsMeant
<1> QED BY <1>4, NotificationTypes, PTL

-----------------------------------------------------------------------------
(* What a step may do to a row.                                            *)

BookedIsCurrent == \A r \in Deliveries : status[r] = "booking" /\ status'[r] = "pending"
                                        => channel'[r] = revision'
SettledStays == \A d \in Deliveries : status[d] \in {"sent", "cancelled"} => status'[d] = status[d]
OvertakenWaits == \A w \in Workers : Settle(w) /\ status' # status
                                   => claimer[item[w]] = w \/ item[w] \in resent

LEMMA SettledNext == TypeOK /\ DeliveryInv /\ [Next]_vars => BookedIsCurrent /\ SettledStays
<1> SUFFICES ASSUME TypeOK, DeliveryInv, [Next]_vars PROVE BookedIsCurrent /\ SettledStays
  OBVIOUS
<1> USE DEF settings, row, worker, bounds, history
<1>0. \A d \in Deliveries : status[d] = "booking" => channel[d] = revision
  BY DEF DeliveryInv, RowInv, RowIsTrue
<1>1. ASSUME NEW d \in Deliveries,
             \/ EnqueueResult(d) \/ QueueTest(d) \/ RollBackDelivery(d) \/ Resend(d)
             \/ \E w \in Workers : Claim(w, d)
      PROVE  BookedIsCurrent /\ SettledStays
  <2>1. /\ status[d] \notin {"sent", "cancelled"} /\ (status[d] = "booking" => status'[d] # "pending")
        /\ \A x \in Deliveries \ {d} : status'[x] = status[x]
    BY <1>1 DEF EnqueueResult, QueueTest, Inserted, RollBackDelivery, Resend, Claim, Claimable,
                Interrupted, TypeOK
  <2> QED BY <2>1 DEF BookedIsCurrent, SettledStays
<1>2. ASSUME NEW d \in Deliveries, CommitDelivery(d) PROVE BookedIsCurrent /\ SettledStays
  <2>1. /\ status[d] \notin {"sent", "cancelled"} /\ UNCHANGED <<channel, revision>>
        /\ \A x \in Deliveries \ {d} : status'[x] = status[x]
    BY <1>2 DEF CommitDelivery, TypeOK
  <2> QED BY <1>0, <2>1 DEF BookedIsCurrent, SettledStays
<1>3. ASSUME NEW w \in Workers, Sweep(w) \/ FailSpent(w) PROVE BookedIsCurrent /\ SettledStays
  <2>1. \A d \in Deliveries :
           \/ status'[d] = status[d]
           \/ status[d] \in {"pending", "failed", "sending"} /\ status'[d] \in {"failed", "cancelled"}
    BY <1>3 DEF Sweep, FailSpent, Spent, Interrupted
  <2> QED BY <2>1 DEF BookedIsCurrent, SettledStays
<1>4. CASE UpdateSettings
  <2>1. \A d \in Deliveries :
           \/ status'[d] = status[d]
           \/ status[d] \in {"pending", "failed"} /\ status'[d] = "cancelled"
    BY <1>4 DEF UpdateSettings
  <2> QED BY <2>1 DEF BookedIsCurrent, SettledStays
<1>5. ASSUME NEW w \in Workers, Settle(w) PROVE BookedIsCurrent /\ SettledStays
  <2>1. item[w] \in Deliveries
    BY <1>5 DEF DeliveryInv, HoldInv, HoldsARow, Settle
  <2>2. CASE StillMine(w)
    <3>1. status' = [status EXCEPT ![item[w]] = Outcome(w)]
      BY <1>5, <2>2 DEF Settle
    <3>2. status[item[w]] = "sending" /\ \A x \in Deliveries : x # item[w] => status'[x] = status[x]
      BY <2>1, <2>2, <3>1 DEF StillMine, TypeOK
    <3> QED BY <2>1, <3>2 DEF BookedIsCurrent, SettledStays
  <2>3. CASE ~StillMine(w)
    BY <1>5, <2>3 DEF Settle, BookedIsCurrent, SettledStays
  <2> QED BY <2>2, <2>3
<1>6. CASE status' = status
  BY <1>6 DEF BookedIsCurrent, SettledStays
<1>7. CASE \/ \E r \in Outputs : BookSilently(r)
           \/ \E d \in Deliveries : Clock(d) \/ DayPasses(d)
           \/ \E w \in Workers : \/ NothingToSend(w) \/ AnswerLost(w) \/ SaveFails(w) \/ Crash(w)
                                \/ \E heard \in Answers : Send(w, heard)
           \/ UNCHANGED vars
  <2>1. status' = status
    BY <1>7 DEF BookSilently, Clock, FallsDue, LeaseExpires, DayPasses, NothingToSend, AnswerLost,
                SaveFails, Crash, Send, vars
  <2> QED BY <1>6, <2>1
<1> QED BY <1>1, <1>2, <1>3, <1>4, <1>5, <1>7 DEF Next, Round

LEMMA OvertakenNext == TypeOK /\ DeliveryInv => OvertakenWaits
<1> SUFFICES ASSUME TypeOK, DeliveryInv, NEW w \in Workers, Settle(w), status' # status
             PROVE  claimer[item[w]] = w \/ item[w] \in resent
  BY DEF OvertakenWaits
<1>1. StillMine(w)
  BY DEF Settle
<1>2. item[w] \in Deliveries
  BY DEF DeliveryInv, HoldInv, HoldsARow, Settle
<1> QED BY <1>1, <1>2 DEF DeliveryInv, CountInv, CountTells, StillMine

\* A result is booked with the credentials in force, what was sent or cancelled
\* stays so, and a worker that was overtaken leaves the row to the one that
\* claimed it -- unless the count that tells them apart was started again.
THEOREM SettledAsClaimed == Spec => SettledRight
<1>1. TypeOK /\ DeliveryInv /\ [Next]_vars => BookedIsCurrent
  BY SettledNext
<1>2. TypeOK /\ DeliveryInv /\ [Next]_vars => SettledStays
  BY SettledNext
<1>3. TypeOK /\ DeliveryInv /\ [Next]_vars => OvertakenWaits
  BY OvertakenNext
<1>4. Spec => [][BookedIsCurrent]_vars /\ [][SettledStays]_vars /\ [][OvertakenWaits]_vars
  BY <1>1, <1>2, <1>3, NotificationTypes, PTL DEF Spec
<1>5. Spec => NewResultIsCurrent /\ SettledForGood /\ OvertakenIsSilent
  BY <1>4 DEF NewResultIsCurrent, SettledForGood, OvertakenIsSilent, BookedIsCurrent, SettledStays,
              OvertakenWaits
<1> QED BY <1>5 DEF SettledRight

-----------------------------------------------------------------------------
(* Runs of standard backtests.                                             *)

RunType == [status : {"absent", "queued"} \cup Active \cup Ended, key : Keys, request : Requests,
            generation : Nat, token : Runners \cup {NoRunner}, alive : BOOLEAN]
RunnerType == [step : {"idle", "claim", "take", "freeze", "days", "failing"}, id : RunIds \cup {0},
               day : 0..LastDay, aborted : BOOLEAN, stopping : BOOLEAN, verdict : {"failed", "rejected"}]

HasRun(w) == runner[w].step \in {"freeze", "days", "failing"}

RunnerInv ==
    \A w \in Runners :
        /\ HasRun(w) => runner[w].id \in RunIds
        /\ runner[w].step \notin {"days", "failing"} => runner[w].day = 0

\* Between the look and the claim the lock is held, and no live run appears.
ClaimInv == \A w \in Runners : RunnerAt(w, "take") => claimLock = w /\ NobodyWorks

RunInv ==
    \A r \in RunIds :
        /\ backtest[r].alive => backtest[r].status \in Active
        /\ backtest[r].status \in {"absent", "queued"} => backtest[r].generation = 0 /\ equity[r] = <<>>
        /\ backtest[r].generation <= 1

\* The days of a run are in order and of one runner.
DaysInv ==
    \A r \in RunIds :
        /\ \A i \in 1..Len(equity[r]) : equity[r][i].day = i /\ equity[r][i].by = equity[r][1].by
        /\ backtest[r].status = "success" => Len(equity[r]) = LastDay

\* The owner of a run in work has written all its days, as many as it counts.
OwnDays(w) ==
    LET days == equity[runner[w].id]
    IN  /\ Len(days) = runner[w].day
        /\ \A i \in 1..Len(days) : days[i].by = w
OwnerInv ==
    \A w \in Runners :
        runner[w].step \in {"freeze", "days"} /\ backtest[runner[w].id].token = w => OwnDays(w)

AnswerInv ==
    /\ \A a \in answers : /\ backtest[a.id].status # "absent"
                          /\ backtest[a.id].key = a.key /\ backtest[a.id].request = a.request
    /\ \A r, s \in RunIds :
          backtest[r].status # "absent" /\ backtest[s].status # "absent"
          /\ backtest[r].key = backtest[s].key => r = s

BacktestInv ==
    /\ BacktestTypeOK /\ RunnerInv /\ ClaimInv /\ OneLiveRun /\ RunInv
    /\ DaysInv /\ OwnerInv /\ AnswerInv

-----------------------------------------------------------------------------
(* What a step may do, by its actor.                                       *)

ActsOn(w) ==
    \/ ExpireLeases(w) \/ TakeRun(w) \/ AttachInput(w) \/ AppendDay(w) \/ CompleteRun(w) \/ FailRun(w)
\* Steps that concern only the runner itself and the lock of the claim.
Moves(w) ==
    \/ BeginClaim(w) \/ NoClaim(w) \/ NothingQueued(w) \/ FreezeFails(w) \/ LosesLease(w) \/ DayFails(w)
    \/ HeartbeatRefused(w) \/ StartRunner(w) \/ StopRunner(w) \/ TimesOut(w) \/ RunnerCrashes(w)

LEMMA Steps ==
    BacktestNext <=>
        \/ \E w \in Runners : ActsOn(w) \/ Moves(w)
        \/ \E key \in Keys, q \in Requests : StartRun(key, q) \/ StartAgain(key, q)
        \/ \E r \in RunIds : CancelRun(r) \/ LeaseLapses(r)
BY DEF BacktestNext, RunnerStep, ActsOn, Moves

\* Only runner w has moved, only run r has changed.
Alone(w) == \A v \in Runners \ {w} : runner'[v] = runner[v]
AloneRun(r) == \A s \in RunIds \ {r} : backtest'[s] = backtest[s]

\* What a run keeps for good.
SameName(r) ==
    /\ backtest'[r].key = backtest[r].key /\ backtest'[r].request = backtest[r].request
Becomes(r, newStatus, token, alive) ==
    /\ backtest'[r].status = newStatus /\ backtest'[r].token = token /\ backtest'[r].alive = alive

LEMMA RecordTypes ==
    ASSUME BacktestTypeOK
    PROVE  /\ \A r \in RunIds : backtest[r] \in RunType
           /\ \A w \in Runners : runner[w] \in RunnerType
           /\ NoRun \in RunType /\ AtRest \in RunnerType
<1>1. (CHOOSE k \in Keys : TRUE) \in Keys /\ (CHOOSE q \in Requests : TRUE) \in Requests
  BY BacktestAssumption
<1>2. NoRun \in RunType
  BY <1>1 DEF NoRun, RunType, NoRunner
<1>3. AtRest \in RunnerType
  BY BacktestAssumption DEF AtRest, RunnerType
<1> QED
  BY <1>2, <1>3 DEF BacktestTypeOK, RunType, RunnerType

\* What the runner's own steps do.
LEMMA MovesEffect ==
    ASSUME BacktestTypeOK, NEW w \in Runners, Moves(w)
    PROVE  /\ UNCHANGED <<backtest, equity, answers>>
           /\ runner' \in [Runners -> RunnerType] /\ Alone(w)
           /\ claimLock' \in Runners \cup {NoRunner} /\ mishaps' \in 0..Mishaps
<1> USE DEF BacktestTypeOK, RunnerAt, RunnerTo, ComesToRest, Throws, Mishap, Alone, Working
<1>1. /\ \A v \in Runners : runner[v] \in RunnerType
      /\ runner \in [Runners -> RunnerType] /\ AtRest \in RunnerType
  BY RecordTypes DEF RunnerType
<1>2. UNCHANGED <<backtest, equity, answers>>
  BY DEF Moves, BeginClaim, NoClaim, NothingQueued, FreezeFails, LosesLease, DayFails, HeartbeatRefused,
         StartRunner, StopRunner, TimesOut, RunnerCrashes
<1>3. claimLock' \in Runners \cup {NoRunner} /\ mishaps' \in 0..Mishaps
  BY BacktestAssumption
     DEF Moves, BeginClaim, NoClaim, NothingQueued, FreezeFails, LosesLease, DayFails, HeartbeatRefused,
         StartRunner, StopRunner, TimesOut, RunnerCrashes
<1>4. \E new \in RunnerType : runner' = [runner EXCEPT ![w] = new]
  <2>1. CASE BeginClaim(w)
    <3>1. runner' = [runner EXCEPT ![w] = [runner[w] EXCEPT !.step = "take"]]
      BY <1>1, <2>1 DEF BeginClaim
    <3>2. [runner[w] EXCEPT !.step = "take"] \in RunnerType
      BY <1>1 DEF RunnerType
    <3> QED
      BY <3>1, <3>2
  <2>2. CASE NoClaim(w) \/ NothingQueued(w)
    <3>1. runner' = [runner EXCEPT ![w] = [AtRest EXCEPT !.stopping = runner[w].stopping]]
      BY <2>2 DEF NoClaim, NothingQueued
    <3>2. [AtRest EXCEPT !.stopping = runner[w].stopping] \in RunnerType
      BY <1>1 DEF RunnerType
    <3> QED
      BY <3>1, <3>2
  <2>3. CASE FreezeFails(w) \/ LosesLease(w) \/ DayFails(w)
    <3>1. PICK verdict \in {"failed", "rejected"} :
            runner' = [runner EXCEPT ![w] = [runner[w] EXCEPT !.step = "failing", !.verdict = verdict]]
      BY <1>1, <2>3 DEF FreezeFails, LosesLease, DayFails
    <3>2. [runner[w] EXCEPT !.step = "failing", !.verdict = verdict] \in RunnerType
      BY <1>1 DEF RunnerType
    <3> QED
      BY <3>1, <3>2
  <2>4. CASE HeartbeatRefused(w) \/ TimesOut(w)
    <3>1. runner' = [runner EXCEPT ![w] = [runner[w] EXCEPT !.aborted = TRUE]]
      BY <1>1, <2>4 DEF HeartbeatRefused, TimesOut
    <3>2. [runner[w] EXCEPT !.aborted = TRUE] \in RunnerType
      BY <1>1 DEF RunnerType
    <3> QED
      BY <3>1, <3>2
  <2>5. CASE StartRunner(w)
    <3>1. runner' = [runner EXCEPT ![w] = [runner[w] EXCEPT !.stopping = FALSE]]
      BY <1>1, <2>5 DEF StartRunner
    <3>2. [runner[w] EXCEPT !.stopping = FALSE] \in RunnerType
      BY <1>1 DEF RunnerType
    <3> QED
      BY <3>1, <3>2
  <2>6. CASE StopRunner(w)
    <3> DEFINE aborted == runner[w].step \in {"freeze", "days"}
    <3>1. runner' = [runner EXCEPT ![w] = [runner[w] EXCEPT !.stopping = TRUE, !.aborted = aborted]]
      BY <1>1, <2>6 DEF StopRunner
    <3>2. aborted \in BOOLEAN
      OBVIOUS
    <3> HIDE DEF aborted
    <3>3. [runner[w] EXCEPT !.stopping = TRUE, !.aborted = aborted] \in RunnerType
      BY <1>1, <3>2 DEF RunnerType
    <3> QED
      BY <3>1, <3>3
  <2>7. CASE RunnerCrashes(w)
    BY <1>1, <2>7 DEF RunnerCrashes
  <2> QED
    BY <2>1, <2>2, <2>3, <2>4, <2>5, <2>6, <2>7 DEF Moves
<1>5. runner' \in [Runners -> RunnerType] /\ Alone(w)
  BY <1>1, <1>4
<1> QED
  BY <1>2, <1>3, <1>5

\* What the steps do that change runs or their days.
LEMMA ExpireEffect ==
    ASSUME BacktestTypeOK, NEW w \in Runners, ExpireLeases(w)
    PROVE  /\ BacktestTypeOK' /\ Alone(w)
           /\ runner[w].step = "idle" /\ runner'[w] = [runner[w] EXCEPT !.step = "claim"]
           /\ \A r \in RunIds :
                /\ ~LeaseRanOut(r) => backtest'[r] = backtest[r]
                /\ LeaseRanOut(r) => Becomes(r, "failed", NoRunner, backtest[r].alive)
                /\ SameName(r) /\ backtest'[r].generation = backtest[r].generation
           /\ UNCHANGED <<equity, claimLock, answers>>
<1>1. /\ \A r \in RunIds : backtest[r] \in RunType
      /\ \A v \in Runners : runner[v] \in RunnerType
  BY RecordTypes
<1>2. \A r \in RunIds :
        [backtest[r] EXCEPT !.status = AfterLease, !.token = NoRunner] \in RunType
  BY <1>1 DEF RunType, AfterLease, Ended
<1>3. backtest' = [r \in RunIds |-> IF LeaseRanOut(r)
          THEN [backtest[r] EXCEPT !.status = AfterLease, !.token = NoRunner] ELSE backtest[r]]
  BY DEF ExpireLeases
<1>4. backtest' \in [RunIds -> RunType]
  BY <1>1, <1>2, <1>3
<1>5. [runner[w] EXCEPT !.step = "claim"] \in RunnerType
  BY <1>1 DEF RunnerType
<1>6. runner' = [runner EXCEPT ![w] = [runner[w] EXCEPT !.step = "claim"]]
  BY DEF ExpireLeases, RunnerTo, BacktestTypeOK
<1>7. runner' \in [Runners -> RunnerType] /\ Alone(w)
      /\ runner'[w] = [runner[w] EXCEPT !.step = "claim"]
  BY <1>1, <1>5, <1>6 DEF BacktestTypeOK, Alone, RunnerType
<1>8. UNCHANGED <<equity, claimLock, answers, mishaps>> /\ runner[w].step = "idle"
  BY DEF ExpireLeases, RunnerAt
<1>9. BacktestTypeOK'
  BY <1>4, <1>7, <1>8 DEF BacktestTypeOK, RunType, RunnerType
<1>10. \A r \in RunIds :
         /\ ~LeaseRanOut(r) => backtest'[r] = backtest[r]
         /\ LeaseRanOut(r) => Becomes(r, "failed", NoRunner, backtest[r].alive)
         /\ SameName(r) /\ backtest'[r].generation = backtest[r].generation
  BY <1>1, <1>3 DEF Becomes, SameName, RunType, AfterLease
<1> QED
  BY <1>7, <1>8, <1>9, <1>10

LEMMA TakeEffect ==
    ASSUME BacktestTypeOK, NEW w \in Runners, TakeRun(w)
    PROVE  /\ BacktestTypeOK' /\ Alone(w) /\ claimLock' = NoRunner
           /\ \E r \in RunIds :
                /\ backtest[r].status = "queued" /\ AloneRun(r)
                /\ Becomes(r, "preparing", w, TRUE) /\ SameName(r)
                /\ backtest'[r].generation = backtest[r].generation + 1
                /\ runner'[w].id = r /\ runner'[w].day = runner[w].day
           /\ runner[w].step = "take" /\ runner'[w].step \in {"failing", "freeze"}
           /\ UNCHANGED <<equity, answers>>
<1>1. /\ \A r \in RunIds : backtest[r] \in RunType
      /\ \A v \in Runners : runner[v] \in RunnerType
  BY RecordTypes
<1>2. PICK r \in Queued :
        /\ backtest' = [backtest EXCEPT ![r].status = "preparing", ![r].token = w, ![r].alive = TRUE,
                                        ![r].generation = @ + 1]
        /\ runner' = [runner EXCEPT ![w].id = r,
                         ![w].step = IF runner[w].stopping THEN "failing" ELSE "freeze"]
  BY DEF TakeRun
<1>3. r \in RunIds /\ backtest[r].status = "queued"
  BY DEF Queued
<1> DEFINE claimed == [backtest[r] EXCEPT !.status = "preparing", !.token = w, !.alive = TRUE,
                                          !.generation = backtest[r].generation + 1]
           next == IF runner[w].stopping THEN "failing" ELSE "freeze"
           new == [runner[w] EXCEPT !.id = r, !.step = next]
<1>4. claimed \in RunType
  <2>1. backtest[r].generation + 1 \in Nat /\ backtest[r] \in RunType
    BY <1>1, <1>3 DEF RunType
  <2>2. "preparing" \in Active /\ w \in Runners \cup {NoRunner}
    BY DEF Active
  <2> QED
    BY <2>1, <2>2 DEF RunType
<1>5. backtest' = [backtest EXCEPT ![r] = claimed] /\ runner' = [runner EXCEPT ![w] = new]
  BY <1>2, <1>3 DEF BacktestTypeOK
<1>6. next \in {"failing", "freeze"}
  OBVIOUS
<1>7. new \in RunnerType /\ new.id = r /\ new.day = runner[w].day /\ new.step = next
  <2> HIDE DEF next
  <2> QED
    BY <1>1, <1>3, <1>6 DEF RunnerType
<1>8. /\ claimed.status = "preparing" /\ claimed.token = w /\ claimed.alive = TRUE
      /\ claimed.generation = backtest[r].generation + 1
      /\ claimed.key = backtest[r].key /\ claimed.request = backtest[r].request
  BY <1>1, <1>3 DEF RunType
<1> HIDE DEF claimed, new, next
<1>9. /\ backtest' \in [RunIds -> RunType] /\ backtest'[r] = claimed /\ AloneRun(r)
      /\ runner' \in [Runners -> RunnerType] /\ runner'[w] = new /\ Alone(w)
  BY <1>3, <1>4, <1>5, <1>7 DEF BacktestTypeOK, RunType, RunnerType, Alone, AloneRun
<1>10. /\ claimLock' = NoRunner /\ UNCHANGED <<equity, answers, mishaps>> /\ runner[w].step = "take"
  BY DEF TakeRun, RunnerAt
<1>11. BacktestTypeOK'
  BY <1>9, <1>10 DEF BacktestTypeOK, RunType, RunnerType
<1>12. Becomes(r, "preparing", w, TRUE) /\ SameName(r)
  BY <1>8, <1>9 DEF Becomes, SameName
<1> QED
  BY <1>3, <1>6, <1>7, <1>8, <1>9, <1>10, <1>11, <1>12

LEMMA AttachEffect ==
    ASSUME BacktestTypeOK, RunnerInv, NEW w \in Runners, AttachInput(w)
    PROVE  LET r == runner[w].id
           IN  /\ BacktestTypeOK' /\ Alone(w) /\ LeaseHeld(w) /\ r \in RunIds /\ AloneRun(r)
               /\ Becomes(r, "running", backtest[r].token, backtest[r].alive) /\ SameName(r)
               /\ backtest'[r].generation = backtest[r].generation
               /\ runner[w].step = "freeze" /\ runner'[w] = [runner[w] EXCEPT !.step = "days"]
               /\ UNCHANGED <<equity, claimLock, answers>>
<1> DEFINE r == runner[w].id
<1>1. /\ \A s \in RunIds : backtest[s] \in RunType
      /\ \A v \in Runners : runner[v] \in RunnerType
  BY RecordTypes
<1>2. /\ runner[w].step = "freeze" /\ LeaseHeld(w) /\ r \in RunIds
      /\ UNCHANGED <<equity, claimLock, answers, mishaps>>
  BY DEF AttachInput, RunnerAt, RunnerInv, HasRun
<1> DEFINE attached == [backtest[r] EXCEPT !.status = "running"]
           new == [runner[w] EXCEPT !.step = "days"]
<1>3. /\ attached \in RunType /\ new \in RunnerType
      /\ attached.status = "running" /\ attached.token = backtest[r].token
      /\ attached.alive = backtest[r].alive /\ attached.generation = backtest[r].generation
      /\ attached.key = backtest[r].key /\ attached.request = backtest[r].request
  BY <1>1, <1>2 DEF RunType, RunnerType, Active
<1>4. backtest' = [backtest EXCEPT ![r] = attached] /\ runner' = [runner EXCEPT ![w] = new]
  BY <1>2 DEF BacktestTypeOK, AttachInput, RunnerTo
<1> HIDE DEF attached
<1>5. /\ backtest' \in [RunIds -> RunType] /\ backtest'[r] = attached /\ AloneRun(r)
      /\ runner' \in [Runners -> RunnerType] /\ runner'[w] = new /\ Alone(w)
  <2> HIDE DEF new, r
  <2> QED
    BY <1>2, <1>3, <1>4 DEF BacktestTypeOK, RunType, RunnerType, Alone, AloneRun
<1>6. BacktestTypeOK'
  BY <1>2, <1>5 DEF BacktestTypeOK, RunType, RunnerType
<1> QED
  BY <1>2, <1>3, <1>5, <1>6 DEF Becomes, SameName

LEMMA AppendEffect ==
    ASSUME BacktestTypeOK, RunnerInv, NEW w \in Runners, AppendDay(w)
    PROVE  LET r == runner[w].id
           IN  /\ BacktestTypeOK' /\ Alone(w) /\ LeaseHeld(w) /\ r \in RunIds
               /\ equity' = [equity EXCEPT ![r] = Append(equity[r], [day |-> runner[w].day + 1, by |-> w])]
               /\ runner[w].step = "days" /\ runner'[w] = [runner[w] EXCEPT !.day = runner[w].day + 1]
               /\ UNCHANGED <<backtest, claimLock, answers>>
<1> DEFINE r == runner[w].id
           written == [day |-> runner[w].day + 1, by |-> w]
           new == [runner[w] EXCEPT !.day = runner[w].day + 1]
<1>1. \A v \in Runners : runner[v] \in RunnerType
  BY RecordTypes
<1>2. /\ runner[w].step = "days" /\ LeaseHeld(w) /\ r \in RunIds /\ runner[w].day < LastDay
      /\ UNCHANGED <<backtest, claimLock, answers, mishaps>>
  BY DEF AppendDay, RunnerAt, RunnerInv, HasRun
<1>3. runner[w].day + 1 \in 1..LastDay /\ new \in RunnerType
  BY <1>1, <1>2, BacktestAssumption DEF RunnerType
<1>4. equity' = [equity EXCEPT ![r] = Append(equity[r], written)] /\ runner' = [runner EXCEPT ![w] = new]
  BY <1>2 DEF BacktestTypeOK, AppendDay
<1>5. equity' \in [RunIds -> Seq([day : 1..LastDay, by : Runners])]
  <2>1. written \in [day : 1..LastDay, by : Runners]
    BY <1>3
  <2> DEFINE Day == [day : 1..LastDay, by : Runners]
  <2> HIDE DEF written, r
  <2>2. equity \in [RunIds -> Seq(Day)] /\ equity[r] \in Seq(Day)
    BY <1>2 DEF BacktestTypeOK
  <2>3. written \in Day
    BY <2>1
  <2> HIDE DEF Day
  <2>4. Append(equity[r], written) \in Seq(Day)
    BY <2>2, <2>3
  <2>5. equity' \in [RunIds -> Seq(Day)]
    BY <1>2, <1>4, <2>2, <2>4
  <2> QED
    BY <2>5 DEF Day
<1>6. runner' \in [Runners -> RunnerType] /\ runner'[w] = new /\ Alone(w)
  <2> HIDE DEF new
  <2> QED
    BY <1>3, <1>4 DEF BacktestTypeOK, RunnerType, Alone
<1>7. BacktestTypeOK'
  BY <1>2, <1>5, <1>6 DEF BacktestTypeOK, RunnerType
<1> QED
  BY <1>2, <1>4, <1>6, <1>7

\* A run ends, or its lease does: one row changes, its name and generation stay.
Ends(r, newStatus) ==
    /\ AloneRun(r) /\ Becomes(r, newStatus, NoRunner, FALSE) /\ SameName(r)
    /\ backtest'[r].generation = backtest[r].generation

LEMMA EndsTyped ==
    ASSUME BacktestTypeOK, NEW r \in RunIds, NEW newStatus \in Ended,
           backtest' = [backtest EXCEPT ![r].status = newStatus, ![r].token = NoRunner, ![r].alive = FALSE]
    PROVE  backtest' \in [RunIds -> RunType] /\ Ends(r, newStatus)
<1> DEFINE ended == [backtest[r] EXCEPT !.status = newStatus, !.token = NoRunner, !.alive = FALSE]
<1>1. backtest[r] \in RunType /\ backtest \in [RunIds -> RunType]
  BY RecordTypes DEF BacktestTypeOK, RunType
<1>2. /\ ended \in RunType /\ ended.status = newStatus /\ ended.token = NoRunner /\ ended.alive = FALSE
      /\ ended.generation = backtest[r].generation
      /\ ended.key = backtest[r].key /\ ended.request = backtest[r].request
  BY <1>1 DEF RunType
<1>3. backtest' = [backtest EXCEPT ![r] = ended]
  BY <1>1
<1> HIDE DEF ended
<1>4. backtest'[r] = ended /\ \A s \in RunIds \ {r} : backtest'[s] = backtest[s]
  BY <1>1, <1>3
<1>5. backtest' \in [RunIds -> RunType]
  BY <1>1, <1>2, <1>3
<1> QED
  BY <1>2, <1>4, <1>5 DEF Ends, Becomes, SameName, AloneRun

LEMMA RestTyped ==
    ASSUME BacktestTypeOK, NEW w \in Runners, ComesToRest(w)
    PROVE  /\ runner' \in [Runners -> RunnerType] /\ Alone(w)
           /\ runner'[w].step = "idle" /\ runner'[w].day = 0
<1> DEFINE new == [AtRest EXCEPT !.stopping = runner[w].stopping]
<1>1. runner[w] \in RunnerType /\ runner \in [Runners -> RunnerType] /\ AtRest \in RunnerType
  BY RecordTypes DEF BacktestTypeOK, RunnerType
<1>2. new \in RunnerType /\ new.step = "idle" /\ new.day = 0
  BY <1>1 DEF RunnerType, AtRest
<1>3. runner' = [runner EXCEPT ![w] = new]
  BY DEF ComesToRest
<1> HIDE DEF new
<1> QED
  BY <1>1, <1>2, <1>3 DEF Alone

LEMMA CompleteEffect ==
    ASSUME BacktestTypeOK, RunnerInv, NEW w \in Runners, CompleteRun(w)
    PROVE  LET r == runner[w].id
           IN  /\ BacktestTypeOK' /\ Alone(w) /\ LeaseHeld(w) /\ r \in RunIds /\ Ends(r, "success")
               /\ AllDaysWritten(w) /\ runner'[w].step = "idle" /\ runner'[w].day = 0
               /\ UNCHANGED <<equity, claimLock, answers>>
<1> DEFINE r == runner[w].id
<1>1. /\ LeaseHeld(w) /\ r \in RunIds /\ AllDaysWritten(w) /\ ComesToRest(w)
      /\ backtest' = [backtest EXCEPT ![r].status = "success", ![r].token = NoRunner, ![r].alive = FALSE]
      /\ UNCHANGED <<equity, claimLock, answers, mishaps>>
  BY DEF CompleteRun, RunnerAt, RunnerInv, HasRun
<1>2. backtest' \in [RunIds -> RunType] /\ Ends(r, "success")
  BY <1>1, EndsTyped DEF Ended
<1>3. /\ runner' \in [Runners -> RunnerType] /\ Alone(w)
      /\ runner'[w].step = "idle" /\ runner'[w].day = 0
  BY <1>1, RestTyped
<1>4. BacktestTypeOK'
  BY <1>1, <1>2, <1>3 DEF BacktestTypeOK, RunType, RunnerType
<1> QED
  BY <1>1, <1>2, <1>3, <1>4

LEMMA FailEffect ==
    ASSUME BacktestTypeOK, RunnerInv, NEW w \in Runners, FailRun(w)
    PROVE  LET r == runner[w].id
           IN  /\ BacktestTypeOK' /\ Alone(w) /\ r \in RunIds
               /\ \/ backtest' = backtest
                  \/ /\ backtest[r].status \in Active
                     /\ Ends(r, runner[w].verdict) /\ runner[w].verdict \in {"failed", "rejected"}
               /\ runner'[w].step = "idle" /\ runner'[w].day = 0
               /\ UNCHANGED <<equity, claimLock, answers>>
<1> DEFINE r == runner[w].id
           verdict == runner[w].verdict
<1>1. /\ r \in RunIds /\ ComesToRest(w) /\ verdict \in {"failed", "rejected"}
      /\ UNCHANGED <<equity, claimLock, answers, mishaps>>
  BY RecordTypes DEF FailRun, RunnerAt, RunnerInv, HasRun, RunnerType
<1>2. \/ backtest' = backtest
      \/ /\ backtest[r].status \in Active
         /\ backtest' = [backtest EXCEPT ![r].status = verdict, ![r].token = NoRunner, ![r].alive = FALSE]
  BY DEF FailRun
<1>3. verdict \in Ended
  BY <1>1 DEF Ended
<1> HIDE DEF verdict
<1>4. /\ backtest' \in [RunIds -> RunType]
      /\ backtest' = backtest \/ (backtest[r].status \in Active /\ Ends(r, verdict))
  <2>1. CASE backtest' = backtest
    BY <2>1 DEF BacktestTypeOK, RunType
  <2>2. CASE backtest' # backtest
    BY <1>1, <1>2, <1>3, <2>2, EndsTyped
  <2> QED
    BY <2>1, <2>2
<1>5. /\ runner' \in [Runners -> RunnerType] /\ Alone(w)
      /\ runner'[w].step = "idle" /\ runner'[w].day = 0
  BY <1>1, RestTyped
<1>6. BacktestTypeOK'
  BY <1>1, <1>4, <1>5 DEF BacktestTypeOK, RunType, RunnerType
<1> QED
  BY <1>1, <1>4, <1>5, <1>6 DEF verdict

LEMMA CancelEffect ==
    ASSUME BacktestTypeOK, NEW r \in RunIds, CancelRun(r)
    PROVE  /\ BacktestTypeOK' /\ Ends(r, "cancelled") /\ backtest[r].status \in Active \cup {"queued"}
           /\ UNCHANGED <<equity, runner, claimLock, answers>>
<1>1. /\ backtest[r].status \in Active \cup {"queued"}
      /\ backtest' = [backtest EXCEPT ![r].status = "cancelled", ![r].token = NoRunner, ![r].alive = FALSE]
      /\ UNCHANGED <<equity, runner, claimLock, answers, mishaps>>
  BY DEF CancelRun
<1>2. backtest' \in [RunIds -> RunType] /\ Ends(r, "cancelled")
  BY <1>1, EndsTyped DEF Ended
<1>3. BacktestTypeOK'
  BY <1>1, <1>2 DEF BacktestTypeOK, RunType
<1> QED
  BY <1>1, <1>2, <1>3

LEMMA LapseEffect ==
    ASSUME BacktestTypeOK, NEW r \in RunIds, LeaseLapses(r)
    PROVE  /\ BacktestTypeOK' /\ AloneRun(r) /\ SameName(r) /\ backtest[r].alive
           /\ Becomes(r, backtest[r].status, backtest[r].token, FALSE)
           /\ backtest'[r].generation = backtest[r].generation
           /\ UNCHANGED <<equity, runner, claimLock, answers>>
<1> DEFINE lapsed == [backtest[r] EXCEPT !.alive = FALSE]
<1>1. backtest[r] \in RunType /\ backtest \in [RunIds -> RunType]
  BY RecordTypes DEF BacktestTypeOK, RunType
<1>2. /\ lapsed \in RunType /\ lapsed.status = backtest[r].status /\ lapsed.token = backtest[r].token
      /\ lapsed.alive = FALSE /\ lapsed.generation = backtest[r].generation
      /\ lapsed.key = backtest[r].key /\ lapsed.request = backtest[r].request
  BY <1>1 DEF RunType
<1>3. /\ backtest' = [backtest EXCEPT ![r] = lapsed] /\ backtest[r].alive
      /\ mishaps' \in 0..Mishaps
      /\ UNCHANGED <<equity, runner, claimLock, answers>>
  BY <1>1, BacktestAssumption DEF LeaseLapses, Mishap, BacktestTypeOK
<1> HIDE DEF lapsed
<1>4. backtest' \in [RunIds -> RunType] /\ backtest'[r] = lapsed /\ AloneRun(r)
  BY <1>1, <1>2, <1>3 DEF AloneRun
<1>5. BacktestTypeOK'
  BY <1>3, <1>4 DEF BacktestTypeOK, RunType
<1> QED
  BY <1>2, <1>3, <1>4, <1>5 DEF Becomes, SameName

LEMMA AnswerTyped ==
    ASSUME BacktestTypeOK, NEW key \in Keys, NEW q \in Requests, NEW r \in RunIds
    PROVE  answers \cup {[key |-> key, request |-> q, id |-> r]}
               \subseteq [key : Keys, request : Requests, id : RunIds]
<1> DEFINE a == [key |-> key, request |-> q, id |-> r]
           Answer == [key : Keys, request : Requests, id : RunIds]
<1>1. a \in Answer /\ answers \subseteq Answer
  BY DEF BacktestTypeOK
<1> HIDE DEF a, Answer
<1>2. answers \cup {a} \subseteq Answer
  BY <1>1
<1> QED
  BY <1>2 DEF a, Answer

LEMMA StartEffect ==
    ASSUME BacktestTypeOK, NEW key \in Keys, NEW q \in Requests, StartRun(key, q)
    PROVE  /\ BacktestTypeOK' /\ \A r \in RunIds : ~HoldsKey(r, key)
           /\ \E r \in RunIds :
                /\ backtest[r].status = "absent" /\ AloneRun(r) /\ Becomes(r, "queued", NoRunner, FALSE)
                /\ backtest'[r].key = key /\ backtest'[r].request = q /\ backtest'[r].generation = 0
                /\ answers' = answers \cup {[key |-> key, request |-> q, id |-> r]}
           /\ UNCHANGED <<equity, runner, claimLock>>
<1>1. PICK r \in RunIds :
        /\ \A s \in RunIds : backtest[s].status = "absent" <=> s >= r
        /\ backtest' = [backtest EXCEPT ![r] = [NoRun EXCEPT !.status = "queued", !.key = key, !.request = q]]
        /\ answers' = answers \cup {[key |-> key, request |-> q, id |-> r]}
  BY DEF StartRun
<1> DEFINE new == [NoRun EXCEPT !.status = "queued", !.key = key, !.request = q]
<1>2. backtest[r].status = "absent"
  BY <1>1, BacktestAssumption
<1>3. /\ new \in RunType /\ new.status = "queued" /\ new.token = NoRunner /\ new.alive = FALSE
      /\ new.generation = 0 /\ new.key = key /\ new.request = q
  BY RecordTypes DEF RunType, NoRun
<1>4. backtest' = [backtest EXCEPT ![r] = new] /\ backtest \in [RunIds -> RunType]
  BY <1>1 DEF BacktestTypeOK, RunType
<1> HIDE DEF new
<1>5. backtest' \in [RunIds -> RunType] /\ backtest'[r] = new /\ AloneRun(r)
  BY <1>3, <1>4 DEF AloneRun
<1>6. (\A s \in RunIds : ~HoldsKey(s, key)) /\ UNCHANGED <<equity, runner, claimLock, mishaps>>
  BY DEF StartRun
<1>7. answers' \subseteq [key : Keys, request : Requests, id : RunIds]
  BY <1>1, AnswerTyped
<1>8. BacktestTypeOK'
  BY <1>5, <1>6, <1>7 DEF BacktestTypeOK, RunType
<1> QED
  BY <1>1, <1>2, <1>3, <1>5, <1>6, <1>8 DEF Becomes

LEMMA AgainEffect ==
    ASSUME BacktestTypeOK, NEW key \in Keys, NEW q \in Requests, StartAgain(key, q)
    PROVE  /\ BacktestTypeOK' /\ UNCHANGED <<backtest, equity, runner, claimLock>>
           /\ \E r \in RunIds : /\ HoldsKey(r, key) /\ backtest[r].request = q
                                /\ answers' = answers \cup {[key |-> key, request |-> q, id |-> r]}
<1>1. /\ UNCHANGED <<backtest, equity, runner, claimLock, mishaps>>
      /\ \E r \in RunIds : /\ HoldsKey(r, key) /\ backtest[r].request = q
                           /\ answers' = answers \cup {[key |-> key, request |-> q, id |-> r]}
  BY DEF StartAgain, SameRequest
<1>2. answers' \subseteq [key : Keys, request : Requests, id : RunIds]
  BY <1>1, AnswerTyped
<1> QED
  BY <1>1, <1>2 DEF BacktestTypeOK

\* How a runner's own steps move it.
LEMMA MovesCases ==
    ASSUME BacktestTypeOK, NEW w \in Runners, Moves(w)
    PROVE  \/ /\ runner'[w].step = "idle" /\ runner'[w].day = 0
              /\ claimLock' = claimLock \/ claimLock = w \/ runner[w].step = "take"
           \/ /\ runner[w].step = "claim" /\ runner'[w].step = "take" /\ runner'[w].day = runner[w].day
              /\ claimLock = NoRunner /\ claimLock' = w /\ NobodyWorks
           \/ /\ Working(w) /\ runner'[w].step = "failing" /\ runner'[w].id = runner[w].id
              /\ claimLock' = claimLock
           \/ /\ runner'[w].step = runner[w].step /\ runner'[w].id = runner[w].id
              /\ runner'[w].day = runner[w].day /\ claimLock' = claimLock
<1>1. runner[w] \in RunnerType /\ runner \in [Runners -> RunnerType]
  BY RecordTypes DEF BacktestTypeOK, RunnerType
<1> USE DEF RunnerAt, RunnerTo, Throws
<1>2. CASE BeginClaim(w)
  BY <1>1, <1>2 DEF BeginClaim, RunnerType
<1>3. CASE NoClaim(w) \/ NothingQueued(w)
  <2>1. ComesToRest(w) /\ (claimLock' = claimLock \/ runner[w].step = "take")
    BY <1>3 DEF NoClaim, NothingQueued
  <2> QED
    BY <2>1, RestTyped
<1>4. CASE FreezeFails(w) \/ LosesLease(w) \/ DayFails(w)
  BY <1>1, <1>4 DEF FreezeFails, LosesLease, DayFails, Working, RunnerType
<1>5. CASE HeartbeatRefused(w) \/ TimesOut(w) \/ StartRunner(w) \/ StopRunner(w)
  BY <1>1, <1>5 DEF HeartbeatRefused, TimesOut, StartRunner, StopRunner, RunnerType
<1>6. CASE RunnerCrashes(w)
  BY <1>1, <1>6 DEF RunnerCrashes, AtRest
<1> QED
  BY <1>2, <1>3, <1>4, <1>5, <1>6 DEF Moves

-----------------------------------------------------------------------------
(* The invariant, conjunct by conjunct.                                    *)

LEMMA InitInv == BacktestInit => BacktestInv
<1> SUFFICES ASSUME BacktestInit
             PROVE  BacktestInv
  OBVIOUS
<1>1. (CHOOSE k \in Keys : TRUE) \in Keys /\ (CHOOSE q \in Requests : TRUE) \in Requests
  BY BacktestAssumption
<1>2. BacktestTypeOK
  BY <1>1, BacktestAssumption DEF BacktestInit, BacktestTypeOK, NoRun, AtRest, NoRunner
<1>3. /\ \A r \in RunIds : /\ backtest[r].status = "absent" /\ backtest[r].alive = FALSE
                           /\ backtest[r].generation = 0 /\ equity[r] = <<>>
      /\ \A w \in Runners : runner[w].step = "idle" /\ runner[w].day = 0
      /\ answers = {}
  BY DEF BacktestInit, NoRun, AtRest
<1>4. RunnerInv /\ ClaimInv /\ OwnerInv
  BY <1>3 DEF RunnerInv, ClaimInv, OwnerInv, HasRun, RunnerAt
<1>5. OneLiveRun /\ RunInv /\ DaysInv /\ AnswerInv
  BY <1>3 DEF OneLiveRun, RunInv, DaysInv, AnswerInv, Active
<1> QED
  BY <1>2, <1>4, <1>5 DEF BacktestInv

LEMMA NextRunner ==
    ASSUME BacktestTypeOK, RunnerInv, BacktestNext
    PROVE  BacktestTypeOK' /\ RunnerInv'
<1>1. ASSUME NEW w \in Runners, Alone(w),
             HasRun(w)' => runner'[w].id \in RunIds,
             runner'[w].step \notin {"days", "failing"} => runner'[w].day = 0
      PROVE  RunnerInv'
  BY <1>1 DEF RunnerInv, HasRun, Alone
<1>2. ASSUME NEW w \in Runners, Moves(w)
      PROVE  BacktestTypeOK' /\ RunnerInv'
  <2>1. BacktestTypeOK' /\ Alone(w)
    BY <1>2, MovesEffect DEF BacktestTypeOK, RunnerType
  <2>2. /\ HasRun(w)' => runner'[w].id \in RunIds
        /\ runner'[w].step \notin {"days", "failing"} => runner'[w].day = 0
    BY <1>2, MovesCases DEF RunnerInv, HasRun, Working
  <2> QED
    BY <1>1, <2>1, <2>2
<1>3. ASSUME NEW w \in Runners, ActsOn(w)
      PROVE  BacktestTypeOK' /\ RunnerInv'
  <2>1. runner[w] \in RunnerType
    BY RecordTypes
  <2>2. CASE ExpireLeases(w)
    <3>1. runner'[w].step = "claim" /\ runner'[w].day = runner[w].day /\ runner[w].step = "idle"
      BY <2>1, <2>2, ExpireEffect DEF RunnerType
    <3> QED
      BY <1>1, <2>2, <3>1, ExpireEffect DEF RunnerInv, HasRun
  <2>3. CASE TakeRun(w)
    BY <1>1, <2>3, TakeEffect DEF RunnerInv, HasRun
  <2>4. CASE AttachInput(w)
    <3>1. runner'[w].step = "days" /\ runner'[w].id = runner[w].id
      BY <2>1, <2>4, AttachEffect DEF RunnerType
    <3> QED
      BY <1>1, <2>4, <3>1, AttachEffect DEF HasRun
  <2>5. CASE AppendDay(w)
    <3>1. runner'[w].step = "days" /\ runner'[w].id = runner[w].id
      BY <2>1, <2>5, AppendEffect DEF RunnerType
    <3> QED
      BY <1>1, <2>5, <3>1, AppendEffect DEF HasRun
  <2>6. CASE CompleteRun(w)
    BY <1>1, <2>6, CompleteEffect DEF HasRun
  <2>7. CASE FailRun(w)
    BY <1>1, <2>7, FailEffect DEF HasRun
  <2> QED
    BY <1>3, <2>2, <2>3, <2>4, <2>5, <2>6, <2>7 DEF ActsOn
<1>4. ASSUME NEW r \in RunIds, CancelRun(r) \/ LeaseLapses(r)
      PROVE  BacktestTypeOK' /\ RunnerInv'
  <2>1. BacktestTypeOK' /\ UNCHANGED runner
    BY <1>4, CancelEffect, LapseEffect
  <2> QED
    BY <2>1 DEF RunnerInv, HasRun
<1>5. ASSUME NEW key \in Keys, NEW q \in Requests, StartRun(key, q) \/ StartAgain(key, q)
      PROVE  BacktestTypeOK' /\ RunnerInv'
  <2>1. BacktestTypeOK' /\ UNCHANGED runner
    BY <1>5, StartEffect, AgainEffect
  <2> QED
    BY <2>1 DEF RunnerInv, HasRun
<1> QED
  BY <1>2, <1>3, <1>4, <1>5, Steps

\* A run in work under a lease that is alive.
Live(r) == backtest[r].status \in Active /\ backtest[r].alive

\* Only the claim brings a run to life.
LEMMA NothingComesToLife ==
    ASSUME BacktestTypeOK, RunnerInv, BacktestNext, \A w \in Runners : ~TakeRun(w), NEW s \in RunIds
    PROVE  Live(s)' => Live(s)
<1>1. ASSUME NEW r \in RunIds, NEW newStatus, AloneRun(r), backtest'[r].alive = FALSE
      PROVE  Live(s)' => Live(s)
  BY <1>1 DEF Live, AloneRun
<1>2. ASSUME NEW w \in Runners, Moves(w)
      PROVE  Live(s)' => Live(s)
  BY <1>2, MovesEffect DEF Live
<1>3. ASSUME NEW w \in Runners, ActsOn(w)
      PROVE  Live(s)' => Live(s)
  <2>1. CASE ExpireLeases(w)
    BY <2>1, ExpireEffect DEF Live, LeaseRanOut, Becomes
  <2>2. CASE AttachInput(w)
    BY <2>2, AttachEffect DEF Live, AloneRun, Becomes, LeaseHeld
  <2>3. CASE AppendDay(w)
    BY <2>3, AppendEffect DEF Live
  <2>4. CASE CompleteRun(w)
    BY <2>4, CompleteEffect DEF Ends, Live, AloneRun, Becomes
  <2>5. CASE FailRun(w)
    BY <2>5, FailEffect DEF Ends, Live, AloneRun, Becomes
  <2> QED
    BY <1>3, <2>1, <2>2, <2>3, <2>4, <2>5 DEF ActsOn
<1>4. ASSUME NEW r \in RunIds, CancelRun(r) \/ LeaseLapses(r)
      PROVE  Live(s)' => Live(s)
  BY <1>4, CancelEffect, LapseEffect DEF Ends, Live, AloneRun, Becomes
<1>5. ASSUME NEW key \in Keys, NEW q \in Requests, StartRun(key, q) \/ StartAgain(key, q)
      PROVE  Live(s)' => Live(s)
  BY <1>5, StartEffect, AgainEffect DEF Live, AloneRun, Becomes
<1> QED
  BY <1>2, <1>3, <1>4, <1>5, Steps

LEMMA NextLive ==
    ASSUME BacktestTypeOK, RunnerInv, ClaimInv, OneLiveRun, BacktestNext
    PROVE  ClaimInv' /\ OneLiveRun'
<1>1. NobodyWorks <=> \A r \in RunIds : ~Live(r)
  BY DEF NobodyWorks, Live
<1>2. OneLiveRun <=> \A r, s \in RunIds : Live(r) /\ Live(s) => r = s
  BY DEF OneLiveRun, Live
<1>3. CASE \E w \in Runners : TakeRun(w)
  <2>1. PICK w \in Runners : TakeRun(w)
    BY <1>3
  <2>2. PICK r \in RunIds : AloneRun(r)
    BY <2>1, TakeEffect
  <2>3. \A s \in RunIds : Live(s)' => s = r
    BY <1>1, <2>1, <2>2, TakeEffect DEF ClaimInv, RunnerAt, Live, AloneRun
  <2>4. \A v \in Runners : runner'[v].step # "take"
    BY <2>1, TakeEffect DEF ClaimInv, RunnerAt, Alone
  <2> QED
    BY <2>3, <2>4 DEF ClaimInv, RunnerAt, OneLiveRun, Live
<1>4. CASE \A w \in Runners : ~TakeRun(w)
  <2>1. \A s \in RunIds : Live(s)' => Live(s)
    BY <1>4, NothingComesToLife
  <2>2. OneLiveRun'
    BY <1>2, <2>1 DEF OneLiveRun, Live
  <2>3. NobodyWorks => NobodyWorks'
    BY <2>1 DEF NobodyWorks, Live
  <2>4. ASSUME NEW v \in Runners, runner'[v].step = "take"
        PROVE  claimLock' = v /\ NobodyWorks
    <3>1. ASSUME NEW w \in Runners, Moves(w)
          PROVE  claimLock' = v /\ NobodyWorks
      <4>1. CASE v = w
        BY <2>4, <3>1, <4>1, MovesCases DEF ClaimInv, RunnerAt
      <4>2. CASE v # w
        <5>1. runner[v].step = "take" /\ claimLock = v /\ NobodyWorks
          BY <2>4, <3>1, <4>2, MovesEffect DEF ClaimInv, RunnerAt, Alone
        <5>2. claimLock # w /\ claimLock # NoRunner /\ runner[w].step # "take"
          BY <4>2, <5>1, BacktestAssumption DEF ClaimInv, RunnerAt, NoRunner
        <5> QED
          BY <3>1, <5>1, <5>2, MovesCases
      <4> QED
        BY <4>1, <4>2
    <3>2. ASSUME NEW w \in Runners, ActsOn(w)
          PROVE  claimLock' = v /\ NobodyWorks
      <4>1. runner[w] \in RunnerType
        BY RecordTypes
      <4>2. Alone(w) /\ claimLock' = claimLock /\ runner'[w].step # "take"
        BY <1>4, <3>2, <4>1, ExpireEffect, AttachEffect, AppendEffect, CompleteEffect, FailEffect
           DEF ActsOn, RunnerType
      <4> QED
        BY <2>4, <4>2 DEF ClaimInv, RunnerAt, Alone
    <3>3. CASE UNCHANGED <<runner, claimLock>>
      BY <2>4, <3>3 DEF ClaimInv, RunnerAt
    <3> QED
      BY <3>1, <3>2, <3>3, Steps, CancelEffect, LapseEffect, StartEffect, AgainEffect
  <2> QED
    BY <2>2, <2>3, <2>4 DEF ClaimInv, RunnerAt
<1> QED
  BY <1>3, <1>4

\* The fate of one run in one step.
Fate(r) ==
    \/ backtest'[r] = backtest[r]
    \/ /\ backtest[r].status = "absent" /\ Becomes(r, "queued", NoRunner, FALSE)
       /\ backtest'[r].generation = 0
    \/ /\ backtest[r].status = "queued" /\ backtest'[r].status = "preparing"
       /\ backtest'[r].generation = backtest[r].generation + 1
    \/ /\ backtest[r].status \in Active /\ backtest'[r].status \in Active
       /\ backtest'[r].generation = backtest[r].generation
    \/ /\ backtest[r].status \in Active \cup {"queued"} /\ backtest'[r].status \in Ended
       /\ ~backtest'[r].alive /\ backtest'[r].generation = backtest[r].generation

LEMMA Fates ==
    ASSUME BacktestTypeOK, RunnerInv, RunInv, BacktestNext, NEW s \in RunIds
    PROVE  Fate(s)
<1>1. ASSUME NEW w \in Runners, Moves(w)
      PROVE  Fate(s)
  BY <1>1, MovesEffect DEF Fate
<1>2. ASSUME NEW w \in Runners, ActsOn(w)
      PROVE  Fate(s)
  <2>1. CASE ExpireLeases(w)
    BY <2>1, ExpireEffect DEF Fate, LeaseRanOut, Becomes, Ended
  <2>2. CASE TakeRun(w)
    <3>1. PICK r \in RunIds : /\ backtest[r].status = "queued" /\ AloneRun(r)
                              /\ Becomes(r, "preparing", w, TRUE)
                              /\ backtest'[r].generation = backtest[r].generation + 1
      BY <2>2, TakeEffect
    <3> QED
      BY <3>1 DEF Fate, AloneRun, Becomes
  <2>3. CASE AttachInput(w)
    BY <2>3, AttachEffect DEF Fate, AloneRun, Becomes, LeaseHeld, Active
  <2>4. CASE AppendDay(w)
    BY <2>4, AppendEffect DEF Fate
  <2>5. CASE CompleteRun(w)
    BY <2>5, CompleteEffect DEF Fate, Ends, AloneRun, Becomes, LeaseHeld, Ended
  <2>6. CASE FailRun(w)
    BY <2>6, FailEffect DEF Fate, Ends, AloneRun, Becomes, Ended
  <2> QED
    BY <1>2, <2>1, <2>2, <2>3, <2>4, <2>5, <2>6 DEF ActsOn
<1>3. ASSUME NEW r \in RunIds, CancelRun(r)
      PROVE  Fate(s)
  BY <1>3, CancelEffect DEF Fate, Ends, AloneRun, Becomes, Ended
<1>4. ASSUME NEW r \in RunIds, LeaseLapses(r)
      PROVE  Fate(s)
  BY <1>4, LapseEffect DEF Fate, RunInv, AloneRun, Becomes
<1>5. ASSUME NEW key \in Keys, NEW q \in Requests, StartRun(key, q) \/ StartAgain(key, q)
      PROVE  Fate(s)
  BY <1>5, StartEffect, AgainEffect DEF Fate, AloneRun, Becomes
<1> QED
  BY <1>1, <1>2, <1>3, <1>4, <1>5, Steps

\* Days are written by the owner of a run in work, and by nobody else.
LEMMA DaysStay ==
    ASSUME BacktestTypeOK, RunnerInv, BacktestNext, \A w \in Runners : ~AppendDay(w)
    PROVE  equity' = equity
<1>1. ASSUME NEW w \in Runners, Moves(w) \/ ActsOn(w)
      PROVE  equity' = equity
  BY <1>1, MovesEffect, ExpireEffect, TakeEffect, AttachEffect, CompleteEffect, FailEffect DEF ActsOn
<1> QED
  BY <1>1, Steps, CancelEffect, LapseEffect, StartEffect, AgainEffect

LEMMA DaysOf ==
    ASSUME BacktestTypeOK, NEW r \in RunIds
    PROVE  equity[r] \in Seq([day : 1..LastDay, by : Runners]) /\ Len(equity[r]) \in Nat
<1>1. equity[r] \in Seq([day : 1..LastDay, by : Runners])
  BY DEF BacktestTypeOK
<1> QED
  BY <1>1

LEMMA OneDayMore ==
    ASSUME BacktestTypeOK, RunnerInv, NEW w \in Runners, AppendDay(w)
    PROVE  LET r == runner[w].id
           IN  /\ r \in RunIds /\ \A s \in RunIds \ {r} : equity'[s] = equity[s]
               /\ Len(equity'[r]) = Len(equity[r]) + 1
               /\ \A i \in 1..Len(equity[r]) : equity'[r][i] = equity[r][i]
               /\ equity'[r][Len(equity[r]) + 1].day = runner[w].day + 1
               /\ equity'[r][Len(equity[r]) + 1].by = w
<1> DEFINE r == runner[w].id
           Day == [day : 1..LastDay, by : Runners]
           written == [day |-> runner[w].day + 1, by |-> w]
<1>1. r \in RunIds /\ equity' = [equity EXCEPT ![r] = Append(equity[r], written)]
  BY AppendEffect
<1>2. equity[r] \in Seq(Day) /\ equity \in [RunIds -> Seq(Day)]
  BY <1>1 DEF BacktestTypeOK
<1>3. written.day = runner[w].day + 1 /\ written.by = w
  OBVIOUS
<1> HIDE DEF r, Day, written
<1>4. equity'[r] = Append(equity[r], written) /\ \A s \in RunIds \ {r} : equity'[s] = equity[s]
  BY <1>1, <1>2
<1>5. /\ Len(Append(equity[r], written)) = Len(equity[r]) + 1
      /\ \A i \in 1..Len(equity[r]) : Append(equity[r], written)[i] = equity[r][i]
      /\ Append(equity[r], written)[Len(equity[r]) + 1] = written
  BY <1>2
<1> QED
  BY <1>1, <1>3, <1>4, <1>5 DEF r

LEMMA NextRun ==
    ASSUME BacktestTypeOK, RunnerInv, RunInv, BacktestNext
    PROVE  RunInv'
<1> SUFFICES ASSUME NEW s \in RunIds
             PROVE  /\ backtest'[s].alive => backtest'[s].status \in Active
                    /\ backtest'[s].status \in {"absent", "queued"} =>
                         backtest'[s].generation = 0 /\ equity'[s] = <<>>
                    /\ backtest'[s].generation <= 1
  BY DEF RunInv
<1>1. /\ backtest[s].alive => backtest[s].status \in Active
      /\ backtest[s].status \in {"absent", "queued"} => backtest[s].generation = 0 /\ equity[s] = <<>>
      /\ backtest[s].generation <= 1
  BY DEF RunInv
<1>2. Fate(s)
  BY Fates
<1>3. /\ backtest'[s].alive => backtest'[s].status \in Active
      /\ backtest'[s].status \in {"absent", "queued"} =>
           /\ backtest[s].status \in {"absent", "queued"} /\ backtest'[s].generation = 0
      /\ backtest'[s].generation <= 1
  BY <1>1, <1>2 DEF Fate, Becomes, Active, Ended
<1>4. backtest[s].status \in {"absent", "queued"} => equity'[s] = equity[s]
  <2>1. CASE \E w \in Runners : AppendDay(w)
    <3>1. PICK w \in Runners : AppendDay(w)
      BY <2>1
    <3>2. LeaseHeld(w) /\ \A r \in RunIds \ {runner[w].id} : equity'[r] = equity[r]
      BY <3>1, AppendEffect, OneDayMore
    <3>3. backtest[runner[w].id].status \notin {"absent", "queued"}
      BY <3>2 DEF LeaseHeld, Active
    <3> QED
      BY <3>2, <3>3
  <2>2. CASE \A w \in Runners : ~AppendDay(w)
    BY <2>2, DaysStay
  <2> QED
    BY <2>1, <2>2
<1> QED
  BY <1>1, <1>3, <1>4

LEMMA NextDays ==
    ASSUME BacktestTypeOK, RunnerInv, RunInv, DaysInv, OwnerInv, BacktestNext
    PROVE  DaysInv'
<1>1. CASE \E w \in Runners : AppendDay(w)
  <2>1. PICK w \in Runners : AppendDay(w)
    BY <1>1
  <2> DEFINE r == runner[w].id
  <2>2. /\ r \in RunIds /\ LeaseHeld(w) /\ runner[w].step = "days" /\ backtest' = backtest
        /\ \A s \in RunIds \ {r} : equity'[s] = equity[s]
        /\ Len(equity'[r]) = Len(equity[r]) + 1
        /\ \A i \in 1..Len(equity[r]) : equity'[r][i] = equity[r][i]
        /\ equity'[r][Len(equity[r]) + 1].day = runner[w].day + 1
        /\ equity'[r][Len(equity[r]) + 1].by = w
    BY <2>1, AppendEffect, OneDayMore
  <2>3. Len(equity[r]) = runner[w].day /\ \A i \in 1..Len(equity[r]) : equity[r][i].by = w
    BY <2>2 DEF OwnerInv, OwnDays, LeaseHeld
  <2>4. backtest[r].status \in Active /\ Len(equity[r]) \in Nat
    BY <2>2, DaysOf DEF LeaseHeld
  <2>5. \A i \in 1..Len(equity'[r]) : equity'[r][i].day = i /\ equity'[r][i].by = w
    <3> SUFFICES ASSUME NEW i \in 1..Len(equity'[r])
                 PROVE  equity'[r][i].day = i /\ equity'[r][i].by = w
      OBVIOUS
    <3>1. CASE i \in 1..Len(equity[r])
      <4>1. equity[r][i].day = i
        BY <2>2, <3>1 DEF DaysInv
      <4> HIDE DEF r
      <4> QED
        BY <2>2, <2>3, <3>1, <4>1
    <3>2. CASE i = Len(equity[r]) + 1
      BY <2>2, <2>3, <3>2
    <3> HIDE DEF r
    <3> QED
      BY <2>2, <2>4, <3>1, <3>2
  <2>6. 1 \in 1..Len(equity'[r])
    <3> HIDE DEF r
    <3> QED
      BY <2>2, <2>4
  <2> HIDE DEF r
  <2>7. backtest'[r].status # "success"
    BY <2>2, <2>4 DEF Active
  <2> QED
    BY <2>2, <2>5, <2>6, <2>7 DEF DaysInv
<1>2. CASE \A w \in Runners : ~AppendDay(w)
  <2>1. equity' = equity
    BY <1>2, DaysStay
  <2>2. ASSUME NEW s \in RunIds, backtest'[s].status = "success", backtest[s].status # "success"
        PROVE  Len(equity[s]) = LastDay
    <3>1. ASSUME NEW w \in Runners, Moves(w)
          PROVE  FALSE
      BY <2>2, <3>1, MovesEffect
    <3>2. ASSUME NEW w \in Runners, ActsOn(w)
          PROVE  CompleteRun(w) /\ s = runner[w].id
      <4>1. CASE ExpireLeases(w)
        BY <2>2, <4>1, ExpireEffect DEF Becomes
      <4>2. CASE TakeRun(w)
        <5>1. PICK r \in RunIds : AloneRun(r) /\ Becomes(r, "preparing", w, TRUE)
          BY <4>2, TakeEffect
        <5> QED
          BY <2>2, <5>1 DEF Becomes, AloneRun
      <4>3. CASE AttachInput(w)
        BY <2>2, <4>3, AttachEffect DEF Becomes, AloneRun
      <4>4. CASE CompleteRun(w)
        BY <2>2, <4>4, CompleteEffect DEF Ends, AloneRun
      <4>5. CASE FailRun(w)
        BY <2>2, <4>5, FailEffect DEF Ends, Becomes, AloneRun
      <4> QED
        BY <1>2, <3>2, <4>1, <4>2, <4>3, <4>4, <4>5 DEF ActsOn
    <3>3. ASSUME NEW r \in RunIds, CancelRun(r) \/ LeaseLapses(r)
          PROVE  FALSE
      BY <2>2, <3>3, CancelEffect, LapseEffect DEF Ends, Becomes, AloneRun
    <3>4. ASSUME NEW key \in Keys, NEW q \in Requests, StartRun(key, q) \/ StartAgain(key, q)
          PROVE  FALSE
      <4>1. CASE StartRun(key, q)
        <5>1. PICK r \in RunIds : AloneRun(r) /\ Becomes(r, "queued", NoRunner, FALSE)
          BY <4>1, StartEffect
        <5> QED
          BY <2>2, <5>1 DEF Becomes, AloneRun
      <4>2. CASE StartAgain(key, q)
        BY <2>2, <4>2, AgainEffect
      <4> QED
        BY <3>4, <4>1, <4>2
    <3>5. PICK w \in Runners : CompleteRun(w) /\ s = runner[w].id
      BY <3>1, <3>2, <3>3, <3>4, Steps
    <3> QED
      BY <3>5, CompleteEffect DEF AllDaysWritten
  <2> QED
    BY <2>1, <2>2 DEF DaysInv
<1> QED
  BY <1>1, <1>2

\* Only the claim gives a run to a runner.
LEMMA Tokens ==
    ASSUME BacktestTypeOK, RunnerInv, BacktestNext, NEW v \in Runners, ~TakeRun(v), NEW s \in RunIds,
           backtest'[s].token = v
    PROVE  backtest[s].token = v
<1>1. v # NoRunner
  BY BacktestAssumption DEF NoRunner
<1>2. ASSUME NEW w \in Runners, Moves(w)
      PROVE  backtest[s].token = v
  BY <1>2, MovesEffect
<1>3. ASSUME NEW w \in Runners, ActsOn(w)
      PROVE  backtest[s].token = v
  <2>1. CASE ExpireLeases(w)
    BY <1>1, <2>1, ExpireEffect DEF Becomes
  <2>2. CASE TakeRun(w)
    <3>1. PICK r \in RunIds : AloneRun(r) /\ Becomes(r, "preparing", w, TRUE)
      BY <2>2, TakeEffect
    <3> QED
      BY <2>2, <3>1 DEF Becomes, AloneRun
  <2>3. CASE AttachInput(w)
    BY <2>3, AttachEffect DEF Becomes, AloneRun
  <2>4. CASE AppendDay(w)
    BY <2>4, AppendEffect
  <2>5. CASE CompleteRun(w)
    BY <1>1, <2>5, CompleteEffect DEF Ends, Becomes, AloneRun
  <2>6. CASE FailRun(w)
    BY <1>1, <2>6, FailEffect DEF Ends, Becomes, AloneRun
  <2> QED
    BY <1>3, <2>1, <2>2, <2>3, <2>4, <2>5, <2>6 DEF ActsOn
<1>4. ASSUME NEW r \in RunIds, CancelRun(r) \/ LeaseLapses(r)
      PROVE  backtest[s].token = v
  BY <1>1, <1>4, CancelEffect, LapseEffect DEF Ends, Becomes, AloneRun
<1>5. ASSUME NEW key \in Keys, NEW q \in Requests, StartRun(key, q) \/ StartAgain(key, q)
      PROVE  backtest[s].token = v
  BY <1>1, <1>5, StartEffect, AgainEffect DEF Becomes, AloneRun
<1> QED
  BY <1>2, <1>3, <1>4, <1>5, Steps

\* A runner that stays on its run still counts its days.
LEMMA OwnerKept ==
    ASSUME BacktestTypeOK, RunnerInv, OwnerInv, BacktestNext, NEW v \in Runners, ~TakeRun(v), ~AppendDay(v),
           runner[v].step \in {"freeze", "days"},
           runner'[v].id = runner[v].id, runner'[v].day = runner[v].day,
           backtest'[runner[v].id].token = v
    PROVE  OwnDays(v)'
<1>1. runner[v].id \in RunIds
  BY DEF RunnerInv, HasRun
<1>2. backtest[runner[v].id].token = v
  BY <1>1, Tokens
<1>3. equity'[runner[v].id] = equity[runner[v].id]
  <2>1. ASSUME NEW w \in Runners, AppendDay(w)
        PROVE  equity'[runner[v].id] = equity[runner[v].id]
    <3>1. w # v
      BY <2>1
    <3>2. backtest[runner[w].id].token = w
      BY <2>1, AppendEffect DEF LeaseHeld
    <3>3. runner[w].id # runner[v].id
      BY <1>2, <3>1, <3>2
    <3> QED
      BY <1>1, <2>1, <3>3, OneDayMore
  <2> QED
    BY <2>1, DaysStay
<1>4. OwnDays(v)
  BY <1>2 DEF OwnerInv
<1> QED
  BY <1>3, <1>4 DEF OwnDays

LEMMA NextOwner ==
    ASSUME BacktestTypeOK, RunnerInv, RunInv, OwnerInv, BacktestNext
    PROVE  OwnerInv'
<1> SUFFICES ASSUME NEW v \in Runners, runner'[v].step \in {"freeze", "days"},
                    backtest'[runner'[v].id].token = v
             PROVE  OwnDays(v)'
  BY DEF OwnerInv
<1>1. CASE TakeRun(v)
  <2>1. PICK r \in RunIds : backtest[r].status = "queued" /\ runner'[v].id = r /\ runner'[v].day = runner[v].day
    BY <1>1, TakeEffect
  <2>2. equity'[r] = <<>> /\ runner'[v].day = 0
    BY <1>1, <2>1, TakeEffect DEF RunInv, RunnerInv
  <2> QED
    BY <2>1, <2>2 DEF OwnDays
<1>2. CASE AppendDay(v)
  <2> DEFINE r == runner[v].id
  <2>1. runner[v] \in RunnerType
    BY RecordTypes
  <2>2. runner'[v].id = r /\ runner'[v].day = runner[v].day + 1 /\ OwnDays(v)
    <3>1. /\ runner[v].step = "days" /\ LeaseHeld(v)
          /\ runner'[v] = [runner[v] EXCEPT !.day = runner[v].day + 1]
      BY <1>2, AppendEffect
    <3>2. OwnDays(v)
      BY <3>1 DEF OwnerInv, LeaseHeld
    <3> QED
      BY <2>1, <3>1, <3>2 DEF RunnerType
  <2>3. /\ Len(equity'[r]) = Len(equity[r]) + 1 /\ r \in RunIds
        /\ \A i \in 1..Len(equity[r]) : equity'[r][i] = equity[r][i]
        /\ equity'[r][Len(equity[r]) + 1].by = v
    BY <1>2, OneDayMore
  <2>4. Len(equity[r]) = runner[v].day /\ (\A i \in 1..Len(equity[r]) : equity[r][i].by = v)
        /\ Len(equity[r]) \in Nat
    BY <2>2, <2>3, DaysOf DEF OwnDays
  <2> HIDE DEF r
  <2>5. \A i \in 1..Len(equity'[r]) : i \in 1..Len(equity[r]) \/ i = Len(equity[r]) + 1
    BY <2>3, <2>4
  <2>6. \A i \in 1..Len(equity'[r]) : equity'[r][i].by = v
    BY <2>3, <2>4, <2>5
  <2>7. Len(equity'[r]) = runner'[v].day
    BY <2>2, <2>3, <2>4
  <2> QED
    BY <2>2, <2>6, <2>7 DEF OwnDays
<1>3. CASE ~TakeRun(v) /\ ~AppendDay(v)
  <2> SUFFICES /\ runner[v].step \in {"freeze", "days"}
               /\ runner'[v].id = runner[v].id /\ runner'[v].day = runner[v].day
    BY <1>3, OwnerKept
  <2>1. ASSUME NEW w \in Runners, Moves(w)
        PROVE  /\ runner[v].step \in {"freeze", "days"}
               /\ runner'[v].id = runner[v].id /\ runner'[v].day = runner[v].day
    <3>1. CASE w = v
      BY <2>1, <3>1, MovesCases
    <3>2. CASE w # v
      BY <2>1, <3>2, MovesEffect DEF Alone
    <3> QED
      BY <3>1, <3>2
  <2>2. ASSUME NEW w \in Runners, ActsOn(w)
        PROVE  /\ runner[v].step \in {"freeze", "days"}
               /\ runner'[v].id = runner[v].id /\ runner'[v].day = runner[v].day
    <3>1. CASE w # v
      <4>1. Alone(w)
        BY <2>2, ExpireEffect, TakeEffect, AttachEffect, AppendEffect, CompleteEffect, FailEffect DEF ActsOn
      <4> QED
        BY <3>1, <4>1 DEF Alone
    <3>2. CASE w = v
      <4>1. runner[v] \in RunnerType
        BY RecordTypes
      <4>2. AttachInput(v)
        BY <1>3, <2>2, <3>2, <4>1, ExpireEffect, CompleteEffect, FailEffect DEF ActsOn, RunnerType
      <4> QED
        BY <4>1, <4>2, AttachEffect DEF RunnerType
    <3> QED
      BY <3>1, <3>2
  <2>3. CASE UNCHANGED runner
    BY <2>3
  <2> QED
    BY <2>1, <2>2, <2>3, Steps, CancelEffect, LapseEffect, StartEffect, AgainEffect
<1> QED
  BY <1>1, <1>2, <1>3

\* A run keeps the key and the request it was inserted with.
LEMMA NamesStay ==
    ASSUME BacktestTypeOK, RunnerInv, RunInv, BacktestNext, NEW s \in RunIds, backtest[s].status # "absent"
    PROVE  backtest'[s].status # "absent" /\ SameName(s)
<1>1. backtest'[s].status # "absent"
  BY Fates DEF Fate, Active, Ended
<1>2. ASSUME NEW w \in Runners, Moves(w)
      PROVE  SameName(s)
  BY <1>2, MovesEffect DEF SameName
<1>3. ASSUME NEW w \in Runners, ActsOn(w)
      PROVE  SameName(s)
  <2>1. CASE ExpireLeases(w)
    BY <2>1, ExpireEffect
  <2>2. CASE TakeRun(w)
    <3>1. PICK r \in RunIds : AloneRun(r) /\ SameName(r)
      BY <2>2, TakeEffect
    <3> QED
      BY <3>1 DEF SameName, AloneRun
  <2>3. CASE AttachInput(w)
    BY <2>3, AttachEffect DEF SameName, AloneRun
  <2>4. CASE AppendDay(w)
    BY <2>4, AppendEffect DEF SameName
  <2>5. CASE CompleteRun(w)
    BY <2>5, CompleteEffect DEF Ends, SameName, AloneRun
  <2>6. CASE FailRun(w)
    BY <2>6, FailEffect DEF Ends, SameName, AloneRun
  <2> QED
    BY <1>3, <2>1, <2>2, <2>3, <2>4, <2>5, <2>6 DEF ActsOn
<1>4. ASSUME NEW r \in RunIds, CancelRun(r) \/ LeaseLapses(r)
      PROVE  SameName(s)
  BY <1>4, CancelEffect, LapseEffect DEF Ends, SameName, AloneRun
<1>5. ASSUME NEW key \in Keys, NEW q \in Requests, StartRun(key, q) \/ StartAgain(key, q)
      PROVE  SameName(s)
  BY <1>5, StartEffect, AgainEffect DEF SameName, AloneRun
<1> QED
  BY <1>1, <1>2, <1>3, <1>4, <1>5, Steps

LEMMA NextAnswer ==
    ASSUME BacktestTypeOK, RunnerInv, RunInv, AnswerInv, BacktestNext
    PROVE  AnswerInv'
<1>1. \A a \in answers : a.id \in RunIds
  BY DEF BacktestTypeOK
<1>2. \A a \in answers : /\ backtest'[a.id].status # "absent"
                         /\ backtest'[a.id].key = a.key /\ backtest'[a.id].request = a.request
  BY <1>1, NamesStay DEF AnswerInv, SameName
<1>3. CASE \E key \in Keys, q \in Requests : StartRun(key, q)
  <2>1. PICK key \in Keys, q \in Requests : StartRun(key, q)
    BY <1>3
  <2>2. PICK r \in RunIds :
          /\ backtest[r].status = "absent" /\ AloneRun(r) /\ Becomes(r, "queued", NoRunner, FALSE)
          /\ backtest'[r].key = key /\ backtest'[r].request = q
          /\ answers' = answers \cup {[key |-> key, request |-> q, id |-> r]}
    BY <2>1, StartEffect
  <2>3. \A s \in RunIds : ~HoldsKey(s, key)
    BY <2>1, StartEffect
  <2>4. \A a \in answers' : /\ backtest'[a.id].status # "absent"
                            /\ backtest'[a.id].key = a.key /\ backtest'[a.id].request = a.request
    BY <1>2, <2>2 DEF Becomes
  <2>5. ASSUME NEW s \in RunIds, NEW u \in RunIds,
               backtest'[s].status # "absent", backtest'[u].status # "absent",
               backtest'[s].key = backtest'[u].key
        PROVE  s = u
    <3>1. \A x \in RunIds \ {r} : backtest'[x] = backtest[x]
      BY <2>2 DEF AloneRun
    <3>2. \A x \in RunIds \ {r} : backtest[x].status # "absent" => backtest[x].key # key
      BY <2>3 DEF HoldsKey
    <3> QED
      BY <2>2, <2>5, <3>1, <3>2 DEF AnswerInv
  <2> QED
    BY <2>4, <2>5 DEF AnswerInv
<1>4. CASE ~\E key \in Keys, q \in Requests : StartRun(key, q)
  <2>1. \A s \in RunIds : backtest'[s].status # "absent" => backtest[s].status # "absent"
    <3>1. ASSUME NEW w \in Runners, Moves(w) \/ ActsOn(w), NEW s \in RunIds, backtest[s].status = "absent"
          PROVE  backtest'[s].status = "absent"
      <4>1. CASE Moves(w) \/ AppendDay(w)
        BY <3>1, <4>1, MovesEffect, AppendEffect
      <4>2. CASE ExpireLeases(w)
        BY <3>1, <4>2, ExpireEffect DEF LeaseRanOut, Active
      <4>3. CASE TakeRun(w)
        <5>1. PICK r \in RunIds : AloneRun(r) /\ backtest[r].status = "queued"
          BY <4>3, TakeEffect
        <5> QED
          BY <3>1, <5>1 DEF AloneRun
      <4>4. CASE AttachInput(w)
        BY <3>1, <4>4, AttachEffect DEF AloneRun, LeaseHeld, Active
      <4>5. CASE CompleteRun(w)
        BY <3>1, <4>5, CompleteEffect DEF Ends, AloneRun, LeaseHeld, Active
      <4>6. CASE FailRun(w)
        BY <3>1, <4>6, FailEffect DEF Ends, AloneRun, Active
      <4> QED
        BY <3>1, <4>1, <4>2, <4>3, <4>4, <4>5, <4>6 DEF ActsOn
    <3>2. ASSUME NEW r \in RunIds, CancelRun(r) \/ LeaseLapses(r),
                 NEW s \in RunIds, backtest[s].status = "absent"
          PROVE  backtest'[s].status = "absent"
      BY <3>2, CancelEffect, LapseEffect DEF Ends, AloneRun, Becomes, Active
    <3>3. ASSUME NEW key \in Keys, NEW q \in Requests, StartAgain(key, q)
          PROVE  backtest' = backtest
      BY <3>3, AgainEffect
    <3> QED
      BY <1>4, <3>1, <3>2, <3>3, Steps
  <2>2. \A r, s \in RunIds : backtest'[r].status # "absent" /\ backtest'[s].status # "absent"
                             /\ backtest'[r].key = backtest'[s].key => r = s
    BY <2>1, NamesStay DEF AnswerInv, SameName
  <2>3. \A a \in answers' : /\ backtest'[a.id].status # "absent"
                            /\ backtest'[a.id].key = a.key /\ backtest'[a.id].request = a.request
    <3>1. ASSUME NEW key \in Keys, NEW q \in Requests, StartAgain(key, q), NEW a \in answers'
          PROVE  /\ backtest'[a.id].status # "absent"
                 /\ backtest'[a.id].key = a.key /\ backtest'[a.id].request = a.request
      BY <1>2, <3>1, AgainEffect DEF HoldsKey
    <3>2. CASE UNCHANGED answers
      BY <1>2, <3>2
    <3>3. ASSUME NEW w \in Runners, Moves(w) \/ ActsOn(w)
          PROVE  UNCHANGED answers
      BY <3>3, MovesEffect, ExpireEffect, TakeEffect, AttachEffect, AppendEffect, CompleteEffect, FailEffect
         DEF ActsOn
    <3> QED
      BY <1>4, <3>1, <3>2, <3>3, Steps, CancelEffect, LapseEffect
  <2> QED
    BY <2>2, <2>3 DEF AnswerInv
<1> QED
  BY <1>3, <1>4

LEMMA NextInv == BacktestInv /\ [BacktestNext]_backtestVars => BacktestInv'
<1>1. ASSUME BacktestInv, BacktestNext
      PROVE  BacktestInv'
  <2>1. /\ BacktestTypeOK /\ RunnerInv /\ ClaimInv /\ OneLiveRun /\ RunInv
        /\ DaysInv /\ OwnerInv /\ AnswerInv
    BY <1>1 DEF BacktestInv
  <2>2. BacktestTypeOK' /\ RunnerInv'
    BY <1>1, <2>1, NextRunner
  <2>3. ClaimInv' /\ OneLiveRun'
    BY <1>1, <2>1, NextLive
  <2>4. RunInv' /\ DaysInv'
    BY <1>1, <2>1, NextRun, NextDays
  <2>5. OwnerInv' /\ AnswerInv'
    BY <1>1, <2>1, NextOwner, NextAnswer
  <2> QED
    BY <2>2, <2>3, <2>4, <2>5 DEF BacktestInv
<1>2. ASSUME BacktestInv, UNCHANGED backtestVars
      PROVE  BacktestInv'
  <2> USE <1>2 DEF BacktestInv, backtestVars
  <2>1. BacktestTypeOK' /\ RunnerInv' /\ RunInv'
    BY DEF BacktestTypeOK, RunnerInv, RunInv, HasRun
  <2>2. ClaimInv' /\ OneLiveRun'
    BY DEF ClaimInv, OneLiveRun, RunnerAt, NobodyWorks
  <2>3. DaysInv' /\ OwnerInv' /\ AnswerInv'
    BY DEF DaysInv, OwnerInv, AnswerInv, OwnDays
  <2> QED
    BY <2>1, <2>2, <2>3
<1> QED
  BY <1>1, <1>2

-----------------------------------------------------------------------------
(* What follows for every instance.                                        *)

\* What the invariant says in the words of the properties.
LEMMA InvIsSound ==
    BacktestInv => OneLiveRun /\ SuccessIsComplete /\ ClaimedOnce /\ AnswersNameTheirRun
<1> SUFFICES ASSUME BacktestInv
             PROVE  OneLiveRun /\ SuccessIsComplete /\ ClaimedOnce /\ AnswersNameTheirRun
  OBVIOUS
<1>1. /\ BacktestTypeOK /\ OneLiveRun /\ RunInv /\ DaysInv /\ AnswerInv
  BY DEF BacktestInv
<1>2. ClaimedOnce
  BY <1>1 DEF RunInv, ClaimedOnce
<1>3. ASSUME NEW r \in RunIds, backtest[r].status = "success"
      PROVE  /\ Len(equity[r]) = LastDay
             /\ \A i \in DOMAIN equity[r] : equity[r][i].day = i /\ equity[r][i].by = equity[r][1].by
  <2>1. equity[r] \in Seq([day : 1..LastDay, by : Runners])
    BY <1>1, DaysOf
  <2>2. DOMAIN equity[r] = 1..Len(equity[r])
    BY <2>1
  <2> QED
    BY <1>1, <1>3, <2>2 DEF DaysInv
<1>4. SuccessIsComplete
  BY <1>3 DEF SuccessIsComplete
<1>5. AnswersNameTheirRun
  <2>1. \A a \in answers : a.id \in RunIds
    BY <1>1 DEF BacktestTypeOK
  <2> QED
    BY <1>1, <2>1 DEF AnswerInv, AnswersNameTheirRun
<1> QED
  BY <1>1, <1>2, <1>4, <1>5

\* What has ended has no lease, so nobody writes to it.
LEMMA NothingEndedMoves ==
    ASSUME BacktestInv, BacktestNext, NEW r \in RunIds, backtest[r].status \in Ended
    PROVE  backtest'[r] = backtest[r] /\ equity'[r] = equity[r]
<1>1. BacktestTypeOK /\ RunnerInv /\ RunInv
  BY DEF BacktestInv
<1>2. backtest'[r] = backtest[r]
  <2>1. Fate(r)
    BY <1>1, Fates
  <2> QED
    BY <2>1 DEF Fate, Active, Ended
<1>3. equity'[r] = equity[r]
  <2>1. ASSUME NEW w \in Runners, AppendDay(w)
        PROVE  equity'[r] = equity[r]
    <3>1. backtest[runner[w].id].status \in Active
      BY <1>1, <2>1, AppendEffect DEF LeaseHeld
    <3>2. r # runner[w].id
      BY <3>1 DEF Active, Ended
    <3> QED
      BY <1>1, <2>1, <3>2, OneDayMore
  <2> QED
    BY <1>1, <2>1, DaysStay
<1> QED
  BY <1>2, <1>3

\* Every variable keeps its type: run ids in the runners, the lock's holder,
\* the days of a run and what was answered.
THEOREM BacktestTypes == BacktestSpec => []BacktestTypeOK
<1>1. BacktestInv => BacktestTypeOK
  BY DEF BacktestInv
<1> QED
  BY <1>1, InitInv, NextInv, PTL DEF BacktestSpec

\* Of all processes, at most one run is in work under a live lease, no run is
\* claimed twice, a success has every formal day once and by one writer, an
\* answer names the run of its key and request, and a run that has ended is
\* final with its ledger: for any number of runners, runs, keys and requests,
\* any length of the input, and any stops, crashes, timeouts and held up
\* heartbeats.
THEOREM BacktestsSound == BacktestSpec => BacktestsAreSound
<1>1. BacktestSpec => []BacktestInv
  BY InitInv, NextInv, PTL DEF BacktestSpec
<1>2. BacktestInv /\ [BacktestNext]_backtestVars =>
        [\A r \in RunIds : backtest[r].status \in Ended
            => backtest'[r] = backtest[r] /\ equity'[r] = equity[r]]_backtestVars
  BY NothingEndedMoves
<1>3. BacktestSpec => [](OneLiveRun /\ SuccessIsComplete /\ ClaimedOnce /\ AnswersNameTheirRun)
  BY <1>1, InvIsSound, PTL
<1>4. BacktestSpec => RunIsFinal
  BY <1>1, <1>2, PTL DEF BacktestSpec, RunIsFinal
<1> QED
  BY <1>3, <1>4 DEF BacktestsAreSound

\* A list without its i-th element.
LEMMA RemoveOne ==
    ASSUME NEW S, NEW q \in Seq(S), NEW i \in 1..Len(q)
    PROVE  /\ RemoveAt(q, i) \in Seq(S) /\ Len(RemoveAt(q, i)) = Len(q) - 1
           /\ \A j \in 1..(Len(q) - 1) : RemoveAt(q, i)[j] = IF j < i THEN q[j] ELSE q[j + 1]
<1> DEFINE a == SubSeq(q, 1, i - 1)
           b == SubSeq(q, i + 1, Len(q))
<1>0. Len(q) \in Nat
  OBVIOUS
<1>1. a \in Seq(S) /\ Len(a) = i - 1 /\ \A j \in 1..(i - 1) : a[j] = q[j]
  BY <1>0
<1>2. b \in Seq(S) /\ Len(b) = Len(q) - i /\ \A j \in 1..(Len(q) - i) : b[j] = q[i + j]
  BY <1>0
<1>3. RemoveAt(q, i) = a \o b
  BY DEF RemoveAt
<1> HIDE DEF a, b
<1>4. /\ a \o b \in Seq(S) /\ Len(a \o b) = Len(a) + Len(b)
      /\ \A j \in 1..(Len(a) + Len(b)) : (a \o b)[j] = IF j <= Len(a) THEN a[j] ELSE b[j - Len(a)]
  BY <1>1, <1>2, ConcatProperties
<1> QED  BY <1>0, <1>1, <1>2, <1>3, <1>4

-----------------------------------------------------------------------------
(* Indicators: lists that mark a series once.                              *)

Mark == [series : Series, generation : Nat \ {0}]
\* A list that marks a series once.
MarkList == {q \in Seq(Mark) : \A i, j \in 1..Len(q) : q[i].series = q[j].series => i = j}
GenerationIn(q, s) ==
    IF \E i \in DOMAIN q : q[i].series = s THEN (CHOOSE m \in Range(q) : m.series = s).generation ELSE 0

LEMMA GenerationFound ==
    ASSUME NEW q \in MarkList, NEW i \in 1..Len(q)
    PROVE  GenerationIn(q, q[i].series) = q[i].generation
<1>1. q \in Seq(Mark) /\ DOMAIN q = 1..Len(q) /\ Range(q) = {q[j] : j \in 1..Len(q)}
  BY DEF MarkList, Range
<1>2. \A m \in Range(q) : m.series = q[i].series => m = q[i]
  BY <1>1 DEF MarkList
<1> QED  BY <1>1, <1>2 DEF GenerationIn

LEMMA GenerationMissing ==
    ASSUME NEW q \in MarkList, NEW s
    PROVE  /\ (\A i \in 1..Len(q) : q[i].series # s) <=> GenerationIn(q, s) = 0
           /\ GenerationIn(q, s) \in Nat
<1>1. q \in Seq(Mark) /\ DOMAIN q = 1..Len(q)
  BY DEF MarkList
<1>2. CASE \A i \in 1..Len(q) : q[i].series # s
  BY <1>1, <1>2 DEF GenerationIn
<1>3. CASE \E i \in 1..Len(q) : q[i].series = s
  <2>1. PICK i \in 1..Len(q) : q[i].series = s
    BY <1>3
  <2>2. GenerationIn(q, s) = q[i].generation /\ q[i] \in Mark
    BY <1>1, <2>1, GenerationFound
  <2> QED  BY <2>1, <2>2 DEF Mark
<1> QED  BY <1>2, <1>3

\* Two lists with the same marks of s have the same generation of s.
LEMMA SameMarkSameGeneration ==
    ASSUME NEW q \in MarkList, NEW r \in MarkList, NEW s,
           \A i \in 1..Len(q) : q[i].series = s => \E j \in 1..Len(r) : r[j] = q[i],
           \A i \in 1..Len(r) : r[i].series = s => \E j \in 1..Len(q) : q[j] = r[i]
    PROVE  GenerationIn(r, s) = GenerationIn(q, s)
<1>1. CASE \A i \in 1..Len(q) : q[i].series # s
  BY <1>1, GenerationMissing
<1>2. CASE \E i \in 1..Len(q) : q[i].series = s
  <2>1. PICK i \in 1..Len(q) : q[i].series = s
    BY <1>2
  <2>2. PICK j \in 1..Len(r) : r[j] = q[i]
    BY <2>1
  <2> QED  BY <2>1, <2>2, GenerationFound
<1> QED  BY <1>1, <1>2

\* The list without the mark of s.
Unmark(q, s) == IF GenerationIn(q, s) = 0 THEN q
                ELSE RemoveAt(q, CHOOSE i \in DOMAIN q : q[i].series = s)

LEMMA Unmarking ==
    ASSUME NEW q \in MarkList, NEW s
    PROVE  /\ Unmark(q, s) \in MarkList /\ GenerationIn(Unmark(q, s), s) = 0
           /\ \A t : t # s => GenerationIn(Unmark(q, s), t) = GenerationIn(q, t)
<1>1. CASE GenerationIn(q, s) = 0
  BY <1>1 DEF Unmark
<1>2. CASE GenerationIn(q, s) # 0
  <2> DEFINE i == CHOOSE j \in DOMAIN q : q[j].series = s
             r == RemoveAt(q, i)
  <2>0. q \in Seq(Mark) /\ DOMAIN q = 1..Len(q) /\ Len(q) \in Nat
    BY DEF MarkList
  <2>1. i \in 1..Len(q) /\ q[i].series = s
    BY <1>2, <2>0, GenerationMissing
  <2> HIDE DEF i
  <2>2. /\ r \in Seq(Mark) /\ Len(r) = Len(q) - 1
        /\ \A j \in 1..(Len(q) - 1) : r[j] = IF j < i THEN q[j] ELSE q[j + 1]
    <3> HIDE DEF r
    <3>1. /\ RemoveAt(q, i) \in Seq(Mark) /\ Len(RemoveAt(q, i)) = Len(q) - 1
          /\ \A j \in 1..(Len(q) - 1) : RemoveAt(q, i)[j] = IF j < i THEN q[j] ELSE q[j + 1]
      BY <2>0, <2>1, RemoveOne
    <3> QED  BY <3>1 DEF r
  <2> HIDE DEF r
  <2>3. r \in MarkList
    <3> DEFINE was(j) == IF j < i THEN j ELSE j + 1
    <3>1. \A j \in 1..Len(r) : was(j) \in 1..Len(q) /\ r[j] = q[was(j)]
      BY <2>0, <2>1, <2>2
    <3>2. \A j, k \in 1..Len(r) : was(j) = was(k) => j = k
      BY <2>0, <2>1, <2>2
    <3>3. \A j, k \in 1..Len(q) : q[j].series = q[k].series => j = k
      BY DEF MarkList
    <3> HIDE DEF was
    <3>4. \A j, k \in 1..Len(r) : r[j].series = r[k].series => j = k
      BY <3>1, <3>2, <3>3
    <3> QED  BY <2>2, <3>4 DEF MarkList
  <2>4. \A j \in 1..Len(r) : r[j].series # s
    BY <2>0, <2>1, <2>2 DEF MarkList
  <2>5. ASSUME NEW t, t # s
        PROVE  GenerationIn(r, t) = GenerationIn(q, t)
    <3>1. ASSUME NEW k \in 1..Len(q), q[k].series = t
          PROVE  \E j \in 1..Len(r) : r[j] = q[k]
      <4>1. k # i
        BY <2>1, <2>5, <3>1
      <4>2. CASE k < i
        BY <2>0, <2>1, <2>2, <4>2
      <4>3. CASE k > i
        <5>1. k - 1 \in 1..Len(r) /\ r[k - 1] = q[k]
          BY <2>0, <2>1, <2>2, <4>3
        <5> QED  BY <5>1
      <4> QED  BY <2>1, <4>1, <4>2, <4>3
    <3>2. \A k \in 1..Len(r) : \E j \in 1..Len(q) : q[j] = r[k]
      <4> TAKE k \in 1..Len(r)
      <4>1. CASE k < i
        BY <2>0, <2>1, <2>2, <4>1
      <4>2. CASE ~(k < i)
        <5>1. k + 1 \in 1..Len(q) /\ q[k + 1] = r[k]
          BY <2>0, <2>1, <2>2, <4>2
        <5> QED  BY <5>1
      <4> QED  BY <4>1, <4>2
    <3> QED  BY <2>3, <3>1, <3>2, SameMarkSameGeneration
  <2> QED  BY <1>2, <2>3, <2>4, <2>5, GenerationMissing DEF Unmark, i, r
<1> QED  BY <1>1, <1>2

LEMMA Marking ==
    ASSUME NEW q \in MarkList, NEW s \in Series
    PROVE  LET new == [series |-> s, generation |-> GenerationIn(q, s) + 1]
               r == Append(Unmark(q, s), new)
           IN  /\ r \in MarkList /\ GenerationIn(r, s) = GenerationIn(q, s) + 1
               /\ \A t : t # s => GenerationIn(r, t) = GenerationIn(q, t)
<1> DEFINE new == [series |-> s, generation |-> GenerationIn(q, s) + 1]
           u == Unmark(q, s)
           r == Append(u, new)
<1>1. u \in MarkList /\ u \in Seq(Mark) /\ GenerationIn(u, s) = 0
      /\ \A t : t # s => GenerationIn(u, t) = GenerationIn(q, t)
  BY Unmarking DEF MarkList
<1>2. new \in Mark /\ new.series = s /\ new.generation = GenerationIn(q, s) + 1
  BY GenerationMissing DEF Mark
<1>3. \A i \in 1..Len(u) : u[i].series # s
  BY <1>1, GenerationMissing
<1> HIDE DEF u, new
<1>4. /\ r \in Seq(Mark) /\ Len(r) = Len(u) + 1 /\ Len(u) \in Nat
      /\ \A i \in 1..Len(u) : r[i] = u[i]
      /\ r[Len(u) + 1] = new
  BY <1>1, <1>2
<1> HIDE DEF r
<1>5. r \in MarkList
  BY <1>1, <1>2, <1>3, <1>4, SMTT(30) DEF MarkList
<1>6. GenerationIn(r, s) = GenerationIn(q, s) + 1
  <2>1. Len(u) + 1 \in 1..Len(r)
    BY <1>4
  <2> QED  BY <1>2, <1>4, <1>5, <2>1, GenerationFound
<1>7. ASSUME NEW t, t # s
      PROVE  GenerationIn(r, t) = GenerationIn(q, t)
  <2>1. \A i \in 1..Len(u) : \E j \in 1..Len(r) : r[j] = u[i]
    BY <1>4
  <2>2. \A i \in 1..Len(r) : r[i].series = t => \E j \in 1..Len(u) : u[j] = r[i]
    BY <1>2, <1>4, <1>7
  <2>3. GenerationIn(r, t) = GenerationIn(u, t)
    BY <1>1, <1>5, <2>1, <2>2, SameMarkSameGeneration
  <2> QED  BY <1>1, <1>7, <2>3
<1> QED  BY <1>5, <1>6, <1>7 DEF r, u, new

-----------------------------------------------------------------------------
(* The invariant.                                                          *)

ComputerType == [step : {"idle", "fetched", "lock", "read", "commit", "computed", "proposed", "member"},
                 series : Series \cup {NoSeries}, generation : Nat, read : 0..Writes]
OnboardingType == [fetched : 0..Writes, shown : 0..Writes, member : BOOLEAN]

IndicatorTypeInv ==
    /\ bars \in [Series -> 0..Writes] /\ values \in [Series -> 0..Writes] /\ profile \in [Series -> 0..Writes]
    /\ marks \in MarkList
    /\ seriesLock \in [Series -> Computers \cup {Unheld}]
    /\ computer \in [Computers -> ComputerType] /\ onboarding \in [Onboarders -> OnboardingType]
    /\ failures \in 0..Failures

\* Who computes has a series and, from the lock to the end, the lock.
ComputerInv ==
    \A c \in Computers :
        /\ computer[c].step # "idle" => computer[c].series \in Series
        /\ computer[c].step \in {"read", "commit"} => seriesLock[computer[c].series] = c
        /\ computer[c].step \in {"fetched", "computed", "proposed", "member"} => c \in Onboarders

\* While it commits the mark it has seen can only be replaced by newer ones,
\* and if it was not, what it has read are the bars there are.
SnapshotInv ==
    \A c \in Computers : computer[c].step = "commit" =>
        LET s == computer[c].series
        IN  /\ GenerationIn(marks, s) >= computer[c].generation
            /\ GenerationIn(marks, s) = computer[c].generation => computer[c].read = bars[s]

\* No value is of bars there are not; without a mark values are the newest.
ValueInv ==
    \A s \in Series : /\ values[s] <= bars[s] /\ profile[s] <= bars[s]
                      /\ GenerationIn(marks, s) > 0 \/ values[s] = bars[s]

\* The bars an onboarding fetched are stored, in the profile once it has
\* computed, and in what it showed.
OnboardingInv ==
    \A o \in Onboarders :
        /\ computer[o].step # "idle" => onboarding[o].fetched <= bars[computer[o].series]
        /\ computer[o].step = "computed" => onboarding[o].fetched <= profile[computer[o].series]
        /\ computer[o].step = "proposed" => onboarding[o].fetched <= onboarding[o].shown

IndicatorInv == IndicatorTypeInv /\ ComputerInv /\ SnapshotInv /\ ValueInv /\ OnboardingInv

LEMMA GenerationIs == \A s : Generation(s) = GenerationIn(marks, s)
BY DEF Generation, GenerationIn

LEMMA MarkedIs ==
    ASSUME marks \in MarkList, NEW s \in Series, marks' = Marked(s)
    PROVE  /\ marks' \in MarkList /\ GenerationIn(marks', s) = GenerationIn(marks, s) + 1
           /\ \A t : t # s => GenerationIn(marks', t) = GenerationIn(marks, t)
<1>1. Marked(s) = Append(Unmark(marks, s), [series |-> s, generation |-> GenerationIn(marks, s) + 1])
  BY GenerationIs DEF Marked, Without, Unmark
<1> QED  BY <1>1, Marking

LEMMA WithoutIs ==
    ASSUME marks \in MarkList, NEW s, marks' = Without(s)
    PROVE  /\ marks' \in MarkList /\ GenerationIn(marks', s) = 0
           /\ \A t : t # s => GenerationIn(marks', t) = GenerationIn(marks, t)
<1>1. Without(s) = Unmark(marks, s)
  BY GenerationIs DEF Without, Unmark
<1> QED  BY <1>1, Unmarking

LEMMA GenerationsAreNat == marks \in MarkList => \A s : GenerationIn(marks, s) \in Nat
BY GenerationMissing

\* Only one computer changes.
AloneComputer(c) == \A d \in Computers \ {c} : computer'[d] = computer[d]

LEMMA ComputerSet ==
    ASSUME IndicatorTypeInv, NEW c \in Computers, NEW new \in ComputerType,
           computer' = [computer EXCEPT ![c] = new]
    PROVE  computer' \in [Computers -> ComputerType] /\ computer'[c] = new /\ AloneComputer(c)
BY DEF IndicatorTypeInv, AloneComputer

\* The steps of ComputerTo.
LEMMA ComputerGoes ==
    ASSUME IndicatorTypeInv, NEW c \in Computers,
           NEW step \in {"idle", "fetched", "lock", "read", "commit", "computed", "proposed", "member"},
           ComputerTo(c, step)
    PROVE  /\ computer' \in [Computers -> ComputerType] /\ AloneComputer(c)
           /\ computer'[c].step = step /\ computer'[c].series = computer[c].series
           /\ computer'[c].generation = computer[c].generation /\ computer'[c].read = computer[c].read
<1> DEFINE new == [computer[c] EXCEPT !.step = step]
<1>1. computer[c] \in ComputerType
  BY DEF IndicatorTypeInv
<1>2. /\ new \in ComputerType /\ new.step = step /\ new.series = computer[c].series
      /\ new.generation = computer[c].generation /\ new.read = computer[c].read
  BY <1>1 DEF ComputerType
<1>3. computer' = [computer EXCEPT ![c] = new]
  BY DEF ComputerTo
<1> HIDE DEF new
<1> QED  BY <1>2, <1>3, ComputerSet

LEMMA ComputerStops ==
    ASSUME IndicatorTypeInv, NEW c \in Computers, ComputerRests(c)
    PROVE  computer' \in [Computers -> ComputerType] /\ AloneComputer(c) /\ computer'[c].step = "idle"
<1>1. Resting \in ComputerType /\ Resting.step = "idle"
  BY IndicatorAssumption DEF Resting, ComputerType
<1> QED  BY <1>1, ComputerSet DEF ComputerRests

LEMMA IndicatorInitInv == IndicatorInit => IndicatorInv
<1> SUFFICES ASSUME IndicatorInit
             PROVE  IndicatorInv
  OBVIOUS
<1>1. marks \in MarkList /\ \A s : GenerationIn(marks, s) = 0
  <2>1. <<>> \in MarkList
    BY DEF MarkList
  <2> QED  BY <2>1, GenerationMissing DEF IndicatorInit
<1>2. Resting \in ComputerType /\ Resting.step = "idle" /\ NoOnboarding \in OnboardingType
  BY IndicatorAssumption DEF Resting, ComputerType, NoOnboarding, OnboardingType
<1>3. IndicatorTypeInv
  BY <1>1, <1>2, IndicatorAssumption DEF IndicatorInit, IndicatorTypeInv
<1>4. \A c \in Computers : computer[c].step = "idle"
  BY <1>2 DEF IndicatorInit
<1>5. Onboarders \subseteq Computers
  BY DEF Computers
<1>6. ValueInv
  BY DEF IndicatorInit, ValueInv
<1> QED  BY <1>3, <1>4, <1>5, <1>6 DEF IndicatorInv, ComputerInv, SnapshotInv, OnboardingInv

-----------------------------------------------------------------------------
(* Every step keeps the invariant.                                         *)

\* New bars, or a new mark without bars.
LEMMA BarsCome ==
    ASSUME IndicatorInv, NEW s \in Series, marks' = Marked(s),
           bars' \in [Series -> 0..Writes], bars'[s] >= bars[s], \A t \in Series \ {s} : bars'[t] = bars[t],
           UNCHANGED <<values, profile, seriesLock>>
    PROVE  /\ ValueInv' /\ marks' \in MarkList
           /\ \A t \in Series : bars'[t] >= bars[t] /\ GenerationIn(marks', t) \in Nat
           /\ \A c \in Computers : computer[c].step = "commit" =>
                 LET t == computer[c].series
                 IN  /\ GenerationIn(marks', t) >= computer[c].generation
                     /\ GenerationIn(marks', t) = computer[c].generation => computer[c].read = bars'[t]
<1>1. /\ marks' \in MarkList /\ GenerationIn(marks', s) = GenerationIn(marks, s) + 1
      /\ \A t : t # s => GenerationIn(marks', t) = GenerationIn(marks, t)
      /\ \A t : GenerationIn(marks, t) \in Nat
  BY MarkedIs, GenerationsAreNat DEF IndicatorInv, IndicatorTypeInv
<1>2. \A t \in Series : bars'[t] \in Int /\ bars[t] \in Int /\ values[t] \in Int /\ profile[t] \in Int
  BY IndicatorAssumption DEF IndicatorInv, IndicatorTypeInv
<1>3. ValueInv'
  BY <1>1, <1>2 DEF IndicatorInv, ValueInv
<1>4. \A c \in Computers : computer[c].generation \in Nat
                           /\ (computer[c].step = "commit" => computer[c].series \in Series)
  BY DEF IndicatorInv, IndicatorTypeInv, ComputerType, ComputerInv
<1>5. ASSUME NEW c \in Computers, computer[c].step = "commit"
      PROVE  LET t == computer[c].series
             IN  /\ GenerationIn(marks', t) >= computer[c].generation
                 /\ GenerationIn(marks', t) = computer[c].generation => computer[c].read = bars'[t]
  BY <1>1, <1>4, <1>5 DEF IndicatorInv, SnapshotInv
<1> QED  BY <1>1, <1>2, <1>3, <1>5

LEMMA StoreBarsKeeps == ASSUME IndicatorInv, NEW s \in Series, StoreBars(s) \/ MarkAnew(s) PROVE IndicatorInv'
<1>1. /\ marks' = Marked(s) /\ UNCHANGED <<values, profile, seriesLock, computer, onboarding>>
      /\ failures' \in 0..Failures
      /\ bars' \in [Series -> 0..Writes] /\ bars'[s] >= bars[s] /\ \A t \in Series \ {s} : bars'[t] = bars[t]
  BY IndicatorAssumption DEF IndicatorInv, IndicatorTypeInv, StoreBars, MarkAnew, Failing
<1>2. /\ ValueInv' /\ marks' \in MarkList
      /\ \A t \in Series : bars'[t] >= bars[t] /\ GenerationIn(marks', t) \in Nat
      /\ \A c \in Computers : computer[c].step = "commit" =>
            LET t == computer[c].series
            IN  /\ GenerationIn(marks', t) >= computer[c].generation
                /\ GenerationIn(marks', t) = computer[c].generation => computer[c].read = bars'[t]
  BY <1>1, BarsCome
<1>3. IndicatorTypeInv'
  BY <1>1, <1>2 DEF IndicatorInv, IndicatorTypeInv
<1>4. ComputerInv'
  BY <1>1 DEF IndicatorInv, ComputerInv
<1>5. SnapshotInv'
  BY <1>1, <1>2 DEF SnapshotInv
<1>6. OnboardingInv'
  <2>1. \A o \in Onboarders : /\ o \in Computers /\ onboarding[o].fetched \in Int
                              /\ computer[o].step # "idle" => computer[o].series \in Series
    BY DEF Computers, IndicatorInv, IndicatorTypeInv, ComputerInv, OnboardingType
  <2>2. \A t \in Series : bars'[t] \in Int /\ bars[t] \in Int
    BY <1>1 DEF IndicatorInv, IndicatorTypeInv
  <2> QED  BY <1>1, <1>2, <2>1, <2>2 DEF IndicatorInv, OnboardingInv
<1> QED  BY <1>2, <1>3, <1>4, <1>5, <1>6 DEF IndicatorInv

\* What holds of a computer at its step, of the onboarding it does as well.
Sound(c, here, lock, shows) ==
    /\ here.step # "idle" => here.series \in Series
    /\ here.step \in {"read", "commit"} => lock[here.series] = c
    /\ here.step \in {"fetched", "computed", "proposed", "member"} => c \in Onboarders
    /\ here.step = "commit" =>
         /\ GenerationIn(marks, here.series) >= here.generation
         /\ GenerationIn(marks, here.series) = here.generation => here.read = bars[here.series]
    /\ c \in Onboarders =>
         /\ here.step # "idle" => shows[c].fetched <= bars[here.series]
         /\ here.step = "computed" => shows[c].fetched <= profile[here.series]
         /\ here.step = "proposed" => shows[c].fetched <= shows[c].shown

LEMMA AllSound ==
    ASSUME IndicatorInv
    PROVE  \A c \in Computers : Sound(c, computer[c], seriesLock, onboarding)
BY DEF IndicatorInv, ComputerInv, SnapshotInv, OnboardingInv, Sound

\* A step of a computer that writes neither bars nor values nor marks.
LEMMA OneComputer ==
    ASSUME IndicatorInv, NEW c \in Computers,
           computer' \in [Computers -> ComputerType], AloneComputer(c),
           UNCHANGED <<bars, marks, values, profile>>, failures' \in 0..Failures,
           seriesLock' \in [Series -> Computers \cup {Unheld}],
           \A d \in Computers \ {c}, s \in Series : seriesLock[s] = d => seriesLock'[s] = d,
           onboarding' \in [Onboarders -> OnboardingType],
           \A o \in Onboarders \ {c} : onboarding'[o] = onboarding[o],
           Sound(c, computer'[c], seriesLock', onboarding')
    PROVE  IndicatorInv'
<1>1. IndicatorTypeInv' /\ ValueInv'
  BY DEF IndicatorInv, IndicatorTypeInv, ValueInv
<1>2. \A d \in Computers : Sound(d, computer'[d], seriesLock', onboarding')
  <2>1. ASSUME NEW d \in Computers \ {c}
        PROVE  Sound(d, computer'[d], seriesLock', onboarding')
    <3>1. computer'[d] = computer[d] /\ Sound(d, computer[d], seriesLock, onboarding)
      BY AllSound DEF AloneComputer
    <3>2. d \in Onboarders => onboarding'[d] = onboarding[d]
      OBVIOUS
    <3> QED  BY <3>1, <3>2 DEF Sound
  <2> QED  BY <2>1
<1>3. Onboarders \subseteq Computers
  BY DEF Computers
<1>4. ComputerInv'
  BY <1>2 DEF Sound, ComputerInv
<1>5. SnapshotInv'
  BY <1>2 DEF Sound, SnapshotInv
<1>6. OnboardingInv'
  BY <1>2, <1>3 DEF Sound, OnboardingInv
<1> QED  BY <1>1, <1>4, <1>5, <1>6 DEF IndicatorInv

LEMMA TakesMarkKeeps ==
    ASSUME IndicatorInv, NEW c \in Computers, NextDirtyIndicator(c) \/ FindMark(c)
    PROVE  IndicatorInv'
<1>0. /\ UNCHANGED <<bars, marks, values, profile, seriesLock, onboarding, failures>> /\ IndicatorTypeInv
      /\ marks \in MarkList /\ Sound(c, computer[c], seriesLock, onboarding)
  BY AllSound DEF NextDirtyIndicator, FindMark, IndicatorInv, IndicatorTypeInv
<1>1. CASE NextDirtyIndicator(c)
  <2> DEFINE new == [step |-> "lock", series |-> Head(marks).series, generation |-> Head(marks).generation, read |-> 0]
  <2>1. Head(marks) \in Mark /\ c \notin Onboarders
    BY <1>0, <1>1, IndicatorAssumption DEF NextDirtyIndicator, MarkList
  <2>2. new \in ComputerType /\ new.step = "lock" /\ new.series \in Series
    BY <2>1, IndicatorAssumption DEF Mark, ComputerType
  <2>3. computer' = [computer EXCEPT ![c] = new]
    BY <1>1 DEF NextDirtyIndicator
  <2> HIDE DEF new
  <2>4. computer' \in [Computers -> ComputerType] /\ computer'[c] = new /\ AloneComputer(c)
    BY <1>0, <2>2, <2>3, ComputerSet
  <2>5. Sound(c, computer'[c], seriesLock', onboarding')
    BY <2>1, <2>2, <2>4 DEF Sound
  <2> QED  BY <1>0, <2>4, <2>5, OneComputer DEF IndicatorTypeInv
<1>2. CASE FindMark(c) /\ Generation(computer[c].series) = 0
  <2>1. computer' \in [Computers -> ComputerType] /\ AloneComputer(c) /\ computer'[c].step = "idle"
    BY <1>0, <1>2, ComputerStops DEF FindMark
  <2>2. Sound(c, computer'[c], seriesLock', onboarding')
    BY <2>1 DEF Sound
  <2> QED  BY <1>0, <2>1, <2>2, OneComputer DEF IndicatorTypeInv
<1>3. CASE FindMark(c) /\ Generation(computer[c].series) # 0
  <2> DEFINE new == [computer[c] EXCEPT !.step = "lock", !.generation = Generation(computer[c].series)]
  <2>1. computer[c] \in ComputerType /\ Generation(computer[c].series) \in Nat
    BY <1>0, GenerationIs, GenerationsAreNat DEF IndicatorTypeInv
  <2>2. new \in ComputerType /\ new.step = "lock" /\ new.series = computer[c].series
    BY <2>1 DEF ComputerType
  <2>3. computer' = [computer EXCEPT ![c] = new] /\ computer[c].step = "fetched"
    BY <1>3 DEF FindMark, ComputerAt
  <2> HIDE DEF new
  <2>4. computer' \in [Computers -> ComputerType] /\ computer'[c] = new /\ AloneComputer(c)
    BY <1>0, <2>2, <2>3, ComputerSet
  <2>5. Sound(c, computer'[c], seriesLock', onboarding')
    BY <1>0, <2>2, <2>3, <2>4 DEF Sound
  <2> QED  BY <1>0, <2>4, <2>5, OneComputer DEF IndicatorTypeInv
<1> QED  BY <1>1, <1>2, <1>3

LEMMA UnlockEffect ==
    ASSUME IndicatorTypeInv, NEW c \in Computers, seriesLock' = Unlocked(c)
    PROVE  /\ seriesLock' \in [Series -> Computers \cup {Unheld}]
           /\ \A d \in Computers \ {c}, s \in Series : seriesLock[s] = d => seriesLock'[s] = d
BY DEF IndicatorTypeInv, Unlocked

LEMMA LockSeriesKeeps ==
    ASSUME IndicatorInv, NEW c \in Computers, LockSeries(c)
    PROVE  IndicatorInv'
<1>0. /\ UNCHANGED <<bars, marks, values, profile, onboarding, failures>> /\ IndicatorTypeInv
      /\ Sound(c, computer[c], seriesLock, onboarding) /\ computer[c].step = "lock"
  BY AllSound DEF LockSeries, ComputerAt, IndicatorInv
<1> DEFINE s == computer[c].series
<1>1. s \in Series
  BY <1>0 DEF Sound
<1>2. CASE SeriesFree(s)
  <2>1. seriesLock' = [seriesLock EXCEPT ![s] = c] /\ ComputerTo(c, "read") /\ seriesLock[s] = Unheld
    BY <1>2 DEF LockSeries, SeriesFree
  <2>2. /\ computer' \in [Computers -> ComputerType] /\ AloneComputer(c)
        /\ computer'[c].step = "read" /\ computer'[c].series = s
    BY <1>0, <2>1, ComputerGoes
  <2> HIDE DEF s
  <2>3. seriesLock' \in [Series -> Computers \cup {Unheld}] /\ seriesLock'[s] = c
        /\ \A t \in Series \ {s} : seriesLock'[t] = seriesLock[t]
    BY <1>0, <1>1, <2>1 DEF IndicatorTypeInv
  <2>4. \A d \in Computers : d # Unheld
    BY IndicatorAssumption DEF Computers, Unheld
  <2>5. \A d \in Computers \ {c}, t \in Series : seriesLock[t] = d => seriesLock'[t] = d
    BY <2>1, <2>3, <2>4
  <2>6. Sound(c, computer'[c], seriesLock', onboarding')
    BY <1>0, <1>1, <2>2, <2>3 DEF Sound, s
  <2> QED  BY <1>0, <2>2, <2>3, <2>5, <2>6, OneComputer DEF IndicatorTypeInv
<1>3. CASE ~SeriesFree(s)
  <2>1. computer' \in [Computers -> ComputerType] /\ AloneComputer(c) /\ computer'[c].step = "idle"
        /\ seriesLock' = seriesLock
    BY <1>0, <1>3, ComputerStops DEF LockSeries
  <2>2. Sound(c, computer'[c], seriesLock', onboarding')
    BY <2>1 DEF Sound
  <2> QED  BY <1>0, <2>1, <2>2, OneComputer DEF IndicatorTypeInv
<1> QED  BY <1>2, <1>3

LEMMA ReadSeriesKeeps ==
    ASSUME IndicatorInv, NEW c \in Computers, ReadSeries(c)
    PROVE  IndicatorInv'
<1>0. /\ UNCHANGED <<bars, marks, values, profile, seriesLock, onboarding, failures>> /\ IndicatorTypeInv
      /\ Sound(c, computer[c], seriesLock, onboarding) /\ computer[c].step = "read" /\ computer[c] \in ComputerType
      /\ GenerationIn(marks, computer[c].series) = computer[c].generation
  BY AllSound, GenerationIs DEF ReadSeries, ComputerAt, SameGeneration, IndicatorInv, IndicatorTypeInv
<1>1. computer[c].series \in Series /\ bars[computer[c].series] \in 0..Writes
  BY <1>0 DEF Sound, IndicatorTypeInv
<1> DEFINE new == [computer[c] EXCEPT !.step = "commit", !.read = bars[computer[c].series]]
<1>2. /\ new \in ComputerType /\ new.step = "commit" /\ new.series = computer[c].series
      /\ new.generation = computer[c].generation /\ new.read = bars[computer[c].series]
  BY <1>0, <1>1 DEF ComputerType
<1>3. computer' = [computer EXCEPT ![c] = new]
  BY DEF ReadSeries
<1> HIDE DEF new
<1>4. computer' \in [Computers -> ComputerType] /\ computer'[c] = new /\ AloneComputer(c)
  BY <1>0, <1>2, <1>3, ComputerSet
<1>5. computer[c].generation \in Int
  BY <1>0 DEF ComputerType
<1>6. Sound(c, computer'[c], seriesLock', onboarding')
  BY <1>0, <1>1, <1>2, <1>4, <1>5 DEF Sound
<1> QED  BY <1>0, <1>4, <1>6, OneComputer DEF IndicatorTypeInv

LEMMA StopsKeeps ==
    ASSUME IndicatorInv, NEW c \in Computers,
           ComputationIsStale(c) \/ ComputationFails(c) \/ ComputerCrashes(c)
    PROVE  IndicatorInv'
<1>1. /\ UNCHANGED <<bars, marks, values, profile, onboarding>> /\ IndicatorTypeInv
      /\ seriesLock' = Unlocked(c) /\ ComputerRests(c)
  BY DEF ComputationIsStale, ComputationFails, ComputerCrashes, Unlocked, IndicatorInv
<1>2. failures' \in 0..Failures
  BY IndicatorAssumption DEF ComputationIsStale, ComputationFails, ComputerCrashes, Failing, IndicatorInv, IndicatorTypeInv
<1>3. computer' \in [Computers -> ComputerType] /\ AloneComputer(c) /\ computer'[c].step = "idle"
  BY <1>1, ComputerStops
<1>4. Sound(c, computer'[c], seriesLock', onboarding')
  BY <1>3 DEF Sound
<1>5. onboarding' \in [Onboarders -> OnboardingType]
  BY <1>1 DEF IndicatorTypeInv
<1> QED  BY <1>1, <1>2, <1>3, <1>4, <1>5, UnlockEffect, OneComputer

LEMMA ShownKeeps ==
    ASSUME IndicatorInv, NEW c \in Computers, ShowProfile(c) \/ CommitOnboarding(c)
    PROVE  IndicatorInv'
<1>0. /\ UNCHANGED <<bars, marks, values, profile, seriesLock, failures>> /\ IndicatorTypeInv
      /\ Sound(c, computer[c], seriesLock, onboarding) /\ computer[c].step \in {"computed", "proposed"}
  BY AllSound DEF ShowProfile, CommitOnboarding, ComputerAt, IndicatorInv
<1>1. c \in Onboarders /\ onboarding[c] \in OnboardingType /\ computer[c].series \in Series
      /\ profile[computer[c].series] \in 0..Writes
  BY <1>0 DEF Sound, IndicatorTypeInv
<1>2. CASE ShowProfile(c)
  <2> DEFINE new == [onboarding[c] EXCEPT !.shown = profile[computer[c].series]]
  <2>1. new \in OnboardingType /\ new.shown = profile[computer[c].series] /\ new.fetched = onboarding[c].fetched
    BY <1>1 DEF OnboardingType
  <2>2. onboarding' = [onboarding EXCEPT ![c] = new] /\ computer[c].step = "computed" /\ ComputerTo(c, "proposed")
    BY <1>2 DEF ShowProfile, ComputerAt
  <2> HIDE DEF new
  <2>3. onboarding' \in [Onboarders -> OnboardingType] /\ onboarding'[c] = new
        /\ \A o \in Onboarders \ {c} : onboarding'[o] = onboarding[o]
    BY <1>0, <1>1, <2>1, <2>2 DEF IndicatorTypeInv
  <2>4. /\ computer' \in [Computers -> ComputerType] /\ AloneComputer(c)
        /\ computer'[c].step = "proposed" /\ computer'[c].series = computer[c].series
    BY <1>0, <2>2, ComputerGoes
  <2>5. Sound(c, computer'[c], seriesLock', onboarding')
    BY <1>0, <1>1, <2>1, <2>2, <2>3, <2>4 DEF Sound
  <2> QED  BY <1>0, <2>3, <2>4, <2>5, OneComputer DEF IndicatorTypeInv
<1>3. CASE CommitOnboarding(c)
  <2> DEFINE new == [onboarding[c] EXCEPT !.member = ProfileIsTheShown(c)]
             step == IF ProfileIsTheShown(c) THEN "member" ELSE "idle"
  <2>1. new \in OnboardingType /\ new.fetched = onboarding[c].fetched
    BY <1>1 DEF OnboardingType, ProfileIsTheShown
  <2>2. onboarding' = [onboarding EXCEPT ![c] = new] /\ ComputerTo(c, step)
    BY <1>3 DEF CommitOnboarding
  <2>3. step \in {"idle", "member"}
    OBVIOUS
  <2> HIDE DEF new, step
  <2>4. onboarding' \in [Onboarders -> OnboardingType] /\ onboarding'[c] = new
        /\ \A o \in Onboarders \ {c} : onboarding'[o] = onboarding[o]
    BY <1>0, <1>1, <2>1, <2>2 DEF IndicatorTypeInv
  <2>5. /\ computer' \in [Computers -> ComputerType] /\ AloneComputer(c)
        /\ computer'[c].step = step /\ computer'[c].series = computer[c].series
    BY <1>0, <2>2, <2>3, ComputerGoes
  <2>6. Sound(c, computer'[c], seriesLock', onboarding')
    BY <1>0, <1>1, <2>1, <2>3, <2>4, <2>5 DEF Sound
  <2> QED  BY <1>0, <2>4, <2>5, <2>6, OneComputer DEF IndicatorTypeInv
<1> QED  BY <1>2, <1>3

LEMMA FetchKeeps ==
    ASSUME IndicatorInv, NEW c \in Computers, NEW s \in Series, FetchForOnboarding(c, s)
    PROVE  IndicatorInv'
<1> DEFINE here == [Resting EXCEPT !.step = "fetched", !.series = s]
           new == [onboarding[c] EXCEPT !.fetched = bars[s] + 1]
<1>0. /\ UNCHANGED <<values, profile, seriesLock, failures>> /\ IndicatorTypeInv /\ c \in Onboarders
      /\ marks' = Marked(s) /\ bars[s] < Writes
      /\ bars' = [bars EXCEPT ![s] = @ + 1] /\ onboarding' = [onboarding EXCEPT ![c] = new]
      /\ computer' = [computer EXCEPT ![c] = here]
  BY DEF FetchForOnboarding, IndicatorInv
<1>1. onboarding[c] \in OnboardingType /\ bars[s] \in 0..Writes
  BY <1>0 DEF IndicatorTypeInv
<1>2. new \in OnboardingType /\ new.fetched = bars[s] + 1
  BY <1>0, <1>1, IndicatorAssumption DEF OnboardingType
<1>3. here \in ComputerType /\ here.step = "fetched" /\ here.series = s
  <2>1. Resting \in ComputerType
    BY IndicatorAssumption DEF Resting, ComputerType
  <2> QED  BY <2>1 DEF ComputerType
<1> HIDE DEF here, new
<1>4. computer' \in [Computers -> ComputerType] /\ computer'[c] = here /\ AloneComputer(c)
  BY <1>0, <1>3, ComputerSet
<1>5. onboarding' \in [Onboarders -> OnboardingType] /\ onboarding'[c] = new
      /\ \A o \in Onboarders \ {c} : onboarding'[o] = onboarding[o]
  BY <1>0, <1>2 DEF IndicatorTypeInv
<1>6. bars' \in [Series -> 0..Writes] /\ bars'[s] = bars[s] + 1 /\ \A t \in Series \ {s} : bars'[t] = bars[t]
  BY <1>0, <1>1, IndicatorAssumption DEF IndicatorTypeInv
<1>7. /\ ValueInv' /\ marks' \in MarkList
      /\ \A t \in Series : bars'[t] >= bars[t]
      /\ \A d \in Computers : computer[d].step = "commit" =>
            LET t == computer[d].series
            IN  /\ GenerationIn(marks', t) >= computer[d].generation
                /\ GenerationIn(marks', t) = computer[d].generation => computer[d].read = bars'[t]
  BY <1>0, <1>1, <1>6, BarsCome
<1>8. IndicatorTypeInv'
  BY <1>0, <1>4, <1>5, <1>6, <1>7 DEF IndicatorTypeInv
<1>9. ComputerInv'
  BY <1>0, <1>3, <1>4 DEF IndicatorInv, ComputerInv, AloneComputer
<1>10. SnapshotInv'
  BY <1>3, <1>4, <1>7 DEF SnapshotInv, AloneComputer
<1>11. OnboardingInv'
  <2>1. \A o \in Onboarders : /\ o \in Computers /\ onboarding[o].fetched \in Int
                              /\ computer[o].step # "idle" => computer[o].series \in Series
    BY <1>0 DEF Computers, IndicatorInv, IndicatorTypeInv, ComputerInv, OnboardingType
  <2>2. \A t \in Series : bars'[t] \in Int /\ bars[t] \in Int
    BY <1>6 DEF IndicatorInv, IndicatorTypeInv
  <2>3. ASSUME NEW o \in Onboarders \ {c}
        PROVE  /\ computer'[o] = computer[o] /\ onboarding'[o] = onboarding[o]
               /\ computer'[o].step # "idle" => onboarding'[o].fetched <= bars'[computer'[o].series]
    BY <1>4, <1>5, <1>7, <2>1, <2>2 DEF IndicatorInv, OnboardingInv, AloneComputer
  <2>4. onboarding'[c].fetched <= bars'[computer'[c].series]
    BY <1>1, <1>2, <1>3, <1>4, <1>5, <1>6
  <2> QED  BY <1>0, <1>3, <1>4, <2>3, <2>4 DEF IndicatorInv, OnboardingInv
<1> QED  BY <1>7, <1>8, <1>9, <1>10, <1>11 DEF IndicatorInv

\* What a commit does: the values are of the newest bars.
LEMMA CommitEffect ==
    ASSUME IndicatorInv, NEW c \in Computers, NEW success \in BOOLEAN, CommitValues(c, success)
    PROVE  LET s == computer[c].series
           IN  /\ s \in Series /\ seriesLock[s] = c
               /\ values' = [values EXCEPT ![s] = bars[s]]
               /\ profile' = IF success THEN [profile EXCEPT ![s] = bars[s]] ELSE profile
               /\ marks' = Without(s) /\ seriesLock' = Unlocked(c)
               /\ UNCHANGED <<bars, onboarding, failures>>
               /\ computer' \in [Computers -> ComputerType] /\ AloneComputer(c)
               /\ computer'[c].step \in {"idle", "computed"}
               /\ computer'[c].step = "computed" => computer'[c].series = s /\ c \in Onboarders /\ success
<1> DEFINE s == computer[c].series
           after == AfterComputing(c, success)
           here == [Resting EXCEPT !.step = after, !.series = IF after = "idle" THEN NoSeries ELSE s]
<1>0. IndicatorTypeInv /\ Sound(c, computer[c], seriesLock, onboarding) /\ computer[c].step = "commit"
      /\ GenerationIn(marks, s) = computer[c].generation
  BY AllSound, GenerationIs DEF CommitValues, ComputerAt, SameGeneration, IndicatorInv
<1>1. s \in Series /\ seriesLock[s] = c /\ computer[c].read = bars[s]
  BY <1>0 DEF Sound
<1>2. after \in {"idle", "computed"} /\ (after = "computed" => c \in Onboarders /\ success)
  BY DEF AfterComputing
<1>3. here \in ComputerType /\ here.step = after /\ (after = "computed" => here.series = s)
  <2>1. Resting \in ComputerType
    BY IndicatorAssumption DEF Resting, ComputerType
  <2> HIDE DEF after
  <2> QED  BY <1>1, <1>2, <2>1 DEF ComputerType
<1>4. /\ computer' = [computer EXCEPT ![c] = here]
      /\ values' = [values EXCEPT ![s] = bars[s]]
      /\ profile' = IF success THEN [profile EXCEPT ![s] = bars[s]] ELSE profile
      /\ marks' = Without(s) /\ seriesLock' = Unlocked(c)
      /\ UNCHANGED <<bars, onboarding, failures>>
  BY <1>1 DEF CommitValues
<1> HIDE DEF here, after
<1>5. computer' \in [Computers -> ComputerType] /\ computer'[c] = here /\ AloneComputer(c)
  BY <1>0, <1>3, <1>4, ComputerSet
<1> QED  BY <1>1, <1>2, <1>3, <1>4, <1>5

LEMMA CommitKeeps ==
    ASSUME IndicatorInv, NEW c \in Computers, NEW success \in BOOLEAN, CommitValues(c, success)
    PROVE  IndicatorInv'
<1> DEFINE s == computer[c].series
<1>1. /\ s \in Series /\ seriesLock[s] = c
      /\ values' = [values EXCEPT ![s] = bars[s]]
      /\ profile' = IF success THEN [profile EXCEPT ![s] = bars[s]] ELSE profile
      /\ marks' = Without(s) /\ seriesLock' = Unlocked(c)
      /\ UNCHANGED <<bars, onboarding, failures>>
      /\ computer' \in [Computers -> ComputerType] /\ AloneComputer(c)
      /\ computer'[c].step \in {"idle", "computed"}
      /\ computer'[c].step = "computed" => computer'[c].series = s /\ c \in Onboarders /\ success
  BY CommitEffect
<1> HIDE DEF s
<1>2. IndicatorTypeInv
  BY DEF IndicatorInv
<1>3. /\ marks' \in MarkList /\ GenerationIn(marks', s) = 0
      /\ \A t : t # s => GenerationIn(marks', t) = GenerationIn(marks, t)
  BY <1>1, <1>2, WithoutIs DEF IndicatorTypeInv
<1>4. /\ values' \in [Series -> 0..Writes] /\ values'[s] = bars[s] /\ \A t \in Series \ {s} : values'[t] = values[t]
      /\ profile' \in [Series -> 0..Writes] /\ (success => profile'[s] = bars[s])
      /\ profile'[s] \in {profile[s], bars[s]}
      /\ \A t \in Series \ {s} : profile'[t] = profile[t]
  BY <1>1, <1>2 DEF IndicatorTypeInv
<1>5. /\ seriesLock' \in [Series -> Computers \cup {Unheld}]
      /\ \A d \in Computers \ {c}, t \in Series : seriesLock[t] = d => seriesLock'[t] = d
  BY <1>1, <1>2, UnlockEffect
<1>6. \A t \in Series : bars[t] \in Int /\ profile[t] \in Int /\ values[t] \in Int
  BY <1>2 DEF IndicatorTypeInv
<1>7. IndicatorTypeInv'
  BY <1>1, <1>2, <1>3, <1>4, <1>5 DEF IndicatorTypeInv
<1>8. ValueInv' /\ \A t \in Series : profile'[t] >= profile[t]
  BY <1>1, <1>3, <1>4, <1>6 DEF IndicatorInv, ValueInv
<1>9. \A d \in Computers \ {c} : computer'[d] = computer[d] /\ Sound(d, computer[d], seriesLock, onboarding)
  BY <1>1, AllSound DEF AloneComputer
<1>10. ComputerInv'
  BY <1>1, <1>5, <1>9 DEF Sound, ComputerInv
<1>11. SnapshotInv'
  <2>1. \A d \in Computers \ {c} : computer[d].step = "commit" => computer[d].series # s
    BY <1>1, <1>9 DEF Sound
  <2> QED  BY <1>1, <1>3, <1>9, <2>1 DEF Sound, SnapshotInv
<1>12. OnboardingInv'
  <2>1. \A o \in Onboarders : o \in Computers /\ onboarding[o].fetched \in Int
    BY <1>2 DEF Computers, IndicatorTypeInv, OnboardingType
  <2>2. ASSUME NEW o \in Onboarders \ {c}
        PROVE  /\ computer'[o].step # "idle" => onboarding'[o].fetched <= bars'[computer'[o].series]
               /\ computer'[o].step = "computed" => onboarding'[o].fetched <= profile'[computer'[o].series]
               /\ computer'[o].step = "proposed" => onboarding'[o].fetched <= onboarding'[o].shown
    <3>1. computer'[o] = computer[o] /\ Sound(o, computer[o], seriesLock, onboarding) /\ onboarding'[o] = onboarding[o]
      BY <1>1, <1>9, <2>1
    <3>2. computer[o].step = "computed" => onboarding[o].fetched <= profile'[computer[o].series]
      BY <1>6, <1>8, <1>7, <2>1, <3>1 DEF Sound, IndicatorTypeInv
    <3> QED  BY <1>1, <3>1, <3>2 DEF Sound
  <2>3. c \in Onboarders => onboarding[c].fetched <= bars[s]
    <3>1. computer[c].step = "commit"
      BY DEF CommitValues, ComputerAt
    <3> QED  BY <3>1, AllSound DEF Sound, s
  <2> QED  BY <1>1, <1>4, <2>2, <2>3 DEF OnboardingInv
<1> QED  BY <1>7, <1>8, <1>10, <1>11, <1>12 DEF IndicatorInv

LEMMA IndicatorSteps ==
    IndicatorNext <=>
        \/ \E s \in Series : StoreBars(s) \/ MarkAnew(s)
        \/ \E c \in Computers :
              \/ NextDirtyIndicator(c) \/ FindMark(c) \/ LockSeries(c) \/ ReadSeries(c)
              \/ ComputationIsStale(c) \/ ComputationFails(c) \/ ComputerCrashes(c)
              \/ ShowProfile(c) \/ CommitOnboarding(c)
              \/ \E success \in BOOLEAN : CommitValues(c, success)
              \/ \E s \in Series : FetchForOnboarding(c, s)
BY DEF IndicatorNext, ComputerStep

LEMMA IndicatorInductive == IndicatorInv /\ [IndicatorNext]_indicatorVars => IndicatorInv'
<1> SUFFICES ASSUME IndicatorInv, [IndicatorNext]_indicatorVars
             PROVE  IndicatorInv'
  OBVIOUS
<1>1. CASE UNCHANGED indicatorVars
  BY <1>1 DEF indicatorVars, IndicatorInv, IndicatorTypeInv, ComputerInv, SnapshotInv, ValueInv, OnboardingInv
<1>2. CASE IndicatorNext
  BY <1>2, IndicatorSteps, StoreBarsKeeps, TakesMarkKeeps, LockSeriesKeeps, ReadSeriesKeeps, StopsKeeps,
     ShownKeeps, CommitKeeps, FetchKeeps
<1> QED  BY <1>1, <1>2

-----------------------------------------------------------------------------
(* The theorems.                                                           *)

\* Bars, marks, values, profiles, locks, computers and onboardings keep their
\* types, and a series is marked once, for any series and computers.
THEOREM IndicatorTypes == IndicatorSpec => []IndicatorTypeOK
<1>1. IndicatorInv => IndicatorTypeOK
  <2>1. MarkList = {q \in Seq([series : Series, generation : Nat \ {0}]) :
                       \A i, j \in 1..Len(q) : q[i].series = q[j].series => i = j}
    BY DEF MarkList, Mark
  <2>2. marks \in MarkList => /\ marks \in Seq([series : Series, generation : Nat \ {0}])
                              /\ \A i, j \in DOMAIN marks : marks[i].series = marks[j].series => i = j
    BY <2>1
  <2> QED  BY <2>2 DEF IndicatorInv, IndicatorTypeInv, IndicatorTypeOK, ComputerType, OnboardingType
<1> QED  BY <1>1, IndicatorInitInv, IndicatorInductive, PTL DEF IndicatorSpec

LEMMA SafeNow == IndicatorInv => UnmarkedIsFresh /\ ShownIncludesFetched
<1> SUFFICES ASSUME IndicatorInv
             PROVE  UnmarkedIsFresh /\ ShownIncludesFetched
  OBVIOUS
<1>1. UnmarkedIsFresh
  BY GenerationIs DEF IndicatorInv, ValueInv, UnmarkedIsFresh
<1>2. ShownIncludesFetched
  <2>1. \A o \in Onboarders : onboarding[o].fetched \in Int /\ onboarding[o].shown \in Int
    BY DEF IndicatorInv, IndicatorTypeInv, OnboardingType
  <2> QED  BY <2>1 DEF IndicatorInv, OnboardingInv, ShownIncludesFetched, ComputerAt
<1> QED  BY <1>1, <1>2

\* A result is of the newest bars when it is committed.
LEMMA ForwardStep ==
    ASSUME IndicatorInv, [IndicatorNext]_indicatorVars
    PROVE  \A s \in Series : values'[s] >= values[s]
<1>0. \A s \in Series : values[s] \in Int /\ bars[s] \in Int /\ values[s] <= bars[s]
  BY DEF IndicatorInv, IndicatorTypeInv, ValueInv
<1>1. CASE UNCHANGED values
  BY <1>0, <1>1
<1>2. ASSUME NEW c \in Computers, NEW success \in BOOLEAN, CommitValues(c, success)
      PROVE  \A s \in Series : values'[s] >= values[s]
  <2>1. computer[c].series \in Series /\ values' = [values EXCEPT ![computer[c].series] = bars[computer[c].series]]
    BY <1>2, CommitEffect
  <2>2. values \in [Series -> 0..Writes]
    BY DEF IndicatorInv, IndicatorTypeInv
  <2> QED  BY <1>0, <2>1, <2>2
<1>3. UNCHANGED values \/ \E c \in Computers, success \in BOOLEAN : CommitValues(c, success)
  BY IndicatorSteps DEF indicatorVars, StoreBars, MarkAnew, NextDirtyIndicator, FindMark, LockSeries, ReadSeries,
     ComputationIsStale, ComputationFails, ComputerCrashes, ShowProfile, CommitOnboarding, FetchForOnboarding
<1> QED  BY <1>1, <1>2, <1>3

\* Only the commit of an onboarding makes a member.
LEMMA MemberStep ==
    ASSUME IndicatorInv, [IndicatorNext]_indicatorVars, NEW o \in Onboarders,
           onboarding'[o].member, ~onboarding[o].member
    PROVE  onboarding[o].shown = profile[computer[o].series]
<1>0. onboarding \in [Onboarders -> OnboardingType]
  BY DEF IndicatorInv, IndicatorTypeInv
<1>1. PICK c \in Computers : CommitOnboarding(c) \/ ShowProfile(c) \/ \E s \in Series : FetchForOnboarding(c, s)
  BY IndicatorSteps DEF indicatorVars, StoreBars, MarkAnew, NextDirtyIndicator, FindMark, LockSeries, ReadSeries,
     ComputationIsStale, ComputationFails, ComputerCrashes, CommitValues
<1>2. CASE CommitOnboarding(c)
  <2>1. onboarding' = [onboarding EXCEPT ![c].member = ProfileIsTheShown(c)]
    BY <1>2 DEF CommitOnboarding
  <2>2. o = c /\ ProfileIsTheShown(c)
    BY <1>0, <2>1 DEF OnboardingType
  <2> QED  BY <2>2 DEF ProfileIsTheShown
<1>3. CASE ShowProfile(c)
  <2>1. onboarding' = [onboarding EXCEPT ![c].shown = profile[computer[c].series]]
    BY <1>3 DEF ShowProfile
  <2> QED  BY <1>0, <2>1 DEF OnboardingType
<1>4. ASSUME NEW s \in Series, FetchForOnboarding(c, s)
      PROVE  FALSE
  <2>1. onboarding' = [onboarding EXCEPT ![c].fetched = bars[s] + 1]
    BY <1>4 DEF FetchForOnboarding
  <2> QED  BY <1>0, <2>1 DEF OnboardingType
<1> QED  BY <1>1, <1>2, <1>3, <1>4

\* No write of bars is lost between two computations, though a mark that comes
\* back starts at the first generation again; no result replaces one of newer
\* bars; an instrument becomes a member on the profile that was shown for it.
THEOREM IndicatorsStayFresh == IndicatorSpec => IndicatorsAreFresh
<1>1. IndicatorInv /\ [IndicatorNext]_indicatorVars => [\A s \in Series : values'[s] >= values[s]]_indicatorVars
  BY ForwardStep
<1>2. IndicatorInv /\ [IndicatorNext]_indicatorVars
        => [\A o \in Onboarders : onboarding'[o].member /\ ~onboarding[o].member
              => onboarding[o].shown = profile[computer[o].series]]_indicatorVars
  BY MemberStep
<1> QED  BY <1>1, <1>2, SafeNow, IndicatorInitInv, IndicatorInductive, PTL
         DEF IndicatorSpec, IndicatorsAreFresh, ValuesGoForward, MemberAsShown

-----------------------------------------------------------------------------
(* Together.                                                               *)

\* Only the component that moves changes its state, so a behaviour of all is
\* one of each.
LEMMA EachWorkersSpec == WorkersSpec => Spec /\ BacktestSpec /\ IndicatorSpec
<1>1. WorkersInit => Init /\ BacktestInit /\ IndicatorInit
  BY DEF WorkersInit
<1>2. [WorkersNext]_WorkersVars => [Next]_vars /\ [BacktestNext]_backtestVars /\ [IndicatorNext]_indicatorVars
  BY DEF WorkersNext, WorkersVars
<1> QED BY <1>1, <1>2, PTL DEF WorkersSpec, Spec, BacktestSpec, IndicatorSpec

\* The types of notifications, backtests and indicators, whichever of them
\* moves: no row of a notification is tried more often than three times, and
\* no lease, lock or mark belongs to anything that is not there.
THEOREM WorkersTypes == WorkersSpec => []WorkersTypeOK
<1>1. WorkersSpec => []TypeOK
  BY EachWorkersSpec, NotificationTypes, PTL
<1>2. WorkersSpec => []BacktestTypeOK
  BY EachWorkersSpec, BacktestTypes, PTL
<1>3. WorkersSpec => []IndicatorTypeOK
  BY EachWorkersSpec, IndicatorTypes, PTL
<1> QED BY <1>1, <1>2, <1>3, PTL DEF WorkersTypeOK

=============================================================================
