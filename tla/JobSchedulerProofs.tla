------------------------- MODULE JobSchedulerProofs -------------------------
(***************************************************************************)
(* Proofs about JobScheduler: its types and attempts first, then its       *)
(* job_run rows, who owns a row, what its result says, that its end is     *)
(* final, and that the rows live the life of JobRunLifecycle; then the     *)
(* occurrences of the clock, the pipelines and the conversations.          *)
(*                                                                         *)
(* What makes the induction work for the rows is OwnerShape: while a       *)
(* worker owns a row nothing else writes it, so the row still says         *)
(* "running" -- or the worker is settling a commit of its own that it did  *)
(* not hear of.                                                            *)
(***************************************************************************)
EXTENDS JobScheduler, FiniteSetTheorems, TLAPS

\* A worker past its claim has a run, and a batch left for it; what it holds
\* mark a result fits the step it is at.
WorkerShape ==
    \A w \in Workers :
        /\ pc[w] \in {"off", "select"} \/ (run[w] \in RunIds /\ batch[w] < BatchLimit)
        /\ pc[w] = "finish" =>
              /\ result[w] \in {"success", "partial"}
              /\ runType[w] = "agent_flow" => result[w] = "success"
        /\ pc[w] = "locked" => runType[w] = "datasource"
        /\ pc[w] = "settle" => result[w] \in {"retryable", "fatal", "abort"}
        /\ pc[w] = "mirror" =>
              result[w] \in {"success", "partial", "queued", "failed", "cancelled"}

\* The bound on dueKey is a number.
LEMMA KeyBoundType == KeyBound \in Nat
BY BoundsAssumption, FS_CardinalityType DEF KeyBound

\* A row nobody can see yet has no attempt and no result behind it.
NewRow ==
    \A r \in RunIds : status[r] \in {"absent", "inserting"} =>
        attempts[r] = 0 /\ outputs[r] = 0 /\ r \notin unacked

TypeInv == TypeOK /\ WorkerShape /\ TwoAttempts /\ NewRow

USE DEF JobTypes, BudgetKinds, MaxAttempts, Finished, Terminal, RunStatus,
        SessionStatus, Phases, Results, Steps, NoRun

\* The state of a fresh database has its types.
LEMMA TypeInit == Init => TypeInv
<1> SUFFICES ASSUME Init PROVE TypeInv
  OBVIOUS
<1>1. TypeOK
  <2>1. (CHOOSE j \in Jobs : TRUE) \in Jobs
    BY JobsAssumption
  <2>2. jobOf \in [RunIds -> Jobs]
    BY <2>1 DEF Init
  <2>3. left \in [BudgetKinds -> Nat]
    BY BoundsAssumption DEF Init
  <2>4. enabled \in [Jobs -> BOOLEAN] /\ jobType \in [Jobs -> JobTypes]
    BY Zenon DEF Init
  <2>5. /\ updated \in [Jobs -> 0..Horizon] /\ lastTickAt \in -1..Horizon
        /\ now \in 0..Horizon /\ clock \in 0..Horizon
        /\ dueKey \in [RunIds -> 0..KeyBound] /\ batch \in [Workers -> 0..BatchLimit]
        /\ scheduledFor \in [RunIds -> 0..Horizon] /\ attempts \in [RunIds -> 0..MaxAttempts]
    BY JobsAssumption, BoundsAssumption, KeyBoundType DEF Init
  <2>6. /\ status \in [RunIds -> RunStatus] /\ session \in [RunIds -> SessionStatus]
        /\ outputs \in [RunIds -> {0, 1}] /\ marketLock \in {"free", "held", "orphaned"}
        /\ phase \in Phases /\ ticking \in BOOLEAN /\ overLimit \in BOOLEAN
        /\ todo \subseteq Occurrences
    BY DEF Init
  <2>7. /\ pc \in [Workers -> Steps] /\ run \in [Workers -> RunIds \cup {NoRun}]
        /\ runType \in [Workers -> JobTypes] /\ result \in [Workers -> Results]
        /\ unacked \subseteq RunIds /\ stranded \subseteq RunIds
        /\ silent \subseteq RunIds
    BY DEF Init
  <2> QED
    BY <2>2, <2>3, <2>4, <2>5, <2>6, <2>7 DEF TypeOK
<1>2. WorkerShape /\ TwoAttempts /\ NewRow
  BY DEF Init, WorkerShape, TwoAttempts, NewRow
<1> QED BY <1>1, <1>2 DEF TypeInv

\* Start-up (main, failing interrupted conversations) keeps the types.
LEMMA TypeBoot == TypeInv /\ Boot => TypeInv'
BY DEF TypeInv, TypeOK, WorkerShape, TwoAttempts, NewRow, Boot, InterruptedConversations,
  definitions, identity, row, slots, history

\* claimRun keeps the types, won or lost.
LEMMA TypeClaim == ASSUME TypeInv, NEW w \in Workers, Claim(w) PROVE TypeInv'
<1> USE DEF TypeInv, TypeOK, WorkerShape, TwoAttempts, NewRow, Claim, AtStep, Goto
<1>0. run[w] \in RunIds /\ batch[w] < BatchLimit
  OBVIOUS
<1>1. CASE Claimable(run[w])
  <2>1. status[run[w]] = "queued" /\ attempts[run[w]] + 1 \in 0..MaxAttempts
    BY <1>0, <1>1 DEF Claimable, Due
  <2>2. 0 \in 0..KeyBound
    BY KeyBoundType
  <2>3. TypeOK'
    BY <1>0, <1>1, <2>1, <2>2 DEF definitions, identity, scan, history
  <2>4. (WorkerShape /\ TwoAttempts /\ NewRow)'
    BY <1>0, <1>1, <2>1, <2>2 DEF definitions, identity, scan, history
  <2> QED BY <2>3, <2>4
<1>2. CASE ~Claimable(run[w])
  BY <1>2, BoundsAssumption DEF NextBatch, definitions, identity, row, scan, history
<1> QED BY <1>1, <1>2

\* recoverInterruptedJobRuns, one row, keeps the types.
LEMMA TypeRecoverRow ==
  ASSUME TypeInv, NEW r \in RunIds, RecoverRow(r) PROVE TypeInv'
BY DEF TypeInv, TypeOK, WorkerShape, TwoAttempts, NewRow, RecoverRow, AfterFailure, Tell, Spend,
  definitions, identity, row, slots, scan, history

\* An inserted row gets columns of their types (insertScheduledJobRun).
LEMMA TypeInsert ==
  ASSUME TypeInv, NEW o \in Occurrences, NEW mark \in {"queued", "missed"},
         InsertOccurrence(o, mark)
  PROVE  /\ jobOf' \in [RunIds -> Jobs] /\ scheduledFor' \in [RunIds -> 0..Horizon]
         /\ status' \in [RunIds -> RunStatus] /\ attempts' = attempts
         /\ dueKey' \in [RunIds -> 0..KeyBound]
         /\ session' \in [RunIds -> SessionStatus]
         /\ \A r \in RunIds : \/ status'[r] = status[r]
                              \/ status'[r] = mark /\ status[r] = "absent"
<1> USE DEF TypeInv, TypeOK
<1>1. CASE Recorded(o)
  BY <1>1 DEF InsertOccurrence, identity, row
<1>2. CASE ~Recorded(o)
  <2>1. PICK r \in RunIds, k \in 1..KeyBound :
             /\ FreshId(r)
             /\ jobOf' = [jobOf EXCEPT ![r] = o[1]]
             /\ scheduledFor' = [scheduledFor EXCEPT ![r] = o[2]]
             /\ status' = [status EXCEPT ![r] = mark]
             /\ dueKey' = [dueKey EXCEPT ![r] = IF mark = "queued" THEN k ELSE 0]
             /\ session' = [session EXCEPT ![r] =
                    IF mark = "queued" /\ jobType[o[1]] = "agent_flow"
                      THEN "queued" ELSE "none"]
             /\ UNCHANGED attempts
    BY <1>2, Zenon DEF InsertOccurrence
  <2>2. o[1] \in Jobs /\ o[2] \in 0..Horizon /\ 0 \in 0..KeyBound /\ k \in 0..KeyBound
    BY JobsAssumption, KeyBoundType DEF Occurrences
  <2> QED
    BY <2>1, <2>2 DEF FreshId
<1> QED BY <1>1, <1>2

\* The inserts of recovery and tick, failures included, keep the types.
LEMMA TypeScanInserts ==
  ASSUME TypeInv, NEW o \in Occurrences, RecordMissed(o) \/ TickInsert(o) PROVE TypeInv'
<1>1. PICK mark \in {"queued", "missed"} : InsertOccurrence(o, mark)
  BY DEF RecordMissed, TickInsert
<1>2. /\ UNCHANGED <<definitions, outputs, marketLock, phase, lastTickAt, ticking,
                     now, overLimit, slots, clock, left, history>>
      /\ todo' = todo \ {o}
  BY DEF RecordMissed, TickInsert
<1>3. /\ jobOf' \in [RunIds -> Jobs] /\ scheduledFor' \in [RunIds -> 0..Horizon]
      /\ status' \in [RunIds -> RunStatus] /\ attempts' = attempts
      /\ dueKey' \in [RunIds -> 0..KeyBound]
      /\ session' \in [RunIds -> SessionStatus]
      /\ \A r \in RunIds : \/ status'[r] = status[r]
                           \/ status'[r] = mark /\ status[r] = "absent"
  BY <1>1, TypeInsert
<1>4. TypeOK'
  BY <1>2, <1>3 DEF TypeInv, TypeOK, definitions, slots, history
<1>5. WorkerShape'
  BY <1>2 DEF TypeInv, WorkerShape, slots
<1>6. TwoAttempts' /\ NewRow'
  <2>1. outputs' = outputs /\ unacked' = unacked
    BY <1>2 DEF history
  <2>2. \A r \in RunIds : attempts[r] \in 0..MaxAttempts
    BY DEF TypeInv, TypeOK
  <2>3. ASSUME NEW r \in RunIds
        PROVE  /\ attempts'[r] <= MaxAttempts
               /\ status'[r] = "queued" => attempts'[r] < MaxAttempts
    <3>1. CASE status'[r] = status[r]
      BY <1>3, <3>1 DEF TypeInv, TwoAttempts
    <3>2. CASE status'[r] = mark /\ status[r] = "absent"
      <4>1. attempts[r] = 0 /\ attempts'[r] = attempts[r]
        BY <1>3, <3>2, Zenon DEF TypeInv, NewRow
      <4> QED BY <4>1
    <3> QED BY <1>3, <3>1, <3>2
  <2>4. ASSUME NEW r \in RunIds, status'[r] \in {"absent", "inserting"}
        PROVE  attempts'[r] = 0 /\ outputs'[r] = 0 /\ r \notin unacked'
    <3>1. status[r] = status'[r]
      BY <1>1, <1>3, <2>4
    <3> QED BY <1>3, <2>1, <2>4, <3>1 DEF TypeInv, NewRow
  <2> QED BY <2>3, <2>4 DEF TwoAttempts, NewRow
<1> QED BY <1>4, <1>5, <1>6 DEF TypeInv

\* What a scan plans to insert are occurrences.
LEMMA TypePlan ==
  ASSUME NEW S, S \subseteq Occurrences PROVE Plan(S) \subseteq Occurrences
BY DEF Plan

\* The planning of recoverMissed keeps the types.
LEMMA TypePlanMissed == TypeInv /\ PlanMissed => TypeInv'
<1> SUFFICES ASSUME TypeInv, PlanMissed PROVE TypeInv'
  OBVIOUS
<1>1. Plan(RecoveryScan(now - 1)) \subseteq Occurrences
  BY DEF Plan, RecoveryScan, Named
<1> QED
  BY <1>1 DEF TypeInv, TypeOK, WorkerShape, TwoAttempts, NewRow, PlanMissed,
     definitions, identity, row, slots, history

\* The end of recoverMissed keeps the types.
LEMMA TypeFinishRecovery == TypeInv /\ FinishRecovery => TypeInv'
<1> SUFFICES ASSUME TypeInv, FinishRecovery PROVE TypeInv'
  OBVIOUS
<1>1. Plan({o \in Named(now) : now - 1 < o[2]}) \subseteq Occurrences
  BY DEF Plan, Named
<1>2. now - 1 \in -1..Horizon
  BY JobsAssumption DEF TypeInv, TypeOK
<1>3. /\ phase' \in Phases /\ ticking' \in BOOLEAN /\ overLimit' \in BOOLEAN
      /\ lastTickAt' \in -1..Horizon /\ todo' \subseteq Occurrences
  <2>1. CASE overLimit
    BY <2>1 DEF TypeInv, TypeOK, FinishRecovery
  <2>2. CASE ~overLimit
    BY <1>1, <1>2, <2>2 DEF TypeInv, TypeOK, FinishRecovery
  <2> QED  BY <2>1, <2>2
<1>4. UNCHANGED <<definitions, identity, row, session, outputs, marketLock,
                  now, slots, clock, left, history>>
  BY DEF FinishRecovery
<1>5. TypeOK'
  BY <1>3, <1>4 DEF TypeInv, TypeOK, definitions, identity, row, slots, history
<1> QED
  BY <1>4, <1>5 DEF TypeInv, WorkerShape, TwoAttempts, NewRow, row, slots, history

\* What a process forgets when it ends leaves typed fields behind.
LEMMA TypeForgetProcess ==
  ForgetProcess => /\ pc' \in [Workers -> Steps] /\ run' \in [Workers -> RunIds \cup {NoRun}]
                   /\ runType' \in [Workers -> JobTypes] /\ result' \in [Workers -> Results]
                   /\ batch' \in [Workers -> 0..BatchLimit]
                   /\ phase' \in Phases /\ ticking' \in BOOLEAN /\ overLimit' \in BOOLEAN
                   /\ lastTickAt' \in -1..Horizon /\ now' \in 0..Horizon
                   /\ todo' \subseteq Occurrences /\ WorkerShape'
<1> SUFFICES ASSUME ForgetProcess
             PROVE  /\ pc' \in [Workers -> Steps] /\ run' \in [Workers -> RunIds \cup {NoRun}]
                    /\ runType' \in [Workers -> JobTypes] /\ result' \in [Workers -> Results]
                    /\ batch' \in [Workers -> 0..BatchLimit]
                    /\ phase' \in Phases /\ ticking' \in BOOLEAN /\ overLimit' \in BOOLEAN
                    /\ lastTickAt' \in -1..Horizon /\ now' \in 0..Horizon
                    /\ todo' \subseteq Occurrences /\ WorkerShape'
  OBVIOUS
<1>1. batch' \in [Workers -> 0..BatchLimit] /\ lastTickAt' \in -1..Horizon /\ now' \in 0..Horizon
  BY JobsAssumption, BoundsAssumption DEF ForgetProcess
<1>2. WorkerShape'
  BY DEF ForgetProcess, WorkerShape
<1> QED BY <1>1, <1>2 DEF ForgetProcess

\* stop, exit and crash, and the lock the server frees, keep the types.
LEMMA TypeProcess ==
  TypeInv /\ (Stop \/ Exit \/ Crash \/ OrphanedLockReleased) => TypeInv'
<1> USE DEF TypeInv, TypeOK, TwoAttempts, NewRow, definitions, identity, row, history
<1>1. TypeInv /\ Stop => TypeInv'
  BY DEF Stop, Spend, slots, WorkerShape
<1>2. TypeInv /\ Exit => TypeInv'
  BY TypeForgetProcess DEF Exit
<1>3. ASSUME TypeInv, Crash PROVE TypeInv'
  <2>1. 0 \in 0..KeyBound
    BY KeyBoundType
  <2>2. ForgetProcess
    BY <1>3 DEF Crash
  <2>3. /\ status' \in [RunIds -> RunStatus] /\ dueKey' \in [RunIds -> 0..KeyBound]
        /\ session' \in [RunIds -> SessionStatus]
        /\ \A r \in RunIds : \/ status'[r] = status[r]
                             \/ status'[r] = "absent" /\ status[r] = "inserting"
    BY <1>3, <2>1 DEF Crash
  <2>4. left' \in [BudgetKinds -> Nat] /\ marketLock' \in {"free", "held", "orphaned"}
    BY <1>3 DEF Crash, Spend
  <2>5. UNCHANGED <<definitions, identity, attempts, outputs, clock, history>>
    BY <1>3 DEF Crash
  <2>6. (TwoAttempts /\ NewRow)'
    BY <1>3, <2>3, <2>5
  <2>7. TypeOK'
    BY <1>3, <2>2, <2>3, <2>4, <2>5, TypeForgetProcess
  <2> QED BY <2>2, <2>6, <2>7, TypeForgetProcess
<1>4. TypeInv /\ OrphanedLockReleased => TypeInv'
  BY DEF OrphanedLockReleased, slots, scan, WorkerShape
<1> QED BY <1>1, <1>2, <1>3, <1>4

\* A tick that begins, ends or starts workers keeps the types.
LEMMA TypeTick ==
  TypeInv /\ (TickBegin \/ TickEnd \/ TickFails) => TypeInv'
<1> USE DEF TypeInv, TypeOK, TwoAttempts, NewRow, definitions, identity, row, history
<1>1. TypeInv /\ TickBegin => TypeInv'
  <2>1. Plan(TickScan(clock)) \subseteq Occurrences
    BY DEF Plan, TickScan, Named
  <2> QED BY <2>1 DEF TickBegin, slots, WorkerShape
<1>2. ASSUME TypeInv, TickEnd PROVE TypeInv'
  <2>1. /\ pc' \in [Workers -> Steps] /\ WorkerShape'
        /\ UNCHANGED <<run, runType, result, batch>>
    BY <1>2 DEF TickEnd, StartWorkers, slots, WorkerShape
  <2>2. phase' \in Phases /\ ticking' \in BOOLEAN
    BY <1>2 DEF TickEnd
  <2>5. lastTickAt' = now /\ now \in -1..Horizon
    BY <1>2, JobsAssumption DEF TickEnd
  <2>3. UNCHANGED <<definitions, identity, row, session, outputs, marketLock,
                    now, todo, overLimit, clock, left, history>>
    BY <1>2 DEF TickEnd
  <2>4. TypeOK'
    BY <1>2, <2>1, <2>2, <2>3, <2>5
  <2> QED BY <1>2, <2>1, <2>3, <2>4
<1>3. ASSUME TypeInv, TickFails PROVE TypeInv'
  <2>1. /\ phase' \in Phases /\ ticking' \in BOOLEAN /\ overLimit' \in BOOLEAN
        /\ todo' \subseteq Occurrences
    BY <1>3 DEF TickFails
  <2>4. left' \in [BudgetKinds -> Nat]
    BY <1>3 DEF TickFails, Spend
  <2>2. UNCHANGED <<definitions, identity, row, session, outputs, marketLock,
                    lastTickAt, now, slots, clock, history>>
    BY <1>3 DEF TickFails
  <2>3. TypeOK'
    BY <1>3, <2>1, <2>2, <2>4 DEF slots
  <2> QED BY <1>3, <2>2, <2>3 DEF slots, WorkerShape
<1> QED BY <1>1, <1>2, <1>3

\* The two ways a worker leaves a row keep its locals typed.
LEMMA TypeNextBatch ==
  ASSUME TypeInv, NEW w \in Workers, batch[w] < BatchLimit, NextBatch(w) \/ Leave(w)
  PROVE  /\ pc' \in [Workers -> Steps] /\ run' \in [Workers -> RunIds \cup {NoRun}]
         /\ runType' \in [Workers -> JobTypes] /\ result' \in [Workers -> Results]
         /\ batch' \in [Workers -> 0..BatchLimit]
         /\ WorkerShape'
<1>1. CASE NextBatch(w)
  BY <1>1, BoundsAssumption DEF TypeInv, TypeOK, WorkerShape, NextBatch, Goto
<1>2. CASE Leave(w)
  BY <1>2, BoundsAssumption DEF TypeInv, TypeOK, WorkerShape, Leave, Goto
<1> QED BY <1>1, <1>2

\* A worker that leaves its drain loop keeps its locals typed.
LEMMA TypeLeave ==
  ASSUME TypeInv, NEW w \in Workers, Leave(w)
  PROVE  /\ pc' \in [Workers -> Steps] /\ run' \in [Workers -> RunIds \cup {NoRun}]
         /\ runType' \in [Workers -> JobTypes] /\ result' \in [Workers -> Results]
         /\ batch' \in [Workers -> 0..BatchLimit]
         /\ WorkerShape'
BY BoundsAssumption DEF TypeInv, TypeOK, WorkerShape, Leave, Goto

\* The SELECT of drainWorker keeps the types.
LEMMA TypeSelect ==
  ASSUME TypeInv, NEW w \in Workers, (\E r \in RunIds : Select(w, r)) \/ Drained(w)
  PROVE  TypeInv'
<1>1. ASSUME NEW r \in RunIds, Select(w, r) PROVE TypeInv'
  BY <1>1 DEF TypeInv, TypeOK, TwoAttempts, NewRow, WorkerShape, Select, AtStep, Goto,
     definitions, identity, row, scan, history
<1>2. CASE Drained(w)
  BY <1>2, TypeLeave DEF TypeInv, TypeOK, TwoAttempts, NewRow, Drained,
     definitions, identity, row, scan, history
<1> QED BY <1>1, <1>2

\* The execution of a claimed run up to its result keeps the types.
LEMMA TypeExecute ==
  ASSUME TypeInv, NEW w \in Workers,
         Load(w) \/ EnterDatasource(w) \/ LeaveDatasource(w) \/ ExecuteAnalysis(w)
           \/ ExecuteAgentFlow(w) \/ FinishRollsBack(w)
  PROVE  TypeInv'
<1> USE DEF TypeInv, TypeOK, TwoAttempts, NewRow, WorkerShape, AtStep, Goto, Yield,
    definitions, identity, row, scan, history
<1>1. CASE Load(w)
  BY <1>1 DEF Load, Tell
<1>2. CASE EnterDatasource(w)
  <2>1. /\ pc[w] = "execute" /\ runType[w] = "datasource"
        /\ UNCHANGED <<run, runType, batch>> /\ marketLock' \in {"free", "held", "orphaned"}
        /\ \/ /\ pc' = [pc EXCEPT ![w] = "finish"] /\ result' = [result EXCEPT ![w] = "success"]
           \/ /\ pc' = [pc EXCEPT ![w] = "settle"]
              /\ \E e \in {"fatal", "retryable"} : result' = [result EXCEPT ![w] = e]
           \/ pc' = [pc EXCEPT ![w] = "locked"] /\ UNCHANGED result
    BY <1>2 DEF EnterDatasource
  <2>2. UNCHANGED <<definitions, identity, row, session, outputs, scan, clock, left, history>>
    BY <1>2 DEF EnterDatasource
  <2>3. WorkerShape'
    BY <2>1
  <2> QED BY <2>1, <2>2, <2>3
<1>3. CASE LeaveDatasource(w)
  <2>1. /\ pc[w] = "locked" /\ UNCHANGED <<run, runType, batch>> /\ marketLock' = "free"
        /\ \/ /\ pc' = [pc EXCEPT ![w] = "finish"]
              /\ \E e \in {"success", "partial"} : result' = [result EXCEPT ![w] = e]
           \/ pc' = [pc EXCEPT ![w] = "settle"] /\ result' = [result EXCEPT ![w] = "retryable"]
    BY <1>3 DEF LeaveDatasource
  <2>2. UNCHANGED <<definitions, identity, row, session, outputs, scan, clock, left, history>>
    BY <1>3 DEF LeaveDatasource
  <2>4. WorkerShape'
    BY <2>1
  <2> QED BY <2>1, <2>2, <2>4
<1>4. CASE ExecuteAnalysis(w)
  BY <1>4 DEF ExecuteAnalysis
<1>5. CASE ExecuteAgentFlow(w)
  BY <1>5 DEF ExecuteAgentFlow
<1>6. CASE FinishRollsBack(w)
  BY <1>6 DEF FinishRollsBack
<1> QED BY <1>1, <1>2, <1>3, <1>4, <1>5, <1>6

\* finishRun and failOrRetry keep the types.
LEMMA TypeBooking ==
  ASSUME TypeInv, NEW w \in Workers, Finish(w) \/ FinishUnheard(w) \/ Settle(w)
  PROVE  TypeInv'
<1> USE DEF TypeInv, TypeOK, TwoAttempts, NewRow, WorkerShape, AtStep, Goto, Yield, BookResult,
    definitions, identity, row, scan, history
<1>0. 0 \in 0..KeyBound
  BY KeyBoundType
<1>1. CASE Finish(w)
  BY <1>0, <1>1 DEF Finish
<1>2. CASE FinishUnheard(w)
  BY <1>0, <1>2 DEF FinishUnheard, Spend
<1>3. CASE Settle(w)
  BY <1>0, <1>3 DEF Settle, Settlement, AfterFailure
<1> QED BY <1>1, <1>2, <1>3

\* Telling the conversation what became of its run keeps the types.
LEMMA TypeMirror ==
  ASSUME TypeInv, NEW w \in Workers, Mirror(w) \/ MirrorFails(w) \/ WorkerFails(w)
  PROVE  TypeInv'
<1>1. CASE Mirror(w)
  <2>1. session' \in [RunIds -> SessionStatus] /\ batch[w] < BatchLimit
    BY <1>1 DEF TypeInv, TypeOK, WorkerShape, Mirror, Tell, AtStep
  <2> QED BY <1>1, <2>1, TypeNextBatch DEF TypeInv, TypeOK, TwoAttempts, NewRow, Mirror,
     definitions, identity, row, scan, history
<1>2. CASE MirrorFails(w)
  <2>1. left' \in [BudgetKinds -> Nat] /\ batch[w] < BatchLimit
    BY <1>2 DEF TypeInv, TypeOK, WorkerShape, MirrorFails, Spend, AtStep
  <2>2. silent' \subseteq RunIds
    BY <1>2 DEF TypeInv, TypeOK, WorkerShape, MirrorFails, AtStep
  <2> QED BY <2>2, <1>2, <2>1, TypeNextBatch DEF TypeInv, TypeOK, TwoAttempts, NewRow, MirrorFails,
     definitions, identity, row, scan, history
<1>3. CASE WorkerFails(w)
  <2>1. /\ left' \in [BudgetKinds -> Nat]
        /\ stranded' \subseteq RunIds /\ silent' \subseteq RunIds
    BY <1>3 DEF TypeInv, TypeOK, WorkerShape, WorkerFails, Spend
  <2> QED BY <1>3, <2>1, TypeLeave DEF TypeInv, TypeOK, TwoAttempts, NewRow, WorkerFails,
     definitions, identity, row, scan, history
<1> QED BY <1>1, <1>2, <1>3

\* Users, the clock and the waiting for a retry keep the types.
LEMMA TypeWorld == TypeInv /\ World => TypeInv'
<1> USE DEF TypeInv, TypeOK, TwoAttempts, NewRow, definitions, identity, row, history
<1>1. ASSUME TypeInv, NEW j \in Jobs, QueueManual(j) PROVE TypeInv'
  <2>1. PICK r \in RunIds, k \in 1..KeyBound :
         /\ status[r] = "absent"
         /\ jobOf' = [jobOf EXCEPT ![r] = j]
         /\ scheduledFor' = [scheduledFor EXCEPT ![r] = 0]
         /\ status' = [status EXCEPT ![r] = "inserting"]
         /\ dueKey' = [dueKey EXCEPT ![r] = k]
         /\ session' = [session EXCEPT ![r] =
                IF jobType[j] = "agent_flow" THEN "queued" ELSE "none"]
    BY <1>1 DEF QueueManual, FreshId
  <2>2. k \in 0..KeyBound /\ 0 \in 0..Horizon
    BY KeyBoundType, JobsAssumption
  <2>3. left' \in [BudgetKinds -> Nat]
    BY <1>1 DEF QueueManual, Spend
  <2>4. UNCHANGED <<definitions, attempts, outputs, marketLock, scan, slots, clock, history>>
    BY <1>1 DEF QueueManual
  <2>5. TypeOK'
    BY <1>1, <2>1, <2>2, <2>3, <2>4 DEF scan, slots
  <2>6. (WorkerShape /\ TwoAttempts /\ NewRow)'
    BY <1>1, <2>1, <2>4 DEF slots, WorkerShape
  <2> QED BY <2>5, <2>6
<1>2. ASSUME TypeInv, NEW j \in Jobs, EditDefinition(j) PROVE TypeInv'
  <2>1. \A t \in TypesOf[j] : t \in JobTypes
    BY JobsAssumption
  <2> QED BY <1>2, <2>1 DEF EditDefinition, Spend, scan, slots, WorkerShape
<1>3. ASSUME TypeInv, NEW j \in Jobs, PauseOrResume(j) PROVE TypeInv'
  BY <1>3 DEF PauseOrResume, Spend, scan, slots, WorkerShape
<1>4. ASSUME TypeInv, NEW r \in RunIds, CommitManual(r) PROVE TypeInv'
  BY <1>4 DEF CommitManual, scan, slots, WorkerShape
<1>5. ASSUME TypeInv, NEW r \in RunIds, RetryFallsDue(r) PROVE TypeInv'
  BY <1>5, KeyBoundType DEF RetryFallsDue, scan, slots, WorkerShape
<1>6. ASSUME TypeInv, TimePasses PROVE TypeInv'
  BY <1>6, JobsAssumption DEF TimePasses, scan, slots, WorkerShape
<1> QED BY <1>1, <1>2, <1>3, <1>4, <1>5, <1>6 DEF World

\* Every step keeps the types.
LEMMA TypeNext == TypeInv /\ [Next]_vars => TypeInv'
<1> SUFFICES ASSUME TypeInv, [Next]_vars PROVE TypeInv'
  OBVIOUS
<1>1. CASE UNCHANGED vars
  BY <1>1 DEF TypeInv, TypeOK, WorkerShape, TwoAttempts, NewRow, vars,
     definitions, identity, row, scan, slots, history
<1>2. CASE Process
  BY <1>2, TypeBoot, TypePlanMissed, TypeFinishRecovery, TypeProcess, TypeTick,
     TypeRecoverRow, TypeScanInserts DEF Process
<1>3. ASSUME NEW w \in Workers,
             WorkerStep(w) \/ FinishUnheard(w) \/ MirrorFails(w) \/ WorkerFails(w)
      PROVE  TypeInv'
  BY <1>3, TypeSelect, TypeClaim, TypeExecute, TypeBooking, TypeMirror DEF WorkerStep
<1>4. CASE World
  BY <1>4, TypeWorld
<1> QED BY <1>1, <1>2, <1>3, <1>4 DEF Next

\* The inductive invariant: types, what a worker holds at each point of its
\* loop, the bound on attempts, and that an absent row is untouched.
THEOREM TypeInvariant == Spec => []TypeInv
<1>1. Init => TypeInv
  BY TypeInit
<1>2. TypeInv /\ [Next]_vars => TypeInv'
  BY TypeNext
<1> QED BY <1>1, <1>2, PTL DEF Spec

(* Every variable keeps its type: the tables' columns, the scheduler's     *)
(* fields and the locals of the drain workers.                             *)
THEOREM TypeCorrect == Spec => []TypeOK
<1>1. TypeInv => TypeOK
  BY DEF TypeInv
<1> QED BY <1>1, TypeInvariant, PTL

(* "At most two attempts" (T17), for any number of workers, runs, retries, *)
(* crashes and restarts.                                                   *)
THEOREM AtMostTwoAttempts == Spec => []TwoAttempts
<1>1. TypeInv => TwoAttempts
  BY DEF TypeInv
<1> QED BY <1>1, TypeInvariant, PTL

-----------------------------------------------------------------------------
(* The rows.                                                              *)

\* Workers start with the first tick that succeeds, and the tick runs only
\* once the rows of the last process are recovered.
WorkersStartUp ==
    /\ phase \in {"down", "rows", "missed", "starting"} => \A w \in Workers : pc[w] = "off"
    /\ ticking => phase \in {"starting", "up", "stopping"}

\* The row of a worker that owns one.
OwnerShape ==
    \A w \in Workers, r \in RunIds : Owns(w, r) =>
        \/ status[r] = "running" /\ (outputs[r] = 0 \/ r \in unacked)
        \/ /\ pc[w] = "settle" /\ result[w] = "retryable"
           /\ r \in unacked /\ status[r] \in {"success", "partial"}

\* Two workers never own one row.
OwnsAlone ==
    \A v, w \in Workers, r \in RunIds : Owns(v, r) /\ Owns(w, r) => v = w

RowInv ==
    WorkersStartUp /\ OwnerShape /\ OwnsAlone /\ RunningIsWorkedOn /\ ResultBelongsToSuccess

\* What the properties read of a state.
rowVars == <<status, outputs, unacked, stranded, phase, ticking, pc, run, result>>

\* A fresh database satisfies the rows' invariant.
LEMMA RowInit == Init => RowInv
BY DEF Init, RowInv, WorkersStartUp, OwnerShape, OwnsAlone, Owns, RunningIsWorkedOn,
   ResultBelongsToSuccess

\* A step that changes none of what the invariant reads keeps it.
LEMMA RowUnchanged == RowInv /\ UNCHANGED rowVars => RowInv'
BY DEF RowInv, rowVars, WorkersStartUp, OwnerShape, OwnsAlone, Owns, RunningIsWorkedOn,
   ResultBelongsToSuccess

\* A worker owns nothing, or moves on with what it owns; the rows stay.
LEMMA RowWorkerMoves ==
  ASSUME TypeInv, RowInv, NEW w \in Workers,
         UNCHANGED <<status, outputs, phase, ticking, unacked>>,
         phase \notin {"down", "rows", "missed", "starting"},
         pc' \in [Workers -> Steps],
         \A v \in Workers \ {w} : pc'[v] = pc[v] /\ run'[v] = run[v] /\ result'[v] = result[v],
         \/ /\ \A r \in RunIds : Owns(w, r)' <=> Owns(w, r)
            /\ pc[w] = "settle" => pc'[w] = "settle" /\ result'[w] = result[w]
            /\ stranded' = stranded
         \/ /\ \A r \in RunIds : ~Owns(w, r)'
            /\ stranded' = IF pc[w] \in {"load", "execute", "locked", "finish", "settle"}
                             THEN stranded \cup {run[w]} ELSE stranded
  PROVE  RowInv'
<1> USE DEF RowInv
<1>1. WorkersStartUp'
  BY DEF WorkersStartUp
<1>2. OwnerShape'
  BY DEF OwnerShape, Owns
<1>3. OwnsAlone'
  BY DEF OwnsAlone, Owns
<1>4. RunningIsWorkedOn'
  BY DEF RunningIsWorkedOn, Owns
<1>5. ResultBelongsToSuccess'
  BY DEF ResultBelongsToSuccess
<1> QED BY <1>1, <1>2, <1>3, <1>4, <1>5

\* A row nobody owns gets a new status that is not "running".
LEMMA RowWritten ==
  ASSUME TypeInv, RowInv, NEW r \in RunIds, NEW what \in RunStatus \ {"running"},
         status' = [status EXCEPT ![r] = what],
         status[r] \in {"absent", "inserting"},
         UNCHANGED <<outputs, unacked, stranded, phase, ticking, pc, run, result>>
  PROVE  RowInv'
<1> USE DEF RowInv, TypeInv, TypeOK
<1>1. \A w \in Workers : ~Owns(w, r)
  BY DEF OwnerShape
<1>2. WorkersStartUp' /\ OwnsAlone'
  BY DEF WorkersStartUp, OwnsAlone, Owns
<1>3. OwnerShape'
  BY <1>1 DEF OwnerShape, Owns
<1>4. RunningIsWorkedOn'
  BY DEF RunningIsWorkedOn, Owns
<1>5. ResultBelongsToSuccess'
  BY DEF ResultBelongsToSuccess, NewRow
<1> QED BY <1>2, <1>3, <1>4, <1>5

\* An inserted row is nobody's: scans keep the invariant.
LEMMA RowInserts ==
  ASSUME TypeInv, RowInv, NEW o \in Occurrences, RecordMissed(o) \/ TickInsert(o)
  PROVE  RowInv'
<1>1. PICK mark \in {"queued", "missed"} : InsertOccurrence(o, mark)
  BY DEF RecordMissed, TickInsert
<1>2. UNCHANGED <<outputs, unacked, stranded, phase, ticking, pc, run, result>>
  BY DEF RecordMissed, TickInsert, slots, history
<1>3. CASE Recorded(o)
  BY <1>1, <1>2, <1>3, RowUnchanged DEF InsertOccurrence, row, rowVars
<1>4. CASE ~Recorded(o)
  <2>1. PICK r \in RunIds : status[r] = "absent" /\ status' = [status EXCEPT ![r] = mark]
    BY <1>1, <1>4 DEF InsertOccurrence, FreshId
  <2>2. mark \in RunStatus \ {"running"}
    BY <1>1
  <2> QED BY <1>2, <2>1, <2>2, RowWritten
<1> QED BY <1>3, <1>4

\* Users and time keep it: they only insert rows and edit definitions.
LEMMA RowWorld == TypeInv /\ RowInv /\ World => RowInv'
<1>1. ASSUME TypeInv, RowInv, NEW j \in Jobs, QueueManual(j) PROVE RowInv'
  <2>1. PICK r \in RunIds : status[r] = "absent" /\ status' = [status EXCEPT ![r] = "inserting"]
    BY <1>1 DEF QueueManual, FreshId
  <2>2. UNCHANGED <<outputs, unacked, stranded, phase, ticking, pc, run, result>>
    BY <1>1 DEF QueueManual, slots, history, scan
  <2> QED BY <1>1, <2>1, <2>2, RowWritten
<1>2. ASSUME TypeInv, RowInv, NEW r \in RunIds, CommitManual(r) PROVE RowInv'
  <2>1. UNCHANGED <<outputs, unacked, stranded, phase, ticking, pc, run, result>>
    BY <1>2 DEF CommitManual, slots, history, scan
  <2> QED BY <1>2, <2>1, RowWritten DEF CommitManual
<1>3. ASSUME TypeInv, RowInv,
             \/ \E j \in Jobs : EditDefinition(j) \/ PauseOrResume(j)
             \/ \E r \in RunIds : RetryFallsDue(r)
             \/ TimePasses
      PROVE  RowInv'
  <2>1. UNCHANGED rowVars
    BY <1>3 DEF EditDefinition, PauseOrResume, RetryFallsDue, TimePasses, rowVars,
       row, slots, scan, history
  <2> QED BY <1>3, <2>1, RowUnchanged
<1> QED BY <1>1, <1>2, <1>3 DEF World

\* recoverInterruptedJobRuns keeps it: no worker runs yet.
LEMMA RowRecover ==
  ASSUME TypeInv, RowInv, NEW r \in RunIds, RecoverRow(r) PROVE RowInv'
<1> USE DEF RowInv, TypeInv, TypeOK, RecoverRow, slots, scan, history
<1>1. \A w \in Workers, q \in RunIds : ~Owns(w, q) /\ ~Owns(w, q)'
  BY DEF WorkersStartUp, Owns
<1>2. OwnerShape' /\ OwnsAlone'
  BY <1>1 DEF OwnerShape, OwnsAlone
<1>3. WorkersStartUp'
  BY DEF WorkersStartUp
<1>4. RunningIsWorkedOn'
  BY DEF RunningIsWorkedOn
<1>5. ResultBelongsToSuccess'
  BY DEF ResultBelongsToSuccess
<1> QED BY <1>2, <1>3, <1>4, <1>5

\* Boot, stop, exit and crash keep it.
LEMMA RowProcess ==
  ASSUME TypeInv, RowInv,
         \/ Boot \/ PlanMissed \/ FinishRecovery \/ Stop \/ Exit \/ Crash
         \/ OrphanedLockReleased \/ TickBegin \/ TickEnd \/ TickFails
  PROVE  RowInv'
<1> USE DEF RowInv
<1>1. /\ UNCHANGED <<outputs, unacked, stranded>>
      /\ \A r \in RunIds : \/ status'[r] = status[r]
                           \/ status[r] = "inserting" /\ status'[r] = "absent"
  BY DEF Boot, PlanMissed, FinishRecovery, Stop, Exit, Crash, OrphanedLockReleased,
     TickBegin, TickEnd, TickFails, row, history, TypeInv, TypeOK
<1>2. WorkersStartUp'
  BY DEF WorkersStartUp, Boot, PlanMissed, FinishRecovery, Stop, Exit, Crash, ForgetProcess,
     OrphanedLockReleased, TickBegin, TickEnd, TickFails, slots, scan, StartWorkers
<1>3. \A w \in Workers, r \in RunIds : Owns(w, r)' =>
         Owns(w, r) /\ pc'[w] = pc[w] /\ result'[w] = result[w]
  BY DEF Boot, PlanMissed, FinishRecovery, Stop, Exit, Crash, ForgetProcess,
     OrphanedLockReleased, TickBegin, TickEnd, TickFails, slots, scan, StartWorkers,
     Owns, TypeInv, TypeOK
<1>4. OwnerShape' /\ OwnsAlone'
  BY <1>1, <1>3 DEF OwnerShape, OwnsAlone
<1>5. RunningIsWorkedOn'
  <2>1. ASSUME NEW r \in RunIds, status'[r] = "running", phase' \notin {"down", "rows"},
               r \notin stranded'
        PROVE  \E w \in Workers : Owns(w, r)'
    <3>1. status[r] = "running" /\ r \notin stranded /\ phase \notin {"down", "rows"}
      BY <1>1, <2>1 DEF Boot, PlanMissed, FinishRecovery, Stop, Exit, Crash, ForgetProcess,
         OrphanedLockReleased, TickBegin, TickEnd, TickFails, scan, WorkersStartUp
    <3>2. PICK w \in Workers : Owns(w, r)
      BY <3>1 DEF RunningIsWorkedOn
    <3>3. Owns(w, r)'
      BY <2>1, <3>1, <3>2 DEF Boot, PlanMissed, FinishRecovery, Stop, Exit, Crash, ForgetProcess,
         OrphanedLockReleased, TickBegin, TickEnd, TickFails, slots, scan, StartWorkers,
         Owns, TypeInv, TypeOK
    <3> QED BY <3>3
  <2> QED BY <2>1 DEF RunningIsWorkedOn
<1>6. ResultBelongsToSuccess'
  BY <1>1 DEF ResultBelongsToSuccess
<1> QED BY <1>2, <1>4, <1>5, <1>6

\* A worker runs only in a process that has come up.
LEMMA WorkersOnlyUp ==
  ASSUME RowInv, NEW w \in Workers, pc[w] # "off"
  PROVE  phase \notin {"down", "rows", "missed", "starting"}
BY DEF RowInv, WorkersStartUp

\* Selecting a row does not make a worker its owner.
LEMMA RowSelect ==
  ASSUME TypeInv, RowInv, NEW w \in Workers, (\E r \in RunIds : Select(w, r)) \/ Drained(w)
  PROVE  RowInv'
<1> USE DEF TypeInv, TypeOK, AtStep, Goto, row, scan, history
<1>1. ASSUME NEW r \in RunIds, Select(w, r) PROVE RowInv'
  BY <1>1, RowWorkerMoves, WorkersOnlyUp, TypeNext DEF Select, Owns
<1>2. CASE Drained(w)
  BY <1>2, RowWorkerMoves, WorkersOnlyUp DEF Drained, Leave, Owns
<1> QED BY <1>1, <1>2

\* The claim: the one step by which a worker comes to own a row.
LEMMA RowClaim ==
  ASSUME TypeInv, RowInv, NEW w \in Workers, Claim(w) PROVE RowInv'
<1> USE DEF TypeInv, TypeOK, AtStep, Goto, row, scan, history, Claim
<1>0. PICK r \in RunIds : r = run[w] /\ pc[w] = "claim"
  BY DEF WorkerShape
<1>1. CASE Claimable(r)
  <2>1. /\ status[r] = "queued" /\ status' = [status EXCEPT ![r] = "running"]
        /\ pc' = [pc EXCEPT ![w] = "load"]
        /\ UNCHANGED <<outputs, unacked, stranded, phase, ticking, run, result>>
    BY <1>0, <1>1 DEF Claimable, Due
  <2>2. \A v \in Workers : ~Owns(v, r)
    BY <1>0, <2>1 DEF RowInv, OwnerShape
  <2>3. \A v \in Workers, q \in RunIds : Owns(v, q)' <=> Owns(v, q) \/ (v = w /\ q = r)
    BY <1>0, <2>1 DEF Owns
  <2>4. WorkersStartUp'
    BY <1>0, <2>1 DEF RowInv, WorkersStartUp
  <2>5. OwnsAlone'
    BY <2>2, <2>3 DEF RowInv, OwnsAlone
  <2>6. outputs[r] = 0 \/ r \in unacked
    BY <1>0, <2>1 DEF RowInv, ResultBelongsToSuccess
  <2>7. OwnerShape'
    BY <1>0, <2>1, <2>2, <2>3, <2>6 DEF RowInv, OwnerShape
  <2>8. RunningIsWorkedOn'
    BY <1>0, <2>1, <2>3 DEF RowInv, RunningIsWorkedOn
  <2>9. ResultBelongsToSuccess'
    BY <1>0, <2>1, <2>6 DEF RowInv, ResultBelongsToSuccess
  <2> QED BY <2>4, <2>5, <2>7, <2>8, <2>9 DEF RowInv
<1>2. CASE ~Claimable(r)
  BY <1>0, <1>2, RowWorkerMoves, WorkersOnlyUp DEF NextBatch, Owns
<1> QED BY <1>1, <1>2

\* An owner at work keeps its row.
LEMMA RowExecute ==
  ASSUME TypeInv, RowInv, NEW w \in Workers,
         Load(w) \/ EnterDatasource(w) \/ LeaveDatasource(w) \/ ExecuteAnalysis(w)
           \/ ExecuteAgentFlow(w) \/ FinishRollsBack(w)
  PROVE  RowInv'
<1>1. /\ UNCHANGED <<status, outputs, phase, ticking, unacked, run, stranded>>
      /\ pc[w] \in {"load", "execute", "locked", "finish"}
      /\ \E step \in {"execute", "locked", "finish", "settle"} : pc' = [pc EXCEPT ![w] = step]
      /\ \A v \in Workers \ {w} : result'[v] = result[v]
  BY DEF Load, EnterDatasource, LeaveDatasource, ExecuteAnalysis, ExecuteAgentFlow,
     FinishRollsBack, AtStep, Goto, Yield, TypeInv, TypeOK, row, scan, history
<1>2. \A r \in RunIds : Owns(w, r)' <=> Owns(w, r)
  BY <1>1 DEF Owns, TypeInv, TypeOK
<1>3. phase \notin {"down", "rows", "missed", "starting"}
  BY <1>1, WorkersOnlyUp
<1> QED BY <1>1, <1>2, <1>3, RowWorkerMoves DEF TypeInv, TypeOK

\* The owner writes the row's end and gives the row up, or stays to settle a
\* commit it did not hear of.
LEMMA RowBooked ==
  ASSUME TypeInv, RowInv, NEW w \in Workers, Finish(w) \/ FinishUnheard(w)
  PROVE  RowInv'
<1>0. PICK r \in RunIds : r = run[w] /\ pc[w] = "finish" /\ Owns(w, r)
  BY DEF Finish, FinishUnheard, AtStep, Owns, TypeInv, WorkerShape
<1>1. /\ status' = [status EXCEPT ![r] = result[w]] /\ result[w] \in {"success", "partial"}
      /\ outputs' = [outputs EXCEPT ![r] = IF runType[w] = "agent_flow" /\ @ = 0 THEN 1 ELSE @]
      /\ runType[w] = "agent_flow" => result[w] = "success"
      /\ UNCHANGED <<stranded, phase, ticking, run>>
      /\ \/ /\ pc' = [pc EXCEPT ![w] = "mirror"] /\ UNCHANGED <<unacked, result>>
         \/ /\ pc' = [pc EXCEPT ![w] = "settle"] /\ unacked' = unacked \cup {r}
            /\ result' = [result EXCEPT ![w] = "retryable"]
  <2>1. BookResult(w) /\ result[w] \in {"success", "partial"}
        /\ (runType[w] = "agent_flow" => result[w] = "success")
    BY DEF Finish, FinishUnheard, AtStep, TypeInv, WorkerShape
  <2>2. UNCHANGED <<stranded, phase, ticking, run>>
    BY DEF Finish, FinishUnheard, Yield, scan, history
  <2>3. \/ /\ pc' = [pc EXCEPT ![w] = "mirror"] /\ UNCHANGED <<unacked, result>>
        \/ /\ pc' = [pc EXCEPT ![w] = "settle"] /\ unacked' = unacked \cup {r}
           /\ result' = [result EXCEPT ![w] = "retryable"]
    BY <1>0 DEF Finish, FinishUnheard, Goto, Yield, history
  <2> QED BY <1>0, <2>1, <2>2, <2>3 DEF BookResult
<1>2. status[r] = "running" /\ (outputs[r] = 0 \/ r \in unacked)
  BY <1>0 DEF RowInv, OwnerShape
<1>3. \A v \in Workers : v # w => ~Owns(v, r)
  BY <1>0 DEF RowInv, OwnsAlone
<1>4. \A v \in Workers, q \in RunIds : Owns(v, q)' => Owns(v, q)
  BY <1>0, <1>1 DEF Owns, TypeInv, TypeOK
<1>5. \A v \in Workers, q \in RunIds : q # r => (Owns(v, q)' <=> Owns(v, q))
  BY <1>0, <1>1 DEF Owns, TypeInv, TypeOK
<1>6. WorkersStartUp'
  BY <1>0, <1>1 DEF RowInv, WorkersStartUp
<1>7. OwnsAlone'
  BY <1>4 DEF RowInv, OwnsAlone
<1>8. OwnerShape'
  <2>1. ASSUME NEW v \in Workers, NEW q \in RunIds, Owns(v, q)', q # r
        PROVE  \/ status'[q] = "running" /\ (outputs'[q] = 0 \/ q \in unacked')
               \/ /\ pc'[v] = "settle" /\ result'[v] = "retryable"
                  /\ q \in unacked' /\ status'[q] \in {"success", "partial"}
    <3>1. v # w /\ Owns(v, q)
      BY <1>0, <1>1, <1>4, <2>1 DEF Owns, TypeInv, TypeOK
    <3> QED BY <1>0, <1>1, <2>1, <3>1 DEF RowInv, OwnerShape, TypeInv, TypeOK
  <2>2. ASSUME NEW v \in Workers, Owns(v, r)'
        PROVE  /\ pc'[v] = "settle" /\ result'[v] = "retryable"
               /\ r \in unacked' /\ status'[r] \in {"success", "partial"}
    <3>1. v = w
      BY <1>0, <1>3, <1>4, <2>2
    <3> QED BY <1>0, <1>1, <2>2, <3>1 DEF Owns, TypeInv, TypeOK
  <2> QED BY <2>1, <2>2 DEF OwnerShape
<1>9. RunningIsWorkedOn'
  BY <1>0, <1>1, <1>5 DEF RowInv, RunningIsWorkedOn, TypeInv, TypeOK
<1>10. ResultBelongsToSuccess'
  BY <1>0, <1>1, <1>2 DEF RowInv, ResultBelongsToSuccess, TypeInv, TypeOK
<1> QED BY <1>6, <1>7, <1>8, <1>9, <1>10 DEF RowInv

\* failOrRetry and cancelRun by the row's owner keep it.
LEMMA RowSettled ==
  ASSUME TypeInv, RowInv, NEW w \in Workers, Settle(w) PROVE RowInv'
<1>0. PICK r \in RunIds : r = run[w] /\ pc[w] = "settle" /\ Owns(w, r)
  BY DEF Settle, AtStep, Owns, TypeInv, WorkerShape
<1>1. /\ \E what \in {"queued", "failed", "cancelled"} : status' = [status EXCEPT ![r] = what]
      /\ pc' = [pc EXCEPT ![w] = "mirror"]
      /\ \A v \in Workers \ {w} : result'[v] = result[v]
      /\ UNCHANGED <<outputs, unacked, stranded, phase, ticking, run>>
  <2>1. Settlement(w) \in {"queued", "failed", "cancelled"}
    BY DEF Settlement, AfterFailure
  <2>2. status' = [status EXCEPT ![r] = Settlement(w)]
    BY <1>0 DEF Settle
  <2> QED BY <1>0, <2>1, <2>2 DEF Settle, Goto, Yield, TypeInv, TypeOK, scan, history
<1>2. outputs[r] = 0 \/ r \in unacked
  BY <1>0 DEF RowInv, OwnerShape
<1>3. \A v \in Workers, q \in RunIds : Owns(v, q)' <=> v # w /\ Owns(v, q)
  BY <1>0, <1>1 DEF Owns, TypeInv, TypeOK
<1>4. \A v \in Workers : v # w => ~Owns(v, r)
  BY <1>0 DEF RowInv, OwnsAlone
<1>5. WorkersStartUp'
  BY <1>0, <1>1 DEF RowInv, WorkersStartUp
<1>6. OwnsAlone'
  BY <1>3 DEF RowInv, OwnsAlone
<1>7. OwnerShape'
  BY <1>0, <1>1, <1>3, <1>4 DEF RowInv, OwnerShape, TypeInv, TypeOK
<1>8. RunningIsWorkedOn'
  <2>1. \A v \in Workers, q \in RunIds : q # r => (Owns(v, q)' <=> Owns(v, q))
    BY <1>0, <1>3 DEF Owns
  <2> QED BY <1>0, <1>1, <2>1 DEF RowInv, RunningIsWorkedOn, TypeInv, TypeOK
<1>9. ResultBelongsToSuccess'
  BY <1>0, <1>1, <1>2 DEF RowInv, ResultBelongsToSuccess, TypeInv, TypeOK
<1> QED BY <1>5, <1>6, <1>7, <1>8, <1>9 DEF RowInv

\* A worker that has written the end, or died on an error, owns nothing.
LEMMA RowGivenUp ==
  ASSUME TypeInv, RowInv, NEW w \in Workers, Mirror(w) \/ MirrorFails(w) \/ WorkerFails(w)
  PROVE  RowInv'
<1>1. /\ pc[w] \in {"select", "claim", "load", "settle", "mirror"}
      /\ \E step \in {"select", "off"} : pc' = [pc EXCEPT ![w] = step]
      /\ \A v \in Workers \ {w} : run'[v] = run[v] /\ result'[v] = result[v]
      /\ UNCHANGED <<status, outputs, phase, ticking, unacked>>
      /\ stranded' = IF pc[w] \in {"load", "execute", "locked", "finish", "settle"}
                       THEN stranded \cup {run[w]} ELSE stranded
  BY DEF Mirror, MirrorFails, WorkerFails, NextBatch, Leave, AtStep, Goto, TypeInv, TypeOK,
     row, scan, history
<1>2. \A r \in RunIds : ~Owns(w, r)'
  BY <1>1 DEF Owns, TypeInv, TypeOK
<1>3. phase \notin {"down", "rows", "missed", "starting"}
  BY <1>1, WorkersOnlyUp
<1>4. /\ pc' \in [Workers -> Steps]
      /\ \A v \in Workers \ {w} : pc'[v] = pc[v] /\ run'[v] = run[v] /\ result'[v] = result[v]
  BY <1>1 DEF TypeInv, TypeOK
<1> QED BY <1>1, <1>2, <1>3, <1>4, RowWorkerMoves

\* Every step keeps the rows' invariant.
LEMMA RowNext == TypeInv /\ RowInv /\ [Next]_vars => RowInv'
<1> SUFFICES ASSUME TypeInv, RowInv, [Next]_vars PROVE RowInv'
  OBVIOUS
<1>1. CASE UNCHANGED vars
  BY <1>1, RowUnchanged DEF vars, rowVars, row, scan, slots, history
<1>2. CASE Process
  BY <1>2, RowProcess, RowRecover, RowInserts DEF Process
<1>3. ASSUME NEW w \in Workers,
             WorkerStep(w) \/ FinishUnheard(w) \/ MirrorFails(w) \/ WorkerFails(w)
      PROVE  RowInv'
  BY <1>3, RowSelect, RowClaim, RowExecute, RowBooked, RowSettled, RowGivenUp DEF WorkerStep
<1>4. CASE World
  BY <1>4, RowWorld
<1> QED BY <1>1, <1>2, <1>3, <1>4 DEF Next

\* The inductive invariant of the rows, on top of the types.
THEOREM RowInvariant == Spec => [](TypeInv /\ RowInv)
<1>1. Init => TypeInv /\ RowInv
  BY TypeInit, RowInit
<1>2. TypeInv /\ RowInv /\ [Next]_vars => (TypeInv /\ RowInv)'
  BY TypeNext, RowNext
<1> QED BY <1>1, <1>2, PTL DEF Spec

(* A run is in the hands of one worker at a time, and its owner finds it   *)
(* marked running unless its own commit went through unheard.              *)
THEOREM RunHasOneOwner == Spec => []OneOwner
<1>1. TypeInv /\ RowInv => OneOwner
  BY DEF RowInv, OwnerShape, OwnsAlone, OneOwner
<1> QED BY <1>1, RowInvariant, PTL

(* After start-up's recovery a row marked running is being worked on, or   *)
(* its worker died on a database error.                                    *)
THEOREM RunningRowsAreWorkedOn == Spec => []RunningIsWorkedOn
<1>1. TypeInv /\ RowInv => RunningIsWorkedOn
  BY DEF RowInv
<1> QED BY <1>1, RowInvariant, PTL

(* A run has at most one result, and only a run that succeeded has one.    *)
THEOREM ResultsBelongToSuccess == Spec => []ResultBelongsToSuccess
<1>1. TypeInv /\ RowInv => ResultBelongsToSuccess
  BY DEF RowInv
<1> QED BY <1>1, RowInvariant, PTL

-----------------------------------------------------------------------------
(* What one step does to the rows, as JobRunLifecycle's actions.           *)

stateOf == [r \in RunIds |-> IF status[r] = "inserting" THEN "absent" ELSE status[r]]

\* A status that is written is the state the lifecycle sees.
LEMMA StateWritten ==
  ASSUME TypeInv, NEW r \in RunIds, NEW what \in RunStatus \ {"inserting"},
         status' = [status EXCEPT ![r] = what]
  PROVE  stateOf' = [stateOf EXCEPT ![r] = what]
BY DEF TypeInv, TypeOK, stateOf

\* An insert is a Record of the lifecycle.
LEMMA LifeInserts ==
  ASSUME TypeInv, NEW o \in Occurrences, RecordMissed(o) \/ TickInsert(o)
  PROVE  [Lifecycle!Next]_(Lifecycle!vars)
<1> USE DEF Lifecycle!Next, Lifecycle!vars, Lifecycle!Record, Lifecycle!Set
<1>1. PICK mark \in {"queued", "missed"} : InsertOccurrence(o, mark)
  BY DEF RecordMissed, TickInsert
<1>2. UNCHANGED <<outputs, unacked>>
  BY DEF RecordMissed, TickInsert, history
<1>3. CASE Recorded(o)
  BY <1>1, <1>2, <1>3 DEF InsertOccurrence, row
<1>4. CASE ~Recorded(o)
  <2>1. PICK r \in RunIds : /\ status[r] = "absent" /\ UNCHANGED attempts
                            /\ status' = [status EXCEPT ![r] = mark]
    BY <1>1, <1>4 DEF InsertOccurrence, FreshId
  <2>2. stateOf' = [stateOf EXCEPT ![r] = mark] /\ stateOf[r] = "absent"
    BY <1>1, <2>1, StateWritten DEF stateOf
  <2> QED BY <1>1, <1>2, <2>1, <2>2 DEF stateOf
<1> QED BY <1>3, <1>4

\* A step that leaves the rows, or only the insertion of a row, is a stutter.
LEMMA LifeStutters ==
  ASSUME TypeInv, UNCHANGED <<attempts, outputs, unacked>>,
         status' \in [RunIds -> RunStatus],
         \A r \in RunIds : \/ status'[r] = status[r]
                          \/ /\ status[r] \in {"absent", "inserting"}
                             /\ status'[r] \in {"absent", "inserting"}
  PROVE  UNCHANGED Lifecycle!vars
<1>1. stateOf' = stateOf
  BY DEF TypeInv, TypeOK, stateOf
<1> QED BY <1>1 DEF Lifecycle!vars, stateOf

\* A recovered row is one the lifecycle gives up.
LEMMA LifeRecovers ==
  ASSUME TypeInv, NEW r \in RunIds, RecoverRow(r)
  PROVE  Lifecycle!GiveUp(r)
<1>1. /\ status[r] = "running" /\ status' = [status EXCEPT ![r] = AfterFailure(r)]
      /\ UNCHANGED <<attempts, outputs, unacked>>
  BY DEF RecoverRow
<1>2. AfterFailure(r) \in {"queued", "failed"} /\ (AfterFailure(r) = "queued" => attempts[r] < 2)
  BY DEF AfterFailure
<1>3. stateOf' = [stateOf EXCEPT ![r] = AfterFailure(r)] /\ stateOf[r] = "running"
  BY <1>1, <1>2, StateWritten DEF stateOf
<1> QED BY <1>1, <1>2, <1>3 DEF Lifecycle!GiveUp, Lifecycle!Set, Lifecycle!MaxTries, stateOf

\* A claim is a Try of the lifecycle, a lost claim a stutter.
LEMMA LifeClaims ==
  ASSUME TypeInv, NEW w \in Workers, Claim(w)
  PROVE  \/ UNCHANGED Lifecycle!vars
         \/ \E r \in RunIds : Lifecycle!Try(r)
<1>0. PICK r \in RunIds : r = run[w]
  BY DEF Claim, AtStep, TypeInv, WorkerShape
<1>1. CASE Claimable(r)
  <2>1. /\ status[r] = "queued" /\ attempts[r] < 2
        /\ status' = [status EXCEPT ![r] = "running"]
        /\ attempts' = [attempts EXCEPT ![r] = @ + 1]
        /\ UNCHANGED <<outputs, unacked>>
    BY <1>0, <1>1 DEF Claim, Claimable, Due, TypeInv, TwoAttempts, history
  <2>2. stateOf' = [stateOf EXCEPT ![r] = "running"] /\ stateOf[r] = "queued"
    BY <2>1, StateWritten DEF stateOf
  <2>3. Lifecycle!Try(r)
    BY <2>1, <2>2 DEF Lifecycle!Try, Lifecycle!Set, Lifecycle!MaxTries, stateOf
  <2> QED BY <2>3
<1>2. CASE ~Claimable(r)
  BY <1>0, <1>2, LifeStutters DEF Claim, row, history, TypeInv, TypeOK
<1> QED BY <1>1, <1>2

\* finishRun is a Succeed of the lifecycle, or nothing.
LEMMA LifeBooks ==
  ASSUME TypeInv, RowInv, NEW w \in Workers, Finish(w) \/ FinishUnheard(w)
  PROVE  \E r \in RunIds : Lifecycle!Succeed(r)
<1>0. PICK r \in RunIds : r = run[w] /\ pc[w] = "finish" /\ Owns(w, r)
  BY DEF Finish, FinishUnheard, AtStep, Owns, TypeInv, WorkerShape
<1>1. BookResult(w) /\ result[w] \in {"success", "partial"}
      /\ (runType[w] = "agent_flow" => result[w] = "success")
  BY DEF Finish, FinishUnheard, AtStep, TypeInv, WorkerShape
<1>2. unacked' = unacked \/ unacked' = unacked \cup {r}
  BY <1>0 DEF Finish, FinishUnheard, history
<1>3. status[r] = "running"
  BY <1>0 DEF RowInv, OwnerShape
<1>4. stateOf' = [stateOf EXCEPT ![r] = result[w]] /\ stateOf[r] = "running"
  BY <1>0, <1>1, <1>3, StateWritten DEF stateOf, BookResult
<1>5. \/ outputs' = outputs
      \/ outputs' = [outputs EXCEPT ![r] = 1] /\ result[w] = "success"
  BY <1>0, <1>1 DEF BookResult, TypeInv, TypeOK
<1>6. attempts' = attempts
  BY <1>1 DEF BookResult
<1>7. Lifecycle!Succeed(r)
  BY <1>1, <1>2, <1>4, <1>5, <1>6 DEF Lifecycle!Succeed, Lifecycle!Set, stateOf
<1> QED BY <1>7

\* failOrRetry and cancelRun are a GiveUp of the lifecycle.
LEMMA LifeSettles ==
  ASSUME TypeInv, RowInv, NEW w \in Workers, Settle(w)
  PROVE  \E r \in RunIds : Lifecycle!GiveUp(r)
<1>0. PICK r \in RunIds : r = run[w] /\ pc[w] = "settle" /\ Owns(w, r)
  BY DEF Settle, AtStep, Owns, TypeInv, WorkerShape
<1>1. /\ status' = [status EXCEPT ![r] = Settlement(w)]
      /\ UNCHANGED <<attempts, outputs, unacked>>
  BY <1>0 DEF Settle, history
<1>2. /\ Settlement(w) \in {"queued", "failed", "cancelled"}
      /\ Settlement(w) = "queued" => attempts[r] < 2
      /\ Settlement(w) = "cancelled" => result[w] = "abort"
  BY <1>0 DEF Settlement, AfterFailure
<1>3. \/ status[r] = "running"
      \/ r \in unacked /\ status[r] \in {"success", "partial"} /\ result[w] = "retryable"
  BY <1>0 DEF RowInv, OwnerShape
<1>4. stateOf' = [stateOf EXCEPT ![r] = Settlement(w)] /\ stateOf[r] = status[r]
  BY <1>1, <1>2, <1>3, StateWritten DEF stateOf
<1>5. Lifecycle!GiveUp(r)
  BY <1>1, <1>2, <1>3, <1>4 DEF Lifecycle!GiveUp, Lifecycle!Set, Lifecycle!MaxTries, stateOf
<1> QED BY <1>5

\* What users and time do to rows is a Record, or nothing.
LEMMA LifeWorld == ASSUME TypeInv, World PROVE [Lifecycle!Next]_(Lifecycle!vars)
<1>1. ASSUME NEW j \in Jobs, QueueManual(j) PROVE UNCHANGED Lifecycle!vars
  BY <1>1, LifeStutters DEF QueueManual, FreshId, history, TypeInv, TypeOK
<1>2. ASSUME NEW r \in RunIds, CommitManual(r) PROVE Lifecycle!Record(r)
  <2>1. /\ status[r] = "inserting" /\ status' = [status EXCEPT ![r] = "queued"]
        /\ UNCHANGED <<attempts, outputs, unacked>>
    BY <1>2 DEF CommitManual, history
  <2>2. stateOf' = [stateOf EXCEPT ![r] = "queued"] /\ stateOf[r] = "absent"
    BY <2>1, StateWritten DEF stateOf
  <2> QED BY <2>1, <2>2 DEF Lifecycle!Record, Lifecycle!Set, stateOf
<1>3. ASSUME \/ \E j \in Jobs : EditDefinition(j) \/ PauseOrResume(j)
             \/ \E r \in RunIds : RetryFallsDue(r)
             \/ TimePasses
      PROVE  UNCHANGED Lifecycle!vars
  <2>1. UNCHANGED <<status, attempts, outputs, unacked>>
    BY <1>3 DEF EditDefinition, PauseOrResume, RetryFallsDue, TimePasses, row, history
  <2> QED BY <2>1, LifeStutters DEF TypeInv, TypeOK
<1> QED BY <1>1, <1>2, <1>3 DEF World, Lifecycle!Next

\* Every step is, row by row, one the lifecycle allows or none.
LEMMA LifeNext == TypeInv /\ RowInv /\ [Next]_vars => [Lifecycle!Next]_(Lifecycle!vars)
<1> SUFFICES ASSUME TypeInv, RowInv, [Next]_vars PROVE [Lifecycle!Next]_(Lifecycle!vars)
  OBVIOUS
<1>1. CASE UNCHANGED vars
  BY <1>1, LifeStutters DEF vars, row, history, TypeInv, TypeOK
<1>2. CASE Process
  <2>1. ASSUME \/ Boot \/ PlanMissed \/ FinishRecovery \/ Stop \/ Exit \/ Crash
               \/ OrphanedLockReleased \/ TickBegin \/ TickEnd \/ TickFails
        PROVE  UNCHANGED Lifecycle!vars
    <3>1. /\ UNCHANGED <<attempts, outputs, unacked>> /\ status' \in [RunIds -> RunStatus]
          /\ \A r \in RunIds : \/ status'[r] = status[r]
                               \/ status[r] = "inserting" /\ status'[r] = "absent"
      BY <2>1 DEF Boot, PlanMissed, FinishRecovery, Stop, Exit, Crash, OrphanedLockReleased,
         TickBegin, TickEnd, TickFails, row, history, TypeInv, TypeOK
    <3> QED BY <3>1, LifeStutters
  <2> QED BY <1>2, <2>1, LifeInserts, LifeRecovers DEF Process, Lifecycle!Next
<1>3. ASSUME NEW w \in Workers,
             WorkerStep(w) \/ FinishUnheard(w) \/ MirrorFails(w) \/ WorkerFails(w)
      PROVE  [Lifecycle!Next]_(Lifecycle!vars)
  <2>1. CASE Claim(w)
    BY <2>1, LifeClaims DEF Lifecycle!Next
  <2>2. CASE Finish(w) \/ FinishUnheard(w)
    BY <2>2, LifeBooks DEF Lifecycle!Next
  <2>3. CASE Settle(w)
    BY <2>3, LifeSettles DEF Lifecycle!Next
  <2>4. CASE \/ (\E r \in RunIds : Select(w, r)) \/ Drained(w) \/ Load(w)
             \/ EnterDatasource(w) \/ LeaveDatasource(w) \/ ExecuteAnalysis(w)
             \/ ExecuteAgentFlow(w) \/ FinishRollsBack(w) \/ Mirror(w)
             \/ MirrorFails(w) \/ WorkerFails(w)
    <3>1. UNCHANGED <<status, attempts, outputs, unacked>>
      BY <2>4 DEF Select, Drained, Load, EnterDatasource, LeaveDatasource, ExecuteAnalysis,
         ExecuteAgentFlow, FinishRollsBack, Mirror, MirrorFails, WorkerFails, row, history
    <3> QED BY <3>1, LifeStutters DEF TypeInv, TypeOK
  <2> QED BY <1>3, <2>1, <2>2, <2>3, <2>4 DEF WorkerStep
<1>4. CASE World
  BY <1>4, LifeWorld
<1> QED BY <1>1, <1>2, <1>3, <1>4 DEF Next

(* The scheduler implements the life of a run: every step of a scan, a     *)
(* worker, recovery, a crash or a user is, row by row, a step that         *)
(* JobRunLifecycle allows, or none.                                        *)
THEOREM RowsLiveTheirLife == Spec => KeepsLifecycle
<1>1. Init => Lifecycle!Init
  BY DEF Init, Lifecycle!Init
<1>2. TypeInv /\ RowInv /\ [Next]_vars => [Lifecycle!Next]_(Lifecycle!vars)
  BY LifeNext
<1> QED BY <1>1, <1>2, RowInvariant, PTL DEF Spec, KeepsLifecycle, Lifecycle!Spec

(* The end of a run is final: no worker with an old id, no recovery and no *)
(* tick rewrites it; only a commit nobody heard of can be overwritten.     *)
THEOREM EndsAreFinal == Spec => EndIsFinal
<1>1. ASSUME [Lifecycle!Next]_(Lifecycle!vars), TypeInv, TypeInv', NEW r \in RunIds,
             status[r] \in Terminal, status'[r] # status[r]
      PROVE  r \in unacked
  <2>1. stateOf[r] = status[r] /\ stateOf'[r] # status[r]
    BY <1>1 DEF stateOf, TypeInv, TypeOK
  <2>2. UNCHANGED Lifecycle!vars => stateOf' = stateOf
    BY DEF Lifecycle!vars, stateOf
  <2>3. ASSUME NEW q \in RunIds,
               Lifecycle!Record(q) \/ Lifecycle!Try(q) \/ Lifecycle!Succeed(q) \/ Lifecycle!GiveUp(q)
        PROVE  /\ \E what : stateOf' = [stateOf EXCEPT ![q] = what]
               /\ stateOf[q] \in {"absent", "queued", "running"} \/ q \in unacked
    BY <2>3 DEF Lifecycle!Record, Lifecycle!Try, Lifecycle!Succeed, Lifecycle!GiveUp,
       Lifecycle!Set, stateOf
  <2>4. stateOf \in [RunIds -> RunStatus]
    BY <1>1 DEF stateOf, TypeInv, TypeOK
  <2>5. \A q \in RunIds : q # r =>
          ~(Lifecycle!Record(q) \/ Lifecycle!Try(q) \/ Lifecycle!Succeed(q) \/ Lifecycle!GiveUp(q))
    BY <2>1, <2>3, <2>4
  <2> QED BY <1>1, <2>1, <2>2, <2>3, <2>5 DEF Lifecycle!Next
<1>2. TypeInv /\ RowInv /\ [Next]_vars =>
        \A r \in RunIds : status[r] \in Terminal /\ status'[r] # status[r] => r \in unacked
  BY <1>1, LifeNext, TypeNext
<1>3. TypeInv /\ RowInv /\ [Next]_vars =>
        [\A r \in RunIds : status[r] \in Terminal /\ status'[r] # status[r] => r \in unacked]_vars
  BY <1>2
<1> QED BY <1>3, RowInvariant, PTL DEF Spec, EndIsFinal
-----------------------------------------------------------------------------
(* What the scheduler does for the clock and around the rows: every        *)
(* occurrence of a cron expression gets one row, market pipelines do not   *)
(* overlap, and no conversation is left showing that it runs.              *)
(*                                                                         *)
(* What makes the induction work for the occurrences is ScanCovers -- a    *)
(* scan under way has either planned a job's wanted occurrences or refused *)
(* the job -- with InOrder: rows come in the order of time, so recovery    *)
(* may start from a job's last row.                                        *)

HIDE DEF JobTypes, BudgetKinds, MaxAttempts, Finished, Terminal, RunStatus,
         SessionStatus, Phases, Results, Steps, NoRun


\* The occurrence is owed a row: its job is on and was not edited since.
Wanted(p) == enabled[p[1]] /\ p[2] \in Cron[p[1]] /\ updated[p[1]] < p[2]

\* A scan is under way, in recovery or in a tick, and how far it looks.
Scanning == ticking \/ phase = "missed"
Through == IF phase = "missed" THEN now - 1 ELSE now

\* The scan has recorded or will record what is wanted of the job ...
InPlan(j) ==
    \A p \in Occurrences : p[1] = j /\ Wanted(p) /\ p[2] <= Through => Recorded(p) \/ p \in todo

\* ... or it records nothing of it and fails in the end.
Refusing(j) == overLimit /\ \A o \in todo : o[1] # j

ScanCovers == Scanning => \A j \in Jobs : InPlan(j) \/ Refusing(j)

\* Wherever a job has a row, what was wanted before has one.
InOrder ==
    \A r \in RunIds, p \in Occurrences :
        status[r] # "absent" /\ jobOf[r] = p[1] /\ p[2] < scheduledFor[r] /\ Wanted(p) => Recorded(p)

\* Nothing is known of the future, and a manual run is of no occurrence.
NoFuture ==
    /\ now <= clock /\ lastTickAt <= clock /\ \A o \in todo : o[2] <= Through
    /\ \A j \in Jobs : updated[j] <= clock
    /\ \A r \in RunIds : /\ scheduledFor[r] <= clock
                         /\ status[r] = "inserting" => scheduledFor[r] = 0

OccurrenceInv ==
    NoFuture /\ ScanCovers /\ InOrder /\ OccurrencesAccounted /\ OneRowPerOccurrence

\* The market lock is held while a pipeline runs, and a pipeline runs alone.
PipelineInv ==
    OnePipeline /\ \A w \in Workers : pc[w] = "locked" => marketLock = "held"

\* A conversation that shows its run running is right, or somebody will say
\* otherwise, or failed to.
ConversationInv ==
    phase # "down" =>
        \A r \in RunIds : session[r] = "running" =>
            \/ status[r] = "running" \/ r \in silent
            \/ \E w \in Workers : pc[w] \in {"settle", "mirror"} /\ run[w] = r

-----------------------------------------------------------------------------
(* Pipelines.                                                              *)

\* Pipelines start and end with the lock, so every step keeps them apart.
LEMMA PipelineNext == TypeInv /\ PipelineInv /\ [Next]_vars => PipelineInv'
<1> SUFFICES ASSUME TypeInv, PipelineInv, [Next]_vars PROVE PipelineInv'
  OBVIOUS
<1> USE DEF PipelineInv, OnePipeline
<1>1. ASSUME \A v \in Workers : pc'[v] = "locked" => pc[v] = "locked" /\ marketLock' = marketLock
      PROVE  PipelineInv'
  BY <1>1
<1>2. ASSUME NEW w \in Workers, EnterDatasource(w) PROVE PipelineInv'
  <2>1. CASE marketLock = "free" /\ marketLock' = "held" /\ pc' = [pc EXCEPT ![w] = "locked"]
    <3>1. \A v \in Workers : pc[v] # "locked"
      BY <2>1
    <3> QED BY <2>1, <3>1 DEF TypeInv, TypeOK
  <2>2. CASE marketLock' = marketLock /\ \E step \in {"finish", "settle"} : pc' = [pc EXCEPT ![w] = step]
    BY <1>1, <2>2 DEF TypeInv, TypeOK
  <2> QED BY <1>2, <2>1, <2>2 DEF EnterDatasource, LockAcquired, Goto
<1>3. ASSUME NEW w \in Workers, LeaveDatasource(w) PROVE PipelineInv'
  <2>1. pc[w] = "locked" /\ \E step \in {"finish", "settle"} : pc' = [pc EXCEPT ![w] = step]
    BY <1>3 DEF LeaveDatasource, AtStep, Goto
  <2>2. \A v \in Workers : pc'[v] # "locked"
    BY <2>1 DEF TypeInv, TypeOK
  <2> QED BY <2>2
<1>4. ASSUME NEW w \in Workers,
             \/ (\E r \in RunIds : Select(w, r)) \/ Drained(w) \/ Claim(w) \/ Load(w)
             \/ ExecuteAnalysis(w) \/ ExecuteAgentFlow(w) \/ Finish(w) \/ FinishRollsBack(w)
             \/ Settle(w) \/ Mirror(w) \/ FinishUnheard(w) \/ MirrorFails(w) \/ WorkerFails(w)
      PROVE  PipelineInv'
  <2>1. marketLock' = marketLock
    BY <1>4 DEF Select, Drained, Claim, Load, ExecuteAnalysis, ExecuteAgentFlow, Finish,
       FinishRollsBack, Settle, Mirror, FinishUnheard, MirrorFails, WorkerFails
  <2>2. \E step \in Steps \ {"locked"} : pc' = [pc EXCEPT ![w] = step]
    BY <1>4 DEF Select, Drained, Claim, Load, ExecuteAnalysis, ExecuteAgentFlow, Finish,
       FinishRollsBack, Settle, Mirror, FinishUnheard, MirrorFails, WorkerFails, Leave, NextBatch, Goto, Steps
  <2> QED BY <1>1, <2>1, <2>2 DEF TypeInv, TypeOK
<1>5. CASE Exit \/ Crash
  <2>1. \A v \in Workers : pc'[v] = "off"
    BY <1>5 DEF Exit, Crash, ForgetProcess
  <2> QED BY <2>1
<1>6. CASE TickEnd
  <2>1. marketLock' = marketLock /\ \A v \in Workers : pc'[v] = "locked" => pc[v] = "locked"
    BY <1>6 DEF TickEnd, StartWorkers, slots, TypeInv, TypeOK
  <2> QED BY <1>1, <2>1
<1>7. CASE OrphanedLockReleased
  BY <1>7 DEF OrphanedLockReleased, slots
<1>8. CASE \/ Boot \/ PlanMissed \/ FinishRecovery \/ Stop \/ TickBegin \/ TickFails
           \/ \E r \in RunIds : RecoverRow(r)
           \/ \E o \in Occurrences : RecordMissed(o) \/ TickInsert(o)
           \/ World \/ UNCHANGED vars
  <2>1. UNCHANGED <<pc, marketLock>>
    BY <1>8 DEF Boot, PlanMissed, FinishRecovery, Stop, TickBegin, TickFails, RecoverRow, RecordMissed,
       TickInsert, World, QueueManual, EditDefinition, PauseOrResume, CommitManual, RetryFallsDue,
       TimePasses, vars, slots
  <2> QED BY <1>1, <2>1
<1> QED BY <1>2, <1>3, <1>4, <1>5, <1>6, <1>7, <1>8 DEF Next, Process, WorkerStep

\* Market pipelines never overlap, although two datasource runs may be claimed
\* at once: the advisory lock lets one of them in.
THEOREM PipelinesRunAlone == Spec => []OnePipeline
<1>1. Init => PipelineInv
  BY DEF Init, PipelineInv, OnePipeline
<1>2. PipelineInv => OnePipeline
  BY DEF PipelineInv
<1> QED BY <1>1, <1>2, PipelineNext, TypeInvariant, PTL DEF Spec

-----------------------------------------------------------------------------
(* Conversations.                                                          *)

\* Nothing is shown to run that was not, and who is to tell stays.
LEMMA ConversationKept ==
  ASSUME ConversationInv, phase # "down" \/ phase' = "down",
         \A r \in RunIds : session'[r] = "running" => session[r] = "running",
         \A r \in RunIds : status[r] = "running" => status'[r] = "running",
         silent \subseteq silent',
         \A w \in Workers : pc[w] \in {"settle", "mirror"} => pc'[w] \in {"settle", "mirror"} /\ run'[w] = run[w]
  PROVE  ConversationInv'
BY DEF ConversationInv

\* A worker's step tells the conversation of its run, or owes it.
LEMMA ConversationWorker ==
  ASSUME TypeInv, RowInv, ConversationInv, NEW w \in Workers,
         WorkerStep(w) \/ FinishUnheard(w) \/ MirrorFails(w) \/ WorkerFails(w)
  PROVE  ConversationInv'
<1> USE DEF TypeInv, TypeOK
<1>1. ASSUME \/ (\E r \in RunIds : Select(w, r)) \/ Drained(w)
             \/ EnterDatasource(w) \/ LeaveDatasource(w)
             \/ ExecuteAnalysis(w) \/ ExecuteAgentFlow(w) \/ FinishRollsBack(w)
      PROVE  ConversationInv'
  <2>1. /\ UNCHANGED <<phase, session, status, silent>> /\ pc[w] \notin {"settle", "mirror"}
        /\ \A v \in Workers \ {w} : pc'[v] = pc[v] /\ run'[v] = run[v]
    BY <1>1 DEF Select, Drained, Leave, EnterDatasource, LeaveDatasource, ExecuteAnalysis,
       ExecuteAgentFlow, FinishRollsBack, AtStep, Goto, Yield, scan, row, history
  <2> QED BY <2>1 DEF ConversationInv
<1>2. CASE Claim(w)
  <2>1. /\ UNCHANGED <<phase, session, silent>> /\ pc[w] = "claim"
        /\ \A v \in Workers \ {w} : pc'[v] = pc[v] /\ run'[v] = run[v]
        /\ \A r \in RunIds : status[r] = "running" => status'[r] = "running"
    BY <1>2 DEF Claim, NextBatch, AtStep, Goto, scan, row, history
  <2> QED BY <2>1 DEF ConversationInv
<1>3. CASE Load(w)
  <2>1. PICK r \in RunIds : r = run[w] /\ pc[w] = "load" /\ status[r] = "running"
    BY <1>3 DEF Load, AtStep, WorkerShape, RowInv, OwnerShape, Owns
  <2>2. /\ UNCHANGED <<phase, status, silent>>
        /\ \A v \in Workers \ {w} : pc'[v] = pc[v] /\ run'[v] = run[v]
        /\ \A q \in RunIds \ {r} : session'[q] = session[q]
    BY <1>3, <2>1 DEF Load, Tell, AtStep, Goto, scan, row, history
  <2> QED BY <2>1, <2>2 DEF ConversationInv
<1>4. CASE Finish(w) \/ FinishUnheard(w) \/ Settle(w)
  <2>1. /\ UNCHANGED <<phase, session, silent, run>> /\ pc'[w] \in {"settle", "mirror"}
        /\ run[w] \in RunIds
        /\ \A v \in Workers \ {w} : pc'[v] = pc[v]
        /\ \A q \in RunIds : q # run[w] => status'[q] = status[q]
    BY <1>4 DEF Finish, FinishUnheard, Settle, BookResult, Yield, AtStep, Goto, scan, history, WorkerShape
  <2> QED BY <2>1 DEF ConversationInv
<1>5. CASE Mirror(w)
  <2>1. PICK r \in RunIds : r = run[w] /\ pc[w] = "mirror" /\ result[w] # "running"
    BY <1>5 DEF Mirror, AtStep, WorkerShape
  <2>2. /\ UNCHANGED <<phase, status, silent>>
        /\ \A v \in Workers \ {w} : pc'[v] = pc[v] /\ run'[v] = run[v]
        /\ session'[r] # "running" /\ \A q \in RunIds \ {r} : session'[q] = session[q]
    BY <1>5, <2>1 DEF Mirror, NextBatch, Tell, AtStep, Goto, scan, row, history
  <2> QED BY <2>1, <2>2 DEF ConversationInv
<1>6. CASE MirrorFails(w) \/ WorkerFails(w)
  <2>1. /\ UNCHANGED <<phase, session, status>>
        /\ \A v \in Workers \ {w} : pc'[v] = pc[v] /\ run'[v] = run[v]
        /\ silent \subseteq silent'
        /\ pc[w] \in {"settle", "mirror"} => run[w] \in silent'
    BY <1>6 DEF MirrorFails, WorkerFails, NextBatch, Leave, AtStep, Goto, scan, row, history
  <2> QED BY <2>1 DEF ConversationInv
<1> QED BY <1>1, <1>2, <1>3, <1>4, <1>5, <1>6 DEF WorkerStep

\* So do the process and the world.
LEMMA ConversationProcess ==
  ASSUME TypeInv, RowInv, ConversationInv, Process \/ World \/ UNCHANGED vars
  PROVE  ConversationInv'
<1> USE DEF TypeInv, TypeOK
<1>1. CASE Boot
  BY <1>1 DEF Boot, InterruptedConversations, ConversationInv, row
<1>2. CASE Exit \/ Crash
  BY <1>2 DEF Exit, Crash, ForgetProcess, ConversationInv
<1>3. ASSUME NEW r \in RunIds, RecoverRow(r) PROVE ConversationInv'
  <2>1. AfterFailure(r) # "running"
    BY DEF AfterFailure
  <2>2. /\ UNCHANGED <<phase, pc, run>> /\ \A q \in RunIds \ {r} : session'[q] = session[q] /\ status'[q] = status[q]
        /\ silent \subseteq silent' /\ (session'[r] # "running" \/ r \in silent')
    BY <1>3, <2>1 DEF RecoverRow, Tell, scan, slots
  <2> QED BY <2>2 DEF ConversationInv
<1>4. ASSUME NEW o \in Occurrences, RecordMissed(o) \/ TickInsert(o) PROVE ConversationInv'
  <2>1. PICK mark \in {"queued", "missed"} : InsertOccurrence(o, mark)
    BY <1>4 DEF RecordMissed, TickInsert
  <2>2. UNCHANGED <<phase, pc, run, silent>>
    BY <1>4 DEF RecordMissed, TickInsert, slots, history
  <2>3. /\ \A r \in RunIds : session'[r] = "running" => session[r] = "running"
        /\ \A r \in RunIds : status[r] = "running" => status'[r] = "running"
    BY <2>1 DEF InsertOccurrence, FreshId, row
  <2> QED BY <2>2, <2>3 DEF ConversationInv
<1>5. ASSUME NEW j \in Jobs, QueueManual(j) PROVE ConversationInv'
  <2>1. UNCHANGED <<phase, pc, run, silent>>
    BY <1>5 DEF QueueManual, slots, history, scan
  <2>2. /\ \A r \in RunIds : session'[r] = "running" => session[r] = "running"
        /\ \A r \in RunIds : status[r] = "running" => status'[r] = "running"
    BY <1>5 DEF QueueManual, FreshId
  <2> QED BY <2>1, <2>2 DEF ConversationInv
<1>6. CASE TickEnd
  BY <1>6 DEF TickEnd, StartWorkers, slots, row, history, ConversationInv
<1>7. CASE \/ PlanMissed \/ FinishRecovery \/ Stop \/ OrphanedLockReleased \/ TickBegin \/ TickFails
           \/ \E j \in Jobs : EditDefinition(j) \/ PauseOrResume(j)
           \/ \E r \in RunIds : CommitManual(r) \/ RetryFallsDue(r)
           \/ TimePasses \/ UNCHANGED vars
  <2>1. /\ UNCHANGED <<session, pc, run, silent>> /\ (phase = "down" => phase' = "down")
        /\ \A r \in RunIds : status[r] = "running" => status'[r] = "running"
    BY <1>7 DEF PlanMissed, FinishRecovery, Stop, OrphanedLockReleased, TickBegin, TickFails,
       EditDefinition, PauseOrResume, CommitManual, RetryFallsDue, TimePasses, vars, row, slots, scan,
       history, RowInv, WorkersStartUp
  <2> QED BY <2>1 DEF ConversationInv
<1> QED BY <1>1, <1>2, <1>3, <1>4, <1>5, <1>6, <1>7 DEF Process, World

\* After start-up's recovery no conversation shows "running" for a run nobody
\* runs, unless the worker that ended it is about to say so, or a database
\* error kept somebody from saying so.
THEOREM ConversationsSettle == Spec => []ConversationNotStuck
<1> DEFINE Inv == TypeInv /\ RowInv
<1>1. Init => ConversationInv
  BY DEF Init, ConversationInv
<1>2. Inv /\ ConversationInv /\ [Next]_vars => ConversationInv'
  BY ConversationWorker, ConversationProcess DEF Next
<1>3. ConversationInv => ConversationNotStuck
  BY DEF ConversationInv, ConversationNotStuck
<1> QED BY <1>1, <1>2, <1>3, RowInvariant, PTL DEF Spec

-----------------------------------------------------------------------------
(* Occurrences.                                                            *)

\* A row that there is stays, with the occurrence it is of, and no row of an
\* occurrence comes.
RowsStay ==
    \A r \in RunIds :
        /\ status[r] \notin {"absent", "inserting"} =>
              status'[r] \notin {"absent", "inserting"} /\ jobOf'[r] = jobOf[r]
                /\ scheduledFor'[r] = scheduledFor[r]
        /\ status[r] = "absent" => status'[r] = "absent" \/ scheduledFor'[r] = 0
        /\ status[r] = "inserting" => scheduledFor'[r] = 0
        /\ status'[r] = "inserting" => scheduledFor'[r] = 0

\* What becomes wanted is in the future.
WantsFuture == \A p \in Occurrences : Wanted(p)' /\ p[2] <= clock => Wanted(p)

\* So every occurrence keeps the row it has, and gets none.
LEMMA RecordedKept ==
  ASSUME TypeInv, OccurrenceInv, RowsStay, NEW p \in Occurrences
  PROVE  Recorded(p)' <=> Recorded(p)
<1>1. p[2] # 0
  BY DEF Occurrences
<1> QED BY <1>1 DEF RowsStay, Recorded, OccurrenceInv, NoFuture

LEMMA TablesKept ==
  ASSUME TypeInv, OccurrenceInv, RowsStay, WantsFuture
  PROVE  InOrder' /\ OneRowPerOccurrence'
<1>1. ASSUME NEW r \in RunIds, status'[r] # "absent", scheduledFor'[r] > 0
      PROVE  status[r] # "absent" /\ jobOf'[r] = jobOf[r] /\ scheduledFor'[r] = scheduledFor[r]
  BY <1>1 DEF RowsStay
<1>2. InOrder'
  <2> SUFFICES ASSUME NEW r \in RunIds, NEW p \in Occurrences, status'[r] # "absent",
                      jobOf'[r] = p[1], p[2] < scheduledFor'[r], Wanted(p)'
               PROVE  Recorded(p)'
    BY DEF InOrder
  <2>1. p[2] \in 1..Horizon /\ scheduledFor[r] \in 0..Horizon /\ clock \in 0..Horizon /\ Horizon \in Nat
    BY JobsAssumption DEF Occurrences, TypeInv, TypeOK
  <2>2. scheduledFor'[r] > 0
    BY <2>1, <1>1 DEF RowsStay
  <2>3. status[r] # "absent" /\ jobOf[r] = p[1] /\ p[2] < scheduledFor[r]
    BY <1>1, <2>2
  <2>4. p[2] <= clock
    BY <2>1, <2>3 DEF OccurrenceInv, NoFuture
  <2> QED BY <2>3, <2>4, RecordedKept DEF WantsFuture, OccurrenceInv, InOrder
<1>3. OneRowPerOccurrence'
  BY <1>1 DEF OccurrenceInv, OneRowPerOccurrence
<1> QED BY <1>2, <1>3

\* A step that leaves the scan alone, or only begins to stop, keeps what the
\* scan covers and what it accounted for.
LEMMA ScanKept ==
  ASSUME TypeInv, RowInv, OccurrenceInv, RowsStay, WantsFuture,
         UNCHANGED <<ticking, now, todo, overLimit, lastTickAt>>,
         phase' = phase \/ (phase \in {"starting", "up"} /\ phase' = "stopping")
  PROVE  ScanCovers' /\ OccurrencesAccounted'
<1>0. /\ now \in 0..Horizon /\ clock \in 0..Horizon /\ lastTickAt \in -1..Horizon /\ Horizon \in Nat
      /\ \A p \in Occurrences : p[1] \in Jobs /\ p[2] \in 1..Horizon
  BY JobsAssumption DEF Occurrences, TypeInv, TypeOK
<1>1. Through' = Through /\ Through <= clock /\ (Scanning' <=> Scanning)
  BY <1>0 DEF Through, Scanning, OccurrenceInv, NoFuture
<1>2. ScanCovers'
  <2> SUFFICES ASSUME Scanning', NEW j \in Jobs, ~Refusing(j)' PROVE InPlan(j)'
    BY DEF ScanCovers
  <2>1. InPlan(j)
    BY <1>1 DEF Refusing, OccurrenceInv, ScanCovers
  <2> SUFFICES ASSUME NEW p \in Occurrences, p[1] = j, Wanted(p)', p[2] <= Through
               PROVE  Recorded(p) \/ p \in todo
    BY <1>1, RecordedKept DEF InPlan
  <2>2. p[2] <= clock
    BY <1>0, <1>1 DEF Through
  <2> QED BY <2>1, <2>2 DEF InPlan, WantsFuture
<1>3. OccurrencesAccounted'
  <2> SUFFICES ASSUME phase' = "up", NEW o \in Occurrences, Wanted(o)', o[2] <= lastTickAt
               PROVE  Recorded(o)'
    BY DEF OccurrencesAccounted, Wanted
  <2>1. o[2] <= clock /\ phase = "up"
    BY <1>0 DEF OccurrenceInv, NoFuture
  <2>2. Recorded(o)
    BY <2>1 DEF WantsFuture, Wanted, OccurrenceInv, OccurrencesAccounted
  <2> QED BY <2>2, RecordedKept
<1> QED BY <1>2, <1>3

\* What planning a scan promises, however many jobs it refuses.
LEMMA PlanCovers ==
  ASSUME NEW S, NEW j \in Jobs
  PROVE  \/ \A p \in S : p[1] = j => p \in Plan(S)
         \/ Refused(S) # {} /\ \A o \in Plan(S) : o[1] # j
BY JobsAssumption DEF Plan

\* A scan that begins covers what is wanted up to its end, if what it leaves
\* out has a row.
LEMMA ScanBegins ==
  ASSUME TypeInv, NEW S, todo' = Plan(S), overLimit' = (Refused(S) # {}),
         UNCHANGED <<enabled, updated, status, jobOf, scheduledFor>>,
         \A p \in Occurrences : Wanted(p) /\ p[2] <= Through' => Recorded(p) \/ p \in S
  PROVE  ScanCovers'
<1> SUFFICES ASSUME NEW j \in Jobs PROVE InPlan(j)' \/ Refusing(j)'
  BY DEF ScanCovers
<1>1. CASE \A p \in S : p[1] = j => p \in Plan(S)
  <2>1. \A p \in Occurrences : Recorded(p)' = Recorded(p) /\ Wanted(p)' = Wanted(p)
    BY DEF Recorded, Wanted
  <2> QED BY <1>1, <2>1 DEF InPlan
<1>2. CASE Refused(S) # {} /\ \A o \in Plan(S) : o[1] # j
  BY <1>2 DEF Refusing
<1> QED BY <1>1, <1>2, PlanCovers

\* recoverMissed scans from a job's last row: what it leaves out has a row.
LEMMA OccurrencePlanMissed ==
  ASSUME TypeInv, RowInv, OccurrenceInv, PlanMissed PROVE OccurrenceInv'
<1> DEFINE S == RecoveryScan(now - 1)
<1>0. /\ now \in 0..Horizon /\ clock \in 0..Horizon /\ Horizon \in Nat
      /\ \A p \in Occurrences : p[1] \in Jobs /\ p[2] \in 1..Horizon
      /\ \A r \in RunIds : scheduledFor[r] \in 0..Horizon
  BY JobsAssumption DEF Occurrences, TypeInv, TypeOK
<1>1. /\ UNCHANGED <<definitions, identity, status, lastTickAt, ticking, now, clock>>
      /\ phase' = "missed" /\ todo' = Plan(S) /\ overLimit' = (Refused(S) # {})
  BY DEF PlanMissed, row
<1>2. Through' = now - 1
  BY <1>1 DEF Through
<1>3. ASSUME NEW p \in Occurrences, Wanted(p), p[2] <= now - 1, ~Recorded(p)
      PROVE  p \in S
  <2>1. p \in Named(now - 1) /\ updated[p[1]] < p[2]
    BY <1>3 DEF Wanted, Named
  <2>2. ASSUME NEW r \in RunIds, status[r] # "absent", jobOf[r] = p[1]
        PROVE  scheduledFor[r] < p[2]
    <3>1. scheduledFor[r] # p[2]
      BY <1>3, <2>2 DEF Recorded
    <3>2. ~(p[2] < scheduledFor[r])
      BY <1>3, <2>2 DEF OccurrenceInv, InOrder
    <3> QED BY <1>0, <3>1, <3>2
  <2> QED BY <2>1, <2>2 DEF RecoveryScan
<1>4. ScanCovers'
  BY <1>1, <1>2, <1>3, ScanBegins DEF definitions, identity
<1>5. NoFuture'
  <2>1. \A o \in Plan(S) : o[2] <= now - 1
    BY DEF Plan, RecoveryScan, Named
  <2> QED BY <1>1, <1>2, <2>1 DEF OccurrenceInv, NoFuture, definitions, identity
<1>6. InOrder' /\ OneRowPerOccurrence'
  BY <1>1 DEF OccurrenceInv, InOrder, OneRowPerOccurrence, Recorded, Wanted, definitions, identity
<1>7. OccurrencesAccounted'
  BY <1>1 DEF OccurrencesAccounted
<1> QED BY <1>4, <1>5, <1>6, <1>7 DEF OccurrenceInv

\* One instant names one occurrence of a job, which no limit refuses.
LEMMA OneInstantFits ==
  ASSUME TypeInv, NEW S, S = {o \in Named(now) : now - 1 < o[2]}
  PROVE  Refused(S) = {} /\ Plan(S) = S
<1>1. ASSUME NEW j \in Jobs PROVE j \notin Refused(S)
  <2> DEFINE T == {o \in S : o[1] = j}
  <2>1. T \subseteq {<<j, now>>}
    <3> SUFFICES ASSUME NEW o \in T PROVE o = <<j, now>>
      OBVIOUS
    <3>1. o \in Jobs \X (1..Horizon) /\ o[1] = j /\ now - 1 < o[2] /\ o[2] <= now
      BY DEF Named, Occurrences
    <3>2. o[2] = now
      BY <3>1, JobsAssumption DEF TypeInv, TypeOK
    <3> QED BY <3>1, <3>2
  <2>2. IsFiniteSet({<<j, now>>}) /\ Cardinality({<<j, now>>}) = 1
    BY FS_Singleton
  <2>3. Cardinality(T) <= 1 /\ IsFiniteSet(T)
    BY <2>1, <2>2, FS_Subset
  <2>4. Cardinality(T) \in Nat
    BY <2>3, FS_CardinalityType
  <2> HIDE DEF T
  <2>5. ~(Cardinality(T) > OccurrenceLimit)
    BY <2>3, <2>4, BoundsAssumption
  <2> QED BY <2>5 DEF Refused, T
<1>2. Refused(S) = {}
  BY <1>1 DEF Refused
<1> QED BY <1>2 DEF Plan

\* The gap is recorded up to now - 1, and the first tick takes what is left.
LEMMA OccurrenceFinishRecovery ==
  ASSUME TypeInv, RowInv, OccurrenceInv, FinishRecovery PROVE OccurrenceInv'
<1>0. /\ now \in 0..Horizon /\ clock \in 0..Horizon /\ Horizon \in Nat
      /\ \A p \in Occurrences : p[1] \in Jobs /\ p[2] \in 1..Horizon
  BY JobsAssumption DEF Occurrences, TypeInv, TypeOK
<1>1. /\ UNCHANGED <<definitions, identity, status, now, clock>>
      /\ phase = "missed" /\ todo = {} /\ ~ticking /\ phase' \in {"starting", "stopping"}
  BY DEF FinishRecovery, row, RowInv, WorkersStartUp
<1>2. InOrder' /\ OneRowPerOccurrence'
  BY <1>1 DEF OccurrenceInv, InOrder, OneRowPerOccurrence, Recorded, Wanted, definitions, identity
<1>3. OccurrencesAccounted'
  BY <1>1 DEF OccurrencesAccounted
<1>4. CASE overLimit
  <2>1. UNCHANGED <<lastTickAt, ticking, todo>> /\ phase' = "stopping"
    BY <1>4 DEF FinishRecovery
  <2>2. ScanCovers' /\ NoFuture'
    BY <1>1, <2>1 DEF ScanCovers, Scanning, Through, OccurrenceInv, NoFuture, definitions, identity
  <2> QED BY <1>2, <1>3, <2>2 DEF OccurrenceInv
<1>5. CASE ~overLimit
  <2> DEFINE S == {o \in Named(now) : now - 1 < o[2]}
  <2>1. lastTickAt' = now - 1 /\ todo' = Plan(S) /\ overLimit' = FALSE /\ phase' = "starting"
    BY <1>5 DEF FinishRecovery
  <2>2. Refused(S) = {} /\ Plan(S) = S
    BY OneInstantFits
  <2>3. Through' = now /\ Through = now - 1
    BY <1>1, <2>1 DEF Through
  <2>4. ASSUME NEW p \in Occurrences, Wanted(p), p[2] <= now, p \notin S PROVE Recorded(p)
    <3>1. p[2] <= now - 1
      BY <1>0, <2>4 DEF Wanted, Named
    <3>2. InPlan(p[1])
      BY <1>0, <1>1, <1>5 DEF OccurrenceInv, ScanCovers, Scanning, Refusing
    <3> QED BY <1>1, <2>3, <2>4, <3>1, <3>2 DEF InPlan
  <2>5. ScanCovers'
    BY <1>1, <2>1, <2>2, <2>3, <2>4, ScanBegins DEF definitions, identity
  <2>6. NoFuture'
    <3>1. \A o \in S : o[2] <= now
      BY DEF Named
    <3> QED BY <1>0, <1>1, <2>1, <2>2, <2>3, <3>1 DEF OccurrenceInv, NoFuture, definitions, identity
  <2> QED BY <1>2, <1>3, <2>5, <2>6 DEF OccurrenceInv
<1> QED BY <1>4, <1>5

\* A tick begins where the last one ended, and up to there all is recorded.
LEMMA OccurrenceTickBegin ==
  ASSUME TypeInv, RowInv, OccurrenceInv, TickBegin PROVE OccurrenceInv'
<1> DEFINE S == TickScan(clock)
<1>1. /\ UNCHANGED <<definitions, identity, status, lastTickAt, clock, phase>> /\ now' = clock
      /\ phase = "up" /\ todo' = Plan(S) /\ overLimit' = (Refused(S) # {})
  BY DEF TickBegin, row
<1>2. Through' = clock
  BY <1>1 DEF Through
<1>3. ASSUME NEW p \in Occurrences, Wanted(p), p[2] <= clock, p \notin S
      PROVE  Recorded(p)
  <2>1. p[2] <= lastTickAt
    BY <1>3, JobsAssumption DEF Wanted, TickScan, Named, Occurrences, TypeInv, TypeOK
  <2> QED BY <1>1, <1>3, <2>1 DEF Wanted, OccurrenceInv, OccurrencesAccounted
<1>4. ScanCovers'
  BY <1>1, <1>2, <1>3, ScanBegins DEF definitions, identity
<1>5. NoFuture'
  <2>1. \A o \in Plan(S) : o[2] <= clock
    BY DEF Plan, TickScan, Named
  <2>2. clock <= clock
    BY JobsAssumption DEF TypeInv, TypeOK
  <2> QED BY <1>1, <1>2, <2>1, <2>2 DEF OccurrenceInv, NoFuture, definitions, identity
<1>6. InOrder' /\ OneRowPerOccurrence' /\ OccurrencesAccounted'
  BY <1>1 DEF OccurrenceInv, InOrder, OneRowPerOccurrence, OccurrencesAccounted, Recorded, Wanted,
     definitions, identity
<1> QED BY <1>4, <1>5, <1>6 DEF OccurrenceInv

\* An occurrence gets its row when all that was wanted before it has one.
LEMMA OccurrenceInserts ==
  ASSUME TypeInv, RowInv, OccurrenceInv, NEW o \in Occurrences, RecordMissed(o) \/ TickInsert(o)
  PROVE  OccurrenceInv'
<1>0. /\ now \in 0..Horizon /\ clock \in 0..Horizon /\ Horizon \in Nat
      /\ \A p \in Occurrences : p[1] \in Jobs /\ p[2] \in 1..Horizon
  BY JobsAssumption DEF Occurrences, TypeInv, TypeOK
<1>1. /\ UNCHANGED <<definitions, phase, lastTickAt, ticking, now, overLimit, clock>>
      /\ todo' = todo \ {o} /\ NextOfPlan(o) /\ Scanning
  BY DEF RecordMissed, TickInsert, Scanning
<1>2. PICK mark \in {"queued", "missed"} : InsertOccurrence(o, mark)
  BY DEF RecordMissed, TickInsert
<1>3. Recorded(o)' /\ \A p \in Occurrences : Recorded(p) => Recorded(p)'
  <2>1. CASE Recorded(o)
    BY <1>2, <2>1 DEF InsertOccurrence, identity, row, Recorded
  <2>2. CASE ~Recorded(o)
    <3>1. PICK r \in RunIds : /\ status[r] = "absent" /\ status' = [status EXCEPT ![r] = mark]
                              /\ jobOf' = [jobOf EXCEPT ![r] = o[1]]
                              /\ scheduledFor' = [scheduledFor EXCEPT ![r] = o[2]]
      BY <1>2, <2>2 DEF InsertOccurrence, FreshId
    <3>2. status'[r] # "absent" /\ jobOf'[r] = o[1] /\ scheduledFor'[r] = o[2]
      BY <1>2, <3>1 DEF TypeInv, TypeOK
    <3>3. \A q \in RunIds \ {r} :
             status'[q] = status[q] /\ jobOf'[q] = jobOf[q] /\ scheduledFor'[q] = scheduledFor[q]
      BY <3>1 DEF TypeInv, TypeOK
    <3> QED BY <3>1, <3>2, <3>3 DEF Recorded
  <2> QED BY <2>1, <2>2
<1>4. \A p \in Occurrences : Wanted(p)' = Wanted(p)
  BY <1>1 DEF Wanted, definitions
<1>5. Through' = Through /\ Through <= clock /\ (Scanning' <=> Scanning)
  BY <1>0, <1>1 DEF Through, Scanning, OccurrenceInv, NoFuture
<1>6. ScanCovers'
  <2> SUFFICES ASSUME NEW j \in Jobs PROVE InPlan(j)' \/ Refusing(j)'
    BY DEF ScanCovers
  <2>1. CASE InPlan(j)
    BY <1>1, <1>3, <1>4, <1>5, <2>1 DEF InPlan
  <2>2. CASE Refusing(j)
    BY <1>1, <2>2 DEF Refusing
  <2> QED BY <1>1, <2>1, <2>2 DEF OccurrenceInv, ScanCovers
<1>7. ASSUME NEW p \in Occurrences, Wanted(p), p[1] = o[1], p[2] < o[2]
      PROVE  Recorded(p)
  <2>1. o \in todo /\ o[1] \in Jobs /\ p \notin todo
    <3>0. \A i \in Jobs : ~(i < i)
      BY JobsAssumption
    <3>1. ~(o[1] < p[1])
      <4>1. o[1] \in Jobs /\ p[1] = o[1]
        BY <1>0, <1>7, Zenon
      <4> QED BY <3>0, <4>1, Zenon
    <3>2. ~(o[2] <= p[2])
      <4>1. o[2] \in Int /\ p[2] \in Int /\ p[2] < o[2]
        BY <1>0, <1>7
      <4> QED BY <4>1
    <3> QED BY <1>0, <1>1, <1>7, <3>1, <3>2 DEF NextOfPlan
  <2>2. InPlan(o[1])
    BY <1>1, <2>1 DEF OccurrenceInv, ScanCovers, Refusing
  <2>3. p[2] <= Through
    <3>1. o[2] <= Through
      BY <2>1 DEF OccurrenceInv, NoFuture
    <3> QED BY <1>0, <1>7, <3>1 DEF Through
  <2> QED BY <1>7, <2>1, <2>2, <2>3 DEF InPlan
<1>8. InOrder' /\ OneRowPerOccurrence'
  <2>1. CASE Recorded(o)
    <3>1. UNCHANGED <<status, jobOf, scheduledFor>>
      BY <1>2, <2>1 DEF InsertOccurrence, identity, row
    <3> QED BY <1>3, <1>4, <3>1 DEF OccurrenceInv, InOrder, OneRowPerOccurrence
  <2>2. CASE ~Recorded(o)
    <3>1. PICK r \in RunIds : /\ status[r] = "absent" /\ status' = [status EXCEPT ![r] = mark]
                              /\ jobOf' = [jobOf EXCEPT ![r] = o[1]]
                              /\ scheduledFor' = [scheduledFor EXCEPT ![r] = o[2]]
      BY <1>2, <2>2 DEF InsertOccurrence, FreshId
    <3>2. jobOf'[r] = o[1] /\ scheduledFor'[r] = o[2]
      BY <3>1 DEF TypeInv, TypeOK
    <3>3. \A q \in RunIds \ {r} :
             status'[q] = status[q] /\ jobOf'[q] = jobOf[q] /\ scheduledFor'[q] = scheduledFor[q]
      BY <3>1 DEF TypeInv, TypeOK
    <3>4. InOrder'
      <4> SUFFICES ASSUME NEW q \in RunIds, NEW p \in Occurrences, status'[q] # "absent",
                          jobOf'[q] = p[1], p[2] < scheduledFor'[q], Wanted(p)
                   PROVE  Recorded(p)
        BY <1>3, <1>4 DEF InOrder
      <4>1. CASE q = r
        BY <1>7, <3>2, <4>1
      <4>2. CASE q # r
        BY <3>3, <4>2 DEF OccurrenceInv, InOrder
      <4> QED BY <4>1, <4>2
    <3>5. OneRowPerOccurrence'
      <4>1. \A q \in RunIds \ {r} : ~(status'[q] # "absent" /\ jobOf'[q] = o[1] /\ scheduledFor'[q] = o[2])
        BY <2>2, <3>3 DEF Recorded
      <4> QED BY <3>2, <3>3, <4>1 DEF OccurrenceInv, OneRowPerOccurrence
    <3> QED BY <3>4, <3>5
  <2> QED BY <2>1, <2>2
<1>9. OccurrencesAccounted'
  BY <1>1, <1>3, <1>4 DEF OccurrenceInv, OccurrencesAccounted, Wanted
<1>10. NoFuture'
  <2>1. o[2] <= clock
    <3>1. o[2] <= Through
      BY <1>1 DEF NextOfPlan, OccurrenceInv, NoFuture
    <3> QED BY <1>0, <1>5, <3>1 DEF Through
  <2>2. \A r \in RunIds : \/ scheduledFor'[r] = scheduledFor[r] /\ status'[r] = status[r]
                          \/ scheduledFor'[r] = o[2] /\ status'[r] # "inserting"
    BY <1>2 DEF InsertOccurrence, identity, row, TypeInv, TypeOK
  <2>3. now' <= clock' /\ lastTickAt' <= clock' /\ \A p \in todo' : p[2] <= Through'
    BY <1>1, <1>5 DEF OccurrenceInv, NoFuture
  <2>4. \A j \in Jobs : updated'[j] <= clock'
    BY <1>1 DEF OccurrenceInv, NoFuture, definitions
  <2>5. \A r \in RunIds : /\ scheduledFor'[r] <= clock'
                          /\ status'[r] = "inserting" => scheduledFor'[r] = 0
    BY <1>1, <2>1, <2>2 DEF OccurrenceInv, NoFuture
  <2> QED BY <2>3, <2>4, <2>5 DEF NoFuture
<1> QED BY <1>6, <1>8, <1>9, <1>10 DEF OccurrenceInv

\* A tick that ends well has recorded what was wanted; one that fails has
\* recorded the first of it.
LEMMA OccurrenceTickEnds ==
  ASSUME TypeInv, RowInv, OccurrenceInv, TickEnd \/ TickFails PROVE OccurrenceInv'
<1>0. /\ now \in 0..Horizon /\ clock \in 0..Horizon /\ Horizon \in Nat
      /\ \A p \in Occurrences : p[1] \in Jobs /\ p[2] \in 1..Horizon
  BY JobsAssumption DEF Occurrences, TypeInv, TypeOK
<1>1. /\ UNCHANGED <<definitions, identity, status, now, clock>> /\ ticking /\ ~ticking' /\ todo' = {}
      /\ phase \in {"starting", "up", "stopping"} /\ phase' \in {"up", "stopping"}
      /\ lastTickAt' \in {lastTickAt, now}
  BY DEF TickEnd, TickFails, row, RowInv, WorkersStartUp
<1>2. ScanCovers' /\ NoFuture'
  BY <1>1 DEF ScanCovers, Scanning, Through, OccurrenceInv, NoFuture, definitions, identity
<1>3. InOrder' /\ OneRowPerOccurrence'
  BY <1>1 DEF OccurrenceInv, InOrder, OneRowPerOccurrence, Recorded, Wanted, definitions, identity
<1>4. OccurrencesAccounted'
  <2>1. CASE TickEnd
    <3>1. todo = {} /\ ~overLimit /\ lastTickAt' = now /\ Through = now
      BY <1>1, <2>1 DEF TickEnd, Through
    <3>2. \A j \in Jobs : InPlan(j)
      BY <1>1, <3>1 DEF OccurrenceInv, ScanCovers, Scanning, Refusing
    <3>3. \A p \in Occurrences : Wanted(p) /\ p[2] <= now => Recorded(p)
      BY <1>0, <3>1, <3>2 DEF InPlan
    <3> QED BY <1>1, <3>1, <3>3 DEF OccurrencesAccounted, Wanted, Recorded, definitions, identity
  <2>2. CASE TickFails
    <3>1. lastTickAt' = lastTickAt /\ (phase' = "up" => phase = "up")
      BY <2>2 DEF TickFails
    <3> QED BY <1>1, <3>1 DEF OccurrenceInv, OccurrencesAccounted, Recorded, definitions, identity
  <2> QED BY <2>1, <2>2
<1> QED BY <1>2, <1>3, <1>4 DEF OccurrenceInv

\* A process that begins knows of no tick; one that ends takes nothing with it
\* but a manual run that was not there yet.
LEMMA OccurrenceProcess ==
  ASSUME TypeInv, RowInv, OccurrenceInv, Boot \/ Exit \/ Crash PROVE OccurrenceInv'
<1>0. /\ now \in 0..Horizon /\ clock \in 0..Horizon /\ Horizon \in Nat
  BY JobsAssumption DEF TypeInv, TypeOK
<1>1. /\ phase' \in {"down", "rows"} /\ ~ticking' /\ now' \in {0, clock} /\ lastTickAt' \in {0, lastTickAt}
      /\ UNCHANGED <<definitions, identity, clock>>
      /\ todo' = {} \/ (todo' = todo /\ now' = clock /\ phase = "down")
      /\ \A r \in RunIds : status'[r] = status[r] \/ (status[r] = "inserting" /\ status'[r] = "absent")
  BY DEF Boot, Exit, Crash, ForgetProcess, row, RowInv, WorkersStartUp, TypeInv, TypeOK
<1>2. RowsStay /\ WantsFuture
  BY <1>1 DEF RowsStay, WantsFuture, Wanted, definitions, identity, OccurrenceInv, NoFuture
<1>3. NoFuture'
  <2>1. \A r \in RunIds : /\ scheduledFor'[r] <= clock'
                          /\ status'[r] = "inserting" => scheduledFor'[r] = 0
    BY <1>1 DEF OccurrenceInv, NoFuture, identity
  <2>2. \A o \in todo' : o[2] <= Through'
    <3> SUFFICES ASSUME NEW o \in todo' PROVE o[2] <= Through'
      OBVIOUS
    <3>1. o \in todo /\ now' = clock /\ phase = "down" /\ phase' \in {"down", "rows"} /\ o[2] \in Nat
      BY <1>1 DEF TypeInv, TypeOK, Occurrences
    <3> QED BY <1>0, <3>1 DEF OccurrenceInv, NoFuture, Through
  <2> QED BY <1>0, <1>1, <2>1, <2>2 DEF OccurrenceInv, NoFuture, definitions
<1> QED BY <1>1, <1>2, <1>3, TablesKept DEF OccurrenceInv, ScanCovers, Scanning, OccurrencesAccounted

\* What a worker does to its row, and what recovery does, takes no row away.
LEMMA OccurrenceRows ==
  ASSUME TypeInv, RowInv, OccurrenceInv,
         \/ \E r \in RunIds : RecoverRow(r)
         \/ \E w \in Workers :
               WorkerStep(w) \/ FinishUnheard(w) \/ MirrorFails(w) \/ WorkerFails(w)
  PROVE  OccurrenceInv'
<1>1. UNCHANGED <<definitions, identity, scan, clock>>
  BY DEF RecoverRow, WorkerStep, FinishUnheard, MirrorFails, WorkerFails, Select, Drained, Claim, Load,
     EnterDatasource, LeaveDatasource, ExecuteAnalysis, ExecuteAgentFlow, Finish, FinishRollsBack, Settle,
     Mirror
<1>2. \A r \in RunIds : \/ status'[r] = status[r]
                        \/ /\ status[r] \notin {"absent", "inserting"}
                           /\ status'[r] \notin {"absent", "inserting"}
  <2>1. ASSUME NEW r \in RunIds, RecoverRow(r)
        PROVE  \A q \in RunIds : \/ status'[q] = status[q]
                                 \/ /\ status[q] \notin {"absent", "inserting"}
                                    /\ status'[q] \notin {"absent", "inserting"}
    BY <2>1 DEF RecoverRow, AfterFailure
  <2>2. ASSUME NEW w \in Workers, Finish(w) \/ FinishUnheard(w) \/ Settle(w)
        PROVE  \A q \in RunIds : \/ status'[q] = status[q]
                                 \/ /\ status[q] \notin {"absent", "inserting"}
                                    /\ status'[q] \notin {"absent", "inserting"}
    <3>1. PICK r \in RunIds : r = run[w] /\ status[r] \notin {"absent", "inserting"}
      BY <2>2 DEF Finish, FinishUnheard, Settle, AtStep, TypeInv, WorkerShape, RowInv, OwnerShape, Owns
    <3>2. \E what \in RunStatus \ {"absent", "inserting"} : status' = [status EXCEPT ![r] = what]
      BY <2>2, <3>1 DEF Finish, FinishUnheard, Settle, AtStep, BookResult, Settlement, AfterFailure,
         TypeInv, WorkerShape, RunStatus, Terminal, Finished
    <3> QED BY <3>1, <3>2 DEF TypeInv, TypeOK
  <2>3. ASSUME NEW w \in Workers, Claim(w)
        PROVE  \A q \in RunIds : \/ status'[q] = status[q]
                                 \/ /\ status[q] \notin {"absent", "inserting"}
                                    /\ status'[q] \notin {"absent", "inserting"}
    BY <2>3 DEF Claim, Claimable, Due, row, TypeInv, TypeOK
  <2>4. ASSUME NEW w \in Workers,
               \/ (\E r \in RunIds : Select(w, r)) \/ Drained(w) \/ Load(w) \/ EnterDatasource(w)
               \/ LeaveDatasource(w) \/ ExecuteAnalysis(w) \/ ExecuteAgentFlow(w) \/ FinishRollsBack(w)
               \/ Mirror(w) \/ MirrorFails(w) \/ WorkerFails(w)
        PROVE  status' = status
    BY <2>4 DEF Select, Drained, Load, EnterDatasource, LeaveDatasource, ExecuteAnalysis, ExecuteAgentFlow,
       FinishRollsBack, Mirror, MirrorFails, WorkerFails, row
  <2> QED BY <2>1, <2>2, <2>3, <2>4 DEF WorkerStep
<1>3. RowsStay /\ WantsFuture
  BY <1>1, <1>2 DEF RowsStay, WantsFuture, Wanted, definitions, identity, OccurrenceInv, NoFuture
<1>4. NoFuture'
  BY <1>1, <1>2 DEF OccurrenceInv, NoFuture, Through, definitions, identity, scan
<1> QED BY <1>1, <1>3, <1>4, TablesKept, ScanKept DEF OccurrenceInv, scan

\* Users add rows of no occurrence, or move the past of a job behind its edit.
LEMMA OccurrenceWorld ==
  ASSUME TypeInv, RowInv, OccurrenceInv, World \/ Stop \/ OrphanedLockReleased \/ UNCHANGED vars
  PROVE  OccurrenceInv'
<1>0. /\ clock \in 0..Horizon /\ Horizon \in Nat /\ now \in 0..Horizon /\ lastTickAt \in -1..Horizon
      /\ \A j \in Jobs : updated[j] \in 0..Horizon
      /\ \A r \in RunIds : scheduledFor[r] \in 0..Horizon
      /\ \A p \in Occurrences : p[1] \in Jobs /\ p[2] \in 1..Horizon
  BY JobsAssumption DEF TypeInv, TypeOK, Occurrences
<1>1. /\ UNCHANGED <<ticking, now, todo, overLimit, lastTickAt>> /\ clock' \in {clock, clock + 1}
      /\ phase' = phase \/ (phase \in {"starting", "up"} /\ phase' = "stopping")
  BY <1>0 DEF World, Stop, OrphanedLockReleased, QueueManual, EditDefinition, PauseOrResume, CommitManual,
     RetryFallsDue, TimePasses, vars, scan
<1>2. WantsFuture /\ \A j \in Jobs : updated'[j] <= clock'
  <2>1. CASE \E j \in Jobs : EditDefinition(j) \/ PauseOrResume(j)
    <3>1. PICK j \in Jobs : EditDefinition(j) \/ PauseOrResume(j)
      BY <2>1
    <3>2. /\ updated'[j] = clock /\ clock' = clock
          /\ \A i \in Jobs \ {j} : updated'[i] = updated[i] /\ enabled'[i] = enabled[i]
      BY <3>1 DEF EditDefinition, PauseOrResume, TypeInv, TypeOK
    <3>3. ASSUME NEW p \in Occurrences, Wanted(p)', p[2] <= clock PROVE Wanted(p)
      <4>1. p[1] # j
        BY <1>0, <3>2, <3>3 DEF Wanted
      <4> QED BY <1>0, <3>2, <3>3, <4>1 DEF Wanted
    <3> QED BY <1>0, <3>2, <3>3 DEF WantsFuture, OccurrenceInv, NoFuture
  <2>2. CASE ~\E j \in Jobs : EditDefinition(j) \/ PauseOrResume(j)
    <3>1. UNCHANGED <<enabled, updated>>
      BY <2>2 DEF World, Stop, OrphanedLockReleased, QueueManual, CommitManual, RetryFallsDue, TimePasses,
         vars, definitions
    <3> QED BY <1>0, <1>1, <3>1 DEF WantsFuture, Wanted, OccurrenceInv, NoFuture
  <2> QED BY <2>1, <2>2
<1>3. RowsStay /\ \A r \in RunIds : scheduledFor'[r] \in {0, scheduledFor[r]}
  <2>1. ASSUME NEW j \in Jobs, QueueManual(j)
        PROVE  RowsStay /\ \A r \in RunIds : scheduledFor'[r] \in {0, scheduledFor[r]}
    <3>1. PICK r \in RunIds : /\ status[r] = "absent" /\ status' = [status EXCEPT ![r] = "inserting"]
                              /\ jobOf' = [jobOf EXCEPT ![r] = j]
                              /\ scheduledFor' = [scheduledFor EXCEPT ![r] = 0]
      BY <2>1 DEF QueueManual, FreshId
    <3> QED BY <3>1 DEF RowsStay, OccurrenceInv, NoFuture, TypeInv, TypeOK
  <2>2. ASSUME NEW r \in RunIds, CommitManual(r)
        PROVE  RowsStay /\ \A q \in RunIds : scheduledFor'[q] \in {0, scheduledFor[q]}
    BY <2>2 DEF CommitManual, identity, RowsStay, OccurrenceInv, NoFuture, TypeInv, TypeOK
  <2>3. CASE \/ \E j \in Jobs : EditDefinition(j) \/ PauseOrResume(j)
             \/ \E r \in RunIds : RetryFallsDue(r)
             \/ TimePasses \/ Stop \/ OrphanedLockReleased \/ UNCHANGED vars
    <3>1. UNCHANGED <<status, jobOf, scheduledFor>>
      BY <2>3 DEF EditDefinition, PauseOrResume, RetryFallsDue, TimePasses, Stop, OrphanedLockReleased, vars,
         identity, row
    <3> QED BY <3>1 DEF RowsStay, OccurrenceInv, NoFuture
  <2> QED BY <2>1, <2>2, <2>3 DEF World
<1>4. NoFuture'
  <2>1. now' <= clock' /\ lastTickAt' <= clock'
    BY <1>0, <1>1 DEF OccurrenceInv, NoFuture
  <2>2. \A o \in todo' : o[2] <= Through'
    BY <1>1 DEF OccurrenceInv, NoFuture, Through
  <2>3. \A r \in RunIds : /\ scheduledFor'[r] <= clock'
                          /\ status'[r] = "inserting" => scheduledFor'[r] = 0
    BY <1>0, <1>1, <1>3 DEF RowsStay, OccurrenceInv, NoFuture
  <2> QED BY <1>2, <2>1, <2>2, <2>3 DEF NoFuture
<1> QED BY <1>1, <1>2, <1>3, <1>4, TablesKept, ScanKept DEF OccurrenceInv

\* Every step keeps the occurrences in order.
LEMMA OccurrenceNext == TypeInv /\ RowInv /\ OccurrenceInv /\ [Next]_vars => OccurrenceInv'
<1> SUFFICES ASSUME TypeInv, RowInv, OccurrenceInv, [Next]_vars PROVE OccurrenceInv'
  OBVIOUS
<1>1. CASE Process
  BY <1>1, OccurrencePlanMissed, OccurrenceFinishRecovery, OccurrenceTickBegin, OccurrenceInserts,
     OccurrenceTickEnds, OccurrenceProcess, OccurrenceRows, OccurrenceWorld DEF Process
<1> QED BY <1>1, OccurrenceRows, OccurrenceWorld DEF Next

\* An empty database accounts for the occurrences of no past.
LEMMA OccurrenceInit == Init => OccurrenceInv
<1> SUFFICES ASSUME Init PROVE OccurrenceInv
  OBVIOUS
<1>1. NoFuture
  BY DEF Init, NoFuture, Through
<1>2. ScanCovers /\ InOrder /\ OccurrencesAccounted /\ OneRowPerOccurrence
  BY DEF Init, ScanCovers, Scanning, InOrder, OccurrencesAccounted, OneRowPerOccurrence
<1> QED BY <1>1, <1>2 DEF OccurrenceInv

\* Every occurrence of a cron expression gets exactly one row: scans that fail
\* half way are repeated, recovery takes up where a dead process left off, and
\* an edit, a pause or a limit that refuses a job leave no hole behind them.
THEOREM OccurrencesGetOneRow == Spec => []EveryOccurrenceOnce
<1>1. OccurrenceInv => EveryOccurrenceOnce
  BY DEF OccurrenceInv, EveryOccurrenceOnce
<1> QED BY <1>1, OccurrenceInit, OccurrenceNext, RowInvariant, PTL DEF Spec


=============================================================================
