------------------------ MODULE PlanPublicationProofs ------------------------
(***************************************************************************)
(* Proofs about PlanPublication.  Each invariant says of an open booking   *)
(* transaction what its commit relies on; below it one lemma per kind of   *)
(* step, and what a kind of step leaves alone is said once, by its frame.  *)
(***************************************************************************)
EXTENDS PlanPublication, FiniteSetTheorems, TLAPS

Statements == {"activate", "supersede", "clear", "replace", "publish"}
PlanOnly == {"activate", "supersede", "clear"}
AuctionOnly == {"judge", "replace", "publish"}
Shown == {"active", "superseded"}

\* Where a run and its transaction are, and which rows it may touch.
PhaseOf(t) ==
    /\ step[t] = "queued" => attempt[t] < MaxAttempts
    /\ started[t] => step[t] \in Statements
    /\ ~Open(t) => Untouched(t) /\ newOutput[t] = NoOutput /\ ~started[t] /\ target[t] = {}
    /\ Open(t) => newOutput[t] # NoOutput
    /\ step[t] \in PlanOnly => t \in PlanRuns
    /\ step[t] \in AuctionOnly => t \in AuctionRuns
    /\ ~started[t] => target[t] = {}

ShapeOf(t) ==
    /\ step[t] = "activate" => target[t] \subseteq {i \in Items : i[1] = t}
    /\ step[t] = "supersede" => target[t] \subseteq {i \in Items : i[1] # t}
    /\ step[t] \in {"clear", "replace"} => target[t] \subseteq Assessments
    /\ step[t] = "publish" => target[t] \subseteq {x \in Assessments : x[1] = t}
    /\ \A x \in Rows : change[t][x] \in {"same"} \cup Shown
    /\ \A i \in Items :
         /\ change[t][i] = "active" => i[1] = t
         /\ change[t][i] = "superseded" => i[1] # t /\ t \in PlanRuns
    /\ \A x \in Assessments :
         /\ change[t][x] = "active" => x[1] = t

RowLocks ==
    \A t, u \in Runs : t # u => \A x \in Rows : change[t][x] # "same" => change[u][x] = "same"

PhaseInv == /\ \A t \in Runs : PhaseOf(t)
            /\ \A t \in Runs : ShapeOf(t)
            /\ RowLocks

BookedInv ==
    /\ \A x \in Rows : table[x] \in Shown => outputOf[x[1]] # NoOutput
    /\ \A t \in Runs : \A x \in Rows :
         change[t][x] \in Shown => x[1] = t \/ outputOf[x[1]] # NoOutput

\* The gate has made run t write in its present attempt.
MustBeOwn(t) ==
    \/ wrote[t] /\ step[t] \in {"started", "working"}
    \/ required[t] /\ (Open(t) \/ ending[t] = "success")
FreshOf(t) ==
    /\ ending[t] = "success" => step[t] \in {"over", "settle"}
    /\ step[t] \notin {"queued", "over"} => attempt[t] > 0
    /\ lastWrite[t].by <= attempt[t]
    /\ MustBeOwn(t) => lastWrite[t].by = attempt[t]
FreshInv == \A t \in Runs : FreshOf(t)

Calm == repeated = {} /\ \A pair \in met : ~(pair \subseteq PlanRuns)

OutputInv ==
    /\ \A t, u \in Runs : t # u /\ Open(t) /\ Open(u) => {t, u} \in met
    /\ \A t \in Runs : outputOf[t] < nextOutput /\ newOutput[t] < nextOutput

Supersedes(t) ==
    /\ outputOf[t] = NoOutput
    /\ \A r \in PlanRuns : outputOf[r] < newOutput[t]
    /\ \A i \in Items : i[1] # t /\ View(t, i) = "active" =>
         /\ step[t] \notin {"clear", "commit"}
         /\ step[t] = "supersede" /\ started[t] => i \in target[t]

LatestInv ==
    Calm => /\ \A t \in PlanRuns : Open(t) => Supersedes(t)
            /\ \A i \in Items : /\ table[i] = "active" => Latest(i[1])
                                /\ Latest(i[1]) => table[i] # "superseded"

Met(x) == \E r \in PlanRuns : {x[1], r} \in met
Follows(x) == table[x[2]] = "active" \/ Met(x)

FollowInv ==
    /\ \A x \in Assessments : table[x] = "active" => Follows(x)
    /\ \A a \in AuctionRuns : \A x \in Assessments :
         /\ change[a][x] = "active" => Follows(x)
         /\ step[a] \in {"replace", "publish"} /\ x[1] = a /\ table[x] = "draft" => Follows(x)
    /\ \A t \in PlanRuns : \A x \in Assessments :
         /\ table[x] = "active" /\ change[t][x] = "same" /\ change[t][x[2]] = "superseded"
         => /\ step[t] = "commit" => Met(x)
            /\ step[t] = "clear" /\ started[t] => x \in target[t] \/ Met(x)

-----------------------------------------------------------------------------
(* Every variable keeps its type.                                          *)

LEMMA RowKinds ==
    /\ \A i \in Items : i \in Rows /\ i \notin Assessments /\ i[1] \in PlanRuns /\ i[1] \in Runs
    /\ \A x \in Assessments :
         /\ x \in Rows /\ x \notin Items
         /\ x[1] \in AuctionRuns /\ x[1] \in Runs
         /\ x[2] \in Items /\ x[2] \in Rows /\ x[2] \in PlanRuns \X Opportunities
         /\ x = <<x[1], x[2]>>
    /\ \A x \in Rows : x[1] \in Runs
BY PublicationAssumption DEF Items, Assessments, Rows, Runs

\* What a step of Next may be, by kind.
Outside(t) ==
    \/ BeginAttempt(t) \/ ReadContext(t) \/ Incomplete(t) \/ Settle(t) \/ Abort(t)
    \/ t \in AuctionRuns /\ (WriteAssessments(t) \/ Discard(t) \/ DiscardFails(t))
Advances(t) ==
    StartStatement(t) \/ NothingLeft(t) \/ (t \in AuctionRuns /\ JudgePasses(t))
RollsBack(t) == BookingRefused(t) \/ DeadlockVictim(t) \/ AttemptFails(t)
Commits(t) == Commit(t) \/ CommitUnheard(t)

Kind(t) ==
    \/ Outside(t) \/ StartBooking(t) \/ Advances(t) \/ RollsBack(t) \/ Commits(t)
    \/ \E x \in Rows : WriteRow(t, x)

LEMMA Kinds ==
    ASSUME Next
    PROVE  \/ \E t \in Runs : Kind(t)
           \/ \E r \in PlanRuns : WritePlan(r)
           \/ Crash
<1>1. ASSUME NEW t \in Runs, RunStep(t)
      PROVE  Kind(t)
  BY <1>1 DEF RunStep, Kind, Outside, Advances, RollsBack, Commits
<1>2. ASSUME NEW t \in Runs, CommitUnheard(t) \/ AttemptFails(t) \/ Abort(t)
      PROVE  Kind(t)
  BY <1>2 DEF Kind, Outside, RollsBack, Commits
<1>3. ASSUME NEW a \in AuctionRuns, WriteAssessments(a) \/ DiscardFails(a)
      PROVE  a \in Runs /\ Kind(a)
  BY <1>3 DEF Kind, Outside, Runs
<1>4. CASE \E t \in Runs : RunStep(t) \/ CommitUnheard(t) \/ AttemptFails(t) \/ Abort(t)
  BY <1>1, <1>2, <1>4
<1>5. CASE \E a \in AuctionRuns : WriteAssessments(a) \/ DiscardFails(a)
  BY <1>3, <1>5
<1> QED
  BY <1>4, <1>5 DEF Next

LEMMA InitTyped == Init => TypeOK
<1> SUFFICES ASSUME Init
             PROVE  TypeOK
  OBVIOUS
<1>1. PICK s \in Scenarios :
        /\ step = [t \in Runs |-> IF t \in s.runs THEN "queued" ELSE "over"]
        /\ faults = s.faults /\ crashes = s.crashes
  BY DEF Init
<1>2. step \in [Runs -> Steps] /\ faults \in [Runs -> Nat] /\ crashes \in Nat
  BY <1>1, PublicationAssumption DEF Runs, Steps
<1>3. closed \subseteq Closable
  BY DEF Init
<1>4. /\ table \in [Rows -> RowStatus] /\ outputOf \in [Runs -> Nat]
      /\ nextOutput \in Nat \ {0} /\ newOutput \in [Runs -> Nat]
      /\ change \in [Runs -> [Rows -> RowStatus \cup {"same"}]]
      /\ started \in [Runs -> BOOLEAN] /\ target \in [Runs -> SUBSET Rows]
  BY DEF Init, RowStatus, NoOutput
<1>5. /\ attempt \in [Runs -> 0..MaxAttempts]
      /\ lastWrite \in [Runs -> [by : 0..MaxAttempts, rows : SUBSET Rows]]
      /\ required \in [Runs -> BOOLEAN] /\ wrote \in [Runs -> BOOLEAN]
      /\ ending \in [Runs -> {"none", "success", "failed", "cancelled"}]
      /\ met \subseteq SUBSET Runs /\ repeated \subseteq Runs
  BY DEF Init, MaxAttempts
<1> QED
  BY <1>2, <1>3, <1>4, <1>5 DEF TypeOK

LEMMA OutsideTyped ==
    ASSUME TypeOK, PhaseInv, NEW t \in Runs, Outside(t)
    PROVE  TypeOK'
<1>1. PhaseOf(t)
  BY DEF PhaseInv
<1>2. \A a \in Runs : WithoutDrafts(a) \in [Rows -> RowStatus]
  BY DEF WithoutDrafts, TypeOK, RowStatus
<1>3. CASE BeginAttempt(t)
  <2>1. table' \in [Rows -> RowStatus]
    BY <1>2, <1>3 DEF BeginAttempt, TypeOK
  <2>2. attempt' \in [Runs -> 0..MaxAttempts]
    <3>1. step[t] = "queued" /\ attempt' = [attempt EXCEPT ![t] = @ + 1]
      BY <1>3 DEF BeginAttempt
    <3>2. attempt[t] < MaxAttempts /\ attempt \in [Runs -> 0..MaxAttempts]
      BY <1>1, <3>1 DEF PhaseOf, TypeOK
    <3> QED
      BY <3>1, <3>2 DEF MaxAttempts
  <2> QED
    BY <1>3, <2>1, <2>2
       DEF BeginAttempt, NewGate, TypeOK, Goto, Steps, transaction, world, history
<1>4. CASE ReadContext(t)
  BY <1>4 DEF ReadContext, TypeOK, Goto, Steps, transaction, world, history
<1>5. CASE Incomplete(t)
  BY <1>5 DEF Incomplete, TypeOK, Goto, Steps, transaction, world, history
<1>6. CASE Settle(t)
  BY <1>6 DEF Settle, TypeOK, Goto, Steps, transaction, world, history
<1>7. CASE Abort(t)
  BY <1>7 DEF Abort, Spend, TypeOK, Goto, Steps, transaction, history
<1>8. CASE t \in AuctionRuns /\ WriteAssessments(t)
  <2>1. table' \in [Rows -> RowStatus]
    BY <1>2, <1>8 DEF WriteAssessments, TypeOK, RowStatus
  <2>2. lastWrite' \in [Runs -> [by : 0..MaxAttempts, rows : SUBSET Rows]]
    <3>1. PICK given \in SUBSET (PlanRuns \X Opportunities) :
            lastWrite' = [lastWrite EXCEPT ![t] = [by |-> attempt[t], rows |-> {t} \X given]]
      BY <1>8 DEF WriteAssessments
    <3>2. t \in AuctionRuns => {t} \X given \subseteq Rows
      BY DEF Rows, Assessments
    <3>3. attempt[t] \in 0..MaxAttempts
      BY DEF TypeOK
    <3> QED
      BY <1>8, <3>1, <3>2, <3>3 DEF TypeOK
  <2> QED
    BY <2>1, <2>2, <1>8 DEF WriteAssessments, TypeOK, transaction, world
<1>9. CASE Discard(t)
  BY <1>2, <1>9 DEF Discard, TypeOK, Goto, Steps, transaction, world, history
<1>10. CASE DiscardFails(t)
  BY <1>10 DEF DiscardFails, Spend, TypeOK, Goto, Steps, transaction, history
<1> QED
  BY <1>3, <1>4, <1>5, <1>6, <1>7, <1>8, <1>9, <1>10 DEF Outside

LEMMA RewindTyped ==
    ASSUME TypeOK, NEW t \in Runs, Rewind(t)
    PROVE  /\ change' \in [Runs -> [Rows -> RowStatus \cup {"same"}]]
           /\ newOutput' \in [Runs -> Nat]
           /\ started' \in [Runs -> BOOLEAN] /\ target' \in [Runs -> SUBSET Rows]
BY DEF Rewind, TypeOK, NoOutput

LEMMA FoundTyped ==
    ASSUME NEW t \in Runs
    PROVE  Found(t) \subseteq Rows
BY DEF Found, Outdated, Rows

LEMMA AfterTyped ==
    ASSUME NEW s \in Statements
    PROVE  After(s) \in Steps
BY DEF After, Statements, Steps, Booking

LEMMA AdvancesTyped ==
    ASSUME TypeOK, PhaseInv, NEW t \in Runs, Advances(t)
    PROVE  TypeOK'
<1>1. CASE StartStatement(t)
  <2>1. started' \in [Runs -> BOOLEAN] /\ target' \in [Runs -> SUBSET Rows]
    <3>1. Found(t) \subseteq Rows
      BY FoundTyped
    <3>2. CASE Found(t) = {}
      BY <1>1, <3>2 DEF StartStatement, TypeOK
    <3>3. CASE Found(t) # {}
      <4>1. /\ started' = [started EXCEPT ![t] = TRUE]
            /\ target' = [target EXCEPT ![t] = Found(t)]
        BY <1>1, <3>3 DEF StartStatement
      <4> QED
        BY <3>1, <4>1 DEF TypeOK
    <3> QED
      BY <3>2, <3>3
  <2>2. step' \in [Runs -> Steps]
    <3>1. step[t] \in Statements /\ (Goto(t, After(step[t])) \/ step' = step)
      BY <1>1 DEF StartStatement, Statements
    <3>2. After(step[t]) \in Steps /\ step \in [Runs -> Steps]
      BY <3>1, AfterTyped DEF TypeOK
    <3> QED
      BY <3>1, <3>2 DEF Goto
  <2> QED
    BY <1>1, <2>1, <2>2 DEF StartStatement, TypeOK, world, history
<1>2. CASE NothingLeft(t)
  <2>1. step' \in [Runs -> Steps]
    BY <1>2, AfterTyped DEF NothingLeft, TypeOK, PhaseInv, PhaseOf, Goto
  <2> QED
    BY <1>2, <2>1 DEF NothingLeft, TypeOK, world, history
<1>3. CASE JudgePasses(t)
  <2>1. step' \in [Runs -> Steps]
    BY <1>3 DEF JudgePasses, TypeOK, Goto, Steps, Booking
  <2> QED
    BY <1>3, <2>1 DEF JudgePasses, TypeOK, transaction, world, history
<1> QED
  BY <1>1, <1>2, <1>3 DEF Advances

LEMMA StartBookingTyped ==
    ASSUME TypeOK, NEW t \in Runs, StartBooking(t)
    PROVE  TypeOK'
<1>1. met' \subseteq SUBSET Runs /\ repeated' \subseteq Runs
  <2>1. met \subseteq SUBSET Runs /\ repeated \subseteq Runs
    BY DEF TypeOK
  <2> QED
    BY <2>1 DEF StartBooking
<1>2. newOutput' \in [Runs -> Nat] /\ nextOutput' \in Nat \ {0}
  <2>1. outputOf[t] \in Nat /\ nextOutput \in Nat \ {0} /\ newOutput \in [Runs -> Nat]
    BY DEF TypeOK
  <2>2. CASE outputOf[t] # NoOutput
    BY <2>1, <2>2 DEF StartBooking
  <2>3. CASE outputOf[t] = NoOutput
    <3>1. newOutput' = [newOutput EXCEPT ![t] = nextOutput] /\ nextOutput' = nextOutput + 1
      BY <2>3 DEF StartBooking
    <3> QED
      BY <2>1, <3>1
  <2> QED
    BY <2>2, <2>3
<1>3. step' \in [Runs -> Steps] /\ wrote' \in [Runs -> BOOLEAN]
  <2>1. step' = [step EXCEPT ![t] = IF t \in PlanRuns THEN "activate" ELSE "judge"]
    BY DEF StartBooking, Goto
  <2> QED
    BY <2>1 DEF StartBooking, TypeOK, Steps, Booking
<1> QED
  BY <1>1, <1>2, <1>3 DEF StartBooking, TypeOK, world

LEMMA WriteRowTyped ==
    ASSUME TypeOK, PhaseInv, NEW t \in Runs, NEW x \in Rows, WriteRow(t, x)
    PROVE  TypeOK'
<1>1. change' \in [Runs -> [Rows -> RowStatus \cup {"same"}]] /\ table' = table
  <2>1. CASE UNCHANGED <<change, table>>
    BY <2>1 DEF TypeOK
  <2>2. CASE WriteInside(t, x, Into(step[t]))
    <3>1. Into(step[t]) \in RowStatus
      BY DEF Into, RowStatus
    <3> QED
      BY <2>2, <3>1 DEF WriteInside, TypeOK
  <2> QED
    BY <2>1, <2>2 DEF WriteRow
<1>2. step' \in [Runs -> Steps]
  <2>1. After(step[t]) \in Steps
    BY AfterTyped DEF WriteRow, PhaseInv, PhaseOf
  <2> QED
    BY <2>1 DEF WriteRow, TypeOK, Goto
<1>3. target' \in [Runs -> SUBSET Rows] /\ started' \in [Runs -> BOOLEAN]
  BY DEF WriteRow, TypeOK
<1> QED
  BY <1>1, <1>2, <1>3 DEF WriteRow, TypeOK, world, history

LEMMA RollsBackTyped ==
    ASSUME TypeOK, NEW t \in Runs, RollsBack(t)
    PROVE  TypeOK'
<1>1. Rewind(t)
  BY DEF RollsBack, BookingRefused, DeadlockVictim, AttemptFails, Rollback
<1>2. step' \in [Runs -> Steps]
  BY DEF RollsBack, BookingRefused, DeadlockVictim, AttemptFails, TypeOK, Goto, Steps
<1>3. faults' \in [Runs -> Nat] /\ crashes' \in Nat /\ closed' \subseteq Closable
  <2>1. UNCHANGED world \/ Spend(t)
    BY DEF RollsBack, BookingRefused, DeadlockVictim, AttemptFails
  <2>2. faults \in [Runs -> Nat] /\ crashes \in Nat /\ closed \subseteq Closable
    BY DEF TypeOK
  <2> QED
    BY <2>1, <2>2 DEF Spend, world
<1> QED
  BY <1>1, <1>2, <1>3, RewindTyped
     DEF RollsBack, BookingRefused, DeadlockVictim, AttemptFails, TypeOK, history

LEMMA CommitsTyped ==
    ASSUME TypeOK, NEW t \in Runs, Commits(t)
    PROVE  TypeOK'
<1>1. Rewind(t)
  BY DEF Commits, Commit, CommitUnheard, Committed
<1>2. table' \in [Rows -> RowStatus] /\ outputOf' \in [Runs -> Nat]
  <2>1. \A x \in Rows : View(t, x) \in RowStatus
    BY DEF View, TypeOK
  <2> QED
    BY <2>1 DEF Commits, Commit, CommitUnheard, Committed, TypeOK
<1>3. /\ step' \in [Runs -> Steps]
      /\ ending' \in [Runs -> {"none", "success", "failed", "cancelled"}]
  BY DEF Commits, Commit, CommitUnheard, TypeOK, Goto, Steps
<1>4. faults' \in [Runs -> Nat] /\ crashes' \in Nat /\ closed' \subseteq Closable
  BY SMTT(30) DEF Commits, Commit, CommitUnheard, Spend, TypeOK, world
<1> QED
  BY <1>1, <1>2, <1>3, <1>4, RewindTyped DEF Commits, Commit, CommitUnheard, TypeOK, history

LEMMA WritePlanTyped ==
    ASSUME TypeOK, NEW r \in PlanRuns, WritePlan(r)
    PROVE  TypeOK'
<1>1. table' \in [Rows -> RowStatus]
  BY DEF WritePlan, TypeOK, RowStatus
<1>2. lastWrite' \in [Runs -> [by : 0..MaxAttempts, rows : SUBSET Rows]]
  <2>1. PICK given \in SUBSET Codes :
          lastWrite' = [lastWrite EXCEPT ![r] = [by |-> attempt[r], rows |-> {r} \X given]]
    BY DEF WritePlan
  <2>2. {r} \X given \subseteq Rows /\ attempt[r] \in 0..MaxAttempts
    BY DEF Rows, Items, TypeOK, Runs
  <2> QED
    BY <2>1, <2>2 DEF TypeOK
<1>3. target' \in [Runs -> SUBSET Rows]
  BY DEF WritePlan, TypeOK
<1>4. wrote' \in [Runs -> BOOLEAN] /\ repeated' \subseteq Runs
  BY DEF WritePlan, TypeOK, Runs
<1> QED
  BY <1>1, <1>2, <1>3, <1>4 DEF WritePlan, TypeOK, world

LEMMA CrashTyped ==
    ASSUME TypeOK, Crash
    PROVE  TypeOK'
<1>1. step' \in [Runs -> Steps]
  BY DEF Crash, TypeOK, Steps
<1>2. ending' \in [Runs -> {"none", "success", "failed", "cancelled"}]
  BY DEF Crash, TypeOK
<1>3. /\ change' \in [Runs -> [Rows -> RowStatus \cup {"same"}]]
      /\ newOutput' \in [Runs -> Nat] /\ started' \in [Runs -> BOOLEAN]
      /\ target' \in [Runs -> SUBSET Rows] /\ crashes' \in Nat
  BY DEF Crash, TypeOK, NoOutput
<1> QED
  BY <1>1, <1>2, <1>3 DEF Crash, TypeOK, history

-----------------------------------------------------------------------------
(* What a kind of step does, and leaves alone.                             *)

Rests(u) ==
    /\ step'[u] = step[u] /\ attempt'[u] = attempt[u] /\ required'[u] = required[u]
    /\ wrote'[u] = wrote[u] /\ ending'[u] = ending[u]
    /\ newOutput'[u] = newOutput[u] /\ change'[u] = change[u]
    /\ started'[u] = started[u] /\ target'[u] = target[u]

LEMMA OthersRest ==
    ASSUME TypeOK, NEW t \in Runs, Kind(t), NEW u \in Runs, u # t
    PROVE  Rests(u)
<1>1. CASE Outside(t)
  BY <1>1 DEF Outside, BeginAttempt, NewGate, ReadContext, Incomplete, Settle, Abort, WriteAssessments,
     Discard, DiscardFails, Goto, transaction, Rests, TypeOK
<1>2. CASE StartBooking(t)
  BY <1>2 DEF StartBooking, Goto, Rests, TypeOK
<1>3. CASE Advances(t)
  BY <1>3 DEF Advances, StartStatement, NothingLeft, JudgePasses, Goto, transaction, Rests, TypeOK
<1>4. CASE RollsBack(t)
  BY <1>4 DEF RollsBack, BookingRefused, DeadlockVictim, AttemptFails, Rollback, Rewind, Goto,
     Rests, TypeOK
<1>5. CASE Commits(t)
  BY <1>5 DEF Commits, Commit, CommitUnheard, Committed, Rewind, Goto, Rests, TypeOK
<1>6. CASE \E x \in Rows : WriteRow(t, x)
  BY <1>6 DEF WriteRow, WriteInside, Goto, Rests, TypeOK
<1> QED
  BY <1>1, <1>2, <1>3, <1>4, <1>5, <1>6 DEF Kind

\* Nothing outside a booking touches what is published, or a transaction.
DraftsOnly(t) ==
    \A x \in Rows : \/ table'[x] = table[x]
                   \/ /\ x \in Assessments /\ x[1] = t
                      /\ table[x] \in {"none", "draft"} /\ table'[x] \in {"none", "draft"}

LEMMA OutsideEffect ==
    ASSUME TypeOK, PhaseInv, NEW t \in Runs, Outside(t)
    PROVE  /\ step[t] \notin Booking /\ step'[t] \notin Booking
           /\ step'[t] = "queued" => attempt'[t] < MaxAttempts
           /\ UNCHANGED <<newOutput, change, started, target>>
           /\ UNCHANGED <<outputOf, nextOutput, met, repeated>>
           /\ DraftsOnly(t)
<1>1. \A a \in Runs : \A x \in Rows :
        \/ WithoutDrafts(a)[x] = table[x]
        \/ x \in Assessments /\ x[1] = a /\ table[x] = "draft" /\ WithoutDrafts(a)[x] = "none"
  BY DEF WithoutDrafts
<1>2. CASE BeginAttempt(t)
  <2>1. DraftsOnly(t)
    BY <1>1, <1>2 DEF BeginAttempt, DraftsOnly
  <2> QED
    BY <1>2, <2>1 DEF BeginAttempt, TypeOK, Goto, Booking, transaction, history
<1>3. CASE ReadContext(t)
  BY <1>3 DEF ReadContext, TypeOK, Goto, Booking, transaction, history, DraftsOnly
<1>4. CASE Incomplete(t)
  BY <1>4 DEF Incomplete, TypeOK, Goto, Booking, transaction, history, DraftsOnly
<1>5. CASE Settle(t)
  BY <1>5 DEF Settle, RetryLeft, TypeOK, Goto, Booking, transaction, history, DraftsOnly
<1>6. CASE Abort(t)
  BY <1>6 DEF Abort, TypeOK, Goto, Booking, transaction, history, DraftsOnly
<1>7. CASE WriteAssessments(t)
  <2>1. PICK given \in SUBSET (PlanRuns \X Opportunities) :
          /\ \A i \in given : table[<<t, i>>] \in {"none", "draft"}
          /\ table' = [x \in Rows |->
                         IF x \in Assessments /\ x[1] = t
                           THEN IF x[2] \in given THEN "draft" ELSE WithoutDrafts(t)[x]
                           ELSE table[x]]
    BY <1>7 DEF WriteAssessments
  <2>2. DraftsOnly(t)
    <3>1. SUFFICES ASSUME NEW x \in Assessments, x[1] = t
                   PROVE  \/ table'[x] = table[x]
                          \/ /\ table[x] \in {"none", "draft"}
                             /\ table'[x] \in {"none", "draft"}
      BY <2>1 DEF DraftsOnly
    <3>2. x \in Rows /\ x = <<t, x[2]>>
      BY <3>1, RowKinds
    <3>3. CASE x[2] \in given
      BY <2>1, <3>1, <3>2, <3>3
    <3>4. CASE x[2] \notin given
      BY <1>1, <2>1, <3>1, <3>2, <3>4
    <3> QED
      BY <3>3, <3>4
  <2> QED
    BY <1>7, <2>2 DEF WriteAssessments, TypeOK, Booking, transaction
<1>8. CASE Discard(t)
  <2>1. DraftsOnly(t)
    BY <1>1, <1>8 DEF Discard, DraftsOnly
  <2> QED
    BY <1>8, <2>1 DEF Discard, TypeOK, Goto, Booking, transaction, history
<1>9. CASE DiscardFails(t)
  BY <1>9 DEF DiscardFails, TypeOK, Goto, Booking, transaction, history, DraftsOnly
<1> QED
  BY <1>2, <1>3, <1>4, <1>5, <1>6, <1>7, <1>8, <1>9 DEF Outside

\* A run's last write is changed by its own writes alone.
LEMMA OthersWrites ==
    ASSUME TypeOK, NEW t \in Runs, Kind(t)
    PROVE  /\ \A u \in Runs : u # t => lastWrite'[u] = lastWrite[u]
           /\ (t \in AuctionRuns /\ WriteAssessments(t)) \/ lastWrite' = lastWrite
<1>1. CASE t \in AuctionRuns /\ WriteAssessments(t)
  BY <1>1 DEF WriteAssessments, TypeOK
<1>2. CASE Outside(t) /\ ~(t \in AuctionRuns /\ WriteAssessments(t))
  BY <1>2 DEF Outside, BeginAttempt, ReadContext, Incomplete, Settle, Abort, Discard,
     DiscardFails, history
<1>3. CASE StartBooking(t) \/ Advances(t) \/ RollsBack(t) \/ Commits(t)
  BY <1>3 DEF StartBooking, Advances, StartStatement, NothingLeft, JudgePasses, RollsBack,
     BookingRefused, DeadlockVictim, AttemptFails, Commits, Commit, CommitUnheard, history
<1>4. CASE \E x \in Rows : WriteRow(t, x)
  BY <1>4 DEF WriteRow, history
<1> QED
  BY <1>1, <1>2, <1>3, <1>4 DEF Kind

\* A transaction that ends, well or not, holds nothing any more.
Released(t) ==
    /\ change'[t] = [x \in Rows |-> "same"] /\ newOutput'[t] = NoOutput
    /\ started'[t] = FALSE /\ target'[t] = {}

LEMMA RollsBackEffect ==
    ASSUME TypeOK, PhaseInv, NEW t \in Runs, RollsBack(t)
    PROVE  /\ Released(t) /\ step'[t] = "settle"
           /\ \A x \in Rows : change'[t][x] = "same"
           /\ UNCHANGED <<table, outputOf, nextOutput, lastWrite, met, repeated>>
           /\ UNCHANGED <<attempt, required, wrote, ending>>
           /\ step[t] \in {"started", "working"} \cup Booking
<1>1. step[t] \in {"started", "working"} \cup Booking
  BY DEF RollsBack, BookingRefused, DeadlockVictim, AttemptFails, Waits, PhaseInv, PhaseOf,
     Booking, Statements
<1> QED
  BY <1>1 DEF RollsBack, BookingRefused, DeadlockVictim, AttemptFails, Rollback, Rewind, Goto,
     Released, TypeOK, history

LEMMA CommitsEffect ==
    ASSUME TypeOK, NEW t \in Runs, Commits(t)
    PROVE  /\ Released(t) /\ step[t] = "commit" /\ step'[t] \in {"over", "settle"}
           /\ \A x \in Rows : change'[t][x] = "same"
           /\ ending'[t] = "success" /\ outputOf'[t] = newOutput[t]
           /\ \A u \in Runs : u # t => outputOf'[u] = outputOf[u]
           /\ \A x \in Rows : table'[x] = View(t, x)
           /\ UNCHANGED <<nextOutput, attempt, required, wrote, lastWrite, met, repeated>>
BY DEF Commits, Commit, CommitUnheard, Committed, Rewind, Goto, Released, TypeOK, history

LEMMA AdvancesEffect ==
    ASSUME TypeOK, PhaseInv, NEW t \in Runs, Advances(t)
    PROVE  /\ UNCHANGED <<table, outputOf, nextOutput, lastWrite, met, repeated>>
           /\ UNCHANGED <<attempt, required, wrote, ending, change, newOutput>>
           /\ \/ /\ step[t] \in Statements /\ ~started[t] /\ Found(t) = {}
                 /\ step'[t] = After(step[t]) /\ UNCHANGED <<started, target>>
              \/ /\ step[t] \in Statements /\ ~started[t] /\ step'[t] = step[t]
                 /\ started'[t] = TRUE /\ target'[t] = Found(t)
              \/ /\ step[t] \in Statements /\ started[t] /\ target[t] = {}
                 /\ step'[t] = After(step[t]) /\ ~started'[t] /\ target'[t] = {}
              \/ /\ t \in AuctionRuns /\ step[t] = "judge" /\ UNCHANGED <<started, target>>
                 /\ IF t \in closed THEN Drafts(t) = {} ELSE Drafts(t) = Expected(t)
                 /\ step'[t] = IF Drafts(t) = {} THEN "commit" ELSE "replace"
<1>1. CASE StartStatement(t)
  BY <1>1 DEF StartStatement, Statements, Goto, TypeOK, world, history
<1>2. CASE NothingLeft(t)
  BY <1>2 DEF NothingLeft, PhaseInv, PhaseOf, Goto, TypeOK, world, history
<1>3. CASE t \in AuctionRuns /\ JudgePasses(t)
  BY <1>3 DEF JudgePasses, Covers, Complete, Goto, TypeOK, transaction, world, history
<1> QED
  BY <1>1, <1>2, <1>3 DEF Advances

LEMMA WriteRowEffect ==
    ASSUME TypeOK, PhaseInv, NEW t \in Runs, NEW x \in Rows, WriteRow(t, x)
    PROVE  /\ UNCHANGED <<table, outputOf, nextOutput, lastWrite, met, repeated>>
           /\ UNCHANGED <<attempt, required, wrote, ending, newOutput>>
           /\ step[t] \in Statements /\ started[t] /\ x \in target[t]
           /\ \A u \in Runs : u # t => change[u][x] = "same"
           /\ \A y \in Rows : y # x => change'[t][y] = change[t][y]
           /\ IF View(t, x) = From(step[t]) THEN change'[t][x] = Into(step[t])
              ELSE change'[t][x] = change[t][x]
           /\ target'[t] = target[t] \ {x}
           /\ IF target[t] = {x} THEN ~started'[t] /\ step'[t] = After(step[t])
              ELSE started'[t] /\ step'[t] = step[t]
<1>1. /\ UNCHANGED <<table, outputOf, nextOutput, lastWrite, met, repeated>>
      /\ UNCHANGED <<attempt, required, wrote, ending, newOutput>>
      /\ started[t] /\ x \in target[t]
      /\ \A u \in Runs : u # t => change[u][x] = "same"
      /\ target'[t] = target[t] \ {x}
  BY DEF WriteRow, WriteInside, WrittenByOther, TypeOK, history
<1>2. step[t] \in Statements
  BY <1>1 DEF PhaseInv, PhaseOf
<1>3. IF target[t] = {x} THEN ~started'[t] /\ step'[t] = After(step[t])
      ELSE started'[t] /\ step'[t] = step[t]
  BY DEF WriteRow, Goto, TypeOK
<1>4. /\ \A y \in Rows : y # x => change'[t][y] = change[t][y]
      /\ IF View(t, x) = From(step[t]) THEN change'[t][x] = Into(step[t])
         ELSE change'[t][x] = change[t][x]
  BY DEF WriteRow, WriteInside, TypeOK
<1> QED
  BY <1>1, <1>2, <1>3, <1>4

LEMMA StartBookingEffect ==
    ASSUME TypeOK, NEW t \in Runs, StartBooking(t)
    PROVE  /\ step[t] = "working" /\ (required[t] => wrote[t])
           /\ step'[t] = IF t \in PlanRuns THEN "activate" ELSE "judge"
           /\ IF outputOf[t] # NoOutput
                THEN newOutput'[t] = outputOf[t] /\ UNCHANGED nextOutput /\ t \in repeated'
                ELSE newOutput'[t] = nextOutput /\ nextOutput' = nextOutput + 1
           /\ met \subseteq met' /\ repeated \subseteq repeated'
           /\ \A u \in Runs : u # t /\ Open(u) => {t, u} \in met'
           /\ UNCHANGED <<table, outputOf, attempt, required, ending, change, started, target, lastWrite>>
<1>1. met' = met \cup {{t, u} : u \in {v \in Runs \ {t} : Open(v)}}
  BY DEF StartBooking
<1>2. met \subseteq met' /\ \A u \in Runs : u # t /\ Open(u) => {t, u} \in met'
  BY <1>1
<1>3. IF outputOf[t] # NoOutput
        THEN newOutput'[t] = outputOf[t] /\ UNCHANGED nextOutput /\ t \in repeated'
        ELSE newOutput'[t] = nextOutput /\ nextOutput' = nextOutput + 1
  BY DEF StartBooking, TypeOK
<1> QED
  BY <1>2, <1>3 DEF StartBooking, GateOpen, Goto, TypeOK, world

LEMMA WritePlanEffect ==
    ASSUME TypeOK, NEW r \in PlanRuns, WritePlan(r)
    PROVE  /\ r \in Runs /\ step[r] \in {"started", "working"}
           /\ \A u \in Runs : u # r => \A x \in OfPlan(r) : change[u][x] = "same"
           /\ \A x \in Rows : IF x \in OfPlan(r) THEN table'[x] \in {"none", "draft"}
                                                ELSE table'[x] = table[x]
           /\ \A x \in Assessments : x \in OfPlan(r) => table'[x] = "none"
           /\ lastWrite'[r].by = attempt[r]
           /\ \A x \in lastWrite'[r].rows : x[1] = r
           /\ \A i \in Items : i[1] = r => (i \in lastWrite'[r].rows <=> table'[i] # "none")
           /\ \A u \in Runs : u # r => lastWrite'[u] = lastWrite[u]
           /\ \A u \in Runs : target'[u] = target[u] \ OfPlan(r)
           /\ \A u \in Runs : u # r => wrote'[u] = wrote[u]
           /\ repeated \subseteq repeated' /\ (outputOf[r] # NoOutput => r \in repeated')
           /\ UNCHANGED <<outputOf, nextOutput, step, attempt, required, ending,
                          newOutput, change, started, met>>
<1>1. PICK given \in SUBSET Codes :
        /\ table' = [x \in Rows |->
                       IF x \notin OfPlan(r) THEN table[x]
                       ELSE IF x \in Items /\ x[2] \in given THEN "draft" ELSE "none"]
        /\ lastWrite' = [lastWrite EXCEPT ![r] = [by |-> attempt[r], rows |-> {r} \X given]]
  BY DEF WritePlan
<1>2. /\ \A x \in Rows : IF x \in OfPlan(r) THEN table'[x] \in {"none", "draft"}
                                          ELSE table'[x] = table[x]
      /\ \A x \in Assessments : x \in OfPlan(r) => table'[x] = "none"
  BY <1>1, RowKinds
<1>3. /\ lastWrite'[r].by = attempt[r] /\ lastWrite'[r].rows = {r} \X given
      /\ \A u \in Runs : u # r => lastWrite'[u] = lastWrite[u]
  BY <1>1 DEF TypeOK, Runs
<1>6. /\ \A x \in {r} \X given : x[1] = r
      /\ \A i \in Items : i[1] = r => (i \in {r} \X given <=> table'[i] # "none")
  <2>1. \A i \in Items : i = <<i[1], i[2]>> /\ i \in Rows
    BY RowKinds DEF Items
  <2>2. \A i \in Items : i[1] = r => (i \in {r} \X given <=> i[2] \in given)
    BY <2>1
  <2> QED
    BY <1>1, <2>1, <2>2 DEF OfPlan
<1>4. \A u \in Runs : u # r => \A x \in OfPlan(r) : change[u][x] = "same"
  BY DEF WritePlan, WrittenByOther
<1>5. repeated \subseteq repeated' /\ (outputOf[r] # NoOutput => r \in repeated')
  BY DEF WritePlan
<1> QED
  BY <1>2, <1>3, <1>4, <1>5, <1>6 DEF WritePlan, Runs, TypeOK, world

LEMMA CrashEffect ==
    ASSUME TypeOK, Crash
    PROVE  /\ \A t \in Runs :
                /\ Released(t) /\ step'[t] \notin Booking
                /\ \A x \in Rows : change'[t][x] = "same"
                /\ step'[t] = "queued" =>
                     step[t] = "queued" \/ (ending[t] = "none" /\ attempt[t] < MaxAttempts)
                /\ ending'[t] = ending[t] \/ ending'[t] = "failed"
                /\ step'[t] \in {"queued", "over"}
                /\ ending'[t] = "success" /\ step[t] \in {"over", "settle"} => step'[t] = "over"
           /\ UNCHANGED <<table, outputOf, nextOutput, attempt, required, wrote,
                          lastWrite, met, repeated>>
<1> DEFINE lost == {t \in Runs : step[t] \notin {"queued", "over"}}
           dead(t) == ending[t] = "none" /\ ~RetryLeft(t)
<1>1. /\ step' = [t \in Runs |->
              IF t \notin lost THEN step[t]
              ELSE IF ending[t] # "none" \/ dead(t) THEN "over" ELSE "queued"]
      /\ ending' = [t \in Runs |-> IF t \in lost /\ dead(t) THEN "failed" ELSE ending[t]]
  BY DEF Crash
<1>2. \A t \in Runs : Released(t)
  BY DEF Crash, Released
<1>3. \A t \in Runs :
        /\ step'[t] \in {"queued", "over"}
        /\ step'[t] = "queued" =>
             step[t] = "queued" \/ (ending[t] = "none" /\ attempt[t] < MaxAttempts)
        /\ ending'[t] = ending[t] \/ ending'[t] = "failed"
        /\ ending'[t] = "success" /\ step[t] \in {"over", "settle"} => step'[t] = "over"
  BY <1>1 DEF RetryLeft
<1> QED
  BY <1>2, <1>3 DEF Crash, Booking, history

-----------------------------------------------------------------------------
(* Where the transactions are.                                             *)

LEMMA InitPhase == Init => PhaseInv
<1> SUFFICES ASSUME Init
             PROVE  PhaseInv
  OBVIOUS
<1>1. \A t \in Runs : step[t] \in {"queued", "over"}
  BY DEF Init
<1>2. \A t \in Runs : PhaseOf(t)
  BY <1>1 DEF Init, PhaseOf, Open, Untouched, Booking, Statements, PlanOnly, AuctionOnly, NoOutput,
     MaxAttempts
<1>3. \A t \in Runs : \A x \in Rows : change[t][x] = "same"
  BY DEF Init
<1>4. \A t \in Runs : ShapeOf(t)
  BY <1>1, <1>3, RowKinds DEF ShapeOf
<1> QED
  BY <1>2, <1>3, <1>4 DEF PhaseInv, RowLocks

LEMMA RestKeepsPhase ==
    ASSUME PhaseInv, NEW u \in Runs, Rests(u)
    PROVE  PhaseOf(u)' /\ ShapeOf(u)'
BY DEF PhaseInv, PhaseOf, ShapeOf, Rests, Open, Untouched

\* A transaction that has written nothing has the right shape and no locks.
LEMMA ReleasedPhase ==
    ASSUME NEW t \in Runs, Released(t), step'[t] \notin Booking,
           step'[t] = "queued" => attempt'[t] < MaxAttempts
    PROVE  PhaseOf(t)' /\ ShapeOf(t)' /\ \A x \in Rows : change'[t][x] = "same"
<1>1. \A x \in Rows : change'[t][x] = "same"
  BY DEF Released
<1>2. ShapeOf(t)'
  BY <1>1, RowKinds DEF ShapeOf, Released, Booking
<1>3. PhaseOf(t)'
  BY DEF PhaseOf, Released, Open, Untouched, Booking, Statements, PlanOnly, AuctionOnly
<1> QED
  BY <1>1, <1>2, <1>3

LEMMA FoundShape ==
    ASSUME NEW t \in Runs
    PROVE  /\ step[t] = "activate" => Found(t) \subseteq {i \in Items : i[1] = t}
           /\ step[t] = "supersede" => Found(t) \subseteq {i \in Items : i[1] # t}
           /\ step[t] \in {"clear", "replace"} => Found(t) \subseteq Assessments
           /\ step[t] = "publish" => Found(t) \subseteq {x \in Assessments : x[1] = t}
BY DEF Found, Outdated

LEMMA AfterIs ==
    /\ After("activate") = "supersede" /\ After("supersede") = "clear"
    /\ After("clear") = "commit" /\ After("replace") = "publish" /\ After("publish") = "commit"
BY DEF After

LEMMA AdvancesPhase ==
    ASSUME TypeOK, PhaseInv, NEW t \in Runs, Advances(t)
    PROVE  PhaseOf(t)' /\ ShapeOf(t)' /\ change' = change
<1>1. PhaseOf(t) /\ ShapeOf(t)
  BY DEF PhaseInv
<1>2. change' = change /\ newOutput' = newOutput /\ attempt' = attempt
  BY AdvancesEffect
<1> DEFINE skips == /\ step[t] \in Statements /\ step'[t] = After(step[t])
                    /\ ~started'[t] /\ target'[t] = {}
           starts == /\ step[t] \in Statements /\ step'[t] = step[t]
                     /\ started'[t] = TRUE /\ target'[t] = Found(t)
           judges == /\ t \in AuctionRuns /\ step[t] = "judge" /\ UNCHANGED <<started, target>>
                     /\ step'[t] \in {"commit", "replace"}
<1>3. skips \/ starts \/ judges
  BY <1>1, AdvancesEffect DEF PhaseOf
<1>4. CASE skips
  <2>1. step'[t] \in Booking \ {"activate"}
    BY <1>4, AfterIs DEF Statements, Booking
  <2>2. PhaseOf(t)'
    BY <1>1, <1>2, <1>4, <2>1, AfterIs DEF PhaseOf, Open, Statements, Booking, PlanOnly, AuctionOnly
  <2>3. ShapeOf(t)'
    BY <1>1, <1>2, <1>4 DEF ShapeOf
  <2> QED
    BY <1>2, <2>2, <2>3
<1>5. CASE starts
  <2>1. PhaseOf(t)'
    BY <1>1, <1>2, <1>5 DEF PhaseOf, Open, Statements, Booking, PlanOnly, AuctionOnly
  <2>2. ShapeOf(t)'
    BY <1>1, <1>2, <1>5, FoundShape DEF ShapeOf
  <2> QED
    BY <1>2, <2>1, <2>2
<1>6. CASE judges
  <2>1. ~started[t] /\ target[t] = {}
    BY <1>1, <1>6 DEF PhaseOf, Statements
  <2>2. PhaseOf(t)'
    BY <1>1, <1>2, <1>6, <2>1 DEF PhaseOf, Open, Booking, PlanOnly, AuctionOnly
  <2>3. ShapeOf(t)'
    BY <1>1, <1>2, <1>6, <2>1 DEF ShapeOf
  <2> QED
    BY <1>2, <2>2, <2>3
<1> QED
  BY <1>3, <1>4, <1>5, <1>6

LEMMA WriteRowPhase ==
    ASSUME TypeOK, PhaseInv, NEW t \in Runs, NEW x \in Rows, WriteRow(t, x)
    PROVE  PhaseOf(t)' /\ ShapeOf(t)'
<1>1. PhaseOf(t) /\ ShapeOf(t)
  BY DEF PhaseInv
<1>2. /\ step[t] \in Statements /\ started[t] /\ x \in target[t] /\ target'[t] = target[t] \ {x}
      /\ newOutput' = newOutput /\ attempt' = attempt
      /\ \A y \in Rows : y # x => change'[t][y] = change[t][y]
      /\ change'[t][x] \in {change[t][x], Into(step[t])}
  BY WriteRowEffect
<1>3. \/ ~started'[t] /\ target'[t] = {} /\ step'[t] = After(step[t])
      \/ started'[t] /\ step'[t] = step[t]
  BY WriteRowEffect
<1>4. PhaseOf(t)'
  <2>1. step'[t] \in Booking
    BY <1>2, <1>3, AfterIs DEF Statements, Booking
  <2>2. CASE step'[t] = step[t]
    BY <1>1, <1>2, <1>3, <2>1, <2>2 DEF PhaseOf, Open, Statements, Booking
  <2>3. CASE ~started'[t] /\ target'[t] = {} /\ step'[t] = After(step[t])
    BY <1>1, <1>2, <2>1, <2>3, AfterIs
       DEF PhaseOf, Open, Statements, Booking, PlanOnly, AuctionOnly
  <2> QED
    BY <1>3, <2>2, <2>3
<1>5. ShapeOf(t)'
  <2>1. /\ Into(step[t]) \in Shown
        /\ x \in Items => /\ Into(step[t]) = "active" => x[1] = t
                          /\ Into(step[t]) = "superseded" => x[1] # t /\ t \in PlanRuns
        /\ x \in Assessments => (Into(step[t]) = "active" => x[1] = t)
    BY <1>1, <1>2, RowKinds DEF ShapeOf, PhaseOf, Into, Shown, Statements, PlanOnly
  <2>2. \A y \in Rows : change'[t][y] = change[t][y] \/ (y = x /\ change'[t][y] = Into(step[t]))
    BY <1>2
  <2>3. /\ \A y \in Rows : change'[t][y] \in {"same"} \cup Shown
        /\ \A i \in Items :
             /\ change'[t][i] = "active" => i[1] = t
             /\ change'[t][i] = "superseded" => i[1] # t /\ t \in PlanRuns
        /\ \A y \in Assessments : change'[t][y] = "active" => y[1] = t
    BY <1>1, <2>1, <2>2, RowKinds DEF ShapeOf
  <2>4. CASE step'[t] = step[t]
    BY <1>1, <1>2, <2>3, <2>4 DEF ShapeOf
  <2>5. CASE target'[t] = {}
    BY <2>3, <2>5 DEF ShapeOf
  <2> QED
    BY <1>3, <2>4, <2>5
<1> QED
  BY <1>4, <1>5

LEMMA OneRunPhase ==
    ASSUME TypeOK, PhaseInv, NEW t \in Runs, Kind(t)
    PROVE  PhaseInv'
<1>1. \A u \in Runs : u # t => Rests(u)
  BY OthersRest
<1>2. \A u \in Runs : u # t => PhaseOf(u)' /\ ShapeOf(u)'
  BY <1>1, RestKeepsPhase
<1>3. ASSUME PhaseOf(t)', ShapeOf(t)',
             \A x \in Rows : change'[t][x] # "same" =>
                change[t][x] # "same" \/ \A u \in Runs : u # t => change[u][x] = "same"
      PROVE  PhaseInv'
  <2>1. \A u \in Runs : u # t => change'[u] = change[u]
    BY <1>1 DEF Rests
  <2>2. RowLocks'
    <3>1. SUFFICES ASSUME NEW u \in Runs, NEW v \in Runs, u # v, NEW x \in Rows,
                          change'[u][x] # "same"
                   PROVE  change'[v][x] = "same"
      BY DEF RowLocks
    <3>2. \A p, q \in Runs : p # q /\ change[p][x] # "same" => change[q][x] = "same"
      BY DEF PhaseInv, RowLocks
    <3>3. CASE u = t
      BY <1>3, <2>1, <3>1, <3>2, <3>3
    <3>4. CASE v = t
      <4>1. change[u][x] # "same" /\ change[t][x] = "same"
        BY <2>1, <3>1, <3>2, <3>4
      <4> QED
        BY <1>3, <3>1, <3>4, <4>1
    <3>5. CASE u # t /\ v # t
      BY <2>1, <3>1, <3>2, <3>5
    <3> QED
      BY <3>3, <3>4, <3>5
  <2> QED
    BY <1>2, <1>3, <2>2 DEF PhaseInv
<1>4. PhaseOf(t) /\ ShapeOf(t)
  BY DEF PhaseInv
<1>5. CASE Outside(t)
  <2>1. /\ step[t] \notin Booking /\ step'[t] \notin Booking
        /\ step'[t] = "queued" => attempt'[t] < MaxAttempts
        /\ UNCHANGED <<newOutput, change, started, target>>
    BY <1>5, OutsideEffect
  <2>2. PhaseOf(t)' /\ ShapeOf(t)'
    BY <1>4, <2>1 DEF PhaseOf, ShapeOf, Open, Untouched, Booking, Statements, PlanOnly, AuctionOnly
  <2> QED
    BY <1>3, <2>1, <2>2
<1>6. CASE StartBooking(t)
  <2>1. /\ step[t] = "working" /\ UNCHANGED <<change, started, target>>
        /\ step'[t] = IF t \in PlanRuns THEN "activate" ELSE "judge"
    BY <1>6, StartBookingEffect
  <2>2. newOutput'[t] # NoOutput
    BY <1>6, StartBookingEffect DEF TypeOK, NoOutput
  <2>3. target[t] = {} /\ ~started[t]
    BY <1>4, <2>1 DEF PhaseOf, Open, Booking
  <2>4. PhaseOf(t)' /\ ShapeOf(t)'
    BY <1>4, <2>1, <2>2, <2>3
       DEF PhaseOf, ShapeOf, Open, Untouched, Booking, Statements, PlanOnly, AuctionOnly, Runs
  <2> QED
    BY <1>3, <2>1, <2>4
<1>7. CASE Advances(t)
  BY <1>3, <1>7, AdvancesPhase
<1>8. CASE RollsBack(t)
  BY <1>3, <1>8, RollsBackEffect, ReleasedPhase DEF Booking
<1>9. CASE Commits(t)
  BY <1>3, <1>9, CommitsEffect, ReleasedPhase DEF Booking
<1>10. ASSUME NEW x \in Rows, WriteRow(t, x)
       PROVE  PhaseInv'
  <2>1. PhaseOf(t)' /\ ShapeOf(t)'
    BY <1>10, WriteRowPhase
  <2>2. /\ \A y \in Rows : y # x => change'[t][y] = change[t][y]
        /\ \A u \in Runs : u # t => change[u][x] = "same"
    BY <1>10, WriteRowEffect
  <2> QED
    BY <1>3, <2>1, <2>2
<1> QED
  BY <1>5, <1>6, <1>7, <1>8, <1>9, <1>10 DEF Kind

LEMMA WritePlanPhase ==
    ASSUME TypeOK, PhaseInv, NEW r \in PlanRuns, WritePlan(r)
    PROVE  PhaseInv'
<1>1. /\ UNCHANGED <<step, attempt, newOutput, change, started>>
      /\ \A u \in Runs : target'[u] = target[u] \ OfPlan(r)
  BY WritePlanEffect
<1>2. \A u \in Runs : PhaseOf(u)'
  BY <1>1 DEF PhaseInv, PhaseOf, Open, Untouched
<1>3. \A u \in Runs : ShapeOf(u)'
  BY <1>1 DEF PhaseInv, ShapeOf
<1> QED
  BY <1>1, <1>2, <1>3 DEF PhaseInv, RowLocks

LEMMA CrashPhase ==
    ASSUME TypeOK, PhaseInv, Crash
    PROVE  PhaseInv'
<1>1. \A t \in Runs : /\ Released(t) /\ step'[t] \notin Booking
                      /\ step'[t] = "queued" => attempt'[t] < MaxAttempts
  BY CrashEffect DEF PhaseInv, PhaseOf
<1> QED
  BY <1>1, ReleasedPhase DEF PhaseInv, RowLocks

\* Every step keeps the types and the shape of the transactions.
LEMMA StepPhase ==
    ASSUME TypeOK, PhaseInv, [Next]_vars
    PROVE  TypeOK' /\ PhaseInv'
<1>1. CASE UNCHANGED vars
  <2>1. TypeOK'
    BY <1>1 DEF vars, run, transaction, world, history, TypeOK
  <2>2. \A u \in Runs : Rests(u)
    BY <1>1 DEF vars, run, transaction, Rests
  <2>3. change' = change
    BY <1>1 DEF vars, transaction
  <2> QED
    BY <2>1, <2>2, <2>3, RestKeepsPhase DEF PhaseInv, RowLocks
<1>2. ASSUME NEW t \in Runs, Kind(t)
      PROVE  TypeOK' /\ PhaseInv'
  BY <1>2, OneRunPhase, OutsideTyped, StartBookingTyped, AdvancesTyped, RollsBackTyped,
     CommitsTyped, WriteRowTyped DEF Kind
<1>3. ASSUME NEW r \in PlanRuns, WritePlan(r)
      PROVE  TypeOK' /\ PhaseInv'
  BY <1>3, WritePlanTyped, WritePlanPhase
<1>4. CASE Crash
  BY <1>4, CrashTyped, CrashPhase
<1> QED
  BY <1>1, <1>2, <1>3, <1>4, Kinds

-----------------------------------------------------------------------------
(* Only what is booked is shown.                                           *)

\* A row a statement writes: its status was From, the status it asks for.
LEMMA ViewCases ==
    ASSUME NEW t \in Runs, NEW x \in Rows
    PROVE  /\ change[t][x] = "same" => View(t, x) = table[x]
           /\ change[t][x] # "same" => View(t, x) = change[t][x]
BY DEF View

LEMMA InitBooked == Init => BookedInv
BY RowKinds DEF Init, BookedInv, Shown

LEMMA WriteRowBooked ==
    ASSUME TypeOK, PhaseInv, BookedInv, NEW t \in Runs, NEW x \in Rows, WriteRow(t, x)
    PROVE  BookedInv'
<1>1. /\ UNCHANGED <<table, outputOf>> /\ x \in target[t] /\ step[t] \in Statements
      /\ \A y \in Rows : y # x => change'[t][y] = change[t][y]
      /\ change'[t][x] = change[t][x] \/ View(t, x) = From(step[t])
  BY WriteRowEffect
<1>2. \A u \in Runs : u # t => change'[u] = change[u]
  BY OthersRest DEF Kind, Rests
<1>3. change'[t][x] \in Shown => x[1] = t \/ outputOf[x[1]] # NoOutput
  <2>1. CASE change'[t][x] = change[t][x]
    BY <2>1 DEF BookedInv
  <2>2. CASE View(t, x) = "active"
    BY <2>2, ViewCases DEF BookedInv, Shown
  <2>3. CASE step[t] \in {"activate", "publish"}
    BY <1>1, <2>3 DEF PhaseInv, ShapeOf
  <2> QED
    BY <1>1, <2>1, <2>2, <2>3 DEF From
<1> QED
  BY <1>1, <1>2, <1>3 DEF BookedInv

LEMMA CommitsBooked ==
    ASSUME TypeOK, PhaseInv, BookedInv, NEW t \in Runs, Commits(t)
    PROVE  BookedInv'
<1>1. /\ \A u \in Runs : u # t => outputOf'[u] = outputOf[u] /\ change'[u] = change[u]
      /\ \A x \in Rows : change'[t][x] = "same" /\ table'[x] = View(t, x)
  BY CommitsEffect, OthersRest DEF Kind, Rests
<1>2. outputOf'[t] # NoOutput
  BY CommitsEffect DEF PhaseInv, PhaseOf, Open, Booking
<1>3. \A x \in Rows : table'[x] \in Shown => outputOf'[x[1]] # NoOutput
  BY <1>1, <1>2, RowKinds, ViewCases DEF BookedInv
<1>4. \A u \in Runs : \A x \in Rows :
        change'[u][x] \in Shown => x[1] = u \/ outputOf'[x[1]] # NoOutput
  BY <1>1, <1>2, RowKinds DEF BookedInv, Shown
<1> QED
  BY <1>3, <1>4 DEF BookedInv

LEMMA StepBooked ==
    ASSUME TypeOK, PhaseInv, BookedInv, [Next]_vars
    PROVE  BookedInv'
<1>1. CASE UNCHANGED vars
  BY <1>1 DEF vars, transaction, BookedInv
<1>2. ASSUME NEW t \in Runs, Kind(t)
      PROVE  BookedInv'
  <2>1. CASE Outside(t)
    BY <2>1, OutsideEffect DEF DraftsOnly, BookedInv, Shown
  <2>2. CASE StartBooking(t)
    BY <2>2, StartBookingEffect DEF BookedInv
  <2>3. CASE Advances(t)
    BY <2>3, AdvancesEffect DEF BookedInv
  <2>4. CASE RollsBack(t)
    <3>1. /\ UNCHANGED <<table, outputOf>> /\ \A x \in Rows : change'[t][x] = "same"
      BY <2>4, RollsBackEffect DEF Released
    <3>2. \A u \in Runs : u # t => change'[u] = change[u]
      BY <1>2, OthersRest DEF Rests
    <3> QED
      BY <3>1, <3>2 DEF BookedInv, Shown
  <2> QED
    BY <1>2, <2>1, <2>2, <2>3, <2>4, CommitsBooked, WriteRowBooked DEF Kind
<1>3. ASSUME NEW r \in PlanRuns, WritePlan(r)
      PROVE  BookedInv'
  BY <1>3, WritePlanEffect DEF BookedInv, Shown
<1>4. CASE Crash
  BY <1>4, CrashEffect DEF BookedInv, Shown
<1> QED
  BY <1>1, <1>2, <1>3, <1>4, Kinds

LEMMA BookedShows == BookedInv => OnlyBookedIsShown
BY RowKinds DEF BookedInv, OnlyBookedIsShown, Shown

-----------------------------------------------------------------------------
(* What the gate asked for, the attempt that goes on has written.          *)

LEMMA InitFresh == Init => FreshInv
<1> SUFFICES ASSUME Init, NEW t \in Runs
             PROVE  FreshOf(t)
  BY DEF FreshInv
<1>1. /\ step[t] \in {"queued", "over"} /\ attempt[t] = 0 /\ lastWrite[t].by = 0
      /\ required[t] = FALSE /\ wrote[t] = FALSE /\ ending[t] = "none"
  BY DEF Init
<1> QED
  BY <1>1 DEF FreshOf, MustBeOwn

\* Outside its booking a run gets no nearer to what it must have written,
\* except by writing.
LEMMA OutsideFresh ==
    ASSUME TypeOK, FreshInv, NEW t \in Runs, Outside(t)
    PROVE  FreshOf(t)' /\ ending'[t] # "success"
<1>1. /\ FreshOf(t)
      /\ attempt[t] \in 0..MaxAttempts /\ lastWrite[t].by \in 0..MaxAttempts
  BY DEF FreshInv, TypeOK
<1>2. CASE BeginAttempt(t)
  <2>1. /\ step'[t] = "started" /\ attempt'[t] = attempt[t] + 1 /\ lastWrite' = lastWrite
        /\ wrote'[t] = FALSE /\ ending' = ending /\ step[t] = "queued"
    BY <1>2 DEF BeginAttempt, NewGate, Goto, TypeOK, history
  <2>2. ~MustBeOwn(t)'
    BY <1>1, <2>1 DEF MustBeOwn, FreshOf, Open, Booking
  <2> QED
    BY <1>1, <2>1, <2>2, SMTT(30) DEF FreshOf, MaxAttempts
<1>3. CASE ReadContext(t)
  <2>1. /\ step[t] = "started" /\ step'[t] = "working"
        /\ UNCHANGED <<attempt, wrote, ending, lastWrite>>
    BY <1>3 DEF ReadContext, Goto, TypeOK, history
  <2>2. MustBeOwn(t)' => MustBeOwn(t)
    BY <1>1, <2>1 DEF MustBeOwn, FreshOf, Open, Booking
  <2> QED
    BY <1>1, <2>1, <2>2 DEF FreshOf
<1>4. CASE Incomplete(t) \/ Settle(t) \/ Abort(t) \/ Discard(t) \/ DiscardFails(t)
  <2>1. /\ step'[t] \in {"settle", "queued", "discard", "over"} /\ step[t] \notin {"queued", "over"}
        /\ UNCHANGED <<attempt, lastWrite>>
    BY <1>4 DEF Incomplete, Settle, Abort, Discard, DiscardFails, Goto, TypeOK, history
  <2>2. ending'[t] # "success"
    BY <1>1, <1>4 DEF Incomplete, Settle, Abort, Discard, DiscardFails, FreshOf, TypeOK
  <2>3. ~MustBeOwn(t)'
    BY <2>1, <2>2 DEF MustBeOwn, Open, Booking
  <2> QED
    BY <1>1, <2>1, <2>2, <2>3 DEF FreshOf
<1>5. CASE t \in AuctionRuns /\ WriteAssessments(t)
  <2>1. /\ step[t] \in {"started", "working"} /\ UNCHANGED <<step, attempt, ending>>
        /\ lastWrite'[t].by = attempt[t]
    BY <1>5 DEF WriteAssessments, TypeOK
  <2> QED
    BY <1>1, <2>1 DEF FreshOf
<1> QED
  BY <1>2, <1>3, <1>4, <1>5 DEF Outside

\* The statements of a transaction leave it open.
LEMMA StaysOpen ==
    ASSUME TypeOK, PhaseInv, NEW t \in Runs, Advances(t) \/ \E x \in Rows : WriteRow(t, x)
    PROVE  step[t] \in Booking /\ step'[t] \in Booking
<1>1. \A s \in Statements : s \in Booking
  BY DEF Booking, Statements
<1>2. After(step[t]) \in Booking \/ step[t] \notin Statements
  BY AfterIs DEF Booking, Statements
<1>3. CASE Advances(t)
  <2>1. \/ step[t] \in Statements /\ step'[t] \in {step[t], After(step[t])}
        \/ step[t] = "judge" /\ step'[t] \in {"commit", "replace"}
    BY <1>3, AdvancesEffect
  <2> QED
    BY <1>1, <1>2, <2>1 DEF Booking
<1>4. ASSUME NEW x \in Rows, WriteRow(t, x)
      PROVE  step[t] \in Booking /\ step'[t] \in Booking
  <2>1. step[t] \in Statements /\ step'[t] \in {step[t], After(step[t])}
    BY <1>4, WriteRowEffect
  <2> QED
    BY <1>1, <1>2, <2>1
<1> QED
  BY <1>3, <1>4

LEMMA OneRunFresh ==
    ASSUME TypeOK, PhaseInv, FreshInv, NEW t \in Runs, Kind(t)
    PROVE  FreshInv'
<1>1. ASSUME NEW u \in Runs, u # t
      PROVE  FreshOf(u)'
  <2>1. Rests(u) /\ FreshOf(u)
    BY <1>1, OthersRest DEF FreshInv
  <2>2. lastWrite'[u] = lastWrite[u]
    BY <1>1, OthersWrites
  <2> QED
    BY <2>1, <2>2 DEF Rests, FreshOf, MustBeOwn, Open
<1>2. FreshOf(t)'
  <2>1. FreshOf(t)
    BY DEF FreshInv
  <2>2. CASE Outside(t)
    BY <2>2, OutsideFresh
  <2>3. CASE StartBooking(t)
    <3>1. /\ step[t] = "working" /\ (required[t] => wrote[t]) /\ step'[t] \in {"activate", "judge"}
          /\ UNCHANGED <<required, ending, attempt, lastWrite>>
      BY <2>3, StartBookingEffect
    <3>2. MustBeOwn(t)' => MustBeOwn(t)
      BY <2>1, <3>1 DEF MustBeOwn, FreshOf
    <3> QED
      BY <2>1, <3>1, <3>2 DEF FreshOf
  <2>4. CASE Advances(t) \/ \E x \in Rows : WriteRow(t, x)
    <3>1. /\ UNCHANGED <<attempt, required, wrote, ending, lastWrite>>
          /\ step[t] \in Booking /\ step'[t] \in Booking
      BY <2>4, AdvancesEffect, WriteRowEffect, StaysOpen
    <3> QED
      BY <2>1, <3>1 DEF FreshOf, MustBeOwn, Open, Booking
  <2>5. CASE RollsBack(t)
    <3>1. /\ step'[t] = "settle" /\ UNCHANGED <<attempt, required, wrote, ending, lastWrite>>
          /\ step[t] \in {"started", "working"} \cup Booking
      BY <2>5, RollsBackEffect
    <3> QED
      BY <2>1, <3>1 DEF FreshOf, MustBeOwn, Open, Booking
  <2>6. CASE Commits(t)
    <3>1. /\ step'[t] \in {"over", "settle"} /\ UNCHANGED <<attempt, required, wrote, lastWrite>>
          /\ step[t] = "commit"
      BY <2>6, CommitsEffect
    <3> QED
      BY <2>1, <3>1 DEF FreshOf, MustBeOwn, Open, Booking
  <2> QED
    BY <2>2, <2>3, <2>4, <2>5, <2>6 DEF Kind
<1> QED
  BY <1>1, <1>2 DEF FreshInv

LEMMA WritePlanFresh ==
    ASSUME TypeOK, FreshInv, NEW p \in PlanRuns, WritePlan(p)
    PROVE  FreshInv'
<1>1. /\ UNCHANGED <<step, attempt, required, ending>> /\ lastWrite'[p].by = attempt[p]
      /\ \A u \in Runs : u # p => wrote'[u] = wrote[u] /\ lastWrite'[u] = lastWrite[u]
      /\ attempt[p] \in 0..MaxAttempts
  BY WritePlanEffect DEF TypeOK
<1>2. ASSUME NEW t \in Runs
      PROVE  FreshOf(t)'
  <2>1. FreshOf(t)
    BY DEF FreshInv
  <2>2. CASE t = p
    BY <1>1, <2>1, <2>2, SMTT(30) DEF FreshOf, MaxAttempts
  <2>3. CASE t # p
    BY <1>1, <2>1, <2>3 DEF FreshOf, MustBeOwn, Open
  <2> QED
    BY <2>2, <2>3
<1> QED
  BY <1>2 DEF FreshInv

LEMMA CrashFresh ==
    ASSUME TypeOK, FreshInv, Crash
    PROVE  FreshInv'
<1>1. /\ \A t \in Runs :
           /\ step'[t] \in {"queued", "over"}
           /\ ending'[t] = ending[t] \/ ending'[t] = "failed"
           /\ ending'[t] = "success" /\ step[t] \in {"over", "settle"} => step'[t] = "over"
      /\ UNCHANGED <<attempt, required, wrote, lastWrite>>
  BY CrashEffect
<1>2. ASSUME NEW t \in Runs
      PROVE  FreshOf(t)'
  <2>1. FreshOf(t)
    BY DEF FreshInv
  <2>2. MustBeOwn(t)' => MustBeOwn(t)
    BY <1>1 DEF MustBeOwn, Open, Booking
  <2> QED
    BY <1>1, <2>1, <2>2 DEF FreshOf
<1> QED
  BY <1>2 DEF FreshInv

LEMMA StepFresh ==
    ASSUME TypeOK, PhaseInv, FreshInv, [Next]_vars
    PROVE  FreshInv'
<1>1. CASE UNCHANGED vars
  BY <1>1 DEF vars, run, transaction, history, FreshInv, FreshOf, MustBeOwn, Open
<1> QED
  BY <1>1, OneRunFresh, WritePlanFresh, CrashFresh, Kinds

-----------------------------------------------------------------------------
(* The board has the latest plan.                                          *)

LEMMA InitOutput == Init => OutputInv
<1> SUFFICES ASSUME Init
             PROVE  OutputInv
  OBVIOUS
<1>1. \A t \in Runs : step[t] \in {"queued", "over"}
  BY DEF Init
<1>2. \A t \in Runs : ~Open(t)
  BY <1>1 DEF Open, Booking
<1>3. \A t \in Runs : outputOf[t] < nextOutput /\ newOutput[t] < nextOutput
  BY DEF Init, NoOutput
<1> QED
  BY <1>2, <1>3 DEF OutputInv

LEMMA OneRunOutput ==
    ASSUME TypeOK, PhaseInv, OutputInv, NEW t \in Runs, Kind(t)
    PROVE  OutputInv'
<1>1. \A u \in Runs : u # t => Rests(u)
  BY OthersRest
<1>2. ASSUME met \subseteq met',
             step'[t] \in Booking => \A u \in Runs : u # t /\ Open(u) => {t, u} \in met'
      PROVE  \A v, u \in Runs : v # u /\ Open(v)' /\ Open(u)' => {v, u} \in met'
  <2>1. SUFFICES ASSUME NEW v \in Runs, NEW u \in Runs, v # u,
                        step'[v] \in Booking, step'[u] \in Booking
                 PROVE  {v, u} \in met'
    BY DEF Open
  <2>2. CASE v = t
    BY <1>1, <1>2, <2>1, <2>2 DEF Rests, Open
  <2>3. CASE u = t
    <3>1. {t, v} \in met'
      BY <1>1, <1>2, <2>1, <2>3 DEF Rests, Open
    <3>2. {t, v} = {v, u}
      BY <2>3
    <3> QED
      BY <3>1, <3>2
  <2>4. CASE v # t /\ u # t
    BY <1>1, <1>2, <2>1, <2>4 DEF Rests, Open, OutputInv
  <2> QED
    BY <2>2, <2>3, <2>4
<1>3. nextOutput \in Nat /\ nextOutput > 0 /\ outputOf \in [Runs -> Nat] /\ newOutput \in [Runs -> Nat]
  BY DEF TypeOK
<1>4. \A u \in Runs : outputOf[u] < nextOutput /\ newOutput[u] < nextOutput
  BY DEF OutputInv
<1>5. CASE Outside(t)
  <2>1. step'[t] \notin Booking /\ UNCHANGED <<newOutput, outputOf, nextOutput, met>>
    BY <1>5, OutsideEffect
  <2> QED
    BY <1>2, <1>4, <2>1 DEF OutputInv
<1>6. CASE StartBooking(t)
  <2>1. /\ met \subseteq met' /\ outputOf' = outputOf
        /\ \A u \in Runs : u # t /\ Open(u) => {t, u} \in met'
        /\ IF outputOf[t] # NoOutput
             THEN newOutput'[t] = outputOf[t] /\ nextOutput' = nextOutput
             ELSE newOutput'[t] = nextOutput /\ nextOutput' = nextOutput + 1
    BY <1>6, StartBookingEffect
  <2>2. \A u \in Runs : outputOf'[u] < nextOutput' /\ newOutput'[u] < nextOutput'
    BY <1>1, <1>3, <1>4, <2>1 DEF Rests
  <2> QED
    BY <1>2, <2>1, <2>2 DEF OutputInv
<1>7. CASE Advances(t) \/ \E x \in Rows : WriteRow(t, x)
  <2>1. Open(t)
    BY <1>7, StaysOpen DEF Open
  <2>2. UNCHANGED <<newOutput, outputOf, nextOutput, met>>
    BY <1>7, AdvancesEffect, WriteRowEffect
  <2>3. \A u \in Runs : u # t /\ Open(u) => {t, u} \in met
    BY <2>1 DEF OutputInv
  <2> QED
    BY <1>2, <1>4, <2>2, <2>3 DEF OutputInv
<1>8. CASE RollsBack(t)
  <2>1. step'[t] \notin Booking /\ UNCHANGED <<outputOf, nextOutput, met>> /\ newOutput'[t] = 0
    BY <1>8, RollsBackEffect DEF Released, Booking, NoOutput
  <2> QED
    BY <1>1, <1>2, <1>3, <1>4, <2>1 DEF OutputInv, Rests
<1>9. CASE Commits(t)
  <2>1. /\ step'[t] \notin Booking /\ UNCHANGED <<nextOutput, met>> /\ newOutput'[t] = 0
        /\ outputOf'[t] = newOutput[t]
        /\ \A u \in Runs : u # t => outputOf'[u] = outputOf[u]
    BY <1>9, CommitsEffect DEF Released, Booking, NoOutput
  <2>2. \A u \in Runs : outputOf'[u] < nextOutput' /\ newOutput'[u] < nextOutput'
    BY <1>1, <1>3, <1>4, <2>1 DEF Rests
  <2> QED
    BY <1>2, <2>1, <2>2 DEF OutputInv
<1> QED
  BY <1>5, <1>6, <1>7, <1>8, <1>9 DEF Kind

LEMMA StepOutput ==
    ASSUME TypeOK, PhaseInv, OutputInv, [Next]_vars
    PROVE  OutputInv'
<1>1. CASE UNCHANGED vars
  BY <1>1 DEF vars, run, transaction, history, OutputInv, Open
<1>2. ASSUME NEW r \in PlanRuns, WritePlan(r)
      PROVE  OutputInv'
  BY <1>2, WritePlanEffect DEF OutputInv, Open
<1>3. CASE Crash
  <2>1. /\ UNCHANGED <<outputOf, nextOutput>>
        /\ \A t \in Runs : step'[t] \notin Booking /\ newOutput'[t] = 0
    BY <1>3, CrashEffect DEF Released, NoOutput
  <2>2. nextOutput > 0
    BY DEF TypeOK
  <2> QED
    BY <2>1, <2>2 DEF OutputInv, Open
<1> QED
  BY <1>1, <1>2, <1>3, OneRunOutput, Kinds

LEMMA CalmBefore ==
    ASSUME met \subseteq met', repeated \subseteq repeated', Calm'
    PROVE  Calm
BY DEF Calm

\* A transaction of a plan that goes on as it was goes on superseding.
LEMMA KeepsSuperseding ==
    ASSUME NEW t \in PlanRuns, Supersedes(t), UNCHANGED outputOf,
           newOutput'[t] = newOutput[t], step'[t] = step[t], started'[t] = started[t],
           \A i \in Items : View(t, i)' = "active" =>
              View(t, i) = "active" /\ (i \in target[t] => i \in target'[t])
    PROVE  Supersedes(t)'
BY DEF Supersedes

\* The items of the board, and which plan is the latest, stay as they are.
LEMMA BoardStays ==
    ASSUME \A i \in Items : table'[i] = table[i] \/ table'[i] \notin Shown,
           \A r \in PlanRuns : outputOf'[r] = outputOf[r],
           \A i \in Items : /\ table[i] = "active" => Latest(i[1])
                            /\ Latest(i[1]) => table[i] # "superseded"
    PROVE  \A i \in Items : /\ table'[i] = "active" => Latest(i[1])'
                            /\ Latest(i[1])' => table'[i] # "superseded"
<1>1. \A r \in PlanRuns : Latest(r)' <=> Latest(r)
  BY DEF Latest
<1>2. \A i \in Items : i[1] \in PlanRuns
  BY RowKinds
<1> QED
  BY <1>1, <1>2 DEF Shown

LEMMA InitLatest == Init => LatestInv
<1> SUFFICES ASSUME Init
             PROVE  LatestInv
  OBVIOUS
<1>1. \A t \in PlanRuns : ~Open(t)
  BY DEF Init, Open, Booking, Runs
<1>2. \A i \in Items : table[i] = "none" /\ ~Latest(i[1])
  BY RowKinds DEF Init, Latest
<1> QED
  BY <1>1, <1>2 DEF LatestInv

\* The statements of a plan's own transaction.
LEMMA AdvancesSupersedes ==
    ASSUME TypeOK, PhaseInv, NEW t \in PlanRuns, Supersedes(t), Advances(t)
    PROVE  Supersedes(t)'
<1>1. t \in Runs /\ t \notin AuctionRuns
  BY PublicationAssumption DEF Runs
<1>2. /\ UNCHANGED <<table, outputOf, change, newOutput>>
      /\ \/ /\ step[t] \in Statements /\ ~started[t] /\ Found(t) = {}
            /\ step'[t] = After(step[t]) /\ UNCHANGED <<started, target>>
         \/ /\ step[t] \in Statements /\ ~started[t] /\ step'[t] = step[t]
            /\ started'[t] = TRUE /\ target'[t] = Found(t)
         \/ /\ step[t] \in Statements /\ started[t] /\ target[t] = {}
            /\ step'[t] = After(step[t]) /\ ~started'[t] /\ target'[t] = {}
  BY <1>1, AdvancesEffect
<1>3. step[t] \in Statements => step[t] \in PlanOnly
  BY <1>1 DEF PhaseInv, PhaseOf, Statements, PlanOnly, AuctionOnly
<1>4. step[t] = "supersede" => Found(t) = Outdated(t)
  BY DEF Found
<1>5. \A i \in Items : View(t, i)' = View(t, i)
  BY <1>2 DEF View
<1>6. ASSUME NEW i \in Items, i[1] # t, View(t, i) = "active"
      PROVE  /\ step'[t] \notin {"clear", "commit"}
             /\ step'[t] = "supersede" /\ started'[t] => i \in target'[t]
  <2>1. /\ step[t] \notin {"clear", "commit"}
        /\ step[t] = "supersede" /\ started[t] => i \in target[t]
        /\ i \in Outdated(t)
    BY <1>6 DEF Supersedes, Outdated
  <2> QED
    BY <1>2, <1>3, <1>4, <2>1, AfterIs DEF PlanOnly
<1> QED
  BY <1>2, <1>5, <1>6 DEF Supersedes

LEMMA WriteRowSupersedes ==
    ASSUME TypeOK, PhaseInv, NEW t \in PlanRuns, Supersedes(t), NEW x \in Rows, WriteRow(t, x)
    PROVE  Supersedes(t)'
<1>1. t \in Runs /\ t \notin AuctionRuns
  BY PublicationAssumption DEF Runs
<1>2. /\ UNCHANGED <<table, outputOf, newOutput>>
      /\ step[t] \in Statements /\ started[t] /\ x \in target[t]
      /\ \A y \in Rows : y # x => change'[t][y] = change[t][y]
      /\ IF View(t, x) = From(step[t]) THEN change'[t][x] = Into(step[t])
         ELSE change'[t][x] = change[t][x]
      /\ target'[t] = target[t] \ {x}
      /\ IF target[t] = {x} THEN ~started'[t] /\ step'[t] = After(step[t])
         ELSE started'[t] /\ step'[t] = step[t]
  BY <1>1, WriteRowEffect
<1>3. step[t] \in PlanOnly
  BY <1>1, <1>2 DEF PhaseInv, PhaseOf, Statements, PlanOnly, AuctionOnly
<1>4. ASSUME NEW i \in Items, i[1] # t, View(t, i)' = "active"
      PROVE  i # x /\ View(t, i) = "active"
  <2>1. CASE i # x
    BY <1>2, <1>4, <2>1, RowKinds DEF View
  <2>2. CASE i = x
    <3>1. step[t] = "supersede"
      BY <1>1, <1>2, <1>3, <1>4, <2>2, RowKinds DEF PhaseInv, ShapeOf, PlanOnly
    <3>2. View(t, x) = "active" => change'[t][x] = "superseded"
      BY <1>2, <3>1 DEF From, Into
    <3>3. View(t, x) # "active" => change'[t][x] = change[t][x]
      BY <1>2, <3>1 DEF From
    <3> QED
      BY <1>2, <1>4, <2>2, <3>2, <3>3 DEF View
  <2> QED
    BY <2>1, <2>2
<1>5. ASSUME NEW i \in Items, i[1] # t, View(t, i)' = "active"
      PROVE  /\ step'[t] \notin {"clear", "commit"}
             /\ step'[t] = "supersede" /\ started'[t] => i \in target'[t]
  <2>1. /\ i # x /\ step[t] \notin {"clear", "commit"}
        /\ step[t] = "supersede" => i \in target[t]
    BY <1>2, <1>4, <1>5 DEF Supersedes
  <2> QED
    BY <1>2, <1>3, <2>1, AfterIs DEF PlanOnly
<1> QED
  BY <1>2, <1>5 DEF Supersedes

LEMMA CommitLatest ==
    ASSUME TypeOK, PhaseInv, BookedInv, OutputInv, LatestInv, Calm, NEW t \in Runs, Commits(t)
    PROVE  \A i \in Items : /\ table'[i] = "active" => Latest(i[1])'
                            /\ Latest(i[1])' => table'[i] # "superseded"
<1>1. /\ step[t] = "commit" /\ outputOf'[t] = newOutput[t]
      /\ \A u \in Runs : u # t => outputOf'[u] = outputOf[u]
      /\ \A i \in Items : table'[i] = View(t, i)
  BY CommitsEffect, RowKinds
<1>2. newOutput[t] # NoOutput
  BY <1>1 DEF PhaseInv, PhaseOf, Open, Booking
<1>3. \A i \in Items : /\ i \in Rows /\ i[1] \in PlanRuns /\ i[1] \in Runs
                       /\ change[t][i] \in {"same"} \cup Shown
                       /\ change[t][i] = "active" => i[1] = t
                       /\ change[t][i] = "superseded" => i[1] # t /\ t \in PlanRuns
  BY RowKinds DEF PhaseInv, ShapeOf
<1>4. CASE t \in AuctionRuns
  <2>1. t \notin PlanRuns
    BY <1>4, PublicationAssumption
  <2>2. \A i \in Items : table'[i] = table[i]
    BY <1>1, <1>3, <2>1 DEF View, Shown
  <2>3. \A r \in PlanRuns : outputOf'[r] = outputOf[r]
    BY <1>1, <2>1 DEF Runs
  <2> QED
    BY <2>2, <2>3, BoardStays DEF LatestInv
<1>5. CASE t \in PlanRuns
  <2>1. Supersedes(t)
    BY <1>1, <1>5 DEF LatestInv, Open, Booking
  <2>2. \A r \in PlanRuns : r # t => outputOf'[r] < outputOf'[t]
    BY <1>1, <2>1 DEF Supersedes, Runs
  <2>3. \A r \in PlanRuns : Latest(r)' <=> r = t
    <3>1. outputOf' \in [Runs -> Nat] /\ newOutput[t] \in Nat
      BY CommitsTyped DEF TypeOK
    <3> QED
      BY <1>1, <1>2, <1>5, <2>2, <3>1 DEF Latest, Runs
  <2>4. \A i \in Items : table'[i] = "active" => i[1] = t
    BY <1>1, <2>1 DEF Supersedes
  <2>5. \A i \in Items : i[1] = t => table'[i] # "superseded"
    <3>1. \A i \in Items : i[1] = t => table[i] \notin Shown
      BY <1>3, <2>1 DEF Supersedes, BookedInv
    <3> QED
      BY <1>1, <1>3, <3>1 DEF View, Shown
  <2> QED
    BY <1>3, <2>3, <2>4, <2>5
<1> QED
  BY <1>4, <1>5 DEF Runs

LEMMA OneRunLatest ==
    ASSUME TypeOK, PhaseInv, BookedInv, OutputInv, LatestInv, NEW t \in Runs, Kind(t)
    PROVE  LatestInv'
<1>1. met \subseteq met' /\ repeated \subseteq repeated'
  <2>1. CASE Outside(t) \/ StartBooking(t)
    BY <2>1, OutsideEffect, StartBookingEffect
  <2>2. CASE Advances(t) \/ RollsBack(t) \/ Commits(t)
    BY <2>2, AdvancesEffect, RollsBackEffect, CommitsEffect
  <2>3. CASE \E x \in Rows : WriteRow(t, x)
    BY <2>3, WriteRowEffect
  <2> QED
    BY <2>1, <2>2, <2>3 DEF Kind
<1>2. SUFFICES ASSUME Calm'
               PROVE  /\ \A p \in PlanRuns : Open(p)' => Supersedes(p)'
                      /\ \A i \in Items : /\ table'[i] = "active" => Latest(i[1])'
                                          /\ Latest(i[1])' => table'[i] # "superseded"
  BY DEF LatestInv
<1>3. Calm
  BY <1>1, <1>2, CalmBefore
<1>4. /\ \A p \in PlanRuns : Open(p) => Supersedes(p)
      /\ \A i \in Items : /\ table[i] = "active" => Latest(i[1])
                          /\ Latest(i[1]) => table[i] # "superseded"
  BY <1>3 DEF LatestInv
<1>5. \A u \in Runs : u # t => Rests(u)
  BY OthersRest
<1>6. ASSUME ~Commits(t)
      PROVE  /\ \A i \in Items : table'[i] = table[i]
             /\ outputOf' = outputOf
  <2>1. CASE Outside(t)
    BY <2>1, OutsideEffect, RowKinds DEF DraftsOnly
  <2>2. CASE ~Outside(t)
    BY <1>6, <2>2, StartBookingEffect, AdvancesEffect, RollsBackEffect, WriteRowEffect DEF Kind
  <2> QED
    BY <2>1, <2>2
<1>7. \A p \in PlanRuns : p # t /\ Open(p)' => Supersedes(p)'
  <2>1. SUFFICES ASSUME NEW p \in PlanRuns, p # t, step'[p] \in Booking
                 PROVE  Supersedes(p)'
    BY DEF Open
  <2>2. p \in Runs /\ Rests(p) /\ Open(p)
    BY <1>5, <2>1 DEF Runs, Rests, Open
  <2>3. \A i \in Items : table'[i] = table[i]
    <3>1. CASE Commits(t)
      <4>1. step[t] = "commit" /\ \A i \in Items : table'[i] = View(t, i)
        BY <3>1, CommitsEffect, RowKinds
      <4>2. {t, p} \in met
        BY <2>1, <2>2, <4>1 DEF OutputInv, Open, Booking
      <4>3. t \notin PlanRuns
        BY <1>3, <4>2 DEF Calm
      <4>4. \A i \in Items : change[t][i] = "same"
        BY <4>3, RowKinds DEF PhaseInv, ShapeOf, Shown
      <4> QED
        BY <4>1, <4>4 DEF View
    <3> QED
      BY <1>6, <3>1
  <2>4. \A r \in PlanRuns : outputOf'[r] = outputOf[r]
    <3>1. CASE Commits(t)
      <4>1. step[t] = "commit" /\ \A u \in Runs : u # t => outputOf'[u] = outputOf[u]
        BY <3>1, CommitsEffect
      <4>2. {t, p} \in met
        BY <2>1, <2>2, <4>1 DEF OutputInv, Open, Booking
      <4>3. t \notin PlanRuns
        BY <1>3, <4>2 DEF Calm
      <4> QED
        BY <4>1, <4>3 DEF Runs
    <3> QED
      BY <1>6, <3>1
  <2>5. Supersedes(p)
    BY <1>4, <2>2
  <2> QED
    BY <2>2, <2>3, <2>4, <2>5 DEF Supersedes, Rests, View
<1>8. t \in PlanRuns /\ Open(t)' => Supersedes(t)'
  <2>1. SUFFICES ASSUME t \in PlanRuns, step'[t] \in Booking
                 PROVE  Supersedes(t)'
    BY DEF Open
  <2>2. CASE StartBooking(t)
    <3>1. /\ step'[t] = "activate" /\ outputOf' = outputOf
          /\ IF outputOf[t] # NoOutput THEN t \in repeated'
             ELSE newOutput'[t] = nextOutput
      BY <2>1, <2>2, StartBookingEffect
    <3>2. outputOf'[t] = NoOutput /\ newOutput'[t] = nextOutput
      BY <1>2, <3>1 DEF Calm
    <3>3. \A r \in PlanRuns : outputOf'[r] < newOutput'[t]
      BY <3>1, <3>2 DEF OutputInv, Runs
    <3> QED
      BY <3>1, <3>2, <3>3 DEF Supersedes
  <2>3. CASE Advances(t) \/ \E x \in Rows : WriteRow(t, x)
    <3>1. Supersedes(t)
      BY <1>4, <2>1, <2>3, StaysOpen DEF Open
    <3> QED
      BY <2>1, <2>3, <3>1, AdvancesSupersedes, WriteRowSupersedes
  <2>4. CASE Outside(t) \/ RollsBack(t) \/ Commits(t)
    BY <2>1, <2>4, OutsideEffect, RollsBackEffect, CommitsEffect DEF Booking
  <2> QED
    BY <2>2, <2>3, <2>4 DEF Kind
<1>9. \A i \in Items : /\ table'[i] = "active" => Latest(i[1])'
                       /\ Latest(i[1])' => table'[i] # "superseded"
  BY <1>3, <1>4, <1>6, CommitLatest, BoardStays
<1> QED
  BY <1>7, <1>8, <1>9

LEMMA WritePlanLatest ==
    ASSUME TypeOK, PhaseInv, LatestInv, NEW p \in PlanRuns, WritePlan(p)
    PROVE  LatestInv'
<1>1. /\ UNCHANGED <<outputOf, step, newOutput, change, started, met>>
      /\ p \in Runs /\ step[p] \in {"started", "working"}
      /\ \A u \in Runs : u # p => \A x \in OfPlan(p) : change[u][x] = "same"
      /\ \A x \in Rows : IF x \in OfPlan(p) THEN table'[x] \in {"none", "draft"}
                                           ELSE table'[x] = table[x]
      /\ \A u \in Runs : target'[u] = target[u] \ OfPlan(p)
      /\ repeated \subseteq repeated'
  BY WritePlanEffect
<1>2. SUFFICES ASSUME Calm'
               PROVE  /\ \A t \in PlanRuns : Open(t)' => Supersedes(t)'
                      /\ \A i \in Items : /\ table'[i] = "active" => Latest(i[1])'
                                          /\ Latest(i[1])' => table'[i] # "superseded"
  BY DEF LatestInv
<1>3. Calm
  BY <1>1, <1>2, CalmBefore
<1>4. \A i \in Items : table'[i] = table[i] \/ table'[i] \notin Shown
  BY <1>1, RowKinds DEF Shown
<1>5. ASSUME NEW t \in PlanRuns, Open(t)
      PROVE  Supersedes(t)'
  <2>1. t \in Runs /\ t # p /\ Supersedes(t)
    BY <1>1, <1>3, <1>5 DEF LatestInv, Runs, Open, Booking
  <2>2. \A i \in Items : View(t, i)' = "active" =>
           View(t, i) = "active" /\ (i \in target[t] => i \in target'[t])
    BY <1>1, <2>1, RowKinds DEF View
  <2> QED
    BY <1>1, <2>1, <2>2, KeepsSuperseding
<1> QED
  BY <1>1, <1>3, <1>4, <1>5, BoardStays DEF LatestInv, Open

LEMMA StepLatest ==
    ASSUME TypeOK, PhaseInv, BookedInv, OutputInv, LatestInv, [Next]_vars
    PROVE  LatestInv'
<1>1. CASE UNCHANGED vars
  BY <1>1 DEF vars, run, transaction, history, LatestInv, Calm, Supersedes, View, Latest, Open
<1>2. CASE Crash
  <2>1. /\ UNCHANGED <<table, outputOf, met, repeated>>
        /\ \A t \in Runs : step'[t] \notin Booking
    BY <1>2, CrashEffect
  <2> QED
    BY <2>1 DEF LatestInv, Calm, Latest, Open, Runs
<1> QED
  BY <1>1, <1>2, OneRunLatest, WritePlanLatest, Kinds

LEMMA LatestShows == LatestInv => BoardIsLatest
BY DEF LatestInv, Calm, BoardIsLatest

-----------------------------------------------------------------------------
(* Assessments follow their plan.                                          *)

\* What the three parts of the invariant ask, of one assessment.
ShownFollows(x) == table[x] = "active" => Follows(x)
WrittenFollows(a, x) ==
    /\ change[a][x] = "active" => Follows(x)
    /\ step[a] \in {"replace", "publish"} /\ x[1] = a /\ table[x] = "draft" => Follows(x)
Clears(t, x) ==
    table[x] = "active" /\ change[t][x] = "same" /\ change[t][x[2]] = "superseded" =>
        /\ step[t] = "commit" => Met(x)
        /\ step[t] = "clear" /\ started[t] => x \in target[t] \/ Met(x)

LEMMA FollowIs ==
    FollowInv <=> /\ \A x \in Assessments : ShownFollows(x)
                  /\ \A a \in AuctionRuns : \A x \in Assessments : WrittenFollows(a, x)
                  /\ \A t \in PlanRuns : \A x \in Assessments : Clears(t, x)
BY DEF FollowInv, ShownFollows, WrittenFollows, Clears

LEMMA FollowIsNext ==
    ASSUME \A x \in Assessments : ShownFollows(x)',
           \A a \in AuctionRuns : \A x \in Assessments : WrittenFollows(a, x)',
           \A t \in PlanRuns : \A x \in Assessments : Clears(t, x)'
    PROVE  FollowInv'
BY DEF FollowInv, ShownFollows, WrittenFollows, Clears

LEMMA InitFollow == Init => FollowInv
<1> SUFFICES ASSUME Init
             PROVE  FollowInv
  OBVIOUS
<1>1. \A x \in Rows : table[x] = "none"
  BY DEF Init
<1>2. \A t \in Runs : \A x \in Rows : change[t][x] = "same"
  BY DEF Init
<1> QED
  BY <1>1, <1>2, RowKinds DEF FollowInv, Runs

LEMMA MetStays ==
    ASSUME met \subseteq met'
    PROVE  \A x \in Assessments : Met(x) => Met(x)'
BY DEF Met

\* A run that touches rows is booking; its shape, once more, by kind of row.
LEMMA ChangeShape ==
    ASSUME PhaseInv, NEW t \in Runs
    PROVE  /\ \A x \in Rows : change[t][x] \in {"same", "active", "superseded"}
           /\ \A x \in Rows : change[t][x] # "same" => Open(t)
           /\ t \in AuctionRuns => \A i \in Items : change[t][i] = "same"
           /\ \A x \in Assessments : change[t][x] = "active" => x[1] = t
           /\ t \in PlanRuns => \A x \in Assessments : change[t][x] # "active"
<1>1. PhaseOf(t) /\ ShapeOf(t)
  BY DEF PhaseInv
<1>2. \A x \in Rows : change[t][x] # "same" => Open(t)
  BY <1>1 DEF PhaseOf, Untouched
<1> QED
  BY <1>1, <1>2, RowKinds, PublicationAssumption DEF ShapeOf, Shown

\* A step that leaves what is committed as it is.
LEMMA FollowsStay ==
    ASSUME met \subseteq met', \A i \in Items : table[i] = "active" => table'[i] = "active"
    PROVE  \A x \in Assessments : Follows(x) => Follows(x)'
BY MetStays, RowKinds DEF Follows

LEMMA QuietFollow ==
    ASSUME TypeOK, PhaseInv, FollowInv, NEW t \in Runs,
           Outside(t) \/ StartBooking(t) \/ RollsBack(t)
    PROVE  FollowInv'
<1>1. /\ met \subseteq met' /\ DraftsOnly(t)
      /\ step'[t] \notin {"replace", "publish", "clear", "commit"}
      /\ \A x \in Rows : change'[t][x] \in {"same", change[t][x]}
  <2>1. CASE Outside(t)
    BY <2>1, OutsideEffect DEF Booking
  <2>2. CASE StartBooking(t)
    BY <2>2, StartBookingEffect DEF DraftsOnly
  <2>3. CASE RollsBack(t)
    BY <2>3, RollsBackEffect DEF DraftsOnly, Released
  <2> QED
    BY <2>1, <2>2, <2>3
<1>2. \A u \in Runs : u # t => Rests(u)
  BY OthersRest DEF Kind
<1>3. /\ \A i \in Items : table'[i] = table[i]
      /\ \A x \in Assessments : \/ table'[x] = table[x]
                                \/ {table'[x], table[x]} \subseteq {"none", "draft"} /\ x[1] = t
  BY <1>1, RowKinds DEF DraftsOnly
<1>4. \A x \in Assessments : (Follows(x) => Follows(x)') /\ (Met(x) => Met(x)')
  BY <1>1, <1>3, FollowsStay, MetStays
<1>5. ASSUME NEW x \in Assessments
      PROVE  /\ ShownFollows(x)'
             /\ \A a \in AuctionRuns : WrittenFollows(a, x)'
             /\ \A p \in PlanRuns : Clears(p, x)'
  <2>1. /\ ShownFollows(x)
        /\ \A a \in AuctionRuns : WrittenFollows(a, x)
        /\ \A p \in PlanRuns : Clears(p, x)
    BY FollowIs
  <2>2. ShownFollows(x)'
    BY <1>3, <1>4, <2>1 DEF ShownFollows
  <2>3. ASSUME NEW a \in AuctionRuns
        PROVE  WrittenFollows(a, x)'
    <3>1. CASE a = t
      BY <1>1, <1>4, <2>1, <3>1, RowKinds DEF WrittenFollows
    <3>2. CASE a # t
      <4>1. Rests(a)
        BY <1>2, <3>2 DEF Runs
      <4> QED
        BY <1>3, <1>4, <2>1, <3>2, <4>1 DEF WrittenFollows, Rests
    <3> QED
      BY <3>1, <3>2
  <2>4. ASSUME NEW p \in PlanRuns
        PROVE  Clears(p, x)'
    <3>1. CASE p = t
      BY <1>1, <3>1 DEF Clears
    <3>2. CASE p # t
      <4>1. x[1] # p
        BY RowKinds, PublicationAssumption
      <4>2. Rests(p)
        BY <1>2, <3>2 DEF Runs
      <4> QED
        BY <1>3, <1>4, <2>1, <4>1, <4>2 DEF Clears, Rests
    <3> QED
      BY <3>1, <3>2
  <2> QED
    BY <2>2, <2>3, <2>4
<1> QED
  BY <1>5, FollowIsNext

\* A judged run's drafts are about items that are active.
LEMMA AdvancesFollow ==
    ASSUME TypeOK, PhaseInv, FollowInv, NEW t \in Runs, Advances(t)
    PROVE  FollowInv'
<1>1. /\ UNCHANGED <<table, change, met>>
      /\ \/ /\ step[t] \in Statements /\ ~started[t] /\ Found(t) = {}
            /\ step'[t] = After(step[t]) /\ UNCHANGED <<started, target>>
         \/ /\ step[t] \in Statements /\ ~started[t] /\ step'[t] = step[t]
            /\ started'[t] = TRUE /\ target'[t] = Found(t)
         \/ /\ step[t] \in Statements /\ started[t] /\ target[t] = {}
            /\ step'[t] = After(step[t]) /\ ~started'[t] /\ target'[t] = {}
         \/ /\ t \in AuctionRuns /\ step[t] = "judge" /\ UNCHANGED <<started, target>>
            /\ IF t \in closed THEN Drafts(t) = {} ELSE Drafts(t) = Expected(t)
            /\ step'[t] = IF Drafts(t) = {} THEN "commit" ELSE "replace"
  BY AdvancesEffect
<1>2. \A u \in Runs : u # t => Rests(u)
  BY OthersRest DEF Kind
<1>3. \A x \in Assessments : (Follows(x)' <=> Follows(x)) /\ (Met(x)' <=> Met(x))
  BY <1>1 DEF Follows, Met
<1>4. step[t] \in Statements => IF t \in PlanRuns THEN step[t] \in PlanOnly
                                                  ELSE step[t] \in {"replace", "publish"}
  BY PublicationAssumption DEF PhaseInv, PhaseOf, Statements, PlanOnly, AuctionOnly, Runs
<1>5. ASSUME NEW x \in Assessments
      PROVE  /\ ShownFollows(x)'
             /\ \A a \in AuctionRuns : WrittenFollows(a, x)'
             /\ \A p \in PlanRuns : Clears(p, x)'
  <2>1. /\ ShownFollows(x)
        /\ \A a \in AuctionRuns : WrittenFollows(a, x)
        /\ \A p \in PlanRuns : Clears(p, x)
    BY FollowIs
  <2>2. ShownFollows(x)'
    BY <1>1, <1>3, <2>1 DEF ShownFollows
  <2>3. ASSUME NEW a \in AuctionRuns
        PROVE  WrittenFollows(a, x)'
    <3>1. CASE a # t
      <4>1. Rests(a)
        BY <1>2, <3>1 DEF Runs
      <4> QED
        BY <1>1, <1>3, <2>1, <4>1 DEF WrittenFollows, Rests
    <3>2. CASE a = t
      <4>1. t \notin PlanRuns
        BY <3>2, PublicationAssumption
      <4>2. ASSUME step'[t] \in {"replace", "publish"}, x[1] = t, table[x] = "draft"
            PROVE  Follows(x)
        <5>1. CASE step[t] \in {"replace", "publish"}
          BY <2>1, <3>2, <4>2, <5>1 DEF WrittenFollows
        <5>2. CASE step[t] = "judge"
          <6>1. x[2] \in Drafts(t)
            BY <4>2, RowKinds DEF Drafts
          <6>2. x[2] \in Expected(t)
            BY <1>1, <5>2, <6>1 DEF Statements
          <6>3. View(t, x[2]) = "active"
            BY <6>2 DEF Expected
          <6>4. change[t][x[2]] = "same"
            BY <3>2, RowKinds, ChangeShape
          <6> QED
            BY <6>3, <6>4 DEF View, Follows
        <5> QED
          BY <1>1, <1>4, <4>1, <5>1, <5>2
      <4> QED
        BY <1>1, <1>3, <2>1, <3>2, <4>2 DEF WrittenFollows
    <3> QED
      BY <3>1, <3>2
  <2>4. ASSUME NEW p \in PlanRuns
        PROVE  Clears(p, x)'
    <3>1. CASE p # t
      <4>1. Rests(p)
        BY <1>2, <3>1 DEF Runs
      <4> QED
        BY <1>1, <1>3, <2>1, <4>1 DEF Clears, Rests
    <3>2. CASE p = t
      <4>1. t \notin AuctionRuns
        BY <3>2, PublicationAssumption
      <4>2. SUFFICES ASSUME table[x] = "active", change[t][x] = "same",
                            change[t][x[2]] = "superseded"
                     PROVE  /\ step'[t] = "commit" => Met(x)
                            /\ step'[t] = "clear" /\ started'[t] => x \in target'[t] \/ Met(x)
        BY <1>1, <1>3, <3>2 DEF Clears
      <4>3. View(t, x) = "active" /\ View(t, x[2]) = "superseded"
        BY <4>2 DEF View
      <4>4. step[t] = "clear" => x \in Found(t)
        BY <4>3 DEF Found
      <4>5. step[t] = "clear" /\ started[t] => x \in target[t] \/ Met(x)
        BY <2>1, <3>2, <4>2 DEF Clears
      <4> QED
        BY <1>1, <1>4, <3>2, <4>1, <4>4, <4>5, AfterIs DEF PlanOnly
    <3> QED
      BY <3>1, <3>2
  <2> QED
    BY <2>2, <2>3, <2>4
<1> QED
  BY <1>5, FollowIsNext

LEMMA WriteRowFollow ==
    ASSUME TypeOK, PhaseInv, FollowInv, NEW t \in Runs, NEW y \in Rows, WriteRow(t, y)
    PROVE  FollowInv'
<1>1. /\ UNCHANGED <<table, met>>
      /\ step[t] \in Statements /\ started[t] /\ y \in target[t]
      /\ \A x \in Rows : x # y => change'[t][x] = change[t][x]
      /\ IF View(t, y) = From(step[t]) THEN change'[t][y] = Into(step[t])
         ELSE change'[t][y] = change[t][y]
      /\ target'[t] = target[t] \ {y}
      /\ IF target[t] = {y} THEN ~started'[t] /\ step'[t] = After(step[t])
         ELSE started'[t] /\ step'[t] = step[t]
  BY WriteRowEffect
<1>2. \A u \in Runs : u # t => Rests(u)
  BY OthersRest DEF Kind
<1>3. \A x \in Assessments : (Follows(x)' <=> Follows(x)) /\ (Met(x)' <=> Met(x))
  BY <1>1 DEF Follows, Met
<1>4. step[t] \in Statements => IF t \in PlanRuns THEN step[t] \in PlanOnly
                                                  ELSE step[t] \in {"replace", "publish"}
  BY PublicationAssumption DEF PhaseInv, PhaseOf, Statements, PlanOnly, AuctionOnly, Runs
<1>5. ASSUME NEW x \in Assessments
      PROVE  /\ ShownFollows(x)'
             /\ \A a \in AuctionRuns : WrittenFollows(a, x)'
             /\ \A p \in PlanRuns : Clears(p, x)'
  <2>1. /\ ShownFollows(x)
        /\ \A a \in AuctionRuns : WrittenFollows(a, x)
        /\ \A p \in PlanRuns : Clears(p, x)
    BY FollowIs
  <2>2. ShownFollows(x)'
    BY <1>1, <1>3, <2>1 DEF ShownFollows
  <2>3. ASSUME NEW a \in AuctionRuns
        PROVE  WrittenFollows(a, x)'
    <3>1. CASE a # t
      <4>1. Rests(a)
        BY <1>2, <3>1 DEF Runs
      <4> QED
        BY <1>1, <1>3, <2>1, <4>1 DEF WrittenFollows, Rests
    <3>2. CASE a = t
      <4>1. step[t] \in {"replace", "publish"}
        BY <1>1, <1>4, <3>2, PublicationAssumption
      <4>2. ASSUME change'[t][x] = "active"
            PROVE  Follows(x)
        <5>1. CASE change[t][x] = "active"
          BY <2>1, <3>2, <5>1 DEF WrittenFollows
        <5>2. CASE change[t][x] # "active"
          <6>1. x = y /\ View(t, x) = From(step[t]) /\ Into(step[t]) = "active"
            BY <1>1, <4>2, <5>2, RowKinds
          <6>2. step[t] = "publish" /\ View(t, x) = "draft"
            BY <4>1, <6>1 DEF From, Into
          <6>3. x[1] = t
            BY <1>1, <6>1, <6>2 DEF PhaseInv, ShapeOf
          <6>4. table[x] = "draft"
            <7>1. change[t][x] \in {"same", "active", "superseded"}
              BY ChangeShape, RowKinds
            <7> QED
              BY <6>2, <7>1 DEF View
          <6> QED
            BY <2>1, <3>2, <6>2, <6>3, <6>4 DEF WrittenFollows
        <5> QED
          BY <5>1, <5>2
      <4>3. step'[t] \in {"replace", "publish"} => step[t] \in {"replace", "publish"}
        BY <4>1
      <4> QED
        BY <1>1, <1>3, <2>1, <3>2, <4>2, <4>3 DEF WrittenFollows
    <3> QED
      BY <3>1, <3>2
  <2>4. ASSUME NEW p \in PlanRuns
        PROVE  Clears(p, x)'
    <3>1. CASE p # t
      <4>1. Rests(p)
        BY <1>2, <3>1 DEF Runs
      <4> QED
        BY <1>1, <1>3, <2>1, <4>1 DEF Clears, Rests
    <3>2. CASE p = t
      <4>1. step[t] \in PlanOnly
        BY <1>1, <1>4, <3>2
      <4>2. SUFFICES ASSUME table[x] = "active", change'[t][x] = "same",
                            change'[t][x[2]] = "superseded"
                     PROVE  /\ step'[t] = "commit" => Met(x)
                            /\ step'[t] = "clear" /\ started'[t] => x \in target'[t] \/ Met(x)
        BY <1>1, <1>3, <3>2 DEF Clears
      <4>3. CASE step[t] # "clear"
        BY <1>1, <4>1, <4>3, AfterIs DEF PlanOnly
      <4>4. CASE step[t] = "clear"
        <5>1. y \in Assessments
          BY <1>1, <4>4 DEF PhaseInv, ShapeOf
        <5>2. change[t][x[2]] = "superseded"
          BY <1>1, <4>2, <5>1, RowKinds
        <5>3. x # y
          <6>1. View(t, y) = "active" => change'[t][y] = "superseded"
            BY <1>1, <4>4 DEF From, Into
          <6>2. View(t, y) # "active" => change'[t][y] = change[t][y]
            BY <1>1, <4>4 DEF From
          <6> QED
            BY <4>2, <6>1, <6>2 DEF View
        <5>4. change[t][x] = "same"
          BY <1>1, <4>2, <5>3, RowKinds
        <5>5. x \in target[t] \/ Met(x)
          BY <1>1, <2>1, <3>2, <4>2, <4>4, <5>2, <5>4 DEF Clears
        <5>6. CASE target[t] = {y}
          BY <1>1, <4>4, <5>3, <5>5, <5>6, AfterIs
        <5>7. CASE target[t] # {y}
          BY <1>1, <4>4, <5>3, <5>5, <5>7
        <5> QED
          BY <5>6, <5>7
      <4> QED
        BY <4>3, <4>4
    <3> QED
      BY <3>1, <3>2
  <2> QED
    BY <2>2, <2>3, <2>4
<1> QED
  BY <1>5, FollowIsNext

LEMMA PlanCommitFollow ==
    ASSUME TypeOK, PhaseInv, OutputInv, FollowInv, NEW t \in PlanRuns, Commits(t)
    PROVE  FollowInv'
<1>1. /\ t \in Runs /\ step[t] = "commit" /\ met' = met
      /\ \A x \in Rows : table'[x] = View(t, x)
      /\ \A x \in Rows : change'[t][x] = "same"
  BY CommitsEffect DEF Runs
<1>2. \A u \in Runs : u # t => Rests(u)
  BY <1>1, OthersRest DEF Kind
<1>3. \A x \in Assessments : Met(x)' <=> Met(x)
  BY <1>1 DEF Met
<1>4. Open(t)
  BY <1>1 DEF Open, Booking
<1>5. \A a \in AuctionRuns : \A x \in Assessments : x[1] = a /\ Open(a) => Met(x)
  <2>1. SUFFICES ASSUME NEW a \in AuctionRuns, NEW x \in Assessments, x[1] = a, Open(a)
                 PROVE  Met(x)
    OBVIOUS
  <2>2. a \in Runs /\ a # t
    BY PublicationAssumption DEF Runs
  <2>3. {a, t} \in met
    BY <1>1, <1>4, <2>1, <2>2 DEF OutputInv
  <2> QED
    BY <2>1, <2>3 DEF Met
<1>6. ASSUME NEW x \in Assessments
      PROVE  /\ ShownFollows(x)'
             /\ \A a \in AuctionRuns : WrittenFollows(a, x)'
             /\ \A p \in PlanRuns : Clears(p, x)'
  <2>1. /\ ShownFollows(x)
        /\ \A a \in AuctionRuns : WrittenFollows(a, x)
        /\ \A p \in PlanRuns : Clears(p, x)
    BY FollowIs
  <2>2. table'[x] = "active" => table[x] = "active" /\ change[t][x] = "same"
    BY <1>1, ChangeShape, RowKinds DEF View
  <2>3. ShownFollows(x)'
    <3>1. SUFFICES ASSUME table'[x] = "active", ~Met(x)
                   PROVE  table'[x[2]] = "active"
      BY <1>3 DEF ShownFollows, Follows
    <3>2. table[x] = "active" /\ change[t][x] = "same" /\ table[x[2]] = "active"
      BY <2>1, <2>2, <3>1 DEF ShownFollows, Follows
    <3>3. change[t][x[2]] # "superseded"
      BY <1>1, <2>1, <3>1, <3>2 DEF Clears
    <3>4. change[t][x[2]] \in {"same", "active"}
      BY <1>1, <3>3, ChangeShape, RowKinds
    <3> QED
      BY <1>1, <3>2, <3>4, RowKinds DEF View
  <2>4. ASSUME NEW a \in AuctionRuns
        PROVE  WrittenFollows(a, x)'
    <3>1. a \in Runs /\ a # t /\ Rests(a)
      BY <1>2, PublicationAssumption DEF Runs
    <3>2. change'[a][x] = "active" => Met(x)
      BY <1>5, <3>1, ChangeShape, RowKinds DEF Rests
    <3>3. step'[a] \in {"replace", "publish"} /\ x[1] = a => Met(x)
      BY <1>5, <3>1 DEF Rests, Open, Booking
    <3> QED
      BY <1>3, <3>2, <3>3 DEF WrittenFollows, Follows
  <2>5. ASSUME NEW p \in PlanRuns
        PROVE  Clears(p, x)'
    <3>1. CASE p = t
      BY <1>1, <3>1, RowKinds DEF Clears
    <3>2. CASE p # t
      <4>1. Rests(p)
        BY <1>2, <3>2 DEF Runs
      <4> QED
        BY <1>3, <2>1, <2>2, <4>1 DEF Clears, Rests
    <3> QED
      BY <3>1, <3>2
  <2> QED
    BY <2>3, <2>4, <2>5
<1> QED
  BY <1>6, FollowIsNext

LEMMA AuctionCommitFollow ==
    ASSUME TypeOK, PhaseInv, OutputInv, FollowInv, NEW t \in AuctionRuns, Commits(t)
    PROVE  FollowInv'
<1>1. /\ t \in Runs /\ step[t] = "commit" /\ met' = met /\ step'[t] \in {"over", "settle"}
      /\ \A x \in Rows : table'[x] = View(t, x)
      /\ \A x \in Rows : change'[t][x] = "same"
  BY CommitsEffect DEF Runs
<1>2. \A u \in Runs : u # t => Rests(u)
  BY <1>1, OthersRest DEF Kind
<1>3. Open(t)
  BY <1>1 DEF Open, Booking
<1>4. \A i \in Items : table'[i] = table[i]
  BY <1>1, ChangeShape, RowKinds DEF View
<1>5. \A x \in Assessments : (Follows(x)' <=> Follows(x)) /\ (Met(x)' <=> Met(x))
  BY <1>1, <1>4, RowKinds DEF Follows, Met
<1>6. ASSUME NEW x \in Assessments
      PROVE  /\ ShownFollows(x)'
             /\ \A a \in AuctionRuns : WrittenFollows(a, x)'
             /\ \A p \in PlanRuns : Clears(p, x)'
  <2>1. /\ ShownFollows(x)
        /\ \A a \in AuctionRuns : WrittenFollows(a, x)
        /\ \A p \in PlanRuns : Clears(p, x)
    BY FollowIs
  <2>2. /\ change[t][x] \in {"same", "active", "superseded"}
        /\ table'[x] = IF change[t][x] = "same" THEN table[x] ELSE change[t][x]
    BY <1>1, ChangeShape, RowKinds DEF View
  <2>3. ShownFollows(x)'
    BY <1>5, <2>1, <2>2 DEF ShownFollows, WrittenFollows
  <2>4. ASSUME NEW a \in AuctionRuns
        PROVE  WrittenFollows(a, x)'
    <3>1. CASE a = t
      BY <1>1, <3>1, RowKinds DEF WrittenFollows
    <3>2. CASE a # t
      <4>1. Rests(a)
        BY <1>2, <3>2 DEF Runs
      <4> QED
        BY <1>5, <2>1, <2>2, <4>1 DEF WrittenFollows, Rests
    <3> QED
      BY <3>1, <3>2
  <2>5. ASSUME NEW p \in PlanRuns
        PROVE  Clears(p, x)'
    <3>1. p \in Runs /\ p # t /\ Rests(p)
      BY <1>2, PublicationAssumption DEF Runs
    <3>2. CASE change[t][x] = "active"
      <4>1. x[1] = t
        BY <1>1, <3>2, ChangeShape
      <4>2. step[p] \in {"commit", "clear"} => {t, p} \in met
        BY <1>1, <1>3, <3>1 DEF OutputInv, Open, Booking
      <4>3. step[p] \in {"commit", "clear"} => Met(x)
        BY <4>1, <4>2 DEF Met
      <4> QED
        BY <1>5, <3>1, <4>3 DEF Clears, Rests
    <3>3. CASE change[t][x] # "active"
      BY <1>5, <2>1, <2>2, <3>1, <3>3 DEF Clears, Rests
    <3> QED
      BY <3>2, <3>3
  <2> QED
    BY <2>3, <2>4, <2>5
<1> QED
  BY <1>6, FollowIsNext

LEMMA WritePlanFollow ==
    ASSUME TypeOK, PhaseInv, FollowInv, NEW p \in PlanRuns, WritePlan(p)
    PROVE  FollowInv'
<1>1. /\ UNCHANGED <<step, change, started, met>>
      /\ \A u \in Runs : u # p => \A x \in OfPlan(p) : change[u][x] = "same"
      /\ \A x \in Rows : x \notin OfPlan(p) => table'[x] = table[x]
      /\ \A x \in Assessments : x \in OfPlan(p) => table'[x] = "none"
      /\ \A u \in Runs : target'[u] = target[u] \ OfPlan(p)
  BY WritePlanEffect
<1>2. ASSUME NEW x \in Assessments
      PROVE  /\ ShownFollows(x)'
             /\ \A a \in AuctionRuns : WrittenFollows(a, x)'
             /\ \A t \in PlanRuns : Clears(t, x)'
  <2>1. /\ ShownFollows(x)
        /\ \A a \in AuctionRuns : WrittenFollows(a, x)
        /\ \A t \in PlanRuns : Clears(t, x)
    BY FollowIs
  <2>2. CASE x \in OfPlan(p)
    <3>1. table'[x] = "none"
      BY <1>1, <2>2
    <3>2. \A a \in AuctionRuns : change'[a][x] = "same"
      BY <1>1, <2>2, PublicationAssumption DEF Runs
    <3> QED
      BY <3>1, <3>2 DEF ShownFollows, WrittenFollows, Clears
  <2>3. CASE x \notin OfPlan(p)
    <3>1. x[2] \notin OfPlan(p)
      BY <2>3, RowKinds DEF OfPlan
    <3>2. table'[x] = table[x] /\ table'[x[2]] = table[x[2]]
      BY <1>1, <2>3, <3>1, RowKinds
    <3>3. (Follows(x)' <=> Follows(x)) /\ (Met(x)' <=> Met(x))
      BY <1>1, <3>2 DEF Follows, Met
    <3>4. \A u \in Runs : x \in target[u] => x \in target'[u]
      BY <1>1, <2>3
    <3> QED
      BY <1>1, <2>1, <3>2, <3>3, <3>4 DEF ShownFollows, WrittenFollows, Clears, Runs
  <2> QED
    BY <2>2, <2>3
<1> QED
  BY <1>2, FollowIsNext

LEMMA CrashFollow ==
    ASSUME TypeOK, FollowInv, Crash
    PROVE  FollowInv'
<1>1. /\ UNCHANGED <<table, met>>
      /\ \A t \in Runs : /\ \A x \in Rows : change'[t][x] = "same"
                         /\ step'[t] \in {"queued", "over"}
  BY CrashEffect
<1>2. \A x \in Assessments : Follows(x)' <=> Follows(x)
  BY <1>1 DEF Follows, Met
<1> QED
  BY <1>1, <1>2, FollowIs, FollowIsNext, RowKinds DEF ShownFollows, WrittenFollows, Clears, Runs

LEMMA StepFollow ==
    ASSUME TypeOK, PhaseInv, OutputInv, FollowInv, [Next]_vars
    PROVE  FollowInv'
<1>1. CASE UNCHANGED vars
  BY <1>1 DEF vars, run, transaction, history, FollowInv, Follows, Met
<1>2. ASSUME NEW t \in Runs, Kind(t)
      PROVE  FollowInv'
  BY <1>2, QuietFollow, AdvancesFollow, WriteRowFollow, PlanCommitFollow, AuctionCommitFollow
     DEF Kind, Runs
<1> QED
  BY <1>1, <1>2, WritePlanFollow, CrashFollow, Kinds

LEMMA FollowShows == FollowInv => AssessmentsFollowPlan
BY DEF FollowInv, Follows, Met, AssessmentsFollowPlan

-----------------------------------------------------------------------------
(* Assessed once, and all of a plan or none.                               *)

Opps == PlanRuns \X Opportunities

\* What a transaction changed is still what it was when it changed it.
Unmoved(t, x) ==
    /\ change[t][x] = "superseded" => table[x] = "active"
    /\ change[t][x] = "active" => table[x] = "draft"
SnapshotInv ==
    /\ \A t \in Runs : \A x \in Rows : Unmoved(t, x)
    /\ \A t \in Runs :
         step[t] \in {"judge", "replace"} => \A x \in Rows : change[t][x] # "active"

\* The items of a plan are all drafts or none is.
NoMixture(i, j) == i[1] = j[1] /\ table[i] = "draft" => table[j] \notin Shown
Activates(t, i) ==
    i[1] = t /\ View(t, i) = "draft" =>
        /\ step[t] \notin {"supersede", "clear", "commit"}
        /\ step[t] = "activate" /\ started[t] => i \in target[t]
PlanInv == /\ \A i, j \in Items : NoMixture(i, j)
           /\ \A t \in PlanRuns : \A i \in Items : Activates(t, i)

\* Assessments hang on items that have been published.
HangInv == \A x \in Assessments : table[x] # "none" => table[x[2]] \in Shown

\* An auction's drafts cover the active items of the plan they are about, it
\* publishes all of them, and touches no assessment of another item.
Judged(a) == step[a] \in {"replace", "publish", "commit"}
Covering(a) ==
    Judged(a) => \A i \in Drafts(a) : \A j \in Opps :
                    i[1] = j[1] /\ table[j] = "active" => j \in Drafts(a)
Publishes(a, x) ==
    x[1] = a /\ table[x] = "draft" /\ change[a][x] = "same" =>
        /\ step[a] # "commit"
        /\ step[a] = "publish" /\ started[a] => x \in target[a]
Within(a, x) ==
    change[a][x] # "same" \/ (step[a] = "replace" /\ x \in target[a]) => x[2] \in Drafts(a)
CoverInv == \A a \in AuctionRuns : /\ Covering(a)
                                   /\ \A x \in Assessments : Publishes(a, x) /\ Within(a, x)

\* A plan clears assessments of items it sees superseded.
ClearsOnly(t, x) ==
    change[t][x] # "same" \/ (step[t] = "clear" /\ x \in target[t]) => View(t, x[2]) = "superseded"
ClearInv == \A t \in PlanRuns : \A x \in Assessments : ClearsOnly(t, x)

\* The unique index.
Alone(t, x, y) ==
    change[t][x] = "active" /\ y[2] = x[2] /\ y # x =>
        /\ View(t, y) # "active"
        /\ \A u \in Runs : u # t => change[u][y] = "same"
UniqueInv ==
    /\ \A x, y \in Assessments : table[x] = "active" /\ table[y] = "active" /\ x[2] = y[2] => x = y
    /\ \A t \in AuctionRuns : \A x, y \in Assessments : Alone(t, x, y)

Assessed(i) == \E x \in Assessments : x[2] = i /\ table[x] = "active"
AllOrNone ==
    \A i, j \in Opps : i[1] = j[1] /\ table[i] = "active" /\ table[j] = "active" /\ Assessed(i)
                         => Assessed(j)

\* A draft is only ever written about an active item.
LEMMA NewDrafts ==
    ASSUME TypeOK, PhaseInv, NEW t \in Runs, Outside(t), NEW x \in Assessments,
           table[x] = "none", table'[x] # "none"
    PROVE  table[x[2]] = "active"
<1>1. x \in Rows
  BY RowKinds
<1>2. \A a \in Runs : WithoutDrafts(a)[x] = "none"
  BY <1>1 DEF WithoutDrafts
<1>3. CASE BeginAttempt(t) \/ Discard(t)
  BY <1>2, <1>3 DEF BeginAttempt, Discard
<1>4. CASE ReadContext(t) \/ Incomplete(t) \/ Settle(t) \/ Abort(t) \/ DiscardFails(t)
  BY <1>4 DEF ReadContext, Incomplete, Settle, Abort, DiscardFails
<1>5. CASE t \in AuctionRuns /\ WriteAssessments(t)
  <2>1. PICK given \in SUBSET (PlanRuns \X Opportunities) :
          /\ given = Expected(t)
          /\ table' = [y \in Rows |->
                         IF y \in Assessments /\ y[1] = t
                           THEN IF y[2] \in given THEN "draft" ELSE WithoutDrafts(t)[y]
                           ELSE table[y]]
    BY <1>5 DEF WriteAssessments, Complete
  <2>2. x[2] \in Expected(t)
    BY <1>1, <1>2, <2>1
  <2>3. View(t, x[2]) = "active"
    BY <2>2 DEF Expected
  <2>4. change[t][x[2]] = "same"
    BY <1>5, ChangeShape, RowKinds
  <2> QED
    BY <2>3, <2>4 DEF View
<1> QED
  BY <1>3, <1>4, <1>5 DEF Outside

\* What a run that is not booking has changed: nothing.
LEMMA ClosedIsUntouched ==
    ASSUME PhaseInv, NEW t \in Runs, step[t] \notin Booking
    PROVE  /\ \A x \in Rows : change[t][x] = "same"
           /\ target[t] = {} /\ ~started[t]
BY DEF PhaseInv, PhaseOf, Open, Untouched

\* How a step of run t changes a transaction's rows, when it is not a write.
LEMMA ChangeStays ==
    ASSUME TypeOK, PhaseInv, NEW t \in Runs, Kind(t)
    PROVE  \/ change'[t] = change[t]
           \/ \A x \in Rows : change'[t][x] = "same"
           \/ \E x \in Rows : WriteRow(t, x)
BY OutsideEffect, StartBookingEffect, AdvancesEffect, RollsBackEffect, CommitsEffect
   DEF Kind, Released

\* How a step of run t changes what is committed.
LEMMA TableStep ==
    ASSUME TypeOK, PhaseInv, NEW t \in Runs, Kind(t), NEW x \in Rows
    PROVE  \/ table'[x] = table[x]
           \/ /\ Outside(t) /\ x \in Assessments /\ x[1] = t
              /\ table[x] \in {"none", "draft"} /\ table'[x] \in {"none", "draft"}
           \/ /\ Commits(t) /\ step[t] = "commit"
              /\ change[t][x] \in Shown /\ table'[x] = change[t][x]
<1>1. CASE Outside(t)
  BY <1>1, OutsideEffect DEF DraftsOnly
<1>2. CASE StartBooking(t) \/ Advances(t) \/ RollsBack(t) \/ \E y \in Rows : WriteRow(t, y)
  BY <1>2, StartBookingEffect, AdvancesEffect, RollsBackEffect, WriteRowEffect
<1>3. CASE Commits(t)
  BY <1>3, CommitsEffect, ChangeShape DEF View, Shown
<1> QED
  BY <1>1, <1>2, <1>3 DEF Kind

-----------------------------------------------------------------------------
(* A transaction's snapshot: the rows it changed stay as they were.        *)

LEMMA InitSnapshot == Init => SnapshotInv
<1> SUFFICES ASSUME Init
             PROVE  SnapshotInv
  OBVIOUS
<1>1. \A t \in Runs : \A x \in Rows : change[t][x] = "same"
  BY DEF Init
<1> QED
  BY <1>1 DEF SnapshotInv, Unmoved

LEMMA WriteRowSnapshot ==
    ASSUME TypeOK, PhaseInv, SnapshotInv, NEW t \in Runs, NEW y \in Rows, WriteRow(t, y)
    PROVE  /\ \A x \in Rows : Unmoved(t, x)'
           /\ step'[t] \in {"judge", "replace"} => \A x \in Rows : change'[t][x] # "active"
<1>1. /\ table' = table
      /\ step[t] \in Statements /\ y \in target[t]
      /\ \A x \in Rows : x # y => change'[t][x] = change[t][x]
      /\ IF View(t, y) = From(step[t]) THEN change'[t][y] = Into(step[t])
         ELSE change'[t][y] = change[t][y]
      /\ step'[t] \in {step[t], After(step[t])}
  BY WriteRowEffect
<1>2. \A x \in Rows : Unmoved(t, x)
  BY DEF SnapshotInv
<1>3. change[t][y] \in {"same", "active", "superseded"}
  BY ChangeShape
<1>4. View(t, y) = From(step[t]) => change[t][y] = "same"
  <2>1. SUFFICES ASSUME View(t, y) = From(step[t]), change[t][y] # "same"
                 PROVE  FALSE
    OBVIOUS
  <2>2. change[t][y] = "active" /\ step[t] \notin {"activate", "publish"}
    BY <1>3, <2>1 DEF View, From
  <2>3. step[t] # "replace"
    BY <2>2 DEF SnapshotInv
  <2>4. step[t] # "supersede"
    BY <1>1, <2>2 DEF PhaseInv, ShapeOf
  <2>5. step[t] # "clear"
    BY <1>1, <2>2, ChangeShape DEF PhaseInv, PhaseOf, ShapeOf, PlanOnly
  <2> QED
    BY <1>1, <2>2, <2>3, <2>4, <2>5 DEF Statements
<1>5. Unmoved(t, y)'
  <2>1. CASE View(t, y) = From(step[t])
    <3>1. table[y] = From(step[t])
      BY <1>4, <2>1 DEF View
    <3> QED
      BY <1>1, <2>1, <3>1 DEF Unmoved, From, Into
  <2>2. CASE View(t, y) # From(step[t])
    BY <1>1, <1>2, <2>2 DEF Unmoved
  <2> QED
    BY <2>1, <2>2
<1>6. \A x \in Rows : Unmoved(t, x)'
  BY <1>1, <1>2, <1>5 DEF Unmoved
<1>7. step'[t] \in {"judge", "replace"} => step[t] = "replace"
  BY <1>1, AfterIs DEF Statements
<1> QED
  BY <1>1, <1>6, <1>7 DEF SnapshotInv, Into

LEMMA OneRunSnapshot ==
    ASSUME TypeOK, PhaseInv, SnapshotInv, NEW t \in Runs, Kind(t)
    PROVE  SnapshotInv'
<1>1. \A u \in Runs : u # t => Rests(u)
  BY OthersRest
<1>2. \A u \in Runs : \A x \in Rows : Unmoved(u, x)
  BY DEF SnapshotInv
<1>3. ASSUME NEW u \in Runs, u # t, NEW x \in Rows
      PROVE  Unmoved(u, x)'
  <2>1. CASE change[u][x] = "same"
    BY <1>1, <1>3, <2>1 DEF Rests, Unmoved
  <2>2. CASE change[u][x] # "same"
    <3>1. change[t][x] = "same"
      BY <1>3, <2>2 DEF PhaseInv, RowLocks
    <3>2. table'[x] = table[x]
      <4>1. SUFFICES ASSUME x \in Assessments, x[1] = t, table[x] \in {"none", "draft"}
                     PROVE  FALSE
        BY <3>1, TableStep DEF Shown
      <4>2. change[u][x] = "active"
        BY <1>2, <2>2, <4>1, ChangeShape DEF Unmoved
      <4> QED
        BY <1>3, <4>1, <4>2, ChangeShape
    <3> QED
      BY <1>1, <1>2, <1>3, <3>2 DEF Rests, Unmoved
  <2> QED
    BY <2>1, <2>2
<1>4. /\ \A x \in Rows : Unmoved(t, x)'
      /\ step'[t] \in {"judge", "replace"} => \A x \in Rows : change'[t][x] # "active"
  <2>1. CASE \E y \in Rows : WriteRow(t, y)
    BY <2>1, WriteRowSnapshot
  <2>2. CASE Outside(t) \/ StartBooking(t)
    <3>1. step[t] \notin Booking /\ change' = change
      BY <2>2, OutsideEffect, StartBookingEffect DEF Booking
    <3> QED
      BY <3>1, ClosedIsUntouched DEF Unmoved
  <2>3. CASE RollsBack(t) \/ Commits(t)
    BY <2>3, RollsBackEffect, CommitsEffect DEF Unmoved
  <2>4. CASE Advances(t)
    <3>1. change' = change /\ table' = table
      BY <2>4, AdvancesEffect
    <3>2. \/ step[t] \in Statements /\ step'[t] \in {step[t], After(step[t])}
          \/ step[t] = "judge"
      BY <2>4, AdvancesEffect
    <3>3. step'[t] \in {"judge", "replace"} => step[t] \in {"judge", "replace"}
      BY <3>2, AfterIs DEF Statements
    <3> QED
      BY <1>2, <3>1, <3>3 DEF SnapshotInv, Unmoved
  <2> QED
    BY <2>1, <2>2, <2>3, <2>4 DEF Kind
<1>5. \A u \in Runs : step'[u] \in {"judge", "replace"} => \A x \in Rows : change'[u][x] # "active"
  BY <1>1, <1>4 DEF SnapshotInv, Rests
<1> QED
  BY <1>3, <1>4, <1>5 DEF SnapshotInv

LEMMA StepSnapshot ==
    ASSUME TypeOK, PhaseInv, SnapshotInv, [Next]_vars
    PROVE  SnapshotInv'
<1>1. CASE UNCHANGED vars
  BY <1>1 DEF vars, run, transaction, SnapshotInv, Unmoved
<1>2. ASSUME NEW p \in PlanRuns, WritePlan(p)
      PROVE  SnapshotInv'
  <2>1. /\ UNCHANGED <<step, change>> /\ p \in Runs /\ step[p] \in {"started", "working"}
        /\ \A u \in Runs : u # p => \A x \in OfPlan(p) : change[u][x] = "same"
        /\ \A x \in Rows : x \notin OfPlan(p) => table'[x] = table[x]
    BY <1>2, WritePlanEffect
  <2>2. \A x \in Rows : change[p][x] = "same"
    BY <2>1, ClosedIsUntouched DEF Booking
  <2> QED
    BY <2>1, <2>2 DEF SnapshotInv, Unmoved
<1>3. CASE Crash
  BY <1>3, CrashEffect DEF SnapshotInv, Unmoved
<1> QED
  BY <1>1, <1>2, <1>3, OneRunSnapshot, Kinds

-----------------------------------------------------------------------------
(* A plan's items are published together, and assessments hang on them.    *)

LEMMA InitPlan == Init => PlanInv /\ HangInv
<1> SUFFICES ASSUME Init
             PROVE  PlanInv /\ HangInv
  OBVIOUS
<1>1. \A x \in Rows : table[x] = "none"
  BY DEF Init
<1>2. \A t \in Runs : \A x \in Rows : change[t][x] = "same"
  BY DEF Init
<1> QED
  BY <1>1, <1>2, RowKinds DEF PlanInv, HangInv, NoMixture, Activates, View, Shown, Runs

LEMMA CommitNoMixture ==
    ASSUME TypeOK, PhaseInv, SnapshotInv, PlanInv, NEW t \in Runs, Commits(t),
           NEW i \in Items, NEW j \in Items
    PROVE  NoMixture(i, j)'
<1>1. step[t] = "commit" /\ \A x \in Rows : table'[x] = View(t, x)
  BY CommitsEffect
<1>2. \A x \in Rows : /\ Unmoved(t, x)
                      /\ change[t][x] \in {"same", "active", "superseded"}
  BY ChangeShape DEF SnapshotInv
<1>3. i \in Rows /\ j \in Rows /\ i[1] \in PlanRuns
  BY RowKinds
<1>4. SUFFICES ASSUME i[1] = j[1], table'[i] = "draft", table'[j] \in Shown
               PROVE  FALSE
  BY DEF NoMixture
<1>5. View(t, i) = "draft" /\ table[i] = "draft"
  BY <1>1, <1>2, <1>3, <1>4 DEF View
<1>6. table[j] \notin Shown
  BY <1>4, <1>5 DEF PlanInv, NoMixture
<1>7. change[t][j] = "active"
  BY <1>1, <1>2, <1>3, <1>4, <1>6 DEF View, Unmoved, Shown
<1>8. j[1] = t
  BY <1>7 DEF PhaseInv, ShapeOf
<1> QED
  BY <1>1, <1>3, <1>4, <1>5, <1>8 DEF PlanInv, Activates

\* What a plan's own statements leave of its drafts.
LEMMA OwnActivates ==
    ASSUME TypeOK, PhaseInv, PlanInv, NEW t \in PlanRuns, t \in Runs, NEW i \in Items,
           Advances(t) \/ \E y \in Rows : WriteRow(t, y)
    PROVE  Activates(t, i)'
<1>1. Activates(t, i) /\ i \in Rows
  BY RowKinds DEF PlanInv
<1>2. SUFFICES ASSUME i[1] = t, View(t, i)' = "draft"
               PROVE  /\ step'[t] \notin {"supersede", "clear", "commit"}
                      /\ step'[t] = "activate" /\ started'[t] => i \in target'[t]
  BY DEF Activates
<1>3. step[t] \in Statements => step[t] \in PlanOnly
  BY PublicationAssumption DEF PhaseInv, PhaseOf, Statements, PlanOnly, AuctionOnly
<1>4. CASE Advances(t)
  <2>1. /\ UNCHANGED <<table, change>>
        /\ \/ /\ step[t] \in Statements /\ ~started[t] /\ Found(t) = {}
              /\ step'[t] = After(step[t])
           \/ /\ step[t] \in Statements /\ ~started[t] /\ step'[t] = step[t]
              /\ started'[t] = TRUE /\ target'[t] = Found(t)
           \/ /\ step[t] \in Statements /\ started[t] /\ target[t] = {}
              /\ step'[t] = After(step[t])
    BY <1>4, PublicationAssumption, AdvancesEffect
  <2>2. View(t, i) = "draft"
    BY <1>2, <2>1 DEF View
  <2>3. step[t] = "activate" => i \in Found(t)
    BY <1>2, <2>2 DEF Found
  <2>4. step[t] = "activate" /\ (started[t] => i \in target[t])
    BY <1>1, <1>2, <1>3, <2>1, <2>2 DEF Activates, PlanOnly
  <2> QED
    BY <2>1, <2>3, <2>4
<1>5. ASSUME NEW y \in Rows, WriteRow(t, y)
      PROVE  /\ step'[t] \notin {"supersede", "clear", "commit"}
             /\ step'[t] = "activate" /\ started'[t] => i \in target'[t]
  <2>1. /\ table' = table
        /\ step[t] \in Statements /\ started[t] /\ y \in target[t]
        /\ \A x \in Rows : x # y => change'[t][x] = change[t][x]
        /\ IF View(t, y) = From(step[t]) THEN change'[t][y] = Into(step[t])
           ELSE change'[t][y] = change[t][y]
        /\ target'[t] = target[t] \ {y}
        /\ IF target[t] = {y} THEN ~started'[t] /\ step'[t] = After(step[t])
           ELSE started'[t] /\ step'[t] = step[t]
    BY <1>5, WriteRowEffect
  <2>2. View(t, i) = "draft" /\ (i = y => View(t, y) # From(step[t]))
    <3>1. CASE i # y
      BY <1>1, <1>2, <2>1, <3>1 DEF View
    <3>2. CASE i = y
      <4>1. Into(step[t]) \notin {"same", "draft"}
        BY DEF Into
      <4>2. View(t, y) # From(step[t])
        BY <1>2, <2>1, <3>2, <4>1 DEF View
      <4> QED
        BY <1>2, <2>1, <3>2, <4>2 DEF View
    <3> QED
      BY <3>1, <3>2
  <2>3. step[t] = "activate" /\ i \in target[t]
    BY <1>1, <1>2, <1>3, <2>1, <2>2 DEF Activates, PlanOnly
  <2>4. i # y
    BY <2>2, <2>3 DEF From
  <2> QED
    BY <2>1, <2>3, <2>4
<1> QED
  BY <1>4, <1>5

LEMMA OneRunPlan ==
    ASSUME TypeOK, PhaseInv, SnapshotInv, PlanInv, HangInv, NEW t \in Runs, Kind(t)
    PROVE  PlanInv' /\ HangInv'
<1>1. \A u \in Runs : u # t => Rests(u)
  BY OthersRest
<1>2. \A i \in Items : i \in Rows /\ i \notin Assessments /\ i[1] \in PlanRuns
  BY RowKinds
<1>3. \A i, j \in Items : NoMixture(i, j)'
  <2>1. CASE Commits(t)
    BY <2>1, CommitNoMixture
  <2>2. CASE ~Commits(t)
    <3>1. \A i \in Items : table'[i] = table[i]
      BY <1>2, <2>2, TableStep
    <3> QED
      BY <3>1 DEF PlanInv, NoMixture
  <2> QED
    BY <2>1, <2>2
<1>4. ASSUME NEW p \in PlanRuns, NEW i \in Items
      PROVE  Activates(p, i)'
  <2>1. CASE p # t
    <3>1. p \in Runs /\ Rests(p) /\ Activates(p, i)
      BY <1>1, <1>4, <2>1 DEF PlanInv, Runs
    <3>2. View(p, i)' = "draft" => View(p, i) = "draft"
      BY <1>2, <3>1, TableStep DEF View, Rests, Shown
    <3> QED
      BY <3>1, <3>2 DEF Activates, Rests
  <2>2. CASE p = t
    <3>1. CASE Outside(t) \/ RollsBack(t) \/ Commits(t)
      <4>1. step'[t] \notin Booking
        BY <3>1, OutsideEffect, RollsBackEffect, CommitsEffect DEF Booking
      <4> QED
        BY <2>2, <4>1 DEF Activates, Booking
    <3>2. CASE StartBooking(t)
      <4>1. step[t] = "working" /\ step'[t] = "activate" /\ started' = started
        BY <2>2, <3>2, StartBookingEffect
      <4>2. ~started[t]
        BY <4>1, ClosedIsUntouched DEF Booking
      <4> QED
        BY <2>2, <4>1, <4>2 DEF Activates
    <3>3. CASE Advances(t) \/ \E y \in Rows : WriteRow(t, y)
      BY <2>2, <3>3, OwnActivates
    <3> QED
      BY <3>1, <3>2, <3>3 DEF Kind
  <2> QED
    BY <2>1, <2>2
<1>5. ASSUME NEW x \in Assessments, table'[x] # "none"
      PROVE  table'[x[2]] \in Shown
  <2>1. x \in Rows /\ x[2] \in Rows /\ x[2] \in Items
    BY RowKinds
  <2>2. table[x[2]] \in Shown
    <3>1. CASE table[x] # "none"
      BY <3>1 DEF HangInv
    <3>2. CASE table[x] = "none"
      <4>1. Outside(t)
        <5>1. Unmoved(t, x)
          BY <2>1 DEF SnapshotInv
        <5> QED
          BY <1>5, <2>1, <3>2, <5>1, TableStep DEF Unmoved, Shown
      <4> QED
        BY <1>5, <3>2, <4>1, NewDrafts DEF Shown
    <3> QED
      BY <3>1, <3>2
  <2> QED
    BY <1>2, <2>1, <2>2, TableStep
<1> QED
  BY <1>3, <1>4, <1>5 DEF PlanInv, HangInv

LEMMA StepPlan ==
    ASSUME TypeOK, PhaseInv, SnapshotInv, PlanInv, HangInv, [Next]_vars
    PROVE  PlanInv' /\ HangInv'
<1>1. CASE UNCHANGED vars
  BY <1>1 DEF vars, run, transaction, PlanInv, HangInv, NoMixture, Activates, View
<1>2. ASSUME NEW p \in PlanRuns, WritePlan(p)
      PROVE  PlanInv' /\ HangInv'
  <2>1. /\ UNCHANGED <<step, change, started>> /\ step[p] \in {"started", "working"}
        /\ \A x \in Rows : IF x \in OfPlan(p) THEN table'[x] \in {"none", "draft"}
                                             ELSE table'[x] = table[x]
        /\ \A x \in Assessments : x \in OfPlan(p) => table'[x] = "none"
        /\ \A u \in Runs : target'[u] = target[u] \ OfPlan(p)
    BY <1>2, WritePlanEffect
  <2>2. /\ \A i \in Items : i \in Rows /\ (i \in OfPlan(p) <=> i[1] = p)
        /\ \A x \in Assessments : /\ x \in Rows /\ x[2] \in Rows
                                  /\ x \in OfPlan(p) <=> x[2] \in OfPlan(p)
    BY RowKinds DEF OfPlan
  <2>3. \A i, j \in Items : NoMixture(i, j)'
    BY <2>1, <2>2 DEF PlanInv, NoMixture, Shown
  <2>4. ASSUME NEW t \in PlanRuns, NEW i \in Items
        PROVE  Activates(t, i)'
    <3>1. CASE t = p
      BY <2>1, <3>1 DEF Activates
    <3>2. CASE t # p
      BY <2>1, <2>2, <3>2 DEF PlanInv, Activates, View, Runs
    <3> QED
      BY <3>1, <3>2
  <2>5. HangInv'
    BY <2>1, <2>2 DEF HangInv
  <2> QED
    BY <2>3, <2>4, <2>5 DEF PlanInv
<1>3. CASE Crash
  <2>1. table' = table /\ \A t \in Runs : step'[t] \in {"queued", "over"}
    BY <1>3, CrashEffect
  <2> QED
    BY <2>1 DEF PlanInv, HangInv, NoMixture, Activates, Runs
<1> QED
  BY <1>1, <1>2, <1>3, OneRunPlan, Kinds

-----------------------------------------------------------------------------
(* What an auction run judged is what it publishes.                        *)

LEMMA DraftsAre ==
    ASSUME NEW a \in AuctionRuns
    PROVE  /\ \A x \in Assessments : x[1] = a => (x[2] \in Drafts(a) <=> table[x] = "draft")
           /\ \A i \in Opps : /\ <<a, i>> \in Assessments /\ <<a, i>>[1] = a /\ <<a, i>>[2] = i
                              /\ i \in Drafts(a) <=> table[<<a, i>>] = "draft"
           /\ Drafts(a) \subseteq Opps
           /\ Drafts(a) \subseteq Items /\ Opps \subseteq Items
BY RowKinds, PublicationAssumption DEF Drafts, Opps, Assessments, Items

LEMMA DraftsAreNext ==
    ASSUME NEW a \in AuctionRuns
    PROVE  /\ \A x \in Assessments : x[1] = a => (x[2] \in Drafts(a)' <=> table'[x] = "draft")
           /\ \A i \in Opps : i \in Drafts(a)' <=> table'[<<a, i>>] = "draft"
           /\ Drafts(a)' \subseteq Opps
BY RowKinds DEF Drafts, Opps

\* No step of another run touches an auction run's drafts, nor does its own
\* transaction before it commits.
LEMMA DraftsStay ==
    ASSUME TypeOK, PhaseInv, SnapshotInv, NEW t \in Runs, Kind(t), NEW a \in AuctionRuns,
           a # t \/ (~Outside(t) /\ ~Commits(t)), NEW x \in Assessments, x[1] = a
    PROVE  table'[x] = "draft" <=> table[x] = "draft"
<1>1. x \in Rows
  BY RowKinds
<1>2. change[t][x] = "active" => x[1] = t
  BY ChangeShape
<1>3. Unmoved(t, x)
  BY <1>1 DEF SnapshotInv
<1> QED
  BY <1>1, <1>2, <1>3, TableStep DEF Unmoved, Shown

LEMMA DraftsSame ==
    ASSUME TypeOK, PhaseInv, SnapshotInv, NEW t \in Runs, Kind(t), NEW a \in AuctionRuns,
           a # t \/ (~Outside(t) /\ ~Commits(t))
    PROVE  Drafts(a)' = Drafts(a)
<1>1. \A i \in Opps : table'[<<a, i>>] = "draft" <=> table[<<a, i>>] = "draft"
  BY DraftsStay, DraftsAre
<1> QED
  BY <1>1 DEF Drafts, Opps

LEMMA InitCover == Init => CoverInv /\ ClearInv
<1> SUFFICES ASSUME Init
             PROVE  CoverInv /\ ClearInv
  OBVIOUS
<1>1. \A t \in Runs : step[t] \in {"queued", "over"} /\ \A x \in Rows : change[t][x] = "same"
  BY DEF Init
<1> QED
  BY <1>1, RowKinds
     DEF CoverInv, Covering, Publishes, Within, ClearInv, ClearsOnly, Judged, Runs

\* The items an auction run judged stay all the active ones of their plan: an
\* item becomes active with all of its plan, when none can have assessments.
LEMMA CoveringStays ==
    ASSUME TypeOK, PhaseInv, SnapshotInv, PlanInv, HangInv, CoverInv,
           NEW t \in Runs, Kind(t), NEW a \in AuctionRuns
    PROVE  Covering(a)'
<1>1. Covering(a)
  BY DEF CoverInv
<1>2. CASE a = t
  <2>1. CASE Outside(t) \/ RollsBack(t) \/ Commits(t)
    BY <1>2, <2>1, OutsideEffect, RollsBackEffect, CommitsEffect DEF Covering, Judged, Booking
  <2>2. CASE StartBooking(t)
    BY <1>2, <2>2, StartBookingEffect, PublicationAssumption DEF Covering, Judged
  <2>3. CASE Advances(t) \/ \E y \in Rows : WriteRow(t, y)
    <3>1. table' = table
      BY <2>3, AdvancesEffect, WriteRowEffect
    <3>2. Drafts(a)' = Drafts(a)
      BY <3>1 DEF Drafts
    <3>3. CASE Judged(a)
      BY <1>1, <3>1, <3>2, <3>3 DEF Covering
    <3>4. CASE ~Judged(a)
      <4>1. step[t] \notin Statements
        BY <1>2, <3>4, PublicationAssumption
           DEF PhaseInv, PhaseOf, Statements, PlanOnly, AuctionOnly, Judged
      <4>2. Advances(t)
        BY <2>3, <4>1, WriteRowEffect
      <4>3. IF t \in closed THEN Drafts(t) = {} ELSE Drafts(t) = Expected(t)
        BY <4>1, <4>2, AdvancesEffect
      <4>4. ASSUME NEW i \in Drafts(a), NEW j \in Opps, i[1] = j[1], table[j] = "active"
            PROVE  j \in Drafts(a)
        <5>1. Drafts(a) = Expected(a)
          BY <1>2, <4>3, <4>4
        <5>2. Latest(j[1])
          BY <4>4, <5>1 DEF Expected
        <5>3. View(a, j) = "active"
          BY <4>4, ChangeShape, DraftsAre DEF View, Runs
        <5> QED
          BY <5>1, <5>2, <5>3 DEF Expected, Opps
      <4> QED
        BY <3>1, <3>2, <4>4 DEF Covering
    <3> QED
      BY <3>3, <3>4
  <2> QED
    BY <2>1, <2>2, <2>3 DEF Kind
<1>3. CASE a # t
  <2>1. Rests(a) /\ Drafts(a)' = Drafts(a)
    BY <1>3, OthersRest, DraftsSame DEF Runs
  <2>2. SUFFICES ASSUME Judged(a), NEW i \in Drafts(a), NEW j \in Opps, i[1] = j[1],
                        table'[j] = "active"
                 PROVE  j \in Drafts(a)
    BY <2>1 DEF Covering, Judged, Rests
  <2>3. i \in Items /\ j \in Items /\ j \in Rows /\ j \notin Assessments
    BY DraftsAre, RowKinds
  <2>4. CASE table[j] = "active"
    BY <1>1, <2>2, <2>4 DEF Covering
  <2>5. CASE table[j] # "active"
    <3>1. change[t][j] = "active"
      BY <2>2, <2>3, <2>5, TableStep
    <3>2. table[j] = "draft"
      BY <2>3, <3>1 DEF SnapshotInv, Unmoved
    <3>3. table[i] \in Shown
      <4>1. <<a, i>> \in Assessments /\ <<a, i>>[2] = i /\ table[<<a, i>>] = "draft"
        BY DraftsAre
      <4> QED
        BY <4>1 DEF HangInv
    <3> QED
      BY <2>2, <2>3, <3>2, <3>3 DEF PlanInv, NoMixture
  <2> QED
    BY <2>4, <2>5
<1> QED
  BY <1>2, <1>3

LEMMA PublishesStays ==
    ASSUME TypeOK, PhaseInv, SnapshotInv, CoverInv, NEW t \in Runs, Kind(t),
           NEW a \in AuctionRuns, NEW x \in Assessments
    PROVE  Publishes(a, x)'
<1>1. Publishes(a, x) /\ x \in Rows /\ a \in Runs /\ a \notin PlanRuns
  BY RowKinds, PublicationAssumption DEF CoverInv, Runs
<1>2. CASE a # t
  <2>1. Rests(a)
    BY <1>1, <1>2, OthersRest
  <2>2. x[1] = a /\ table'[x] = "draft" => table[x] = "draft"
    BY <1>2, DraftsStay
  <2> QED
    BY <1>1, <2>1, <2>2 DEF Publishes, Rests
<1>3. CASE a = t
  <2>1. CASE Outside(t) \/ RollsBack(t) \/ Commits(t)
    BY <1>3, <2>1, OutsideEffect, RollsBackEffect, CommitsEffect DEF Publishes, Booking
  <2>2. CASE StartBooking(t)
    BY <1>1, <1>3, <2>2, StartBookingEffect DEF Publishes
  <2>3. SUFFICES ASSUME Advances(t) \/ \E y \in Rows : WriteRow(t, y),
                        x[1] = t, table'[x] = "draft", change'[t][x] = "same"
                 PROVE  /\ step'[t] # "commit"
                        /\ step'[t] = "publish" /\ started'[t] => x \in target'[t]
    BY <1>3, <2>1, <2>2 DEF Publishes, Kind
  <2>4. step[t] \in Statements => step[t] \in {"replace", "publish"}
    BY <1>1, <1>3 DEF PhaseInv, PhaseOf, Statements, PlanOnly
  <2>5. CASE Advances(t)
    <3>1. table' = table /\ change' = change
      BY <2>5, AdvancesEffect
    <3>2. View(t, x) = "draft" /\ x[2] \in Drafts(t)
      BY <1>3, <2>3, <3>1, DraftsAre DEF View
    <3>3. step[t] = "publish" => x \in Found(t)
      BY <2>3, <3>2 DEF Found
    <3>4. step[t] # "commit" /\ (step[t] = "publish" /\ started[t] => x \in target[t])
      BY <1>1, <1>3, <2>3, <3>1 DEF Publishes
    <3>5. \/ /\ step[t] \in Statements /\ ~started[t] /\ Found(t) = {}
             /\ step'[t] = After(step[t]) /\ UNCHANGED <<started, target>>
          \/ /\ step[t] \in Statements /\ ~started[t] /\ step'[t] = step[t]
             /\ started'[t] = TRUE /\ target'[t] = Found(t)
          \/ /\ step[t] \in Statements /\ started[t] /\ target[t] = {}
             /\ step'[t] = After(step[t]) /\ ~started'[t] /\ target'[t] = {}
          \/ step'[t] = IF Drafts(t) = {} THEN "commit" ELSE "replace"
      BY <2>5, AdvancesEffect
    <3> QED
      BY <2>4, <3>2, <3>3, <3>4, <3>5, AfterIs
  <2>6. ASSUME NEW y \in Rows, WriteRow(t, y)
        PROVE  /\ step'[t] # "commit"
               /\ step'[t] = "publish" /\ started'[t] => x \in target'[t]
    <3>1. /\ table' = table
          /\ step[t] \in Statements /\ started[t] /\ y \in target[t]
          /\ \A z \in Rows : z # y => change'[t][z] = change[t][z]
          /\ IF View(t, y) = From(step[t]) THEN change'[t][y] = Into(step[t])
             ELSE change'[t][y] = change[t][y]
          /\ target'[t] = target[t] \ {y}
          /\ IF target[t] = {y} THEN ~started'[t] /\ step'[t] = After(step[t])
             ELSE started'[t] /\ step'[t] = step[t]
      BY <2>6, WriteRowEffect
    <3>2. Into(step[t]) # "same"
      BY DEF Into
    <3>3. change[t][x] = "same" /\ table[x] = "draft"
      BY <1>1, <2>3, <3>1, <3>2
    <3>4. step[t] = "publish" => x \in target[t] /\ x # y
      <4>1. step[t] = "publish" => x \in target[t]
        BY <1>1, <1>3, <2>3, <3>1, <3>3 DEF Publishes
      <4>2. step[t] = "publish" /\ x = y => FALSE
        BY <2>3, <3>1, <3>2, <3>3 DEF View, From
      <4> QED
        BY <4>1, <4>2
    <3>5. CASE step[t] = "publish"
      BY <3>1, <3>4, <3>5, AfterIs
    <3>6. CASE step[t] = "replace"
      BY <3>1, <3>6, AfterIs
    <3> QED
      BY <2>4, <3>1, <3>5, <3>6
  <2> QED
    BY <2>3, <2>5, <2>6
<1> QED
  BY <1>2, <1>3

LEMMA WithinStays ==
    ASSUME TypeOK, PhaseInv, SnapshotInv, CoverInv, NEW t \in Runs, Kind(t),
           NEW a \in AuctionRuns, NEW x \in Assessments
    PROVE  Within(a, x)'
<1>1. Within(a, x) /\ x \in Rows /\ a \in Runs /\ a \notin PlanRuns
  BY RowKinds, PublicationAssumption DEF CoverInv, Runs
<1>2. CASE a # t
  <2>1. Rests(a) /\ Drafts(a)' = Drafts(a)
    BY <1>1, <1>2, OthersRest, DraftsSame
  <2> QED
    BY <1>1, <2>1 DEF Within, Rests
<1>3. CASE a = t
  <2>1. CASE Outside(t) \/ StartBooking(t)
    <3>1. /\ step[t] \notin Booking /\ change' = change /\ target' = target
      BY <2>1, OutsideEffect, StartBookingEffect DEF Booking
    <3> QED
      BY <1>1, <1>3, <3>1, ClosedIsUntouched DEF Within
  <2>2. CASE RollsBack(t) \/ Commits(t)
    BY <1>1, <1>3, <2>2, RollsBackEffect, CommitsEffect DEF Within
  <2>3. CASE Advances(t)
    <3>1. table' = table /\ change' = change
      BY <2>3, AdvancesEffect
    <3>2. Drafts(a)' = Drafts(a)
      BY <3>1 DEF Drafts
    <3>3. step'[t] = "replace" /\ x \in target'[t] =>
            x[2] \in Drafts(t) \/ (step[t] = "replace" /\ x \in target[t])
      <4>1. step[t] = "replace" => Found(t) \subseteq {y \in Assessments : y[2] \in Drafts(t)}
        BY DEF Found
      <4>2. ~started[t] => target[t] = {}
        BY <1>1, <1>3 DEF PhaseInv, PhaseOf
      <4>3. step[t] = "judge" => ~started[t]
        BY <1>1, <1>3 DEF PhaseInv, PhaseOf, Statements
      <4> QED
        BY <2>3, <4>1, <4>2, <4>3, AdvancesEffect, AfterIs DEF Statements
    <3> QED
      BY <1>1, <1>3, <3>1, <3>2, <3>3 DEF Within
  <2>4. ASSUME NEW y \in Rows, WriteRow(t, y)
        PROVE  Within(a, x)'
    <3>1. /\ table' = table
          /\ step[t] \in Statements /\ y \in target[t]
          /\ \A z \in Rows : z # y => change'[t][z] = change[t][z]
          /\ IF View(t, y) = From(step[t]) THEN change'[t][y] = Into(step[t])
             ELSE change'[t][y] = change[t][y]
          /\ target'[t] = target[t] \ {y}
          /\ step'[t] \in {step[t], After(step[t])}
      BY <2>4, WriteRowEffect
    <3>2. Drafts(a)' = Drafts(a)
      BY <3>1 DEF Drafts
    <3>3. step[t] \in {"replace", "publish"}
      BY <1>1, <1>3, <3>1 DEF PhaseInv, PhaseOf, Statements, PlanOnly
    <3>4. change'[t][x] # "same" => x[2] \in Drafts(t)
      <4>1. CASE change[t][x] # "same"
        BY <1>1, <1>3, <4>1 DEF Within
      <4>2. CASE change[t][x] = "same" /\ change'[t][x] # "same"
        <5>1. x = y /\ View(t, x) = From(step[t]) /\ table[x] = From(step[t])
          BY <1>1, <3>1, <4>2 DEF View
        <5>2. CASE step[t] = "replace"
          BY <1>1, <1>3, <3>1, <5>1, <5>2 DEF Within
        <5>3. CASE step[t] = "publish"
          <6>1. x[1] = t /\ table[x] = "draft"
            BY <1>1, <1>3, <3>1, <5>1, <5>3 DEF PhaseInv, ShapeOf, From
          <6> QED
            BY <1>3, <6>1, DraftsAre
        <5> QED
          BY <3>3, <5>2, <5>3
      <4> QED
        BY <4>1, <4>2
    <3>5. step'[t] = "replace" /\ x \in target'[t] => x[2] \in Drafts(t)
      BY <1>1, <1>3, <3>1, <3>3, AfterIs DEF Within
    <3> QED
      BY <1>3, <3>2, <3>4, <3>5 DEF Within
  <2> QED
    BY <2>1, <2>2, <2>3, <2>4 DEF Kind
<1> QED
  BY <1>2, <1>3

LEMMA WritePlanCover ==
    ASSUME TypeOK, PhaseInv, CoverInv, NEW p \in PlanRuns, WritePlan(p)
    PROVE  CoverInv'
<1>1. /\ UNCHANGED <<step, change, started>>
      /\ \A u \in Runs : u # p => \A x \in OfPlan(p) : change[u][x] = "same"
      /\ \A x \in Rows : IF x \in OfPlan(p) THEN table'[x] \in {"none", "draft"}
                                           ELSE table'[x] = table[x]
      /\ \A x \in Assessments : x \in OfPlan(p) => table'[x] = "none"
      /\ \A u \in Runs : target'[u] = target[u] \ OfPlan(p)
  BY WritePlanEffect
<1>2. SUFFICES ASSUME NEW a \in AuctionRuns
               PROVE  Covering(a)' /\ \A x \in Assessments : Publishes(a, x)' /\ Within(a, x)'
  BY DEF CoverInv
<1>3. a \in Runs /\ a # p
  BY PublicationAssumption DEF Runs
<1>4. \A i \in Opps : /\ i \in Rows /\ i \in Items /\ <<a, i>> \in Rows /\ <<a, i>> \in Assessments
                      /\ i \in OfPlan(p) <=> i[1] = p
                      /\ <<a, i>> \in OfPlan(p) <=> i[1] = p
  BY DraftsAre, RowKinds DEF OfPlan
<1>5. ASSUME NEW i \in Opps
      PROVE  i \in Drafts(a)' <=> i \in Drafts(a) /\ i[1] # p
  <2>1. /\ i \in Drafts(a)' <=> table'[<<a, i>>] = "draft"
        /\ i \in Drafts(a) <=> table[<<a, i>>] = "draft"
    BY DraftsAre, DraftsAreNext
  <2>2. table'[<<a, i>>] = IF i[1] = p THEN "none" ELSE table[<<a, i>>]
    BY <1>1, <1>4
  <2> QED
    BY <2>1, <2>2
<1>6. Covering(a)'
  <2>1. SUFFICES ASSUME Judged(a), NEW i \in Drafts(a)', NEW j \in Opps, i[1] = j[1],
                        table'[j] = "active"
                 PROVE  j \in Drafts(a)'
    BY <1>1 DEF Covering, Judged
  <2>2. i \in Opps /\ i \in Drafts(a) /\ i[1] # p
    BY <1>5, DraftsAreNext
  <2>3. table[j] = "active"
    BY <1>1, <1>4, <2>1, <2>2
  <2> QED
    BY <1>2, <1>5, <2>1, <2>2, <2>3 DEF CoverInv, Covering
<1>7. ASSUME NEW x \in Assessments
      PROVE  Publishes(a, x)' /\ Within(a, x)'
  <2>1. Publishes(a, x) /\ Within(a, x) /\ x \in Rows /\ x[2] \in Opps
    BY RowKinds DEF CoverInv, Opps
  <2>2. CASE x \in OfPlan(p)
    BY <1>1, <1>3, <2>2 DEF Publishes, Within
  <2>3. CASE x \notin OfPlan(p)
    <3>1. x[2][1] # p
      BY <2>3 DEF OfPlan
    <3> QED
      BY <1>1, <1>3, <1>5, <2>1, <2>3, <3>1 DEF Publishes, Within
  <2> QED
    BY <2>2, <2>3
<1> QED
  BY <1>6, <1>7

LEMMA StepCover ==
    ASSUME TypeOK, PhaseInv, SnapshotInv, PlanInv, HangInv, CoverInv, [Next]_vars
    PROVE  CoverInv'
<1>1. CASE UNCHANGED vars
  <2>1. UNCHANGED <<table, step, change, started, target>>
    BY <1>1 DEF vars, run, transaction
  <2>2. \A a \in AuctionRuns : Drafts(a)' = Drafts(a)
    BY <2>1 DEF Drafts
  <2> QED
    BY <2>1, <2>2 DEF CoverInv, Covering, Publishes, Within, Judged
<1>2. CASE Crash
  <2>1. \A t \in Runs : /\ \A x \in Rows : change'[t][x] = "same"
                        /\ step'[t] \in {"queued", "over"}
    BY <1>2, CrashEffect
  <2> QED
    BY <2>1, RowKinds DEF CoverInv, Covering, Publishes, Within, Judged, Runs
<1>3. ASSUME NEW t \in Runs, Kind(t)
      PROVE  CoverInv'
  BY <1>3, CoveringStays, PublishesStays, WithinStays DEF CoverInv
<1> QED
  BY <1>1, <1>2, <1>3, WritePlanCover, Kinds

-----------------------------------------------------------------------------
(* A plan's transaction clears what hangs on what it superseded.           *)

\* What a transaction sees superseded stays so until it ends.
LEMMA SupersededStays ==
    ASSUME TypeOK, PhaseInv, SnapshotInv, NEW t \in Runs, Kind(t), NEW u \in Runs,
           u # t \/ Advances(t) \/ (\E y \in Rows : WriteRow(t, y)),
           NEW i \in Items, View(u, i) = "superseded"
    PROVE  View(u, i)' = "superseded"
<1>1. i \in Rows /\ i \notin Assessments
  BY RowKinds
<1>2. CASE u # t
  <2>1. change'[u] = change[u]
    BY <1>2, OthersRest DEF Rests
  <2>2. change[u][i] = "same" => table'[i] = table[i]
    <3>1. Unmoved(t, i)
      BY <1>1 DEF SnapshotInv
    <3> QED
      BY <1>1, <3>1, TableStep DEF View, Unmoved, Shown
  <2> QED
    BY <2>1, <2>2 DEF View
<1>3. CASE Advances(t) /\ u = t
  BY <1>3, AdvancesEffect DEF View
<1>4. ASSUME NEW y \in Rows, WriteRow(t, y), u = t
      PROVE  View(u, i)' = "superseded"
  <2>1. /\ table' = table
        /\ \A z \in Rows : z # y => change'[t][z] = change[t][z]
        /\ IF View(t, y) = From(step[t]) THEN change'[t][y] = Into(step[t])
           ELSE change'[t][y] = change[t][y]
    BY <1>4, WriteRowEffect
  <2>2. From(step[t]) # "superseded"
    BY DEF From
  <2> QED
    BY <1>1, <1>4, <2>1, <2>2 DEF View
<1> QED
  BY <1>2, <1>3, <1>4

LEMMA ClearsOnlyStays ==
    ASSUME TypeOK, PhaseInv, SnapshotInv, ClearInv, NEW t \in Runs, Kind(t),
           NEW p \in PlanRuns, NEW x \in Assessments
    PROVE  ClearsOnly(p, x)'
<1>1. /\ ClearsOnly(p, x) /\ x \in Rows /\ x[2] \in Items /\ x \notin Items
      /\ p \in Runs /\ p \notin AuctionRuns
  BY RowKinds, PublicationAssumption DEF ClearInv, Runs
<1>2. CASE p # t
  BY <1>1, <1>2, OthersRest, SupersededStays DEF ClearsOnly, Rests
<1>3. CASE p = t
  <2>1. CASE Outside(t) \/ StartBooking(t)
    <3>1. step[t] \notin Booking /\ change' = change /\ target' = target
      BY <2>1, OutsideEffect, StartBookingEffect DEF Booking
    <3> QED
      BY <1>1, <1>3, <3>1, ClosedIsUntouched DEF ClearsOnly
  <2>2. CASE RollsBack(t) \/ Commits(t)
    BY <1>1, <1>3, <2>2, RollsBackEffect, CommitsEffect DEF ClearsOnly
  <2>3. CASE Advances(t)
    <3>1. change' = change /\ table' = table /\ View(t, x[2])' = View(t, x[2])
      BY <2>3, AdvancesEffect DEF View
    <3>2. step[t] = "clear" => Found(t) \subseteq {y \in Assessments : View(t, y[2]) = "superseded"}
      BY DEF Found
    <3>3. ~started[t] => target[t] = {}
      BY <1>1, <1>3 DEF PhaseInv, PhaseOf
    <3>4. step'[t] = "clear" /\ x \in target'[t] =>
            View(t, x[2]) = "superseded" \/ (step[t] = "clear" /\ x \in target[t])
      BY <1>1, <1>3, <2>3, <3>2, <3>3, AdvancesEffect
    <3> QED
      BY <1>1, <1>3, <3>1, <3>4 DEF ClearsOnly
  <2>4. ASSUME NEW y \in Rows, WriteRow(t, y)
        PROVE  ClearsOnly(p, x)'
    <3>1. /\ step[t] \in Statements /\ y \in target[t]
          /\ \A z \in Rows : z # y => change'[t][z] = change[t][z]
          /\ target'[t] = target[t] \ {y}
          /\ IF target[t] = {y} THEN step'[t] = After(step[t]) ELSE step'[t] = step[t]
      BY <2>4, WriteRowEffect
    <3>2. change'[t][x] # "same" =>
            change[t][x] # "same" \/ (step[t] = "clear" /\ x \in target[t])
      <4>1. y = x => step[t] = "clear"
        BY <1>1, <1>3, <3>1 DEF PhaseInv, PhaseOf, ShapeOf, Statements, AuctionOnly
      <4> QED
        BY <1>1, <3>1, <4>1
    <3>3. step'[t] = "clear" /\ x \in target'[t] => step[t] = "clear" /\ x \in target[t]
      BY <3>1
    <3>4. View(t, x[2]) = "superseded" => View(t, x[2])' = "superseded"
      BY <1>1, <2>4, SupersededStays
    <3> QED
      BY <1>1, <1>3, <3>2, <3>3, <3>4 DEF ClearsOnly
  <2> QED
    BY <2>1, <2>2, <2>3, <2>4 DEF Kind
<1> QED
  BY <1>2, <1>3

LEMMA StepClear ==
    ASSUME TypeOK, PhaseInv, SnapshotInv, ClearInv, [Next]_vars
    PROVE  ClearInv'
<1>1. CASE UNCHANGED vars
  BY <1>1 DEF vars, run, transaction, ClearInv, ClearsOnly, View
<1>2. ASSUME NEW p \in PlanRuns, WritePlan(p)
      PROVE  ClearInv'
  <2>1. /\ UNCHANGED <<step, change>> /\ p \in Runs /\ step[p] \in {"started", "working"}
        /\ \A u \in Runs : u # p => \A x \in OfPlan(p) : change[u][x] = "same"
        /\ \A x \in Rows : x \notin OfPlan(p) => table'[x] = table[x]
        /\ \A u \in Runs : target'[u] = target[u] \ OfPlan(p)
    BY <1>2, WritePlanEffect
  <2>2. \A x \in Rows : change[p][x] = "same"
    BY <2>1, ClosedIsUntouched DEF Booking
  <2>3. ASSUME NEW t \in PlanRuns, NEW x \in Assessments
        PROVE  ClearsOnly(t, x)'
    <3>1. t \in Runs /\ x \in Rows /\ x[2] \in Rows /\ ClearsOnly(t, x)
      BY RowKinds DEF ClearInv, Runs
    <3>2. CASE x \in OfPlan(p)
      BY <2>1, <2>2, <3>1, <3>2 DEF ClearsOnly
    <3>3. CASE x \notin OfPlan(p)
      <4>1. x[2] \notin OfPlan(p)
        BY <3>3, RowKinds DEF OfPlan
      <4> QED
        BY <2>1, <3>1, <3>3, <4>1 DEF ClearsOnly, View
    <3> QED
      BY <3>2, <3>3
  <2> QED
    BY <2>3 DEF ClearInv
<1>3. CASE Crash
  <2>1. \A t \in Runs : /\ \A x \in Rows : change'[t][x] = "same"
                        /\ step'[t] \in {"queued", "over"}
    BY <1>3, CrashEffect
  <2> QED
    BY <2>1, RowKinds DEF ClearInv, ClearsOnly, Runs
<1> QED
  BY <1>1, <1>2, <1>3, ClearsOnlyStays, Kinds DEF ClearInv

-----------------------------------------------------------------------------
(* One active assessment of an item.                                       *)

LEMMA InitUnique == Init => UniqueInv /\ AllOrNone
<1> SUFFICES ASSUME Init
             PROVE  UniqueInv /\ AllOrNone
  OBVIOUS
<1>1. \A x \in Rows : table[x] = "none" /\ \A t \in Runs : change[t][x] = "same"
  BY DEF Init
<1> QED
  BY <1>1, RowKinds, DraftsAre DEF UniqueInv, Alone, AllOrNone, Assessed, Runs

\* What the unique index makes a publishing statement find.
LEMMA IndexAllows ==
    ASSUME TypeOK, PhaseInv, NEW t \in Runs, NEW z \in Assessments, WriteRow(t, z),
           step[t] = "publish", NEW y \in Assessments, y[2] = z[2]
    PROVE  /\ \A u \in Runs : u # t => change[u][y] = "same"
           /\ y # z => View(t, y) # "active"
BY DEF WriteRow, IndexBusy, IndexTaken, WrittenByOther

LEMMA OwnAlone ==
    ASSUME TypeOK, PhaseInv, SnapshotInv, UniqueInv, NEW t \in AuctionRuns, t \in Runs,
           NEW z \in Rows, WriteRow(t, z), NEW x \in Assessments, NEW y \in Assessments
    PROVE  Alone(t, x, y)'
<1>1. /\ table' = table
      /\ step[t] \in Statements /\ z \in target[t]
      /\ \A v \in Rows : v # z => change'[t][v] = change[t][v]
      /\ IF View(t, z) = From(step[t]) THEN change'[t][z] = Into(step[t])
         ELSE change'[t][z] = change[t][z]
  BY WriteRowEffect
<1>2. \A u \in Runs : u # t => change'[u] = change[u]
  BY OthersRest DEF Kind, Rests
<1>3. x \in Rows /\ y \in Rows /\ Alone(t, x, y)
  BY RowKinds DEF UniqueInv
<1>4. step[t] \in {"replace", "publish"} /\ z \in Assessments
  BY <1>1, PublicationAssumption
     DEF PhaseInv, PhaseOf, ShapeOf, Statements, PlanOnly, AuctionOnly
<1>5. SUFFICES ASSUME change'[t][x] = "active", y[2] = x[2], y # x
               PROVE  View(t, y)' # "active" /\ \A u \in Runs : u # t => change[u][y] = "same"
  BY <1>2 DEF Alone
<1>6. CASE change[t][x] = "active"
  <2>1. View(t, y) # "active" /\ \A u \in Runs : u # t => change[u][y] = "same"
    BY <1>3, <1>5, <1>6 DEF Alone
  <2>2. CASE y # z
    BY <1>1, <1>3, <2>1, <2>2 DEF View
  <2>3. CASE y = z
    <3>1. View(t, x) = "active"
      BY <1>6 DEF View
    <3>2. step[t] = "replace"
      BY <1>4, <1>5, <2>3, <3>1, IndexAllows
    <3>3. View(t, y) # From(step[t])
      BY <2>1, <3>2 DEF From
    <3> QED
      BY <1>1, <2>1, <2>3, <3>3 DEF View
  <2> QED
    BY <2>1, <2>2, <2>3
<1>7. CASE change[t][x] # "active"
  <2>1. x = z /\ View(t, z) = From(step[t]) /\ Into(step[t]) = "active"
    BY <1>1, <1>3, <1>5, <1>7
  <2>2. step[t] = "publish"
    BY <1>4, <2>1 DEF Into
  <2>3. View(t, y) # "active" /\ \A u \in Runs : u # t => change[u][y] = "same"
    BY <1>5, <2>1, <2>2, IndexAllows
  <2> QED
    BY <1>1, <1>3, <1>5, <2>1, <2>3 DEF View
<1> QED
  BY <1>6, <1>7

\* A row another run publishes is out of everyone's reach, by its index.
LEMMA OtherAlone ==
    ASSUME TypeOK, PhaseInv, SnapshotInv, UniqueInv, NEW t \in Runs, Kind(t),
           NEW a \in AuctionRuns, a # t, NEW x \in Assessments, NEW y \in Assessments
    PROVE  Alone(a, x, y)'
<1>1. a \in Runs /\ x \in Rows /\ y \in Rows /\ Alone(a, x, y)
  BY RowKinds DEF UniqueInv, Runs
<1>2. \A u \in Runs : u # t => change'[u] = change[u]
  BY OthersRest DEF Rests
<1>3. SUFFICES ASSUME change[a][x] = "active", y[2] = x[2], y # x
               PROVE  View(a, y)' # "active" /\ change'[t][y] = "same"
  BY <1>1, <1>2 DEF Alone
<1>4. View(a, y) # "active" /\ \A u \in Runs : u # a => change[u][y] = "same"
  BY <1>1, <1>3 DEF Alone
<1>5. View(a, y)' # "active"
  BY <1>1, <1>2, <1>4, TableStep DEF View, Shown
<1>6. change'[t][y] = "same"
  <2>1. CASE \E z \in Rows : WriteRow(t, z)
    <3>1. PICK z \in Rows : WriteRow(t, z)
      BY <2>1
    <3>2. CASE z # y
      BY <1>1, <1>4, <3>1, <3>2, WriteRowEffect
    <3>3. CASE z = y
      <4>1. /\ step[t] \in Statements /\ y \in target[t]
            /\ change[a][y] = "same"
            /\ IF View(t, y) = From(step[t]) THEN change'[t][y] = Into(step[t])
               ELSE change'[t][y] = change[t][y]
        BY <1>1, <3>1, <3>3, WriteRowEffect
      <4>2. table[y] # "active" /\ View(t, y) = table[y]
        BY <1>4, <4>1 DEF View
      <4>3. step[t] # "activate"
        BY <4>1, RowKinds DEF PhaseInv, ShapeOf
      <4>4. step[t] # "publish"
        BY <1>1, <1>3, <3>1, <3>3, IndexAllows
      <4>5. View(t, y) # From(step[t])
        BY <4>2, <4>3, <4>4 DEF From
      <4> QED
        BY <1>4, <4>1, <4>5
    <3> QED
      BY <3>2, <3>3
  <2>2. CASE change'[t] = change[t]
    BY <1>4, <2>2
  <2>3. CASE \A z \in Rows : change'[t][z] = "same"
    BY <1>1, <2>3
  <2> QED
    BY <2>1, <2>2, <2>3, ChangeStays
<1> QED
  BY <1>5, <1>6

LEMMA OneRunUnique ==
    ASSUME TypeOK, PhaseInv, SnapshotInv, UniqueInv, NEW t \in Runs, Kind(t)
    PROVE  UniqueInv'
<1>1. ASSUME NEW x \in Assessments, NEW y \in Assessments,
             table'[x] = "active", table'[y] = "active", x[2] = y[2]
      PROVE  x = y
  <2>1. x \in Rows /\ y \in Rows
    BY RowKinds
  <2>2. \A z \in {x, y} : table[z] = "active" \/ (Commits(t) /\ change[t][z] = "active")
    BY <1>1, <2>1, TableStep
  <2>3. \A z \in {x, y} : Commits(t) => View(t, z) = "active"
    BY <1>1, <2>1, CommitsEffect
  <2>4. t \in PlanRuns => \A z \in {x, y} : change[t][z] # "active"
    BY ChangeShape
  <2>5. t \in AuctionRuns => Alone(t, x, y) /\ Alone(t, y, x)
    BY DEF UniqueInv
  <2>6. CASE table[x] = "active" /\ table[y] = "active"
    BY <1>1, <2>6 DEF UniqueInv
  <2>7. CASE Commits(t) /\ (change[t][x] = "active" \/ change[t][y] = "active")
    BY <1>1, <2>3, <2>4, <2>5, <2>7 DEF Alone, Runs
  <2> QED
    BY <2>2, <2>6, <2>7
<1>2. ASSUME NEW a \in AuctionRuns, NEW x \in Assessments, NEW y \in Assessments
      PROVE  Alone(a, x, y)'
  <2>1. CASE a # t
    BY <2>1, OtherAlone
  <2>2. CASE a = t
    <3>1. x \in Rows /\ y \in Rows
      BY RowKinds
    <3>2. CASE \E z \in Rows : WriteRow(t, z)
      BY <2>2, <3>2, OwnAlone
    <3>3. CASE \A z \in Rows : change'[t][z] = "same"
      BY <2>2, <3>1, <3>3 DEF Alone
    <3>4. CASE Outside(t) \/ StartBooking(t)
      <4>1. step[t] \notin Booking /\ change' = change
        BY <3>4, OutsideEffect, StartBookingEffect DEF Booking
      <4> QED
        BY <2>2, <3>1, <4>1, ClosedIsUntouched DEF Alone
    <3>5. CASE Advances(t)
      <4>1. table' = table /\ change' = change
        BY <3>5, AdvancesEffect
      <4> QED
        BY <4>1 DEF UniqueInv, Alone, View
    <3>6. CASE RollsBack(t) \/ Commits(t)
      BY <3>3, <3>6, RollsBackEffect, CommitsEffect
    <3> QED
      BY <3>2, <3>4, <3>5, <3>6 DEF Kind
  <2> QED
    BY <2>1, <2>2
<1> QED
  BY <1>1, <1>2 DEF UniqueInv

LEMMA StepUnique ==
    ASSUME TypeOK, PhaseInv, SnapshotInv, UniqueInv, [Next]_vars
    PROVE  UniqueInv'
<1>1. CASE UNCHANGED vars
  BY <1>1 DEF vars, transaction, UniqueInv, Alone, View
<1>2. ASSUME NEW p \in PlanRuns, WritePlan(p)
      PROVE  UniqueInv'
  <2>1. /\ change' = change
        /\ \A u \in Runs : u # p => \A x \in OfPlan(p) : change[u][x] = "same"
        /\ \A x \in Rows : IF x \in OfPlan(p) THEN table'[x] \in {"none", "draft"}
                                             ELSE table'[x] = table[x]
    BY <1>2, WritePlanEffect
  <2>2. \A x \in Assessments : x \in Rows /\ (table'[x] = "active" => table[x] = "active")
    BY <2>1, RowKinds
  <2>3. ASSUME NEW a \in AuctionRuns, NEW x \in Assessments, NEW y \in Assessments
        PROVE  Alone(a, x, y)'
    <3>1. Alone(a, x, y)
      BY DEF UniqueInv
    <3> QED
      BY <2>1, <2>2, <3>1 DEF Alone, View
  <2> QED
    BY <2>2, <2>1, <2>3 DEF UniqueInv
<1>3. CASE Crash
  <2>1. table' = table /\ \A t \in Runs : \A x \in Rows : change'[t][x] = "same"
    BY <1>3, CrashEffect
  <2> QED
    BY <2>1, RowKinds DEF UniqueInv, Alone, Runs
<1> QED
  BY <1>1, <1>2, <1>3, OneRunUnique, Kinds

-----------------------------------------------------------------------------
(* All or none.                                                            *)

\* A plan's commit: its own items come without assessments, the others' keep
\* theirs as long as they are active.
LEMMA PlanCommitAll ==
    ASSUME TypeOK, PhaseInv, SnapshotInv, PlanInv, HangInv, ClearInv, AllOrNone,
           NEW t \in PlanRuns, Commits(t)
    PROVE  AllOrNone'
<1>1. /\ t \in Runs /\ step[t] = "commit" /\ \A x \in Rows : table'[x] = View(t, x)
  BY CommitsEffect DEF Runs
<1>2. SUFFICES ASSUME NEW i \in Opps, NEW j \in Opps, i[1] = j[1],
                      table'[i] = "active", table'[j] = "active",
                      NEW x \in Assessments, x[2] = i, table'[x] = "active"
               PROVE  Assessed(j)'
  BY DEF AllOrNone, Assessed
<1>3. i \in Items /\ j \in Items /\ i \in Rows /\ j \in Rows /\ x \in Rows
  BY <1>2, RowKinds, PublicationAssumption DEF Opps, Items, Rows
<1>4. change[t][x] = "same" /\ table[x] = "active"
  BY <1>1, <1>2, <1>3, ChangeShape DEF View
<1>5. table[i] \in Shown
  BY <1>2, <1>4 DEF HangInv
<1>6. table[i] = "active" /\ change[t][i] = "same"
  <2>1. Unmoved(t, i)
    BY <1>1, <1>3 DEF SnapshotInv
  <2> QED
    BY <1>1, <1>2, <1>3, <1>5, <2>1, ChangeShape DEF View, Unmoved, Shown
<1>7. table[j] = "active"
  <2>1. table[j] # "draft"
    BY <1>2, <1>3, <1>6 DEF PlanInv, NoMixture, Shown
  <2>2. Unmoved(t, j)
    BY <1>1, <1>3 DEF SnapshotInv
  <2> QED
    BY <1>1, <1>2, <1>3, <2>1, <2>2 DEF View, Unmoved
<1>8. PICK y \in Assessments : y[2] = j /\ table[y] = "active"
  BY <1>2, <1>4, <1>6, <1>7 DEF AllOrNone, Assessed
<1>9. change[t][y] = "same"
  <2>1. change[t][y] # "same" => View(t, j) = "superseded"
    BY <1>8 DEF ClearInv, ClearsOnly
  <2> QED
    BY <1>1, <1>2, <1>3, <2>1
<1>10. table'[y] = "active"
  BY <1>1, <1>8, <1>9, RowKinds DEF View
<1> QED
  BY <1>8, <1>10 DEF Assessed

\* An auction's commit: it published all its drafts, which cover the plan, and
\* left the assessments of other items alone.
LEMMA AuctionCommitAll ==
    ASSUME TypeOK, PhaseInv, SnapshotInv, CoverInv, AllOrNone, NEW t \in AuctionRuns, Commits(t)
    PROVE  AllOrNone'
<1>1. /\ t \in Runs /\ step[t] = "commit" /\ \A x \in Rows : table'[x] = View(t, x)
  BY CommitsEffect DEF Runs
<1>2. SUFFICES ASSUME NEW i \in Opps, NEW j \in Opps, i[1] = j[1],
                      table'[i] = "active", table'[j] = "active",
                      NEW x \in Assessments, x[2] = i, table'[x] = "active"
               PROVE  Assessed(j)'
  BY DEF AllOrNone, Assessed
<1>3. table[i] = "active" /\ table[j] = "active"
  BY <1>1, <1>2, ChangeShape, DraftsAre, RowKinds DEF View
<1>4. /\ Covering(t) /\ \A y \in Assessments : Publishes(t, y) /\ Within(t, y)
  BY DEF CoverInv
<1>5. CASE j \in Drafts(t)
  <2> DEFINE y == <<t, j>>
  <2>1. /\ y \in Assessments /\ y \in Rows /\ y[1] = t /\ y[2] = j /\ table[y] = "draft"
    BY <1>5, DraftsAre, RowKinds
  <2>2. change[t][y] # "same"
    BY <1>1, <1>4, <2>1 DEF Publishes
  <2>3. Unmoved(t, y) /\ change[t][y] \in {"same", "active", "superseded"}
    BY <1>1, <2>1, ChangeShape DEF SnapshotInv
  <2>4. table'[y] = "active"
    BY <1>1, <2>1, <2>2, <2>3 DEF View, Unmoved
  <2> QED
    BY <2>1, <2>4 DEF Assessed
<1>6. CASE j \notin Drafts(t)
  <2>1. i \notin Drafts(t)
    BY <1>1, <1>2, <1>3, <1>4, <1>6 DEF Covering, Judged
  <2>2. table[x] = "active"
    BY <1>1, <1>2, <1>4, <2>1, RowKinds DEF Within, View
  <2>3. PICK y \in Assessments : y[2] = j /\ table[y] = "active"
    BY <1>2, <1>3, <2>2 DEF AllOrNone, Assessed
  <2>4. table'[y] = "active"
    BY <1>1, <1>4, <1>6, <2>3, RowKinds DEF Within, View
  <2> QED
    BY <2>3, <2>4 DEF Assessed
<1> QED
  BY <1>5, <1>6

LEMMA StepAll ==
    ASSUME TypeOK, PhaseInv, SnapshotInv, PlanInv, HangInv, CoverInv, ClearInv, AllOrNone,
           [Next]_vars
    PROVE  AllOrNone'
<1>1. CASE UNCHANGED vars
  BY <1>1 DEF vars, AllOrNone, Assessed
<1>2. ASSUME NEW t \in Runs, Kind(t)
      PROVE  AllOrNone'
  <2>1. CASE Commits(t)
    BY <2>1, PlanCommitAll, AuctionCommitAll DEF Runs
  <2>2. CASE ~Commits(t)
    <3>1. \A x \in Rows : table'[x] = "active" <=> table[x] = "active"
      BY <1>2, <2>2, TableStep
    <3>2. (\A i \in Opps : i \in Rows) /\ \A x \in Assessments : x \in Rows /\ x[2] \in Rows
      BY RowKinds, PublicationAssumption DEF Opps, Items, Rows
    <3>3. /\ \A i \in Opps : table'[i] = "active" => table[i] = "active"
          /\ \A x \in Assessments : table'[x] = "active" <=> table[x] = "active"
      BY <3>1, <3>2
    <3> QED
      BY <3>3 DEF AllOrNone, Assessed
  <2> QED
    BY <2>1, <2>2
<1>3. ASSUME NEW p \in PlanRuns, WritePlan(p)
      PROVE  AllOrNone'
  <2>1. \A x \in Rows : IF x \in OfPlan(p) THEN table'[x] \in {"none", "draft"}
                                          ELSE table'[x] = table[x]
    BY <1>3, WritePlanEffect
  <2>2. \A x \in Assessments : x \in Rows /\ x[2] \in Rows
                               /\ (x \in OfPlan(p) <=> x[2] \in OfPlan(p))
    BY RowKinds DEF OfPlan
  <2>3. \A i \in Opps : i \in Rows
    BY RowKinds, PublicationAssumption DEF Opps, Items, Rows
  <2>4. \A i \in Opps : table'[i] = "active" => i \notin OfPlan(p) /\ table[i] = "active"
    BY <2>1, <2>3
  <2>5. \A x \in Assessments : (table'[x] = "active" => table[x] = "active")
                              /\ (x[2] \notin OfPlan(p) => table'[x] = table[x])
    BY <2>1, <2>2
  <2> SUFFICES ASSUME NEW i \in Opps, NEW j \in Opps, i[1] = j[1],
                      table'[i] = "active", table'[j] = "active",
                      NEW x \in Assessments, x[2] = i, table'[x] = "active"
               PROVE  Assessed(j)'
    BY DEF AllOrNone, Assessed
  <2>6. PICK y \in Assessments : y[2] = j /\ table[y] = "active"
    BY <2>4, <2>5 DEF AllOrNone, Assessed
  <2>7. table'[y] = "active"
    BY <2>4, <2>5, <2>6
  <2> QED
    BY <2>6, <2>7 DEF Assessed
<1>4. CASE Crash
  BY <1>4, CrashEffect DEF AllOrNone, Assessed
<1> QED
  BY <1>1, <1>2, <1>3, <1>4, Kinds

LEMMA AllShows == UniqueInv /\ AllOrNone => AssessedAllOrNone
<1> SUFFICES ASSUME UniqueInv, AllOrNone
             PROVE  AssessedAllOrNone
  OBVIOUS
<1> DEFINE assessed(i) == {x \in Assessments : x[2] = i /\ table[x] = "active"}
<1>1. ASSUME NEW i \in Opps
      PROVE  Cardinality(assessed(i)) <= 1
  <2>1. \A x, y \in assessed(i) : x = y
    BY DEF UniqueInv
  <2>2. CASE assessed(i) = {}
    BY <2>2, FS_EmptySet
  <2>3. CASE assessed(i) # {}
    <3>1. PICK x \in assessed(i) : assessed(i) = {x}
      BY <2>1, <2>3
    <3> QED
      BY <3>1, FS_Singleton
  <2> QED
    BY <2>2, <2>3
<1>2. \A i \in Opps : Assessed(i) <=> assessed(i) # {}
  BY DEF Assessed
<1>3. \A i, j \in Opps :
        i[1] = j[1] /\ table[i] = "active" /\ table[j] = "active" /\ assessed(i) # {}
          => assessed(j) # {}
  BY <1>2 DEF AllOrNone
<1> QED
  BY <1>1, <1>3 DEF AssessedAllOrNone, Opps

-----------------------------------------------------------------------------
(* What is shown is the last write.                                        *)

\* The rows of a plan run are those it wrote last, at any time; those of an
\* auction run while it has no output from an earlier booking, or has ended.
PlanWhole(r) ==
    \A i \in Items : i[1] = r => (i \in lastWrite[r].rows <=> table[i] # "none")
OwnAssessments(a) == {x \in lastWrite[a].rows : lastWrite[a].by = attempt[a]}
Sits(a) ==
    \/ ending[a] = "success"
    \/ outputOf[a] = NoOutput /\ step[a] \in {"started", "working"} \cup Booking
AuctionWhole(a) ==
    /\ Open(a) => outputOf[a] = NoOutput
    /\ step[a] = "queued" /\ attempt[a] = 0 => \A x \in Assessments : x[1] = a => table[x] = "none"
    /\ Sits(a) => \A x \in Assessments :
                    x[1] = a => (x \in OwnAssessments(a) <=> table[x] # "none")
NoDraftLeft(t) == ending[t] = "success" => \A x \in Rows : x[1] = t => table[x] # "draft"

LastInv ==
    /\ \A t \in Runs : (\A x \in lastWrite[t].rows : x[1] = t) /\ NoDraftLeft(t)
    /\ \A r \in PlanRuns : PlanWhole(r)
    /\ repeated = {} => \A a \in AuctionRuns : AuctionWhole(a)

LEMMA InitLast == Init => LastInv
<1> SUFFICES ASSUME Init
             PROVE  LastInv
  OBVIOUS
<1>1. \A t \in Runs : lastWrite[t].rows = {} /\ ending[t] = "none" /\ step[t] \in {"queued", "over"}
  BY DEF Init
<1>2. \A x \in Rows : table[x] = "none"
  BY DEF Init
<1>3. \A a \in AuctionRuns : AuctionWhole(a)
  BY <1>1, <1>2, RowKinds DEF AuctionWhole, Sits, Open, Booking, OwnAssessments, Runs
<1> QED
  BY <1>1, <1>2, <1>3, RowKinds DEF LastInv, NoDraftLeft, PlanWhole, Runs

\* A commit takes no row away, and puts none back to a draft.
LEMMA RowsRemain ==
    ASSUME TypeOK, PhaseInv, SnapshotInv, NEW t \in Runs, Kind(t), NEW x \in Rows,
           x[1] # t \/ x \notin Assessments \/ ~Outside(t)
    PROVE  /\ table'[x] = "none" <=> table[x] = "none"
           /\ table'[x] = "draft" => table[x] = "draft"
<1>1. Unmoved(t, x)
  BY DEF SnapshotInv
<1> QED
  BY <1>1, TableStep DEF Unmoved, Shown

\* A booking publishes every draft of its run.
LEMMA CommitsAllDrafts ==
    ASSUME TypeOK, PhaseInv, PlanInv, CoverInv, NEW t \in Runs, Commits(t),
           NEW x \in Rows, x[1] = t
    PROVE  table'[x] # "draft"
<1>1. step[t] = "commit" /\ table'[x] = View(t, x)
  BY CommitsEffect
<1>2. CASE x \in Items
  <2>1. t \in PlanRuns
    BY <1>2, RowKinds
  <2> QED
    BY <1>1, <1>2, <2>1 DEF PlanInv, Activates
<1>3. CASE x \in Assessments
  <2>1. t \in AuctionRuns
    BY <1>3, RowKinds
  <2>2. Publishes(t, x)
    BY <1>3, <2>1 DEF CoverInv
  <2>3. change[t][x] \in {"same"} \cup Shown
    BY DEF PhaseInv, ShapeOf
  <2> QED
    BY <1>1, <2>2, <2>3, ViewCases DEF Publishes, Shown
<1> QED
  BY <1>2, <1>3 DEF Rows

LEMMA OneRunNoDraft ==
    ASSUME TypeOK, PhaseInv, FreshInv, SnapshotInv, PlanInv, CoverInv, LastInv,
           NEW t \in Runs, Kind(t), NEW u \in Runs
    PROVE  NoDraftLeft(u)'
<1>1. NoDraftLeft(u) /\ FreshOf(t)
  BY DEF LastInv, FreshInv
<1>2. CASE u # t
  <2>1. ending'[u] = ending[u]
    BY <1>2, OthersRest DEF Rests
  <2> QED
    BY <1>1, <1>2, <2>1, RowsRemain DEF NoDraftLeft
<1>3. CASE u = t
  <2>1. CASE Outside(t)
    BY <1>3, <2>1, OutsideFresh DEF NoDraftLeft
  <2>2. CASE Commits(t)
    BY <1>3, <2>2, CommitsAllDrafts DEF NoDraftLeft
  <2>3. CASE StartBooking(t) \/ Advances(t) \/ RollsBack(t) \/ \E x \in Rows : WriteRow(t, x)
    <3>1. /\ step[t] \in {"started", "working"} \cup Booking /\ ending' = ending
      BY <2>3, StartBookingEffect, AdvancesEffect, WriteRowEffect, RollsBackEffect, StaysOpen
    <3> QED
      BY <1>1, <1>3, <3>1 DEF NoDraftLeft, FreshOf, Booking
  <2> QED
    BY <2>1, <2>2, <2>3 DEF Kind
<1> QED
  BY <1>2, <1>3

\* An attempt's own assessments are all there are of its run.
LEMMA WritesAssessments ==
    ASSUME TypeOK, BookedInv, NEW a \in AuctionRuns, WriteAssessments(a), outputOf[a] = NoOutput
    PROVE  /\ lastWrite'[a].by = attempt[a]
           /\ \A x \in Assessments : x[1] = a =>
                (x \in lastWrite'[a].rows <=> table'[x] # "none")
<1>1. PICK given \in SUBSET (PlanRuns \X Opportunities) :
        /\ table' = [x \in Rows |->
                       IF x \in Assessments /\ x[1] = a
                         THEN IF x[2] \in given THEN "draft" ELSE WithoutDrafts(a)[x]
                         ELSE table[x]]
        /\ lastWrite' = [lastWrite EXCEPT ![a] = [by |-> attempt[a], rows |-> {a} \X given]]
  BY DEF WriteAssessments
<1>2. lastWrite'[a].by = attempt[a] /\ lastWrite'[a].rows = {a} \X given
  BY <1>1 DEF TypeOK, Runs
<1>3. ASSUME NEW x \in Assessments, x[1] = a
      PROVE  x \in {a} \X given <=> table'[x] # "none"
  <2>1. x = <<a, x[2]>> /\ x \in Rows
    BY <1>3, RowKinds
  <2>2. x \in {a} \X given <=> x[2] \in given
    BY <2>1
  <2>3. table[x] \notin Shown
    BY <1>3, <2>1 DEF BookedInv
  <2>4. WithoutDrafts(a)[x] = "none"
    BY <1>3, <2>1, <2>3 DEF WithoutDrafts, TypeOK, RowStatus, Shown
  <2> QED
    BY <1>1, <1>3, <2>1, <2>2, <2>4
<1> QED
  BY <1>2, <1>3

LEMMA OutsideWhole ==
    ASSUME TypeOK, PhaseInv, BookedInv, FreshInv, NEW a \in AuctionRuns, AuctionWhole(a), Outside(a)
    PROVE  AuctionWhole(a)'
<1>1. a \in Runs /\ FreshOf(a)
  BY DEF FreshInv, Runs
<1>2. /\ attempt[a] \in 0..MaxAttempts /\ lastWrite[a].by \in 0..MaxAttempts
      /\ ending'[a] # "success" /\ ~Open(a)' /\ outputOf' = outputOf
  BY <1>1, OutsideFresh, OutsideEffect DEF TypeOK, Open
<1>3. \A x \in Assessments : x \in Rows
  BY RowKinds
<1>4. CASE BeginAttempt(a)
  <2>1. /\ step[a] = "queued" /\ step'[a] = "started" /\ attempt'[a] = attempt[a] + 1
        /\ lastWrite' = lastWrite
        /\ table' = IF attempt[a] > 0 THEN WithoutDrafts(a) ELSE table
    BY <1>1, <1>4 DEF BeginAttempt, Goto, TypeOK, history
  <2>2. lastWrite'[a].by # attempt'[a] /\ attempt'[a] # 0
    BY <1>1, <1>2, <2>1 DEF FreshOf, MaxAttempts
  <2>3. ASSUME NEW x \in Assessments, x[1] = a, outputOf[a] = NoOutput
        PROVE  table'[x] = "none"
    <3>1. table[x] \notin Shown
      BY <1>3, <2>3 DEF BookedInv
    <3>2. CASE attempt[a] > 0
      BY <1>3, <2>1, <2>3, <3>1, <3>2 DEF WithoutDrafts, TypeOK, RowStatus, Shown
    <3>3. CASE attempt[a] = 0
      BY <2>1, <2>3, <3>3 DEF AuctionWhole
    <3> QED
      BY <1>2, <3>2, <3>3
  <2> QED
    BY <1>2, <2>1, <2>2, <2>3 DEF AuctionWhole, Sits, OwnAssessments
<1>5. CASE ReadContext(a)
  <2>1. /\ step[a] = "started" /\ step'[a] = "working"
        /\ UNCHANGED <<table, attempt, ending, lastWrite>>
    BY <1>1, <1>5 DEF ReadContext, Goto, TypeOK, history
  <2> QED
    BY <1>2, <2>1 DEF AuctionWhole, Sits, OwnAssessments
<1>6. CASE Incomplete(a) \/ Settle(a) \/ Abort(a) \/ Discard(a) \/ DiscardFails(a)
  <2>1. /\ step'[a] \in {"settle", "queued", "discard", "over"} /\ step[a] \notin {"queued", "over"}
        /\ attempt' = attempt
    BY <1>1, <1>6 DEF Incomplete, Settle, Abort, Discard, DiscardFails, Goto, TypeOK
  <2> QED
    BY <1>1, <1>2, <2>1 DEF AuctionWhole, Sits, FreshOf, Booking
<1>7. CASE WriteAssessments(a)
  <2>1. step[a] \in {"started", "working"} /\ UNCHANGED <<step, attempt, ending>>
    BY <1>7 DEF WriteAssessments
  <2> QED
    BY <1>2, <1>7, <2>1, WritesAssessments DEF AuctionWhole, Sits, OwnAssessments
<1> QED
  BY <1>4, <1>5, <1>6, <1>7 DEF Outside

LEMMA OneRunWhole ==
    ASSUME TypeOK, PhaseInv, BookedInv, FreshInv, SnapshotInv, LastInv, NEW t \in Runs, Kind(t),
           repeated' = {}, NEW a \in AuctionRuns
    PROVE  AuctionWhole(a)'
<1>1. a \in Runs
  BY DEF Runs
<1>2. repeated = {}
  BY OutsideEffect, StartBookingEffect, AdvancesEffect, RollsBackEffect, CommitsEffect,
     WriteRowEffect DEF Kind
<1>3. AuctionWhole(a) /\ FreshOf(a)
  BY <1>1, <1>2 DEF LastInv, FreshInv
<1>4. \A x \in Assessments : x \in Rows
  BY RowKinds
<1>5. CASE a # t
  <2>1. Rests(a) /\ lastWrite'[a] = lastWrite[a]
    BY <1>1, <1>5, OthersRest, OthersWrites
  <2>2. outputOf'[a] = outputOf[a]
    <3>1. CASE Commits(t)
      BY <1>1, <1>5, <3>1, CommitsEffect
    <3>2. CASE Outside(t) \/ StartBooking(t) \/ Advances(t) \/ RollsBack(t)
      BY <3>2, OutsideEffect, StartBookingEffect, AdvancesEffect, RollsBackEffect
    <3>3. CASE \E x \in Rows : WriteRow(t, x)
      BY <3>3, WriteRowEffect
    <3> QED
      BY <3>1, <3>2, <3>3 DEF Kind
  <2>3. \A x \in Assessments : x[1] = a => (table'[x] = "none" <=> table[x] = "none")
    BY <1>4, <1>5, RowsRemain
  <2> QED
    BY <1>3, <2>1, <2>2, <2>3 DEF AuctionWhole, Sits, OwnAssessments, Open, Rests
<1>6. CASE a = t /\ ~Outside(t)
  <2>1. lastWrite' = lastWrite
    BY <1>6, OthersWrites DEF Outside
  <2>2. \A x \in Assessments : table'[x] = "none" <=> table[x] = "none"
    BY <1>4, <1>6, RowsRemain
  <2>3. CASE StartBooking(t)
    <3>1. /\ step[t] = "working" /\ step'[t] = IF t \in PlanRuns THEN "activate" ELSE "judge"
          /\ outputOf[t] # NoOutput => t \in repeated'
          /\ UNCHANGED <<outputOf, ending, attempt>>
      BY <2>3, StartBookingEffect
    <3>2. outputOf[t] = NoOutput /\ step'[t] \in Booking /\ step'[t] # "queued"
      BY <3>1 DEF Booking
    <3> QED
      BY <1>3, <1>6, <2>1, <2>2, <3>1, <3>2 DEF AuctionWhole, Sits, OwnAssessments
  <2>4. CASE Advances(t) \/ \E x \in Rows : WriteRow(t, x)
    <3>1. /\ step[t] \in Booking /\ step'[t] \in Booking
          /\ UNCHANGED <<attempt, ending, outputOf>>
      BY <2>4, AdvancesEffect, WriteRowEffect, StaysOpen
    <3> QED
      BY <1>3, <1>6, <2>1, <2>2, <3>1 DEF AuctionWhole, Sits, OwnAssessments, Open, Booking
  <2>5. CASE RollsBack(t)
    <3>1. /\ step'[t] = "settle" /\ UNCHANGED <<ending, outputOf>>
          /\ step[t] \in {"started", "working"} \cup Booking
      BY <2>5, RollsBackEffect
    <3> QED
      BY <1>3, <1>6, <3>1 DEF AuctionWhole, Sits, FreshOf, Open, Booking
  <2>6. CASE Commits(t)
    <3>1. /\ step[t] = "commit" /\ step'[t] \in {"over", "settle"} /\ attempt' = attempt
      BY <2>6, CommitsEffect
    <3>2. Open(t) /\ ~Open(t)'
      BY <3>1 DEF Open, Booking
    <3>3. Sits(a)
      BY <1>3, <1>6, <3>2 DEF AuctionWhole, Sits, Open
    <3> QED
      BY <1>3, <1>6, <2>1, <2>2, <3>1, <3>2, <3>3 DEF AuctionWhole, OwnAssessments
  <2> QED
    BY <1>6, <2>3, <2>4, <2>5, <2>6 DEF Kind
<1> QED
  BY <1>3, <1>5, <1>6, OutsideWhole

LEMMA OneRunLast ==
    ASSUME TypeOK, PhaseInv, BookedInv, FreshInv, SnapshotInv, PlanInv, CoverInv, LastInv,
           NEW t \in Runs, Kind(t)
    PROVE  LastInv'
<1>1. ASSUME NEW u \in Runs
      PROVE  \A x \in lastWrite'[u].rows : x[1] = u
  <2>1. \A x \in lastWrite[u].rows : x[1] = u
    BY DEF LastInv
  <2>2. CASE lastWrite'[u] = lastWrite[u]
    BY <2>1, <2>2
  <2>3. CASE u = t /\ t \in AuctionRuns /\ WriteAssessments(t)
    <3>1. PICK given \in SUBSET (PlanRuns \X Opportunities) :
            lastWrite' = [lastWrite EXCEPT ![t] = [by |-> attempt[t], rows |-> {t} \X given]]
      BY <2>3 DEF WriteAssessments
    <3>2. lastWrite'[t].rows = {t} \X given
      BY <3>1 DEF TypeOK
    <3> QED
      BY <2>3, <3>2
  <2> QED
    BY <2>2, <2>3, OthersWrites
<1>2. ASSUME NEW r \in PlanRuns
      PROVE  PlanWhole(r)'
  <2>1. r \in Runs /\ r \notin AuctionRuns /\ PlanWhole(r)
    BY PublicationAssumption DEF LastInv, Runs
  <2>2. lastWrite'[r] = lastWrite[r]
    BY <2>1, OthersWrites
  <2>3. \A i \in Items : table'[i] = "none" <=> table[i] = "none"
    BY RowsRemain, RowKinds
  <2> QED
    BY <2>1, <2>2, <2>3 DEF PlanWhole
<1> QED
  BY <1>1, <1>2, OneRunNoDraft, OneRunWhole DEF LastInv

LEMMA WritePlanLast ==
    ASSUME TypeOK, PhaseInv, BookedInv, FreshInv, HangInv, LastInv, NEW p \in PlanRuns, WritePlan(p)
    PROVE  LastInv'
<1>1. /\ p \in Runs /\ step[p] \in {"started", "working"}
      /\ \A x \in Rows : x \notin OfPlan(p) => table'[x] = table[x]
      /\ \A x \in Assessments : x \in OfPlan(p) => table'[x] = "none"
      /\ \A x \in lastWrite'[p].rows : x[1] = p
      /\ \A i \in Items : i[1] = p => (i \in lastWrite'[p].rows <=> table'[i] # "none")
      /\ \A u \in Runs : u # p => lastWrite'[u] = lastWrite[u]
      /\ repeated \subseteq repeated' /\ (outputOf[p] # NoOutput => p \in repeated')
      /\ UNCHANGED <<outputOf, step, attempt, ending>>
  BY WritePlanEffect
<1>2. /\ \A i \in Items : i \in Rows /\ (i \in OfPlan(p) <=> i[1] = p)
      /\ \A x \in Assessments : /\ x \in Rows /\ x[1] # p /\ x[2] \in Items
                                /\ x \in OfPlan(p) <=> x[2][1] = p
  BY RowKinds, PublicationAssumption DEF OfPlan
<1>3. FreshOf(p)
  BY <1>1 DEF FreshInv
<1>4. ASSUME NEW t \in Runs
      PROVE  (\A x \in lastWrite'[t].rows : x[1] = t) /\ NoDraftLeft(t)'
  <2>1. (\A x \in lastWrite[t].rows : x[1] = t) /\ NoDraftLeft(t)
    BY DEF LastInv
  <2>2. CASE t = p
    BY <1>1, <1>3, <2>2 DEF NoDraftLeft, FreshOf
  <2>3. CASE t # p
    <3>1. \A x \in Rows : x[1] = t => table'[x] \in {table[x], "none"}
      BY <1>1, <1>2, <2>3 DEF Rows
    <3> QED
      BY <1>1, <2>1, <2>3, <3>1 DEF NoDraftLeft
  <2> QED
    BY <2>2, <2>3
<1>5. ASSUME NEW r \in PlanRuns
      PROVE  PlanWhole(r)'
  <2>1. r \in Runs /\ PlanWhole(r)
    BY DEF LastInv, Runs
  <2>2. CASE r = p
    BY <1>1, <2>2 DEF PlanWhole
  <2>3. CASE r # p
    BY <1>1, <1>2, <2>1, <2>3 DEF PlanWhole
  <2> QED
    BY <2>2, <2>3
<1>6. ASSUME repeated' = {}, NEW a \in AuctionRuns
      PROVE  AuctionWhole(a)'
  <2>1. AuctionWhole(a) /\ a \in Runs /\ a # p /\ outputOf[p] = NoOutput
    BY <1>1, <1>6, PublicationAssumption DEF LastInv, Runs
  <2>2. ASSUME NEW x \in Assessments
        PROVE  table'[x] = table[x]
    <3>1. CASE x \notin OfPlan(p)
      BY <1>1, <1>2, <3>1
    <3>2. CASE x \in OfPlan(p)
      <4>1. table[x[2]] \notin Shown
        BY <1>2, <2>1, <3>2 DEF BookedInv
      <4>2. table[x] = "none"
        BY <4>1 DEF HangInv
      <4> QED
        BY <1>1, <3>2, <4>2
    <3> QED
      BY <3>1, <3>2
  <2>3. lastWrite'[a] = lastWrite[a]
    BY <1>1, <2>1
  <2> QED
    BY <1>1, <2>1, <2>2, <2>3 DEF AuctionWhole, Sits, OwnAssessments, Open
<1> QED
  BY <1>4, <1>5, <1>6 DEF LastInv

LEMMA CrashLast ==
    ASSUME TypeOK, LastInv, FreshInv, Crash
    PROVE  LastInv'
<1>1. /\ \A t \in Runs :
           /\ step'[t] \in {"queued", "over"}
           /\ step'[t] = "queued" =>
                step[t] = "queued" \/ (ending[t] = "none" /\ attempt[t] < MaxAttempts)
           /\ ending'[t] = ending[t] \/ ending'[t] = "failed"
      /\ UNCHANGED <<table, outputOf, attempt, lastWrite, repeated>>
  BY CrashEffect
<1>2. \A t \in Runs : step'[t] = "queued" /\ attempt[t] = 0 => step[t] = "queued"
  <2>1. \A t \in Runs : step'[t] = "queued" => step[t] # "over" \/ step[t] = "queued"
    BY DEF Crash
  <2> QED
    BY <2>1 DEF FreshInv, FreshOf
<1>3. ASSUME repeated = {}, NEW a \in AuctionRuns
      PROVE  AuctionWhole(a)'
  <2>1. a \in Runs /\ AuctionWhole(a)
    BY <1>3 DEF LastInv, Runs
  <2>2. ~Open(a)' /\ (Sits(a)' => Sits(a))
    BY <1>1, <2>1 DEF Open, Sits, Booking
  <2> QED
    BY <1>1, <1>2, <2>1, <2>2 DEF AuctionWhole, OwnAssessments
<1> QED
  BY <1>1, <1>3 DEF LastInv, NoDraftLeft, PlanWhole

LEMMA StepLast ==
    ASSUME TypeOK, PhaseInv, BookedInv, FreshInv, SnapshotInv, PlanInv, HangInv, CoverInv, LastInv,
           [Next]_vars
    PROVE  LastInv'
<1>1. CASE UNCHANGED vars
  BY <1>1 DEF vars, run, history, LastInv, NoDraftLeft, PlanWhole, AuctionWhole, Sits,
     OwnAssessments, Open
<1> QED
  BY <1>1, OneRunLast, WritePlanLast, CrashLast, Kinds

LEMMA LastShows ==
    ASSUME TypeOK, FreshInv, LastInv
    PROVE  ShownIsLastWrite
<1> SUFFICES ASSUME NEW t \in Runs, ending[t] = "success"
             PROVE  /\ required[t] => lastWrite[t].by = attempt[t]
                    /\ t \in PlanRuns => Published(t) = lastWrite[t].rows
                    /\ t \in AuctionRuns /\ repeated = {} =>
                         Published(t) = IF lastWrite[t].by = attempt[t]
                                          THEN lastWrite[t].rows ELSE {}
  BY DEF ShownIsLastWrite
<1>1. required[t] => lastWrite[t].by = attempt[t]
  BY DEF FreshInv, FreshOf, MustBeOwn
<1>2. /\ \A x \in Rows : x[1] = t => (table[x] # "none" <=> x \in Published(t))
      /\ \A x \in Published(t) : x \in Rows /\ x[1] = t
  BY DEF LastInv, NoDraftLeft, Published, TypeOK, RowStatus
<1>3. lastWrite[t].rows \subseteq Rows /\ \A x \in lastWrite[t].rows : x[1] = t
  BY DEF TypeOK, LastInv
<1>4. /\ t \in PlanRuns => \A x \in Rows : x[1] = t => x \in Items
      /\ t \in AuctionRuns => \A x \in Rows : x[1] = t => x \in Assessments
  BY RowKinds, PublicationAssumption DEF Rows
<1>5. ASSUME t \in PlanRuns
      PROVE  Published(t) = lastWrite[t].rows
  <2>1. PlanWhole(t)
    BY <1>5 DEF LastInv
  <2>2. \A x \in Rows : x[1] = t => (x \in lastWrite[t].rows <=> x \in Published(t))
    BY <1>2, <1>4, <1>5, <2>1 DEF PlanWhole
  <2> QED
    BY <1>2, <1>3, <2>2
<1>6. ASSUME t \in AuctionRuns, repeated = {}
      PROVE  Published(t) = IF lastWrite[t].by = attempt[t] THEN lastWrite[t].rows ELSE {}
  <2>1. AuctionWhole(t) /\ Sits(t)
    BY <1>6 DEF LastInv, Sits
  <2>2. \A x \in Rows : x[1] = t => (x \in OwnAssessments(t) <=> x \in Published(t))
    BY <1>2, <1>4, <1>6, <2>1 DEF AuctionWhole
  <2>3. \A x \in OwnAssessments(t) : x \in Rows /\ x[1] = t
    BY <1>3 DEF OwnAssessments
  <2>4. Published(t) = OwnAssessments(t)
    BY <1>2, <2>2, <2>3
  <2> QED
    BY <2>4 DEF OwnAssessments
<1> QED
  BY <1>1, <1>5, <1>6

-----------------------------------------------------------------------------
(* The theorems.                                                           *)

\* The types hold whatever the statements of the booking transactions and the
\* agent's tools do in between each other.
THEOREM PublicationTypes == Spec => []TypeOK
<1>1. Init => TypeOK /\ PhaseInv
  BY InitTyped, InitPhase
<1>2. TypeOK /\ PhaseInv /\ [Next]_vars => (TypeOK /\ PhaseInv)'
  BY StepPhase
<1> QED
  BY <1>1, <1>2, PTL DEF Spec

\* What holds of every reachable state of the publication.
PublicationInv ==
    /\ TypeOK /\ PhaseInv /\ BookedInv /\ FreshInv /\ OutputInv /\ LatestInv /\ FollowInv
    /\ SnapshotInv /\ PlanInv /\ HangInv /\ CoverInv /\ ClearInv /\ UniqueInv /\ AllOrNone
    /\ LastInv

LEMMA PublicationInvariant == Spec => []PublicationInv
<1>1. Init => PublicationInv
  BY InitTyped, InitPhase, InitBooked, InitFresh, InitOutput, InitLatest, InitFollow,
     InitSnapshot, InitPlan, InitCover, InitUnique, InitLast DEF PublicationInv
<1>2. PublicationInv /\ [Next]_vars => PublicationInv'
  BY StepPhase, StepBooked, StepFresh, StepOutput, StepLatest, StepFollow,
     StepSnapshot, StepPlan, StepCover, StepClear, StepUnique, StepAll, StepLast
     DEF PublicationInv
<1> QED
  BY <1>1, <1>2, PTL DEF Spec

\* Only booked runs are on the board, for any runs, codes and faults: a booking
\* that rolls back, dies or is retried has shown nothing (repo.ts, finishRun).
THEOREM OnlyBookedShown == Spec => []OnlyBookedIsShown
<1>1. PublicationInv => OnlyBookedIsShown
  BY BookedShows DEF PublicationInv
<1> QED
  BY <1>1, PublicationInvariant, PTL

\* However attempts fail, die and are repeated, a run that succeeds shows its
\* last write whole and nothing else, and that write is its last attempt's where
\* the completion gate asked for one (replaceDraftPlaybook, createJobCompletionGate).
THEOREM LastWriteShown == Spec => []ShownIsLastWrite
<1>1. PublicationInv => ShownIsLastWrite
  BY LastShows DEF PublicationInv
<1> QED
  BY <1>1, PublicationInvariant, PTL

\* Of plan bookings that do not overlap, and none twice, the board has the one
\* with the highest output id (activatePlaybookForRun).
THEOREM LatestOnBoard == Spec => []BoardIsLatest
<1>1. PublicationInv => BoardIsLatest
  BY LatestShows DEF PublicationInv
<1> QED
  BY <1>1, PublicationInvariant, PTL

\* Active assessments are about active items, unless a plan was booked at the
\* same time (activateAuctionAssessmentsForRun, the plan's clearing UPDATE).
THEOREM AssessmentsFollow == Spec => []AssessmentsFollowPlan
<1>1. PublicationInv => AssessmentsFollowPlan
  BY FollowShows DEF PublicationInv
<1> QED
  BY <1>1, PublicationInvariant, PTL

\* However auction and plan bookings interleave, fail and are retried, an item
\* has one active assessment at most, and a plan's items have one all or none.
THEOREM AssessedTogether == Spec => []AssessedAllOrNone
<1>1. PublicationInv => AssessedAllOrNone
  BY AllShows DEF PublicationInv
<1> QED
  BY <1>1, PublicationInvariant, PTL

=============================================================================
