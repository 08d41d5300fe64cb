--------------------------- MODULE IndicatorQueue ---------------------------
(***************************************************************************)
(* Recomputation of indicators.  Every write of bars marks its series with *)
(* a generation (datasource/service.ts); the indicator workers and the     *)
(* onboarding of an instrument recompute marked series under a session     *)
(* lock (indicators/service.ts, worker.ts, modules/pools/onboarding.ts).   *)
(* Bars are counted by their writes; values name the count they came from. *)
(*                                                                         *)
(* A mark is deleted with its row, so generations start over at 1: whether *)
(* an old generation can be taken for a new one depends on the lock.       *)
(***************************************************************************)
EXTENDS Integers, Sequences, FiniteSets, SequencesExt

CONSTANTS
    Series,         \* an instrument with a frequency
    IndicatorWorkers, \* IndicatorWorker of each process
    Onboarders,     \* calls of pool_onboard
    Writes,         \* bound on writes of bars to a series
    Failures        \* bound on failures and crashes

ASSUME IndicatorAssumption ==
    /\ IndicatorWorkers \cap Onboarders = {} /\ "unheld" \notin IndicatorWorkers \cup Onboarders
    /\ Writes \in Nat /\ Failures \in Nat

Computers == IndicatorWorkers \cup Onboarders

VARIABLES
    bars,           \* market_bar: writes of the series so far
    marks,          \* market_indicator_dirty in the order of updated_at
    values,         \* market_indicator_value: the bars they came from
    profile,        \* market_stock_character_metric: the bars it came from
    seriesLock,     \* who holds the session lock of a series
    computer,       \* step, series, generation and bars read of a computation
    onboarding,     \* an onboarding: bars after its fetch, profile shown, kept
    failures

indicatorVars == <<bars, marks, values, profile, seriesLock, computer, onboarding, failures>>

Unheld == "unheld"
NoSeries == "none"
Resting == [step |-> "idle", series |-> NoSeries, generation |-> 0, read |-> 0]
NoOnboarding == [fetched |-> 0, shown |-> 0, member |-> FALSE]

IndicatorInit ==
    /\ bars = [s \in Series |-> 0] /\ marks = <<>>
    /\ values = [s \in Series |-> 0] /\ profile = [s \in Series |-> 0]
    /\ seriesLock = [s \in Series |-> Unheld]
    /\ computer = [c \in Computers |-> Resting]
    /\ onboarding = [o \in Onboarders |-> NoOnboarding] /\ failures = 0

ComputerAt(c, step) == computer[c].step = step
ComputerTo(c, step) == computer' = [computer EXCEPT ![c].step = step]
ComputerRests(c) == computer' = [computer EXCEPT ![c] = Resting]
Failing == failures < Failures /\ failures' = failures + 1

-----------------------------------------------------------------------------
(* Marks.                                                                  *)

Generation(s) ==
    IF \E i \in DOMAIN marks : marks[i].series = s
      THEN (CHOOSE m \in Range(marks) : m.series = s).generation ELSE 0

Without(s) == IF Generation(s) = 0 THEN marks
              ELSE RemoveAt(marks, CHOOSE i \in DOMAIN marks : marks[i].series = s)

\* Mutant: a series that is marked already is not marked again.
MarkedOnce(s) == IF Generation(s) > 0 THEN marks ELSE Append(marks, [series |-> s, generation |-> 1])

\* INSERT .. ON CONFLICT DO UPDATE generation + 1, updated_at = now().
Marked(s) == Append(Without(s), [series |-> s, generation |-> Generation(s) + 1])

\* storeBars: the bars and the mark are one statement.
StoreBars(s) ==
    /\ bars[s] < Writes
    /\ bars' = [bars EXCEPT ![s] = @ + 1]
    /\ marks' = Marked(s)
    /\ UNCHANGED <<values, profile, seriesLock, computer, onboarding, failures>>

\* enqueueFullMarketIndicatorRefresh: a mark without new bars.
MarkAnew(s) ==
    /\ Failing /\ marks' = Marked(s)
    /\ UNCHANGED <<bars, values, profile, seriesLock, computer, onboarding>>

-----------------------------------------------------------------------------
(* Who recomputes: a worker takes the oldest mark, an onboarding its own.  *)

NextDirtyIndicator(c) ==
    /\ c \in IndicatorWorkers /\ ComputerAt(c, "idle") /\ marks # <<>>
    /\ computer' = [computer EXCEPT ![c] =
          [step |-> "lock", series |-> Head(marks).series, generation |-> Head(marks).generation, read |-> 0]]
    /\ UNCHANGED <<bars, marks, values, profile, seriesLock, onboarding, failures>>

\* initializePoolOnboarding: the daily bars are fetched and stored.
FetchForOnboarding(c, s) ==
    /\ c \in Onboarders /\ ComputerAt(c, "idle") /\ onboarding[c] = NoOnboarding /\ bars[s] < Writes
    /\ bars' = [bars EXCEPT ![s] = @ + 1] /\ marks' = Marked(s)
    /\ onboarding' = [onboarding EXCEPT ![c].fetched = bars[s] + 1]
    /\ computer' = [computer EXCEPT ![c] = [Resting EXCEPT !.step = "fetched", !.series = s]]
    /\ UNCHANGED <<values, profile, seriesLock, failures>>

\* The worker may have been faster: then the onboarding fails.
FindMark(c) ==
    /\ ComputerAt(c, "fetched")
    /\ IF Generation(computer[c].series) = 0 THEN ComputerRests(c)
       ELSE computer' = [computer EXCEPT ![c].step = "lock", ![c].generation = Generation(computer[c].series)]
    /\ UNCHANGED <<bars, marks, values, profile, seriesLock, onboarding, failures>>

-----------------------------------------------------------------------------
(* recomputeIndicatorSeries.                                               *)

\* Mutant: the session lock is not asked for.
SeriesFreeAnyhow(s) == TRUE

SeriesFree(s) == seriesLock[s] = Unheld

LockSeries(c) ==
    /\ ComputerAt(c, "lock")
    /\ IF SeriesFree(computer[c].series)
         THEN seriesLock' = [seriesLock EXCEPT ![computer[c].series] = c] /\ ComputerTo(c, "read")
         ELSE UNCHANGED seriesLock /\ ComputerRests(c)
    /\ UNCHANGED <<bars, marks, values, profile, onboarding, failures>>

\* Mutant: a session that goes back to the pool keeps the lock.
UnlockedNot(c) == seriesLock

\* pg_advisory_unlock in finally.
Unlocked(c) == [s \in Series |-> IF seriesLock[s] = c THEN Unheld ELSE seriesLock[s]]

SameGeneration(c) == Generation(computer[c].series) = computer[c].generation

\* One snapshot of the mark and of the bars.
ReadSeries(c) ==
    /\ ComputerAt(c, "read") /\ SameGeneration(c)
    /\ computer' = [computer EXCEPT ![c].step = "commit", ![c].read = bars[computer[c].series]]
    /\ UNCHANGED <<bars, marks, values, profile, seriesLock, onboarding, failures>>

\* Whether at the snapshot or at the end: another generation has come.
ComputationIsStale(c) ==
    /\ computer[c].step \in {"read", "commit"} /\ ~SameGeneration(c)
    /\ seriesLock' = Unlocked(c) /\ ComputerRests(c)
    /\ UNCHANGED <<bars, marks, values, profile, onboarding, failures>>

\* Mutant: the result of an onboarding counts whatever it is.
AfterComputingAnyhow(c, success) == IF c \in Onboarders THEN "computed" ELSE "idle"

\* An onboarding goes on only if its recomputation was trusted.
AfterComputing(c, success) == IF c \in Onboarders /\ success THEN "computed" ELSE "idle"

\* The values, the profile of a trusted series and the mark are one commit
\* under the lock of the mark's row.
CommitValues(c, success) ==
    LET s == computer[c].series IN
    /\ ComputerAt(c, "commit") /\ SameGeneration(c)
    /\ values' = [values EXCEPT ![s] = computer[c].read]
    /\ profile' = IF success THEN [profile EXCEPT ![s] = computer[c].read] ELSE profile
    /\ marks' = Without(s)
    /\ seriesLock' = Unlocked(c)
    /\ computer' = [computer EXCEPT ![c] = [Resting EXCEPT !.step = AfterComputing(c, success),
                       !.series = IF AfterComputing(c, success) = "idle" THEN NoSeries ELSE s]]
    /\ UNCHANGED <<bars, onboarding, failures>>

\* An exception: a failed run is recorded, the mark stays.
ComputationFails(c) ==
    /\ computer[c].step \in {"read", "commit"} /\ Failing
    /\ seriesLock' = Unlocked(c) /\ ComputerRests(c)
    /\ UNCHANGED <<bars, marks, values, profile, onboarding>>

\* The process dies, its sessions end with it, and it is started anew.
ComputerCrashes(c) ==
    /\ ~ComputerAt(c, "idle") /\ Failing
    /\ seriesLock' = [s \in Series |-> IF seriesLock[s] = c THEN Unheld ELSE seriesLock[s]]
    /\ ComputerRests(c)
    /\ UNCHANGED <<bars, marks, values, profile, onboarding>>

-----------------------------------------------------------------------------
(* The end of an onboarding.                                               *)

\* findProfile: the newest profile is shown in the proposal.
ShowProfile(c) ==
    /\ ComputerAt(c, "computed")
    /\ onboarding' = [onboarding EXCEPT ![c].shown = profile[computer[c].series]]
    /\ ComputerTo(c, "proposed")
    /\ UNCHANGED <<bars, marks, values, profile, seriesLock, failures>>

\* Mutant: the profile is looked up by its date alone.
ProfileIsTheShownAnyhow(c) == TRUE

\* resolvePoolOnboarding: the profile with the hash of the proposal.
ProfileIsTheShown(c) == profile[computer[c].series] = onboarding[c].shown

CommitOnboarding(c) ==
    /\ ComputerAt(c, "proposed")
    /\ onboarding' = [onboarding EXCEPT ![c].member = ProfileIsTheShown(c)]
    /\ ComputerTo(c, IF ProfileIsTheShown(c) THEN "member" ELSE "idle")
    /\ UNCHANGED <<bars, marks, values, profile, seriesLock, failures>>

ComputerStep(c) ==
    \/ NextDirtyIndicator(c) \/ FindMark(c) \/ LockSeries(c) \/ ReadSeries(c)
    \/ ComputationIsStale(c) \/ (\E success \in BOOLEAN : CommitValues(c, success))
    \/ ShowProfile(c) \/ CommitOnboarding(c)

IndicatorNext ==
    \/ \E s \in Series : StoreBars(s) \/ MarkAnew(s)
    \/ \E c \in Computers : ComputerStep(c) \/ ComputationFails(c) \/ ComputerCrashes(c)
    \/ \E c \in Computers, s \in Series : FetchForOnboarding(c, s)

IndicatorSpec == IndicatorInit /\ [][IndicatorNext]_indicatorVars

\* The worker ticks every two seconds.
IndicatorFairness == \A c \in Computers : WF_indicatorVars(ComputerStep(c))

IndicatorFairSpec == IndicatorSpec /\ IndicatorFairness

-----------------------------------------------------------------------------
(* Properties.                                                             *)

\* Every variable keeps its type.
IndicatorTypeOK ==
    /\ bars \in [Series -> 0..Writes] /\ values \in [Series -> 0..Writes] /\ profile \in [Series -> 0..Writes]
    /\ marks \in Seq([series : Series, generation : Nat \ {0}])
    /\ \A i, j \in DOMAIN marks : marks[i].series = marks[j].series => i = j
    /\ seriesLock \in [Series -> Computers \cup {Unheld}]
    /\ computer \in [Computers -> [step : {"idle", "fetched", "lock", "read", "commit", "computed", "proposed", "member"},
                     series : Series \cup {NoSeries}, generation : Nat, read : 0..Writes]]
    /\ onboarding \in [Onboarders -> [fetched : 0..Writes, shown : 0..Writes, member : BOOLEAN]]
    /\ failures \in 0..Failures

\* A series without a mark has the values of its newest bars: no write is lost
\* between two computations, though generations start over.
UnmarkedIsFresh == \A s \in Series : Generation(s) > 0 \/ values[s] = bars[s]

\* A result never replaces one of newer bars.
ValuesGoForward == [][\A s \in Series : values'[s] >= values[s]]_indicatorVars

\* The profile of a proposal includes the bars that its onboarding fetched.
ShownIncludesFetched ==
    \A o \in Onboarders : ComputerAt(o, "proposed") => onboarding[o].shown >= onboarding[o].fetched

\* An instrument becomes a member on the profile the user was shown.
MemberAsShown ==
    [][\A o \in Onboarders : onboarding'[o].member /\ ~onboarding[o].member
         => onboarding[o].shown = profile[computer[o].series]]_indicatorVars

\* All marks are worked off: this is so again and again, as long as writes and
\* failures end.
NoMarkIsLeft == marks = <<>>

\* No write of bars is lost to a computation, values go forward only, and a
\* member is taken in on the profile that was shown for it.
IndicatorsAreFresh ==
    /\ [](UnmarkedIsFresh /\ ShownIncludesFetched)
    /\ ValuesGoForward /\ MemberAsShown

=============================================================================
