----------------------------- MODULE MarketUpdate -----------------------------
(***************************************************************************)
(* Daily bars and their moving averages.  The daily update appends the     *)
(* bar of a day from snapshots and reloads what it finds missing before    *)
(* it; an update for a past day loads what is missing.  Pages, agents and  *)
(* onboarding load bars of a code as they please, without the lock of the  *)
(* pipelines.  A code of the whole market is only appended to; positions,  *)
(* pools, indices and the candidates of a day ("core") are looked after.   *)
(***************************************************************************)
EXTENDS Integers, FiniteSets, FiniteSetsExt

CONSTANTS
    Instruments, Core,     \* codes; those always looked after
    TradingDays,     \* bound on days; all of them are open
    ToleratedGap,    \* days since the last bar without a reload: 3 in the code
    AverageOf,       \* bars an average is over: 5 to 60 in the code
    Loads, Mishaps   \* bounds: loads from outside; failures and crashes

ASSUME MarketAssumption ==
    /\ Core \subseteq Instruments /\ IsFiniteSet(Instruments)
    /\ {TradingDays, AverageOf} \subseteq Nat \ {0} /\ {ToleratedGap, Loads, Mishaps} \subseteq Nat

VARIABLES
    tradingDay, afterClose, traded, \* the day, 15:30 is over, days each code traded
    core, calendarKnown,       \* today's core; market_trading_day has the days
    dailyBar, average,              \* market_bar: of a code and a day
    update,                    \* the daily update: see NoUpdate
    loading,                   \* fetchAndStore, of the update and of another
    loads, mishaps,
    \* history, read by properties only: days left missing behind a bar, codes
    \* whose reload did not reach the day, codes with averages known to be off
    passedOver, cutShort, off

clockVars == <<tradingDay, afterClose, traded, core, calendarKnown>>
barVars == <<dailyBar, average>>
marketHistory == <<passedOver, cutShort, off>>
marketVars == <<clockVars, barVars, update, loading, loads, mishaps, marketHistory>>

-----------------------------------------------------------------------------

Dates == 1..TradingDays
Loaders == {"update", "outside"}
NoLoad == [at |-> "none", code |-> "none", from |-> 1, to |-> 1, marks |-> FALSE,
           got |-> {}, seen |-> <<>>, rows |-> {}]
NoUpdate == [at |-> "idle", day |-> 1, mode |-> "snapshot", cared |-> {}, todo |-> {},
             code |-> "none", gaps |-> {}, dirty |-> {}]

MarketInit ==
    /\ tradingDay = 1 /\ afterClose = FALSE /\ calendarKnown \in BOOLEAN
    /\ core \in {Core, Instruments} /\ traded = [c \in Instruments |-> {1}]
    /\ dailyBar = [c \in Instruments |-> [d \in Dates |-> "none"]]
    /\ average = [c \in Instruments |-> [d \in Dates |-> {}]]
    /\ update = NoUpdate /\ loading = [a \in Loaders |-> NoLoad]
    /\ loads \in 0..Loads /\ mishaps \in 0..Mishaps
    /\ passedOver = {} /\ cutShort = {} /\ off = {}

Has(c, d) == dailyBar[c][d] # "none"
LatestBar(c, before) == Max({d \in 1..(before - 1) : Has(c, d)} \cup {0})

(* A day that has not closed has a bar that will change.                   *)
KindOn(d) == IF d < tradingDay \/ afterClose THEN "final" ELSE "partial"

\* Days of c that have no bar though an earlier and a later one have.
Holes(c, b) == {d \in traded[c] : /\ b[d] = "none" /\ \E e \in Dates : e < d /\ b[e] # "none"
                                  /\ \E e \in Dates : e > d /\ b[e] # "none"}

-----------------------------------------------------------------------------
(* Time.                                                                   *)

(* The half hour to 15:30 is longer than any load: none that saw the day   *)
(* open is still to be stored.                                             *)
Closes ==
    /\ ~afterClose /\ afterClose' = TRUE
    /\ \A a \in Loaders : \A g \in loading[a].got : g[2] = "final"
    /\ UNCHANGED <<tradingDay, traded, core, calendarKnown, barVars, update, loading, loads, mishaps, marketHistory>>

(* Instruments may be suspended; limit-ups and the dragon-tiger list make other  *)
(* codes candidates for a day.  An evening is longer than an update, but   *)
(* one may begin before midnight and ask for its quotes after.             *)
NextTradingDay ==
    /\ update.at \in {"idle", "quotes"} /\ \A a \in Loaders : loading[a].at = "none"
    /\ afterClose /\ tradingDay < TradingDays /\ tradingDay' = tradingDay + 1 /\ afterClose' = FALSE
    /\ core' \in {Core, Instruments}
    /\ \E S \in {Instruments} \cup {Instruments \ {c} : c \in Instruments} :
         traded' = [c \in Instruments |-> traded[c] \cup (IF c \in S THEN {tradingDay + 1} ELSE {})]
    /\ UNCHANGED <<calendarKnown, barVars, update, loading, loads, mishaps, marketHistory>>

-----------------------------------------------------------------------------
(* The daily update.                                                       *)

(* dailyMarketGate: a day is updated once it has closed; a past one from   *)
(* its history.                                                            *)
GateMode(d) == IF d = tradingDay THEN "snapshot" ELSE "historical"
GateOpens(d) == d <= tradingDay /\ (d = tradingDay => afterClose)

(* resolveDailyUpdateScope: the whole market only from snapshots.          *)
Scope(mode, cared) == IF mode = "snapshot" THEN Instruments ELSE cared

StartUpdate(d) ==
    /\ update.at = "idle" /\ GateOpens(d)
    /\ update' = [NoUpdate EXCEPT !.at = IF GateMode(d) = "snapshot" THEN "quotes" ELSE "missing",
                                  !.day = d, !.mode = GateMode(d), !.cared = core, !.todo = Scope(GateMode(d), core)]
    /\ cutShort' = {}
    /\ UNCHANGED <<clockVars, barVars, loading, loads, mishaps, passedOver, off>>

(* fetchSnapshotWithIsolation: a code that makes a batch fail is found by  *)
(* halving.  Quotes that are missing, of another day or without prices are *)
(* gaps.                                                                   *)
TakeQuotes ==
    /\ update.at = "quotes"
    /\ LET good == {c \in update.todo : tradingDay = update.day /\ update.day \in traded[c]}
       IN  \E lost \in {{}} \cup (IF mishaps > 0 THEN {{c} : c \in good} ELSE {}) :
             /\ mishaps' = mishaps - Cardinality(lost)
             /\ update' = [update EXCEPT !.at = "previous", !.todo = good \ lost,
                                         !.gaps = update.todo \ (good \ lost)]
    /\ UNCHANGED <<clockVars, barVars, loading, loads, marketHistory>>

\* Mutant: only a long gap is noticed, whatever the calendar says.
NeedsReloadByDays(prev, day, jumped) == prev = 0 \/ jumped \/ day - prev > ToleratedGap

(* The last bar is not of the open day before, or its close is far from    *)
(* what the exchange says.                                                 *)
NeedsReload(prev, day, jumped) ==
    prev = 0 \/ (calendarKnown /\ prev # day - 1) \/ jumped \/ day - prev > ToleratedGap

ReadPrevious(c) ==
    /\ update.at = "previous" /\ c \in update.todo
    /\ LET prev == LatestBar(c, update.day)
       IN  \E jumped \in (IF prev = 0 THEN {FALSE} ELSE BOOLEAN) :
             IF NeedsReload(prev, update.day, jumped) /\ c \in update.cared
               THEN /\ loading' = [loading EXCEPT !["update"] =
                          [NoLoad EXCEPT !.at = "fetch", !.code = c, !.from = prev + 1, !.to = update.day, !.marks = TRUE]]
                    /\ update' = [update EXCEPT !.at = "reload", !.todo = @ \ {c}, !.code = c]
               ELSE /\ update' = [update EXCEPT !.at = "append", !.todo = @ \ {c}, !.code = c]
                    /\ UNCHANGED loading
    /\ UNCHANGED <<clockVars, barVars, loads, mishaps, marketHistory>>

\* Mutant: a bar that is there is left as it is.
StoredBarAsBefore(c, new) == [dailyBar EXCEPT ![c] = [d \in Dates |-> IF new[d] # "none" /\ @[d] = "none" THEN new[d] ELSE @[d]]]

(* storeBars: one statement; a bar that is there is replaced.              *)
StoredBar(c, new) == [dailyBar EXCEPT ![c] = [d \in Dates |-> IF new[d] # "none" THEN new[d] ELSE @[d]]]

(* Holes that a load of somebody else, an update for a past day, a code    *)
(* that is only appended to, or a calendar that lacks the day leaves.      *)
PassOver(c, excused) ==
    passedOver' = (passedOver \cup (IF excused THEN {<<c, d>> : d \in Holes(c, dailyBar'[c])} ELSE {}))
                     \ {<<c, d>> : d \in {e \in Dates : dailyBar'[c][e] # "none"}}

\* Mutant: what is appended keeps its averages.
ToAverageReloaded(c, cares) == update.dirty

(* Only what is looked after is averaged every day.                        *)
ToAverage(c, cares) == IF cares THEN update.dirty \cup {c} ELSE update.dirty

AppendBar ==
    /\ update.at = "append"
    /\ LET c == update.code
           cares == c \in update.cared
       IN  /\ dailyBar' = StoredBar(c, [d \in Dates |-> IF d = update.day THEN "final" ELSE "none"])
           /\ PassOver(c, ~cares \/ ~calendarKnown)
           /\ update' = [update EXCEPT !.at = "previous", !.code = "none", !.dirty = ToAverage(c, cares)]
           /\ off' = IF cares THEN off ELSE off \cup {c}
    /\ UNCHANGED <<clockVars, average, loading, loads, mishaps, cutShort>>

AppendRefused ==
    /\ update.at = "append" /\ mishaps > 0 /\ mishaps' = mishaps - 1
    /\ update' = [update EXCEPT !.at = "previous", !.code = "none", !.gaps = @ \cup {update.code}]
    /\ UNCHANGED <<clockVars, barVars, loading, loads, marketHistory>>

(* The averages of what was appended, or reloaded, one code at a time.     *)
AverageNext ==
    /\ update.at = "previous" /\ update.todo = {} /\ update.mode = "snapshot"
    /\ IF update.dirty = {}
         THEN update' = [update EXCEPT !.at = "done"] /\ UNCHANGED loading
         ELSE \E c \in update.dirty :
                /\ update' = [update EXCEPT !.at = "averages", !.dirty = @ \ {c}, !.code = c]
                /\ loading' = [loading EXCEPT !["update"] = [NoLoad EXCEPT !.at = "read", !.code = c]]
    /\ UNCHANGED <<clockVars, barVars, loads, mishaps, marketHistory>>

(* backfillDailyCodes: what has no bar of the day.                         *)
FindMissing ==
    /\ update.at = "missing"
    /\ update' = [update EXCEPT !.at = "backfill", !.todo = {c \in update.todo : ~Has(c, update.day)},
                                !.dirty = {c \in update.todo : ~Has(c, update.day)}]
    /\ UNCHANGED <<clockVars, barVars, loading, loads, mishaps, marketHistory>>

BackfillNext(c) ==
    /\ update.at = "backfill" /\ c \in update.todo
    /\ loading' = [loading EXCEPT !["update"] =
          [NoLoad EXCEPT !.at = "fetch", !.code = c, !.to = update.day, !.marks = TRUE]]
    /\ update' = [update EXCEPT !.at = "reload", !.todo = @ \ {c}, !.code = c]
    /\ UNCHANGED <<clockVars, barVars, loads, mishaps, marketHistory>>

\* Mutant: what the history did not have is not looked for.
StillMissingNever(S, d) == {}

StillMissing(S, d) == {c \in S : ~Has(c, d)}

RecheckMissing ==
    /\ update.at = "backfill" /\ update.todo = {}
    /\ update' = [update EXCEPT !.at = "done", !.gaps = @ \cup StillMissing(update.dirty, update.day), !.dirty = {}]
    /\ UNCHANGED <<clockVars, barVars, loading, loads, mishaps, marketHistory>>

EndUpdate ==
    /\ update.at = "done" /\ update' = NoUpdate
    /\ UNCHANGED <<clockVars, barVars, loading, loads, mishaps, marketHistory>>

-----------------------------------------------------------------------------
(* fetchAndStore.                                                          *)

(* A page, an agent or the onboarding of a code.                           *)
LoadOutside(c, from, to) ==
    /\ loading["outside"].at = "none" /\ loads > 0 /\ loads' = loads - 1 /\ from <= to /\ to <= tradingDay
    /\ loading' = [loading EXCEPT !["outside"] =
          [NoLoad EXCEPT !.at = "fetch", !.code = c, !.from = from, !.to = to, !.marks = TRUE]]
    /\ UNCHANGED <<clockVars, barVars, update, mishaps, marketHistory>>

(* What the update does when its load is over, well or not.                *)
LoadEnds(a, failed) ==
    /\ loading' = [loading EXCEPT ![a] = NoLoad]
    /\ update' = IF a = "outside" THEN update
                 ELSE [update EXCEPT !.at = IF update.mode = "snapshot" THEN "previous" ELSE "backfill",
                                     !.code = "none",
                                     !.gaps = IF failed THEN @ \cup {update.code} ELSE @,
                                     !.dirty = IF update.at = "reload" /\ ~failed THEN @ \cup {update.code} ELSE @]

(* fetchKline: the bars of the days; that of today may not be out yet, and *)
(* none at all is an error.                                                *)
Fetch(a) ==
    /\ loading[a].at = "fetch"
    /\ LET l == loading[a]
           days == {d \in traded[l.code] : d >= l.from /\ d <= l.to}
       IN  \E got \in {days, days \ {tradingDay}} :
             IF got = {} THEN LoadEnds(a, TRUE)
               ELSE loading' = [loading EXCEPT ![a].at = "store", ![a].got = {<<d, KindOn(d)>> : d \in got}]
                    /\ UNCHANGED update
    /\ UNCHANGED <<clockVars, barVars, loads, mishaps, marketHistory>>

Store(a) ==
    /\ loading[a].at = "store"
    /\ LET l == loading[a]
           new == [d \in Dates |-> IF \E g \in l.got : g[1] = d THEN (CHOOSE g \in l.got : g[1] = d)[2] ELSE "none"]
       IN  /\ dailyBar' = StoredBar(l.code, new)
           /\ PassOver(l.code, a = "outside" \/ update.mode = "historical")
           /\ cutShort' = IF a = "update" /\ update.mode = "snapshot" /\ new[l.to] = "none"
                            THEN cutShort \cup {l.code} ELSE cutShort
    /\ loading' = [loading EXCEPT ![a].at = "read", ![a].got = {}]
    /\ UNCHANGED <<clockVars, average, update, loads, mishaps, off>>

-----------------------------------------------------------------------------
(* recomputeMa: one query, then a statement for each row that changes.     *)

(* An average stands for the bars it is over; there is none over too few.  *)
WindowOf(b, d) ==
    LET days == {e \in Dates : b[e] # "none" /\ e <= d}
        last == {e \in days : Cardinality({f \in days : f >= e}) <= AverageOf}
    IN  IF b[d] = "none" \/ Cardinality(last) < AverageOf THEN {} ELSE {<<e, b[e]>> : e \in last}

ReadBars(a) ==
    /\ loading[a].at = "read"
    /\ LET c == loading[a].code
           rows == {d \in Dates : Has(c, d) /\ average[c][d] # WindowOf(dailyBar[c], d)}
       IN  /\ loading' = [loading EXCEPT ![a].at = "write", ![a].seen = dailyBar[c], ![a].rows = rows]
           /\ off' = off \ {c}
    /\ UNCHANGED <<clockVars, barVars, update, loads, mishaps, passedOver, cutShort>>

WriteAverage(a) ==
    /\ loading[a].at = "write" /\ loading[a].rows # {}
    /\ LET l == loading[a]
           d == Min(l.rows)
       IN  /\ average' = [average EXCEPT ![l.code][d] = WindowOf(l.seen, d)]
           /\ off' = IF dailyBar[l.code] # l.seen THEN off \cup {l.code} ELSE off
           /\ loading' = [loading EXCEPT ![a].rows = @ \ {d}]
    /\ UNCHANGED <<clockVars, dailyBar, update, loads, mishaps, passedOver, cutShort>>

AveragesDone(a) ==
    /\ loading[a].at = "write" /\ loading[a].rows = {}
    /\ LoadEnds(a, FALSE)
    /\ UNCHANGED <<clockVars, barVars, loads, mishaps, marketHistory>>

(* The provider or a statement fails; who had called is told.              *)
LoadFails(a) ==
    /\ loading[a].at # "none" /\ mishaps > 0 /\ mishaps' = mishaps - 1
    /\ LoadEnds(a, TRUE)
    /\ off' = IF loading[a].at \in {"read", "write"} THEN off \cup {loading[a].code} ELSE off
    /\ UNCHANGED <<clockVars, barVars, loads, passedOver, cutShort>>

(* The process ends; a later update starts anew.                           *)
MarketCrash ==
    /\ mishaps > 0 /\ mishaps' = mishaps - 1
    /\ update # NoUpdate \/ loading["outside"].at # "none"
    /\ update' = NoUpdate /\ loading' = [a \in Loaders |-> NoLoad]
    /\ off' = off \cup update.dirty \cup {loading[a].code : a \in {b \in Loaders : loading[b].at \in {"read", "write"}}}
    /\ UNCHANGED <<clockVars, barVars, loads, passedOver, cutShort>>

-----------------------------------------------------------------------------

MarketNext ==
    \/ Closes \/ NextTradingDay
    \/ \E d \in Dates : StartUpdate(d)
    \/ TakeQuotes \/ AppendBar \/ AppendRefused \/ AverageNext
    \/ FindMissing \/ RecheckMissing \/ EndUpdate
    \/ \E c \in Instruments : ReadPrevious(c) \/ BackfillNext(c)
    \/ \E c \in Instruments, from, to \in Dates : LoadOutside(c, from, to)
    \/ \E a \in Loaders : Fetch(a) \/ Store(a) \/ ReadBars(a) \/ WriteAverage(a) \/ AveragesDone(a) \/ LoadFails(a)
    \/ MarketCrash

MarketSpec == MarketInit /\ [][MarketNext]_marketVars

-----------------------------------------------------------------------------
(* Properties.                                                             *)

\* Every variable of the daily bars keeps its type.
MarketTypeOK ==
    /\ tradingDay \in Dates /\ afterClose \in BOOLEAN /\ core \subseteq Instruments /\ traded \in [Instruments -> SUBSET Dates]
    /\ dailyBar \in [Instruments -> [Dates -> {"none", "partial", "final"}]]
    /\ update.at \in {"idle", "quotes", "missing", "previous", "reload", "append", "averages", "backfill", "done"}
    /\ update.todo \cup update.gaps \cup update.dirty \cup cutShort \cup off \subseteq Instruments
    /\ \A a \in Loaders : loading[a].at \in {"none", "fetch", "store", "read", "write"}
    /\ loads \in 0..Loads /\ mishaps \in 0..Mishaps /\ passedOver \subseteq Instruments \X Dates

\* When an update is over, each code of its scope has the bar of the day or is
\* reported as a gap, but for a reload that did not reach the day.
NothingIsMissed ==
    update.at = "done" => \A c \in Scope(update.mode, update.cared) :
        Has(c, update.day) \/ c \in update.gaps \cup cutShort

\* A day that closed while the update took it has a bar that will not change,
\* whatever a page had loaded before the close.
UpdatedBarsAreFinal ==
    (update.at = "done" /\ update.mode = "snapshot") => \A c \in Instruments \ (update.gaps \cup cutShort) :
        dailyBar[c][update.day] = "final"

\* A code has no hole between its bars but those somebody passed over.
HolesAreAccounted == \A c \in Instruments : \A d \in Holes(c, dailyBar[c]) : <<c, d>> \in passedOver

\* While nobody works on a code its averages are those of its bars, unless two
\* computations overlapped, one failed, or the code is only appended to.
AveragesAreFresh ==
    \A c \in Instruments \ (off \cup update.dirty) :
        (\A a \in Loaders : loading[a].code # c) => \A d \in Dates : average[c][d] = WindowOf(dailyBar[c], d)

\* An update leaves no code of its scope unaccounted for and no bar of an open
\* day behind, no hole opens unnoticed, and averages are of the bars that are
\* there.
BarsAreSound == MarketTypeOK /\ NothingIsMissed /\ UpdatedBarsAreFinal /\ HolesAreAccounted /\ AveragesAreFresh

=============================================================================
