--------------------------- MODULE BacktestEngine ---------------------------
(***************************************************************************)
(* One strategy of a standard backtest, day by day: the kernels that trade *)
(* it (backtest/engine.ts, backtest/research-engine.ts), the container     *)
(* that pauses it (backtest/portfolio-engine.ts) and the settlement that   *)
(* recomputes every day from its fills before it is stored                 *)
(* (backtest/settlement.ts).                                               *)
(*                                                                         *)
(* A day is played in the order of next(): sells and buys at the open, one *)
(* order a step, then everything that looks at the close.  Prices are      *)
(* integers, a lot is one share, an open is the last close or one of its   *)
(* limits.  Which codes have a signal, and the indicators an exit asks for *)
(* are chosen freely at the close.                                         *)
(***************************************************************************)
EXTENDS Integers, Sequences, FiniteSets, SequencesExt, FiniteSetsExt

CONSTANTS
    Codes,          \* plan.codes, in their order
    BarsOf,         \* the bars a code may have on a day
    Kernels,        \* which of the kernels below are tried
    Days,           \* formal days of the input
    InitialCash, MaxPositions, DailyBuyLimit,
    BudgetShare,    \* 1 / position_fraction
    StopPct, MaxHoldingDays, DrawdownPct,
    Window          \* closes a drawdown is measured over (20)

\* right_side_daily_v1 with two of its exit models; the research rules.
Standard == {"simple", "tiered"}
Research == {"left", "swing", "trial"}
Openings == {"last", "limit_down", "limit_up"}
Suspended == [open |-> "none", close |-> 0, capacity |-> 0]

ASSUME EngineAssumption ==
    /\ Codes \subseteq Nat /\ Codes # {} /\ IsFiniteSet(Codes) /\ Kernels \subseteq Standard \cup Research
    /\ DOMAIN BarsOf = Codes
    /\ \A c \in Codes : \A b \in BarsOf[c] :
          b = Suspended \/ (b.open \in Openings /\ b.close \in Nat \ {0} /\ b.capacity \in Nat)
    /\ {InitialCash, MaxPositions, DailyBuyLimit, BudgetShare, Days, Window} \subseteq Nat \ {0}
    /\ {StopPct, MaxHoldingDays, DrawdownPct} \subseteq Nat

VARIABLES
    kernel, circuit,    \* the rule; who pauses it: "kernel", "portfolio", "none"
    bar, lastClose,     \* today's bars; the last close of each code
    held, sells, buys,  \* positions, pending sells and buys of the kernel
    account,            \* cash, fees and equity as the kernel counts
    recent,             \* equity of the last closes
    risk,               \* paused since, stop streak, stops closed today
    calendar,           \* dayIndex and the step of next()
    openSells,          \* sells of today not yet tried
    events,             \* fills and closings of today
    stored, realized,   \* the last day stored; realized results of open lots
    settled,            \* the settlement found no mismatch
    intent              \* history: what the last sell signal of a code asked for and sold

engineVars == <<kernel, circuit, bar, lastClose, held, sells, buys, account, recent, risk, calendar,
                openSells, events, stored, realized, settled, intent>>
fixed == <<kernel, circuit>>

NoPosition == [quantity |-> 0, initial |-> 0, cost |-> 0, entry |-> 0, day |-> 0,
               realized |-> 0, first |-> FALSE, second |-> FALSE, stop |-> 0]
NoSell == [reason |-> "none", quantity |-> 0]
NoIntent == [intended |-> 0, sold |-> 0]
StopReasons == {"stop_loss", "cooldown_stop", "technical_stop", "trailing_stop"}

HeldCodes == {c \in Codes : held[c].quantity > 0}
SellCodes == {c \in Codes : sells[c] # NoSell}
Traded(c) == bar[c] # Suspended

EngineInit ==
    /\ kernel \in Kernels
    /\ circuit \in {"none", "portfolio"} \cup (IF kernel \in Standard THEN {"kernel"} ELSE {})
    /\ bar = [c \in Codes |-> Suspended] /\ lastClose = [c \in Codes |-> 100]
    /\ held = [c \in Codes |-> NoPosition] /\ sells = [c \in Codes |-> NoSell] /\ buys = <<>>
    /\ account = [cash |-> InitialCash, fees |-> 0, equity |-> InitialCash] /\ recent = <<>>
    /\ risk = [since |-> 0, streak |-> 0, fresh |-> 0]
    /\ calendar = [day |-> 0, step |-> "night"] /\ openSells = <<>> /\ events = <<>>
    /\ stored = [cash |-> InitialCash, fees |-> 0, held |-> held, close |-> lastClose, equity |-> InitialCash]
    /\ realized = [c \in Codes |-> 0] /\ settled = TRUE
    /\ intent = [c \in Codes |-> NoIntent]

-----------------------------------------------------------------------------
(* Money.                                                                  *)

\* round(gross * bps / 10 000), with a minimum commission of 1; 1 % each.
Charges(gross, side) ==
    LET rate == (gross + 50) \div 100
    IN  (IF rate > 1 THEN rate ELSE 1) + (IF side = "sell" THEN rate ELSE 0)

\* The cost of q of the shares of a position, rounded half up.
Allocated(position, q) == (position.cost * q + position.quantity \div 2) \div position.quantity

\* Limits are 10 % from the last close.
OpenPrice(c) ==
    CASE bar[c].open = "last" -> lastClose[c]
      [] bar[c].open = "limit_down" -> (lastClose[c] * 90 + 50) \div 100
      [] bar[c].open = "limit_up" -> (lastClose[c] * 110 + 50) \div 100

\* execution(): nothing is sold at the lower limit nor bought at the upper,
\* and nothing traded without volume.
Executable(c, side, price) ==
    LET upper == (lastClose[c] * 110 + 50) \div 100
        lower == (lastClose[c] * 90 + 50) \div 100
    IN  /\ price \in lower..upper /\ bar[c].capacity > 0
        /\ side = "buy" => price < upper
        /\ side = "sell" => price > lower

Fill(c, side, q, price, allocated) ==
    [type |-> "fill", code |-> c, side |-> side, quantity |-> q, gross |-> price * q,
     fees |-> Charges(price * q, side), allocated |-> allocated, pnl |-> 0]
Closing(c, pnl) ==
    [type |-> "closed", code |-> c, side |-> "sell", quantity |-> 0, gross |-> 0,
     fees |-> 0, allocated |-> 0, pnl |-> pnl]

-----------------------------------------------------------------------------
(* The open.                                                               *)

\* Sells in the order of the kernel: stops first, then by code; the research
\* kernel goes by the days they were set on.
Before(c, d) ==
    IF sells[c].reason \in StopReasons THEN sells[d].reason \in StopReasons => c < d
    ELSE sells[d].reason \notin StopReasons /\ c < d
SellOrders ==
    {s \in SetToSeqs(SellCodes) :
        kernel \in Standard => \A i, j \in DOMAIN s : i < j => Before(s[i], s[j])}

\* The days validateDay() lets pass: a bar at most of each code, the
\* suspended ones have none.
ValidDays == {b \in [Codes -> UNION Range(BarsOf)] : \A c \in Codes : b[c] \in BarsOf[c]}

\* next() is called with a day.
OpenDay ==
    /\ calendar.step = "night" /\ calendar.day < Days /\ settled
    /\ bar' \in ValidDays
    /\ calendar' = [day |-> calendar.day + 1, step |-> "open"]
    /\ openSells' \in SellOrders /\ events' = <<>> /\ risk' = [risk EXCEPT !.fresh = 0]
    /\ UNCHANGED <<fixed, lastClose, held, sells, buys, account, recent, stored, realized, settled, intent>>

Min2(a, b) == IF a < b THEN a ELSE b
Wanted(c) == IF sells[c].quantity = 0 THEN held[c].quantity ELSE Min2(sells[c].quantity, held[c].quantity)

CanSell(c) == Traded(c) /\ Executable(c, "sell", OpenPrice(c))

\* What a fill of q leaves pending.  The standard kernel forgets a sell with
\* its first fill, the research kernel when the position is closed.
PendingAfterFill(c, q) ==
    IF kernel \in Standard \/ q = held[c].quantity THEN NoSell ELSE sells[c]

\* The position after a sale: scaled, cheaper, realized.
AfterSale(c, q, gross) ==
    LET p == held[c] IN
    IF q = p.quantity THEN NoPosition
    ELSE [p EXCEPT !.quantity = @ - q, !.cost = @ - Allocated(p, q),
                   !.realized = @ + gross - Charges(gross, "sell") - Allocated(p, q),
                   !.first = @ \/ sells[c].reason \in {"tier1", "left_first", "box_top"},
                   !.second = @ \/ sells[c].reason \in {"tier2", "left_second"}]

\* The streak of stops, when a position is closed.
AfterClosing(reason) ==
    LET streak == IF reason \in StopReasons THEN risk.streak + 1 ELSE 0
    IN  [risk EXCEPT !.streak = streak, !.fresh = IF streak >= 3 THEN streak ELSE @]

\* One pending sell: filled up to the capacity of the day, or kept.
SellNext ==
    /\ calendar.step = "open" /\ openSells # <<>>
    /\ LET c == Head(openSells)
           p == held[c]
           price == OpenPrice(c)
           q == Min2(Wanted(c), bar[c].capacity)
           gross == price * q
           pnl == p.realized + gross - Charges(gross, "sell") - Allocated(p, q)
       IN  IF ~CanSell(c) THEN UNCHANGED <<held, sells, account, risk, events, intent>>
           ELSE /\ account' = [account EXCEPT !.cash = @ + gross - Charges(gross, "sell"),
                                              !.fees = @ + Charges(gross, "sell")]
                /\ held' = [held EXCEPT ![c] = AfterSale(c, q, gross)]
                /\ sells' = [sells EXCEPT ![c] = PendingAfterFill(c, q)]
                /\ intent' = [intent EXCEPT ![c].sold = @ + q]
                /\ LET filled == Append(events, Fill(c, "sell", q, price, Allocated(p, q)))
                   IN  events' = IF q = p.quantity THEN Append(filled, Closing(c, pnl)) ELSE filled
                /\ risk' = IF q = p.quantity THEN AfterClosing(sells[c].reason) ELSE risk
    /\ openSells' = Tail(openSells)
    /\ UNCHANGED <<fixed, bar, lastClose, buys, recent, calendar, stored, realized, settled>>

Paused == risk.since > 0

\* Mutant: room is made for a position when its order is given.
RoomForOrderOnly(c) == TRUE

\* A place is free at the open: the sell that was to make room may have failed.
Room(c) == kernel \in Research \/ Cardinality(HeldCodes) < MaxPositions

\* Mutant: orders given before a pause are still filled.
MayBuyOrdered(c) == held[c].quantity = 0 /\ Traded(c) /\ Room(c)

MayBuy(c) == ~Paused /\ held[c].quantity = 0 /\ Traded(c) /\ Room(c)

\* The price a buy is tried at: the open, up to 5 % above the signal; or
\* where the day breaks through the high of the signal, 2 % above its close.
BuyPrices(order) ==
    LET open == OpenPrice(order.code)
        trigger == (order.close * 102) \div 100
    IN  IF kernel \in Standard THEN {p \in {open} : p * 100 <= order.close * 105}
        ELSE {p \in {IF open > trigger THEN open ELSE trigger} : p * 100 <= order.close * (IF kernel = "left" THEN 103 ELSE 105)}

\* The most that the budget, the capacity and the cash with the fees allow.
Affordable(c, price, budget) ==
    Max({0} \cup {n \in 1..Min2(budget \div price, bar[c].capacity) :
                     n * price + Charges(n * price, "buy") <= Min2(account.cash, budget)})
\* The research kernel takes what the budget buys, or nothing.
Taken(c, price, budget) ==
    LET n == Min2(budget \div price, bar[c].capacity)
    IN  IF kernel \in Standard THEN Affordable(c, price, budget)
        ELSE IF n * price + Charges(n * price, "buy") <= account.cash THEN n ELSE 0

\* The position a fill opens.
NewPosition(q, price, cost, day, stop) ==
    [quantity |-> q, initial |-> q, cost |-> cost, entry |-> price, day |-> day,
     realized |-> 0, first |-> FALSE, second |-> FALSE, stop |-> stop]

\* One pending buy: filled in part or whole, or void.
BuyNext ==
    /\ calendar.step = "open" /\ openSells = <<>> /\ buys # <<>>
    /\ LET c == Head(buys).code
           Void == UNCHANGED <<held, account, events>>
       IN  \/ /\ MayBuy(c)
              /\ \E price \in BuyPrices(Head(buys)), stop \in {93, 98} :
                    LET q == Taken(c, price, Head(buys).budget)
                        paid == price * q + Charges(price * q, "buy")
                    IN  /\ Executable(c, "buy", price) /\ q > 0
                        /\ kernel # "left" => stop = 93
                        /\ held' = [held EXCEPT ![c] = NewPosition(q, price, paid, calendar.day, stop)]
                        /\ account' = [account EXCEPT !.cash = @ - paid, !.fees = @ + Charges(price * q, "buy")]
                        /\ events' = Append(events, Fill(c, "buy", q, price, 0))
           \/ \* (A research day need not break through.)
              /\ MayBuy(c) /\ kernel \in Standard =>
                    \A price \in BuyPrices(Head(buys)) :
                       ~Executable(c, "buy", price) \/ Taken(c, price, Head(buys).budget) = 0
              /\ Void
    /\ buys' = Tail(buys)
    /\ UNCHANGED <<fixed, bar, lastClose, sells, recent, risk, calendar, openSells, stored, realized, settled, intent>>

-----------------------------------------------------------------------------
(* The close: exits.                                                       *)

\* The last close of every code, today's included.
CloseOf == [c \in Codes |-> IF Traded(c) THEN bar[c].close ELSE lastClose[c]]

\* A position gained (or lost) at least pct percent at its close.
Gained(c, pct) == CloseOf[c] * 100 >= held[c].entry * (100 + pct)
Lost(c, pct) == CloseOf[c] * 100 <= held[c].entry * (100 - pct)
HoldingDays(c) == calendar.day - held[c].day + 1
Whole(reason) == [reason |-> reason, quantity |-> 0]
\* A share of the lots, one at least.
Part(reason, c, share) ==
    [reason |-> reason, quantity |-> Min2(held[c].quantity, IF share < 1 THEN 1 ELSE share)]

\* The simple exits, without a take-profit; they are those of trial_start too.
SimpleExit(c) ==
    IF Lost(c, StopPct) THEN Whole("stop_loss")
    ELSE IF HoldingDays(c) >= MaxHoldingDays THEN Whole("max_holding_days") ELSE NoSell

\* production_tiered: the gain at which a profit is protected and the gain
\* that stays protected; hist: MACD turns below the MA10; review: the signal
\* is gone; ma5: the close is under the trailing MA5.
ProtectedAt == {<<50, 35>>, <<30, 20>>, <<15, 10>>, <<8, 8>>}
TieredExit(c, hist, review, ma5) ==
    LET reached == {t \in ProtectedAt : Gained(c, t[1])}
        floor == Max({-10} \cup {t[2] : t \in reached})
        under == CloseOf[c] * 100 <= held[c].entry * (100 + floor)
        tier1 == held[c].initial \div (IF held[c].initial >= 15 THEN 3 ELSE 2)
    IN  IF HoldingDays(c) <= 3 THEN IF Lost(c, 12) THEN Whole("cooldown_stop") ELSE NoSell
        ELSE IF held[c].first /\ ma5 THEN Whole("trailing_stop")
        ELSE IF under THEN Whole(IF reached = {} THEN "technical_stop" ELSE "trailing_stop")
        ELSE IF ~held[c].first /\ Gained(c, 12) THEN Part("tier1", c, tier1)
        ELSE IF held[c].first /\ ~held[c].second /\ Gained(c, 28) THEN Part("tier2", c, held[c].initial \div 3)
        ELSE IF hist THEN Whole("weakness_exit")
        ELSE IF ~held[c].first /\ review THEN Whole("review_exit")
        ELSE IF ~held[c].first /\ HoldingDays(c) >= 5 THEN Whole("time_fallback")
        ELSE NoSell

LeftExit(c) ==
    LET first == held[c].initial \div (IF held[c].initial >= 15 THEN 3 ELSE 2)
    IN  IF CloseOf[c] * 100 <= held[c].entry * held[c].stop THEN Whole("stop_loss")
        ELSE IF ~held[c].first /\ Gained(c, 6) THEN Part("left_first", c, first)
        ELSE IF ~held[c].second /\ Gained(c, 16) THEN Part("left_second", c, held[c].initial \div 4)
        ELSE IF HoldingDays(c) >= MaxHoldingDays THEN Whole("max_holding_days")
        ELSE NoSell

\* swing_box_daily_v1: top: the close is near the top of the box.
SwingExit(c, top) ==
    IF Lost(c, IF HoldingDays(c) <= 10 THEN 25 ELSE 7) THEN Whole("stop_loss")
    ELSE IF ~held[c].first /\ top THEN Part("box_top", c, held[c].quantity \div 2)
    ELSE IF HoldingDays(c) >= MaxHoldingDays THEN Whole("max_holding_days")
    ELSE NoSell

\* What the indicators of the day say of a code.
ExitOf(c, hint) ==
    CASE kernel \in {"simple", "trial"} -> SimpleExit(c)
      [] kernel = "tiered" -> TieredExit(c, hint = "hist", hint = "review", hint = "ma5")
      [] kernel = "left" -> LeftExit(c)
      [] kernel = "swing" -> SwingExit(c, hint = "top")
Hints == CASE kernel = "tiered" -> {"none", "hist", "review", "ma5"}
           [] kernel = "swing" -> {"none", "top"}
           [] OTHER -> {"none"}

\* Mutant: the last signal counts.
MayReplaceAlways(old, new) == TRUE

\* A stop gives way to no other reason; a research sell to nothing.
MayReplace(old, new) ==
    old = NoSell \/ (kernel \in Standard /\ (new.reason \in StopReasons \/ old.reason \notin StopReasons))

SellsAfterClose(hint) ==
    [c \in Codes |->
        IF c \in HeldCodes /\ Traded(c) /\ ExitOf(c, hint[c]) # NoSell /\ MayReplace(sells[c], ExitOf(c, hint[c]))
          THEN ExitOf(c, hint[c]) ELSE sells[c]]

-----------------------------------------------------------------------------
(* The close: equity, risk and orders.                                     *)

\* Mutant: positions are valued before the bars of the day are taken in.
ValuationStale == lastClose

\* A position is worth its close, a suspended one its last.
Valuation == CloseOf

MarketValue == SumFunction([c \in HeldCodes |-> Valuation[c] * held[c].quantity])
Total == account.cash + MarketValue
Recent == IF Len(recent) < Window THEN Append(recent, Total) ELSE Append(Tail(recent), Total)
Peak == Max(Range(Recent))

\* A pause ends on a later day, when the market has recovered.
Recovers(recovery) == recovery /\ calendar.day > risk.since

\* drawdown_circuit and stop_streak_circuit.
Trips == (Peak - Total) * 100 > Peak * DrawdownPct \/ risk.fresh >= 3
RiskAfterClose(recovery) ==
    IF circuit = "none" THEN risk
    ELSE IF Trips THEN [risk EXCEPT !.since = IF Paused THEN @ ELSE calendar.day]
    ELSE IF Paused /\ Recovers(recovery) THEN [risk EXCEPT !.since = 0, !.streak = 0]
    ELSE risk

\* Orders for the candidates in their order.  The standard kernel knows its own
\* pause at once; the container's pause reaches a kernel after its close, so
\* the orders of that day are rejected at the next open.
PausedForOrders(after) == IF circuit = "kernel" THEN after.since > 0 ELSE Paused
Places(pending) ==
    IF kernel \in Standard THEN MaxPositions - Cardinality(HeldCodes) + Cardinality({c \in Codes : pending[c] # NoSell})
    ELSE MaxPositions - Cardinality(HeldCodes)
Orders(candidates, pending, after) ==
    LET room == Max({0, Min2(DailyBuyLimit, Places(pending))})
    IN  IF PausedForOrders(after) THEN <<>>
        ELSE [i \in 1..Min2(Len(candidates), room) |->
                 [code |-> candidates[i], close |-> CloseOf[candidates[i]], budget |-> Total \div BudgetShare]]

\* Signals may come from any traded code that is not held, ranked anyhow.
Candidates == UNION {SetToSeqs(S) : S \in SUBSET {c \in Codes \ HeldCodes : Traded(c)}}

CloseDay ==
    /\ calendar.step = "open" /\ openSells = <<>> /\ buys = <<>>
    /\ \E hint \in [Codes -> Hints], recovery \in BOOLEAN, candidates \in Candidates :
          LET pending == SellsAfterClose(hint)
              after == RiskAfterClose(recovery)
          IN  /\ \A c \in Codes \ HeldCodes : hint[c] = "none"
              /\ recovery => Paused
              /\ sells' = pending
              /\ intent' = [c \in Codes |->
                    IF pending[c] = sells[c] THEN intent[c]
                    ELSE [sold |-> 0, intended |-> IF pending[c].quantity > 0 THEN pending[c].quantity ELSE held[c].quantity]]
              /\ risk' = after
              /\ buys' = Orders(candidates, pending, after)
    /\ account' = [account EXCEPT !.equity = Total] /\ recent' = Recent
    /\ lastClose' = CloseOf
    /\ calendar' = [calendar EXCEPT !.step = "settle"]
    /\ UNCHANGED <<fixed, bar, held, openSells, events, stored, realized, settled>>

-----------------------------------------------------------------------------
(* The settlement.                                                         *)

\* verifySettlement() walks through the events with the holdings of the day
\* before; anything but what the events explain is a mismatch.
Explains(ledger, e) ==
    LET p == ledger.held[e.code]
        cost == IF p.quantity > 0 /\ e.type = "fill" THEN (p.cost * e.quantity + p.quantity \div 2) \div p.quantity ELSE 0
        left == [quantity |-> p.quantity - e.quantity, cost |-> p.cost - cost]
        result == ledger.realized[e.code] + e.gross - e.fees - cost
    IN  IF e.type = "closed"
          THEN [ledger EXCEPT !.ok = @ /\ e.code \in ledger.closing /\ e.pnl = ledger.realized[e.code],
                              !.closing = @ \ {e.code}, !.realized[e.code] = 0]
        ELSE IF e.side = "buy"
          THEN [ledger EXCEPT !.ok = @ /\ p.quantity = 0 /\ ledger.cash >= e.gross + e.fees /\ e.fees = Charges(e.gross, "buy"),
                              !.held[e.code] = [quantity |-> e.quantity, cost |-> e.gross + e.fees],
                              !.cash = @ - e.gross - e.fees, !.fees = @ + e.fees, !.realized[e.code] = 0]
        ELSE [ledger EXCEPT !.ok = @ /\ e.quantity <= p.quantity /\ e.allocated = cost /\ e.fees = Charges(e.gross, "sell")
                                     /\ (left.quantity = 0 => left.cost = 0),
                            !.held[e.code] = left, !.cash = @ + e.gross - e.fees, !.fees = @ + e.fees,
                            !.realized[e.code] = result,
                            !.closing = IF left.quantity = 0 THEN @ \cup {e.code} ELSE @]

Recomputed ==
    FoldLeft(Explains, [ok |-> TRUE, cash |-> stored.cash, fees |-> stored.fees, realized |-> realized, closing |-> {},
                        held |-> [c \in Codes |-> [quantity |-> stored.held[c].quantity, cost |-> stored.held[c].cost]]],
             events)

\* The kernel's day is stored if it is what its events add up to.
SettleDay ==
    /\ calendar.step = "settle"
    /\ LET r == Recomputed
           close == [c \in Codes |-> IF Traded(c) THEN bar[c].close ELSE stored.close[c]]
       IN  /\ settled' = (/\ r.ok /\ r.closing = {} /\ r.cash >= 0
                          /\ r.cash = account.cash /\ r.fees = account.fees
                          /\ \A c \in Codes : r.held[c] = [quantity |-> held[c].quantity, cost |-> held[c].cost]
                          /\ account.equity = r.cash + SumFunction([c \in HeldCodes |-> close[c] * held[c].quantity]))
           /\ realized' = r.realized
           /\ stored' = [cash |-> r.cash, fees |-> r.fees, held |-> held, close |-> close, equity |-> account.equity]
    /\ calendar' = [calendar EXCEPT !.step = "night"] /\ events' = <<>> /\ bar' = [c \in Codes |-> Suspended]
    /\ UNCHANGED <<fixed, lastClose, held, sells, buys, account, recent, risk, openSells, intent>>

EngineNext == OpenDay \/ SellNext \/ BuyNext \/ CloseDay \/ SettleDay

EngineSpec == EngineInit /\ [][EngineNext]_engineVars

-----------------------------------------------------------------------------
(* Properties.                                                             *)

\* Every variable keeps its type.
EngineTypeOK ==
    /\ kernel \in Kernels /\ circuit \in {"none", "kernel", "portfolio"}
    /\ \A c \in Codes : held[c].quantity \in Nat /\ held[c].cost \in Nat /\ intent[c].sold \in Nat
    /\ account \in [cash : Nat, fees : Nat, equity : Nat] /\ Len(recent) <= Window
    /\ risk \in [since : 0..Days, streak : Nat, fresh : Nat]
    /\ calendar \in [day : 0..Days, step : {"night", "open", "settle"}]
    /\ Range(openSells) \subseteq Codes /\ settled \in BOOLEAN

\* The settlement, which trusts nothing but the fills, finds every day of the
\* kernels right: cash, fees, costs, closings and the value of what is held,
\* through partial sales and suspended days.
SettlementAgrees == settled

\* At no time more is held than the plan allows, though orders count on sells
\* that may fail, and nothing is sold that is not held.
WithinLimits ==
    /\ Cardinality(HeldCodes) <= MaxPositions
    /\ \A c \in SellCodes : held[c].quantity > 0

\* While new positions are paused none is opened, be it with orders given
\* before; a pause lasts over the open after it at least.
PausedBuysNothing ==
    [][/\ Paused => \A c \in Codes : held[c].quantity = 0 => held'[c].quantity = 0
       /\ (Paused /\ risk'.since = 0) => calendar.day > risk.since]_engineVars

\* A stop stays pending until a sale, whatever other signals come.
StopIsNotSoftened ==
    [][\A c \in Codes : sells[c].reason \in StopReasons /\ sells'[c].reason \notin StopReasons
           => held'[c].quantity < held[c].quantity]_engineVars

\* A sell signal sells what it asked for: not more, and not less unless it is
\* still pending ("what is left of it is valid from day to day").
SellsWhatWasIntended ==
    \A c \in HeldCodes : intent[c].sold > 0 =>
        /\ intent[c].sold <= intent[c].intended
        /\ sells[c] = NoSell => intent[c].sold = intent[c].intended

\* The days of a backtest are what their fills add up to, no limit of the plan
\* is passed, nothing is bought in a pause, and a stop stays a stop.
BacktestsAddUp == [](SettlementAgrees /\ WithinLimits) /\ PausedBuysNothing /\ StopIsNotSoftened

=============================================================================
