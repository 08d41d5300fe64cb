--------------------------- MODULE PositionsLedger ---------------------------
(***************************************************************************)
(* The holding of one instrument and its stream of events                  *)
(* (modules/positions/repo.ts): portfolio_position is a projection that    *)
(* recordPositionChange keeps beside the events of                         *)
(* portfolio_position_change.  The agents' lock and the lock of the        *)
(* instrument's row let one such transaction run at a time (module         *)
(* Confirmations), so a change, or each change of a batch, is one step.    *)
(*                                                                         *)
(* Money is counted in Grains of a cent, so that the average costs of      *)
(* small holdings are whole numbers; cents are what round2 rounds to.      *)
(* The date of a change is what its author writes: events of one day, and  *)
(* dates before those of earlier events, are entered as they come.  The    *)
(* code reads the date of a purchase only, so the others carry none.       *)
(***************************************************************************)
EXTENDS Integers, Sequences, SequencesExt, FiniteSetsExt

CONSTANTS
    Quantities,          \* of one change
    Fills,               \* pairs of a date and a price in cents a change is entered with
    SignalTypes,         \* entry_signal_type
    SignalDays,          \* days with a passed limit-up assessment of the code
    EventBound           \* bound on the events

Grains == 120960

ASSUME LedgerAssumption ==
    /\ Quantities \subseteq Nat \ {0} /\ Fills \subseteq (Nat \ {0}) \X (Nat \ {0})
    /\ SignalDays \subseteq Nat \ {0} /\ EventBound \in Nat

VARIABLES
    holding,    \* the row of portfolio_position, or NoHolding
    ledger,     \* portfolio_position_change, in the order of its ids
    attention   \* the pool member's attention: of the daily plan, manual, none

ledgerVars == <<holding, ledger, attention>>

NoHolding == [quantity |-> 0, cost |-> 0, opened |-> 0, type |-> "none"]

\* The prices of the fills, in grains.
Prices == {fill[2] * Grains : fill \in Fills}

LedgerInit == holding = NoHolding /\ ledger = <<>> /\ attention \in {"plan", "manual"}

-----------------------------------------------------------------------------
(* Reading the stream.                                                     *)

Indices(kind) == {i \in DOMAIN ledger : ledger[i].kind = kind}

\* listPassedLimitUpSignals: the assessment passed on a day goes by that day.
SignalOn(day) == IF day \in SignalDays THEN day ELSE 0

\* Mutant: every buy of the instrument counts as an entry of this holding.
EntriesEver == {i \in Indices("buy") : ledger[i].signal # 0}

\* The buys dated since the holding was opened that carry an assessment.
EntriesSinceOpened ==
    {i \in Indices("buy") : ledger[i].signal # 0 /\ ledger[i].day >= holding.opened}

\* resolveEntryAuctionSignal: a buy on a signal takes the assessment of its
\* day; a sell inherits the one assessment of the holding's buys, if it is one.
EntrySignal(kind, day, onSignal) ==
    LET entries == {ledger[i].signal : i \in EntriesSinceOpened} IN
    IF kind = "buy" /\ onSignal THEN SignalOn(day)
    ELSE IF kind = "sell" /\ Cardinality(entries) = 1 THEN CHOOSE s \in entries : TRUE
    ELSE 0

\* round2, half up to the cent.
Round2(x) == ((x + Grains \div 2) \div Grains) * Grains

Event(kind, day, quantity, price, type, signal, pnl) ==
    [kind |-> kind, day |-> day, quantity |-> quantity, price |-> price, type |-> type,
     signal |-> signal, costBefore |-> IF kind = "sell" THEN holding.cost ELSE 0, pnl |-> pnl]

CanRecord == Len(ledger) < EventBound

-----------------------------------------------------------------------------
(* recordPositionChange, one action a kind.                                *)

\* Mutant: an addition is stored like a first purchase.
MergedOverwrites(q, price, type) == [holding EXCEPT !.quantity = q, !.cost = price, !.type = type]

\* An addition averages the cost; its signal is the new view of the holding,
\* the day of the opening stays, whatever the addition is dated.
Merged(q, price, type) ==
    [holding EXCEPT !.quantity = @ + q,
                    !.cost = (holding.quantity * holding.cost + q * price) \div (holding.quantity + q),
                    !.type = type]

Buy(q, day, price, type, onSignal) ==
    /\ CanRecord
    /\ ledger' = Append(ledger, Event("buy", day, q, price, type, EntrySignal("buy", day, onSignal), 0))
    /\ holding' = IF holding.quantity = 0
                    THEN [quantity |-> q, cost |-> price, opened |-> day, type |-> type]
                    ELSE Merged(q, price, type)
    /\ attention' = IF attention = "plan" THEN "none" ELSE attention

\* What is left after a sale: the row goes when nothing is.
LeftAfter(q) == IF q = holding.quantity THEN NoHolding ELSE [holding EXCEPT !.quantity = @ - q]

\* Mutant: the result of a sale is cut off at the cent.
RealizedCutOff(q, price) == ((q * (price - holding.cost)) \div Grains) * Grains

\* The result of a sale against the cost before it.
Realized(q, price) == Round2(q * (price - holding.cost))

\* No more than is held is sold; when it was bought is not asked.
Sell(q, price) ==
    /\ CanRecord /\ holding # NoHolding /\ q <= holding.quantity
    /\ ledger' = Append(ledger, Event("sell", 0, q, price, "none", EntrySignal("sell", 0, FALSE),
                                      Realized(q, price)))
    /\ holding' = LeftAfter(q)
    /\ UNCHANGED attention

\* A correction of the quantity, the cost or both; 0 leaves one as it is.
Adjust(q, price) ==
    /\ CanRecord /\ holding # NoHolding /\ <<q, price>> # <<0, 0>>
    /\ ledger' = Append(ledger, Event("adjust", 0, q, price, "none", 0, 0))
    /\ holding' = [holding EXCEPT !.quantity = IF q = 0 THEN @ ELSE q,
                                  !.cost = IF price = 0 THEN @ ELSE price]
    /\ UNCHANGED attention

RecordNote ==
    /\ CanRecord
    /\ ledger' = Append(ledger, Event("note", 0, 0, 0, "none", 0, 0))
    /\ UNCHANGED <<holding, attention>>

-----------------------------------------------------------------------------
(* updatePositionEntrySignalType                                           *)

\* Mutant: the first buy of the holding is corrected.
CorrectedFirst(S) == Min(S)

\* The latest buy of the holding: by day, then by id.
Corrected(S) == CHOOSE i \in S : \A j \in S : ledger[j].day < ledger[i].day
                                              \/ (ledger[j].day = ledger[i].day /\ j <= i)

CorrectType(type) ==
    LET buys == {i \in Indices("buy") : ledger[i].day >= holding.opened}
        corrected == IF buys = {} THEN ledger
                     ELSE [ledger EXCEPT ![Corrected(buys)].type = type]
    IN  /\ CanRecord /\ holding # NoHolding
        /\ holding' = [holding EXCEPT !.type = type]
        /\ ledger' = Append(corrected, Event("note", 0, 0, 0, "none", 0, 0))
        /\ UNCHANGED attention

LedgerNext ==
    \/ \E q \in Quantities, fill \in Fills, type \in SignalTypes, onSignal \in BOOLEAN :
          Buy(q, fill[1], fill[2] * Grains, type, onSignal)
    \/ \E q \in Quantities, price \in Prices : Sell(q, price)
    \/ \E q \in Quantities \cup {0}, price \in Prices \cup {0} : Adjust(q, price)
    \/ RecordNote
    \/ \E type \in SignalTypes : CorrectType(type)

LedgerSpec == LedgerInit /\ [][LedgerNext]_ledgerVars

-----------------------------------------------------------------------------
(* Properties.                                                             *)

\* Every variable keeps its type.
LedgerTypeOK ==
    /\ holding = NoHolding \/ holding \in [quantity : Nat \ {0}, cost : Nat \ {0},
                                           opened : Nat \ {0}, type : SignalTypes]
    /\ \A i \in DOMAIN ledger : ledger[i].kind \in {"buy", "sell", "adjust", "note"}
    /\ attention \in {"plan", "manual", "none"}

\* The quantity after the first i events, read from the stream alone.
QuantityAfter[i \in 0..EventBound] ==
    IF i = 0 THEN 0
    ELSE LET e == ledger[i] IN
         CASE e.kind = "buy" -> QuantityAfter[i - 1] + e.quantity
           [] e.kind = "sell" -> QuantityAfter[i - 1] - e.quantity
           [] e.kind = "adjust" /\ e.quantity # 0 -> e.quantity
           [] OTHER -> QuantityAfter[i - 1]

\* The first event of the holding an event belongs to: nothing was held before.
CycleStart(i) == Max({1} \cup {j \in 2..i : QuantityAfter[j - 1] = 0})

\* The row is what the stream of events adds up to, over sales that clear the
\* holding, purchases that open it again and corrections.
HoldingIsProjection == holding.quantity = QuantityAfter[Len(ledger)]

\* What an event books: a purchase its price; a sale its result less what it
\* brought.
Booked(e) ==
    CASE e.kind = "buy" -> e.quantity * e.price
      [] e.kind = "sell" -> e.pnl - e.quantity * e.price
      [] OTHER -> 0

\* Twice what may be rounded: half a cent of a sale, a grain a share of what
\* is held after a purchase.
Rounded(e, quantity) ==
    CASE e.kind = "buy" -> 2 * quantity
      [] e.kind = "sell" -> Grains
      [] OTHER -> 0

BookedAfter[i \in 0..EventBound] == IF i = 0 THEN 0 ELSE BookedAfter[i - 1] + Booked(ledger[i])
RoundedAfter[i \in 0..EventBound] ==
    IF i = 0 THEN 0 ELSE RoundedAfter[i - 1] + Rounded(ledger[i], QuantityAfter[i])

\* Money neither appears nor disappears: what the purchases cost and the sales
\* realized, less what these brought, is what is still held at cost, up to the
\* rounding.  (A correction of a holding breaks the account.)
ResultsAddUp ==
    Indices("adjust") = {} =>
        LET error == BookedAfter[Len(ledger)] - holding.quantity * holding.cost
            rounded == RoundedAfter[Len(ledger)]
        IN  2 * error <= rounded /\ -rounded <= 2 * error

\* The dates of the first i - 1 purchases tell the holding of event i from the
\* earlier ones: its buys, and no other, are dated since its opening.
DatesTellApart(i) ==
    \A j \in Indices("buy") :
        j < i /\ ledger[j].signal # 0 => (j >= CycleStart(i) <=> ledger[j].day >= ledger[CycleStart(i)].day)

\* A sale is attributed to the one assessment on which its own holding was
\* bought, never to one of an earlier holding of the instrument - as far as
\* the dates tell them apart, by which alone the code looks the buys up: a
\* holding cleared and opened again on one day, or a purchase dated before
\* the opening of its holding, is beyond it.
SaleInheritsItsEntry ==
    \A i \in Indices("sell") :
        (ledger[i].signal # 0 /\ DatesTellApart(i)) =>
            /\ \E j \in CycleStart(i)..(i - 1) : ledger[j].kind = "buy" /\ ledger[j].signal = ledger[i].signal
            /\ \A j \in CycleStart(i)..(i - 1) :
                  ledger[j].kind = "buy" => ledger[j].signal \in {0, ledger[i].signal}

\* The row shows the signal type of the latest buy of the holding, corrected
\* or not - unless a purchase entered earlier is dated later, which the
\* correction then takes for the latest.
TypeFollowsLatestBuy ==
    LET buys == {i \in Indices("buy") : i >= CycleStart(Len(ledger))}
        latest == Max(buys)
    IN  (holding # NoHolding /\ buys # {} /\ \A i \in Indices("buy") : ledger[i].day <= ledger[latest].day)
            => holding.type = ledger[latest].type

\* The holding is what its events add up to, in shares and in money; a sale
\* belongs to the entry it closes, a correction of the type reaches the latest
\* buy.
LedgerAddsUp == HoldingIsProjection /\ ResultsAddUp /\ SaleInheritsItsEntry /\ TypeFollowsLatestBuy

=============================================================================
