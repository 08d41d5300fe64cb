------------------------ MODULE BacktestEngineProofs ------------------------
(***************************************************************************)
(* Proofs about the days of a backtest, for any codes and bars, any number *)
(* of days, positions and purchases, and every kernel: what it owns always *)
(* adds up to the orders it booked, so that the settlement never finds a   *)
(* difference, and the places, the pause and the stops are kept.           *)
(*                                                                         *)
(* The induction rests on BookInv: at every moment, not only at the end of *)
(* a day, the account and the positions are what a walk over the orders so *)
(* far explains.  That the places suffice rests on PlacesInv, which counts *)
(* the purchases a research kernel will still make with the positions.     *)
(***************************************************************************)
EXTENDS BacktestEngine, SequenceTheorems, FiniteSetTheorems, WellFoundedInduction, TLAPS

-----------------------------------------------------------------------------
(* The inductive invariant.                                                *)

Reasons == StopReasons \cup {"none", "max_holding_days", "tier1", "tier2", "weakness_exit", "review_exit",
                             "time_fallback", "left_first", "left_second", "box_top"}
PositionType ==
    [quantity : Nat, initial : Nat, cost : Nat, entry : Nat, day : Nat, realized : Int,
     first : BOOLEAN, second : BOOLEAN, stop : Nat]
SellType == [reason : Reasons, quantity : Nat]
OrderType == [code : Codes, close : Nat \ {0}, budget : Nat]
FillType ==
    [type : {"fill", "closed"}, code : Codes, side : {"buy", "sell"}, quantity : Nat, gross : Nat,
     fees : Nat, allocated : Nat, pnl : Int]
LotType == [quantity : Int, cost : Int]
BookType ==
    [ok : BOOLEAN, cash : Int, fees : Int, realized : [Codes -> Int], closing : SUBSET Codes,
     held : [Codes -> LotType]]

TypesInv ==
    /\ kernel \in Kernels /\ circuit \in {"none", "kernel", "portfolio"}
    /\ \A c \in Codes : Traded(c) => bar[c].open \in Openings /\ bar[c].close \in Nat \ {0} /\ bar[c].capacity \in Nat
    /\ lastClose \in [Codes -> Nat \ {0}] /\ held \in [Codes -> PositionType] /\ sells \in [Codes -> SellType]
    /\ buys \in Seq(OrderType) /\ account \in [cash : Nat, fees : Nat, equity : Nat]
    /\ recent \in Seq(Nat) /\ Len(recent) <= Window
    /\ risk \in [since : 0..Days, streak : Nat, fresh : Nat]
    /\ calendar \in [day : 0..Days, step : {"night", "open", "settle"}]
    /\ openSells \in Seq(Codes) /\ events \in Seq(FillType) /\ intent \in [Codes -> [intended : Nat, sold : Nat]]

\* A sell is pending for what is held only, and is tried once a day.
OrdersInv ==
    /\ \A c \in SellCodes : held[c].quantity > 0
    /\ \A i \in 1..Len(openSells) : openSells[i] \in SellCodes
    /\ \A i, j \in 1..Len(openSells) : i # j => openSells[i] # openSells[j]
    /\ openSells # <<>> => calendar.step = "open"

\* The plan's places hold what is held; a research kernel buys without looking
\* again, so for it the orders are counted in.
PlacesInv ==
    /\ Cardinality(HeldCodes) <= MaxPositions
    /\ kernel \in Research => Cardinality(HeldCodes) + Len(buys) <= MaxPositions

\* A book of the settlement says what the kernel's account and positions say.
Matches(b, kept, positions) ==
    /\ b \in BookType /\ b.ok /\ b.closing = {} /\ b.cash = kept.cash /\ b.fees = kept.fees
    /\ \A c \in Codes : /\ b.held[c] = [quantity |-> positions[c].quantity, cost |-> positions[c].cost]
                        /\ b.realized[c] = positions[c].realized

\* After every fill, what the settlement would recompute of the events so far
\* is the account; nothing happens at night.
BookInv == Matches(Recomputed, account, held) /\ settled /\ (calendar.step = "night" => events = <<>>)

\* The closes the settlement uses are the kernel's.
CloseInv ==
    IF calendar.step = "settle"
      THEN /\ lastClose = [c \in Codes |-> IF Traded(c) THEN bar[c].close ELSE stored.close[c]]
           /\ account.equity = account.cash + SumFunction([c \in HeldCodes |-> lastClose[c] * held[c].quantity])
      ELSE stored.close = lastClose

EngineInv == TypesInv /\ OrdersInv /\ PlacesInv /\ BookInv /\ CloseInv

-----------------------------------------------------------------------------
(* Numbers, lists and folds.                                               *)

\* A set of numbers with a member has a least one.
LEMMA LeastOf ==
    ASSUME NEW T, T \subseteq Nat, T # {}
    PROVE  \E x \in T : \A y \in T : x <= y
<1>1. \E x \in T : \A y \in T : ~ (<<y, x>> \in OpToRel(<, Nat))
  BY NatLessThanWellFounded, WFMin
<1>2. \A x, y \in T : <<y, x>> \in OpToRel(<, Nat) <=> y < x
  BY DEF OpToRel
<1>3. \A x, y \in T : ~(y < x) => x <= y
  OBVIOUS
<1> QED BY <1>1, <1>2, <1>3

\* A set of numbers up to n with a member has a greatest one.
LEMMA MaxUpTo ==
    ASSUME NEW n \in Nat, NEW T, T \subseteq 0..n, T # {}
    PROVE  Max(T) \in T /\ \A y \in T : y <= Max(T)
<1> DEFINE U == {n - i : i \in T}
<1>1. U \subseteq Nat /\ U # {}
  <2>1. \A i \in T : i \in Nat /\ i <= n /\ n - i \in Nat
    OBVIOUS
  <2> QED BY <2>1
<1>2. PICK u \in U : \A v \in U : u <= v
  <2> HIDE DEF U
  <2> QED BY <1>1, LeastOf
<1>3. PICK x \in T : u = n - x
  OBVIOUS
<1>4. \A y \in T : n - x <= n - y
  BY <1>2, <1>3
<1>8. \A y \in T : y \in Int
  OBVIOUS
<1> HIDE DEF U
<1>5. \E z \in T : \A y \in T : z >= y
  BY <1>4, <1>8
<1>6. Max(T) \in T /\ \A y \in T : Max(T) >= y
  BY <1>5 DEF Max
<1>7. \A y \in T : Max(T) \in Int /\ y \in Int
  BY <1>6, <1>8
<1> QED BY <1>6, <1>7

-----------------------------------------------------------------------------
(* Sums.                                                                   *)

SumsOf(g, D, f) ==
    g = [s \in SUBSET D |-> IF s = {} THEN 0 ELSE LET x == CHOOSE c \in s : TRUE IN f[x] + g[s \ {x}]]

LEMMA SumUnfolds ==
    ASSUME NEW f PROVE SumFunction(f) = (CHOOSE g : SumsOf(g, DOMAIN f, f))[DOMAIN f]
BY DEF SumsOf, SumFunction, SumFunctionOnSet, FoldFunctionOnSet, MapThenFoldSet

\* A sum of amounts is an amount.
LEMMA SumIsNat ==
    ASSUME NEW D, IsFiniteSet(D), NEW f, \A c \in D : f[c] \in Nat, DOMAIN f = D
    PROVE  SumFunction(f) \in Nat
<1> PICK pick : pick = [s \in SUBSET D |-> CHOOSE c \in s : TRUE]
  OBVIOUS
<1>1. \A s \in SUBSET D : s # {} => pick[s] \in s /\ pick[s] \in D
  <2> SUFFICES ASSUME NEW s \in SUBSET D, s # {} PROVE pick[s] \in s
    OBVIOUS
  <2>1. pick[s] = CHOOSE c \in s : TRUE
    OBVIOUS
  <2> QED BY <2>1
<1> DEFINE Small(k) == {s \in SUBSET D : Cardinality(s) <= k}
<1> DEFINE Solves(g, k) == g = [s \in Small(k) |-> IF s = {} THEN 0 ELSE f[pick[s]] + g[s \ {pick[s]}]]
<1>2. \A s \in SUBSET D : IsFiniteSet(s) /\ Cardinality(s) \in Nat /\ Cardinality(s) <= Cardinality(D)
  BY FS_Subset, FS_CardinalityType
<1>3. \A s \in SUBSET D : s # {} => /\ s \ {pick[s]} \in SUBSET D
                                     /\ Cardinality(s \ {pick[s]}) = Cardinality(s) - 1
  <2> SUFFICES ASSUME NEW s \in SUBSET D, s # {}
               PROVE  s \ {pick[s]} \in SUBSET D /\ Cardinality(s \ {pick[s]}) = Cardinality(s) - 1
    OBVIOUS
  <2> PICK x : x = pick[s]
    OBVIOUS
  <2>1. x \in s /\ IsFiniteSet(s)
    BY <1>1, <1>2
  <2>2. Cardinality(s \ {x}) = Cardinality(s) - 1
    BY <2>1, FS_RemoveElement
  <2> QED BY <2>2
<1>4. \A s \in SUBSET D : Cardinality(s) = 0 => s = {}
  BY <1>2, FS_EmptySet
<1>5. \A k \in Nat : \E g : Solves(g, k)
  <2> DEFINE Bad == {k \in Nat : ~ \E g : Solves(g, k)}
  <2> SUFFICES ASSUME Bad # {} PROVE FALSE
    OBVIOUS
  <2>1. PICK n \in Bad : \A m \in Bad : n <= m
    <3>1. Bad \subseteq Nat
      OBVIOUS
    <3> HIDE DEF Bad
    <3> QED BY <3>1, LeastOf
  <2>2. n \in Nat /\ ~ \E g : Solves(g, n)
    OBVIOUS
  <2>3. CASE n = 0
    <3> DEFINE g == [s \in Small(0) |-> 0]
    <3>1. \A s \in Small(0) : s = {}
      BY <1>2, <1>4
    <3>2. g = [s \in Small(0) |-> IF s = {} THEN 0 ELSE f[pick[s]] + g[s \ {pick[s]}]]
      BY <3>1
    <3> QED BY <2>2, <2>3, <3>2
  <2>4. CASE n # 0
    <3>1. n - 1 \in Nat /\ ~(n <= n - 1)
      BY <2>2, <2>4
    <3>2. \E g : Solves(g, n - 1)
      BY <2>1, <3>1
    <3>3. PICK g : Solves(g, n - 1)
      BY <3>2
    <3> DEFINE h == [s \in Small(n) |-> IF s = {} THEN 0 ELSE f[pick[s]] + g[s \ {pick[s]}]]
    <3>4. \A t \in Small(n - 1) : t \in Small(n) /\ h[t] = g[t]
      <4> SUFFICES ASSUME NEW t \in Small(n - 1) PROVE t \in Small(n) /\ h[t] = g[t]
        OBVIOUS
      <4>1. t \in Small(n)
        BY <1>2, <3>1
      <4>2. g[t] = IF t = {} THEN 0 ELSE f[pick[t]] + g[t \ {pick[t]}]
        BY <3>3
      <4> QED BY <4>1, <4>2
    <3>5. \A s \in Small(n) : s # {} => s \ {pick[s]} \in Small(n - 1)
      <4> SUFFICES ASSUME NEW s \in Small(n), s # {} PROVE s \ {pick[s]} \in Small(n - 1)
        OBVIOUS
      <4> PICK t : t = s \ {pick[s]}
        OBVIOUS
      <4> PICK k : k = Cardinality(s)
        OBVIOUS
      <4>1. s \in SUBSET D /\ k <= n /\ k \in Nat
        BY <1>2
      <4>2. t \in SUBSET D /\ Cardinality(t) = k - 1
        BY <1>3, <4>1
      <4>3. Cardinality(t) <= n - 1
        BY <2>2, <4>1, <4>2
      <4> QED BY <4>2, <4>3
    <3>6. \A s \in Small(n) : h[s] = IF s = {} THEN 0 ELSE f[pick[s]] + h[s \ {pick[s]}]
      <4> SUFFICES ASSUME NEW s \in Small(n) PROVE h[s] = IF s = {} THEN 0 ELSE f[pick[s]] + h[s \ {pick[s]}]
        OBVIOUS
      <4>1. h[s] = IF s = {} THEN 0 ELSE f[pick[s]] + g[s \ {pick[s]}]
        OBVIOUS
      <4>2. s # {} => h[s \ {pick[s]}] = g[s \ {pick[s]}]
        BY <3>4, <3>5
      <4> HIDE DEF h
      <4> QED BY <4>1, <4>2
    <3>7. h = [s \in Small(n) |-> h[s]]
      OBVIOUS
    <3> PICK hh : hh = h
      OBVIOUS
    <3>8. Solves(hh, n)
      <4> HIDE DEF h
      <4> QED BY <3>6, <3>7
    <3> HIDE DEF Solves, h
    <3> QED BY <2>2, <3>8
  <2> QED BY <2>3, <2>4
<1>6. \E g : SumsOf(g, D, f)
  <2>1. Cardinality(D) \in Nat
    BY FS_CardinalityType
  <2>2. PICK g : Solves(g, Cardinality(D))
    <3> HIDE DEF Solves
    <3> QED BY <1>5, <2>1
  <2>3. Small(Cardinality(D)) = SUBSET D
    BY <1>2
  <2>4. g = [s \in SUBSET D |-> IF s = {} THEN 0 ELSE f[pick[s]] + g[s \ {pick[s]}]]
    BY <2>2, <2>3
  <2>5. g = [s \in SUBSET D |-> IF s = {} THEN 0 ELSE LET x == CHOOSE c \in s : TRUE IN f[x] + g[s \ {x}]]
    <3> PICK v : v = [s \in SUBSET D |-> IF s = {} THEN 0 ELSE LET x == CHOOSE c \in s : TRUE IN f[x] + g[s \ {x}]]
      OBVIOUS
    <3> PICK w : w = [s \in SUBSET D |-> IF s = {} THEN 0 ELSE f[pick[s]] + g[s \ {pick[s]}]]
      OBVIOUS
    <3>1. \A s \in SUBSET D : v[s] = w[s]
      <4> SUFFICES ASSUME NEW s \in SUBSET D PROVE v[s] = w[s]
        OBVIOUS
      <4> PICK x : x = CHOOSE c \in s : TRUE
        OBVIOUS
      <4>1. pick[s] = x
        OBVIOUS
      <4> PICK y : y = pick[s]
        OBVIOUS
      <4>2. w[s] = IF s = {} THEN 0 ELSE f[y] + g[s \ {y}]
        <5>1. w[s] = IF s = {} THEN 0 ELSE f[pick[s]] + g[s \ {pick[s]}]
          OBVIOUS
        <5> QED BY <5>1
      <4>3. v[s] = IF s = {} THEN 0 ELSE f[x] + g[s \ {x}]
        OBVIOUS
      <4> QED BY <4>1, <4>2, <4>3
    <3> QED BY <2>4, <3>1
  <2> QED BY <2>5 DEF SumsOf
<1> PICK g : g = CHOOSE h : SumsOf(h, D, f)
  OBVIOUS
<1>7. SumsOf(g, D, f)
  BY <1>6
<1>8. \A s \in SUBSET D : g[s] = IF s = {} THEN 0 ELSE f[pick[s]] + g[s \ {pick[s]}]
  <2> SUFFICES ASSUME NEW s \in SUBSET D PROVE g[s] = IF s = {} THEN 0 ELSE f[pick[s]] + g[s \ {pick[s]}]
    OBVIOUS
  <2> PICK x : x = CHOOSE c \in s : TRUE
    OBVIOUS
  <2>1. pick[s] = x
    OBVIOUS
  <2> PICK v : v = [r \in SUBSET D |-> IF r = {} THEN 0 ELSE LET c == CHOOSE d \in r : TRUE IN f[c] + g[r \ {c}]]
    OBVIOUS
  <2>2. g = v
    BY <1>7 DEF SumsOf
  <2>3. v[s] = IF s = {} THEN 0 ELSE f[x] + g[s \ {x}]
    OBVIOUS
  <2>4. CASE s = {}
    BY <2>2, <2>3, <2>4
  <2>5. CASE s # {}
    <3>1. g[s] = f[x] + g[s \ {x}]
      BY <2>2, <2>3, <2>5
    <3> QED BY <2>1, <2>5, <3>1
  <2> QED BY <2>4, <2>5
<1>9. \A s \in SUBSET D : g[s] \in Nat
  <2> DEFINE Bad == {k \in Nat : \E s \in SUBSET D : Cardinality(s) = k /\ g[s] \notin Nat}
  <2> SUFFICES ASSUME Bad # {} PROVE FALSE
    BY <1>2
  <2>1. PICK n \in Bad : \A m \in Bad : n <= m
    <3>1. Bad \subseteq Nat
      OBVIOUS
    <3> HIDE DEF Bad
    <3> QED BY <3>1, LeastOf
  <2>2. PICK s \in SUBSET D : Cardinality(s) = n /\ g[s] \notin Nat
    OBVIOUS
  <2>3. s # {}
    <3>1. g[s] = IF s = {} THEN 0 ELSE f[pick[s]] + g[s \ {pick[s]}]
      BY <1>8
    <3> QED BY <2>2, <3>1
  <2> PICK t : t = s \ {pick[s]}
    OBVIOUS
  <2>4. t \in SUBSET D /\ Cardinality(t) = n - 1 /\ n - 1 \in Nat /\ ~(n <= n - 1)
    <3>1. t \in SUBSET D /\ Cardinality(t) = n - 1
      BY <1>3, <2>2, <2>3
    <3>2. Cardinality(t) \in Nat /\ n \in Nat
      BY <1>2, <2>2, <3>1
    <3> QED BY <3>1, <3>2
  <2>5. g[t] \in Nat
    BY <2>1, <2>4
  <2>6. g[s] = f[pick[s]] + g[t] /\ f[pick[s]] \in Nat
    BY <1>1, <1>8, <2>3
  <2> QED BY <2>2, <2>5, <2>6
<1> QED
  BY <1>9, SumUnfolds

-----------------------------------------------------------------------------
(* The settlement walks through the events.                                *)

WalksOf(g, b, ev, n) ==
    g = [s \in SUBSET (1..n) |-> IF s = {} THEN b ELSE LET x == Max(s) IN Explains(g[s \ {x}], ev[x])]

LEMMA WalkUnfolds ==
    ASSUME NEW b, NEW S, NEW ev \in Seq(S)
    PROVE  FoldLeft(Explains, b, ev) = (CHOOSE g : WalksOf(g, b, ev, Len(ev)))[1..Len(ev)]
<1>1. DOMAIN ev = 1..Len(ev)
  OBVIOUS
<1> QED BY <1>1 DEF WalksOf, FoldLeft, MapThenFoldSet

\* A walk exists, whatever the events are: one over fewer can be continued.
LEMMA WalkExists == \A b, ev : \A n \in Nat : \E g : WalksOf(g, b, ev, n)
<1> SUFFICES ASSUME NEW b, NEW ev PROVE \A n \in Nat : \E g : WalksOf(g, b, ev, n)
  OBVIOUS
<1> DEFINE Bad == {n \in Nat : ~ \E g : WalksOf(g, b, ev, n)}
<1> SUFFICES ASSUME Bad # {} PROVE FALSE
  OBVIOUS
<1>1. PICK n \in Bad : \A m \in Bad : n <= m
  <2>1. Bad \subseteq Nat
    OBVIOUS
  <2> HIDE DEF Bad
  <2> QED BY <2>1, LeastOf
<1>2. n \in Nat /\ ~ \E g : WalksOf(g, b, ev, n)
  OBVIOUS
<1>3. CASE n = 0
  <2> DEFINE g == [s \in SUBSET (1..0) |-> b]
  <2>1. \A s \in SUBSET (1..0) : s = {}
    OBVIOUS
  <2>2. g = [s \in SUBSET (1..0) |-> IF s = {} THEN b ELSE LET x == Max(s) IN Explains(g[s \ {x}], ev[x])]
    BY <2>1
  <2>3. WalksOf(g, b, ev, 0)
    BY <2>2 DEF WalksOf
  <2> HIDE DEF g
  <2> QED BY <1>2, <1>3, <2>3
<1>4. CASE n # 0
  <2>1. n - 1 \in Nat /\ ~(n <= n - 1)
    BY <1>2, <1>4
  <2>2. PICK g : WalksOf(g, b, ev, n - 1)
    BY <1>1, <2>1
  <2>3. \A s \in SUBSET (1..(n - 1)) : g[s] = IF s = {} THEN b ELSE LET x == Max(s) IN Explains(g[s \ {x}], ev[x])
    <3> SUFFICES ASSUME NEW s \in SUBSET (1..(n - 1))
                 PROVE  g[s] = IF s = {} THEN b ELSE LET x == Max(s) IN Explains(g[s \ {x}], ev[x])
      OBVIOUS
    <3> PICK v : v = [r \in SUBSET (1..(n - 1)) |-> IF r = {} THEN b ELSE LET x == Max(r) IN Explains(g[r \ {x}], ev[x])]
      OBVIOUS
    <3>1. g = v
      BY <2>2 DEF WalksOf
    <3>2. v[s] = IF s = {} THEN b ELSE LET x == Max(s) IN Explains(g[s \ {x}], ev[x])
      OBVIOUS
    <3> QED BY <3>1, <3>2
  <2> DEFINE h == [s \in SUBSET (1..n) |-> IF s = {} THEN b ELSE LET x == Max(s) IN Explains(g[s \ {x}], ev[x])]
  <2>4. \A t \in SUBSET (1..(n - 1)) : h[t] = g[t]
    <3> SUFFICES ASSUME NEW t \in SUBSET (1..(n - 1)) PROVE h[t] = g[t]
      OBVIOUS
    <3>1. t \in SUBSET (1..n)
      BY <2>1
    <3>2. h[t] = IF t = {} THEN b ELSE LET x == Max(t) IN Explains(g[t \ {x}], ev[x])
      BY <3>1
    <3> QED BY <2>3, <3>2
  <2>5. \A s \in SUBSET (1..n) : s # {} => s \ {Max(s)} \in SUBSET (1..(n - 1))
    <3> SUFFICES ASSUME NEW s \in SUBSET (1..n), s # {}, NEW i \in s \ {Max(s)} PROVE i \in 1..(n - 1)
      OBVIOUS
    <3>1. s \subseteq 0..n
      BY <1>2
    <3> PICK x : x = Max(s)
      OBVIOUS
    <3>2. x \in s /\ i <= x
      BY <1>2, <3>1, MaxUpTo
    <3>3. i \in 1..n /\ x \in 1..n /\ i # x
      BY <3>2
    <3> QED BY <1>2, <3>2, <3>3
  <2>6. \A s \in SUBSET (1..n) : h[s] = IF s = {} THEN b ELSE LET x == Max(s) IN Explains(h[s \ {x}], ev[x])
    <3> SUFFICES ASSUME NEW s \in SUBSET (1..n)
                 PROVE  h[s] = IF s = {} THEN b ELSE LET x == Max(s) IN Explains(h[s \ {x}], ev[x])
      OBVIOUS
    <3>1. h[s] = IF s = {} THEN b ELSE LET x == Max(s) IN Explains(g[s \ {x}], ev[x])
      OBVIOUS
    <3>2. s # {} => h[s \ {Max(s)}] = g[s \ {Max(s)}]
      BY <2>4, <2>5
    <3> HIDE DEF h
    <3> QED BY <3>1, <3>2
  <2>7. h = [s \in SUBSET (1..n) |-> h[s]]
    OBVIOUS
  <2> PICK hh : hh = h
    OBVIOUS
  <2>8. WalksOf(hh, b, ev, n)
    <3> HIDE DEF h
    <3> QED BY <2>6, <2>7 DEF WalksOf
  <2> HIDE DEF h
  <2> QED BY <1>2, <2>8
<1> QED BY <1>3, <1>4

\* What a walk over the first n events comes to, for each set of them.
Walked(g, b, ev, n) ==
    \A s \in SUBSET (1..n) : g[s] = IF s = {} THEN b ELSE Explains(g[s \ {Max(s)}], ev[Max(s)])

LEMMA WalkAt ==
    ASSUME NEW b, NEW ev, NEW n, NEW g, WalksOf(g, b, ev, n)
    PROVE  Walked(g, b, ev, n)
<1> SUFFICES ASSUME NEW s \in SUBSET (1..n)
             PROVE  g[s] = IF s = {} THEN b ELSE Explains(g[s \ {Max(s)}], ev[Max(s)])
  BY DEF Walked
<1> PICK v : v = [r \in SUBSET (1..n) |-> IF r = {} THEN b ELSE LET x == Max(r) IN Explains(g[r \ {x}], ev[x])]
  OBVIOUS
<1>1. g = v
  BY DEF WalksOf
<1>2. v[s] = IF s = {} THEN b ELSE LET x == Max(s) IN Explains(g[s \ {x}], ev[x])
  OBVIOUS
<1> QED BY <1>1, <1>2

\* Without events the book is the one of the day before.
LEMMA WalkOverNothing == ASSUME NEW b PROVE FoldLeft(Explains, b, <<>>) = b
<1>1. <<>> \in Seq({}) /\ Len(<<>>) = 0
  OBVIOUS
<1> PICK g : g = CHOOSE h : WalksOf(h, b, <<>>, 0)
  OBVIOUS
<1>2. WalksOf(g, b, <<>>, 0)
  BY WalkExists
<1>3. {} \in SUBSET (1..0) /\ 1..0 = {} /\ 0 \in Nat
  OBVIOUS
<1>4. g[{}] = b
  <2>1. Walked(g, b, <<>>, 0)
    BY <1>2, WalkAt
  <2> QED BY <1>3, <2>1 DEF Walked
<1>5. FoldLeft(Explains, b, <<>>) = g[1..0]
  BY <1>1, WalkUnfolds
<1> QED BY <1>3, <1>4, <1>5

LEMMA WalkExistsAs ==
    ASSUME NEW b, NEW S, NEW ev \in Seq(S)
    PROVE  \E g : Walked(g, b, ev, Len(ev)) /\ FoldLeft(Explains, b, ev) = g[1..Len(ev)]
<1>1. \E g : WalksOf(g, b, ev, Len(ev))
  <2>1. Len(ev) \in Nat
    OBVIOUS
  <2> QED BY <2>1, WalkExists
<1>2. FoldLeft(Explains, b, ev) = (CHOOSE h : WalksOf(h, b, ev, Len(ev)))[1..Len(ev)]
  BY WalkUnfolds
<1>3. \E g : WalksOf(g, b, ev, Len(ev)) /\ FoldLeft(Explains, b, ev) = g[1..Len(ev)]
  BY <1>1, <1>2
<1>4. PICK g : WalksOf(g, b, ev, Len(ev)) /\ FoldLeft(Explains, b, ev) = g[1..Len(ev)]
  BY <1>3
<1>5. Walked(g, b, ev, Len(ev))
  <2> PICK n : n = Len(ev)
    OBVIOUS
  <2>1. WalksOf(g, b, ev, n)
    BY <1>4
  <2> QED BY <2>1, WalkAt
<1> QED BY <1>4, <1>5

\* A walk takes the last event after the others.
GoesOn(k, g, more, n, p) == k[1..p] = Explains(g[1..n], more[p])

\* Two walks over the same first events agree on them.
LEMMA WalksAgree ==
    ASSUME NEW b, NEW ev, NEW more, NEW n \in Nat, NEW p \in Nat, p = n + 1, NEW g, NEW k,
           Walked(g, b, ev, n), Walked(k, b, more, p), \A i \in 1..n : more[i] = ev[i]
    PROVE  GoesOn(k, g, more, n, p)
<1>12. \A s \in SUBSET (1..n) : g[s] = IF s = {} THEN b ELSE Explains(g[s \ {Max(s)}], ev[Max(s)])
  BY DEF Walked
<1>13. \A s \in SUBSET (1..p) : k[s] = IF s = {} THEN b ELSE Explains(k[s \ {Max(s)}], more[Max(s)])
  BY DEF Walked
<1>6. \A m \in Nat : m <= n => \A s \in SUBSET (1..m) : k[s] = g[s]
  <2> DEFINE Bad == {m \in Nat : m <= n /\ ~ \A s \in SUBSET (1..m) : k[s] = g[s]}
  <2> SUFFICES ASSUME Bad # {} PROVE FALSE
    OBVIOUS
  <2>1. PICK m \in Bad : \A i \in Bad : m <= i
    <3>1. Bad \subseteq Nat
      OBVIOUS
    <3> HIDE DEF Bad
    <3> QED BY <3>1, LeastOf
  <2>2. PICK s \in SUBSET (1..m) : k[s] # g[s]
    OBVIOUS
  <2>3. m \in Nat /\ m <= n
    OBVIOUS
  <2>4. s \in SUBSET (1..n) /\ s \in SUBSET (1..p) /\ s \subseteq 0..m
    BY <2>3
  <2>5. g[s] = IF s = {} THEN b ELSE Explains(g[s \ {Max(s)}], ev[Max(s)])
    BY <1>12, <2>4
  <2>6. k[s] = IF s = {} THEN b ELSE Explains(k[s \ {Max(s)}], more[Max(s)])
    BY <1>13, <2>4
  <2>7. s # {}
    BY <2>2, <2>5, <2>6
  <2> PICK x : x = Max(s)
    OBVIOUS
  <2>8. x \in s /\ \A y \in s : y <= x
    BY <2>3, <2>4, <2>7, MaxUpTo
  <2>9. more[x] = ev[x] /\ x \in 1..m /\ m - 1 \in Nat /\ m - 1 <= n /\ ~(m <= m - 1)
    BY <2>3, <2>4, <2>8
  <2>10. s \ {x} \in SUBSET (1..(m - 1))
    <3> SUFFICES ASSUME NEW i \in s \ {x} PROVE i \in 1..(m - 1)
      OBVIOUS
    <3>1. i \in 1..m /\ i <= x /\ i # x
      BY <2>8
    <3> QED BY <2>3, <2>9, <3>1
  <2>11. k[s \ {x}] = g[s \ {x}]
    BY <2>1, <2>9, <2>10
  <2> QED BY <2>2, <2>5, <2>6, <2>7, <2>9, <2>11
<1> PICK all : all = 1..p
  OBVIOUS
<1>7. all \in SUBSET (1..p) /\ all # {} /\ all \subseteq 0..p /\ p \in all
  <2>1. p \in 1..p /\ \A i \in 1..p : i \in 0..p
    OBVIOUS
  <2> QED BY <2>1
<1>8. Max(all) = p
  <2>1. Max(all) \in all /\ p <= Max(all)
    BY <1>7, MaxUpTo
  <2>2. \A x \in all : x <= p /\ x \in Nat
    OBVIOUS
  <2> QED BY <2>1, <2>2
<1>9. all \ {p} = 1..n
  OBVIOUS
<1>10. k[all] = Explains(k[1..n], more[p])
  <2>1. k[all] = Explains(k[all \ {Max(all)}], more[Max(all)])
    BY <1>7, <1>13
  <2> QED BY <1>8, <1>9, <2>1
<1>11. k[1..n] = g[1..n]
  <2>1. \A s \in SUBSET (1..n) : k[s] = g[s]
    BY <1>6
  <2>2. 1..n \in SUBSET (1..n)
    OBVIOUS
  <2> QED BY <2>1, <2>2
<1> QED BY <1>10, <1>11 DEF GoesOn

\* One more event is explained after the others.
LEMMA WalkOverOneMore ==
    ASSUME NEW b, NEW S, NEW ev \in Seq(S), NEW e \in S
    PROVE  FoldLeft(Explains, b, Append(ev, e)) = Explains(FoldLeft(Explains, b, ev), e)
<1> PICK more : more = Append(ev, e)
  OBVIOUS
<1>1. /\ Len(ev) \in Nat /\ more \in Seq(S) /\ Len(more) = Len(ev) + 1 /\ more[Len(ev) + 1] = e
      /\ \A i \in 1..Len(ev) : more[i] = ev[i]
  BY AppendProperties
<1>2. PICK g : Walked(g, b, ev, Len(ev)) /\ FoldLeft(Explains, b, ev) = g[1..Len(ev)]
  BY WalkExistsAs
<1>3. PICK k : Walked(k, b, more, Len(more)) /\ FoldLeft(Explains, b, more) = k[1..Len(more)]
  BY <1>1, WalkExistsAs
<1>4. k[1..Len(more)] = Explains(g[1..Len(ev)], more[Len(more)])
  <2> PICK n : n = Len(ev)
    OBVIOUS
  <2> PICK p : p = Len(more)
    OBVIOUS
  <2>1. n \in Nat /\ p \in Nat /\ p = n + 1 /\ \A i \in 1..n : more[i] = ev[i]
    BY <1>1
  <2>2. Walked(g, b, ev, n) /\ Walked(k, b, more, p)
    BY <1>2, <1>3
  <2>3. GoesOn(k, g, more, n, p)
    BY <2>1, <2>2, WalksAgree
  <2> QED BY <2>3 DEF GoesOn
<1> QED BY <1>1, <1>2, <1>3, <1>4

LEMMA EngineConstants ==
    /\ Codes \subseteq Nat /\ IsFiniteSet(Codes) /\ Kernels \subseteq Standard \cup Research
    /\ InitialCash \in Nat \ {0} /\ MaxPositions \in Nat \ {0} /\ DailyBuyLimit \in Nat \ {0}
    /\ BudgetShare \in Nat \ {0} /\ Days \in Nat \ {0} /\ Window \in Nat \ {0}
BY EngineAssumption

-----------------------------------------------------------------------------
(* Money.                                                                  *)

\* A sale brings at least what it is charged.
LEMMA ChargesAre ==
    ASSUME NEW gross \in Nat
    PROVE  /\ Charges(gross, "buy") \in Nat /\ Charges(gross, "sell") \in Nat
           /\ gross # 0 => Charges(gross, "sell") <= gross
BY DEF Charges

\* What a sale takes of the cost is no more than the cost, and all of it with
\* the last share.
LEMMA AllocatedIs ==
    ASSUME NEW cost \in Nat, NEW all \in Nat \ {0}, NEW q \in 1..all
    PROVE  /\ (cost * q + all \div 2) \div all \in 0..cost
           /\ q = all => (cost * q + all \div 2) \div all = cost
<1> PICK half : half = all \div 2
  OBVIOUS
<1>1. half \in Nat /\ half < all
  OBVIOUS
<1> PICK x : x = cost * q + half
  OBVIOUS
<1>2. cost * q \in Nat /\ cost * q <= cost * all
  OBVIOUS
<1>3. cost * all \in Nat /\ cost * all + all = (cost + 1) * all
  OBVIOUS
<1>4. x \in Nat /\ x < (cost + 1) * all
  BY <1>1, <1>2, <1>3
<1> PICK d : d = x \div all
  OBVIOUS
<1>5. d \in Nat /\ d * all <= x /\ x < (d + 1) * all
  BY <1>4
<1>6. d <= cost
  <2> SUFFICES ASSUME d > cost PROVE FALSE
    BY <1>5
  <2>1. d >= cost + 1
    BY <1>5
  <2>2. d * all >= (cost + 1) * all
    BY <1>5, <2>1
  <2> QED BY <1>3, <1>4, <1>5, <2>2
<1>7. q = all => d >= cost
  <2> SUFFICES ASSUME q = all, d < cost PROVE FALSE
    BY <1>5
  <2>1. d + 1 <= cost
    BY <1>5
  <2>2. (d + 1) * all <= cost * all
    BY <1>5, <2>1
  <2>3. x >= cost * all
    BY <1>1, <1>2
  <2>4. (d + 1) * all \in Nat
    BY <1>5
  <2> QED BY <1>3, <1>4, <1>5, <2>2, <2>3, <2>4
<1> QED BY <1>5, <1>6, <1>7

-----------------------------------------------------------------------------
(* What an event does to a book of the settlement.                         *)

\* The book r is the book b with new entries.
Rewritten(r, b, lots, cash, fees, results, closing) ==
    r = [b EXCEPT !.ok = TRUE, !.held = lots, !.cash = cash, !.fees = fees, !.realized = results, !.closing = closing]
HasEntries(r, lots, cash, fees, results, closing) ==
    /\ r \in BookType /\ r.ok /\ r.held = lots /\ r.cash = cash /\ r.fees = fees
    /\ r.realized = results /\ r.closing = closing

LEMMA BookSet ==
    ASSUME NEW b \in BookType, NEW lots \in [Codes -> LotType], NEW cash \in Int, NEW fees \in Int,
           NEW results \in [Codes -> Int], NEW closing \in SUBSET Codes, NEW r,
           Rewritten(r, b, lots, cash, fees, results, closing)
    PROVE  HasEntries(r, lots, cash, fees, results, closing)
BY DEF BookType, Rewritten, HasEntries

\* A sale as the settlement reads it, and the book r it makes of b.
SaleEntry(e, c, all, cost, q, gross, part) ==
    /\ e \in FillType /\ e.type = "fill" /\ e.code = c /\ e.side = "sell" /\ e.quantity = q /\ e.gross = gross
    /\ e.fees = Charges(gross, "sell") /\ part = (cost * q + all \div 2) \div all /\ e.allocated = part
Holds(b, c, all, cost) == b \in BookType /\ b.ok /\ b.held[c] = [quantity |-> all, cost |-> cost]
SaleInBook(r, b, e, c, all, cost, q, gross, part) ==
    /\ r \in BookType /\ r.ok /\ r.closing = (IF q = all THEN b.closing \cup {c} ELSE b.closing)
    /\ r.cash = b.cash + gross - e.fees /\ r.fees = b.fees + e.fees
    /\ r.held[c] = [quantity |-> all - q, cost |-> cost - part]
    /\ r.realized[c] = b.realized[c] + gross - e.fees - part
    /\ \A d \in Codes \ {c} : r.held[d] = b.held[d] /\ r.realized[d] = b.realized[d]

LEMMA ExplainsSale ==
    ASSUME NEW b, NEW c \in Codes, NEW all \in Nat \ {0}, NEW cost \in Nat, NEW q \in 1..all,
           NEW gross \in Nat, NEW e, NEW part, SaleEntry(e, c, all, cost, q, gross, part), Holds(b, c, all, cost),
           NEW r, r = Explains(b, e)
    PROVE  SaleInBook(r, b, e, c, all, cost, q, gross, part)
<1>0. /\ (cost * q + all \div 2) \div all \in 0..cost
      /\ q = all => (cost * q + all \div 2) \div all = cost
  BY AllocatedIs
<1> SUFFICES ASSUME b \in BookType, e \in FillType,
                    e.type = "fill", e.code = c, e.side = "sell", e.quantity = q, e.gross = gross,
                    e.fees = Charges(gross, "sell"), part = (cost * q + all \div 2) \div all, e.allocated = part,
                    b.ok, b.held[c] = [quantity |-> all, cost |-> cost]
             PROVE  /\ r \in BookType /\ r.ok /\ r.closing = (IF q = all THEN b.closing \cup {c} ELSE b.closing)
                    /\ r.cash = b.cash + gross - e.fees /\ r.fees = b.fees + e.fees
                    /\ r.held[c] = [quantity |-> all - q, cost |-> cost - part]
                    /\ r.realized[c] = b.realized[c] + gross - e.fees - part
                    /\ \A d \in Codes \ {c} : r.held[d] = b.held[d] /\ r.realized[d] = b.realized[d]
  BY DEF SaleEntry, Holds, SaleInBook
<1>1. part \in 0..cost /\ (q = all => part = cost)
  BY <1>0
<1>2. e.fees \in Nat
  BY ChargesAre
<1> PICK left : left = [quantity |-> all - q, cost |-> cost - part]
  OBVIOUS
<1> PICK result : result = b.realized[c] + gross - e.fees - part
  OBVIOUS
<1>3. left \in LotType /\ left.quantity = all - q /\ left.cost = cost - part
  BY <1>1 DEF LotType
<1>4. b.realized[c] \in Int /\ result \in Int
  BY <1>1, <1>2 DEF BookType
<1>5. r = [b EXCEPT !.ok = b.ok /\ q <= all /\ part = part /\ e.fees = Charges(gross, "sell") /\ (left.quantity = 0 => left.cost = 0),
                    !.held[c] = left, !.cash = b.cash + gross - e.fees, !.fees = b.fees + e.fees, !.realized[c] = result,
                    !.closing = IF left.quantity = 0 THEN b.closing \cup {c} ELSE b.closing]
  <2> PICK p : p = b.held[c]
    OBVIOUS
  <2>1. p.quantity = all /\ p.cost = cost /\ p.quantity > 0
    OBVIOUS
  <2> PICK k : k = IF p.quantity > 0 /\ e.type = "fill" THEN (p.cost * e.quantity + p.quantity \div 2) \div p.quantity ELSE 0
    OBVIOUS
  <2>2. k = part
    BY <2>1
  <2>3. r = [b EXCEPT !.ok = b.ok /\ e.quantity <= p.quantity /\ e.allocated = k /\ e.fees = Charges(e.gross, "sell")
                             /\ ([quantity |-> p.quantity - e.quantity, cost |-> p.cost - k].quantity = 0 =>
                                 [quantity |-> p.quantity - e.quantity, cost |-> p.cost - k].cost = 0),
                      !.held[c] = [quantity |-> p.quantity - e.quantity, cost |-> p.cost - k],
                      !.cash = b.cash + e.gross - e.fees, !.fees = b.fees + e.fees,
                      !.realized[c] = b.realized[c] + e.gross - e.fees - k,
                      !.closing = IF [quantity |-> p.quantity - e.quantity, cost |-> p.cost - k].quantity = 0
                                    THEN b.closing \cup {c} ELSE b.closing]
    BY DEF Explains
  <2> QED BY <2>1, <2>2, <2>3
<1>11. PICK h : h = [b.held EXCEPT ![c] = left]
  OBVIOUS
<1>12. PICK z : z = [b.realized EXCEPT ![c] = result]
  OBVIOUS
<1>13. PICK closing : closing = IF q = all THEN b.closing \cup {c} ELSE b.closing
  OBVIOUS
<1>14. PICK cash : cash = b.cash + gross - e.fees
  OBVIOUS
<1>15. PICK fees : fees = b.fees + e.fees
  OBVIOUS
<1>6. h \in [Codes -> LotType] /\ h[c] = left /\ \A d \in Codes \ {c} : h[d] = b.held[d]
  BY <1>3, <1>11 DEF BookType
<1>7. z \in [Codes -> Int] /\ z[c] = result /\ \A d \in Codes \ {c} : z[d] = b.realized[d]
  BY <1>4, <1>12 DEF BookType
<1>8. Rewritten(r, b, h, cash, fees, z, closing)
  <2>1. closing = IF left.quantity = 0 THEN b.closing \cup {c} ELSE b.closing
    BY <1>3, <1>13
  <2>2. r = [b EXCEPT !.ok = b.ok /\ q <= all /\ part = part /\ e.fees = Charges(gross, "sell") /\ (left.quantity = 0 => left.cost = 0),
                      !.held[c] = left, !.cash = cash, !.fees = fees, !.realized[c] = result, !.closing = closing]
    BY <1>5, <1>14, <1>15, <2>1
  <2>3. b.ok /\ q <= all /\ part = part /\ e.fees = Charges(gross, "sell") /\ (left.quantity = 0 => left.cost = 0)
    BY <1>1, <1>3
  <2>4. r = [b EXCEPT !.ok = TRUE, !.held[c] = left, !.cash = cash, !.fees = fees, !.realized[c] = result, !.closing = closing]
    BY <2>2, <2>3
  <2> QED BY <1>11, <1>12, <2>4 DEF Rewritten
<1>9. cash \in Int /\ fees \in Int /\ closing \in SUBSET Codes
  BY <1>2, <1>13, <1>14, <1>15 DEF BookType
<1>10. HasEntries(r, h, cash, fees, z, closing)
  BY <1>6, <1>7, <1>8, <1>9, BookSet
<1> QED BY <1>3, <1>6, <1>7, <1>10, <1>13, <1>14, <1>15 DEF HasEntries

LEMMA ExplainsBuy ==
    ASSUME NEW b \in BookType, NEW c \in Codes, NEW q \in Nat, NEW gross \in Nat, NEW e \in FillType,
           e.type = "fill", e.code = c, e.side = "buy", e.quantity = q, e.gross = gross,
           e.fees = Charges(gross, "buy"), b.ok, b.held[c].quantity = 0, b.cash >= gross + e.fees,
           NEW r, r = Explains(b, e)
    PROVE  /\ r \in BookType /\ r.ok /\ r.closing = b.closing
           /\ r.cash = b.cash - gross - e.fees /\ r.fees = b.fees + e.fees
           /\ r.held[c] = [quantity |-> q, cost |-> gross + e.fees] /\ r.realized[c] = 0
           /\ \A d \in Codes \ {c} : r.held[d] = b.held[d] /\ r.realized[d] = b.realized[d]
<1>2. e.fees \in Nat
  BY ChargesAre
<1> PICK left : left = [quantity |-> q, cost |-> gross + e.fees]
  OBVIOUS
<1>3. left \in LotType
  BY <1>2 DEF LotType
<1>5. r = [b EXCEPT !.ok = b.ok /\ b.held[c].quantity = 0 /\ b.cash >= gross + e.fees /\ e.fees = Charges(gross, "buy"),
                    !.held[c] = left, !.cash = b.cash - gross - e.fees, !.fees = b.fees + e.fees, !.realized[c] = 0]
  <2> PICK p : p = b.held[c]
    OBVIOUS
  <2>1. r = [b EXCEPT !.ok = b.ok /\ p.quantity = 0 /\ b.cash >= e.gross + e.fees /\ e.fees = Charges(e.gross, "buy"),
                      !.held[c] = [quantity |-> e.quantity, cost |-> e.gross + e.fees],
                      !.cash = b.cash - e.gross - e.fees, !.fees = b.fees + e.fees, !.realized[c] = 0]
    BY DEF Explains
  <2> QED BY <2>1
<1>11. PICK h : h = [b.held EXCEPT ![c] = left]
  OBVIOUS
<1>12. PICK z : z = [b.realized EXCEPT ![c] = 0]
  OBVIOUS
<1>13. PICK closing : closing = b.closing
  OBVIOUS
<1>14. PICK cash : cash = b.cash - gross - e.fees
  OBVIOUS
<1>15. PICK fees : fees = b.fees + e.fees
  OBVIOUS
<1>6. h \in [Codes -> LotType] /\ h[c] = left /\ \A d \in Codes \ {c} : h[d] = b.held[d]
  BY <1>3, <1>11 DEF BookType
<1>7. z \in [Codes -> Int] /\ z[c] = 0 /\ \A d \in Codes \ {c} : z[d] = b.realized[d]
  BY <1>12 DEF BookType
<1>8. Rewritten(r, b, h, cash, fees, z, closing)
  <2>1. r = [b EXCEPT !.ok = TRUE, !.held[c] = left, !.cash = cash, !.fees = fees, !.realized[c] = 0]
    BY <1>5, <1>14, <1>15
  <2>2. r = [b EXCEPT !.ok = TRUE, !.held = h, !.cash = cash, !.fees = fees, !.realized = z]
    BY <1>11, <1>12, <2>1
  <2>3. [b EXCEPT !.ok = TRUE, !.held = h, !.cash = cash, !.fees = fees, !.realized = z] =
        [b EXCEPT !.ok = TRUE, !.held = h, !.cash = cash, !.fees = fees, !.realized = z, !.closing = closing]
    BY <1>13 DEF BookType
  <2> QED BY <2>2, <2>3 DEF Rewritten
<1>9. cash \in Int /\ fees \in Int /\ closing \in SUBSET Codes
  BY <1>2, <1>13, <1>14, <1>15 DEF BookType
<1>10. HasEntries(r, h, cash, fees, z, closing)
  BY <1>6, <1>7, <1>8, <1>9, BookSet
<1> QED BY <1>6, <1>7, <1>10, <1>13, <1>14, <1>15 DEF HasEntries

LEMMA ExplainsClosing ==
    ASSUME NEW b \in BookType, NEW c \in Codes, NEW e \in FillType, e.type = "closed", e.code = c,
           e.pnl = b.realized[c], b.ok, c \in b.closing, NEW r, r = Explains(b, e)
    PROVE  /\ r \in BookType /\ r.ok /\ r.closing = b.closing \ {c} /\ r.cash = b.cash /\ r.fees = b.fees
           /\ r.held = b.held /\ r.realized[c] = 0 /\ \A d \in Codes \ {c} : r.realized[d] = b.realized[d]
<1>5. r = [b EXCEPT !.ok = b.ok /\ c \in b.closing /\ e.pnl = b.realized[c], !.closing = b.closing \ {c}, !.realized[c] = 0]
  BY DEF Explains
<1>12. PICK z : z = [b.realized EXCEPT ![c] = 0]
  OBVIOUS
<1>13. PICK closing : closing = b.closing \ {c}
  OBVIOUS
<1>7. z \in [Codes -> Int] /\ z[c] = 0 /\ \A d \in Codes \ {c} : z[d] = b.realized[d]
  BY <1>12 DEF BookType
<1>8. Rewritten(r, b, b.held, b.cash, b.fees, z, closing)
  <2>1. r = [b EXCEPT !.ok = TRUE, !.closing = closing, !.realized[c] = 0]
    BY <1>5, <1>13
  <2>2. r = [b EXCEPT !.ok = TRUE, !.closing = closing, !.realized = z]
    BY <1>12, <2>1
  <2>3. [b EXCEPT !.ok = TRUE, !.closing = closing, !.realized = z] =
        [b EXCEPT !.ok = TRUE, !.held = b.held, !.cash = b.cash, !.fees = b.fees, !.realized = z, !.closing = closing]
    BY DEF BookType
  <2> QED BY <2>2, <2>3 DEF Rewritten
<1>9. b.cash \in Int /\ b.fees \in Int /\ closing \in SUBSET Codes /\ b.held \in [Codes -> LotType]
  BY <1>13 DEF BookType
<1>10. HasEntries(r, b.held, b.cash, b.fees, z, closing)
  BY <1>7, <1>8, <1>9, BookSet
<1> QED BY <1>7, <1>10, <1>13 DEF HasEntries

-----------------------------------------------------------------------------
(* What the invariant says of a code.                                      *)

\* The book of the day before, with which a settlement begins.
StartBook ==
    [ok |-> TRUE, cash |-> stored.cash, fees |-> stored.fees, realized |-> realized, closing |-> {},
     held |-> [c \in Codes |-> [quantity |-> stored.held[c].quantity, cost |-> stored.held[c].cost]]]

LEMMA RecomputedIs == Recomputed = FoldLeft(Explains, StartBook, events)
BY DEF Recomputed, StartBook

LEMMA HeldFinite ==
    ASSUME NEW positions, NEW H, H = {c \in Codes : positions[c].quantity > 0}
    PROVE  IsFiniteSet(H) /\ Cardinality(H) \in Nat
<1>1. H \subseteq Codes
  OBVIOUS
<1>2. IsFiniteSet(H)
  BY <1>1, EngineConstants, FS_Subset
<1> QED BY <1>2, FS_CardinalityType

LEMMA OpenPriceIs ==
    ASSUME TypesInv, NEW c \in Codes, Traded(c) PROVE OpenPrice(c) \in Nat \ {0}
<1> PICK last : last = lastClose[c]
  OBVIOUS
<1>1. last \in Nat \ {0} /\ bar[c].open \in {"last", "limit_down", "limit_up"}
  BY DEF TypesInv, Openings
<1>2. (last * 90 + 50) \div 100 \in Nat \ {0} /\ (last * 110 + 50) \div 100 \in Nat \ {0}
  BY <1>1
<1>3. CASE bar[c].open = "last"
  BY <1>1, <1>3 DEF OpenPrice
<1>4. CASE bar[c].open = "limit_down"
  BY <1>2, <1>4 DEF OpenPrice
<1>5. CASE bar[c].open = "limit_up"
  BY <1>2, <1>5 DEF OpenPrice
<1> QED BY <1>1, <1>3, <1>4, <1>5

-----------------------------------------------------------------------------
(* Nothing is held at first.                                               *)

LEMMA EmptyMatches ==
    ASSUME NEW kept, kept.cash \in Int, kept.fees \in Int, NEW positions \in [Codes -> PositionType],
           NEW results \in [Codes -> Int], \A c \in Codes : results[c] = positions[c].realized,
           NEW b, b = [ok |-> TRUE, cash |-> kept.cash, fees |-> kept.fees, realized |-> results, closing |-> {},
                       held |-> [c \in Codes |-> [quantity |-> positions[c].quantity, cost |-> positions[c].cost]]]
    PROVE  Matches(b, kept, positions)
<1>1. PICK lots : lots = [c \in Codes |-> [quantity |-> positions[c].quantity, cost |-> positions[c].cost]]
  OBVIOUS
<1>2. lots \in [Codes -> LotType] /\ \A c \in Codes : lots[c] = [quantity |-> positions[c].quantity, cost |-> positions[c].cost]
  BY <1>1 DEF LotType, PositionType
<1>3. b = [ok |-> TRUE, cash |-> kept.cash, fees |-> kept.fees, realized |-> results, closing |-> {}, held |-> lots]
  BY <1>1
<1>4. /\ b \in BookType /\ b.ok /\ b.cash = kept.cash /\ b.fees = kept.fees /\ b.realized = results /\ b.closing = {}
      /\ b.held = lots
  BY <1>2, <1>3 DEF BookType
<1> QED BY <1>2, <1>4 DEF Matches

LEMMA EngineInitInv == EngineInit => EngineInv
<1> SUFFICES ASSUME EngineInit PROVE EngineInv
  OBVIOUS
<1>1. NoPosition \in PositionType /\ NoPosition.quantity = 0 /\ NoPosition.realized = 0
  BY DEF NoPosition, PositionType
<1>2. NoSell \in SellType /\ NoIntent \in [intended : Nat, sold : Nat] /\ NoIntent.sold = 0
  BY DEF NoSell, SellType, NoIntent, Reasons
<1>3. /\ held \in [Codes -> PositionType] /\ \A c \in Codes : held[c] = NoPosition
      /\ sells \in [Codes -> SellType] /\ \A c \in Codes : sells[c] = NoSell
  BY <1>1, <1>2 DEF EngineInit
<1>4. TypesInv
  <2>1. /\ kernel \in Kernels /\ circuit \in {"none", "kernel", "portfolio"}
        /\ \A c \in Codes : ~Traded(c)
        /\ lastClose \in [Codes -> Nat \ {0}] /\ intent \in [Codes -> [intended : Nat, sold : Nat]]
    BY <1>2 DEF EngineInit, Traded
  <2>2. /\ buys \in Seq(OrderType) /\ recent \in Seq(Nat) /\ Len(recent) <= Window
        /\ openSells \in Seq(Codes) /\ events \in Seq(FillType)
    BY EngineConstants DEF EngineInit
  <2>3. /\ account \in [cash : Nat, fees : Nat, equity : Nat]
        /\ risk \in [since : 0..Days, streak : Nat, fresh : Nat]
        /\ calendar \in [day : 0..Days, step : {"night", "open", "settle"}]
    BY EngineConstants DEF EngineInit
  <2> QED BY <1>3, <2>1, <2>2, <2>3 DEF TypesInv
<1>5. SellCodes = {} /\ HeldCodes = {}
  BY <1>1, <1>3 DEF SellCodes, HeldCodes
<1>6. OrdersInv
  BY <1>5 DEF OrdersInv, EngineInit
<1>7. PlacesInv
  <2>1. Cardinality(HeldCodes) = 0 /\ Len(buys) = 0
    BY <1>5, FS_EmptySet DEF EngineInit
  <2> QED BY <2>1, EngineConstants DEF PlacesInv
<1>8. BookInv
  <2>1. stored.cash = account.cash /\ stored.fees = account.fees /\ stored.held = held
    BY DEF EngineInit
  <2>2. realized \in [Codes -> Int] /\ \A c \in Codes : realized[c] = held[c].realized
    BY <1>1, <1>3 DEF EngineInit
  <2>3. account.cash \in Int /\ account.fees \in Int
    BY <1>4 DEF TypesInv
  <2>4. Matches(StartBook, account, held)
    BY <1>3, <2>1, <2>2, <2>3, EmptyMatches DEF StartBook
  <2>5. Recomputed = StartBook
    BY RecomputedIs, WalkOverNothing DEF EngineInit
  <2> QED BY <2>4, <2>5 DEF BookInv, EngineInit
<1>9. CloseInv
  BY DEF CloseInv, EngineInit
<1> QED BY <1>4, <1>6, <1>7, <1>8, <1>9 DEF EngineInv

-----------------------------------------------------------------------------
(* The open: the sells of the day.                                         *)

LEMMA OpenKeeps == EngineInv /\ OpenDay => EngineInv'
<1> SUFFICES ASSUME EngineInv, OpenDay PROVE EngineInv'
  OBVIOUS
<1> USE DEF EngineInv
<1>1. /\ held' = held /\ sells' = sells /\ buys' = buys /\ account' = account /\ stored' = stored
      /\ realized' = realized /\ lastClose' = lastClose /\ kernel' = kernel /\ settled' = settled
      /\ events' = events
  BY DEF OpenDay, BookInv, fixed
<1>2. openSells' \in Seq(Codes)
      /\ (\A i \in 1..Len(openSells') : openSells'[i] \in SellCodes)
      /\ \A i, j \in 1..Len(openSells') : i # j => openSells'[i] # openSells'[j]
  <2>1. openSells' \in SetToSeqs(SellCodes)
    BY DEF OpenDay, SellOrders
  <2> PICK n : n = Cardinality(SellCodes)
    OBVIOUS
  <2>2. n \in Nat
    <3>1. SellCodes \subseteq Codes
      BY DEF SellCodes
    <3> QED BY <3>1, EngineConstants, FS_Subset, FS_CardinalityType
  <2>3. openSells' \in [1..n -> SellCodes] /\ \A i, j \in 1..n : i # j => openSells'[i] # openSells'[j]
    BY <2>1 DEF SetToSeqs, IsInjective
  <2>4. SellCodes \subseteq Codes
    BY DEF SellCodes
  <2>5. openSells' \in Seq(Codes) /\ Len(openSells') = n
    BY <2>2, <2>3, <2>4
  <2> QED BY <2>3, <2>5
<1>3. TypesInv'
  <2>1. \A c \in Codes : Traded(c)' =>
           bar'[c].open \in Openings /\ bar'[c].close \in Nat \ {0} /\ bar'[c].capacity \in Nat
    <3> SUFFICES ASSUME NEW c \in Codes, bar'[c] # Suspended
                 PROVE  bar'[c].open \in Openings /\ bar'[c].close \in Nat \ {0} /\ bar'[c].capacity \in Nat
      BY DEF Traded
    <3>1. bar'[c] \in BarsOf[c]
      BY DEF OpenDay, ValidDays
    <3> QED BY <3>1, EngineAssumption
  <2>2. calendar' \in [day : 0..Days, step : {"night", "open", "settle"}]
    <3> PICK d : d = calendar.day
      OBVIOUS
    <3>1. d \in 0..Days /\ d < Days /\ calendar' = [day |-> d + 1, step |-> "open"]
      BY DEF OpenDay, TypesInv
    <3> QED BY <3>1, EngineConstants
  <2>3. risk' \in [since : 0..Days, streak : Nat, fresh : Nat]
    BY DEF OpenDay, TypesInv
  <2>4. events' \in Seq(FillType)
    BY <1>1 DEF TypesInv
  <2> QED BY <1>1, <1>2, <2>1, <2>2, <2>3, <2>4 DEF TypesInv, OpenDay, fixed
<1>4. SellCodes' = SellCodes /\ HeldCodes' = HeldCodes
  BY <1>1 DEF SellCodes, HeldCodes
<1>5. OrdersInv'
  BY <1>1, <1>2, <1>4 DEF OrdersInv, OpenDay
<1>6. PlacesInv'
  BY <1>1, <1>4 DEF PlacesInv
<1>7. BookInv'
  <2>1. Recomputed' = Recomputed
    BY <1>1 DEF Recomputed
  <2> QED BY <1>1, <2>1 DEF BookInv, OpenDay, Matches
<1>8. CloseInv'
  BY <1>1 DEF CloseInv, OpenDay
<1> QED BY <1>3, <1>5, <1>6, <1>7, <1>8

\* A position after a sale.
LEMMA PositionScaled ==
    ASSUME NEW p \in PositionType, NEW n \in Nat, NEW cost \in Nat, NEW result \in Int,
           NEW first \in BOOLEAN, NEW second \in BOOLEAN, NEW r,
           r = [p EXCEPT !.quantity = n, !.cost = cost, !.realized = result, !.first = first, !.second = second]
    PROVE  r \in PositionType /\ r.quantity = n /\ r.cost = cost /\ r.realized = result
BY DEF PositionType

LEMMA AfterSaleIs ==
    ASSUME TypesInv, NEW c \in Codes, NEW q \in 1..held[c].quantity, NEW gross \in Nat,
           NEW part, part = Allocated(held[c], q), NEW fee, fee = Charges(gross, "sell"), NEW after, after = AfterSale(c, q, gross)
    PROVE  /\ part \in 0..held[c].cost /\ fee \in Nat
           /\ part = (held[c].cost * q + held[c].quantity \div 2) \div held[c].quantity
           /\ after \in PositionType /\ after.quantity = held[c].quantity - q /\ after.cost = held[c].cost - part
           /\ after.realized = IF q = held[c].quantity THEN 0 ELSE held[c].realized + gross - fee - part
<1> PICK p : p = held[c]
  OBVIOUS
<1>1. p \in PositionType /\ p.quantity \in Nat /\ p.cost \in Nat /\ p.realized \in Int
  BY DEF TypesInv, PositionType
<1>2. part = (p.cost * q + p.quantity \div 2) \div p.quantity
  BY DEF Allocated
<1>3. q \in 1..p.quantity /\ p.quantity \in Nat \ {0}
  BY <1>1
<1>4. part \in 0..p.cost /\ (q = p.quantity => part = p.cost)
  BY <1>1, <1>2, <1>3, AllocatedIs
<1>5. fee \in Nat
  BY ChargesAre
<1>6. CASE q = p.quantity
  <2>1. after = NoPosition
    BY <1>6 DEF AfterSale
  <2>2. after \in PositionType /\ after.quantity = 0 /\ after.cost = 0 /\ after.realized = 0
    BY <2>1 DEF NoPosition, PositionType
  <2> QED BY <1>1, <1>2, <1>4, <1>5, <1>6, <2>2
<1>7. CASE q # p.quantity
  <2> PICK first \in BOOLEAN : first = (p.first \/ sells[c].reason \in {"tier1", "left_first", "box_top"})
    OBVIOUS
  <2> PICK second \in BOOLEAN : second = (p.second \/ sells[c].reason \in {"tier2", "left_second"})
    OBVIOUS
  <2>1. after = [p EXCEPT !.quantity = p.quantity - q, !.cost = p.cost - part,
                          !.realized = p.realized + gross - fee - part, !.first = first, !.second = second]
    BY <1>7 DEF AfterSale
  <2>11. PICK n : n = p.quantity - q
    OBVIOUS
  <2>12. PICK k : k = p.cost - part
    OBVIOUS
  <2>13. PICK z : z = p.realized + gross - fee - part
    OBVIOUS
  <2>2. n \in Nat /\ k \in Nat /\ z \in Int
    BY <1>1, <1>3, <1>4, <1>5, <2>11, <2>12, <2>13
  <2>4. after = [p EXCEPT !.quantity = n, !.cost = k, !.realized = z, !.first = first, !.second = second]
    BY <2>1, <2>11, <2>12, <2>13
  <2>3. after \in PositionType /\ after.quantity = n /\ after.cost = k /\ after.realized = z
    BY <1>1, <2>2, <2>4 DEF PositionType
  <2> QED BY <1>2, <1>4, <1>5, <1>7, <2>3, <2>11, <2>12, <2>13
<1> QED BY <1>6, <1>7

\* What a sale leaves of a position, and what it pays.
Closes(f, c, result) == f \in FillType /\ f.type = "closed" /\ f.code = c /\ f.pnl = result
Leaves(positions, then, c, after, all, q, cost, part, result) ==
    /\ positions[c].quantity = all /\ positions[c].cost = cost /\ then = [positions EXCEPT ![c] = after]
    /\ after.quantity = all - q /\ after.cost = cost - part /\ after.realized = IF q = all THEN 0 ELSE result
Pays(kept, kept2, e, gross) == kept2.cash = kept.cash + gross - e.fees /\ kept2.fees = kept.fees + e.fees

\* The book of the settlement follows a sale, and a closing.
LEMMA SaleMatches ==
    ASSUME NEW b, NEW kept, NEW positions \in [Codes -> PositionType], Matches(b, kept, positions),
           NEW c \in Codes, NEW all \in Nat \ {0}, NEW q \in 1..all, NEW gross \in Nat,
           NEW cost \in Nat, NEW e, NEW part, SaleEntry(e, c, all, cost, q, gross, part),
           NEW result, result = positions[c].realized + gross - e.fees - part,
           NEW f, Closes(f, c, result),
           NEW after, NEW then, Leaves(positions, then, c, after, all, q, cost, part, result),
           NEW kept2, Pays(kept, kept2, e, gross),
           NEW r, r = Explains(b, e), NEW s, s = IF q = all THEN Explains(r, f) ELSE r
    PROVE  Matches(s, kept2, then)
<1>0. /\ positions[c].quantity = all /\ positions[c].cost = cost /\ then = [positions EXCEPT ![c] = after]
      /\ after.quantity = all - q /\ after.cost = cost - part /\ after.realized = IF q = all THEN 0 ELSE result
      /\ kept2.cash = kept.cash + gross - e.fees /\ kept2.fees = kept.fees + e.fees
      /\ f \in FillType /\ f.type = "closed" /\ f.code = c /\ f.pnl = result
  BY DEF Closes, Leaves, Pays
<1>1. /\ b \in BookType /\ b.ok /\ b.closing = {} /\ b.cash = kept.cash /\ b.fees = kept.fees
      /\ \A d \in Codes : /\ b.held[d] = [quantity |-> positions[d].quantity, cost |-> positions[d].cost]
                          /\ b.realized[d] = positions[d].realized
  BY DEF Matches
<1>2. Holds(b, c, all, cost)
  BY <1>0, <1>1 DEF Holds
<1>3. SaleInBook(r, b, e, c, all, cost, q, gross, part)
  BY <1>2, ExplainsSale
<1>5. /\ r \in BookType /\ r.ok /\ r.closing = (IF q = all THEN b.closing \cup {c} ELSE b.closing)
      /\ r.cash = b.cash + gross - e.fees /\ r.fees = b.fees + e.fees
      /\ r.held[c] = [quantity |-> all - q, cost |-> cost - part]
      /\ r.realized[c] = b.realized[c] + gross - e.fees - part
      /\ \A d \in Codes \ {c} : r.held[d] = b.held[d] /\ r.realized[d] = b.realized[d]
  BY <1>3 DEF SaleInBook
<1>6. then[c] = after /\ \A d \in Codes \ {c} : then[d] = positions[d]
  BY <1>0
<1>7. r.realized[c] = result
  BY <1>0, <1>1, <1>5
<1>8. r.held[c] = [quantity |-> then[c].quantity, cost |-> then[c].cost]
  BY <1>0, <1>5, <1>6
<1>9. \A d \in Codes \ {c} : /\ r.held[d] = [quantity |-> then[d].quantity, cost |-> then[d].cost]
                             /\ r.realized[d] = then[d].realized
  BY <1>0, <1>1, <1>5, <1>6
<1>10. CASE q # all
  BY <1>0, <1>1, <1>5, <1>6, <1>7, <1>8, <1>9, <1>10 DEF Matches
<1>11. CASE q = all
  <2>1. r.closing = {c}
    BY <1>0, <1>1, <1>5, <1>11
  <2>2. s = Explains(r, f)
    BY <1>11
  <2>3. f.pnl = r.realized[c] /\ c \in r.closing
    BY <1>0, <1>7, <2>1
  <2>4. /\ s \in BookType /\ s.ok /\ s.closing = r.closing \ {c} /\ s.cash = r.cash /\ s.fees = r.fees
        /\ s.held = r.held /\ s.realized[c] = 0 /\ \A d \in Codes \ {c} : s.realized[d] = r.realized[d]
    <3>1. f \in FillType /\ f.type = "closed" /\ f.code = c /\ r \in BookType /\ r.ok
      BY <1>0, <1>5
    <3> QED BY <2>2, <2>3, <3>1, ExplainsClosing
  <2>5. s.closing = {}
    BY <2>1, <2>4
  <2>6. then[c].realized = 0
    BY <1>0, <1>6, <1>11
  <2> QED BY <1>0, <1>1, <1>5, <1>6, <1>8, <1>9, <2>4, <2>5, <2>6 DEF Matches
<1> QED BY <1>10, <1>11

LEMMA HeldType ==
    ASSUME TypesInv, NEW c \in Codes
    PROVE  /\ held[c] \in PositionType /\ held[c].quantity \in Nat /\ held[c].cost \in Nat
           /\ held[c].realized \in Int /\ held[c].entry \in Nat /\ held[c].day \in Nat
           /\ held[c].initial \in Nat
<1>1. held[c] \in PositionType
  BY DEF TypesInv
<1> QED BY <1>1 DEF PositionType

\* What a sale in the open does, when it can be done.
SaleMade(c, q, price, gross, part, fee) ==
    /\ account' = [account EXCEPT !.cash = account.cash + gross - fee, !.fees = account.fees + fee]
    /\ held' = [held EXCEPT ![c] = AfterSale(c, q, gross)]
    /\ sells' = [sells EXCEPT ![c] = PendingAfterFill(c, q)]
    /\ intent' = [intent EXCEPT ![c].sold = intent[c].sold + q]
    /\ events' = IF q = held[c].quantity
                   THEN Append(Append(events, Fill(c, "sell", q, price, part)),
                               Closing(c, held[c].realized + gross - fee - part))
                   ELSE Append(events, Fill(c, "sell", q, price, part))
    /\ risk' = IF q = held[c].quantity THEN AfterClosing(sells[c].reason) ELSE risk

\* A sell that is tried is of what is held, for a number of its shares.
LEMMA SellIs ==
    ASSUME EngineInv, SellNext, NEW c, c = Head(openSells)
    PROVE  /\ c \in Codes /\ c \in SellCodes /\ held[c].quantity \in Nat \ {0}
           /\ \/ UNCHANGED <<held, sells, account, risk, events, intent>>
              \/ \E q \in 1..held[c].quantity, price \in Nat \ {0} : \E gross, part, fee :
                    /\ gross = price * q /\ part = Allocated(held[c], q) /\ fee = Charges(gross, "sell")
                    /\ SaleMade(c, q, price, gross, part, fee)
<1> USE DEF EngineInv
<1>1. openSells # <<>> /\ openSells \in Seq(Codes)
  BY DEF SellNext, TypesInv
<1>2. c \in Codes /\ c = openSells[1] /\ 1 \in 1..Len(openSells)
  BY <1>1
<1>3. c \in SellCodes
  BY <1>2 DEF OrdersInv
<1>4. held[c].quantity \in Nat \ {0}
  <2>1. held[c].quantity > 0
    BY <1>3 DEF OrdersInv
  <2>2. held[c].quantity \in Nat
    BY <1>2, HeldType
  <2> QED BY <2>1, <2>2
<1>5. CASE ~CanSell(c)
  BY <1>2, <1>3, <1>4, <1>5 DEF SellNext
<1>6. CASE CanSell(c)
  <2> PICK q : q = Min2(Wanted(c), bar[c].capacity)
    OBVIOUS
  <2> PICK price : price = OpenPrice(c)
    OBVIOUS
  <2>1. price \in Nat \ {0}
    BY <1>2, <1>6, OpenPriceIs DEF CanSell
  <2>2. q \in 1..held[c].quantity
    <3>4. Traded(c) /\ bar[c].capacity > 0
      <4> HIDE DEF EngineInv
      <4> QED BY <1>6 DEF CanSell, Executable
    <3>5. Traded(c) => bar[c].capacity \in Nat
      BY <1>2 DEF TypesInv
    <3>1. bar[c].capacity \in Nat \ {0}
      BY <3>4, <3>5
    <3>2. sells[c].quantity \in Nat
      BY <1>2 DEF TypesInv, SellType
    <3>3. Wanted(c) \in 1..held[c].quantity
      BY <1>4, <3>2 DEF Wanted, Min2
    <3> QED BY <1>4, <3>1, <3>3 DEF Min2
  <2> PICK gross : gross = price * q
    OBVIOUS
  <2> PICK part : part = Allocated(held[c], q)
    OBVIOUS
  <2> PICK fee : fee = Charges(gross, "sell")
    OBVIOUS
  <2>3. SaleMade(c, q, price, gross, part, fee)
    BY <1>6 DEF SellNext, SaleMade
  <2> QED BY <1>2, <1>3, <1>4, <2>1, <2>2, <2>3
<1> QED BY <1>5, <1>6

LEMMA TailOfSells ==
    ASSUME EngineInv, SellNext, NEW c, c = Head(openSells)
    PROVE  /\ openSells' \in Seq(Codes) /\ Len(openSells') \in Nat
           /\ \A i \in 1..Len(openSells') : openSells'[i] \in SellCodes \ {c}
           /\ \A i, j \in 1..Len(openSells') : i # j => openSells'[i] # openSells'[j]
<1>1. openSells # <<>> /\ openSells \in Seq(Codes) /\ openSells' = Tail(openSells)
  BY DEF SellNext, TypesInv, EngineInv
<1>2. /\ Tail(openSells) \in Seq(Codes) /\ Len(Tail(openSells)) = Len(openSells) - 1
      /\ \A i \in 1..Len(Tail(openSells)) : Tail(openSells)[i] = openSells[i + 1]
  BY <1>1, HeadTailProperties
<1>3. c = openSells[1] /\ Len(openSells) \in Nat \ {0}
  BY <1>1
<1>4. /\ \A i \in 1..Len(openSells) : openSells[i] \in SellCodes
      /\ \A i, j \in 1..Len(openSells) : i # j => openSells[i] # openSells[j]
  BY DEF EngineInv, OrdersInv
<1> QED BY <1>1, <1>2, <1>3, <1>4

LEMMA FillIs ==
    ASSUME NEW c \in Codes, NEW side \in {"buy", "sell"}, NEW q \in Nat, NEW price \in Nat, NEW part \in Nat,
           NEW gross, gross = price * q, NEW e, e = Fill(c, side, q, price, part)
    PROVE  /\ e \in FillType /\ e.type = "fill" /\ e.code = c /\ e.side = side /\ e.quantity = q
           /\ e.gross = gross /\ e.fees = Charges(gross, side) /\ e.allocated = part
<1>1. gross \in Nat
  OBVIOUS
<1>2. Charges(gross, side) \in Nat
  BY <1>1, ChargesAre
<1> PICK fees : fees = Charges(gross, side)
  OBVIOUS
<1>3. e = [type |-> "fill", code |-> c, side |-> side, quantity |-> q, gross |-> gross, fees |-> fees,
           allocated |-> part, pnl |-> 0]
  BY DEF Fill
<1> QED BY <1>1, <1>2, <1>3 DEF FillType

LEMMA ClosingIs ==
    ASSUME NEW c \in Codes, NEW pnl \in Int, NEW e, e = Closing(c, pnl)
    PROVE  e \in FillType /\ e.type = "closed" /\ e.code = c /\ e.pnl = pnl
BY DEF Closing, FillType

LEMMA SellKeepsTypes ==
    ASSUME EngineInv, SellNext, NEW c \in Codes, held[c].quantity \in Nat \ {0}, NEW q \in 1..held[c].quantity,
           NEW price \in Nat \ {0}, NEW gross, NEW part, NEW fee,
           gross = price * q, part = Allocated(held[c], q), fee = Charges(gross, "sell"),
           SaleMade(c, q, price, gross, part, fee), openSells' \in Seq(Codes)
    PROVE  TypesInv'
<1> USE DEF EngineInv
<1>1. gross \in Nat \ {0}
  OBVIOUS
<1>2. fee \in Nat /\ fee <= gross
  BY <1>1, ChargesAre
<1>3. part \in Nat /\ AfterSale(c, q, gross) \in PositionType
  BY <1>1, AfterSaleIs, HeldType
<1>4. held' \in [Codes -> PositionType]
  BY <1>3 DEF SaleMade, TypesInv
<1>5. sells' \in [Codes -> SellType]
  <2>1. NoSell \in SellType
    BY DEF NoSell, SellType, Reasons
  <2>2. PendingAfterFill(c, q) \in SellType
    BY <2>1 DEF PendingAfterFill, TypesInv
  <2> QED BY <2>2 DEF SaleMade, TypesInv
<1>6. account' \in [cash : Nat, fees : Nat, equity : Nat]
  <2>1. account.cash \in Nat /\ account.fees \in Nat /\ account \in [cash : Nat, fees : Nat, equity : Nat]
    BY DEF TypesInv
  <2>2. account.cash + gross - fee \in Nat /\ account.fees + fee \in Nat
    BY <1>1, <1>2, <2>1
  <2> QED BY <2>1, <2>2 DEF SaleMade
<1>7. risk' \in [since : 0..Days, streak : Nat, fresh : Nat]
  <2>1. risk \in [since : 0..Days, streak : Nat, fresh : Nat]
    BY DEF TypesInv
  <2>2. AfterClosing(sells[c].reason) \in [since : 0..Days, streak : Nat, fresh : Nat]
    <3> PICK s : s = IF sells[c].reason \in StopReasons THEN risk.streak + 1 ELSE 0
      OBVIOUS
    <3>1. s \in Nat
      BY <2>1
    <3>2. AfterClosing(sells[c].reason) = [risk EXCEPT !.streak = s, !.fresh = IF s >= 3 THEN s ELSE risk.fresh]
      BY DEF AfterClosing
    <3> QED BY <2>1, <3>1, <3>2
  <2> QED BY <2>1, <2>2 DEF SaleMade
<1>8. events' \in Seq(FillType)
  <2> PICK e : e = Fill(c, "sell", q, price, part)
    OBVIOUS
  <2> PICK pnl : pnl = held[c].realized + gross - fee - part
    OBVIOUS
  <2> PICK f : f = Closing(c, pnl)
    OBVIOUS
  <2>1. e \in FillType
    BY <1>3, FillIs
  <2>8. held[c].realized \in Int
    BY HeldType
  <2>2. pnl \in Int
    BY <1>1, <1>2, <1>3, <2>8
  <2>3. f \in FillType
    BY <2>2, ClosingIs
  <2>4. events \in Seq(FillType)
    BY DEF TypesInv
  <2>5. events' = IF q = held[c].quantity THEN Append(Append(events, e), f) ELSE Append(events, e)
    BY DEF SaleMade
  <2>6. Append(events, e) \in Seq(FillType)
    BY <2>1, <2>4, AppendProperties
  <2>7. Append(Append(events, e), f) \in Seq(FillType)
    BY <2>3, <2>6, AppendProperties
  <2> QED BY <2>5, <2>6, <2>7
<1>9. intent' \in [Codes -> [intended : Nat, sold : Nat]]
  <2>1. intent[c] \in [intended : Nat, sold : Nat] /\ intent \in [Codes -> [intended : Nat, sold : Nat]]
    BY DEF TypesInv
  <2> PICK n : n = intent[c].sold + q
    OBVIOUS
  <2>2. n \in Nat
    BY <2>1
  <2>3. intent' = [intent EXCEPT ![c] = [intent[c] EXCEPT !.sold = n]]
    BY <2>1 DEF SaleMade
  <2>4. [intent[c] EXCEPT !.sold = n] \in [intended : Nat, sold : Nat]
    BY <2>1, <2>2
  <2> QED BY <2>1, <2>3, <2>4
<1>10. /\ kernel' = kernel /\ circuit' = circuit /\ bar' = bar /\ lastClose' = lastClose /\ buys' = buys
       /\ recent' = recent /\ calendar' = calendar
  BY DEF SellNext, fixed
<1> QED BY <1>4, <1>5, <1>6, <1>7, <1>8, <1>9, <1>10 DEF TypesInv, Traded

\* The walk, one event on.
Walk(b, ev) == FoldLeft(Explains, b, ev)
LEMMA WalkOn ==
    ASSUME NEW b, NEW ev \in Seq(FillType), NEW e \in FillType
    PROVE  Walk(b, Append(ev, e)) = Explains(Walk(b, ev), e)
BY WalkOverOneMore DEF Walk

LEMMA RecomputedWalk == Recomputed = Walk(StartBook, events)
BY RecomputedIs DEF Walk

\* A sale as the book sees it, in one formula: the hypotheses of SaleMatches.
SaleSeen(b, kept, positions, c, all, q, gross, cost, e, part, result, f, after, then, kept2) ==
    /\ positions \in [Codes -> PositionType] /\ Matches(b, kept, positions)
    /\ c \in Codes /\ all \in Nat \ {0} /\ q \in 1..all /\ gross \in Nat /\ cost \in Nat
    /\ SaleEntry(e, c, all, cost, q, gross, part)
    /\ result = positions[c].realized + gross - e.fees - part
    /\ Closes(f, c, result) /\ Leaves(positions, then, c, after, all, q, cost, part, result)
    /\ Pays(kept, kept2, e, gross)
LEMMA SaleSeenMatches ==
    ASSUME NEW b, NEW kept, NEW positions, NEW c, NEW all, NEW q, NEW gross, NEW cost, NEW e, NEW part, NEW result,
           NEW f, NEW after, NEW then, NEW kept2,
           SaleSeen(b, kept, positions, c, all, q, gross, cost, e, part, result, f, after, then, kept2)
    PROVE  Matches(IF q = all THEN Explains(Explains(b, e), f) ELSE Explains(b, e), kept2, then)
<1> PICK r : r = Explains(b, e)
  OBVIOUS
<1> PICK s : s = IF q = all THEN Explains(r, f) ELSE r
  OBVIOUS
<1>1. Matches(s, kept2, then)
  BY SaleMatches DEF SaleSeen
<1> QED BY <1>1

LEMMA SellKeepsBook ==
    ASSUME EngineInv, SellNext, NEW c \in Codes, held[c].quantity \in Nat \ {0}, NEW q \in 1..held[c].quantity,
           NEW price \in Nat \ {0}, NEW gross, NEW part, NEW fee,
           gross = price * q, part = Allocated(held[c], q), fee = Charges(gross, "sell"),
           SaleMade(c, q, price, gross, part, fee)
    PROVE  BookInv'
<1> PICK all : all = held[c].quantity
  OBVIOUS
<1> PICK cost : cost = held[c].cost
  OBVIOUS
<1> PICK e : e = Fill(c, "sell", q, price, part)
  OBVIOUS
<1>21. PICK result : result = held[c].realized + gross - fee - part
  OBVIOUS
<1> PICK f : f = Closing(c, result)
  OBVIOUS
<1> PICK after : after = AfterSale(c, q, gross)
  OBVIOUS
<1> PICK r : r = Explains(Recomputed, e)
  OBVIOUS
<1> PICK s : s = IF q = all THEN Explains(r, f) ELSE r
  OBVIOUS
<1>1. TypesInv /\ Matches(Recomputed, account, held) /\ settled /\ calendar.step = "open"
  BY DEF EngineInv, BookInv, SellNext
<1>2. gross \in Nat /\ all \in Nat \ {0} /\ q \in 1..all /\ held[c].realized \in Int /\ cost \in Nat
  BY <1>1, HeldType
<1>3. /\ part \in 0..cost /\ fee \in Nat /\ part = (cost * q + all \div 2) \div all
      /\ after \in PositionType /\ after.quantity = all - q /\ after.cost = cost - part
      /\ after.realized = IF q = all THEN 0 ELSE held[c].realized + gross - fee - part
  BY <1>1, <1>2, AfterSaleIs
<1>4. result \in Int
  BY <1>2, <1>3, <1>21
<1>5. /\ e \in FillType /\ e.type = "fill" /\ e.code = c /\ e.side = "sell" /\ e.quantity = q
      /\ e.gross = gross /\ e.fees = Charges(gross, "sell") /\ e.allocated = part
  <2>1. q \in Nat /\ price \in Nat /\ part \in Nat /\ gross = price * q /\ "sell" \in {"buy", "sell"}
    BY <1>2, <1>3
  <2> QED BY <2>1, FillIs, SMTT(40)
<1>6. f \in FillType /\ f.type = "closed" /\ f.code = c /\ f.pnl = result
  BY <1>4, ClosingIs
<1>7. SaleEntry(e, c, all, cost, q, gross, part)
  BY <1>3, <1>5 DEF SaleEntry
<1>8. held \in [Codes -> PositionType] /\ held' = [held EXCEPT ![c] = after]
  BY <1>1 DEF TypesInv, SaleMade
<1>9. account'.cash = account.cash + gross - e.fees /\ account'.fees = account.fees + e.fees
  BY <1>1, <1>5 DEF SaleMade, TypesInv
<1>10. Matches(s, account', held')
  <2>1. result = held[c].realized + gross - e.fees - part
    BY <1>5, <1>21
  <2>2. after.realized = IF q = all THEN 0 ELSE result
    BY <1>3, <1>21
  <2>11. PICK then : then = held'
    OBVIOUS
  <2>12. PICK kept2 : kept2 = account'
    OBVIOUS
  <2>3. Leaves(held, then, c, after, all, q, cost, part, result)
    BY <1>3, <1>8, <2>2, <2>11 DEF Leaves
  <2>4. Pays(account, kept2, e, gross)
    BY <1>9, <2>12 DEF Pays
  <2>5. Closes(f, c, result)
    BY <1>6 DEF Closes
  <2>7. Matches(Recomputed, account, held) /\ held \in [Codes -> PositionType]
    BY <1>1, <1>8
  <2>8. SaleSeen(Recomputed, account, held, c, all, q, gross, cost, e, part, result, f, after, then, kept2)
    BY <1>2, <1>7, <2>1, <2>3, <2>4, <2>5, <2>7 DEF SaleSeen
  <2>9. Matches(IF q = all THEN Explains(Explains(Recomputed, e), f) ELSE Explains(Recomputed, e), kept2, then)
    BY <2>8, SaleSeenMatches
  <2>6. Matches(s, kept2, then)
    BY <2>9
  <2> QED BY <2>6, <2>11, <2>12
<1>11. Recomputed' = Walk(StartBook, events')
  BY DEF Recomputed, StartBook, SellNext, Walk
<1>12. events \in Seq(FillType) /\ events' = IF q = all THEN Append(Append(events, e), f) ELSE Append(events, e)
  BY <1>1, <1>21 DEF TypesInv, SaleMade
<1>13. Walk(StartBook, Append(events, e)) = r
  <2>1. e \in FillType /\ events \in Seq(FillType)
    BY <1>5, <1>12
  <2>2. Walk(StartBook, Append(events, e)) = Explains(Walk(StartBook, events), e)
    BY <2>1, WalkOn
  <2> QED BY <2>2, RecomputedWalk
<1>14. Walk(StartBook, Append(Append(events, e), f)) = Explains(r, f)
  <2> PICK more : more = Append(events, e)
    OBVIOUS
  <2>1. more \in Seq(FillType)
    BY <1>5, <1>12, AppendProperties
  <2>2. f \in FillType
    BY <1>6
  <2>3. Walk(StartBook, Append(more, f)) = Explains(Walk(StartBook, more), f)
    BY <2>1, <2>2, WalkOn
  <2> QED BY <1>13, <2>3
<1>15. Recomputed' = s
  BY <1>11, <1>12, <1>13, <1>14
<1>16. settled' = settled /\ calendar' = calendar
  BY DEF SellNext
<1> QED BY <1>1, <1>10, <1>15, <1>16 DEF BookInv, Matches

LEMMA SaleKeeps == EngineInv /\ SellNext => EngineInv'
<1> SUFFICES ASSUME EngineInv, SellNext PROVE EngineInv'
  OBVIOUS
<1> PICK c : c = Head(openSells)
  OBVIOUS
<1>1. c \in Codes /\ c \in SellCodes /\ held[c].quantity \in Nat \ {0}
  BY SellIs
<1>2. /\ openSells' \in Seq(Codes) /\ Len(openSells') \in Nat
      /\ \A i \in 1..Len(openSells') : openSells'[i] \in SellCodes \ {c}
      /\ \A i, j \in 1..Len(openSells') : i # j => openSells'[i] # openSells'[j]
  BY TailOfSells
<1>3. /\ kernel' = kernel /\ circuit' = circuit /\ bar' = bar /\ lastClose' = lastClose /\ buys' = buys
      /\ recent' = recent /\ calendar' = calendar /\ stored' = stored /\ realized' = realized /\ settled' = settled
      /\ calendar.step = "open"
  BY DEF SellNext, fixed
<1>4. CloseInv'
  BY <1>3 DEF EngineInv, CloseInv
<1>5. CASE UNCHANGED <<held, sells, account, risk, events, intent>>
  <2>1. SellCodes' = SellCodes /\ HeldCodes' = HeldCodes
    BY <1>5 DEF SellCodes, HeldCodes
  <2>2. TypesInv'
    BY <1>2, <1>3, <1>5 DEF EngineInv, TypesInv, Traded
  <2>3. OrdersInv'
    BY <1>2, <1>3, <1>5, <2>1 DEF EngineInv, OrdersInv
  <2>4. PlacesInv'
    BY <1>3, <1>5, <2>1 DEF EngineInv, PlacesInv
  <2>5. Recomputed' = Recomputed
    BY <1>3, <1>5 DEF Recomputed
  <2>6. BookInv'
    BY <1>3, <1>5, <2>5 DEF EngineInv, BookInv, Matches
  <2> QED BY <1>4, <2>2, <2>3, <2>4, <2>6 DEF EngineInv
<1>6. CASE ~UNCHANGED <<held, sells, account, risk, events, intent>>
  <2>1. PICK q \in 1..held[c].quantity, price \in Nat \ {0} : \E gross, part, fee :
                    /\ gross = price * q /\ part = Allocated(held[c], q) /\ fee = Charges(gross, "sell")
                    /\ SaleMade(c, q, price, gross, part, fee)
    BY <1>6, SellIs
  <2>2. PICK gross, part, fee : /\ gross = price * q /\ part = Allocated(held[c], q) /\ fee = Charges(gross, "sell")
                                /\ SaleMade(c, q, price, gross, part, fee)
    BY <2>1
  <2>3. TypesInv'
    BY <1>1, <1>2, <2>2, SellKeepsTypes
  <2>4. BookInv'
    BY <1>1, <2>2, SellKeepsBook
  <2>5. /\ TypesInv /\ held \in [Codes -> PositionType] /\ sells \in [Codes -> SellType]
        /\ \A d \in SellCodes : held[d].quantity > 0
    BY DEF EngineInv, TypesInv, OrdersInv
  <2>6. gross \in Nat /\ AfterSale(c, q, gross).quantity = held[c].quantity - q
    <3>1. gross \in Nat
      BY <1>1, <2>2
    <3> QED BY <1>1, <2>2, <2>5, <3>1, AfterSaleIs
  <2>7. /\ held'[c].quantity = held[c].quantity - q /\ sells'[c] = PendingAfterFill(c, q)
        /\ \A d \in Codes \ {c} : held'[d] = held[d] /\ sells'[d] = sells[d]
    BY <1>1, <2>2, <2>5, <2>6 DEF SaleMade
  <2>8. q = held[c].quantity => sells'[c] = NoSell
    BY <2>7 DEF PendingAfterFill
  <2>9. /\ \A d \in Codes : sells'[d] # NoSell => held'[d].quantity > 0
        /\ \A d \in SellCodes \ {c} : sells'[d] # NoSell
        /\ \A d \in Codes : held'[d].quantity > 0 => held[d].quantity > 0
    BY <1>1, <2>5, <2>7, <2>8 DEF SellCodes
  <2>10. OrdersInv'
    BY <1>2, <1>3, <2>9 DEF OrdersInv, SellCodes
  <2>11. PlacesInv'
    <3> PICK H : H = HeldCodes
      OBVIOUS
    <3> PICK K : K = HeldCodes'
      OBVIOUS
    <3>1. K \subseteq H
      BY <2>9 DEF HeldCodes
    <3>2. IsFiniteSet(H) /\ Cardinality(H) \in Nat
      BY HeldFinite DEF HeldCodes
    <3>3. Cardinality(K) <= Cardinality(H)
      BY <3>1, <3>2, FS_Subset
    <3>4. IsFiniteSet(K) /\ Cardinality(K) \in Nat
      BY <3>1, <3>2, FS_Subset, FS_CardinalityType
    <3>5. Len(buys) \in Nat
      BY <2>5 DEF TypesInv
    <3>6. Cardinality(H) <= MaxPositions /\ (kernel \in Research => Cardinality(H) + Len(buys) <= MaxPositions)
      BY DEF EngineInv, PlacesInv
    <3>7. Cardinality(K) <= MaxPositions /\ (kernel \in Research => Cardinality(K) + Len(buys) <= MaxPositions)
      BY <3>2, <3>3, <3>4, <3>5, <3>6, EngineConstants
    <3> QED BY <1>3, <3>7 DEF PlacesInv
  <2> QED BY <1>4, <2>3, <2>4, <2>10, <2>11 DEF EngineInv
<1> QED BY <1>5, <1>6

-----------------------------------------------------------------------------
(* The open: the buys of the day.                                          *)

\* A buy as the settlement reads it, and what it leaves.
BuyOf(e, c, q, gross) ==
    /\ e \in FillType /\ e.type = "fill" /\ e.code = c /\ e.side = "buy" /\ e.quantity = q /\ e.gross = gross
    /\ e.fees = Charges(gross, "buy")
Opens(positions, then, c, after, q, cost) ==
    /\ positions[c].quantity = 0 /\ then = [positions EXCEPT ![c] = after]
    /\ after.quantity = q /\ after.cost = cost /\ after.realized = 0
Spends(kept, kept2, e, cost) ==
    kept.cash >= cost /\ kept2.cash = kept.cash - cost /\ kept2.fees = kept.fees + e.fees

LEMMA BuyMatches ==
    ASSUME NEW b, NEW kept, NEW positions \in [Codes -> PositionType], Matches(b, kept, positions),
           NEW c \in Codes, NEW q \in Nat, NEW gross \in Nat, NEW e, BuyOf(e, c, q, gross),
           NEW cost, cost = gross + e.fees,
           NEW after, NEW then, Opens(positions, then, c, after, q, cost),
           NEW kept2, Spends(kept, kept2, e, cost), NEW r, r = Explains(b, e)
    PROVE  Matches(r, kept2, then)
<1>0. /\ positions[c].quantity = 0 /\ then = [positions EXCEPT ![c] = after]
      /\ after.quantity = q /\ after.cost = cost /\ after.realized = 0
      /\ kept.cash >= cost /\ kept2.cash = kept.cash - cost /\ kept2.fees = kept.fees + e.fees
  BY DEF Opens, Spends
<1>1. /\ b \in BookType /\ b.ok /\ b.closing = {} /\ b.cash = kept.cash /\ b.fees = kept.fees
      /\ \A d \in Codes : /\ b.held[d] = [quantity |-> positions[d].quantity, cost |-> positions[d].cost]
                          /\ b.realized[d] = positions[d].realized
  BY DEF Matches
<1>2. b.held[c].quantity = 0 /\ b.cash >= gross + e.fees /\ b.ok /\ b \in BookType
  <2>1. b.held[c] = [quantity |-> positions[c].quantity, cost |-> positions[c].cost]
    BY <1>1
  <2>2. b.held[c].quantity = 0
    BY <1>0, <2>1
  <2> QED BY <1>0, <1>1, <2>2
<1>3. /\ e \in FillType /\ e.type = "fill" /\ e.code = c /\ e.side = "buy" /\ e.quantity = q /\ e.gross = gross
      /\ e.fees = Charges(gross, "buy")
  BY DEF BuyOf
<1>4. /\ r \in BookType /\ r.ok /\ r.closing = b.closing
      /\ r.cash = b.cash - gross - e.fees /\ r.fees = b.fees + e.fees
      /\ r.held[c] = [quantity |-> q, cost |-> gross + e.fees] /\ r.realized[c] = 0
      /\ \A d \in Codes \ {c} : r.held[d] = b.held[d] /\ r.realized[d] = b.realized[d]
  BY <1>2, <1>3, ExplainsBuy
<1>5. then[c] = after /\ \A d \in Codes \ {c} : then[d] = positions[d]
  BY <1>0
<1>6. e.fees \in Nat /\ b.cash \in Int
  BY <1>1, <1>3, ChargesAre DEF BookType
<1>7. r.cash = kept2.cash /\ r.fees = kept2.fees
  BY <1>0, <1>1, <1>4, <1>6
<1>8. r.held[c] = [quantity |-> then[c].quantity, cost |-> then[c].cost] /\ r.realized[c] = then[c].realized
  BY <1>0, <1>4, <1>5
<1>9. \A d \in Codes \ {c} : /\ r.held[d] = [quantity |-> then[d].quantity, cost |-> then[d].cost]
                             /\ r.realized[d] = then[d].realized
  BY <1>1, <1>4, <1>5
<1> QED BY <1>1, <1>4, <1>7, <1>8, <1>9 DEF Matches

\* What is taken of an order is paid from the cash.
LEMMA TakenIs ==
    ASSUME NEW c, bar[c].capacity \in Nat, account.cash \in Nat, NEW price \in Nat \ {0}, NEW budget \in Nat,
           NEW q, q = Taken(c, price, budget), q > 0
    PROVE  q \in Nat \ {0} /\ price * q + Charges(price * q, "buy") <= account.cash
<1> PICK n : n = Min2(budget \div price, bar[c].capacity)
  OBVIOUS
<1>1. n \in Nat
  <2>1. budget \div price \in Nat
    OBVIOUS
  <2> QED BY <2>1 DEF Min2
<1>2. CASE kernel \in Standard
  <2> PICK T : T = {k \in 1..n : k * price + Charges(k * price, "buy") <= Min2(account.cash, budget)}
    OBVIOUS
  <2> PICK U : U = {0} \cup T
    OBVIOUS
  <2>1. q = Max(U)
    BY <1>2 DEF Taken, Affordable
  <2>2. U \subseteq 0..n /\ U # {}
    BY <1>1
  <2>3. q \in U
    BY <1>1, <2>1, <2>2, MaxUpTo
  <2>4. q \in 1..n /\ q * price + Charges(q * price, "buy") <= Min2(account.cash, budget)
    BY <2>3
  <2>5. q \in Nat \ {0} /\ q * price = price * q /\ price * q \in Nat
    BY <1>1, <2>4
  <2>6. Charges(price * q, "buy") \in Nat
    BY <2>5, ChargesAre
  <2>7. Min2(account.cash, budget) <= account.cash /\ Min2(account.cash, budget) \in Nat
    BY DEF Min2
  <2> QED BY <2>4, <2>5, <2>6, <2>7
<1>3. CASE kernel \notin Standard
  <2>1. q = IF n * price + Charges(n * price, "buy") <= account.cash THEN n ELSE 0
    BY <1>3 DEF Taken
  <2>2. q = n /\ n * price + Charges(n * price, "buy") <= account.cash
    BY <2>1
  <2>3. n * price = price * n
    BY <1>1
  <2> QED BY <1>1, <2>2, <2>3
<1> QED BY <1>2, <1>3

LEMMA BuyPriceIs ==
    ASSUME TypesInv, NEW order \in OrderType, Traded(order.code), NEW price \in BuyPrices(order)
    PROVE  price \in Nat \ {0}
<1> PICK open : open = OpenPrice(order.code)
  OBVIOUS
<1> PICK trigger : trigger = (order.close * 102) \div 100
  OBVIOUS
<1>1. order.code \in Codes /\ order.close \in Nat \ {0}
  BY DEF OrderType
<1>2. open \in Nat \ {0}
  BY <1>1, OpenPriceIs
<1>3. trigger \in Nat
  BY <1>1
<1>4. price = open \/ price = IF open > trigger THEN open ELSE trigger
  BY DEF BuyPrices
<1> QED BY <1>2, <1>3, <1>4

LEMMA OpenedIs ==
    ASSUME NEW q \in Nat, NEW price \in Nat, NEW cost \in Nat, NEW stop \in Nat, NEW day \in Nat
    PROVE  /\ NewPosition(q, price, cost, day, stop) \in PositionType
           /\ NewPosition(q, price, cost, day, stop).quantity = q /\ NewPosition(q, price, cost, day, stop).cost = cost
           /\ NewPosition(q, price, cost, day, stop).realized = 0
BY DEF NewPosition, PositionType

\* What a buy in the open does, when it can be done.
BuyMade(c, q, price, stop, gross, fee) ==
    /\ held' = [held EXCEPT ![c] = NewPosition(q, price, gross + fee, calendar.day, stop)]
    /\ account' = [account EXCEPT !.cash = account.cash - (gross + fee), !.fees = account.fees + fee]
    /\ events' = Append(events, Fill(c, "buy", q, price, 0))

LEMMA BuyIs ==
    ASSUME EngineInv, BuyNext, NEW c, c = Head(buys).code
    PROVE  /\ c \in Codes /\ buys' \in Seq(OrderType) /\ Len(buys) \in Nat \ {0} /\ Len(buys') = Len(buys) - 1
           /\ \/ UNCHANGED <<held, account, events>>
              \/ /\ MayBuy(c)
                 /\ \E q \in Nat \ {0}, price \in Nat \ {0}, stop \in Nat : \E gross, fee :
                       /\ gross = price * q /\ fee = Charges(gross, "buy") /\ gross + fee <= account.cash
                       /\ BuyMade(c, q, price, stop, gross, fee)
<1> PICK order : order = Head(buys)
  OBVIOUS
<1>1. TypesInv /\ buys \in Seq(OrderType) /\ buys # <<>> /\ buys' = Tail(buys)
  BY DEF EngineInv, TypesInv, BuyNext
<1>2. /\ order \in OrderType /\ buys' \in Seq(OrderType) /\ Len(buys) \in Nat \ {0} /\ Len(buys') = Len(buys) - 1
  BY <1>1, HeadTailProperties
<1>3. c \in Codes /\ order.budget \in Nat
  BY <1>2 DEF OrderType
<1>4. CASE UNCHANGED <<held, account, events>>
  BY <1>2, <1>3, <1>4
<1>5. CASE ~UNCHANGED <<held, account, events>>
  <2>1. PICK price \in BuyPrices(order), stop \in {93, 98} :
           LET q == Taken(c, price, order.budget)
               paid == price * q + Charges(price * q, "buy")
           IN  /\ q > 0
               /\ held' = [held EXCEPT ![c] = NewPosition(q, price, paid, calendar.day, stop)]
               /\ account' = [account EXCEPT !.cash = account.cash - paid, !.fees = account.fees + Charges(price * q, "buy")]
               /\ events' = Append(events, Fill(c, "buy", q, price, 0))
    BY <1>5 DEF BuyNext
  <2>2. MayBuy(c)
    BY <1>5 DEF BuyNext
  <2>3. Traded(order.code) /\ Traded(c)
    BY <2>2 DEF MayBuy
  <2>4. price \in Nat \ {0}
    BY <1>1, <1>2, <2>3, BuyPriceIs
  <2>5. bar[c].capacity \in Nat /\ account.cash \in Nat
    BY <1>1, <1>3, <2>3 DEF TypesInv
  <2> PICK q : q = Taken(c, price, order.budget)
    OBVIOUS
  <2>6. q > 0
    BY <2>1
  <2>7. q \in Nat \ {0} /\ price * q + Charges(price * q, "buy") <= account.cash
    BY <1>3, <2>4, <2>5, <2>6, TakenIs
  <2> PICK gross : gross = price * q
    OBVIOUS
  <2> PICK fee : fee = Charges(gross, "buy")
    OBVIOUS
  <2>8. BuyMade(c, q, price, stop, gross, fee)
    BY <2>1 DEF BuyMade
  <2>9. gross + fee <= account.cash /\ stop \in Nat
    BY <2>7
  <2> QED BY <1>2, <1>3, <2>2, <2>4, <2>7, <2>8, <2>9
<1> QED BY <1>4, <1>5

LEMMA DayIs == ASSUME TypesInv PROVE calendar.day \in Nat /\ calendar.day \in 0..Days
<1>1. calendar \in [day : 0..Days, step : {"night", "open", "settle"}]
  BY DEF TypesInv
<1>2. calendar.day \in 0..Days
  BY <1>1
<1> QED BY <1>2, EngineConstants

LEMMA BuyKeepsTypes ==
    ASSUME EngineInv, BuyNext, NEW c \in Codes, NEW q \in Nat \ {0}, NEW price \in Nat \ {0}, NEW stop \in Nat,
           NEW gross, NEW fee, gross = price * q, fee = Charges(gross, "buy"), gross + fee <= account.cash,
           BuyMade(c, q, price, stop, gross, fee), buys' \in Seq(OrderType)
    PROVE  TypesInv'
<1>1. gross \in Nat /\ fee \in Nat
  <2>1. gross \in Nat
    OBVIOUS
  <2> QED BY <2>1, ChargesAre
<1>2. TypesInv /\ calendar.day \in Nat
  <2>1. TypesInv
    BY DEF EngineInv
  <2> QED BY <2>1, DayIs
<1> PICK after : after = NewPosition(q, price, gross + fee, calendar.day, stop)
  OBVIOUS
<1>3. after \in PositionType
  <2> PICK cost : cost = gross + fee
    OBVIOUS
  <2>1. cost \in Nat
    BY <1>1
  <2> QED BY <1>2, <2>1, OpenedIs
<1>4. held' \in [Codes -> PositionType]
  BY <1>2, <1>3 DEF BuyMade, TypesInv
<1>5. account' \in [cash : Nat, fees : Nat, equity : Nat]
  <2>1. account.cash \in Nat /\ account.fees \in Nat /\ account \in [cash : Nat, fees : Nat, equity : Nat]
    BY <1>2 DEF TypesInv
  <2>2. account.cash - (gross + fee) \in Nat /\ account.fees + fee \in Nat
    BY <1>1, <2>1
  <2> QED BY <2>1, <2>2 DEF BuyMade
<1>6. events' \in Seq(FillType)
  <2> PICK e : e = Fill(c, "buy", q, price, 0)
    OBVIOUS
  <2>1. e \in FillType
    BY FillIs
  <2>2. events \in Seq(FillType) /\ events' = Append(events, e)
    BY <1>2 DEF TypesInv, BuyMade
  <2> QED BY <2>1, <2>2, AppendProperties
<1>7. /\ kernel' = kernel /\ circuit' = circuit /\ bar' = bar /\ lastClose' = lastClose /\ sells' = sells
      /\ recent' = recent /\ calendar' = calendar /\ risk' = risk /\ openSells' = openSells /\ intent' = intent
  BY DEF BuyNext, fixed
<1> QED BY <1>2, <1>4, <1>5, <1>6, <1>7 DEF TypesInv, Traded

LEMMA BuyKeepsBook ==
    ASSUME EngineInv, BuyNext, NEW c \in Codes, held[c].quantity = 0,
           NEW q \in Nat \ {0}, NEW price \in Nat \ {0}, NEW stop \in Nat,
           NEW gross, NEW fee, gross = price * q, fee = Charges(gross, "buy"), gross + fee <= account.cash,
           BuyMade(c, q, price, stop, gross, fee)
    PROVE  BookInv'
<1> PICK e : e = Fill(c, "buy", q, price, 0)
  OBVIOUS
<1> PICK cost : cost = gross + fee
  OBVIOUS
<1> PICK after : after = NewPosition(q, price, gross + fee, calendar.day, stop)
  OBVIOUS
<1>11. PICK then : then = held'
  OBVIOUS
<1>12. PICK kept2 : kept2 = account'
  OBVIOUS
<1> PICK r : r = Explains(Recomputed, e)
  OBVIOUS
<1>1. TypesInv /\ Matches(Recomputed, account, held) /\ settled /\ calendar.step = "open" /\ calendar.day \in Nat
  <2>1. TypesInv /\ BookInv /\ calendar.step = "open"
    BY DEF EngineInv, BuyNext
  <2> QED BY <2>1, DayIs DEF BookInv
<1>2. gross \in Nat /\ fee \in Nat /\ cost \in Nat
  <2>1. gross \in Nat
    OBVIOUS
  <2>2. fee \in Nat
    BY <2>1, ChargesAre
  <2> QED BY <2>1, <2>2
<1>3. /\ e \in FillType /\ e.type = "fill" /\ e.code = c /\ e.side = "buy" /\ e.quantity = q
      /\ e.gross = gross /\ e.fees = Charges(gross, "buy")
  BY FillIs
<1>4. BuyOf(e, c, q, gross)
  BY <1>3 DEF BuyOf
<1>5. after.quantity = q /\ after.cost = cost /\ after.realized = 0
  <2>1. after = NewPosition(q, price, cost, calendar.day, stop)
    OBVIOUS
  <2>3. /\ NewPosition(q, price, cost, calendar.day, stop).quantity = q /\ NewPosition(q, price, cost, calendar.day, stop).cost = cost
        /\ NewPosition(q, price, cost, calendar.day, stop).realized = 0
    BY DEF NewPosition
  <2> QED BY <2>1, <2>3
<1>6. held \in [Codes -> PositionType] /\ then = [held EXCEPT ![c] = after]
  BY <1>1, <1>11 DEF TypesInv, BuyMade
<1>7. Opens(held, then, c, after, q, cost)
  BY <1>5, <1>6 DEF Opens
<1>8. Spends(account, kept2, e, cost)
  <2>1. kept2.cash = account.cash - cost /\ kept2.fees = account.fees + fee
    BY <1>1, <1>12 DEF TypesInv, BuyMade
  <2>2. e.fees = fee
    BY <1>3
  <2> QED BY <2>1, <2>2 DEF Spends
<1>9. Matches(r, kept2, then)
  <2>1. cost = gross + e.fees
    BY <1>3
  <2> QED BY <1>1, <1>2, <1>4, <1>6, <1>7, <1>8, <2>1, BuyMatches
<1>10. Recomputed' = r
  <2>1. Recomputed' = Walk(StartBook, events')
    BY DEF Recomputed, StartBook, BuyNext, Walk
  <2>2. events \in Seq(FillType) /\ events' = Append(events, e)
    BY <1>1 DEF TypesInv, BuyMade
  <2>3. e \in FillType
    BY <1>3
  <2>4. Walk(StartBook, Append(events, e)) = Explains(Walk(StartBook, events), e)
    BY <2>2, <2>3, WalkOn
  <2> QED BY <2>1, <2>2, <2>4, RecomputedWalk
<1>13. settled' = settled /\ calendar' = calendar
  BY DEF BuyNext
<1> QED BY <1>1, <1>9, <1>10, <1>11, <1>12, <1>13 DEF BookInv, Matches

LEMMA PurchaseKeeps == EngineInv /\ BuyNext => EngineInv'
<1> SUFFICES ASSUME EngineInv, BuyNext PROVE EngineInv'
  OBVIOUS
<1> PICK c : c = Head(buys).code
  OBVIOUS
<1>1. c \in Codes /\ buys' \in Seq(OrderType) /\ Len(buys) \in Nat \ {0} /\ Len(buys') = Len(buys) - 1
  BY BuyIs
<1>2. /\ kernel' = kernel /\ circuit' = circuit /\ bar' = bar /\ lastClose' = lastClose /\ sells' = sells
      /\ recent' = recent /\ calendar' = calendar /\ risk' = risk /\ openSells' = openSells /\ intent' = intent
      /\ stored' = stored /\ realized' = realized /\ settled' = settled /\ calendar.step = "open"
  BY DEF BuyNext, fixed
<1>3. SellCodes' = SellCodes
  BY <1>2 DEF SellCodes
<1>4. CloseInv'
  BY <1>2 DEF EngineInv, CloseInv
<1> PICK H : H = HeldCodes
  OBVIOUS
<1>5. IsFiniteSet(H) /\ Cardinality(H) \in Nat
  BY HeldFinite DEF HeldCodes
<1>6. Cardinality(H) <= MaxPositions /\ (kernel \in Research => Cardinality(H) + Len(buys) <= MaxPositions)
  BY DEF EngineInv, PlacesInv
<1>7. CASE UNCHANGED <<held, account, events>>
  <2>1. HeldCodes' = H
    BY <1>7 DEF HeldCodes
  <2>2. TypesInv'
    BY <1>1, <1>2, <1>7 DEF EngineInv, TypesInv, Traded
  <2>3. OrdersInv'
    BY <1>2, <1>3, <1>7 DEF EngineInv, OrdersInv
  <2>4. PlacesInv'
    BY <1>1, <1>2, <1>5, <1>6, <2>1, EngineConstants DEF PlacesInv
  <2>5. Recomputed' = Recomputed
    BY <1>2, <1>7 DEF Recomputed
  <2>6. BookInv'
    BY <1>2, <1>7, <2>5 DEF EngineInv, BookInv, Matches
  <2> QED BY <1>4, <2>2, <2>3, <2>4, <2>6 DEF EngineInv
<1>8. CASE ~UNCHANGED <<held, account, events>>
  <2>1. MayBuy(c) /\ \E q \in Nat \ {0}, price \in Nat \ {0}, stop \in Nat : \E gross, fee :
                       /\ gross = price * q /\ fee = Charges(gross, "buy") /\ gross + fee <= account.cash
                       /\ BuyMade(c, q, price, stop, gross, fee)
    BY <1>8, BuyIs
  <2>2. PICK q \in Nat \ {0}, price \in Nat \ {0}, stop \in Nat : \E gross, fee :
                       /\ gross = price * q /\ fee = Charges(gross, "buy") /\ gross + fee <= account.cash
                       /\ BuyMade(c, q, price, stop, gross, fee)
    BY <2>1
  <2>3. PICK gross, fee : /\ gross = price * q /\ fee = Charges(gross, "buy") /\ gross + fee <= account.cash
                          /\ BuyMade(c, q, price, stop, gross, fee)
    BY <2>2
  <2>4. TypesInv'
    BY <1>1, <2>3, BuyKeepsTypes
  <2>5. held[c].quantity = 0 /\ Room(c)
    BY <2>1 DEF MayBuy
  <2>6. BookInv'
    BY <1>1, <2>3, <2>5, BuyKeepsBook
  <2>7. TypesInv /\ held \in [Codes -> PositionType] /\ \A d \in SellCodes : held[d].quantity > 0
    BY DEF EngineInv, TypesInv, OrdersInv
  <2>8. held'[c].quantity = q /\ \A d \in Codes \ {c} : held'[d] = held[d]
    <3> PICK after : after = NewPosition(q, price, gross + fee, calendar.day, stop)
      OBVIOUS
    <3>1. held' = [held EXCEPT ![c] = after]
      BY <2>3 DEF BuyMade
    <3>2. after.quantity = q
      BY DEF NewPosition
    <3> QED BY <1>1, <2>7, <3>1, <3>2
  <2>9. OrdersInv'
    <3>1. \A d \in SellCodes : held'[d].quantity > 0
      BY <2>7, <2>8 DEF SellCodes
    <3> QED BY <1>2, <1>3, <3>1 DEF EngineInv, OrdersInv
  <2>10. PlacesInv'
    <3>1. HeldCodes' = H \cup {c}
      BY <1>1, <2>8 DEF HeldCodes
    <3>2. c \notin H
      BY <2>5 DEF HeldCodes
    <3>3. Cardinality(H \cup {c}) = Cardinality(H) + 1
      BY <1>5, <3>2, FS_AddElement
    <3>4. kernel \in Standard \/ kernel \in Research
      BY EngineConstants DEF EngineInv, TypesInv
    <3>5. kernel \in Research \/ Cardinality(H) < MaxPositions
      BY <2>5 DEF Room
    <3>6. /\ Cardinality(H) + 1 <= MaxPositions
          /\ kernel \in Research => Cardinality(H) + 1 + Len(buys') <= MaxPositions
      BY <1>1, <1>5, <1>6, <3>5, EngineConstants
    <3> QED BY <1>2, <3>1, <3>3, <3>6 DEF PlacesInv
  <2> QED BY <1>4, <2>4, <2>6, <2>9, <2>10 DEF EngineInv
<1> QED BY <1>7, <1>8

-----------------------------------------------------------------------------
(* The close.                                                              *)

LEMMA KernelIs == ASSUME TypesInv PROVE kernel \in {"simple", "tiered", "left", "swing", "trial"}
BY EngineConstants DEF TypesInv, Standard, Research

LEMMA WholeIs == ASSUME NEW reason \in Reasons PROVE Whole(reason) \in SellType
BY DEF Whole, SellType

LEMMA PartIs ==
    ASSUME TypesInv, NEW c \in Codes, NEW reason \in Reasons, NEW share \in Nat
    PROVE  Part(reason, c, share) \in SellType
<1>1. held[c].quantity \in Nat
  BY HeldType
<1>2. Min2(held[c].quantity, IF share < 1 THEN 1 ELSE share) \in Nat
  BY <1>1 DEF Min2
<1> QED BY <1>2 DEF Part, SellType

LEMMA ReasonsAre ==
    /\ "stop_loss" \in Reasons /\ "cooldown_stop" \in Reasons /\ "technical_stop" \in Reasons
    /\ "trailing_stop" \in Reasons /\ "max_holding_days" \in Reasons /\ "tier1" \in Reasons /\ "tier2" \in Reasons
    /\ "weakness_exit" \in Reasons /\ "review_exit" \in Reasons /\ "time_fallback" \in Reasons
    /\ "left_first" \in Reasons /\ "left_second" \in Reasons /\ "box_top" \in Reasons /\ NoSell \in SellType
BY DEF Reasons, StopReasons, NoSell, SellType

\* The parts of a position that are sold are numbers of shares.
LEMMA SharesAre ==
    ASSUME TypesInv, NEW c \in Codes
    PROVE  /\ held[c].initial \div 2 \in Nat /\ held[c].initial \div 3 \in Nat /\ held[c].initial \div 4 \in Nat
           /\ held[c].initial \div (IF held[c].initial >= 15 THEN 3 ELSE 2) \in Nat /\ held[c].quantity \div 2 \in Nat
<1> PICK i : i = held[c].initial
  OBVIOUS
<1> PICK n : n = held[c].quantity
  OBVIOUS
<1>1. i \in Nat /\ n \in Nat
  BY HeldType
<1>2. i \div 2 \in Nat /\ i \div 3 \in Nat /\ i \div 4 \in Nat /\ n \div 2 \in Nat
  BY <1>1
<1> QED BY <1>2

LEMMA ExitIs ==
    ASSUME TypesInv, NEW c \in Codes, NEW hint
    PROVE  ExitOf(c, hint) \in SellType
<1> PICK one : one = held[c].initial \div (IF held[c].initial >= 15 THEN 3 ELSE 2)
  OBVIOUS
<1>1. SimpleExit(c) \in SellType
  BY ReasonsAre, WholeIs DEF SimpleExit
<1>2. ASSUME NEW hist, NEW review, NEW ma5 PROVE TieredExit(c, hist, review, ma5) \in SellType
  <2>1. /\ Part("tier1", c, one) \in SellType /\ Part("tier2", c, held[c].initial \div 3) \in SellType
        /\ \A reason \in Reasons : Whole(reason) \in SellType
    BY ReasonsAre, SharesAre, PartIs, WholeIs
  <2>2. TieredExit(c, hist, review, ma5) \in
          {Whole("cooldown_stop"), NoSell, Whole("trailing_stop"), Whole("technical_stop"), Part("tier1", c, one),
           Part("tier2", c, held[c].initial \div 3), Whole("weakness_exit"), Whole("review_exit"), Whole("time_fallback")}
    BY DEF TieredExit
  <2> QED BY <2>1, <2>2, ReasonsAre
<1>3. LeftExit(c) \in SellType
  <2>1. Part("left_first", c, one) \in SellType /\ Part("left_second", c, held[c].initial \div 4) \in SellType
    BY ReasonsAre, SharesAre, PartIs
  <2>2. Whole("stop_loss") \in SellType /\ Whole("max_holding_days") \in SellType
    BY ReasonsAre, WholeIs
  <2>3. LeftExit(c) \in {Whole("stop_loss"), Part("left_first", c, one), Part("left_second", c, held[c].initial \div 4),
                         Whole("max_holding_days"), NoSell}
    BY DEF LeftExit
  <2> QED BY <2>1, <2>2, <2>3, ReasonsAre
<1>4. ASSUME NEW top PROVE SwingExit(c, top) \in SellType
  <2>1. Part("box_top", c, held[c].quantity \div 2) \in SellType
    BY ReasonsAre, SharesAre, PartIs
  <2>2. Whole("stop_loss") \in SellType /\ Whole("max_holding_days") \in SellType
    BY ReasonsAre, WholeIs
  <2>3. SwingExit(c, top) \in {Whole("stop_loss"), Part("box_top", c, held[c].quantity \div 2), Whole("max_holding_days"), NoSell}
    BY DEF SwingExit
  <2> QED BY <2>1, <2>2, <2>3, ReasonsAre
<1>5. ExitOf(c, hint) \in {SimpleExit(c), TieredExit(c, hint = "hist", hint = "review", hint = "ma5"), LeftExit(c),
                           SwingExit(c, hint = "top")}
  BY KernelIs DEF ExitOf
<1>6. TieredExit(c, hint = "hist", hint = "review", hint = "ma5") \in SellType
  BY <1>2
<1>7. SwingExit(c, hint = "top") \in SellType
  BY <1>4
<1> QED BY <1>1, <1>3, <1>5, <1>6, <1>7

LEMMA CloseOfIs == ASSUME TypesInv PROVE CloseOf \in [Codes -> Nat \ {0}]
<1>1. \A c \in Codes : Traded(c) => bar[c].close \in Nat \ {0}
  BY DEF TypesInv
<1>2. \A c \in Codes : lastClose[c] \in Nat \ {0}
  BY DEF TypesInv
<1> QED BY <1>1, <1>2 DEF CloseOf

LEMMA TotalIs == ASSUME TypesInv PROVE Total \in Nat
<1> PICK H : H = HeldCodes
  OBVIOUS
<1> PICK close : close = CloseOf
  OBVIOUS
<1>1. PICK f : f = [c \in H |-> close[c] * held[c].quantity]
  OBVIOUS
<1>2. IsFiniteSet(H) /\ H \subseteq Codes
  BY HeldFinite DEF HeldCodes
<1>3. \A c \in H : f[c] \in Nat
  <2> SUFFICES ASSUME NEW c \in H PROVE f[c] \in Nat
    OBVIOUS
  <2>1. close[c] \in Nat /\ held[c].quantity \in Nat
    BY <1>2, CloseOfIs, HeldType
  <2> QED BY <1>1, <2>1
<1>4. DOMAIN f = H
  BY <1>1
<1>5. SumFunction(f) \in Nat
  BY <1>2, <1>3, <1>4, SumIsNat
<1>6. MarketValue = SumFunction(f)
  BY <1>1 DEF MarketValue, Valuation
<1>7. account.cash \in Nat
  BY DEF TypesInv
<1> QED BY <1>5, <1>6, <1>7 DEF Total

LEMMA SellsAre ==
    ASSUME EngineInv, NEW hint, NEW pending, pending = SellsAfterClose(hint)
    PROVE  /\ pending \in [Codes -> SellType]
           /\ \A c \in Codes : pending[c] # NoSell => held[c].quantity > 0
<1>1. TypesInv /\ OrdersInv
  BY DEF EngineInv
<1>2. \A c \in Codes : sells[c] \in SellType /\ ExitOf(c, hint[c]) \in SellType
  BY <1>1, ExitIs DEF TypesInv
<1>3. \A c \in Codes : pending[c] = sells[c] \/ (c \in HeldCodes /\ pending[c] = ExitOf(c, hint[c]))
  BY DEF SellsAfterClose
<1>4. pending \in [Codes -> SellType]
  <2>1. \A c \in Codes : pending[c] \in SellType
    BY <1>2, <1>3
  <2>2. pending = [c \in Codes |-> pending[c]]
    BY DEF SellsAfterClose
  <2> QED BY <2>1, <2>2
<1>5. \A c \in Codes : sells[c] # NoSell => held[c].quantity > 0
  BY <1>1 DEF OrdersInv, SellCodes
<1>6. \A c \in HeldCodes : held[c].quantity > 0
  BY DEF HeldCodes
<1> QED BY <1>3, <1>4, <1>5, <1>6

LEMMA IntentIs ==
    ASSUME EngineInv, NEW pending \in [Codes -> SellType], NEW asked,
           asked = [c \in Codes |->
                      IF pending[c] = sells[c] THEN intent[c]
                      ELSE [sold |-> 0, intended |-> IF pending[c].quantity > 0 THEN pending[c].quantity ELSE held[c].quantity]]
    PROVE  asked \in [Codes -> [intended : Nat, sold : Nat]]
<1>1. TypesInv
  BY DEF EngineInv
<1>2. ASSUME NEW c \in Codes PROVE asked[c] \in [intended : Nat, sold : Nat]
  <2>1. intent[c] \in [intended : Nat, sold : Nat]
    BY <1>1 DEF TypesInv
  <2>2. held[c].quantity \in Nat /\ pending[c].quantity \in Nat
    BY <1>1, HeldType DEF SellType
  <2> QED BY <2>1, <2>2
<1> QED BY <1>2

LEMMA RiskIs ==
    ASSUME TypesInv, NEW recovery
    PROVE  RiskAfterClose(recovery) \in [since : 0..Days, streak : Nat, fresh : Nat]
<1>1. risk \in [since : 0..Days, streak : Nat, fresh : Nat] /\ calendar.day \in 0..Days
  BY DayIs DEF TypesInv
<1> PICK d : d = IF Paused THEN risk.since ELSE calendar.day
  OBVIOUS
<1>2. d \in 0..Days
  BY <1>1
<1>3. [risk EXCEPT !.since = d] \in [since : 0..Days, streak : Nat, fresh : Nat]
  BY <1>1, <1>2
<1>4. [risk EXCEPT !.since = 0, !.streak = 0] \in [since : 0..Days, streak : Nat, fresh : Nat]
  <2>1. 0 \in 0..Days /\ 0 \in Nat
    BY EngineConstants
  <2> QED BY <1>1, <2>1
<1>5. RiskAfterClose(recovery) \in {risk, [risk EXCEPT !.since = d], [risk EXCEPT !.since = 0, !.streak = 0]}
  BY DEF RiskAfterClose
<1> QED BY <1>1, <1>3, <1>4, <1>5

LEMMA RecentIs == ASSUME TypesInv PROVE Recent \in Seq(Nat) /\ Len(Recent) <= Window
<1>1. recent \in Seq(Nat) /\ Len(recent) <= Window /\ Window \in Nat \ {0}
  BY EngineConstants DEF TypesInv
<1> PICK total : total = Total
  OBVIOUS
<1>2. total \in Nat
  BY TotalIs
<1>3. CASE Len(recent) < Window
  <2>1. Append(recent, total) \in Seq(Nat) /\ Len(Append(recent, total)) = Len(recent) + 1
    BY <1>1, <1>2, AppendProperties
  <2> QED BY <1>1, <1>3, <2>1 DEF Recent
<1>4. CASE ~(Len(recent) < Window)
  <2>1. recent # <<>>
    BY <1>1, <1>4
  <2> PICK rest : rest = Tail(recent)
    OBVIOUS
  <2>2. rest \in Seq(Nat) /\ Len(rest) = Len(recent) - 1
    BY <1>1, <2>1, HeadTailProperties
  <2>3. Append(rest, total) \in Seq(Nat) /\ Len(Append(rest, total)) = Len(rest) + 1
    BY <1>2, <2>2, AppendProperties
  <2> QED BY <1>1, <1>4, <2>2, <2>3 DEF Recent
<1> QED BY <1>3, <1>4

LEMMA SequenceOf ==
    ASSUME NEW n \in Nat, NEW S, NEW l \in [1..n -> S] PROVE l \in Seq(S) /\ Len(l) = n
OBVIOUS

\* No more is ordered than there are places.
LEMMA OrdersAre ==
    ASSUME EngineInv, NEW candidates \in Candidates, NEW pending, NEW after, NEW orders,
           orders = Orders(candidates, pending, after)
    PROVE  /\ orders \in Seq(OrderType)
           /\ kernel \in Research => Cardinality(HeldCodes) + Len(orders) <= MaxPositions
<1>1. TypesInv /\ Cardinality(HeldCodes) <= MaxPositions /\ Cardinality(HeldCodes) \in Nat
  BY HeldFinite DEF EngineInv, PlacesInv, HeldCodes
<1>2. candidates \in Seq(Codes)
  <2>1. PICK S \in SUBSET {c \in Codes \ HeldCodes : Traded(c)} : candidates \in SetToSeqs(S)
    BY DEF Candidates
  <2>2. S \subseteq Codes
    OBVIOUS
  <2> PICK n : n = Cardinality(S)
    OBVIOUS
  <2>3. n \in Nat
    BY <2>2, EngineConstants, FS_Subset, FS_CardinalityType
  <2>4. candidates \in [1..n -> S]
    BY <2>1 DEF SetToSeqs, IsInjective
  <2> QED BY <2>2, <2>3, <2>4
<1> PICK places : places = Places(pending)
  OBVIOUS
<1>3. places \in Nat
  <2> PICK P : P = {c \in Codes : pending[c] # NoSell}
    OBVIOUS
  <2>1. P \subseteq Codes
    OBVIOUS
  <2>2. Cardinality(P) \in Nat
    BY <2>1, EngineConstants, FS_Subset, FS_CardinalityType
  <2> QED BY <1>1, <2>2, EngineConstants DEF Places
<1> PICK most : most = Min2(DailyBuyLimit, places)
  OBVIOUS
<1>4. most \in Nat /\ most <= places
  BY <1>3, EngineConstants DEF Min2
<1> PICK room : room = Max({0, most})
  OBVIOUS
<1>5. room \in Nat /\ room <= places
  <2> PICK T : T = {0, most}
    OBVIOUS
  <2>1. T \subseteq 0..most /\ T # {}
    BY <1>4
  <2>2. room \in T
    BY <1>4, <2>1, MaxUpTo
  <2> QED BY <1>3, <1>4, <2>2
<1> PICK n : n = Min2(Len(candidates), room)
  OBVIOUS
<1>6. n \in Nat /\ n <= room /\ n <= Len(candidates)
  BY <1>2, <1>5 DEF Min2
<1>7. PICK list : list = [i \in 1..n |-> [code |-> candidates[i], close |-> CloseOf[candidates[i]], budget |-> Total \div BudgetShare]]
  OBVIOUS
<1>8. orders = <<>> \/ orders = list
  BY <1>7 DEF Orders
<1>9. list \in Seq(OrderType) /\ Len(list) = n
  <2> PICK budget : budget = Total \div BudgetShare
    OBVIOUS
  <2>1. budget \in Nat
    BY <1>1, TotalIs, EngineConstants
  <2>2. \A i \in 1..n : list[i] \in OrderType
    <3> SUFFICES ASSUME NEW i \in 1..n PROVE list[i] \in OrderType
      OBVIOUS
    <3>1. candidates[i] \in Codes
      BY <1>2, <1>6
    <3>2. CloseOf[candidates[i]] \in Nat \ {0}
      BY <1>1, <3>1, CloseOfIs
    <3>3. list[i] = [code |-> candidates[i], close |-> CloseOf[candidates[i]], budget |-> budget]
      BY <1>7
    <3> QED BY <2>1, <3>1, <3>2, <3>3 DEF OrderType
  <2>3. list = [i \in 1..n |-> list[i]]
    BY <1>7
  <2>4. list \in [1..n -> OrderType]
    BY <2>2, <2>3
  <2> QED BY <1>6, <2>4, SequenceOf
<1>10. orders \in Seq(OrderType) /\ Len(orders) <= places /\ Len(orders) \in Nat
  <2>1. CASE orders = <<>>
    BY <1>3, <2>1
  <2>2. CASE orders = list
    BY <1>3, <1>5, <1>6, <1>9, <2>2
  <2> QED BY <1>8, <2>1, <2>2
<1>11. kernel \in Research => places = MaxPositions - Cardinality(HeldCodes)
  BY DEF Places, Research, Standard
<1> QED BY <1>1, <1>3, <1>10, <1>11, EngineConstants

LEMMA CloseKeeps == EngineInv /\ CloseDay => EngineInv'
<1> SUFFICES ASSUME EngineInv, CloseDay PROVE EngineInv'
  OBVIOUS
<1>1. PICK hint \in [Codes -> Hints], recovery \in BOOLEAN, candidates \in Candidates :
         LET pending == SellsAfterClose(hint)
             after == RiskAfterClose(recovery)
         IN  /\ sells' = pending
             /\ intent' = [c \in Codes |->
                   IF pending[c] = sells[c] THEN intent[c]
                   ELSE [sold |-> 0, intended |-> IF pending[c].quantity > 0 THEN pending[c].quantity ELSE held[c].quantity]]
             /\ risk' = after
             /\ buys' = Orders(candidates, pending, after)
  BY Zenon DEF CloseDay
<1> PICK pending : pending = SellsAfterClose(hint)
  OBVIOUS
<1>2. /\ kernel' = kernel /\ circuit' = circuit /\ bar' = bar /\ held' = held /\ openSells' = openSells /\ events' = events
      /\ stored' = stored /\ realized' = realized /\ settled' = settled /\ openSells = <<>> /\ lastClose' = CloseOf
      /\ calendar.step = "open" /\ calendar' = [calendar EXCEPT !.step = "settle"]
      /\ account' = [account EXCEPT !.equity = Total] /\ recent' = Recent
  BY DEF CloseDay, fixed
<1>3. TypesInv
  BY DEF EngineInv
<1>4. pending \in [Codes -> SellType] /\ sells' = pending /\ \A c \in Codes : pending[c] # NoSell => held[c].quantity > 0
  BY <1>1, SellsAre
<1>5. intent' \in [Codes -> [intended : Nat, sold : Nat]]
  <2>1. intent' = [c \in Codes |->
           IF pending[c] = sells[c] THEN intent[c]
           ELSE [sold |-> 0, intended |-> IF pending[c].quantity > 0 THEN pending[c].quantity ELSE held[c].quantity]]
    BY <1>1
  <2> QED BY <1>4, <2>1, IntentIs
<1>6. buys' \in Seq(OrderType) /\ (kernel \in Research => Cardinality(HeldCodes) + Len(buys') <= MaxPositions)
  BY <1>1, OrdersAre
<1>7. risk' \in [since : 0..Days, streak : Nat, fresh : Nat]
  BY <1>1, <1>3, RiskIs
<1>8. recent' \in Seq(Nat) /\ Len(recent') <= Window
  BY <1>2, <1>3, RecentIs
<1>9. account' \in [cash : Nat, fees : Nat, equity : Nat] /\ account'.cash = account.cash /\ account'.fees = account.fees
      /\ account'.equity = Total
  <2>1. account \in [cash : Nat, fees : Nat, equity : Nat] /\ Total \in Nat
    BY <1>3, TotalIs DEF TypesInv
  <2> QED BY <1>2, <2>1
<1>10. calendar' \in [day : 0..Days, step : {"night", "open", "settle"}] /\ calendar'.step = "settle"
  <2>1. calendar \in [day : 0..Days, step : {"night", "open", "settle"}]
    BY <1>3 DEF TypesInv
  <2> QED BY <1>2, <2>1
<1>11. TypesInv'
  <2>1. lastClose' \in [Codes -> Nat \ {0}]
    BY <1>2, <1>3, CloseOfIs
  <2> QED BY <1>2, <1>3, <1>4, <1>5, <1>6, <1>7, <1>8, <1>9, <1>10, <2>1 DEF TypesInv, Traded
<1>12. OrdersInv'
  <2>1. \A c \in Codes : sells'[c] # NoSell => held'[c].quantity > 0
    BY <1>2, <1>4
  <2> QED BY <1>2, <2>1 DEF OrdersInv, SellCodes
<1>13. PlacesInv'
  <2>1. HeldCodes' = HeldCodes
    BY <1>2 DEF HeldCodes
  <2> QED BY <1>2, <1>6, <2>1 DEF EngineInv, PlacesInv
<1>14. BookInv'
  <2>1. Recomputed' = Recomputed
    BY <1>2 DEF Recomputed
  <2> QED BY <1>2, <1>9, <1>10, <2>1 DEF EngineInv, BookInv, Matches
<1>15. CloseInv'
  <2>1. stored.close = lastClose
    BY <1>2 DEF EngineInv, CloseInv
  <2>2. lastClose' = [c \in Codes |-> IF Traded(c)' THEN bar'[c].close ELSE stored'.close[c]]
    BY <1>2, <2>1 DEF CloseOf, Traded
  <2>3. HeldCodes' = HeldCodes
    BY <1>2 DEF HeldCodes
  <2>4. account'.equity = account'.cash + SumFunction([c \in HeldCodes' |-> lastClose'[c] * held'[c].quantity])
    BY <1>2, <1>9, <2>3 DEF Total, MarketValue, Valuation
  <2> QED BY <1>10, <2>2, <2>4 DEF CloseInv
<1> QED BY <1>11, <1>12, <1>13, <1>14, <1>15 DEF EngineInv

-----------------------------------------------------------------------------
(* The settlement.                                                         *)

LEMMA SettleKeeps == EngineInv /\ SettleDay => EngineInv'
<1> SUFFICES ASSUME EngineInv, SettleDay PROVE EngineInv'
  OBVIOUS
<1> PICK r : r = Recomputed
  OBVIOUS
<1>1. /\ kernel' = kernel /\ circuit' = circuit /\ held' = held /\ sells' = sells /\ openSells' = openSells /\ buys' = buys
      /\ account' = account /\ recent' = recent /\ risk' = risk /\ lastClose' = lastClose /\ intent' = intent
      /\ events' = <<>> /\ bar' = [c \in Codes |-> Suspended] /\ calendar.step = "settle"
      /\ calendar' = [calendar EXCEPT !.step = "night"] /\ realized' = r.realized
  BY DEF SettleDay, fixed
<1>2. /\ r \in BookType /\ r.ok /\ r.closing = {} /\ r.cash = account.cash /\ r.fees = account.fees
      /\ \A c \in Codes : /\ r.held[c] = [quantity |-> held[c].quantity, cost |-> held[c].cost]
                          /\ r.realized[c] = held[c].realized
  BY DEF EngineInv, BookInv, Matches
<1>3. /\ lastClose = [c \in Codes |-> IF Traded(c) THEN bar[c].close ELSE stored.close[c]]
      /\ account.equity = account.cash + SumFunction([c \in HeldCodes |-> lastClose[c] * held[c].quantity])
  BY <1>1 DEF EngineInv, CloseInv
<1>4. TypesInv /\ account.cash \in Nat /\ account.fees \in Nat
  BY DEF EngineInv, TypesInv
<1>5. settled' = TRUE
  BY <1>2, <1>3, <1>4 DEF SettleDay
<1>6. stored' = [cash |-> r.cash, fees |-> r.fees, held |-> held, close |-> lastClose, equity |-> account.equity]
  BY <1>3 DEF SettleDay
<1>7. calendar' \in [day : 0..Days, step : {"night", "open", "settle"}] /\ calendar'.step = "night"
  <2>1. calendar \in [day : 0..Days, step : {"night", "open", "settle"}]
    BY <1>4 DEF TypesInv
  <2> QED BY <1>1, <2>1
<1>8. TypesInv'
  <2>1. \A c \in Codes : bar'[c] = Suspended
    BY <1>1
  <2>2. events' \in Seq(FillType)
    BY <1>1
  <2> QED BY <1>1, <1>4, <1>7, <2>1, <2>2 DEF TypesInv, Traded
<1>9. SellCodes' = SellCodes /\ HeldCodes' = HeldCodes
  BY <1>1 DEF SellCodes, HeldCodes
<1>10. OrdersInv'
  BY <1>1, <1>9 DEF EngineInv, OrdersInv
<1>11. PlacesInv'
  BY <1>1, <1>9 DEF EngineInv, PlacesInv
<1>12. BookInv'
  <2> PICK kept : kept = account
    OBVIOUS
  <2> PICK positions : positions = held
    OBVIOUS
  <2> PICK results : results = r.realized
    OBVIOUS
  <2>1. results \in [Codes -> Int] /\ \A c \in Codes : results[c] = positions[c].realized
    BY <1>2 DEF BookType
  <2>2. kept.cash \in Int /\ kept.fees \in Int /\ positions \in [Codes -> PositionType]
    BY <1>4 DEF TypesInv
  <2>3. stored'.cash = kept.cash /\ stored'.fees = kept.fees /\ stored'.held = positions
    BY <1>2, <1>6
  <2> PICK b : b = [ok |-> TRUE, cash |-> kept.cash, fees |-> kept.fees, realized |-> results, closing |-> {},
                    held |-> [c \in Codes |-> [quantity |-> positions[c].quantity, cost |-> positions[c].cost]]]
    OBVIOUS
  <2>4. StartBook' = b
    BY <1>1, <2>3 DEF StartBook
  <2>5. Matches(b, kept, positions)
    BY <2>1, <2>2, EmptyMatches
  <2>6. Recomputed' = Walk(b, <<>>)
    BY <1>1, <2>4 DEF Recomputed, StartBook, Walk
  <2>7. Recomputed' = b
    BY <2>6, WalkOverNothing DEF Walk
  <2> QED BY <1>1, <1>5, <2>5, <2>7 DEF BookInv, Matches
<1>13. CloseInv'
  BY <1>1, <1>6, <1>7 DEF CloseInv
<1> QED BY <1>8, <1>10, <1>11, <1>12, <1>13 DEF EngineInv

LEMMA EngineStutters == EngineInv /\ UNCHANGED engineVars => EngineInv'
<1> SUFFICES ASSUME EngineInv, UNCHANGED engineVars PROVE EngineInv'
  OBVIOUS
<1>1. /\ kernel' = kernel /\ circuit' = circuit /\ bar' = bar /\ lastClose' = lastClose /\ held' = held
      /\ sells' = sells /\ buys' = buys /\ account' = account /\ recent' = recent /\ risk' = risk
      /\ calendar' = calendar /\ openSells' = openSells /\ events' = events /\ stored' = stored
      /\ realized' = realized /\ settled' = settled /\ intent' = intent
  BY DEF engineVars
<1>2. SellCodes' = SellCodes /\ HeldCodes' = HeldCodes /\ Recomputed' = Recomputed
  BY <1>1 DEF SellCodes, HeldCodes, Recomputed
<1>3. TypesInv'
  BY <1>1 DEF EngineInv, TypesInv, Traded
<1>4. OrdersInv' /\ PlacesInv'
  BY <1>1, <1>2 DEF EngineInv, OrdersInv, PlacesInv
<1>5. BookInv'
  BY <1>1, <1>2 DEF EngineInv, BookInv, Matches
<1>6. CloseInv'
  BY <1>1, <1>2 DEF EngineInv, CloseInv, Traded
<1> QED BY <1>3, <1>4, <1>5, <1>6 DEF EngineInv

LEMMA EngineStepInv == EngineInv /\ [EngineNext]_engineVars => EngineInv'
BY OpenKeeps, SaleKeeps, PurchaseKeeps, CloseKeeps, SettleKeeps, EngineStutters DEF EngineNext

LEMMA EngineInvHolds == EngineSpec => []EngineInv
<1>1. EngineInit => EngineInv
  BY EngineInitInv
<1>2. EngineInv /\ [EngineNext]_engineVars => EngineInv'
  BY EngineStepInv
<1> QED BY <1>1, <1>2, PTL DEF EngineSpec

-----------------------------------------------------------------------------
(* Pauses and stops.                                                       *)

\* A sale touches one code, of which something is held.
LEMMA SellOfOne ==
    ASSUME EngineInv, SellNext
    PROVE  /\ risk'.since = risk.since
           /\ \A d \in Codes : \/ held'[d] = held[d] /\ sells'[d] = sells[d]
                               \/ held[d].quantity > 0 /\ held'[d].quantity < held[d].quantity
<1> PICK c : c = Head(openSells)
  OBVIOUS
<1>1. c \in Codes /\ held[c].quantity \in Nat \ {0}
  BY SellIs
<1>2. CASE UNCHANGED <<held, sells, account, risk, events, intent>>
  BY <1>2
<1>3. CASE ~UNCHANGED <<held, sells, account, risk, events, intent>>
  <2>1. PICK q \in 1..held[c].quantity, price \in Nat \ {0} : \E gross, part, fee :
                    /\ gross = price * q /\ part = Allocated(held[c], q) /\ fee = Charges(gross, "sell")
                    /\ SaleMade(c, q, price, gross, part, fee)
    BY <1>3, SellIs
  <2>2. PICK gross, part, fee : /\ gross = price * q /\ part = Allocated(held[c], q) /\ fee = Charges(gross, "sell")
                                /\ SaleMade(c, q, price, gross, part, fee)
    BY <2>1
  <2>3. TypesInv /\ held \in [Codes -> PositionType] /\ sells \in [Codes -> SellType]
    BY DEF EngineInv, TypesInv
  <2>4. gross \in Nat /\ AfterSale(c, q, gross).quantity = held[c].quantity - q
    <3>1. gross \in Nat
      BY <1>1, <2>2
    <3> QED BY <1>1, <2>2, <2>3, <3>1, AfterSaleIs
  <2>5. /\ held'[c].quantity = held[c].quantity - q
        /\ \A d \in Codes \ {c} : held'[d] = held[d] /\ sells'[d] = sells[d]
    BY <1>1, <2>2, <2>3, <2>4 DEF SaleMade
  <2>6. risk'.since = risk.since
    <3>1. risk \in [since : 0..Days, streak : Nat, fresh : Nat]
      BY <2>3 DEF TypesInv
    <3>2. risk' = risk \/ risk' = AfterClosing(sells[c].reason)
      BY <2>2 DEF SaleMade
    <3>3. AfterClosing(sells[c].reason).since = risk.since
      BY <3>1 DEF AfterClosing
    <3> QED BY <3>2, <3>3
  <2> QED BY <1>1, <2>5, <2>6
<1> QED BY <1>2, <1>3

LEMMA PauseOfStep ==
    ASSUME EngineInv, [EngineNext]_engineVars
    PROVE  /\ Paused => \A c \in Codes : held[c].quantity = 0 => held'[c].quantity = 0
           /\ (Paused /\ risk'.since = 0) => calendar.day > risk.since
<1> SUFFICES ASSUME Paused
             PROVE  /\ \A c \in Codes : held[c].quantity = 0 => held'[c].quantity = 0
                    /\ risk'.since = 0 => calendar.day > risk.since
  OBVIOUS
<1>1. risk \in [since : 0..Days, streak : Nat, fresh : Nat] /\ risk.since > 0
  BY DEF EngineInv, TypesInv, Paused
<1>2. CASE OpenDay
  <2>1. held' = held /\ risk' = [risk EXCEPT !.fresh = 0]
    BY <1>2 DEF OpenDay
  <2>2. risk'.since = risk.since
    BY <1>1, <2>1
  <2> QED BY <1>1, <2>1, <2>2
<1>3. CASE SellNext
  BY <1>1, <1>3, SellOfOne
<1>4. CASE BuyNext
  <2>1. ~MayBuy(Head(buys).code)
    BY DEF MayBuy
  <2>2. held' = held /\ risk' = risk
    BY <1>4, <2>1, Zenon DEF BuyNext
  <2> QED BY <1>1, <2>2
<1>5. CASE CloseDay
  <2>1. held' = held /\ \E recovery \in BOOLEAN : risk' = RiskAfterClose(recovery)
    BY <1>5, Zenon DEF CloseDay
  <2>2. PICK recovery \in BOOLEAN : risk' = RiskAfterClose(recovery)
    BY <2>1
  <2>3. CASE risk' = risk
    BY <1>1, <2>1, <2>3
  <2>4. CASE risk' = [risk EXCEPT !.since = IF Paused THEN risk.since ELSE calendar.day]
    <3>1. risk'.since = risk.since
      BY <1>1, <2>4
    <3> QED BY <1>1, <2>1, <3>1
  <2>5. CASE Recovers(recovery)
    BY <2>1, <2>5 DEF Recovers
  <2> QED BY <2>2, <2>3, <2>4, <2>5 DEF RiskAfterClose
<1>6. CASE SettleDay
  <2>1. held' = held /\ risk' = risk
    BY <1>6 DEF SettleDay
  <2> QED BY <1>1, <2>1
<1>7. CASE UNCHANGED engineVars
  BY <1>1, <1>7 DEF engineVars
<1> QED BY <1>2, <1>3, <1>4, <1>5, <1>6, <1>7 DEF EngineNext

LEMMA StopOfStep ==
    ASSUME EngineInv, [EngineNext]_engineVars
    PROVE  \A c \in Codes : sells[c].reason \in StopReasons /\ sells'[c].reason \notin StopReasons
               => held'[c].quantity < held[c].quantity
<1> SUFFICES ASSUME NEW c \in Codes, sells[c].reason \in StopReasons, sells'[c].reason \notin StopReasons
             PROVE  held'[c].quantity < held[c].quantity
  OBVIOUS
<1>1. CASE OpenDay \/ BuyNext \/ SettleDay \/ UNCHANGED engineVars
  BY <1>1 DEF OpenDay, BuyNext, SettleDay, engineVars
<1>2. CASE SellNext
  BY <1>2, SellOfOne
<1>3. CASE CloseDay
  <2>1. PICK hint : sells' = SellsAfterClose(hint)
    BY <1>3, Zenon DEF CloseDay
  <2>2. \/ sells'[c] = sells[c]
        \/ sells'[c] = ExitOf(c, hint[c]) /\ MayReplace(sells[c], ExitOf(c, hint[c]))
    BY <2>1 DEF SellsAfterClose
  <2>3. sells[c] # NoSell
    BY DEF NoSell, StopReasons
  <2> QED BY <2>2, <2>3 DEF MayReplace
<1> QED BY <1>1, <1>2, <1>3 DEF EngineNext

-----------------------------------------------------------------------------
(* The theorems.                                                           *)

\* Every variable of a backtest's day keeps its type (backtest/engine.ts,
\* backtest/settlement.ts).
THEOREM EngineTypesHold == EngineSpec => []EngineTypeOK
<1>1. EngineInv => EngineTypeOK
  <2> SUFFICES ASSUME EngineInv PROVE EngineTypeOK
    OBVIOUS
  <2>1. TypesInv /\ settled
    BY DEF EngineInv, BookInv
  <2>2. \A c \in Codes : held[c].quantity \in Nat /\ held[c].cost \in Nat /\ intent[c].sold \in Nat
    <3> SUFFICES ASSUME NEW c \in Codes
                 PROVE  held[c].quantity \in Nat /\ held[c].cost \in Nat /\ intent[c].sold \in Nat
      OBVIOUS
    <3>1. intent[c] \in [intended : Nat, sold : Nat]
      BY <2>1 DEF TypesInv
    <3> QED BY <2>1, <3>1, HeldType
  <2>3. Range(openSells) \subseteq Codes
    BY <2>1 DEF TypesInv, Range
  <2> QED BY <2>1, <2>2, <2>3 DEF TypesInv, EngineTypeOK
<1> QED BY <1>1, EngineInvHolds, PTL

\* The days of a backtest are what their fills add up to: the settlement, which
\* recomputes each from its fills, never finds a mismatch; no more is held than
\* the plan has places for and nothing is sold that is not held; nothing is
\* bought in a pause; a stop stays a stop until it is sold
\* (backtest/engine.ts, backtest/portfolio-engine.ts, backtest/settlement.ts).
THEOREM EngineAddsUp == EngineSpec => BacktestsAddUp
<1>1. EngineInv => SettlementAgrees /\ WithinLimits
  BY DEF EngineInv, BookInv, PlacesInv, OrdersInv, SettlementAgrees, WithinLimits
<1>2. EngineInv /\ [EngineNext]_engineVars =>
        [/\ Paused => \A c \in Codes : held[c].quantity = 0 => held'[c].quantity = 0
         /\ (Paused /\ risk'.since = 0) => calendar.day > risk.since]_engineVars
  BY PauseOfStep
<1>3. EngineInv /\ [EngineNext]_engineVars =>
        [\A c \in Codes : sells[c].reason \in StopReasons /\ sells'[c].reason \notin StopReasons
             => held'[c].quantity < held[c].quantity]_engineVars
  BY StopOfStep
<1> QED BY <1>1, <1>2, <1>3, EngineInvHolds, PTL DEF EngineSpec, BacktestsAddUp, PausedBuysNothing, StopIsNotSoftened

=============================================================================
