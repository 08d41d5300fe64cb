------------------------- MODULE EventStreamProofs --------------------------
(***************************************************************************)
(* Theorems about the events of a conversation on their way to a page, for *)
(* any flows, size of a page of rows and number of reopenings.             *)
(*                                                                         *)
(* Then, that every behaviour of the records checked together on small     *)
(* instances is one of each component.                                     *)
(***************************************************************************)
EXTENDS MCRecords, RecordsProofs

-----------------------------------------------------------------------------
(* The events of a conversation.                                           *)

ItemType == [kind : {"ready", "event", "replay_complete"}, id : 0..EventLimit]
StreamType == [at : {"none", "opening", "query", "emit", "live"}, last : 0..EventLimit, held : SUBSET Ids, rows : SUBSET Ids]

StreamTypeInv ==
    /\ drawn \in 0..EventLimit /\ writing \in [Flows -> [id : 0..EventLimit, stored : BOOLEAN]]
    /\ stream \in StreamType /\ wire \in Seq(ItemType)
    /\ following \in BOOLEAN /\ replaying \in BOOLEAN /\ primed \in BOOLEAN
    /\ address \in 0..EventLimit /\ cursor \in 0..EventLimit /\ startedAt \in 0..EventLimit /\ putOff \subseteq Ids
    /\ taken \subseteq Ids /\ refreshed \subseteq Ids /\ overtaken \subseteq Ids /\ dropped \subseteq Ids /\ oldNews \subseteq Ids
    /\ reopenings \in 0..Reopenings

\* A flow writes an event of its own, and has drawn its id.
WritersInv ==
    \A f \in Flows :
        /\ writing[f].id <= drawn /\ (writing[f].stored => writing[f].id # 0)
        /\ \A g \in Flows : writing[f].id = writing[g].id /\ writing[f].id # 0 => f = g

\* What is not published before a later one is was overtaken.
PublishedInv == \A e \in Published : \A d \in 1..e : d \in Published \cup overtaken

\* The page is past an event, or a later one was ahead of it.
Behind(d) == d <= cursor \/ d \in overtaken

\* An event is on a wire.
OnWire(w, d) == \E j \in 1..Len(w) : w[j] = Item("event", d)

\* Whatever a wire brings, what is before it came before it.
Covered(w) == \A i \in 1..Len(w) : \A d \in 1..w[i].id : Behind(d) \/ \E j \in 1..i : w[j] = Item("event", d)

CursorInv ==
    /\ \A d \in 1..cursor : d \in taken \cup overtaken
    /\ \A d \in taken : d <= cursor
    /\ address <= cursor

\* How far the stream has come: what it has not sent it will find.
ReplayInv ==
    /\ stream.at = "opening" => stream.last <= cursor /\ stream.held = {}
    /\ stream.at \in {"query", "emit"} =>
         /\ \A d \in 1..stream.last : Behind(d) \/ OnWire(wire, d)
         /\ stream.held \subseteq Published
    /\ stream.at = "emit" => \A r \in stream.rows : \A d \in 1..r : Behind(d) \/ OnWire(wire, d) \/ d \in stream.rows
    /\ stream.at = "emit" /\ IsLastPage(stream.rows) =>
         \A d \in Published : d <= stream.last \/ d \in stream.rows \cup stream.held
    /\ stream.at = "live" => \A d \in Published : Behind(d) \/ OnWire(wire, d)

\* What was taken made the page refresh, or will, or is accounted for.
RefreshInv ==
    /\ taken \subseteq refreshed \cup dropped \cup oldNews \cup putOff
    /\ ~replaying => putOff = {}
    /\ ~following => wire = <<>> /\ stream.at = "none" /\ putOff = {}

StreamInv ==
    /\ StreamTypeInv /\ WritersInv /\ PublishedInv /\ CursorInv /\ Covered(wire) /\ ReplayInv /\ RefreshInv

-----------------------------------------------------------------------------
(* Sets of events.                                                         *)

LEMMA StreamConstants ==
    EventLimit \in Nat \ {0} /\ PageSize \in Nat \ {0} /\ Reopenings \in Nat
BY StreamAssumption

LEMMA IdsAreNat == IsFiniteSet(Ids) /\ \A d \in Ids : d \in Nat /\ 1 <= d /\ d <= EventLimit
BY StreamConstants, FS_Interval DEF Ids

\* A set of events that is not empty has a greatest.
LEMMA GreatestEvent ==
    ASSUME NEW S \in SUBSET (0..EventLimit), S # {}
    PROVE  \E x \in S : \A y \in S : x >= y
<1> DEFINE T == {EventLimit - y : y \in S}
<1>1. \A y \in S : y \in Nat /\ y <= EventLimit /\ EventLimit - y \in Nat
  BY StreamConstants
<1>2. T \subseteq Nat /\ T # {}
  BY <1>1
<1>3. PICK u \in T : \A v \in T : u <= v
  BY <1>2, LeastOf
<1>4. PICK x \in S : u = EventLimit - x
  OBVIOUS
<1>5. \A y \in S : EventLimit - x <= EventLimit - y
  BY <1>3, <1>4
<1>6. \A y \in S : x >= y
  BY <1>1, <1>5, StreamConstants
<1> QED
  BY <1>6

LEMMA GreatestIs ==
    ASSUME NEW S \in SUBSET Ids, NEW x \in 0..EventLimit
    PROVE  /\ Greatest(S, x) \in S \cup {x} /\ Greatest(S, x) \in 0..EventLimit
           /\ \A y \in S \cup {x} : Greatest(S, x) >= y
<1>1. S \cup {x} \in SUBSET (0..EventLimit) /\ S \cup {x} # {}
  BY IdsAreNat, StreamConstants
<1>2. \E g \in S \cup {x} : \A y \in S \cup {x} : g >= y
  BY <1>1, GreatestEvent
<1>3. Greatest(S, x) = CHOOSE g \in S \cup {x} : \A y \in S \cup {x} : g >= y
  BY DEF Greatest, Max
<1> QED
  BY <1>1, <1>2, <1>3

-----------------------------------------------------------------------------
(* Events in order.                                                        *)

Increasing(q, n) == \A i, j \in 1..n : i < j => q[i] < q[j]
Listed(S) == \E q \in [1..Cardinality(S) -> S] : Increasing(q, Cardinality(S))

\* Any set of events can be listed in order: no smallest one cannot.
LEMMA AllAreListed == \A S \in SUBSET Ids : Listed(S)
<1> DEFINE Bad == {S \in SUBSET Ids : ~Listed(S)}
           T == {Cardinality(S) : S \in Bad}
<1>1. \A S \in SUBSET Ids : IsFiniteSet(S) /\ Cardinality(S) \in Nat
  BY IdsAreNat, FS_Subset, FS_CardinalityType
<1> SUFFICES ASSUME Bad # {} PROVE FALSE
  OBVIOUS
<1>2. T \subseteq Nat /\ T # {}
  BY <1>1
<1>3. PICK n \in T : \A m \in T : n <= m
  BY <1>2, LeastOf
<1>4. PICK S \in Bad : n = Cardinality(S)
  OBVIOUS
<1>5. n \in Nat /\ IsFiniteSet(S) /\ S \subseteq Ids
  BY <1>1, <1>4
<1>6. CASE n = 0
  <2> DEFINE q == [i \in 1..0 |-> 0]
  <2>1. q \in [1..0 -> S] /\ Increasing(q, 0)
    BY DEF Increasing
  <2> QED
    BY <1>4, <1>6, <2>1 DEF Listed
<1>7. CASE n # 0
  <2>1. S # {}
    BY <1>4, <1>7, FS_EmptySet
  <2>2. PICK x \in S : \A y \in S : x >= y
    <3>1. S \in SUBSET (0..EventLimit)
      BY <1>5, IdsAreNat, StreamConstants
    <3> QED
      BY <2>1, <3>1, GreatestEvent
  <2> DEFINE R == S \ {x}
  <2>3. Cardinality(R) = n - 1 /\ R \in SUBSET Ids
    BY <1>4, <1>5, FS_RemoveElement
  <2>4. Listed(R)
    <3>1. ~(n <= n - 1)
      BY <1>5
    <3> QED
      BY <1>3, <2>3, <3>1
  <2>5. PICK q \in [1..(n - 1) -> R] : Increasing(q, n - 1)
    BY <2>3, <2>4 DEF Listed
  <2> DEFINE p == [i \in 1..n |-> IF i = n THEN x ELSE q[i]]
  <2>6. \A i \in 1..(n - 1) : q[i] \in S /\ q[i] < x
    <3> SUFFICES ASSUME NEW i \in 1..(n - 1) PROVE q[i] \in S /\ q[i] < x
      OBVIOUS
    <3>1. q[i] \in R
      BY <2>5
    <3>2. q[i] \in Nat /\ x \in Nat
      BY <1>5, <3>1, IdsAreNat
    <3> QED
      BY <2>2, <3>1, <3>2
  <2>7. \A i \in 1..n : i # n => i \in 1..(n - 1)
    BY <1>5
  <2>8. p \in [1..n -> S]
    BY <2>2, <2>6, <2>7
  <2>9. Increasing(p, n)
    <3> SUFFICES ASSUME NEW i \in 1..n, NEW j \in 1..n, i < j PROVE p[i] < p[j]
      BY DEF Increasing
    <3>1. i # n /\ i \in 1..(n - 1)
      BY <1>5
    <3>2. CASE j = n
      BY <2>6, <3>1, <3>2
    <3>3. CASE j # n
      BY <2>5, <2>7, <3>1, <3>3 DEF Increasing
    <3> QED
      BY <3>2, <3>3
  <2> QED
    BY <1>4, <2>8, <2>9 DEF Listed
<1> QED
  BY <1>6, <1>7

LEMMA AscendingIs ==
    ASSUME NEW S \in SUBSET Ids
    PROVE  /\ Cardinality(S) \in Nat /\ Ascending(S) \in [1..Cardinality(S) -> S]
           /\ Increasing(Ascending(S), Cardinality(S))
           /\ \A e \in S : \E i \in 1..Cardinality(S) : Ascending(S)[i] = e
<1> DEFINE n == Cardinality(S)
<1>1. IsFiniteSet(S) /\ n \in Nat
  BY IdsAreNat, FS_Subset, FS_CardinalityType
<1>2. \E q \in [1..n -> S] : \A i, j \in 1..n : i < j => q[i] < q[j]
  BY AllAreListed DEF Listed, Increasing
<1>3. Ascending(S) \in [1..n -> S] /\ \A i, j \in 1..n : i < j => Ascending(S)[i] < Ascending(S)[j]
  BY <1>2 DEF Ascending
<1> PICK q : q = Ascending(S)
  OBVIOUS
<1>4. q \in Injection(1..n, S)
  <2>1. ASSUME NEW i \in 1..n, NEW j \in 1..n, q[i] = q[j] PROVE i = j
    <3>1. q[i] \in Nat
      BY <1>3, IdsAreNat
    <3>2. ~(i < j) /\ ~(j < i)
      BY <1>3, <2>1, <3>1
    <3> QED
      BY <3>2
  <2> QED
    BY <1>3, <2>1 DEF Injection, IsInjective
<1>5. Cardinality(1..n) = n
  BY <1>1, FS_Interval
<1>6. q \in Surjection(1..n, S)
  BY <1>1, <1>4, <1>5, FS_Injection
<1>7. \A e \in S : \E i \in 1..n : q[i] = e
  BY <1>6 DEF Surjection
<1> QED
  BY <1>1, <1>3, <1>7 DEF Increasing

LEMMA ItemIs == \A k, e : Item(k, e).kind = k /\ Item(k, e).id = e
BY DEF Item

LEMMA EventItem == \A e \in Ids : Item("event", e) \in ItemType
BY IdsAreNat, StreamConstants DEF Item, ItemType

\* The elements of S are in w in their order.
Ordered(w, S) ==
    \A i \in 1..Len(w) : \A d \in S : d <= w[i].id => \E j \in 1..i : w[j] = Item("event", d)

LEMMA EventsOfIs ==
    ASSUME NEW S \in SUBSET Ids
    PROVE  /\ EventsOf(S) \in Seq(ItemType)
           /\ \A i \in 1..Len(EventsOf(S)) : \E e \in S : EventsOf(S)[i] = Item("event", e)
           /\ \A e \in S : OnWire(EventsOf(S), e)
           /\ Ordered(EventsOf(S), S)
<1> DEFINE n == Cardinality(S)
<1> PICK q : q = Ascending(S)
  OBVIOUS
<1>1. /\ n \in Nat /\ q \in [1..n -> S] /\ Increasing(q, n)
      /\ \A e \in S : \E i \in 1..n : q[i] = e
  BY AscendingIs
<1>2. EventsOf(S) = [i \in 1..n |-> Item("event", q[i])]
  BY DEF EventsOf
<1> PICK w : w = EventsOf(S)
  OBVIOUS
<1> HIDE DEF n
<1>3. \A i \in 1..n : q[i] \in S /\ q[i] \in Ids /\ w[i] = Item("event", q[i])
  BY <1>1, <1>2
<1>4. w \in Seq(ItemType) /\ Len(w) = n
  <2>1. \A i \in 1..n : Item("event", q[i]) \in ItemType
    BY <1>3, EventItem
  <2> QED
    BY <1>1, <1>2, <2>1
<1>5. \A e \in S : OnWire(w, e)
  BY <1>1, <1>3, <1>4 DEF OnWire
<1>6. ASSUME NEW i \in 1..n, NEW d \in S, d <= w[i].id PROVE \E j \in 1..i : w[j] = Item("event", d)
  <2>1. PICK j \in 1..n : q[j] = d
    BY <1>1
  <2>2. d <= q[i] /\ d \in Nat /\ q[i] \in Nat
    BY <1>3, <1>6, ItemIs, IdsAreNat
  <2>3. ~(i < j)
    BY <1>1, <2>1, <2>2 DEF Increasing
  <2>4. j \in 1..i
    BY <1>1, <2>3
  <2> QED
    BY <1>3, <2>1, <2>4
<1>7. Ordered(w, S)
  BY <1>4, <1>6 DEF Ordered
<1> QED
  BY <1>3, <1>4, <1>5, <1>7

-----------------------------------------------------------------------------
(* What a wire brings.                                                     *)

\* What was on a wire, and what is of S, is on another.
Brings(w, S, v) == \A d : OnWire(w, d) \/ d \in S => OnWire(v, d)

\* Events in order are put on a wire that has, or what has, all before them.
LEMMA EventsFollow ==
    ASSUME NEW w \in Seq(ItemType), Covered(w), NEW S \in SUBSET Ids,
           \A e \in S : \A d \in 1..e : Behind(d) \/ OnWire(w, d) \/ d \in S
    PROVE  /\ w \o EventsOf(S) \in Seq(ItemType) /\ Covered(w \o EventsOf(S))
           /\ Brings(w, S, w \o EventsOf(S))
<1> PICK v : v = EventsOf(S)
  OBVIOUS
<1> PICK u : u = w \o v
  OBVIOUS
<1>1. /\ v \in Seq(ItemType) /\ \A i \in 1..Len(v) : \E e \in S : v[i] = Item("event", e)
      /\ \A e \in S : OnWire(v, e)
      /\ \A i \in 1..Len(v) : \A d \in S : d <= v[i].id => \E j \in 1..i : v[j] = Item("event", d)
  <2>1. v \in Seq(ItemType)
    BY EventsOfIs
  <2>2. \A i \in 1..Len(v) : \E e \in S : v[i] = Item("event", e)
    BY EventsOfIs
  <2>3. \A e \in S : OnWire(v, e)
    BY EventsOfIs
  <2>4. Ordered(v, S)
    BY EventsOfIs
  <2> QED
    BY <2>1, <2>2, <2>3, <2>4 DEF Ordered
<1>2. /\ u \in Seq(ItemType) /\ Len(u) = Len(w) + Len(v) /\ Len(w) \in Nat /\ Len(v) \in Nat
      /\ \A i \in 1..Len(w) : u[i] = w[i]
      /\ \A i \in 1..Len(v) : u[Len(w) + i] = v[i]
  <2>1. /\ u \in Seq(ItemType) /\ Len(u) = Len(w) + Len(v) /\ Len(w) \in Nat /\ Len(v) \in Nat
        /\ \A i \in 1..(Len(w) + Len(v)) : u[i] = IF i <= Len(w) THEN w[i] ELSE v[i - Len(w)]
    BY <1>1, ConcatProperties
  <2>2. \A i \in 1..Len(v) : Len(w) + i \in 1..(Len(w) + Len(v)) /\ ~(Len(w) + i <= Len(w)) /\ (Len(w) + i) - Len(w) = i
    BY <2>1
  <2> QED
    BY <2>1, <2>2
<1>3. \A d : OnWire(w, d) => OnWire(u, d)
  BY <1>2 DEF OnWire
<1>4. \A d \in S : OnWire(u, d)
  <2> SUFFICES ASSUME NEW d \in S PROVE OnWire(u, d)
    OBVIOUS
  <2>1. PICK i \in 1..Len(v) : v[i] = Item("event", d)
    BY <1>1 DEF OnWire
  <2>2. Len(w) + i \in 1..Len(u) /\ u[Len(w) + i] = Item("event", d)
    BY <1>2, <2>1
  <2> QED
    BY <2>2 DEF OnWire
<1>5. Covered(u)
  <2> SUFFICES ASSUME NEW i \in 1..Len(u), NEW d \in 1..u[i].id
               PROVE  Behind(d) \/ \E j \in 1..i : u[j] = Item("event", d)
    BY DEF Covered
  <2>1. CASE i <= Len(w)
    <3>1. i \in 1..Len(w) /\ u[i] = w[i]
      BY <1>2, <2>1
    <3>2. Behind(d) \/ \E j \in 1..i : w[j] = Item("event", d)
      BY <3>1 DEF Covered
    <3>3. \A j \in 1..i : u[j] = w[j]
      BY <1>2, <3>1
    <3> QED
      BY <3>2, <3>3
  <2>2. CASE ~(i <= Len(w))
    <3>1. PICK k \in 1..Len(v) : i = Len(w) + k
      <4>1. i - Len(w) \in 1..Len(v) /\ i = Len(w) + (i - Len(w))
        BY <1>2, <2>2
      <4> QED
        BY <4>1
    <3>2. PICK e \in S : v[k] = Item("event", e)
      BY <1>1
    <3>3. u[i] = v[k] /\ v[k].id = e /\ d \in 1..e
      BY <1>2, <3>1, <3>2, ItemIs
    <3>4. CASE Behind(d)
      BY <3>4
    <3>5. CASE OnWire(w, d)
      <4>1. PICK j \in 1..Len(w) : w[j] = Item("event", d)
        BY <3>5 DEF OnWire
      <4>2. j \in 1..i /\ u[j] = Item("event", d)
        BY <1>2, <3>1, <4>1
      <4> QED
        BY <4>2
    <3>6. CASE d \in S
      <4>1. d <= v[k].id
        BY <3>3, <3>6, IdsAreNat
      <4>2. PICK j \in 1..k : v[j] = Item("event", d)
        BY <1>1, <3>6, <4>1
      <4>3. Len(w) + j \in 1..i /\ j \in 1..Len(v)
        BY <1>2, <3>1
      <4> QED
        BY <1>2, <4>2, <4>3
    <3> QED
      BY <3>3, <3>4, <3>5, <3>6
  <2> QED
    BY <2>1, <2>2
<1> QED
  BY <1>2, <1>3, <1>4, <1>5 DEF Brings

LEMMA ItemFollows ==
    ASSUME NEW w \in Seq(ItemType), Covered(w), NEW item \in ItemType,
           \A d \in 1..item.id : Behind(d) \/ OnWire(w, d) \/ item = Item("event", d)
    PROVE  /\ Append(w, item) \in Seq(ItemType) /\ Covered(Append(w, item)) /\ w \o <<item>> = Append(w, item)
           /\ Brings(w, {}, Append(w, item))
<1> PICK u : u = Append(w, item)
  OBVIOUS
<1>1. /\ u \in Seq(ItemType) /\ Len(u) = Len(w) + 1 /\ Len(w) \in Nat /\ u[Len(w) + 1] = item
      /\ \A i \in 1..Len(w) : u[i] = w[i]
  BY AppendProperties
<1>2. \A d : OnWire(w, d) => OnWire(u, d)
  BY <1>1 DEF OnWire
<1>3. Brings(w, {}, u)
  BY <1>2 DEF Brings
<1>4. Covered(u)
  <2> SUFFICES ASSUME NEW i \in 1..Len(u), NEW d \in 1..u[i].id
               PROVE  Behind(d) \/ \E j \in 1..i : u[j] = Item("event", d)
    BY DEF Covered
  <2>1. CASE i <= Len(w)
    <3>1. i \in 1..Len(w) /\ u[i] = w[i]
      BY <1>1, <2>1
    <3>2. Behind(d) \/ \E j \in 1..i : w[j] = Item("event", d)
      BY <3>1 DEF Covered
    <3>3. \A j \in 1..i : u[j] = w[j]
      BY <1>1, <3>1
    <3> QED
      BY <3>2, <3>3
  <2>2. CASE ~(i <= Len(w))
    <3>1. i = Len(w) + 1 /\ u[i] = item
      BY <1>1, <2>2
    <3>2. \A j \in 1..Len(w) : j \in 1..i /\ u[j] = w[j]
      BY <1>1, <3>1
    <3>3. i \in 1..i
      BY <1>1, <3>1
    <3> QED
      BY <3>1, <3>2, <3>3 DEF OnWire
  <2> QED
    BY <2>1, <2>2
<1>5. w \o <<item>> = u
  BY AppendIsConcat
<1> QED
  BY <1>1, <1>2, <1>3, <1>4, <1>5

\* The page is never less far, and what was overtaken stays so.
LEMMA BehindGrows ==
    ASSUME cursor \in Nat, cursor' \in Nat, cursor <= cursor', overtaken \subseteq overtaken', NEW d \in Nat, Behind(d)
    PROVE  Behind(d)'
BY DEF Behind

LEMMA CoveredGrows ==
    ASSUME cursor \in Nat, cursor' \in Nat, cursor <= cursor', overtaken \subseteq overtaken',
           NEW w \in Seq(ItemType), Covered(w), wire' = w
    PROVE  Covered(wire)'
<1>1. \A i \in 1..Len(w) : \A d \in 1..w[i].id : Behind(d)' \/ \E j \in 1..i : w[j] = Item("event", d)
  BY DEF Covered, Behind
<1> QED
  BY <1>1 DEF Covered

-----------------------------------------------------------------------------
(* The steps.                                                              *)

LEMMA StreamTypes ==
    StreamInv => /\ drawn \in Nat /\ cursor \in Nat /\ cursor <= EventLimit /\ stream \in StreamType
                 /\ wire \in Seq(ItemType) /\ Published \subseteq Ids /\ overtaken \subseteq Ids
                 /\ \A d \in Published : d \in 1..drawn /\ d \in Nat
BY StreamConstants, IdsAreNat DEF StreamInv, StreamTypeInv, Published, Ids

\* The parts that speak of the database do not change with it.
LEMMA WritersFrame ==
    ASSUME WritersInv, PublishedInv, UNCHANGED eventVars, overtaken \subseteq overtaken'
    PROVE  WritersInv' /\ PublishedInv' /\ Published' = Published
<1>1. Published' = Published
  BY DEF Published, eventVars
<1> QED
  BY <1>1 DEF WritersInv, PublishedInv, eventVars

LEMMA StreamInitInv == StreamInit => StreamInv
<1> SUFFICES ASSUME StreamInit PROVE StreamInv
  OBVIOUS
<1>1. StreamTypeInv
  <2>1. drawn \in 0..EventLimit /\ 0 \in 0..EventLimit /\ {} \subseteq Ids /\ Reopenings \in 0..Reopenings
    BY StreamConstants DEF StreamInit
  <2>2. <<>> \in Seq(ItemType)
    OBVIOUS
  <2>3. NoStream \in StreamType
    BY <2>1 DEF NoStream, StreamType
  <2>4. writing \in [Flows -> [id : 0..EventLimit, stored : BOOLEAN]]
    BY <2>1 DEF StreamInit, Rest
  <2> QED
    BY <2>1, <2>2, <2>3, <2>4 DEF StreamInit, StreamTypeInv
<1>2. WritersInv
  BY DEF StreamInit, WritersInv, Rest
<1>3. PublishedInv
  BY DEF StreamInit, PublishedInv, Published, Rest
<1>4. CursorInv /\ RefreshInv
  BY DEF StreamInit, CursorInv, RefreshInv, NoStream
<1>5. Covered(wire) /\ ReplayInv
  BY DEF StreamInit, Covered, ReplayInv, NoStream
<1> QED
  BY <1>1, <1>2, <1>3, <1>4, <1>5 DEF StreamInv

LEMMA InsertEventKeeps == ASSUME StreamInv, NEW f \in Flows, InsertEvent(f) PROVE StreamInv'
<1>1. /\ writing[f].id = 0 /\ drawn' = drawn + 1 /\ drawn \in Nat /\ drawn' \in 0..EventLimit
      /\ writing' = [writing EXCEPT ![f] = [id |-> drawn + 1, stored |-> FALSE]]
      /\ writing \in [Flows -> [id : 0..EventLimit, stored : BOOLEAN]]
      /\ UNCHANGED <<stream, wire, sourceVars, reopenings, streamHistory>>
  BY StreamConstants DEF StreamInv, StreamTypeInv, InsertEvent
<1>2. \A g \in Flows : /\ g = f => writing'[g].id = drawn + 1 /\ writing'[g].stored = FALSE
                       /\ g # f => writing'[g] = writing[g]
  BY <1>1
<1>3. StreamTypeInv'
  <2>1. [id |-> drawn + 1, stored |-> FALSE] \in [id : 0..EventLimit, stored : BOOLEAN]
    BY <1>1
  <2>2. writing' \in [Flows -> [id : 0..EventLimit, stored : BOOLEAN]]
    BY <1>1, <2>1
  <2> QED
    BY <1>1, <2>2 DEF StreamInv, StreamTypeInv, sourceVars, streamHistory
<1>4. WritersInv'
  <2>1. \A g \in Flows : writing[g].id \in Nat /\ writing[g].id <= drawn
    BY <1>1 DEF StreamInv, WritersInv
  <2>2. \A g \in Flows \ {f} : writing'[g].id # drawn + 1
    BY <1>1, <1>2, <2>1
  <2> QED
    BY <1>1, <1>2, <2>1, <2>2 DEF StreamInv, WritersInv
<1>5. Published' = Published
  <2>1. ASSUME NEW e \in Published' PROVE e \in Published
    <3>1. e \in 1..(drawn + 1) /\ \A g \in Flows : writing'[g].id # e
      BY <1>1 DEF Published
    <3>2. e # drawn + 1 /\ e \in 1..drawn
      BY <1>1, <1>2, <3>1
    <3>3. \A g \in Flows : writing[g].id # e
      BY <1>1, <1>2, <3>1, <3>2
    <3> QED
      BY <3>2, <3>3 DEF Published
  <2>2. ASSUME NEW e \in Published PROVE e \in Published'
    <3>1. e \in 1..drawn /\ \A g \in Flows : writing[g].id # e
      BY DEF Published
    <3>2. e \in 1..drawn' /\ e # drawn + 1
      BY <1>1, <3>1
    <3>3. \A g \in Flows : writing'[g].id # e
      BY <1>2, <3>1, <3>2
    <3> QED
      BY <3>2, <3>3 DEF Published
  <2> QED
    BY <2>1, <2>2
<1>6. PublishedInv' /\ CursorInv' /\ Covered(wire)' /\ ReplayInv' /\ RefreshInv'
  BY <1>1, <1>5 DEF StreamInv, PublishedInv, CursorInv, Covered, ReplayInv, RefreshInv, Behind, sourceVars, streamHistory
<1> QED
  BY <1>3, <1>4, <1>6 DEF StreamInv

LEMMA CommitEventKeeps == ASSUME StreamInv, NEW f \in Flows, CommitEvent(f) PROVE StreamInv'
<1>1. /\ writing[f].id > 0 /\ writing' = [writing EXCEPT ![f] = [writing[f] EXCEPT !.stored = TRUE]]
      /\ writing \in [Flows -> [id : 0..EventLimit, stored : BOOLEAN]]
      /\ UNCHANGED <<drawn, stream, wire, sourceVars, reopenings, streamHistory>>
  BY DEF StreamInv, StreamTypeInv, CommitEvent
<1>2. \A g \in Flows : writing'[g].id = writing[g].id /\ (g # f => writing'[g] = writing[g])
  BY <1>1
<1>3. StreamTypeInv'
  BY <1>1 DEF StreamInv, StreamTypeInv, sourceVars, streamHistory
<1>4. WritersInv'
  BY <1>1, <1>2 DEF StreamInv, WritersInv
<1>5. Published' = Published
  BY <1>1, <1>2 DEF Published
<1>6. PublishedInv' /\ CursorInv' /\ Covered(wire)' /\ ReplayInv' /\ RefreshInv'
  BY <1>1, <1>5 DEF StreamInv, PublishedInv, CursorInv, Covered, ReplayInv, RefreshInv, Behind, sourceVars, streamHistory
<1> QED
  BY <1>3, <1>4, <1>6 DEF StreamInv

LEMMA PublishKeeps == ASSUME StreamInv, NEW f \in Flows, PublishEvent(f) PROVE StreamInv'
<1> PICK e : e = writing[f].id
  OBVIOUS
<1>1. /\ writing[f].stored /\ Hear(e) /\ writing' = [writing EXCEPT ![f] = Rest]
      /\ overtaken' = overtaken \cup (1..(e - 1) \ Published)
      /\ writing \in [Flows -> [id : 0..EventLimit, stored : BOOLEAN]]
      /\ UNCHANGED <<drawn, following, address, replaying, cursor, putOff, primed, startedAt, reopenings, taken,
                     refreshed, dropped, oldNews>>
  BY DEF StreamInv, StreamTypeInv, PublishEvent, sourceVars
<1>2. e \in Ids /\ e \in 1..drawn /\ e \in Nat
  BY <1>1, StreamConstants DEF StreamInv, StreamTypeInv, WritersInv, Ids
<1>3. \A g \in Flows : /\ g = f => writing'[g].id = 0 /\ writing'[g].stored = FALSE
                       /\ g # f => writing'[g] = writing[g] /\ writing[g].id # e
  BY <1>1, <1>2 DEF StreamInv, WritersInv, Rest
<1>4. Published' = Published \cup {e}
  <2>1. \A d \in 1..drawn : (\A g \in Flows : writing'[g].id # d) <=> d = e \/ \A g \in Flows : writing[g].id # d
    BY <1>1, <1>2, <1>3
  <2> QED
    BY <1>1, <1>2, <2>1 DEF Published
<1>5. overtaken \subseteq overtaken' /\ overtaken' \subseteq Ids /\ \A d \in 1..(e - 1) : d \in Published \cup overtaken'
  <2>1. 1..(e - 1) \subseteq Ids
    BY <1>2, StreamConstants DEF Ids
  <2> QED
    BY <1>1, <2>1, StreamTypes
<1>6. WritersInv'
  <2>1. drawn \in Nat /\ \A g \in Flows : writing'[g].id <= drawn
    BY <1>3, StreamTypes DEF StreamInv, WritersInv
  <2>2. \A g \in Flows : writing'[g].stored => writing'[g].id # 0
    BY <1>3 DEF StreamInv, WritersInv
  <2>3. \A g, h \in Flows : writing'[g].id = writing'[h].id /\ writing'[g].id # 0 => g = h
    BY <1>3 DEF StreamInv, WritersInv
  <2> QED
    BY <1>1, <2>1, <2>2, <2>3 DEF WritersInv
<1>7. PublishedInv'
  <2> SUFFICES ASSUME NEW a \in Published', NEW d \in 1..a PROVE d \in Published' \cup overtaken'
    BY DEF PublishedInv
  <2>1. CASE a \in Published
    BY <1>4, <1>5, <2>1 DEF StreamInv, PublishedInv
  <2>2. CASE a = e
    <3>1. d = e \/ d \in 1..(e - 1)
      BY <1>2, <2>2
    <3> QED
      BY <1>4, <1>5, <3>1
  <2> QED
    BY <1>4, <2>1, <2>2
<1>8. CursorInv'
  BY <1>1, <1>5 DEF StreamInv, CursorInv
<1>9. cursor \in Nat /\ stream \in StreamType /\ wire \in Seq(ItemType) /\ cursor' = cursor
  BY <1>1, StreamTypes
<1>10. \A d \in Nat : Behind(d) => Behind(d)'
  BY <1>5, <1>9, BehindGrows
<1>11. writing' \in [Flows -> [id : 0..EventLimit, stored : BOOLEAN]]
  <2>1. Rest \in [id : 0..EventLimit, stored : BOOLEAN]
    BY StreamConstants DEF Rest
  <2> QED
    BY <1>1, <2>1
<1>12. CASE stream.at = "live"
  <2>1. wire' = Append(wire, Item("event", e)) /\ stream' = stream
    BY <1>1, <1>12 DEF Hear
  <2>2. \A d \in 1..e : d = e \/ d \in overtaken' \/ (d \in Published /\ d \in Nat)
    BY <1>2, <1>5
  <2>3. \A d \in Published : Behind(d) \/ OnWire(wire, d)
    BY <1>12 DEF StreamInv, ReplayInv
  \* What the new item may be put on.
  <2>4. wire' \in Seq(ItemType) /\ Covered(wire)' /\ \A d : OnWire(wire, d) \/ d = e => OnWire(wire', d)
    <3> PICK w : w = wire
      OBVIOUS
    <3> PICK item : item = Item("event", e)
      OBVIOUS
    <3> PICK u : u = Append(w, item)
      OBVIOUS
    <3>1. item \in ItemType /\ item.id = e
      BY <1>2, EventItem, ItemIs
    <3>2. /\ u \in Seq(ItemType) /\ Len(u) = Len(w) + 1 /\ Len(w) \in Nat /\ u[Len(w) + 1] = item
          /\ \A i \in 1..Len(w) : u[i] = w[i]
      BY <1>9, <3>1, AppendProperties
    <3>3. \A d : OnWire(w, d) => OnWire(u, d)
      BY <3>2 DEF OnWire
    <3>4. OnWire(u, e)
      BY <3>2 DEF OnWire
    <3>5. \A i \in 1..Len(u) : \A d \in 1..u[i].id : Behind(d)' \/ \E j \in 1..i : u[j] = Item("event", d)
      <4> SUFFICES ASSUME NEW i \in 1..Len(u), NEW d \in 1..u[i].id
                   PROVE  Behind(d)' \/ \E j \in 1..i : u[j] = Item("event", d)
        OBVIOUS
      <4>1. CASE i <= Len(w)
        <5>1. i \in 1..Len(w) /\ u[i] = w[i] /\ \A j \in 1..i : u[j] = w[j]
          BY <3>2, <4>1
        <5>2. Behind(d) \/ \E j \in 1..i : w[j] = Item("event", d)
          BY <5>1 DEF StreamInv, Covered
        <5>3. d \in Nat
          OBVIOUS
        <5> QED
          BY <1>10, <5>1, <5>2, <5>3
      <4>2. CASE ~(i <= Len(w))
        <5>1. i = Len(w) + 1 /\ u[i] = item /\ i \in 1..i /\ \A j \in 1..Len(w) : j \in 1..i /\ u[j] = w[j]
          BY <3>2, <4>2
        <5>2. d = e \/ d \in overtaken' \/ (d \in Published /\ d \in Nat)
          BY <2>2, <3>1, <5>1
        <5>3. CASE d = e
          BY <5>1, <5>3
        <5>4. CASE d \in overtaken'
          BY <5>4 DEF Behind
        <5>5. CASE d \in Published /\ d \in Nat
          <6>1. Behind(d)' \/ OnWire(w, d)
            BY <1>10, <2>3, <5>5
          <6> QED
            BY <5>1, <6>1 DEF OnWire
        <5> QED
          BY <5>2, <5>3, <5>4, <5>5
      <4> QED
        BY <4>1, <4>2
    <3>6. wire' = u
      BY <2>1
    <3>7. Covered(wire)'
      BY <3>5, <3>6 DEF Covered
    <3> QED
      BY <3>2, <3>3, <3>4, <3>6, <3>7
  <2>5. StreamTypeInv'
    BY <1>1, <1>5, <1>11, <2>1, <2>4 DEF StreamInv, StreamTypeInv
  <2>6. ReplayInv'
    <3>1. \A d \in Published' : Behind(d)' \/ OnWire(wire', d)
      BY <1>4, <1>10, <2>3, <2>4, StreamTypes
    <3> QED
      BY <1>12, <2>1, <3>1 DEF ReplayInv, OnWire
  <2>7. RefreshInv'
    BY <1>1, <1>12, <2>1 DEF StreamInv, RefreshInv
  <2> QED
    BY <1>6, <1>7, <1>8, <2>4, <2>5, <2>6, <2>7 DEF StreamInv
<1>13. CASE stream.at \in {"query", "emit"}
  <2>1. wire' = wire /\ stream' = [stream EXCEPT !.held = Held(e)]
    BY <1>1, <1>13 DEF Hear
  <2>2. /\ stream' \in StreamType /\ stream'.held = stream.held \cup {e} /\ stream'.at = stream.at
        /\ stream'.last = stream.last /\ stream'.rows = stream.rows
    BY <1>2, <1>9, <2>1 DEF Held, StreamType
  <2>3. StreamTypeInv'
    BY <1>1, <1>5, <1>11, <2>1, <2>2 DEF StreamInv, StreamTypeInv
  <2>4. Covered(wire)'
    BY <1>5, <1>9, <2>1, CoveredGrows DEF StreamInv
  <2>5. ReplayInv'
    <3>1. \A d \in 1..stream.last : Behind(d)' \/ OnWire(wire', d)
      <4>1. \A d \in 1..stream.last : d \in Nat /\ (Behind(d) \/ OnWire(wire, d))
        BY <1>13 DEF StreamInv, ReplayInv
      <4> QED
        BY <1>10, <2>1, <4>1
    <3>2. stream.held \cup {e} \subseteq Published'
      BY <1>4, <1>13 DEF StreamInv, ReplayInv
    <3>3. stream.at = "emit" => \A r \in stream.rows : \A d \in 1..r : Behind(d)' \/ OnWire(wire', d) \/ d \in stream.rows
      <4>1. stream.at = "emit" => \A r \in stream.rows : \A d \in 1..r :
               d \in Nat /\ (Behind(d) \/ OnWire(wire, d) \/ d \in stream.rows)
        BY DEF StreamInv, ReplayInv
      <4> QED
        BY <1>10, <2>1, <4>1
    <3>4. stream.at = "emit" /\ IsLastPage(stream.rows) =>
            \A d \in Published' : d <= stream.last \/ d \in stream.rows \cup stream.held \cup {e}
      BY <1>4 DEF StreamInv, ReplayInv
    <3> QED
      BY <1>13, <2>1, <2>2, <3>1, <3>2, <3>3, <3>4 DEF ReplayInv, OnWire, IsLastPage
  <2>6. RefreshInv'
    BY <1>1, <1>13, <2>1, <2>2 DEF StreamInv, RefreshInv
  <2> QED
    BY <1>6, <1>7, <1>8, <2>3, <2>4, <2>5, <2>6 DEF StreamInv
<1>14. CASE stream.at \notin {"query", "emit", "live"}
  <2>1. wire' = wire /\ stream' = stream
    BY <1>1, <1>14 DEF Hear
  <2>2. StreamTypeInv'
    BY <1>1, <1>5, <1>11, <2>1 DEF StreamInv, StreamTypeInv
  <2>3. Covered(wire)'
    BY <1>5, <1>9, <2>1, CoveredGrows DEF StreamInv
  <2>4. ReplayInv' /\ RefreshInv'
    BY <1>1, <1>14, <2>1 DEF StreamInv, ReplayInv, RefreshInv
  <2> QED
    BY <1>6, <1>7, <1>8, <2>2, <2>3, <2>4 DEF StreamInv
<1> QED
  BY <1>12, <1>13, <1>14

\* Nothing but the stream and what is on its way to the page changes.
LEMMA StreamAlone ==
    ASSUME StreamInv, UNCHANGED <<eventVars, following, address, replaying, cursor, primed, startedAt, taken, refreshed,
                                  overtaken, oldNews>>,
           stream' \in StreamType, wire' \in Seq(ItemType), reopenings' \in 0..Reopenings,
           putOff' = putOff, dropped' = dropped
    PROVE  StreamTypeInv' /\ WritersInv' /\ PublishedInv' /\ CursorInv' /\ Published' = Published
<1>1. StreamTypeInv'
  BY DEF StreamInv, StreamTypeInv, eventVars
<1>2. WritersInv' /\ PublishedInv' /\ Published' = Published
  BY WritersFrame DEF StreamInv
<1>3. CursorInv'
  BY DEF StreamInv, CursorInv
<1> QED
  BY <1>1, <1>2, <1>3

LEMMA SubscribeKeeps == ASSUME StreamInv, Subscribe PROVE StreamInv'
<1>1. /\ stream.at = "opening" /\ stream' = [stream EXCEPT !.at = "query"] /\ wire' = <<Item("ready", 0)>>
      /\ UNCHANGED <<eventVars, following, address, replaying, cursor, putOff, primed, startedAt, reopenings, taken,
                     refreshed, overtaken, dropped, oldNews>>
  BY DEF Subscribe, sourceVars, streamHistory
<1>2. stream' \in StreamType /\ stream'.at = "query" /\ stream'.last = stream.last /\ stream'.held = stream.held
  BY <1>1, StreamTypes DEF StreamType
<1>3. Item("ready", 0) \in ItemType /\ Item("ready", 0).id = 0
  BY StreamConstants DEF Item, ItemType
<1>4. StreamTypeInv' /\ WritersInv' /\ PublishedInv' /\ CursorInv' /\ Published' = Published
  <2>1. wire' \in Seq(ItemType) /\ reopenings' \in 0..Reopenings
    BY <1>1, <1>3 DEF StreamInv, StreamTypeInv
  <2> QED
    BY <1>1, <1>2, <2>1, StreamAlone
<1>5. Covered(wire)'
  BY <1>1, <1>3 DEF Covered
<1>6. ReplayInv'
  <2>1. stream.last <= cursor /\ stream.held = {} /\ stream.last \in Nat /\ cursor \in Nat
    <3>1. stream.last <= cursor /\ stream.held = {}
      BY <1>1 DEF StreamInv, ReplayInv
    <3> QED
      BY <3>1, StreamTypes, StreamConstants DEF StreamType
  <2>2. \A d \in 1..stream.last : d <= cursor
    BY <2>1
  <2> QED
    BY <1>1, <1>2, <2>1, <2>2 DEF ReplayInv, Behind
<1>7. RefreshInv'
  BY <1>1 DEF StreamInv, RefreshInv
<1> QED
  BY <1>4, <1>5, <1>6, <1>7 DEF StreamInv

\* A page of rows is what comes first of what is later than the last row; a
\* page that is not full is all of it.
LEMMA RowsAre ==
    ASSUME NEW later \in SUBSET Ids, NEW rows,
           rows = {e \in later : Cardinality({d \in later : d <= e}) <= PageSize}
    PROVE  /\ \A e \in rows, d \in later : d <= e => d \in rows
           /\ IsLastPage(rows) => rows = later
<1>1. \A S \in SUBSET Ids : IsFiniteSet(S) /\ Cardinality(S) \in Nat
  BY IdsAreNat, FS_Subset, FS_CardinalityType
<1>2. \A d \in later : d \in Nat
  BY IdsAreNat
<1>3. ASSUME NEW e \in rows, NEW d \in later, d <= e PROVE d \in rows
  <2> DEFINE A == {c \in later : c <= e}
             B == {c \in later : c <= d}
  <2>1. B \in SUBSET A
    BY <1>2, <1>3
  <2>2. IsFiniteSet(A) /\ Cardinality(A) \in Nat /\ Cardinality(B) \in Nat /\ Cardinality(A) <= PageSize
    BY <1>1
  <2>3. Cardinality(B) <= Cardinality(A)
    BY <2>1, <2>2, FS_Subset
  <2> HIDE DEF A
  <2>4. Cardinality(B) <= PageSize
    BY <2>2, <2>3, StreamConstants
  <2> QED
    BY <2>4
<1>4. ASSUME IsLastPage(rows), rows # later PROVE FALSE
  <2> DEFINE rest == later \ rows
  <2>1. rest \subseteq Nat /\ rest # {}
    BY <1>2, <1>4
  <2>2. PICK x \in rest : \A y \in rest : x <= y
    BY <2>1, LeastOf
  <2> DEFINE A == {c \in later : c <= x}
  <2>3. A \in SUBSET (rows \cup {x})
    <3> SUFFICES ASSUME NEW c \in later, c <= x, c # x PROVE c \in rows
      OBVIOUS
    <3>1. ~(x <= c)
      BY <1>2
    <3> QED
      BY <2>2, <3>1
  <2>4. IsFiniteSet(rows) /\ Cardinality(rows) \in Nat /\ Cardinality(rows) < PageSize
    BY <1>1, <1>4 DEF IsLastPage
  <2>5. IsFiniteSet(rows \cup {x}) /\ Cardinality(rows \cup {x}) = Cardinality(rows) + 1
    BY <2>4, FS_AddElement
  <2>6. Cardinality(A) <= Cardinality(rows \cup {x})
    BY <2>3, <2>5, FS_Subset
  <2>7. Cardinality(A) \in Nat
    BY <1>1
  <2>8. Cardinality(A) <= PageSize
    <3> HIDE DEF A
    <3> QED
      BY <2>4, <2>5, <2>6, <2>7, StreamConstants
  <2> QED
    BY <2>8
<1> QED
  BY <1>3, <1>4

LEMMA QueryRowsKeeps == ASSUME StreamInv, QueryRows PROVE StreamInv'
<1> DEFINE later == {e \in Stored : e > stream.last}
<1> PICK rows : rows = {e \in later : Cardinality({d \in later : d <= e}) <= PageSize}
  OBVIOUS
<1>1. /\ stream.at = "query" /\ stream' = [stream EXCEPT !.at = "emit", !.rows = rows]
      /\ overtaken' = overtaken \cup {e \in 1..drawn \ Stored : \E r \in rows : r > e}
      /\ UNCHANGED <<eventVars, wire, following, address, replaying, cursor, putOff, primed, startedAt, reopenings, taken,
                     refreshed, dropped, oldNews>>
  BY DEF QueryRows, sourceVars
<1>2. /\ drawn \in Nat /\ cursor \in Nat /\ stream \in StreamType /\ wire \in Seq(ItemType) /\ overtaken \subseteq Ids
      /\ 1..drawn \subseteq Ids /\ Stored \subseteq 1..drawn /\ stream.last \in Nat /\ Published \subseteq Stored
  <2>1. 1..drawn \subseteq Ids
    BY StreamConstants DEF Ids, StreamInv, StreamTypeInv
  <2>2. Stored \subseteq 1..drawn /\ Published \subseteq Stored
    BY DEF Stored, Published
  <2> QED
    BY <2>1, <2>2, StreamTypes, StreamConstants DEF StreamType
<1>3. later \in SUBSET Ids /\ rows \subseteq later
  BY <1>2
<1>4. /\ \A e \in rows, d \in later : d <= e => d \in rows
      /\ IsLastPage(rows) => rows = later
  <2> PICK all : all = later
    OBVIOUS
  <2>1. all \in SUBSET Ids /\ rows = {e \in all : Cardinality({d \in all : d <= e}) <= PageSize}
    BY <1>3
  <2> HIDE DEF later
  <2>2. \A e \in rows, d \in all : d <= e => d \in rows
    BY <2>1, RowsAre
  <2>3. IsLastPage(rows) => rows = all
    BY <2>1, RowsAre
  <2> QED
    BY <2>2, <2>3
<1>5. /\ stream' \in StreamType /\ stream'.at = "emit" /\ stream'.rows = rows /\ stream'.last = stream.last
      /\ stream'.held = stream.held
  BY <1>1, <1>2, <1>3 DEF StreamType
<1>6. overtaken \subseteq overtaken' /\ overtaken' \subseteq Ids
  BY <1>1, <1>2
<1>7. StreamTypeInv'
  BY <1>1, <1>5, <1>6 DEF StreamInv, StreamTypeInv, eventVars
<1>8. WritersInv' /\ PublishedInv' /\ Published' = Published
  BY <1>1, <1>6, WritersFrame DEF StreamInv
<1>9. CursorInv'
  BY <1>1, <1>6 DEF StreamInv, CursorInv
<1>10. Covered(wire)'
  BY <1>1, <1>2, <1>6, CoveredGrows DEF StreamInv
<1>11. ReplayInv'
  <2>1. \A d \in 1..stream.last : Behind(d)' \/ OnWire(wire, d)
    <3>1. \A d \in 1..stream.last : d \in Nat /\ (Behind(d) \/ OnWire(wire, d))
      BY <1>1 DEF StreamInv, ReplayInv
    <3> QED
      BY <1>1, <1>2, <1>6, <3>1, BehindGrows
  <2>2. ASSUME NEW r \in rows, NEW d \in 1..r PROVE Behind(d)' \/ OnWire(wire, d) \/ d \in rows
    <3>1. r \in 1..drawn /\ r > stream.last /\ r \in later /\ d \in Nat /\ d \in 1..drawn
      BY <1>2, <1>3
    <3>2. CASE d <= stream.last
      <4>1. d \in 1..stream.last
        BY <1>2, <3>1, <3>2
      <4> QED
        BY <2>1, <4>1
    <3>3. CASE d > stream.last /\ d \in Stored
      <4>1. d \in later
        BY <3>3
      <4> QED
        BY <1>4, <3>1, <4>1
    <3>4. CASE d \notin Stored
      <4>1. r # d
        BY <1>3, <3>4
      <4>2. r > d
        BY <3>1, <4>1
      <4>3. d \in overtaken'
        BY <1>1, <3>1, <3>4, <4>2
      <4> QED
        BY <4>3 DEF Behind
    <3>5. d <= stream.last \/ d > stream.last
      BY <1>2, <3>1
    <3> QED
      BY <3>2, <3>3, <3>4, <3>5
  <2>3. ASSUME IsLastPage(rows), NEW d \in Published PROVE d <= stream.last \/ d \in rows
    <3>1. d \in Stored /\ d \in Nat
      BY <1>2
    <3>2. d > stream.last => d \in rows
      BY <1>4, <2>3, <3>1
    <3> QED
      BY <1>2, <3>1, <3>2
  <2>4. stream.held \subseteq Published
    BY <1>1 DEF StreamInv, ReplayInv
  <2> QED
    BY <1>1, <1>5, <1>8, <2>1, <2>2, <2>3, <2>4 DEF ReplayInv, OnWire, IsLastPage
<1>12. RefreshInv'
  BY <1>1 DEF StreamInv, RefreshInv
<1> QED
  BY <1>7, <1>8, <1>9, <1>10, <1>11, <1>12 DEF StreamInv

LEMMA EmitRowsKeeps == ASSUME StreamInv, EmitRows PROVE StreamInv'
<1> PICK rows : rows = stream.rows
  OBVIOUS
<1> PICK before : before = stream.last
  OBVIOUS
<1> PICK last : last = Greatest(rows, before)
  OBVIOUS
<1> PICK kept : kept = {e \in stream.held : e > last}
  OBVIOUS
<1> PICK w : w = wire
  OBVIOUS
<1> PICK u : u = w \o EventsOf(rows)
  OBVIOUS
<1>1. /\ stream.at = "emit"
      /\ UNCHANGED <<eventVars, following, address, replaying, cursor, putOff, primed, startedAt, reopenings, taken,
                     refreshed, overtaken, dropped, oldNews>>
      /\ IF IsLastPage(rows)
           THEN /\ wire' = u \o EventsOf(kept) \o <<Item("replay_complete", Greatest(kept, last))>>
                /\ stream' = [NoStream EXCEPT !.at = "live"]
           ELSE /\ wire' = u
                /\ stream' = [stream EXCEPT !.at = "query", !.last = last, !.rows = {}]
  BY DEF EmitRows, sourceVars, streamHistory
<1>2. /\ stream \in StreamType /\ w \in Seq(ItemType) /\ rows \in SUBSET Ids /\ stream.held \in SUBSET Ids
      /\ before \in 0..EventLimit /\ before \in Nat /\ cursor \in Nat /\ Published \subseteq Ids
  BY StreamTypes, StreamConstants DEF StreamType
<1>3. /\ last \in rows \cup {before} /\ last \in 0..EventLimit /\ last \in Nat /\ before <= last
      /\ \A r \in rows : r <= last
  <2>1. /\ last \in rows \cup {before} /\ last \in 0..EventLimit
        /\ \A r \in rows \cup {before} : last >= r
    BY <1>2, GreatestIs
  <2> QED
    BY <1>2, <2>1, StreamConstants, IdsAreNat
<1>4. Covered(w) /\ \A d : Behind(d) <=> Behind(d)'
  BY <1>1 DEF StreamInv, Behind
<1>5. /\ \A d \in 1..before : Behind(d) \/ OnWire(w, d)
      /\ \A r \in rows : \A d \in 1..r : Behind(d) \/ OnWire(w, d) \/ d \in rows
      /\ IsLastPage(rows) => \A d \in Published : d <= before \/ d \in rows \cup stream.held
      /\ stream.held \subseteq Published
  BY <1>1 DEF StreamInv, ReplayInv
<1>6. /\ u \in Seq(ItemType) /\ Covered(u)
      /\ \A d : OnWire(w, d) \/ d \in rows => OnWire(u, d)
  <2>1. u \in Seq(ItemType) /\ Covered(u) /\ Brings(w, rows, u)
    BY <1>2, <1>4, <1>5, EventsFollow
  <2> QED
    BY <2>1 DEF Brings
\* The rows that are sent leave no gap up to the last of them.
<1>7. \A d \in 1..last : Behind(d) \/ OnWire(u, d)
  <2> SUFFICES ASSUME NEW d \in 1..last PROVE Behind(d) \/ OnWire(u, d)
    OBVIOUS
  <2>1. CASE last = before
    BY <1>5, <1>6, <2>1
  <2>2. CASE last \in rows
    BY <1>5, <1>6, <2>2
  <2> QED
    BY <1>3, <2>1, <2>2
<1>8. CASE ~IsLastPage(rows)
  <2>1. wire' = u /\ stream' = [stream EXCEPT !.at = "query", !.last = last, !.rows = {}]
    BY <1>1, <1>8
  <2>2. stream' \in StreamType /\ stream'.at = "query" /\ stream'.last = last /\ stream'.held = stream.held
    BY <1>2, <1>3, <2>1 DEF StreamType
  <2>3. StreamTypeInv' /\ WritersInv' /\ PublishedInv' /\ CursorInv' /\ Published' = Published
    <3>1. wire' \in Seq(ItemType) /\ reopenings' \in 0..Reopenings
      BY <1>1, <1>6, <2>1 DEF StreamInv, StreamTypeInv
    <3> QED
      BY <1>1, <2>2, <3>1, StreamAlone
  <2>4. Covered(wire)'
    <3>1. cursor' \in Nat /\ cursor <= cursor' /\ overtaken \subseteq overtaken'
      BY <1>1, <1>2
    <3> QED
      BY <1>2, <1>6, <2>1, <3>1, CoveredGrows
  <2>5. ReplayInv'
    BY <1>4, <1>5, <1>7, <2>1, <2>2, <2>3 DEF ReplayInv, OnWire
  <2>6. RefreshInv'
    BY <1>1 DEF StreamInv, RefreshInv
  <2> QED
    BY <2>3, <2>4, <2>5, <2>6 DEF StreamInv
<1>9. CASE IsLastPage(rows)
  <2> PICK v : v = u \o EventsOf(kept)
    OBVIOUS
  <2> PICK top : top = Greatest(kept, last)
    OBVIOUS
  <2> PICK item : item = Item("replay_complete", top)
    OBVIOUS
  <2>1. wire' = v \o <<item>> /\ stream' = [NoStream EXCEPT !.at = "live"]
    BY <1>1, <1>9
  <2>2. stream' \in StreamType /\ stream'.at = "live"
    <3>1. NoStream \in StreamType
      BY StreamConstants DEF NoStream, StreamType
    <3> QED
      BY <2>1, <3>1 DEF StreamType
  <2>3. kept \in SUBSET Ids /\ kept \subseteq Published /\ \A e \in stream.held : e \in Nat /\ (e > last => e \in kept)
    BY <1>2, <1>5, IdsAreNat
  \* What is published was replayed, or was heard meanwhile and follows.
  <2>4. \A d \in Published : Behind(d) \/ OnWire(u, d) \/ d \in kept
    <3> SUFFICES ASSUME NEW d \in Published PROVE Behind(d) \/ OnWire(u, d) \/ d \in kept
      OBVIOUS
    <3>1. d \in Nat /\ 1 <= d
      BY <1>2, IdsAreNat
    <3>2. d <= last => d \in 1..last
      BY <1>3, <3>1
    <3>3. d <= before => d <= last
      BY <1>2, <1>3, <3>1
    <3>4. d <= before \/ d \in rows \/ d \in stream.held
      BY <1>5, <1>9
    <3>5. d <= last \/ d > last
      BY <1>3, <3>1
    <3> QED
      BY <1>6, <1>7, <2>3, <3>2, <3>3, <3>4, <3>5
  <2>5. \A e \in kept : \A d \in 1..e : Behind(d) \/ OnWire(u, d) \/ d \in kept
    <3> SUFFICES ASSUME NEW e \in kept, NEW d \in 1..e PROVE Behind(d) \/ OnWire(u, d) \/ d \in kept
      OBVIOUS
    <3>1. d \in Published \/ d \in overtaken
      BY <2>3 DEF StreamInv, PublishedInv
    <3> QED
      BY <2>4, <3>1 DEF Behind
  <2>6. /\ v \in Seq(ItemType) /\ Covered(v)
        /\ \A d : OnWire(u, d) \/ d \in kept => OnWire(v, d)
    <3>1. v \in Seq(ItemType) /\ Covered(v) /\ Brings(u, kept, v)
      BY <1>6, <2>3, <2>5, EventsFollow
    <3> QED
      BY <3>1 DEF Brings
  <2>7. top \in kept \cup {last} /\ top \in 0..EventLimit
    BY <1>3, <2>3, GreatestIs
  <2>8. \A d \in 1..top : Behind(d) \/ OnWire(v, d)
    <3>1. CASE top = last
      BY <1>7, <2>6, <3>1
    <3>2. CASE top \in kept
      BY <2>5, <2>6, <3>2
    <3> QED
      BY <2>7, <3>1, <3>2
  <2>9. item \in ItemType /\ item.id = top
    BY <2>7 DEF Item, ItemType
  <2>10. /\ wire' \in Seq(ItemType) /\ Covered(wire') /\ \A d : OnWire(v, d) => OnWire(wire', d)
    <3>1. /\ Append(v, item) \in Seq(ItemType) /\ Covered(Append(v, item)) /\ v \o <<item>> = Append(v, item)
          /\ Brings(v, {}, Append(v, item))
      BY <2>6, <2>8, <2>9, ItemFollows
    <3>2. wire' = Append(v, item)
      BY <2>1, <3>1
    <3> QED
      BY <3>1, <3>2 DEF Brings
  <2>11. StreamTypeInv' /\ WritersInv' /\ PublishedInv' /\ CursorInv' /\ Published' = Published
    <3>1. reopenings' \in 0..Reopenings
      BY <1>1 DEF StreamInv, StreamTypeInv
    <3> QED
      BY <1>1, <2>2, <2>10, <3>1, StreamAlone
  <2>12. Covered(wire)'
    <3> PICK new : new = wire'
      OBVIOUS
    <3>1. Covered(new) /\ new \in Seq(ItemType)
      BY <2>10
    <3> QED
      <4>1. cursor' \in Nat /\ cursor <= cursor' /\ overtaken \subseteq overtaken'
        BY <1>1, <1>2
      <4> QED
        BY <1>2, <3>1, <4>1, CoveredGrows
  <2>13. ReplayInv'
    <3>1. \A d \in Published : Behind(d)' \/ OnWire(wire', d)
      BY <1>4, <2>4, <2>6, <2>10
    <3> QED
      BY <2>2, <2>11, <3>1 DEF ReplayInv, OnWire
  <2>14. RefreshInv'
    BY <1>1 DEF StreamInv, RefreshInv
  <2> QED
    BY <2>11, <2>12, <2>13, <2>14 DEF StreamInv
<1> QED
  BY <1>8, <1>9

\* A stream that starts anew is no further than the page.
LEMMA OpeningIs ==
    ASSUME NEW c \in 0..EventLimit, NEW s, s = [NoStream EXCEPT !.at = "opening", !.last = c]
    PROVE  s \in StreamType /\ s.at = "opening" /\ s.last = c /\ s.held = {}
<1>1. NoStream \in StreamType /\ NoStream.held = {}
  BY StreamConstants DEF NoStream, StreamType
<1> QED
  BY <1>1 DEF StreamType

LEMMA StreamBreaksKeeps == ASSUME StreamInv, StreamBreaks PROVE StreamInv'
<1>1. /\ following /\ reopenings > 0 /\ reopenings' = reopenings - 1 /\ wire' = <<>>
      /\ stream' = [NoStream EXCEPT !.at = "opening", !.last = address]
      /\ UNCHANGED <<eventVars, following, address, replaying, cursor, putOff, primed, startedAt, taken, refreshed,
                     overtaken, dropped, oldNews>>
  BY DEF StreamBreaks, sourceVars, streamHistory
<1>2. stream' \in StreamType /\ stream'.at = "opening" /\ stream'.last = address /\ stream'.held = {} /\ address <= cursor
  BY <1>1, OpeningIs DEF StreamInv, StreamTypeInv, CursorInv
<1>3. reopenings' \in 0..Reopenings /\ wire' \in Seq(ItemType)
  BY <1>1, StreamConstants DEF StreamInv, StreamTypeInv
<1>4. StreamTypeInv' /\ WritersInv' /\ PublishedInv' /\ CursorInv'
  BY <1>1, <1>2, <1>3, StreamAlone
<1>5. Covered(wire)' /\ ReplayInv' /\ RefreshInv'
  BY <1>1, <1>2 DEF StreamInv, Covered, ReplayInv, RefreshInv
<1> QED
  BY <1>4, <1>5 DEF StreamInv

LEMMA OpenEventsKeeps == ASSUME StreamInv, OpenEvents PROVE StreamInv'
<1>1. /\ ~following /\ following' = TRUE /\ address' = cursor /\ replaying' = TRUE /\ putOff' = {} /\ startedAt' = drawn
      /\ stream' = [NoStream EXCEPT !.at = "opening", !.last = cursor] /\ wire' = <<>>
      /\ UNCHANGED <<eventVars, cursor, primed, reopenings, taken, refreshed, overtaken, dropped, oldNews>>
  BY DEF OpenEvents, streamHistory
<1>2. stream' \in StreamType /\ stream'.at = "opening" /\ stream'.last = cursor /\ stream'.held = {}
  BY <1>1, OpeningIs DEF StreamInv, StreamTypeInv
<1>3. wire' \in Seq(ItemType) /\ cursor <= cursor
  BY <1>1, StreamTypes
<1>4. StreamTypeInv'
  BY <1>1, <1>2, <1>3 DEF StreamInv, StreamTypeInv, eventVars
<1>5. WritersInv' /\ PublishedInv'
  BY <1>1, WritersFrame DEF StreamInv
<1>6. CursorInv'
  BY <1>1, <1>3 DEF StreamInv, CursorInv
<1>7. Covered(wire)' /\ ReplayInv'
  BY <1>1, <1>2, <1>3 DEF Covered, ReplayInv
<1>8. RefreshInv'
  BY <1>1 DEF StreamInv, RefreshInv
<1> QED
  BY <1>4, <1>5, <1>6, <1>7, <1>8 DEF StreamInv

LEMMA CloseEventsKeeps == ASSUME StreamInv, CloseEvents PROVE StreamInv'
<1>1. /\ reopenings > 0 /\ reopenings' = reopenings - 1 /\ following' = FALSE /\ stream' = NoStream /\ wire' = <<>>
      /\ putOff' = {} /\ dropped' = dropped \cup putOff
      /\ UNCHANGED <<eventVars, address, replaying, cursor, primed, startedAt, taken, refreshed, overtaken, oldNews>>
  BY DEF CloseEvents
<1>2. NoStream \in StreamType /\ NoStream.at = "none"
  BY StreamConstants DEF NoStream, StreamType
<1>3. reopenings' \in 0..Reopenings /\ wire' \in Seq(ItemType)
  BY <1>1, StreamConstants DEF StreamInv, StreamTypeInv
<1>4. StreamTypeInv'
  BY <1>1, <1>2, <1>3 DEF StreamInv, StreamTypeInv, eventVars
<1>5. WritersInv' /\ PublishedInv'
  BY <1>1, WritersFrame DEF StreamInv
<1>6. CursorInv'
  BY <1>1 DEF StreamInv, CursorInv
<1>7. Covered(wire)' /\ ReplayInv'
  BY <1>1, <1>2 DEF Covered, ReplayInv
<1>8. RefreshInv'
  BY <1>1, <1>2 DEF StreamInv, RefreshInv
<1> QED
  BY <1>4, <1>5, <1>6, <1>7, <1>8 DEF StreamInv

\* What the page reads it is past.
LEMMA WireIsRead ==
    ASSUME StreamInv, wire # <<>>, wire' = Tail(wire), UNCHANGED <<eventVars, stream, overtaken>>,
           cursor' \in Nat, cursor <= cursor', \A d : Head(wire) = Item("event", d) => d <= cursor'
    PROVE  /\ wire' \in Seq(ItemType) /\ Covered(wire)' /\ ReplayInv'
           /\ Head(wire) \in ItemType
           /\ \A d \in 1..Head(wire).id : Behind(d) \/ Head(wire) = Item("event", d)
<1> PICK w : w = wire
  OBVIOUS
<1> PICK rest : rest = Tail(w)
  OBVIOUS
<1>1. w \in Seq(ItemType) /\ w # <<>> /\ cursor \in Nat /\ Covered(w)
  BY StreamTypes DEF StreamInv
<1>2. /\ rest \in Seq(ItemType) /\ Len(w) \in Nat /\ Len(w) >= 1 /\ Len(rest) = Len(w) - 1
      /\ \A i \in 1..Len(rest) : rest[i] = w[i + 1]
      /\ Head(w) = w[1] /\ w[1] \in ItemType
  BY <1>1
<1>3. \A d \in Nat : Behind(d) => Behind(d)'
  BY <1>1, BehindGrows
<1>4. \A n \in 1..Len(w) : \A d \in Nat :
         (\E j \in 1..n : w[j] = Item("event", d)) => Behind(d)' \/ \E j \in 1..(n - 1) : rest[j] = Item("event", d)
  <2> SUFFICES ASSUME NEW n \in 1..Len(w), NEW d \in Nat, NEW j \in 1..n, w[j] = Item("event", d)
               PROVE  Behind(d)' \/ \E i \in 1..(n - 1) : rest[i] = Item("event", d)
    OBVIOUS
  <2>1. CASE j = 1
    BY <1>2, <2>1 DEF Behind
  <2>2. CASE j # 1
    <3>1. j - 1 \in 1..(n - 1) /\ j - 1 \in 1..Len(rest) /\ (j - 1) + 1 = j
      BY <1>2, <2>2
    <3>2. rest[j - 1] = w[j]
      BY <1>2, <3>1
    <3> QED
      BY <3>1, <3>2
  <2> QED
    BY <2>1, <2>2
<1>5. \A i \in 1..Len(rest) : \A d \in 1..rest[i].id : Behind(d)' \/ \E j \in 1..i : rest[j] = Item("event", d)
  <2> SUFFICES ASSUME NEW i \in 1..Len(rest), NEW d \in 1..rest[i].id
               PROVE  Behind(d)' \/ \E j \in 1..i : rest[j] = Item("event", d)
    OBVIOUS
  <2>1. i + 1 \in 1..Len(w) /\ rest[i] = w[i + 1] /\ (i + 1) - 1 = i /\ d \in Nat
    BY <1>2
  <2>2. Behind(d) \/ \E j \in 1..(i + 1) : w[j] = Item("event", d)
    BY <1>1, <2>1 DEF Covered
  <2>3. CASE Behind(d)
    BY <1>3, <2>1, <2>3
  <2>4. CASE \E j \in 1..(i + 1) : w[j] = Item("event", d)
    <3>1. Behind(d)' \/ \E j \in 1..((i + 1) - 1) : rest[j] = Item("event", d)
      BY <1>4, <2>1, <2>4
    <3> QED
      BY <2>1, <3>1
  <2> QED
    BY <2>2, <2>3, <2>4
<1>6. \A d \in Nat : OnWire(w, d) => Behind(d)' \/ OnWire(rest, d)
  <2> SUFFICES ASSUME NEW d \in Nat, OnWire(w, d) PROVE Behind(d)' \/ OnWire(rest, d)
    OBVIOUS
  <2>1. Len(w) \in 1..Len(w) /\ Len(w) - 1 = Len(rest)
    BY <1>2
  <2>2. \E j \in 1..Len(w) : w[j] = Item("event", d)
    BY DEF OnWire
  <2>3. Behind(d)' \/ \E j \in 1..(Len(w) - 1) : rest[j] = Item("event", d)
    BY <1>4, <2>1, <2>2
  <2> QED
    BY <2>1, <2>3 DEF OnWire
<1>7. wire' = rest /\ Published' = Published /\ stream' = stream
  BY DEF Published, eventVars
<1>8. Covered(wire)'
  <2> SUFFICES ASSUME NEW i \in 1..Len(wire'), NEW d \in 1..wire'[i].id
               PROVE  Behind(d)' \/ \E j \in 1..i : wire'[j] = Item("event", d)
    BY DEF Covered
  <2>1. i \in 1..Len(rest) /\ d \in 1..rest[i].id
    BY <1>7
  <2>2. Behind(d)' \/ \E j \in 1..i : rest[j] = Item("event", d)
    BY <1>5, <2>1
  <2> QED
    BY <1>7, <2>2
<1>9. ReplayInv'
  <2>1. stream.at = "opening" => stream.last <= cursor' /\ stream.held = {}
    <3>1. stream.last \in Nat
      BY StreamTypes, StreamConstants DEF StreamType
    <3> QED
      BY <1>1, <3>1 DEF StreamInv, ReplayInv
  <2>2. stream.at \in {"query", "emit"} => \A d \in 1..stream.last : Behind(d)' \/ OnWire(rest, d)
    <3>1. stream.at \in {"query", "emit"} => \A d \in 1..stream.last : d \in Nat /\ (Behind(d) \/ OnWire(w, d))
      BY DEF StreamInv, ReplayInv
    <3> QED
      BY <1>3, <1>6, <3>1
  <2>3. stream.at = "emit" => \A r \in stream.rows : \A d \in 1..r : Behind(d)' \/ OnWire(rest, d) \/ d \in stream.rows
    <3>1. stream.at = "emit" => \A r \in stream.rows : \A d \in 1..r :
             d \in Nat /\ (Behind(d) \/ OnWire(w, d) \/ d \in stream.rows)
      BY DEF StreamInv, ReplayInv
    <3> QED
      BY <1>3, <1>6, <3>1
  <2>4. stream.at = "live" => \A d \in Published : Behind(d)' \/ OnWire(rest, d)
    <3>1. stream.at = "live" => \A d \in Published : d \in Nat /\ (Behind(d) \/ OnWire(w, d))
      BY StreamTypes DEF StreamInv, ReplayInv
    <3> QED
      BY <1>3, <1>6, <3>1
  <2>5. /\ stream.at \in {"query", "emit"} => stream.held \subseteq Published
        /\ stream.at = "emit" /\ IsLastPage(stream.rows) =>
             \A d \in Published : d <= stream.last \/ d \in stream.rows \cup stream.held
    BY DEF StreamInv, ReplayInv
  <2> QED
    BY <1>7, <2>1, <2>2, <2>3, <2>4, <2>5 DEF ReplayInv, OnWire, IsLastPage
<1>10. \A d \in 1..w[1].id : Behind(d) \/ w[1] = Item("event", d)
  <2>1. 1 \in 1..Len(w) /\ \A j \in 1..1 : j = 1
    BY <1>2
  <2> QED
    BY <1>1, <2>1 DEF Covered
<1> QED
  BY <1>2, <1>7, <1>8, <1>9, <1>10

LEMMA ReceiveKeeps == ASSUME StreamInv, Receive PROVE StreamInv'
<1> PICK item : item = Head(wire)
  OBVIOUS
<1>1. /\ wire # <<>> /\ wire' = Tail(wire)
      /\ UNCHANGED <<eventVars, stream, following, address, reopenings, overtaken>>
  BY DEF Receive
<1>2. /\ cursor \in Nat /\ cursor \in 0..EventLimit /\ item \in ItemType /\ EventLimit \in Nat
      /\ putOff \subseteq Ids /\ taken \subseteq Ids /\ address <= cursor /\ address \in Nat
  <2>1. wire \in Seq(ItemType)
    BY StreamTypes
  <2> QED
    BY <1>1, <2>1, StreamConstants DEF StreamInv, StreamTypeInv, CursorInv
<1>3. WritersInv' /\ PublishedInv'
  BY <1>1, WritersFrame DEF StreamInv
<1>4. following
  BY <1>1 DEF StreamInv, RefreshInv
<1>5. item.id \in 0..EventLimit /\ item.id \in Nat
  BY <1>2 DEF ItemType
<1>6. CASE item.kind = "ready"
  <2>1. /\ replaying' = TRUE /\ putOff' = {} /\ dropped' = dropped \cup putOff /\ startedAt' = drawn
        /\ UNCHANGED <<cursor, primed, taken, refreshed, oldNews>>
    BY <1>6 DEF Receive, StreamReady
  <2>2. \A d : Head(wire) = Item("event", d) => d <= cursor'
    BY <1>6, ItemIs
  <2>3. cursor' \in Nat /\ cursor <= cursor'
    BY <1>2, <2>1
  <2>4. wire' \in Seq(ItemType) /\ Covered(wire)' /\ ReplayInv'
    BY <1>1, <2>2, <2>3, WireIsRead
  <2>5. StreamTypeInv'
    BY <1>1, <2>1, <2>4 DEF StreamInv, StreamTypeInv, eventVars
  <2>6. CursorInv' /\ RefreshInv'
    BY <1>1, <1>4, <2>1 DEF StreamInv, CursorInv, RefreshInv
  <2> QED
    BY <1>3, <2>4, <2>5, <2>6 DEF StreamInv
<1>7. CASE item.kind = "event"
  <2>1. TakeEvent(item.id)
    BY <1>7 DEF Receive
  <2>2. CASE item.id > cursor
    <3> PICK e : e = item.id
      OBVIOUS
    <3>1. /\ cursor' = e /\ taken' = taken \cup {e}
          /\ IF replaying THEN putOff' = putOff \cup {e} /\ UNCHANGED refreshed
               ELSE refreshed' = refreshed \cup {e} /\ UNCHANGED putOff
          /\ UNCHANGED <<primed, startedAt, replaying, dropped, oldNews>>
      BY <2>1, <2>2 DEF TakeEvent, Accept
    <3>2. e \in Ids /\ e \in Nat /\ cursor <= e /\ address <= e
      BY <1>2, <1>5, <2>2 DEF Ids
    <3>3. \A d : Head(wire) = Item("event", d) => d <= cursor'
      BY <3>1, <3>2, ItemIs
    <3>4. /\ wire' \in Seq(ItemType) /\ Covered(wire)' /\ ReplayInv'
          /\ \A d \in 1..e : Behind(d) \/ item = Item("event", d)
      BY <1>1, <3>1, <3>2, <3>3, WireIsRead
    <3>5. StreamTypeInv'
      <4>1. cursor' \in 0..EventLimit /\ taken' \subseteq Ids /\ refreshed' \subseteq Ids /\ putOff' \subseteq Ids
        BY <1>5, <3>1, <3>2 DEF StreamInv, StreamTypeInv
      <4> QED
        BY <1>1, <3>1, <3>4, <4>1 DEF StreamInv, StreamTypeInv, eventVars
    <3>6. CursorInv'
      <4>1. ASSUME NEW d \in 1..e PROVE d \in taken' \cup overtaken
        <5>1. CASE item = Item("event", d)
          <6>1. d = e
            BY <5>1, ItemIs
          <6> QED
            BY <3>1, <6>1
        <5>2. CASE Behind(d)
          <6>1. d <= cursor => d \in 1..cursor
            BY <1>2, <3>2
          <6> QED
            BY <3>1, <5>2, <6>1 DEF StreamInv, CursorInv, Behind
        <5> QED
          BY <3>4, <5>1, <5>2
      <4>2. \A d \in taken' : d <= e
        <5>1. \A d \in taken : d <= cursor /\ d \in Nat
          BY <1>2, IdsAreNat DEF StreamInv, CursorInv
        <5> QED
          BY <1>2, <3>1, <3>2, <5>1
      <4> QED
        BY <1>1, <3>1, <3>2, <4>1, <4>2 DEF CursorInv
    <3>7. RefreshInv'
      <4>1. replaying \in BOOLEAN
        BY DEF StreamInv, StreamTypeInv
      <4>2. CASE replaying
        BY <1>1, <1>4, <3>1, <4>2 DEF StreamInv, RefreshInv
      <4>3. CASE ~replaying
        BY <1>1, <1>4, <3>1, <4>3 DEF StreamInv, RefreshInv
      <4> QED
        BY <4>1, <4>2, <4>3
    <3> QED
      BY <1>3, <3>4, <3>5, <3>6, <3>7 DEF StreamInv
  <2>3. CASE ~(item.id > cursor)
    <3>1. UNCHANGED <<cursor, taken, putOff, refreshed, primed, startedAt, replaying, dropped, oldNews>>
      BY <2>1, <2>3 DEF TakeEvent, Accept
    <3>2. \A d : Head(wire) = Item("event", d) => d <= cursor'
      BY <1>2, <1>5, <2>3, <3>1, ItemIs
    <3>3. cursor' \in Nat /\ cursor <= cursor'
      BY <1>2, <3>1
    <3>4. wire' \in Seq(ItemType) /\ Covered(wire)' /\ ReplayInv'
      BY <1>1, <3>2, <3>3, WireIsRead
    <3>5. StreamTypeInv'
      BY <1>1, <3>1, <3>4 DEF StreamInv, StreamTypeInv, eventVars
    <3>6. CursorInv' /\ RefreshInv'
      BY <1>1, <1>4, <3>1 DEF StreamInv, CursorInv, RefreshInv
    <3> QED
      BY <1>3, <3>4, <3>5, <3>6 DEF StreamInv
  <2> QED
    BY <2>2, <2>3
<1>8. CASE item.kind \notin {"ready", "event"}
  <2>1. PICK slack \in 0..1 : ReplayComplete(item.id, slack)
    BY <1>8 DEF Receive
  <2> PICK old : old = IF primed THEN {} ELSE {d \in putOff : d <= startedAt - slack}
    OBVIOUS
  <2>2. /\ cursor' = Greatest({item.id}, cursor) /\ replaying' = FALSE /\ primed' = TRUE /\ putOff' = {}
        /\ refreshed' = refreshed \cup (putOff \ old) /\ oldNews' = oldNews \cup old
        /\ UNCHANGED <<startedAt, taken, dropped>>
    BY <2>1 DEF ReplayComplete
  <2>3. old \subseteq putOff
    BY DEF StreamInv
  <2>4. /\ cursor' \in {item.id, cursor} /\ cursor' \in 0..EventLimit /\ cursor' \in Nat /\ cursor <= cursor'
        /\ item.id <= cursor'
    <3>1. {item.id} \cup {cursor} \in SUBSET (0..EventLimit) /\ {item.id} \cup {cursor} # {}
      BY <1>2, <1>5
    <3>2. \E g \in {item.id} \cup {cursor} : \A y \in {item.id} \cup {cursor} : g >= y
      BY <3>1, GreatestEvent
    <3>3. /\ cursor' \in {item.id} \cup {cursor} /\ \A y \in {item.id} \cup {cursor} : cursor' >= y
      BY <2>2, <3>2 DEF Greatest, Max
    <3> QED
      BY <1>2, <1>5, <3>1, <3>3
  <2>5. \A d : item # Item("event", d)
    BY <1>8, ItemIs
  <2>6. /\ wire' \in Seq(ItemType) /\ Covered(wire)' /\ ReplayInv'
        /\ \A d \in 1..item.id : Behind(d) \/ item = Item("event", d)
    BY <1>1, <2>4, <2>5, WireIsRead
  <2>7. StreamTypeInv'
    <3>1. refreshed' \subseteq Ids /\ oldNews' \subseteq Ids /\ putOff' \subseteq Ids
      BY <1>2, <2>2, <2>3 DEF StreamInv, StreamTypeInv
    <3> QED
      BY <1>1, <2>2, <2>4, <2>6, <3>1 DEF StreamInv, StreamTypeInv, eventVars
  <2>8. CursorInv'
    <3>1. ASSUME NEW d \in 1..cursor' PROVE d \in taken \cup overtaken
      <4>1. d \in 1..cursor \/ d \in 1..item.id
        BY <2>4
      <4>2. d \in 1..item.id => d \in 1..cursor \/ d \in overtaken
        BY <1>2, <1>5, <2>5, <2>6 DEF Behind
      <4> QED
        BY <4>1, <4>2 DEF StreamInv, CursorInv
    <3>2. \A d \in taken : d <= cursor'
      <4>1. \A d \in taken : d <= cursor /\ d \in Nat
        BY <1>2, IdsAreNat DEF StreamInv, CursorInv
      <4> QED
        BY <1>2, <2>4, <4>1
    <3>3. address <= cursor'
      BY <1>2, <2>4
    <3> QED
      BY <1>1, <2>2, <3>1, <3>2, <3>3 DEF CursorInv
  <2>9. RefreshInv'
    BY <1>1, <1>4, <2>2, <2>3 DEF StreamInv, RefreshInv
  <2> QED
    BY <1>3, <2>6, <2>7, <2>8, <2>9 DEF StreamInv
<1> QED
  BY <1>6, <1>7, <1>8

LEMMA StreamStepKeeps == StreamInv /\ [StreamNext]_streamVars => StreamInv'
<1> SUFFICES ASSUME StreamInv, [StreamNext]_streamVars PROVE StreamInv'
  OBVIOUS
<1>1. CASE \E f \in Flows : InsertEvent(f) \/ CommitEvent(f) \/ PublishEvent(f)
  BY <1>1, InsertEventKeeps, CommitEventKeeps, PublishKeeps
<1>2. CASE Subscribe \/ QueryRows \/ EmitRows
  BY <1>2, SubscribeKeeps, QueryRowsKeeps, EmitRowsKeeps
<1>3. CASE StreamBreaks \/ OpenEvents \/ CloseEvents \/ Receive
  BY <1>3, StreamBreaksKeeps, OpenEventsKeeps, CloseEventsKeeps, ReceiveKeeps
<1>4. CASE UNCHANGED streamVars
  <2>1. UNCHANGED <<eventVars, stream, wire, sourceVars, reopenings, streamHistory>>
    BY <1>4 DEF streamVars
  <2>2. WritersInv' /\ PublishedInv' /\ Published' = Published
    BY <2>1, WritersFrame DEF StreamInv, streamHistory
  <2>3. StreamTypeInv' /\ CursorInv' /\ Covered(wire)' /\ ReplayInv' /\ RefreshInv'
    BY <2>1, <2>2 DEF StreamInv, StreamTypeInv, CursorInv, Covered, ReplayInv, RefreshInv, Behind, eventVars, sourceVars,
       streamHistory
  <2> QED
    BY <2>2, <2>3 DEF StreamInv
<1> QED
  BY <1>1, <1>2, <1>3, <1>4 DEF StreamNext

LEMMA StreamInvHolds == StreamSpec => []StreamInv
<1>1. StreamInit => StreamInv
  BY StreamInitInv
<1>2. StreamInv /\ [StreamNext]_streamVars => StreamInv'
  BY StreamStepKeeps
<1> QED
  BY <1>1, <1>2, PTL DEF StreamSpec

\* Every variable of the events' stream keeps its type.
THEOREM StreamTypesHold == StreamSpec => []StreamTypeOK
<1>1. StreamInv => StreamTypeOK
  <2> SUFFICES ASSUME StreamInv PROVE StreamTypeOK
    OBVIOUS
  <2>1. StreamTypeInv
    BY DEF StreamInv
  <2>2. stream.at \in {"none", "opening", "query", "emit", "live"}
    BY <2>1 DEF StreamTypeInv, StreamType
  <2>3. \A i \in 1..Len(wire) : wire[i].kind \in {"ready", "event", "replay_complete"}
    <3>1. wire \in Seq(ItemType)
      BY <2>1 DEF StreamTypeInv
    <3>2. \A i \in 1..Len(wire) : wire[i] \in ItemType
      BY <3>1
    <3> QED
      BY <3>2 DEF ItemType
  <2> QED
    BY <2>1, <2>2, <2>3 DEF StreamTypeInv, StreamTypeOK
<1> QED
  BY <1>1, StreamInvHolds, PTL

\* An event of a conversation reaches a page that follows it, makes it refresh,
\* and does so once: however many parts of the server write at a time, in
\* whatever order they publish, and however often the stream breaks.
THEOREM EventsDoArrive == StreamSpec => EventsArrive
<1>1. StreamInv => NoEventIsMissed /\ RefreshesAreMade
  <2> SUFFICES ASSUME StreamInv, StreamSettled
               PROVE  1..drawn \subseteq taken \cup overtaken /\ (~replaying => taken \subseteq refreshed \cup dropped \cup oldNews)
    BY DEF NoEventIsMissed, RefreshesAreMade
  <2>1. stream.at = "live" /\ wire = <<>> /\ Published = 1..drawn
    BY DEF StreamSettled
  <2>2. ASSUME NEW d \in 1..drawn PROVE d \in taken \cup overtaken
    <3>1. Behind(d)
      BY <2>1 DEF StreamInv, ReplayInv, OnWire
    <3>2. d <= cursor => d \in 1..cursor
      BY StreamTypes
    <3> QED
      BY <3>1, <3>2 DEF Behind, StreamInv, CursorInv
  <2>3. ~replaying => taken \subseteq refreshed \cup dropped \cup oldNews
    BY DEF StreamInv, RefreshInv
  <2> QED
    BY <2>2, <2>3
<1>2. StreamInv => ((wire # <<>> /\ Receive /\ Head(wire).kind = "event" /\ Head(wire).id \in taken)
                      => UNCHANGED <<sourceVars, refreshed>>)
  <2> SUFFICES ASSUME StreamInv, Receive, Head(wire).kind = "event", Head(wire).id \in taken
               PROVE  UNCHANGED <<sourceVars, refreshed>>
    OBVIOUS
  <2>1. TakeEvent(Head(wire).id) /\ UNCHANGED <<following, address>>
    BY DEF Receive
  <2>2. ~Accept(Head(wire).id)
    <3>1. Head(wire).id <= cursor /\ Head(wire).id \in Nat /\ cursor \in Nat
      BY StreamTypes, IdsAreNat DEF StreamInv, CursorInv, StreamTypeInv
    <3> QED
      BY <3>1 DEF Accept
  <2> QED
    BY <2>1, <2>2 DEF TakeEvent, sourceVars
<1>3. StreamInv => [(wire # <<>> /\ Receive /\ Head(wire).kind = "event" /\ Head(wire).id \in taken)
                      => UNCHANGED <<sourceVars, refreshed>>]_streamVars
  BY <1>2
<1>4. StreamSpec => [](NoEventIsMissed /\ RefreshesAreMade)
  BY <1>1, StreamInvHolds, PTL
<1>5. StreamSpec => EventActsOnce
  BY <1>3, StreamInvHolds, PTL DEF EventActsOnce
<1> QED
  BY <1>4, <1>5 DEF EventsArrive

-----------------------------------------------------------------------------
(* Together.                                                               *)

\* Only the component that moves changes its state, so a behaviour of all is
\* one of each.
LEMMA EachRecordsSpec ==
    RecordsSpec => Spec /\ PublishingSpec /\ LedgerSpec /\ EngineSpec /\ StreamSpec /\ PoolSpec
<1>1. RecordsInit => Init /\ PublishingInit /\ LedgerInit /\ EngineInit /\ StreamInit /\ PoolInit
  BY DEF RecordsInit
<1>2. [RecordsNext]_RecordsVars
        => /\ [Next]_vars /\ [PublishingNext]_publishingVars /\ [LedgerNext]_ledgerVars
           /\ [EngineNext]_engineVars /\ [StreamNext]_streamVars /\ [PoolNext]_poolVars
  BY DEF RecordsNext, RecordsVars
<1> QED BY <1>1, <1>2, PTL DEF RecordsSpec, Spec, PublishingSpec, LedgerSpec, EngineSpec, StreamSpec, PoolSpec

\* The types of the strategy, the ledger, the backtest and the stream,
\* whichever of them moves.
THEOREM RecordsTypes == RecordsSpec => []RecordsTypeOK
<1>1. RecordsSpec => []PublishingTypeOK
  BY EachRecordsSpec, PublishingTypes, PTL
<1>2. RecordsSpec => []LedgerTypeOK
  BY EachRecordsSpec, LedgerTypesHold, PTL
<1>3. RecordsSpec => []EngineTypeOK
  BY EachRecordsSpec, EngineTypesHold, PTL
<1>4. RecordsSpec => []StreamTypeOK
  BY EachRecordsSpec, StreamTypesHold, PTL
<1> QED BY <1>1, <1>2, <1>3, <1>4, PTL DEF RecordsTypeOK

=============================================================================
