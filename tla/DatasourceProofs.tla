-------------------------- MODULE DatasourceProofs --------------------------
(***************************************************************************)
(* Proofs about what stands around the data provider: the queue of requests *)
(* and the daily bars.                                                     *)
(*                                                                         *)
(* For the requests the induction rests on PumpInv, one pump at a time, and *)
(* on passed <= burst.  For the bars it rests on AccountInv, each code of  *)
(* the scope to do, done or reported; BehindInv, what is appended or reloaded *)
(* joins a bar that is there; and FreshInv, a code with averages that are off *)
(* is still to be averaged by somebody who reads, or read, its bars.       *)
(***************************************************************************)
EXTENDS RequestScheduler, MarketUpdate, SequenceTheorems, FiniteSetTheorems, WellFoundedInduction, TLAPS

\* A list without its i-th element.
LEMMA RemoveOne ==
    ASSUME NEW S, NEW q \in Seq(S), NEW i \in 1..Len(q)
    PROVE  /\ RemoveAt(q, i) \in Seq(S) /\ Len(RemoveAt(q, i)) = Len(q) - 1
           /\ \A j \in 1..(Len(q) - 1) : RemoveAt(q, i)[j] = IF j < i THEN q[j] ELSE q[j + 1]
<1> DEFINE a == SubSeq(q, 1, i - 1)
           b == SubSeq(q, i + 1, Len(q))
<1>0. Len(q) \in Nat
  OBVIOUS
<1>1. a \in Seq(S) /\ Len(a) = i - 1 /\ \A j \in 1..(i - 1) : a[j] = q[j]
  BY <1>0
<1>2. b \in Seq(S) /\ Len(b) = Len(q) - i /\ \A j \in 1..(Len(q) - i) : b[j] = q[i + j]
  BY <1>0
<1>3. RemoveAt(q, i) = a \o b
  BY DEF RemoveAt
<1> HIDE DEF a, b
<1>4. /\ a \o b \in Seq(S) /\ Len(a \o b) = Len(a) + Len(b)
      /\ \A j \in 1..(Len(a) + Len(b)) : (a \o b)[j] = IF j <= Len(a) THEN a[j] ELSE b[j - Len(a)]
  BY <1>1, <1>2, ConcatProperties
<1> QED  BY <1>0, <1>1, <1>2, <1>3, <1>4

-----------------------------------------------------------------------------
(* Requests: queues of callers, each once.                                 *)

QueueList == {q \in Seq(Callers) : \A i, j \in 1..Len(q) : q[i] = q[j] => i = j}
CallersIn(q) == {q[i] : i \in 1..Len(q)}

LEMMA RangeIs == \A q \in QueueList : Range(q) = CallersIn(q)
BY DEF QueueList, Range, CallersIn

LEMMA CallerEnters ==
    ASSUME NEW q \in QueueList, NEW c \in Callers, c \notin CallersIn(q)
    PROVE  Append(q, c) \in QueueList /\ CallersIn(Append(q, c)) = CallersIn(q) \cup {c}
<1> DEFINE r == Append(q, c)
<1>1. /\ q \in Seq(Callers) /\ r \in Seq(Callers) /\ Len(r) = Len(q) + 1 /\ Len(q) \in Nat
      /\ \A i \in 1..Len(q) : r[i] = q[i]
      /\ r[Len(q) + 1] = c
  BY DEF QueueList
<1> HIDE DEF r
<1>2. r \in QueueList
  BY <1>1 DEF QueueList, CallersIn
<1>3. c \in CallersIn(r)
  <2>1. Len(q) + 1 \in 1..Len(r)
    BY <1>1
  <2> QED  BY <1>1, <2>1 DEF CallersIn
<1>4. CallersIn(r) = CallersIn(q) \cup {c}
  <2>1. \A i \in 1..Len(r) : r[i] \in CallersIn(q) \cup {c}
    BY <1>1 DEF CallersIn
  <2>2. \A i \in 1..Len(q) : q[i] \in CallersIn(r)
    <3>1. \A i \in 1..Len(q) : i \in 1..Len(r) /\ r[i] = q[i]
      BY <1>1
    <3> QED  BY <3>1 DEF CallersIn
  <2> QED  BY <1>3, <2>1, <2>2 DEF CallersIn
<1> QED  BY <1>2, <1>4 DEF r

LEMMA CallerGoes ==
    ASSUME NEW q \in QueueList, NEW k \in 1..Len(q)
    PROVE  RemoveAt(q, k) \in QueueList /\ CallersIn(RemoveAt(q, k)) = CallersIn(q) \ {q[k]}
<1> DEFINE r == RemoveAt(q, k)
<1>0. q \in Seq(Callers) /\ Len(q) \in Nat
  BY DEF QueueList
<1>1. /\ q \in Seq(Callers) /\ r \in Seq(Callers) /\ Len(r) = Len(q) - 1 /\ Len(q) \in Nat
      /\ \A j \in 1..(Len(q) - 1) : r[j] = IF j < k THEN q[j] ELSE q[j + 1]
  <2> HIDE DEF r
  <2>1. /\ RemoveAt(q, k) \in Seq(Callers) /\ Len(RemoveAt(q, k)) = Len(q) - 1
        /\ \A j \in 1..(Len(q) - 1) : RemoveAt(q, k)[j] = IF j < k THEN q[j] ELSE q[j + 1]
    BY <1>0, RemoveOne
  <2> QED  BY <1>0, <2>1 DEF r
<1> HIDE DEF r
<1>2. r \in QueueList
  BY <1>1 DEF QueueList
<1>3. ASSUME NEW i \in 1..Len(r) PROVE r[i] \in CallersIn(q) /\ r[i] # q[k]
  BY <1>1 DEF QueueList, CallersIn
<1>4. ASSUME NEW i \in 1..Len(q), q[i] # q[k] PROVE q[i] \in CallersIn(r)
  <2>1. CASE i < k
    BY <1>1, <2>1 DEF CallersIn
  <2>2. CASE i > k
    <3>1. i - 1 \in 1..Len(r) /\ r[i - 1] = q[i]
      BY <1>1, <2>2
    <3> QED  BY <3>1 DEF CallersIn
  <2> QED  BY <1>1, <1>4, <2>1, <2>2
<1>5. CallersIn(r) = CallersIn(q) \ {q[k]}
  BY <1>3, <1>4 DEF CallersIn
<1> QED  BY <1>2, <1>5 DEF r

LEMMA FirstGoes ==
    ASSUME NEW q \in QueueList, q # <<>>
    PROVE  /\ Head(q) \in Callers /\ Head(q) \in CallersIn(q)
           /\ Tail(q) \in QueueList /\ CallersIn(Tail(q)) = CallersIn(q) \ {Head(q)}
<1>1. q \in Seq(Callers) /\ Len(q) \in Nat /\ Len(q) >= 1
  BY DEF QueueList
<1> DEFINE r == Tail(q)
<1>2. /\ r \in Seq(Callers) /\ Len(r) = Len(q) - 1 /\ Head(q) = q[1]
      /\ \A i \in 1..(Len(q) - 1) : r[i] = q[i + 1]
  BY <1>1, HeadTailProperties
<1> HIDE DEF r
<1>3. r \in QueueList
  BY <1>1, <1>2 DEF QueueList
<1>4. \A i \in 1..Len(r) : r[i] \in CallersIn(q) /\ r[i] # q[1]
  BY <1>1, <1>2 DEF QueueList, CallersIn
<1>5. ASSUME NEW i \in 1..Len(q), q[i] # q[1] PROVE q[i] \in CallersIn(r)
  <2>1. i - 1 \in 1..Len(r) /\ r[i - 1] = q[i]
    BY <1>1, <1>2, <1>5
  <2> QED  BY <2>1 DEF CallersIn
<1>6. CallersIn(r) = CallersIn(q) \ {q[1]}
  BY <1>4, <1>5 DEF CallersIn
<1> QED  BY <1>1, <1>2, <1>3, <1>6 DEF r, CallersIn

LEMMA CallerLeaves ==
    ASSUME NEW q \in QueueList, NEW c
    PROVE  Left(q, c) \in QueueList /\ CallersIn(Left(q, c)) = CallersIn(q) \ {c}
<1>1. q \in Seq(Callers) /\ DOMAIN q = 1..Len(q)
  BY DEF QueueList
<1>2. CASE c \in CallersIn(q)
  <2> DEFINE k == CHOOSE i \in DOMAIN q : q[i] = c
  <2>1. k \in 1..Len(q) /\ q[k] = c
    BY <1>1, <1>2 DEF CallersIn
  <2>2. Left(q, c) = RemoveAt(q, k)
    BY <1>2, RangeIs DEF Left
  <2> HIDE DEF k
  <2> QED  BY <2>1, <2>2, CallerGoes
<1>3. CASE c \notin CallersIn(q)
  BY <1>3, RangeIs DEF Left
<1> QED  BY <1>2, <1>3

-----------------------------------------------------------------------------
(* The invariant of the requests.                                          *)

PumpType == [step : {"off", "sleep", "ready", "operate"}, item : Callers \cup {NoCaller}]
CallerType == [status : {"idle", "queued", "taken", "backoff"}, attempt : 0..MaxRetries, aborted : BOOLEAN]

RequestTypeInv ==
    /\ queues \in [Levels -> QueueList] /\ running \in BOOLEAN /\ rested \in BOOLEAN
    /\ pump \in [Pumps -> PumpType] /\ caller \in [Callers -> CallerType]
    /\ burst \in 0..BurstLimit /\ passed \in Nat

\* Who is queued waits in the queue of its priority, and only there.
QueuedInv ==
    \A c \in Callers, p \in Levels :
        c \in CallersIn(queues[p]) <=> caller[c].status = "queued" /\ p = Priority(c)

\* The flag keeps all but one pump out; a pump that is about to release has
\* not released since the last pause.
PumpInv ==
    /\ \A i \in Pumps : pump[i].step # "off" =>
          /\ running /\ pump[i].item \in Callers /\ caller[pump[i].item].status = "taken"
          /\ \A j \in Pumps : pump[j].step # "off" => i = j
          /\ pump[i].step = "ready" => rested

\* Who waits to ask again may.
RetryInv == \A c \in Callers : caller[c].status = "backoff" => caller[c].attempt < MaxRetries

\* Whatever passed a low request was counted as part of the burst.
RequestInv == RequestTypeInv /\ QueuedInv /\ PumpInv /\ RetryInv /\ passed <= burst

LEMMA PriorityIsLevel == \A c \in Callers : Priority(c) \in Levels
BY DEF Priority, Levels

LEMMA NextIsWaiting ==
    ASSUME Waiting # {}
    PROVE  NextPriority \in Waiting /\ NextPriority \in Levels
<1>1. Waiting \subseteq Levels /\ Priorities[1] = "interactive" /\ Priorities[2] = "scheduled-medium"
      /\ Priorities[3] = "scheduled-low"
  BY DEF Waiting, Priorities
<1>2. CASE LowsTurn
  BY <1>2 DEF LowsTurn, NextPriority, Levels
<1>3. CASE ~LowsTurn
  <2> DEFINE First(i) == Priorities[i] \in Waiting /\ \A j \in 1..(i - 1) : Priorities[j] \notin Waiting
  <2>1. \E i \in 1..3 : First(i)
    <3>1. CASE "interactive" \in Waiting
      <4>1. First(1)
        BY <1>1, <3>1
      <4> QED  BY <4>1
    <3>2. CASE "interactive" \notin Waiting /\ "scheduled-medium" \in Waiting
      <4>1. First(2)
        BY <1>1, <3>2
      <4> QED  BY <4>1
    <3>3. CASE "interactive" \notin Waiting /\ "scheduled-medium" \notin Waiting
      <4>1. "scheduled-low" \in Waiting
        BY <1>1, <3>3 DEF Levels
      <4>2. First(3)
        BY <1>1, <3>3, <4>1
      <4> QED  BY <4>2
    <3> QED  BY <3>1, <3>2, <3>3
  <2>2. First(CHOOSE i \in 1..3 : First(i)) /\ (CHOOSE i \in 1..3 : First(i)) \in 1..3
    BY <2>1
  <2>3. NextPriority = Priorities[CHOOSE i \in 1..3 : First(i)]
    BY <1>3 DEF NextPriority
  <2> QED  BY <1>1, <2>2, <2>3
<1> QED  BY <1>2, <1>3

LEMMA RequestInitInv == RequestInit => RequestInv
<1> SUFFICES ASSUME RequestInit
             PROVE  RequestInv
  OBVIOUS
<1>1. <<>> \in QueueList /\ CallersIn(<<>>) = {}
  BY DEF QueueList, CallersIn
<1>2. PumpOff \in PumpType /\ PumpOff.step = "off" /\ NotAsking \in CallerType /\ NotAsking.status = "idle"
  BY RequestAssumption DEF PumpOff, PumpType, NotAsking, CallerType
<1>3. RequestTypeInv
  <2>1. queues \in [Levels -> QueueList] /\ pump \in [Pumps -> PumpType] /\ caller \in [Callers -> CallerType]
    BY <1>1, <1>2 DEF RequestInit
  <2>2. burst = 0 /\ passed = 0 /\ rested = TRUE /\ running = FALSE /\ BurstLimit \in Nat
    BY RequestAssumption DEF RequestInit
  <2>3. rested \in BOOLEAN /\ running \in BOOLEAN
    BY <2>2
  <2>4. burst \in 0..BurstLimit /\ passed \in Nat
    BY <2>2
  <2> QED  BY <2>1, <2>3, <2>4, Zenon DEF RequestTypeInv
<1>4. QueuedInv
  BY <1>1, <1>2 DEF RequestInit, QueuedInv
<1>5. PumpInv
  BY <1>2 DEF RequestInit, PumpInv
<1>6. RetryInv
  BY <1>2 DEF RequestInit, RetryInv
<1> QED  BY <1>3, <1>4, <1>5, <1>6 DEF RequestInv, RequestInit

-----------------------------------------------------------------------------
(* What a caller does.                                                     *)

LEMMA CallerSet ==
    ASSUME RequestTypeInv, NEW c \in Callers, NEW new \in CallerType, caller' = [caller EXCEPT ![c] = new]
    PROVE  /\ caller' \in [Callers -> CallerType] /\ caller'[c] = new
           /\ \A d \in Callers \ {c} : caller'[d] = caller[d]
BY DEF RequestTypeInv

\* One queue changes, by the caller c whose status says so.
LEMMA QueueSet ==
    ASSUME RequestInv, NEW c \in Callers, NEW q \in QueueList, NEW new \in CallerType,
           caller' = [caller EXCEPT ![c] = new], caller[c].status # "taken", new.status \in {"idle", "queued"},
           queues' = [queues EXCEPT ![Priority(c)] = q],
           \A d \in Callers \ {c} : d \in CallersIn(q) <=> d \in CallersIn(queues[Priority(c)]),
           c \in CallersIn(q) <=> new.status = "queued",
           passed' \in {0, passed}, UNCHANGED <<running, pump, rested, burst>>
    PROVE  RequestInv'
<1>1. RequestTypeInv /\ Priority(c) \in Levels
  BY PriorityIsLevel DEF RequestInv
<1>2. /\ caller' \in [Callers -> CallerType] /\ caller'[c] = new
      /\ \A d \in Callers \ {c} : caller'[d] = caller[d]
  BY <1>1, CallerSet
<1>3. /\ queues' \in [Levels -> QueueList] /\ queues'[Priority(c)] = q
      /\ \A p \in Levels \ {Priority(c)} : queues'[p] = queues[p]
  BY <1>1 DEF RequestTypeInv
<1>4. RequestTypeInv'
  BY <1>1, <1>2, <1>3 DEF RequestTypeInv
<1>5. QueuedInv'
  <2>1. ASSUME NEW p \in Levels
        PROVE  c \in CallersIn(queues'[p]) <=> caller'[c].status = "queued" /\ p = Priority(c)
    BY <1>2, <1>3 DEF RequestInv, QueuedInv
  <2>2. ASSUME NEW d \in Callers \ {c}, NEW p \in Levels
        PROVE  d \in CallersIn(queues'[p]) <=> caller'[d].status = "queued" /\ p = Priority(d)
    BY <1>2, <1>3 DEF RequestInv, QueuedInv
  <2> QED  BY <2>1, <2>2 DEF QueuedInv
<1>6. PumpInv'
  BY <1>2 DEF RequestInv, PumpInv
<1>7. passed' <= burst'
  BY <1>1 DEF RequestInv, RequestTypeInv
<1>8. RetryInv'
  BY <1>2 DEF RequestInv, RetryInv
<1> QED  BY <1>4, <1>5, <1>6, <1>7, <1>8 DEF RequestInv

LEMMA AskKeeps == ASSUME RequestInv, NEW c \in Callers, Ask(c) \/ AskAgain(c) PROVE RequestInv'
<1> DEFINE q == Append(queues[Priority(c)], c)
<1>1. /\ queues[Priority(c)] \in QueueList /\ caller[c] \in CallerType /\ caller[c].status \in {"idle", "backoff"}
      /\ c \notin CallersIn(queues[Priority(c)])
  BY PriorityIsLevel DEF RequestInv, RequestTypeInv, QueuedInv, Ask, AskAgain
<1>2. q \in QueueList /\ CallersIn(q) = CallersIn(queues[Priority(c)]) \cup {c}
  BY <1>1, CallerEnters
<1>3. queues' = [queues EXCEPT ![Priority(c)] = q] /\ UNCHANGED <<running, pump, rested, burst, passed>>
  BY DEF Ask, AskAgain, Enters
<1> HIDE DEF q
<1>4. CASE Ask(c)
  <2> DEFINE new == [NotAsking EXCEPT !.status = "queued"]
  <2>1. NotAsking \in CallerType
    BY RequestAssumption DEF NotAsking, CallerType
  <2>2. new \in CallerType /\ new.status = "queued"
    BY <2>1 DEF CallerType
  <2>3. caller' = [caller EXCEPT ![c] = new]
    BY <1>4 DEF Ask
  <2> HIDE DEF new
  <2> QED  BY <1>1, <1>2, <1>3, <2>2, <2>3, QueueSet
<1>5. CASE AskAgain(c)
  <2> DEFINE new == [caller[c] EXCEPT !.status = "queued", !.attempt = @ + 1]
  <2>1. caller[c].attempt < MaxRetries
    BY <1>5 DEF AskAgain, RequestInv, RetryInv
  <2>2. new \in CallerType /\ new.status = "queued"
    <3>1. caller[c].attempt + 1 \in 0..MaxRetries
      BY <1>1, <2>1, RequestAssumption DEF CallerType
    <3>2. new = [caller[c] EXCEPT !.status = "queued", !.attempt = caller[c].attempt + 1]
      OBVIOUS
    <3> HIDE DEF new
    <3> QED  BY <1>1, <3>1, <3>2 DEF CallerType
  <2>3. caller' = [caller EXCEPT ![c] = new]
    BY <1>5 DEF AskAgain
  <2> HIDE DEF new
  <2> QED  BY <1>1, <1>2, <1>3, <2>2, <2>3, QueueSet
<1> QED  BY <1>4, <1>5

LEMMA AbortWaitingKeeps == ASSUME RequestInv, NEW c \in Callers, AbortWaiting(c) PROVE RequestInv'
<1> DEFINE q == Left(queues[Priority(c)], c)
<1>1. queues[Priority(c)] \in QueueList /\ caller[c] \in CallerType /\ caller[c].status \in {"queued", "backoff"}
  BY PriorityIsLevel DEF RequestInv, RequestTypeInv, AbortWaiting
<1>2. q \in QueueList /\ CallersIn(q) = CallersIn(queues[Priority(c)]) \ {c}
  BY <1>1, CallerLeaves
<1>3. /\ queues' = [queues EXCEPT ![Priority(c)] = q] /\ UNCHANGED <<running, pump, rested, burst>>
      /\ passed' \in {0, passed} /\ caller' = [caller EXCEPT ![c] = NotAsking]
  BY DEF AbortWaiting
<1> HIDE DEF q
<1>4. NotAsking \in CallerType /\ NotAsking.status = "idle"
  BY RequestAssumption DEF NotAsking, CallerType
<1> QED  BY <1>1, <1>2, <1>3, <1>4, QueueSet

LEMMA AbortTakenKeeps == ASSUME RequestInv, NEW c \in Callers, AbortTaken(c) PROVE RequestInv'
<1> DEFINE new == [caller[c] EXCEPT !.aborted = TRUE]
<1>1. caller[c] \in CallerType /\ RequestTypeInv
  BY DEF RequestInv, RequestTypeInv
<1>2. new \in CallerType /\ new.status = caller[c].status /\ new.attempt = caller[c].attempt
  BY <1>1 DEF CallerType
<1>3. caller' = [caller EXCEPT ![c] = new] /\ UNCHANGED <<queues, running, pump, rested, burst, passed>>
  BY DEF AbortTaken
<1> HIDE DEF new
<1>4. /\ caller' \in [Callers -> CallerType] /\ caller'[c] = new
      /\ \A d \in Callers \ {c} : caller'[d] = caller[d]
  BY <1>1, <1>2, <1>3, CallerSet
<1>5. \A d \in Callers : caller'[d].status = caller[d].status /\ caller'[d].attempt = caller[d].attempt
  BY <1>2, <1>4 DEF CallerType
<1> QED  BY <1>3, <1>4, <1>5 DEF RequestInv, RequestTypeInv, QueuedInv, PumpInv, RetryInv

-----------------------------------------------------------------------------
(* What a pump does.                                                       *)

LEMMA PumpSet ==
    ASSUME RequestTypeInv, NEW i \in Pumps, NEW new \in PumpType, pump' = [pump EXCEPT ![i] = new]
    PROVE  pump' \in [Pumps -> PumpType] /\ pump'[i] = new /\ \A j \in Pumps \ {i} : pump'[j] = pump[j]
BY DEF RequestTypeInv

\* A pump that no other runs beside takes the next request; "answered" are the
\* callers once the one before has its answer.
LEMMA TakesNext ==
    ASSUME RequestInv, NEW i \in Pumps, \A j \in Pumps \ {i} : pump[j].step = "off",
           NEW answered \in [Callers -> CallerType],
           \A d \in Callers : answered[d].status = "queued" <=> caller[d].status = "queued",
           \A d \in Callers : answered[d].status = "backoff" => answered[d].attempt < MaxRetries,
           Waiting # {}, running' = TRUE, rested' = rested,
           queues' = [queues EXCEPT ![NextPriority] = Tail(@)],
           burst' = BurstAfter(NextPriority),
           pump' = [pump EXCEPT ![i] = [step |-> IF rested THEN "ready" ELSE "sleep",
                                        item |-> Head(queues[NextPriority])]],
           caller' = [answered EXCEPT ![Head(queues[NextPriority])].status = "taken"],
           passed' = IF "scheduled-low" \in Waiting /\ NextPriority # "scheduled-low" THEN passed + 1 ELSE 0
    PROVE  RequestInv'
<1> DEFINE p == NextPriority
           item == Head(queues[p])
           at == [step |-> IF rested THEN "ready" ELSE "sleep", item |-> item]
           new == [answered[item] EXCEPT !.status = "taken"]
<1>0. RequestTypeInv
  BY DEF RequestInv
<1>1. p \in Levels /\ p \in Waiting /\ queues[p] # <<>> /\ queues[p] \in QueueList
  BY <1>0, NextIsWaiting DEF Waiting, RequestTypeInv
<1> HIDE DEF p
<1>2. /\ item \in Callers /\ item \in CallersIn(queues[p])
      /\ Tail(queues[p]) \in QueueList /\ CallersIn(Tail(queues[p])) = CallersIn(queues[p]) \ {item}
  BY <1>1, FirstGoes
<1> HIDE DEF item
<1>3. caller[item].status = "queued" /\ p = Priority(item)
  BY <1>1, <1>2 DEF RequestInv, QueuedInv
<1>4. /\ queues' \in [Levels -> QueueList] /\ queues'[p] = Tail(queues[p])
      /\ \A l \in Levels \ {p} : queues'[l] = queues[l]
  BY <1>0, <1>1, <1>2 DEF RequestTypeInv, p
<1>5. at \in PumpType /\ at.item = item /\ at.step # "off" /\ (at.step = "ready" => rested)
  BY <1>2 DEF PumpType
<1>6. pump' \in [Pumps -> PumpType] /\ pump'[i] = at /\ \A j \in Pumps \ {i} : pump'[j] = pump[j]
  <2>1. pump' = [pump EXCEPT ![i] = at]
    BY DEF at, item, p
  <2> HIDE DEF at
  <2> QED  BY <1>0, <1>5, <2>1, PumpSet
<1>7. new \in CallerType /\ new.status = "taken"
  BY <1>2 DEF CallerType
<1>8. caller' \in [Callers -> CallerType] /\ caller'[item] = new /\ \A d \in Callers \ {item} : caller'[d] = answered[d]
  <2>1. caller' = [answered EXCEPT ![item] = new]
    BY DEF new, item, p
  <2> HIDE DEF new
  <2> QED  BY <1>2, <1>7, <2>1
<1> HIDE DEF at, new
<1>9. burst' \in 0..BurstLimit /\ passed' \in Nat /\ passed' <= burst'
  <2>1. passed \in Nat /\ burst \in 0..BurstLimit /\ BurstLimit \in Nat /\ passed <= burst
    BY <1>0, RequestAssumption DEF RequestInv, RequestTypeInv
  <2>2. burst' = IF p = "scheduled-low" THEN 0 ELSE IF burst < BurstLimit THEN burst + 1 ELSE burst
    BY DEF BurstAfter, p
  <2>3. CASE "scheduled-low" \in Waiting /\ p # "scheduled-low"
    <3>1. burst < BurstLimit
      <4>1. ~LowsTurn
        BY <2>3 DEF p, NextPriority
      <4>2. ~(burst >= BurstLimit)
        BY <2>3, <4>1 DEF LowsTurn
      <4> QED  BY <2>1, <4>2
    <3>2. passed' = passed + 1
      BY <2>3 DEF p
    <3> QED  BY <2>1, <2>2, <2>3, <3>1, <3>2
  <2>4. CASE ~("scheduled-low" \in Waiting /\ p # "scheduled-low")
    <3>1. passed' = 0
      BY <2>4 DEF p
    <3> QED  BY <2>1, <2>2, <3>1
  <2> QED  BY <2>3, <2>4
<1>10. RequestTypeInv'
  <2>1. running' \in BOOLEAN /\ rested' \in BOOLEAN
    BY <1>0 DEF RequestTypeInv
  <2> QED  BY <1>4, <1>6, <1>8, <1>9, <2>1, Zenon DEF RequestTypeInv
<1>11. QueuedInv'
  <2>1. ASSUME NEW d \in Callers \ {item}, NEW l \in Levels
        PROVE  d \in CallersIn(queues'[l]) <=> caller'[d].status = "queued" /\ l = Priority(d)
    <3>1. d \in CallersIn(queues'[l]) <=> d \in CallersIn(queues[l])
      BY <1>2, <1>4
    <3>2. caller'[d].status = "queued" <=> caller[d].status = "queued"
      BY <1>8
    <3> QED  BY <3>1, <3>2 DEF RequestInv, QueuedInv
  <2>2. ASSUME NEW l \in Levels
        PROVE  item \notin CallersIn(queues'[l]) /\ caller'[item].status # "queued"
    <3>1. caller'[item].status = "taken"
      BY <1>2, <1>7, <1>8
    <3>2. CASE l = p
      BY <1>2, <1>4, <3>1, <3>2
    <3>3. CASE l # p
      <4>1. item \notin CallersIn(queues[l])
        BY <1>2, <1>3, <3>3 DEF RequestInv, QueuedInv
      <4> QED  BY <1>4, <3>1, <3>3, <4>1
    <3> QED  BY <3>2, <3>3
  <2> QED  BY <2>1, <2>2 DEF QueuedInv
<1>12. PumpInv'
  BY <1>2, <1>5, <1>6, <1>7, <1>8 DEF PumpInv
<1>13. RetryInv'
  BY <1>7, <1>8 DEF RetryInv
<1> QED  BY <1>9, <1>10, <1>11, <1>12, <1>13 DEF RequestInv

LEMMA StartPumpKeeps == ASSUME RequestInv, NEW i \in Pumps, StartPump(i) PROVE RequestInv'
<1>1. ~running /\ \A j \in Pumps : pump[j].step = "off"
  BY DEF StartPump, MayStart, RequestInv, PumpInv
<1>2. /\ caller \in [Callers -> CallerType]
      /\ \A d \in Callers : caller[d].status = "backoff" => caller[d].attempt < MaxRetries
  BY DEF RequestInv, RequestTypeInv, RetryInv
<1> QED  BY <1>1, <1>2, TakesNext DEF StartPump

\* The answer to the caller of the pump's request, and the next one.
LEMMA ChoosesNextKeeps ==
    ASSUME RequestInv, NEW i \in Pumps, pump[i].step # "off", NEW new \in CallerType,
           new.status \in {"idle", "backoff"}, new.status = "backoff" => new.attempt < MaxRetries,
           ChoosesNext(i, [caller EXCEPT ![pump[i].item] = new]), UNCHANGED rested
    PROVE  RequestInv'
<1> DEFINE c == pump[i].item
           answered == [caller EXCEPT ![c] = new]
<1>1. /\ running /\ c \in Callers /\ caller[c].status = "taken" /\ \A j \in Pumps \ {i} : pump[j].step = "off"
      /\ RequestTypeInv
  BY DEF RequestInv, PumpInv
<1> HIDE DEF c
<1>2. answered \in [Callers -> CallerType] /\ answered[c] = new /\ \A d \in Callers \ {c} : answered[d] = caller[d]
  BY <1>1 DEF RequestTypeInv
<1>3. ChoosesNext(i, answered)
  BY DEF c
<1> HIDE DEF answered
<1>4. \A d \in Callers : /\ answered[d].status = "queued" <=> caller[d].status = "queued"
                         /\ answered[d].status = "backoff" => answered[d].attempt < MaxRetries
  BY <1>1, <1>2 DEF RequestInv, RetryInv
<1>5. CASE Waiting # {}
  <2>1. /\ queues' = [queues EXCEPT ![NextPriority] = Tail(@)]
        /\ burst' = BurstAfter(NextPriority)
        /\ pump' = [pump EXCEPT ![i] = [step |-> IF rested THEN "ready" ELSE "sleep",
                                        item |-> Head(queues[NextPriority])]]
        /\ caller' = [answered EXCEPT ![Head(queues[NextPriority])].status = "taken"]
        /\ passed' = IF "scheduled-low" \in Waiting /\ NextPriority # "scheduled-low" THEN passed + 1 ELSE 0
        /\ UNCHANGED running
    BY <1>3, <1>5 DEF ChoosesNext
  <2>2. running' = TRUE
    BY <1>1, <2>1 DEF RequestTypeInv
  <2> QED  BY <1>1, <1>2, <1>4, <1>5, <2>1, <2>2, TakesNext
<1>6. CASE Waiting = {}
  <2>1. /\ pump' = [pump EXCEPT ![i] = PumpOff] /\ running' = FALSE
        /\ caller' = answered /\ UNCHANGED <<queues, burst, passed>>
    BY <1>3, <1>6 DEF ChoosesNext
  <2>2. PumpOff \in PumpType /\ PumpOff.step = "off"
    BY DEF PumpOff, PumpType
  <2>3. pump' \in [Pumps -> PumpType] /\ \A j \in Pumps : pump'[j].step = "off"
    BY <1>1, <2>1, <2>2, PumpSet
  <2>4. RequestTypeInv'
    BY <1>1, <1>2, <2>1, <2>3 DEF RequestTypeInv
  <2>5. QueuedInv'
    BY <1>4, <2>1 DEF RequestInv, QueuedInv
  <2>6. PumpInv'
    BY <2>3 DEF PumpInv
  <2>7. RetryInv'
    BY <1>4, <2>1 DEF RetryInv
  <2> QED  BY <2>1, <2>4, <2>5, <2>6, <2>7 DEF RequestInv
<1> QED  BY <1>5, <1>6

LEMMA DropAbortedKeeps == ASSUME RequestInv, NEW i \in Pumps, DropAborted(i) PROVE RequestInv'
<1>1. NotAsking \in CallerType /\ NotAsking.status = "idle"
  BY RequestAssumption DEF NotAsking, CallerType
<1> QED  BY <1>1, ChoosesNextKeeps DEF DropAborted

LEMMA OperationEndsKeeps == ASSUME RequestInv, NEW i \in Pumps, OperationEnds(i) PROVE RequestInv'
<1> DEFINE c == pump[i].item
<1>1. pump[i].step = "operate" /\ c \in Callers /\ caller[c] \in CallerType
  BY DEF OperationEnds, RequestInv, PumpInv, RequestTypeInv
<1>2. PICK limited \in BOOLEAN :
          ChoosesNext(i, [caller EXCEPT ![c] =
              IF limited /\ MayRetry(c) /\ ~caller[c].aborted THEN [caller[c] EXCEPT !.status = "backoff"]
              ELSE NotAsking])
  BY <1>1 DEF OperationEnds, RequestInv, RequestTypeInv
<1> DEFINE new == IF limited /\ MayRetry(c) /\ ~caller[c].aborted THEN [caller[c] EXCEPT !.status = "backoff"]
                  ELSE NotAsking
<1>3. NotAsking \in CallerType /\ NotAsking.status = "idle"
  BY RequestAssumption DEF NotAsking, CallerType
<1>4. /\ new \in CallerType /\ new.status \in {"idle", "backoff"}
      /\ new.status = "backoff" => new.attempt < MaxRetries
  BY <1>1, <1>3 DEF CallerType, MayRetry
<1>5. UNCHANGED rested
  BY DEF OperationEnds
<1> HIDE DEF new
<1> QED  BY <1>1, <1>2, <1>4, <1>5, ChoosesNextKeeps DEF new

LEMMA ReleaseKeeps == ASSUME RequestInv, NEW i \in Pumps, Release(i) PROVE RequestInv'
<1> DEFINE new == [pump[i] EXCEPT !.step = "operate"]
<1>1. RequestTypeInv /\ pump[i] \in PumpType /\ pump[i].step = "ready"
  BY DEF RequestInv, RequestTypeInv, Release
<1>2. new \in PumpType /\ new.step = "operate" /\ new.item = pump[i].item
  BY <1>1 DEF PumpType
<1>3. pump' = [pump EXCEPT ![i] = new] /\ rested' = FALSE /\ UNCHANGED <<queues, running, burst, caller, passed>>
  BY DEF Release
<1> HIDE DEF new
<1>4. pump' \in [Pumps -> PumpType] /\ pump'[i] = new /\ \A j \in Pumps \ {i} : pump'[j] = pump[j]
  BY <1>1, <1>2, <1>3, PumpSet
<1>5. PumpInv'
  BY <1>1, <1>2, <1>3, <1>4 DEF RequestInv, PumpInv
<1> QED  BY <1>3, <1>4, <1>5 DEF RequestInv, RequestTypeInv, QueuedInv, RetryInv

LEMMA PauseEndsKeeps == ASSUME RequestInv, PauseEnds PROVE RequestInv'
<1>1. \A i \in Pumps : pump[i] \in PumpType
  BY DEF RequestInv, RequestTypeInv
<1>2. /\ pump' = [i \in Pumps |-> IF pump[i].step = "sleep" THEN [pump[i] EXCEPT !.step = "ready"] ELSE pump[i]]
      /\ rested' = TRUE /\ UNCHANGED <<queues, running, burst, caller, passed>>
  BY DEF PauseEnds
<1>3. \A i \in Pumps : /\ pump'[i] \in PumpType /\ pump'[i].item = pump[i].item
                       /\ pump'[i].step # "off" => pump[i].step # "off"
  BY <1>1, <1>2 DEF PumpType
<1>4. pump' \in [Pumps -> PumpType]
  BY <1>2, <1>3
<1>5. PumpInv'
  BY <1>2, <1>3 DEF RequestInv, PumpInv
<1> QED  BY <1>2, <1>4, <1>5 DEF RequestInv, RequestTypeInv, QueuedInv, RetryInv

LEMMA RequestInductive == RequestInv /\ [RequestNext]_requestVars => RequestInv'
<1> SUFFICES ASSUME RequestInv, [RequestNext]_requestVars
             PROVE  RequestInv'
  OBVIOUS
<1>1. CASE UNCHANGED requestVars
  BY <1>1 DEF requestVars, RequestInv, RequestTypeInv, QueuedInv, PumpInv, RetryInv
<1>2. CASE RequestNext
  BY <1>2, AskKeeps, AbortWaitingKeeps, AbortTakenKeeps, StartPumpKeeps, DropAbortedKeeps, OperationEndsKeeps,
     ReleaseKeeps, PauseEndsKeeps DEF RequestNext, PumpStep
<1> QED  BY <1>1, <1>2

\* Only a pump that was ready, hence after the pause, starts an operation.
LEMMA SpacedStep ==
    ASSUME RequestInv, [RequestNext]_requestVars, NEW i \in Pumps,
           pump[i].step # "operate", pump'[i].step = "operate"
    PROVE  rested
<1>0. pump \in [Pumps -> PumpType]
  BY DEF RequestInv, RequestTypeInv
<1>1. ASSUME NEW j \in Pumps, Release(j)
      PROVE  rested
  BY <1>1 DEF Release, RequestInv, PumpInv
<1>2. ASSUME NEW j \in Pumps, StartPump(j) \/ DropAborted(j) \/ OperationEnds(j)
      PROVE  FALSE
  <2>1. \/ pump' = [pump EXCEPT ![j] = PumpOff]
        \/ pump' = [pump EXCEPT ![j] = [step |-> IF rested THEN "ready" ELSE "sleep",
                                        item |-> Head(queues[NextPriority])]]
    BY <1>2 DEF StartPump, DropAborted, OperationEnds, ChoosesNext
  <2> QED  BY <1>0, <2>1 DEF PumpOff
<1>3. CASE PauseEnds
  BY <1>0, <1>3 DEF PauseEnds, PumpType
<1>4. pump' = pump \/ PauseEnds \/ \E j \in Pumps : PumpStep(j)
  BY DEF RequestNext, requestVars, Ask, AskAgain, Enters, AbortWaiting, AbortTaken
<1> QED  BY <1>1, <1>2, <1>3, <1>4 DEF PumpStep

\* The provider sees one request at a time, a pause apart, and no more than
\* BurstLimit requests pass a low one that waits, whoever asks, retries and
\* aborts, and however many pumps are started.
THEOREM RequestsStayPaced == RequestSpec => RequestsArePaced
<1>1. RequestInv => OneRequestAtATime
  <2> SUFFICES ASSUME RequestInv
               PROVE  OneRequestAtATime
    OBVIOUS
  <2>1. \A p \in Levels : Range(queues[p]) = CallersIn(queues[p])
    BY RangeIs DEF RequestInv, RequestTypeInv
  <2>2. DOMAIN queues = Levels
    BY DEF RequestInv, RequestTypeInv
  <2>3. \A c \in Callers : caller[c].status = "queued" <=> \E p \in DOMAIN queues : c \in Range(queues[p])
    BY <2>1, <2>2, PriorityIsLevel DEF RequestInv, QueuedInv
  <2>4. \A i, j \in Pumps : pump[i].step # "off" /\ pump[j].step # "off" => i = j
    BY DEF RequestInv, PumpInv
  <2> QED  BY <2>3, <2>4 DEF OneRequestAtATime
<1>2. RequestInv => BurstIsBounded
  BY RequestAssumption DEF RequestInv, RequestTypeInv, BurstIsBounded
<1>3. RequestInv /\ [RequestNext]_requestVars
        => [(\E i \in Pumps : pump[i].step # "operate" /\ pump'[i].step = "operate") => rested]_requestVars
  BY SpacedStep
<1> QED  BY <1>1, <1>2, <1>3, RequestInitInv, RequestInductive, PTL
         DEF RequestSpec, RequestsArePaced, ReleasesAreSpaced

\* Queues, pumps and callers keep their types, for any callers and pumps.
THEOREM RequestTypes == RequestSpec => []RequestTypeOK
<1>1. RequestInv => RequestTypeOK
  BY DEF RequestInv, RequestTypeInv, QueueList, PumpType, CallerType, RequestTypeOK
<1> QED  BY <1>1, RequestInitInv, RequestInductive, PTL DEF RequestSpec

-----------------------------------------------------------------------------
(* Daily bars: days.                                                       *)

LEMMA LeastOf ==
    ASSUME NEW T, T \subseteq Nat, T # {}
    PROVE  \E x \in T : \A y \in T : x <= y
<1>1. \E x \in T : \A y \in T : ~ (<<y, x>> \in OpToRel(<, Nat))
  BY NatLessThanWellFounded, WFMin
<1>2. \A x, y \in T : <<y, x>> \in OpToRel(<, Nat) <=> y < x
  BY DEF OpToRel
<1>3. \A x, y \in T : ~(y < x) => x <= y
  OBVIOUS
<1> QED BY <1>1, <1>2, <1>3

LEMMA MarketConstants ==
    /\ Core \subseteq Instruments /\ IsFiniteSet(Instruments)
    /\ TradingDays \in Nat \ {0} /\ Dates \subseteq Nat \ {0} /\ 1 \in Dates
    /\ Loads \in Nat /\ Mishaps \in Nat /\ ToleratedGap \in Nat
    /\ \A d \in Nat \ {0}, e \in Dates : d <= e => d \in Dates
BY MarketAssumption DEF Dates

LEMMA DatesAreNat == \A d \in Dates : d \in Nat /\ d >= 1
BY MarketConstants

\* The least of a set of days.
LEMMA MinOfDays ==
    ASSUME NEW S \in SUBSET Dates, S # {}
    PROVE  Min(S) \in S
<1>1. S \subseteq Nat
  BY MarketConstants
<1>2. \E x \in S : \A y \in S : x <= y
  BY <1>1, LeastOf
<1> QED
  BY <1>2 DEF Min

\* The last bar before a day, or none.
LEMMA LatestIs ==
    ASSUME NEW c, NEW day \in Dates
    PROVE  /\ LatestBar(c, day) \in 0..(day - 1)
           /\ LatestBar(c, day) # 0 => Has(c, LatestBar(c, day)) /\ LatestBar(c, day) \in Dates
<1> DEFINE S == {d \in 1..(day - 1) : Has(c, d)} \cup {0}
           U == {day - i : i \in S}
<1>1. day \in Nat \ {0} /\ S \subseteq 0..(day - 1) /\ 0 \in S
  BY MarketConstants
<1>2. U \subseteq Nat /\ U # {}
  <2>1. \A i \in S : day - i \in Nat
    BY <1>1
  <2> QED
    BY <1>1, <2>1
<1>3. PICK u \in U : \A v \in U : u <= v
  BY <1>2, LeastOf
<1>4. PICK x \in S : u = day - x
  OBVIOUS
<1>5. \A y \in S : x >= y
  <2>1. \A y \in S : day - x <= day - y
    BY <1>3, <1>4
  <2> HIDE DEF S
  <2> QED
    BY <1>1, <2>1
<1>6. \E y \in S : \A z \in S : y >= z
  BY <1>5
<1>7. LatestBar(c, day) = CHOOSE y \in S : \A z \in S : y >= z
  BY DEF LatestBar, Max
<1>8. LatestBar(c, day) \in S
  BY <1>6, <1>7
<1>9. \A d \in 1..(day - 1) : d \in Dates
  BY <1>1, MarketConstants
<1> QED
  BY <1>1, <1>8, <1>9

-----------------------------------------------------------------------------
(* Daily bars: what holds of the update and of the loads.                  *)

Kinds == {"partial", "final"}
BarRow == [Dates -> Kinds \cup {"none"}]
LoadType == [at : {"none", "fetch", "store", "read", "write"}, code : Instruments \cup {"none"},
             from : Dates, to : Dates, marks : BOOLEAN, got : SUBSET (Dates \X Kinds),
             seen : BarRow \cup {<<>>}, rows : SUBSET Dates]
UpdateType == [at : {"idle", "quotes", "missing", "previous", "reload", "append", "averages", "backfill", "done"},
               day : Dates, mode : {"snapshot", "historical"}, cared : SUBSET Instruments, todo : SUBSET Instruments,
               code : Instruments \cup {"none"}, gaps : SUBSET Instruments, dirty : SUBSET Instruments]

MarketTypeInv ==
    /\ tradingDay \in Dates /\ afterClose \in BOOLEAN /\ core \subseteq Instruments /\ calendarKnown \in BOOLEAN
    /\ traded \in [Instruments -> SUBSET Dates] /\ dailyBar \in [Instruments -> BarRow]
    /\ average \in [Instruments -> [Dates -> SUBSET (Dates \X (Kinds \cup {"none"}))]]
    /\ update \in UpdateType /\ loading \in [Loaders -> LoadType]
    /\ loads \in 0..Loads /\ mishaps \in 0..Mishaps
    /\ passedOver \subseteq Instruments \X Dates /\ cutShort \subseteq Instruments /\ off \subseteq Instruments

\* Bars are of days that have come.
CalendarInv == \A c \in Instruments : /\ traded[c] \subseteq 1..tradingDay
                                      /\ \A d \in Dates : Has(c, d) => d <= tradingDay

\* What the update is doing.
ControlInv ==
    /\ update.at = "idle" => update = NoUpdate
    /\ update.at \in {"quotes", "previous", "append", "averages"} => update.mode = "snapshot"
    /\ update.at \in {"missing", "backfill"} => update.mode = "historical"
    /\ update.day <= tradingDay
    /\ update.at # "idle" /\ update.mode = "snapshot" => update.day < tradingDay \/ afterClose
    /\ update.at = "quotes" => update.todo = Instruments /\ update.dirty = {}
    /\ update.at = "missing" => update.todo = update.cared
    /\ update.at \in {"append", "reload", "averages"} => update.code \in Instruments
    /\ update.mode = "snapshot" /\ update.at \in {"append", "reload", "averages"} => update.day = tradingDay
    /\ update.at = "previous" => update.day = tradingDay \/ (update.todo = {} /\ update.dirty = {})
    /\ update.at = "done" => update.dirty = {} /\ (update.mode = "snapshot" => update.todo = {})

\* What the loads are doing.
LoadInv ==
    /\ \A a \in Loaders :
         /\ loading[a].at # "none" => loading[a].code \in Instruments
         /\ loading[a].at = "write" => loading[a].seen \in BarRow
         /\ loading[a].at # "store" => loading[a].got = {}
    /\ loading["update"].at # "none" =>
         loading["update"].code = update.code /\ update.at \in {"reload", "averages"}
    /\ loading["update"].at \in {"fetch", "store"} => update.at = "reload"

\* What was loaded and is to be stored.
GotInv ==
    \A a \in Loaders :
        /\ \A g \in loading[a].got : /\ loading[a].from <= g[1] /\ g[1] <= loading[a].to /\ g[1] <= tradingDay
                                     /\ g[2] = "partial" => g[1] = tradingDay /\ ~afterClose
        /\ loading[a].at = "store" =>
             \A d \in traded[loading[a].code] :
                loading[a].from <= d /\ d <= loading[a].to /\ d # tradingDay => \E g \in loading[a].got : g[1] = d

\* No hole opens behind what is appended or reloaded.
BehindInv ==
    /\ update.at = "append" /\ update.code \in update.cared /\ calendarKnown =>
         update.day - 1 \in Dates /\ Has(update.code, update.day - 1)
    /\ update.mode = "snapshot" /\ loading["update"].at \in {"fetch", "store"} =>
         /\ loading["update"].to = update.day
         /\ loading["update"].from # 1 =>
              loading["update"].from - 1 \in Dates /\ Has(update.code, loading["update"].from - 1)

\* Each code of the scope is still to be done, or done, or reported.
AccountInv ==
    /\ update.mode = "snapshot" /\ update.at \in {"previous", "append", "reload", "averages", "done"} =>
         \A c \in Instruments :
            \/ c \in update.todo \cup update.gaps \cup cutShort
            \/ dailyBar[c][update.day] = "final"
            \/ c = update.code /\ update.at = "append"
            \/ c = update.code /\ update.at = "reload" /\ loading["update"].at \in {"fetch", "store"}
    /\ update.mode = "historical" /\ update.at \in {"backfill", "reload"} =>
         \A c \in update.cared : Has(c, update.day) \/ c \in update.dirty
    /\ update.mode = "historical" /\ update.at = "done" =>
         \A c \in update.cared : Has(c, update.day) \/ c \in update.gaps

StaleDays(c) == {d \in Dates : average[c][d] # WindowOf(dailyBar[c], d)}
Excused == off \cup (IF update.mode = "snapshot" THEN update.dirty ELSE {})
SeesTo(a, c) ==
    /\ loading[a].code = c
    /\ \/ loading[a].at = "read"
       \/ loading[a].at = "write" /\ loading[a].seen = dailyBar[c] /\ StaleDays(c) \subseteq loading[a].rows
FreshInv == \A c \in Instruments \ Excused : StaleDays(c) = {} \/ \E a \in Loaders : SeesTo(a, c)

\* A day without a bar has no average, and none is being computed for it.
BlankInv == \A c \in Instruments, d \in Dates :
    ~Has(c, d) => average[c][d] = {} /\ \A a \in Loaders : loading[a].code = c => d \notin loading[a].rows

MarketInv == MarketTypeInv /\ CalendarInv /\ ControlInv /\ LoadInv /\ GotInv /\ BehindInv /\ AccountInv
                 /\ HolesAreAccounted /\ FreshInv

LEMMA NoLoadIs ==
    /\ NoLoad \in LoadType /\ NoLoad.at = "none" /\ NoLoad.got = {} /\ NoLoad.code = "none" /\ NoLoad.from = 1
<1>1. 1 \in Dates
  BY MarketConstants
<1> QED
  BY <1>1 DEF NoLoad, LoadType

LEMMA NoUpdateIs ==
    /\ NoUpdate \in UpdateType /\ NoUpdate.at = "idle" /\ NoUpdate.mode = "snapshot" /\ NoUpdate.dirty = {}
    /\ NoUpdate.day = 1 /\ NoUpdate.todo = {} /\ NoUpdate.gaps = {} /\ NoUpdate.code = "none"
<1>1. 1 \in Dates
  BY MarketConstants
<1> QED
  BY <1>1 DEF NoUpdate, UpdateType

\* A load that begins.
Begun(at, code, from, to, l) ==
    /\ l \in LoadType /\ l.at = at /\ l.code = code /\ l.from = from /\ l.to = to /\ l.got = {}

LEMMA FetchBegins ==
    ASSUME NEW c \in Instruments, NEW from \in Dates, NEW to \in Dates
    PROVE  /\ Begun("fetch", c, from, to,
                [NoLoad EXCEPT !.at = "fetch", !.code = c, !.from = from, !.to = to, !.marks = TRUE])
           /\ Begun("fetch", c, 1, to,
                [NoLoad EXCEPT !.at = "fetch", !.code = c, !.to = to, !.marks = TRUE])
           /\ [NoLoad EXCEPT !.at = "read", !.code = c] \in LoadType
           /\ [NoLoad EXCEPT !.at = "read", !.code = c].at = "read"
           /\ [NoLoad EXCEPT !.at = "read", !.code = c].code = c
           /\ [NoLoad EXCEPT !.at = "read", !.code = c].got = {}
BY NoLoadIs DEF Begun, LoadType

\* The update goes on: what it does, what it has to do, its code, its gaps and
\* what it has to average; the rest of it stays.
UpdateIs(at, todo, code, gaps, dirty) ==
    /\ update' \in UpdateType /\ update'.day = update.day /\ update'.mode = update.mode /\ update'.cared = update.cared
    /\ update'.at = at /\ update'.todo = todo /\ update'.code = code /\ update'.gaps = gaps /\ update'.dirty = dirty

\* One load changes.
LoadIs(a, new) == loading' \in [Loaders -> LoadType] /\ loading'[a] = new /\ \A b \in Loaders \ {a} : loading'[b] = loading[b]

-----------------------------------------------------------------------------
(* What leaves a part of the invariant as it is.                           *)

LEMMA CalendarFrame ==
    ASSUME CalendarInv, UNCHANGED <<dailyBar, traded, tradingDay>>
    PROVE  CalendarInv'
BY DEF CalendarInv, Has

LEMMA HolesFrame ==
    ASSUME HolesAreAccounted, UNCHANGED <<dailyBar, traded>>, passedOver \subseteq passedOver'
    PROVE  HolesAreAccounted'
BY DEF HolesAreAccounted, Holes

LEMMA GotFrame ==
    ASSUME GotInv, UNCHANGED <<tradingDay, afterClose, traded>>,
           \A a \in Loaders : loading'[a] = loading[a] \/ (loading'[a].at # "store" /\ loading'[a].got = {})
    PROVE  GotInv'
BY DEF GotInv

LEMMA FreshFrame ==
    ASSUME FreshInv, UNCHANGED <<dailyBar, average>>,
           \A c \in Instruments \ Excused' : c \notin Excused \/ StaleDays(c) = {} \/ \E a \in Loaders : SeesTo(a, c)',
           \A c \in Instruments \ Excused', a \in Loaders :
              SeesTo(a, c) => StaleDays(c) = {} \/ \E b \in Loaders : SeesTo(b, c)'
    PROVE  FreshInv'
<1> SUFFICES ASSUME NEW c \in Instruments \ Excused' PROVE StaleDays(c)' = {} \/ \E b \in Loaders : SeesTo(b, c)'
  BY DEF FreshInv
<1>1. StaleDays(c)' = StaleDays(c)
  BY DEF StaleDays, WindowOf
<1> QED
  BY <1>1 DEF FreshInv

LEMMA FreshSame ==
    ASSUME FreshInv, UNCHANGED <<dailyBar, average, loading>>, Excused \subseteq Excused'
    PROVE  FreshInv'
<1>1. \A c \in Instruments : StaleDays(c)' = StaleDays(c)
  BY DEF StaleDays, WindowOf
<1>2. \A c \in Instruments, a \in Loaders : SeesTo(a, c) => SeesTo(a, c)'
  BY <1>1 DEF SeesTo
<1> QED
  BY <1>2, FreshFrame

LEMMA FreshLoads ==
    ASSUME FreshInv, UNCHANGED <<dailyBar, average>>, Excused \subseteq Excused',
           \A a \in Loaders : loading'[a] = loading[a] \/ loading[a].at \notin {"read", "write"}
    PROVE  FreshInv'
<1>1. \A c \in Instruments : StaleDays(c)' = StaleDays(c)
  BY DEF StaleDays, WindowOf
<1>2. \A c \in Instruments, a \in Loaders : SeesTo(a, c) => SeesTo(a, c)'
  BY <1>1 DEF SeesTo
<1> QED
  BY <1>2, FreshFrame

-----------------------------------------------------------------------------
(* The steps that leave the update and the loads alone.                    *)

LEMMA MarketInitInv == MarketInit => MarketInv
<1> SUFFICES ASSUME MarketInit PROVE MarketInv
  OBVIOUS
<1>1. update = NoUpdate /\ \A a \in Loaders : loading[a] = NoLoad
  BY DEF MarketInit
<1>2. MarketTypeInv
  <2>1. update \in UpdateType /\ loading \in [Loaders -> LoadType]
    BY NoLoadIs, NoUpdateIs DEF MarketInit
  <2>2. /\ traded \in [Instruments -> SUBSET Dates] /\ dailyBar \in [Instruments -> BarRow]
        /\ average \in [Instruments -> [Dates -> SUBSET (Dates \X (Kinds \cup {"none"}))]]
    BY MarketConstants DEF MarketInit, BarRow
  <2>3. tradingDay \in Dates /\ afterClose \in BOOLEAN /\ core \subseteq Instruments /\ calendarKnown \in BOOLEAN
    BY MarketConstants DEF MarketInit
  <2> QED
    BY <2>1, <2>2, <2>3 DEF MarketInit, MarketTypeInv
<1>3. \A c \in Instruments, d \in Dates : ~Has(c, d)
  BY DEF MarketInit, Has
<1>4. CalendarInv
  BY <1>3 DEF MarketInit, CalendarInv
<1>5. ControlInv
  BY <1>1, NoUpdateIs DEF ControlInv, MarketInit
<1>6. LoadInv /\ GotInv /\ BehindInv
  BY <1>1, NoLoadIs, NoUpdateIs DEF LoadInv, GotInv, BehindInv, Loaders
<1>7. AccountInv
  BY <1>1, NoUpdateIs DEF AccountInv
<1>8. HolesAreAccounted
  BY DEF MarketInit, HolesAreAccounted, Holes
<1>9. FreshInv
  <2>1. \A c \in Instruments, d \in Dates : average[c][d] = WindowOf(dailyBar[c], d)
    BY DEF MarketInit, WindowOf
  <2> QED
    BY <2>1 DEF FreshInv, StaleDays
<1> QED
  BY <1>2, <1>4, <1>5, <1>6, <1>7, <1>8, <1>9 DEF MarketInv

LEMMA ClosesKeeps == ASSUME MarketInv, Closes PROVE MarketInv'
<1>1. MarketTypeInv'
  BY DEF MarketInv, MarketTypeInv, Closes, barVars, marketHistory
<1>2. CalendarInv' /\ HolesAreAccounted'
  BY CalendarFrame, HolesFrame DEF MarketInv, Closes, barVars, marketHistory
<1>3. ControlInv'
  BY DEF MarketInv, ControlInv, Closes
<1>4. LoadInv' /\ BehindInv' /\ AccountInv'
  BY DEF MarketInv, LoadInv, BehindInv, AccountInv, Has, Closes, barVars, marketHistory
<1>5. GotInv'
  BY DEF MarketInv, GotInv, Closes
<1>6. FreshInv'
  BY FreshSame DEF MarketInv, Excused, Closes, barVars, marketHistory
<1> QED
  BY <1>1, <1>2, <1>3, <1>4, <1>5, <1>6 DEF MarketInv

LEMMA NextTradingDayKeeps == ASSUME MarketInv, NextTradingDay PROVE MarketInv'
<1>1. /\ tradingDay \in Nat /\ tradingDay' = tradingDay + 1 /\ tradingDay' \in Dates /\ afterClose /\ afterClose' = FALSE
      /\ \A a \in Loaders : loading[a].at = "none" /\ loading[a].got = {}
      /\ update.at \in {"idle", "quotes"}
  <2>1. tradingDay \in Dates /\ tradingDay < TradingDays /\ tradingDay' = tradingDay + 1
    BY DEF MarketInv, MarketTypeInv, NextTradingDay
  <2>2. tradingDay' \in Dates /\ tradingDay \in Nat
    BY <2>1, MarketConstants DEF Dates
  <2> QED
    BY <2>1, <2>2 DEF MarketInv, LoadInv, NextTradingDay
<1>2. PICK S : traded' = [c \in Instruments |-> traded[c] \cup (IF c \in S THEN {tradingDay + 1} ELSE {})]
  BY DEF NextTradingDay
<1>3. core' \subseteq Instruments
  BY MarketConstants DEF NextTradingDay
<1>4. UNCHANGED <<calendarKnown, dailyBar, average, update, loading, loads, mishaps, passedOver, cutShort, off>>
  BY DEF NextTradingDay, barVars, marketHistory
<1>5. MarketTypeInv'
  <2>1. traded' \in [Instruments -> SUBSET Dates]
    BY <1>1, <1>2 DEF MarketInv, MarketTypeInv
  <2> QED
    BY <1>1, <1>3, <1>4, <2>1 DEF MarketInv, MarketTypeInv
<1>6. \A c \in Instruments, d \in Dates : Has(c, d)' => Has(c, d) /\ d <= tradingDay /\ d < tradingDay'
  <2> SUFFICES ASSUME NEW c \in Instruments, NEW d \in Dates, Has(c, d)'
               PROVE  Has(c, d) /\ d <= tradingDay /\ d < tradingDay'
    OBVIOUS
  <2>1. Has(c, d)
    BY <1>4 DEF Has
  <2>2. d <= tradingDay /\ d \in Nat
    BY <2>1, MarketConstants DEF MarketInv, CalendarInv
  <2> QED
    BY <1>1, <2>1, <2>2
<1>7. CalendarInv'
  <2>1. ASSUME NEW c \in Instruments PROVE traded'[c] \subseteq 1..tradingDay'
    <3>1. traded[c] \subseteq 1..tradingDay
      BY DEF MarketInv, CalendarInv
    <3> QED
      BY <1>1, <1>2, <3>1
  <2> QED
    <3>1. \A c \in Instruments, d \in Dates : Has(c, d)' => d <= tradingDay'
      <4>1. \A d \in Dates : d < tradingDay' => d <= tradingDay'
        BY <1>1, DatesAreNat
      <4> QED
        BY <1>6, <4>1
    <3> QED
      BY <2>1, <3>1 DEF CalendarInv
<1>8. ControlInv'
  BY <1>1, <1>4 DEF MarketInv, ControlInv, MarketTypeInv, UpdateType, Dates
<1>9. LoadInv' /\ BehindInv' /\ AccountInv'
  BY <1>4 DEF MarketInv, LoadInv, BehindInv, AccountInv, Has
<1>10. GotInv'
  BY <1>1, <1>4 DEF GotInv
<1>11. HolesAreAccounted'
  <2> SUFFICES ASSUME NEW c \in Instruments, NEW d \in Holes(c, dailyBar[c])' PROVE <<c, d>> \in passedOver
    BY <1>4 DEF HolesAreAccounted
  <2>1. d \in traded'[c] /\ dailyBar[c][d] = "none" /\ \E e \in Dates : e > d /\ dailyBar[c][e] # "none"
    BY <1>4 DEF Holes
  <2>2. d # tradingDay + 1
    BY <1>1, <1>4, <1>6, <2>1, MarketConstants DEF Has
  <2>3. d \in traded[c]
    BY <1>2, <2>1, <2>2
  <2>4. d \in Holes(c, dailyBar[c])
    BY <1>4, <2>3 DEF Holes
  <2> QED
    BY <2>4 DEF MarketInv, HolesAreAccounted
<1>12. FreshInv'
  BY <1>4, FreshSame DEF MarketInv, Excused
<1> QED
  BY <1>5, <1>7, <1>8, <1>9, <1>10, <1>11, <1>12 DEF MarketInv

LEMMA StartUpdateKeeps == ASSUME MarketInv, NEW d \in Dates, StartUpdate(d) PROVE MarketInv'
<1>1. /\ update = NoUpdate /\ loading["update"].at = "none" /\ d <= tradingDay /\ (d = tradingDay => afterClose)
      /\ UNCHANGED <<tradingDay, afterClose, traded, core, calendarKnown, dailyBar, average, loading, loads, mishaps,
                     passedOver, off>>
      /\ cutShort' = {}
  BY NoUpdateIs DEF MarketInv, ControlInv, LoadInv, StartUpdate, GateOpens, clockVars, barVars
<1>2. /\ update' \in UpdateType /\ update'.day = d /\ update'.cared = core /\ update'.dirty = {}
      /\ update'.at = IF d = tradingDay THEN "quotes" ELSE "missing"
      /\ update'.mode = IF d = tradingDay THEN "snapshot" ELSE "historical"
      /\ update'.todo = IF d = tradingDay THEN Instruments ELSE core
  BY NoUpdateIs DEF MarketInv, MarketTypeInv, StartUpdate, GateMode, Scope, UpdateType
<1>3. MarketTypeInv'
  BY <1>1, <1>2 DEF MarketInv, MarketTypeInv
<1>4. CalendarInv' /\ HolesAreAccounted'
  BY <1>1, CalendarFrame, HolesFrame DEF MarketInv
<1>5. ControlInv'
  BY <1>1, <1>2 DEF ControlInv
<1>6. LoadInv'
  BY <1>1 DEF MarketInv, LoadInv
<1>7. GotInv'
  BY <1>1, GotFrame DEF MarketInv
<1>8. BehindInv' /\ AccountInv'
  BY <1>1, <1>2 DEF BehindInv, AccountInv
<1>9. FreshInv'
  BY <1>1, <1>2, NoUpdateIs, FreshSame DEF MarketInv, Excused
<1> QED
  BY <1>3, <1>4, <1>5, <1>6, <1>7, <1>8, <1>9 DEF MarketInv

LEMMA EndUpdateKeeps == ASSUME MarketInv, EndUpdate PROVE MarketInv'
<1>1. /\ update.at = "done" /\ update.dirty = {} /\ loading["update"].at = "none" /\ update' = NoUpdate
      /\ UNCHANGED <<tradingDay, afterClose, traded, core, calendarKnown, dailyBar, average, loading, loads, mishaps,
                     passedOver, cutShort, off>>
  BY DEF MarketInv, ControlInv, LoadInv, EndUpdate, clockVars, barVars, marketHistory
<1>2. MarketTypeInv'
  BY <1>1, NoUpdateIs DEF MarketInv, MarketTypeInv
<1>3. CalendarInv' /\ HolesAreAccounted' /\ GotInv'
  BY <1>1, CalendarFrame, HolesFrame, GotFrame DEF MarketInv
<1>4. 1 <= tradingDay
  BY MarketConstants DEF MarketInv, MarketTypeInv
<1>5. ControlInv'
  BY <1>1, <1>4, NoUpdateIs DEF ControlInv
<1>6. LoadInv' /\ BehindInv' /\ AccountInv'
  BY <1>1, NoUpdateIs DEF MarketInv, LoadInv, BehindInv, AccountInv
<1>7. FreshInv'
  BY <1>1, NoUpdateIs, FreshSame DEF MarketInv, Excused
<1> QED
  BY <1>2, <1>3, <1>5, <1>6, <1>7 DEF MarketInv

\* Without a load of its own the update may do what it likes with its own
\* fields: the loads of others stay, and nothing they do depends on it.
LEMMA UpdateAlone ==
    ASSUME MarketInv, loading["update"].at = "none", NEW at, NEW todo, NEW code, NEW gaps, NEW dirty,
           UpdateIs(at, todo, code, gaps, dirty), update.dirty \subseteq dirty, loading' = loading,
           UNCHANGED <<tradingDay, afterClose, traded, core, calendarKnown, dailyBar, average, loads,
                       passedOver, cutShort, off>>, mishaps' \in 0..Mishaps
    PROVE  MarketTypeInv' /\ CalendarInv' /\ LoadInv' /\ GotInv' /\ HolesAreAccounted' /\ FreshInv'
<1>1. MarketTypeInv'
  BY DEF MarketInv, MarketTypeInv, UpdateIs
<1>2. CalendarInv' /\ HolesAreAccounted' /\ GotInv'
  BY CalendarFrame, HolesFrame, GotFrame DEF MarketInv
<1>3. LoadInv'
  BY DEF MarketInv, LoadInv
<1>4. Excused \subseteq Excused'
  BY DEF Excused, UpdateIs
<1>5. FreshInv'
  BY <1>4, FreshSame DEF MarketInv
<1> QED
  BY <1>1, <1>2, <1>3, <1>5

LEMMA TakeQuotesKeeps == ASSUME MarketInv, TakeQuotes PROVE MarketInv'
<1> DEFINE good == {c \in update.todo : tradingDay = update.day /\ update.day \in traded[c]}
<1>1. PICK lost \in {{}} \cup (IF mishaps > 0 THEN {{c} : c \in good} ELSE {}) :
        /\ mishaps' = mishaps - Cardinality(lost)
        /\ update' = [update EXCEPT !.at = "previous", !.todo = good \ lost, !.gaps = update.todo \ (good \ lost)]
  BY DEF TakeQuotes
<1>2. /\ update.at = "quotes" /\ update.mode = "snapshot" /\ update.todo = Instruments /\ update.dirty = {}
      /\ loading["update"].at = "none"
      /\ UNCHANGED <<tradingDay, afterClose, traded, core, calendarKnown, dailyBar, average, loading, loads,
                     passedOver, cutShort, off>>
  BY DEF MarketInv, ControlInv, LoadInv, TakeQuotes, clockVars, barVars, marketHistory
<1>3. mishaps' \in 0..Mishaps
  <2>1. mishaps \in 0..Mishaps
    BY DEF MarketInv, MarketTypeInv
  <2>2. CASE lost = {}
    BY <1>1, <2>1, <2>2, FS_EmptySet
  <2>3. CASE lost # {}
    <3>1. mishaps > 0 /\ \E c : lost = {c}
      BY <1>1, <2>3
    <3>2. Cardinality(lost) = 1
      BY <3>1, FS_Singleton
    <3> QED
      BY <1>1, <2>1, <3>1, <3>2, MarketConstants
  <2> QED
    BY <2>2, <2>3
<1> DEFINE todo == good \ lost
           gaps == Instruments \ todo
<1>4. UpdateIs("previous", todo, update.code, gaps, update.dirty)
  <2>1. todo \subseteq Instruments
    BY <1>2
  <2>2. update' = [update EXCEPT !.at = "previous", !.todo = todo, !.gaps = gaps]
    BY <1>1, <1>2
  <2>3. update \in UpdateType
    BY DEF MarketInv, MarketTypeInv
  <2> HIDE DEF todo, good
  <2> QED
    BY <2>1, <2>2, <2>3 DEF UpdateIs, UpdateType
<1>5. update.day # tradingDay => todo = {}
  BY <1>1
<1> HIDE DEF todo, good
<1>6. MarketTypeInv' /\ CalendarInv' /\ LoadInv' /\ GotInv' /\ HolesAreAccounted' /\ FreshInv'
  BY <1>2, <1>3, <1>4, UpdateAlone
<1>7. ControlInv'
  BY <1>2, <1>4, <1>5 DEF MarketInv, ControlInv, UpdateIs
<1>8. BehindInv' /\ AccountInv'
  BY <1>2, <1>4 DEF BehindInv, AccountInv, UpdateIs
<1> QED
  BY <1>6, <1>7, <1>8 DEF MarketInv

LEMMA ReadPreviousKeeps == ASSUME MarketInv, NEW c \in Instruments, ReadPrevious(c) PROVE MarketInv'
<1> DEFINE todo == update.todo \ {c}
<1>0. PICK prev : prev = LatestBar(c, update.day)
  OBVIOUS
<1>1. /\ update.at = "previous" /\ update.mode = "snapshot" /\ c \in update.todo /\ update.day = tradingDay
      /\ loading["update"].at = "none" /\ update \in UpdateType /\ loading \in [Loaders -> LoadType]
      /\ "update" \in Loaders /\ update.day \in Dates
      /\ UNCHANGED <<tradingDay, afterClose, traded, core, calendarKnown, dailyBar, average, loads, mishaps,
                     passedOver, cutShort, off>>
  BY DEF MarketInv, MarketTypeInv, UpdateType, ControlInv, LoadInv, ReadPrevious, clockVars, barVars, marketHistory, Loaders
<1>2. PICK jumped \in BOOLEAN :
             IF NeedsReload(prev, update.day, jumped) /\ c \in update.cared
               THEN /\ loading' = [loading EXCEPT !["update"] =
                          [NoLoad EXCEPT !.at = "fetch", !.code = c, !.from = prev + 1, !.to = update.day, !.marks = TRUE]]
                    /\ update' = [update EXCEPT !.at = "reload", !.todo = @ \ {c}, !.code = c]
               ELSE /\ update' = [update EXCEPT !.at = "append", !.todo = @ \ {c}, !.code = c]
                    /\ UNCHANGED loading
  BY <1>0 DEF ReadPrevious
<1>3. /\ prev \in 0..(update.day - 1)
      /\ prev # 0 => Has(c, prev) /\ prev \in Dates
  BY <1>0, <1>1, LatestIs
<1>4. todo \subseteq Instruments
  BY <1>1 DEF UpdateType
<1>5. CASE NeedsReload(prev, update.day, jumped) /\ c \in update.cared
  <2>1. UpdateIs("reload", todo, c, update.gaps, update.dirty)
    <3>1. update' = [update EXCEPT !.at = "reload", !.todo = todo, !.code = c]
      BY <1>2, <1>5
    <3> HIDE DEF todo
    <3> QED
      BY <1>1, <1>4, <3>1 DEF UpdateIs, UpdateType
  <2>2. prev + 1 \in Dates
    <3>1. update.day \in Nat \ {0}
      BY <1>1, MarketConstants
    <3>2. prev + 1 \in Nat \ {0} /\ prev + 1 <= update.day
      BY <1>3, <3>1
    <3> QED
      BY <1>1, <3>2, MarketConstants
  <2>3. PICK l : loading' = [loading EXCEPT !["update"] = l] /\ Begun("fetch", c, prev + 1, update.day, l)
    BY <1>1, <1>2, <1>5, <2>2, FetchBegins
  <2>4. LoadIs("update", l)
    BY <1>1, <2>3 DEF LoadIs, Begun
  <2> HIDE DEF todo
  <2>5. MarketTypeInv'
    BY <1>1, <2>1, <2>4 DEF MarketInv, MarketTypeInv, UpdateIs, LoadIs
  <2>6. CalendarInv' /\ HolesAreAccounted'
    BY <1>1, CalendarFrame, HolesFrame DEF MarketInv
  <2>7. GotInv'
    BY <1>1, <2>3, <2>4, GotFrame DEF MarketInv, LoadIs, Begun
  <2>8. ControlInv'
    BY <1>1, <2>1 DEF MarketInv, ControlInv, UpdateIs
  <2>9. LoadInv'
    BY <1>1, <2>1, <2>3, <2>4 DEF MarketInv, LoadInv, UpdateIs, LoadIs, Begun
  <2>10. BehindInv'
    <3>1. update'.at = "reload" /\ update'.code = c /\ update'.day = update.day /\ dailyBar' = dailyBar
      BY <1>1, <2>1 DEF UpdateIs
    <3>2. loading'["update"].to = update.day /\ loading'["update"].from = prev + 1
      BY <2>3, <2>4 DEF LoadIs, Begun
    <3>3. prev + 1 # 1 => prev + 1 - 1 = prev /\ prev \in Dates /\ Has(c, prev)
      BY <1>3
    <3>4. PICK from : from = prev + 1
      OBVIOUS
    <3>5. from # 1 => from - 1 \in Dates /\ dailyBar'[c][from - 1] # "none"
      <4>1. from # 1 => from - 1 = prev /\ prev \in Dates
        BY <1>3, <3>3, <3>4
      <4> QED
        BY <3>1, <3>3, <3>4, <4>1 DEF Has
    <3>6. loading'["update"].from = from
      BY <3>2, <3>4
    <3> QED
      BY <3>1, <3>2, <3>5, <3>6 DEF BehindInv, Has
  <2>11. AccountInv'
    BY <1>1, <2>1, <2>3, <2>4 DEF MarketInv, AccountInv, UpdateIs, LoadIs, Begun, todo
  <2>12. FreshInv'
    <3>1. Excused' = Excused
      BY <1>1, <2>1 DEF Excused, UpdateIs
    <3>2. \A a \in Loaders : loading'[a] = loading[a] \/ loading[a].at \notin {"read", "write"}
      BY <1>1, <2>4 DEF LoadIs
    <3> QED
      BY <1>1, <3>1, <3>2, FreshLoads DEF MarketInv
  <2> QED
    BY <2>5, <2>6, <2>7, <2>8, <2>9, <2>10, <2>11, <2>12 DEF MarketInv
<1>6. CASE ~(NeedsReload(prev, update.day, jumped) /\ c \in update.cared)
  <2>1. UpdateIs("append", todo, c, update.gaps, update.dirty) /\ loading' = loading
    <3>1. update' = [update EXCEPT !.at = "append", !.todo = todo, !.code = c] /\ loading' = loading
      BY <1>2, <1>6
    <3> HIDE DEF todo
    <3> QED
      BY <1>1, <1>4, <3>1 DEF UpdateIs, UpdateType
  <2>2. mishaps' \in 0..Mishaps
    BY <1>1 DEF MarketInv, MarketTypeInv
  <2> HIDE DEF todo
  <2>3. MarketTypeInv' /\ CalendarInv' /\ LoadInv' /\ GotInv' /\ HolesAreAccounted' /\ FreshInv'
    BY <1>1, <2>1, <2>2, UpdateAlone
  <2>4. ControlInv'
    BY <1>1, <2>1 DEF MarketInv, ControlInv, UpdateIs
  <2>5. c \in update.cared /\ calendarKnown => update.day - 1 \in Dates /\ Has(c, update.day - 1)
    BY <1>3, <1>6 DEF NeedsReload
  <2>6. BehindInv'
    BY <1>1, <2>1, <2>5 DEF BehindInv, UpdateIs, Has
  <2>7. AccountInv'
    BY <1>1, <2>1 DEF MarketInv, AccountInv, UpdateIs, todo
  <2> QED
    BY <2>3, <2>4, <2>6, <2>7 DEF MarketInv
<1> QED
  BY <1>5, <1>6

LEMMA AppendRefusedKeeps == ASSUME MarketInv, AppendRefused PROVE MarketInv'
<1>1. /\ update.at = "append" /\ update.mode = "snapshot" /\ update.day = tradingDay /\ update.code \in Instruments
      /\ loading["update"].at = "none" /\ update \in UpdateType
      /\ UNCHANGED <<tradingDay, afterClose, traded, core, calendarKnown, dailyBar, average, loading, loads,
                     passedOver, cutShort, off>>
  BY DEF MarketInv, MarketTypeInv, ControlInv, LoadInv, AppendRefused, clockVars, barVars, marketHistory
<1>2. mishaps' \in 0..Mishaps
  BY MarketConstants DEF MarketInv, MarketTypeInv, AppendRefused
<1> DEFINE gaps == update.gaps \cup {update.code}
<1>3. UpdateIs("previous", update.todo, "none", gaps, update.dirty)
  BY <1>1 DEF AppendRefused, UpdateIs, UpdateType
<1> HIDE DEF gaps
<1>4. MarketTypeInv' /\ CalendarInv' /\ LoadInv' /\ GotInv' /\ HolesAreAccounted' /\ FreshInv'
  BY <1>1, <1>2, <1>3, UpdateAlone
<1>5. ControlInv' /\ BehindInv'
  BY <1>1, <1>3 DEF MarketInv, ControlInv, BehindInv, UpdateIs
<1>6. AccountInv'
  BY <1>1, <1>3 DEF MarketInv, AccountInv, UpdateIs, gaps
<1> QED
  BY <1>4, <1>5, <1>6 DEF MarketInv

LEMMA FindMissingKeeps == ASSUME MarketInv, FindMissing PROVE MarketInv'
<1>1. /\ update.at = "missing" /\ update.mode = "historical" /\ update.todo = update.cared
      /\ loading["update"].at = "none" /\ update \in UpdateType
      /\ UNCHANGED <<tradingDay, afterClose, traded, core, calendarKnown, dailyBar, average, loading, loads, mishaps,
                     passedOver, cutShort, off>>
  BY DEF MarketInv, MarketTypeInv, ControlInv, LoadInv, FindMissing, clockVars, barVars, marketHistory
<1> DEFINE lacking == {c \in update.todo : ~Has(c, update.day)}
<1>2. UpdateIs("backfill", lacking, update.code, update.gaps, lacking)
  BY <1>1 DEF FindMissing, UpdateIs, UpdateType
<1>3. MarketTypeInv'
  BY <1>1, <1>2 DEF MarketInv, MarketTypeInv, UpdateIs
<1>4. CalendarInv' /\ HolesAreAccounted' /\ GotInv'
  BY <1>1, CalendarFrame, HolesFrame, GotFrame DEF MarketInv
<1>5. ControlInv' /\ BehindInv' /\ LoadInv'
  BY <1>1, <1>2 DEF MarketInv, ControlInv, BehindInv, LoadInv, UpdateIs
<1>6. AccountInv'
  BY <1>1, <1>2 DEF AccountInv, UpdateIs, Has
<1>7. FreshInv'
  BY <1>1, <1>2, FreshSame DEF MarketInv, Excused, UpdateIs
<1> QED
  BY <1>3, <1>4, <1>5, <1>6, <1>7 DEF MarketInv

LEMMA RecheckMissingKeeps == ASSUME MarketInv, RecheckMissing PROVE MarketInv'
<1>1. /\ update.at = "backfill" /\ update.mode = "historical"
      /\ loading["update"].at = "none" /\ update \in UpdateType
      /\ UNCHANGED <<tradingDay, afterClose, traded, core, calendarKnown, dailyBar, average, loading, loads, mishaps,
                     passedOver, cutShort, off>>
  BY DEF MarketInv, MarketTypeInv, ControlInv, LoadInv, RecheckMissing, clockVars, barVars, marketHistory
<1> DEFINE gaps == update.gaps \cup StillMissing(update.dirty, update.day)
<1>2. UpdateIs("done", update.todo, update.code, gaps, {})
  BY <1>1 DEF RecheckMissing, UpdateIs, UpdateType, StillMissing
<1>3. MarketTypeInv'
  BY <1>1, <1>2 DEF MarketInv, MarketTypeInv, UpdateIs
<1>4. CalendarInv' /\ HolesAreAccounted' /\ GotInv'
  BY <1>1, CalendarFrame, HolesFrame, GotFrame DEF MarketInv
<1>5. ControlInv' /\ BehindInv' /\ LoadInv'
  BY <1>1, <1>2 DEF MarketInv, ControlInv, BehindInv, LoadInv, UpdateIs
<1>6. AccountInv'
  <2>1. \A c \in update.cared : Has(c, update.day) \/ c \in update.dirty
    BY <1>1 DEF MarketInv, AccountInv
  <2>2. \A c \in update.cared : Has(c, update.day) \/ c \in gaps
    BY <2>1 DEF StillMissing
  <2> QED
    BY <1>1, <1>2, <2>2 DEF AccountInv, UpdateIs, Has
<1>7. FreshInv'
  BY <1>1, <1>2, FreshSame DEF MarketInv, Excused, UpdateIs
<1> QED
  BY <1>3, <1>4, <1>5, <1>6, <1>7 DEF MarketInv

LEMMA AverageNextKeeps == ASSUME MarketInv, AverageNext PROVE MarketInv'
<1>1. /\ update.at = "previous" /\ update.mode = "snapshot" /\ update.todo = {}
      /\ update.day = tradingDay \/ update.dirty = {}
      /\ loading["update"].at = "none" /\ update \in UpdateType /\ loading \in [Loaders -> LoadType]
      /\ "update" \in Loaders
      /\ UNCHANGED <<tradingDay, afterClose, traded, core, calendarKnown, dailyBar, average, loads, mishaps,
                     passedOver, cutShort, off>>
  BY DEF MarketInv, MarketTypeInv, ControlInv, LoadInv, AverageNext, clockVars, barVars, marketHistory, Loaders
<1>2. CASE update.dirty = {}
  <2>1. UpdateIs("done", update.todo, update.code, update.gaps, update.dirty) /\ loading' = loading
    BY <1>1, <1>2 DEF AverageNext, UpdateIs, UpdateType
  <2>2. mishaps' \in 0..Mishaps
    BY <1>1 DEF MarketInv, MarketTypeInv
  <2>3. MarketTypeInv' /\ CalendarInv' /\ LoadInv' /\ GotInv' /\ HolesAreAccounted' /\ FreshInv'
    BY <1>1, <2>1, <2>2, UpdateAlone
  <2>4. ControlInv' /\ BehindInv' /\ AccountInv'
    BY <1>1, <1>2, <2>1 DEF MarketInv, ControlInv, BehindInv, AccountInv, UpdateIs
  <2> QED
    BY <2>3, <2>4 DEF MarketInv
<1>3. CASE update.dirty # {}
  <2>1. PICK c \in update.dirty :
          /\ update' = [update EXCEPT !.at = "averages", !.dirty = @ \ {c}, !.code = c]
          /\ loading' = [loading EXCEPT !["update"] = [NoLoad EXCEPT !.at = "read", !.code = c]]
    BY <1>3 DEF AverageNext
  <2>2. c \in Instruments /\ update.day = tradingDay
    BY <1>1, <1>3 DEF UpdateType
  <2> DEFINE dirty == update.dirty \ {c}
  <2>3. UpdateIs("averages", update.todo, c, update.gaps, dirty)
    <3>1. update' = [update EXCEPT !.at = "averages", !.dirty = dirty, !.code = c] /\ dirty \subseteq Instruments
      BY <1>1, <2>1 DEF UpdateType
    <3> HIDE DEF dirty
    <3> QED
      BY <1>1, <2>2, <3>1 DEF UpdateIs, UpdateType
  <2>4. PICK l \in LoadType : loading' = [loading EXCEPT !["update"] = l] /\ l.at = "read" /\ l.code = c /\ l.got = {}
    BY <2>1, <2>2, FetchBegins, MarketConstants
  <2>5. LoadIs("update", l)
    BY <1>1, <2>4 DEF LoadIs
  <2>6. MarketTypeInv'
    BY <1>1, <2>3, <2>5 DEF MarketInv, MarketTypeInv, UpdateIs, LoadIs
  <2>7. CalendarInv' /\ HolesAreAccounted'
    BY <1>1, CalendarFrame, HolesFrame DEF MarketInv
  <2>8. GotInv'
    BY <1>1, <2>4, <2>5, GotFrame DEF MarketInv, LoadIs
  <2>9. ControlInv'
    BY <1>1, <2>2, <2>3 DEF MarketInv, ControlInv, UpdateIs
  <2>10. LoadInv'
    BY <1>1, <2>2, <2>3, <2>4, <2>5 DEF MarketInv, LoadInv, UpdateIs, LoadIs
  <2>11. BehindInv'
    BY <2>3, <2>4, <2>5 DEF BehindInv, UpdateIs, LoadIs
  <2>12. AccountInv'
    BY <1>1, <2>3 DEF MarketInv, AccountInv, UpdateIs
  <2>13. FreshInv'
    <3>1. \A k \in Instruments : StaleDays(k)' = StaleDays(k)
      BY <1>1 DEF StaleDays, WindowOf
    <3>2. \A k \in Instruments, a \in Loaders : SeesTo(a, k) => SeesTo(a, k)'
      BY <1>1, <2>5, <3>1 DEF SeesTo, LoadIs
    <3>3. SeesTo("update", c)'
      BY <2>4, <2>5 DEF SeesTo, LoadIs
    <3>4. \A k \in Instruments \ Excused' : k \notin Excused \/ k = c
      BY <1>1, <2>3 DEF Excused, UpdateIs
    <3> QED
      BY <1>1, <3>2, <3>3, <3>4, FreshFrame DEF MarketInv
  <2> QED
    BY <2>6, <2>7, <2>8, <2>9, <2>10, <2>11, <2>12, <2>13 DEF MarketInv
<1> QED
  BY <1>2, <1>3

LEMMA BackfillNextKeeps == ASSUME MarketInv, NEW c \in Instruments, BackfillNext(c) PROVE MarketInv'
<1> DEFINE todo == update.todo \ {c}
<1>1. /\ update.at = "backfill" /\ update.mode = "historical" /\ update.day \in Dates
      /\ loading["update"].at = "none" /\ update \in UpdateType /\ loading \in [Loaders -> LoadType]
      /\ "update" \in Loaders /\ todo \subseteq Instruments
      /\ UNCHANGED <<tradingDay, afterClose, traded, core, calendarKnown, dailyBar, average, loads, mishaps,
                     passedOver, cutShort, off>>
  BY DEF MarketInv, MarketTypeInv, UpdateType, ControlInv, LoadInv, BackfillNext, clockVars, barVars, marketHistory, Loaders
<1>2. UpdateIs("reload", todo, c, update.gaps, update.dirty)
  <2>1. update' = [update EXCEPT !.at = "reload", !.todo = todo, !.code = c]
    BY DEF BackfillNext
  <2> HIDE DEF todo
  <2> QED
    BY <1>1, <2>1 DEF UpdateIs, UpdateType
<1>3. PICK l : loading' = [loading EXCEPT !["update"] = l] /\ Begun("fetch", c, 1, update.day, l)
  BY <1>1, FetchBegins DEF BackfillNext
<1>4. LoadIs("update", l)
  BY <1>1, <1>3 DEF LoadIs, Begun
<1> HIDE DEF todo
<1>5. MarketTypeInv'
  BY <1>1, <1>2, <1>4 DEF MarketInv, MarketTypeInv, UpdateIs, LoadIs
<1>6. CalendarInv' /\ HolesAreAccounted'
  BY <1>1, CalendarFrame, HolesFrame DEF MarketInv
<1>7. GotInv'
  BY <1>1, <1>3, <1>4, GotFrame DEF MarketInv, LoadIs, Begun
<1>8. ControlInv'
  BY <1>1, <1>2 DEF MarketInv, ControlInv, UpdateIs
<1>9. LoadInv'
  BY <1>1, <1>2, <1>3, <1>4 DEF MarketInv, LoadInv, UpdateIs, LoadIs, Begun
<1>10. BehindInv'
  BY <1>1, <1>2 DEF BehindInv, UpdateIs
<1>11. AccountInv'
  BY <1>1, <1>2 DEF MarketInv, AccountInv, UpdateIs, Has
<1>12. FreshInv'
  <2>1. Excused' = Excused
    BY <1>1, <1>2 DEF Excused, UpdateIs
  <2>2. \A a \in Loaders : loading'[a] = loading[a] \/ loading[a].at \notin {"read", "write"}
    BY <1>1, <1>4 DEF LoadIs
  <2> QED
    BY <1>1, <2>1, <2>2, FreshLoads DEF MarketInv
<1> QED
  BY <1>5, <1>6, <1>7, <1>8, <1>9, <1>10, <1>11, <1>12 DEF MarketInv

LEMMA LoadOutsideKeeps ==
    ASSUME MarketInv, NEW c \in Instruments, NEW from \in Dates, NEW to \in Dates, LoadOutside(c, from, to)
    PROVE  MarketInv'
<1>1. /\ loading["outside"].at = "none" /\ loading \in [Loaders -> LoadType]
      /\ "outside" \in Loaders /\ "update" \in Loaders
      /\ UNCHANGED <<tradingDay, afterClose, traded, core, calendarKnown, dailyBar, average, update, mishaps,
                     passedOver, cutShort, off>>
  BY DEF MarketInv, MarketTypeInv, LoadOutside, clockVars, barVars, marketHistory, Loaders
<1>2. loads' \in 0..Loads
  BY MarketConstants DEF MarketInv, MarketTypeInv, LoadOutside
<1>3. PICK l : loading' = [loading EXCEPT !["outside"] = l] /\ Begun("fetch", c, from, to, l)
  BY FetchBegins DEF LoadOutside
<1>4. LoadIs("outside", l) /\ loading'["update"] = loading["update"]
  BY <1>1, <1>3 DEF LoadIs, Begun
<1>5. MarketTypeInv'
  BY <1>1, <1>2, <1>4 DEF MarketInv, MarketTypeInv, LoadIs
<1>6. CalendarInv' /\ HolesAreAccounted'
  BY <1>1, CalendarFrame, HolesFrame DEF MarketInv
<1>7. GotInv'
  BY <1>1, <1>3, <1>4, GotFrame DEF MarketInv, LoadIs, Begun
<1>8. ControlInv'
  BY <1>1 DEF MarketInv, ControlInv
<1>9. LoadInv'
  BY <1>1, <1>3, <1>4 DEF MarketInv, LoadInv, LoadIs, Begun
<1>10. BehindInv' /\ AccountInv'
  BY <1>1, <1>4 DEF MarketInv, BehindInv, AccountInv, Has
<1>11. FreshInv'
  <2>1. Excused' = Excused
    BY <1>1 DEF Excused
  <2>2. \A a \in Loaders : loading'[a] = loading[a] \/ loading[a].at \notin {"read", "write"}
    BY <1>1, <1>4 DEF LoadIs
  <2> QED
    BY <1>1, <2>1, <2>2, FreshLoads DEF MarketInv
<1> QED
  BY <1>5, <1>6, <1>7, <1>8, <1>9, <1>10, <1>11 DEF MarketInv

-----------------------------------------------------------------------------
(* The loads.                                                              *)

\* What LoadEnds makes of the update.
AfterLoad(failed) ==
    UpdateIs(IF update.mode = "snapshot" THEN "previous" ELSE "backfill", update.todo, "none",
             IF failed THEN update.gaps \cup {update.code} ELSE update.gaps,
             IF update.at = "reload" /\ ~failed THEN update.dirty \cup {update.code} ELSE update.dirty)

LEMMA LoadEndsIs ==
    ASSUME MarketInv, NEW a \in Loaders, loading[a].at # "none", NEW failed \in BOOLEAN, LoadEnds(a, failed)
    PROVE  /\ LoadIs(a, NoLoad)
           /\ a = "outside" => update' = update
           /\ a = "update" => AfterLoad(failed)
<1>1. update \in UpdateType /\ loading \in [Loaders -> LoadType]
  BY DEF MarketInv, MarketTypeInv
<1>2. LoadIs(a, NoLoad)
  BY <1>1, NoLoadIs DEF LoadEnds, LoadIs
<1>3. a = "outside" => update' = update
  BY DEF LoadEnds
<1>4. ASSUME a = "update" PROVE AfterLoad(failed)
  <2>1. update.code \in Instruments
    BY <1>4 DEF MarketInv, LoadInv, ControlInv
  <2> DEFINE at == IF update.mode = "snapshot" THEN "previous" ELSE "backfill"
             gaps == IF failed THEN update.gaps \cup {update.code} ELSE update.gaps
             dirty == IF update.at = "reload" /\ ~failed THEN update.dirty \cup {update.code} ELSE update.dirty
  <2>2. update' = [update EXCEPT !.at = at, !.code = "none", !.gaps = gaps, !.dirty = dirty]
    BY <1>4 DEF LoadEnds
  <2>3. at \in {"previous", "backfill"} /\ gaps \subseteq Instruments /\ dirty \subseteq Instruments
    BY <1>1, <2>1 DEF UpdateType
  <2> HIDE DEF at, gaps, dirty
  <2>4. UpdateIs(at, update.todo, "none", gaps, dirty)
    BY <1>1, <2>2, <2>3 DEF UpdateIs, UpdateType
  <2> QED
    BY <2>4 DEF AfterLoad, at, gaps, dirty
<1> QED
  BY <1>2, <1>3, <1>4

\* A load is over, well or not: the codes that were averaged are off if they
\* were left in the middle, what was reloaded is accounted for or a gap.
LEMMA LoadIsOver ==
    ASSUME MarketInv, NEW a \in Loaders, loading[a].at # "none", NEW failed \in BOOLEAN, LoadEnds(a, failed),
           UNCHANGED <<tradingDay, afterClose, traded, core, calendarKnown, dailyBar, average, loads,
                       passedOver, cutShort>>,
           mishaps' \in 0..Mishaps, off \subseteq off', off' \subseteq Instruments,
           ~failed => loading[a].at = "write" /\ loading[a].rows = {},
           failed => (loading[a].at \in {"read", "write"} => loading[a].code \in off')
    PROVE  MarketInv'
<1>1. LoadIs(a, NoLoad) /\ (a = "outside" => update' = update) /\ (a = "update" => AfterLoad(failed))
  BY LoadEndsIs
<1>2. Loaders = {"update", "outside"} /\ update \in UpdateType /\ loading \in [Loaders -> LoadType]
  BY DEF Loaders, MarketInv, MarketTypeInv
<1>3. /\ update' \in UpdateType /\ update'.day = update.day /\ update'.mode = update.mode /\ update'.cared = update.cared
      /\ update'.todo = update.todo /\ update.gaps \subseteq update'.gaps /\ update.dirty \subseteq update'.dirty
  BY <1>1, <1>2 DEF AfterLoad, UpdateIs
<1>4. a = "update" => /\ update'.at = IF update.mode = "snapshot" THEN "previous" ELSE "backfill"
                      /\ failed => update.code \in update'.gaps
                      /\ loading'["update"].at = "none"
                      /\ update.at \in {"reload", "averages"} /\ loading["update"].code = update.code
  BY <1>1, <1>2, NoLoadIs DEF AfterLoad, UpdateIs, LoadIs, MarketInv, LoadInv
<1>5. a = "outside" => loading'["update"] = loading["update"]
  BY <1>1, <1>2 DEF LoadIs
<1>6. MarketTypeInv'
  BY <1>1, <1>3 DEF MarketInv, MarketTypeInv, LoadIs
<1>7. CalendarInv' /\ HolesAreAccounted'
  BY CalendarFrame, HolesFrame DEF MarketInv
<1>8. GotInv'
  BY <1>1, NoLoadIs, GotFrame DEF MarketInv, LoadIs
<1>9. ControlInv'
  <2>1. CASE a = "outside"
    BY <1>1, <2>1 DEF MarketInv, ControlInv
  <2>2. CASE a = "update"
    <3>1. /\ update.mode = "snapshot" => update.day = tradingDay /\ (update.day < tradingDay \/ afterClose)
          /\ update.day <= tradingDay /\ update.mode \in {"snapshot", "historical"}
      BY <1>2, <1>4, <2>2 DEF MarketInv, ControlInv, UpdateType
    <3>2. /\ update'.at \in {"previous", "backfill"}
          /\ update'.at = "previous" <=> update.mode = "snapshot"
      BY <1>4, <2>2
    <3> QED
      BY <1>3, <3>1, <3>2 DEF ControlInv
  <2> QED
    BY <1>2, <2>1, <2>2
<1>10. LoadInv'
  <2>1. \A b \in Loaders : loading'[b] = loading[b] \/ loading'[b] = NoLoad
    BY <1>1 DEF LoadIs
  <2>2. CASE a = "outside"
    BY <1>1, <1>5, <2>1, <2>2, NoLoadIs DEF MarketInv, LoadInv
  <2>3. CASE a = "update"
    BY <1>4, <2>1, <2>3, NoLoadIs DEF MarketInv, LoadInv
  <2> QED
    BY <1>2, <2>2, <2>3
<1>11. BehindInv'
  <2>1. CASE a = "outside"
    BY <1>1, <1>5, <2>1 DEF MarketInv, BehindInv, Has
  <2>2. CASE a = "update"
    BY <1>3, <1>4, <2>2 DEF MarketInv, BehindInv
  <2> QED
    BY <1>2, <2>1, <2>2
<1>12. AccountInv'
  <2>1. CASE a = "outside"
    BY <1>1, <1>5, <2>1 DEF MarketInv, AccountInv, Has
  <2>2. CASE a = "update"
    <3>1. loading["update"].at \in {"fetch", "store"} => update.code \in update'.gaps
      BY <1>4, <2>2
    <3>2. update.mode = "snapshot" => \A c \in Instruments :
             c \in update'.todo \cup update'.gaps \cup cutShort' \/ dailyBar'[c][update'.day] = "final"
      BY <1>3, <1>4, <2>2, <3>1 DEF MarketInv, AccountInv
    <3>3. update.mode = "historical" => \A c \in update.cared : Has(c, update.day) \/ c \in update'.dirty
      <4>1. update.mode = "historical" => update.at = "reload"
        BY <1>4, <2>2 DEF MarketInv, ControlInv
      <4> QED
        BY <1>3, <4>1 DEF MarketInv, AccountInv
    <3>4. update'.mode = "snapshot" <=> ~(update'.mode = "historical")
      BY <1>3 DEF UpdateType
    <3> QED
      BY <1>3, <1>4, <2>2, <3>2, <3>3, <3>4 DEF AccountInv, Has
  <2> QED
    BY <1>2, <2>1, <2>2
<1>13. FreshInv'
  <2>1. Excused \subseteq Excused'
    BY <1>3 DEF Excused
  <2>2. \A c \in Instruments : StaleDays(c)' = StaleDays(c)
    BY DEF StaleDays, WindowOf
  <2>3. ASSUME NEW c \in Instruments \ Excused', NEW b \in Loaders, SeesTo(b, c)
        PROVE  StaleDays(c) = {} \/ SeesTo(b, c)'
    <3>1. CASE b # a
      BY <1>1, <2>2, <2>3, <3>1 DEF SeesTo, LoadIs
    <3>2. CASE b = a /\ failed
      BY <2>3, <3>2 DEF SeesTo, Excused
    <3>3. CASE b = a /\ ~failed
      BY <2>3, <3>3 DEF SeesTo
    <3> QED
      BY <3>1, <3>2, <3>3
  <2> QED
    BY <2>1, <2>3, FreshFrame DEF MarketInv
<1> QED
  BY <1>6, <1>7, <1>8, <1>9, <1>10, <1>11, <1>12, <1>13 DEF MarketInv

LEMMA FetchBarsKeeps == ASSUME MarketInv, NEW a \in Loaders, Fetch(a) PROVE MarketInv'
<1> DEFINE days == {d \in traded[loading[a].code] : d >= loading[a].from /\ d <= loading[a].to}
<1>1. PICK got \in {days, days \ {tradingDay}} :
             IF got = {} THEN LoadEnds(a, TRUE)
               ELSE loading' = [loading EXCEPT ![a].at = "store", ![a].got = {<<d, KindOn(d)>> : d \in got}]
                    /\ UNCHANGED update
  BY DEF Fetch
<1>2. /\ loading[a].at = "fetch" /\ loading[a] \in LoadType /\ loading \in [Loaders -> LoadType]
      /\ loading[a].code \in Instruments
      /\ UNCHANGED <<tradingDay, afterClose, traded, core, calendarKnown, dailyBar, average, loads, mishaps,
                     passedOver, cutShort, off>>
  BY DEF MarketInv, MarketTypeInv, LoadInv, Fetch, clockVars, barVars, marketHistory
<1>3. CASE got = {}
  <2>1. LoadEnds(a, TRUE) /\ loading[a].at \notin {"none", "read", "write"}
    BY <1>1, <1>2, <1>3
  <2>2. mishaps' \in 0..Mishaps /\ off \subseteq off' /\ off' \subseteq Instruments
    BY <1>2 DEF MarketInv, MarketTypeInv
  <2>3. PICK failed \in BOOLEAN : failed /\ LoadEnds(a, failed)
    BY <2>1
  <2>4. ~failed => loading[a].at = "write" /\ loading[a].rows = {}
    BY <2>3
  <2>5. failed => (loading[a].at \in {"read", "write"} => loading[a].code \in off')
    BY <2>1
  <2>6. loading[a].at # "none" /\ LoadEnds(a, failed)
    BY <2>1, <2>3
  <2> QED
    BY <1>2, <2>2, <2>4, <2>5, <2>6, LoadIsOver
<1>4. CASE got # {}
  <2> DEFINE G == {<<d, KindOn(d)>> : d \in got}
             l == [loading[a] EXCEPT !.at = "store", !.got = G]
  <2>1. update' = update /\ loading' = [loading EXCEPT ![a] = l]
    <3>1. update' = update /\ loading' = [loading EXCEPT ![a].at = "store", ![a].got = G]
      BY <1>1, <1>4
    <3> DEFINE k == [loading EXCEPT ![a].at = "store"]
    <3>2. k = [loading EXCEPT ![a] = [loading[a] EXCEPT !.at = "store"]]
      OBVIOUS
    <3>3. k[a] = [loading[a] EXCEPT !.at = "store"]
      BY <1>2, <3>2
    <3>4. loading' = [k EXCEPT ![a] = [k[a] EXCEPT !.got = G]]
      BY <3>1
    <3> HIDE DEF G
    <3>5. [k[a] EXCEPT !.got = G] = l
      BY <3>3
    <3> QED
      BY <3>1, <3>2, <3>4, <3>5
  <2>2. /\ \A d \in got : /\ d \in Dates /\ d <= tradingDay /\ KindOn(d) \in Kinds
                          /\ loading[a].from <= d /\ d <= loading[a].to
        /\ \A d \in got : KindOn(d) = "partial" => d = tradingDay /\ ~afterClose
    <3>1. \A d \in got : d \in traded[loading[a].code] /\ d \in Dates
      BY <1>2 DEF MarketInv, MarketTypeInv
    <3>2. tradingDay \in Nat /\ \A d \in got : d \in Nat /\ d <= tradingDay
      BY <1>2, <3>1, MarketConstants DEF MarketInv, MarketTypeInv, CalendarInv
    <3>3. loading[a].from \in Nat /\ \A d \in got : loading[a].from <= d /\ d <= loading[a].to
      BY <1>2, <3>2, MarketConstants DEF LoadType
    <3> QED
      BY <3>1, <3>2, <3>3 DEF KindOn, Kinds
  <2>3. /\ G \subseteq Dates \X Kinds
        /\ \A g \in G : /\ loading[a].from <= g[1] /\ g[1] <= loading[a].to /\ g[1] <= tradingDay
                        /\ g[2] = "partial" => g[1] = tradingDay /\ ~afterClose
        /\ \A d \in got : \E g \in G : g[1] = d
    <3>1. \A g \in G : \E d \in got : g = <<d, KindOn(d)>> /\ g[1] = d /\ g[2] = KindOn(d)
      OBVIOUS
    <3>2. \A d \in got : <<d, KindOn(d)>> \in G /\ <<d, KindOn(d)>>[1] = d
      OBVIOUS
    <3> HIDE DEF G
    <3>3. G \subseteq Dates \X Kinds
      BY <2>2, <3>1
    <3>4. \A g \in G : /\ loading[a].from <= g[1] /\ g[1] <= loading[a].to /\ g[1] <= tradingDay
                       /\ g[2] = "partial" => g[1] = tradingDay /\ ~afterClose
      BY <2>2, <3>1
    <3> QED
      BY <3>2, <3>3, <3>4
  <2> HIDE DEF G
  <2>4. /\ l \in LoadType /\ l.at = "store" /\ l.got = G /\ l.code = loading[a].code
        /\ l.from = loading[a].from /\ l.to = loading[a].to
    BY <1>2, <2>3 DEF LoadType
  <2> HIDE DEF l
  <2>5. LoadIs(a, l)
    BY <1>2, <2>1, <2>4 DEF LoadIs
  <2>6. MarketTypeInv'
    BY <1>2, <2>1, <2>5 DEF MarketInv, MarketTypeInv, LoadIs
  <2>7. CalendarInv' /\ HolesAreAccounted'
    BY <1>2, CalendarFrame, HolesFrame DEF MarketInv
  <2>8. GotInv'
    <3>1. ASSUME NEW d \in traded[l.code], l.from <= d, d <= l.to, d # tradingDay PROVE \E g \in l.got : g[1] = d
      <4>1. l.from \in Nat /\ d \in Nat
        BY <1>2, <2>4, <3>1, MarketConstants DEF LoadType, MarketInv, MarketTypeInv
      <4>2. d \in got
        BY <2>4, <3>1, <4>1
      <4> QED
        BY <2>3, <2>4, <4>2
    <3>2. \A g \in l.got : /\ l.from <= g[1] /\ g[1] <= l.to /\ g[1] <= tradingDay
                           /\ g[2] = "partial" => g[1] = tradingDay /\ ~afterClose
      BY <2>3, <2>4
    <3> QED
      BY <1>2, <2>5, <3>1, <3>2 DEF MarketInv, GotInv, LoadIs
  <2>9. ControlInv'
    BY <1>2, <2>1 DEF MarketInv, ControlInv
  <2>10. LoadInv'
    BY <1>2, <2>1, <2>4, <2>5 DEF MarketInv, LoadInv, LoadIs
  <2>11. /\ loading'["update"].to = loading["update"].to /\ loading'["update"].from = loading["update"].from
         /\ loading'["update"].at \in {"fetch", "store"} <=> loading["update"].at \in {"fetch", "store"}
    BY <1>2, <2>4, <2>5 DEF LoadIs, Loaders
  <2>12. BehindInv'
    BY <1>2, <2>1, <2>11 DEF MarketInv, BehindInv, Has
  <2>13. AccountInv'
    BY <1>2, <2>1, <2>11 DEF MarketInv, AccountInv, Has
  <2>14. FreshInv'
    <3>1. Excused' = Excused
      BY <1>2, <2>1 DEF Excused
    <3>2. \A b \in Loaders : loading'[b] = loading[b] \/ loading[b].at \notin {"read", "write"}
      BY <1>2, <2>5 DEF LoadIs
    <3> QED
      BY <1>2, <3>1, <3>2, FreshLoads DEF MarketInv
  <2> QED
    BY <2>6, <2>7, <2>8, <2>9, <2>10, <2>12, <2>13, <2>14 DEF MarketInv
<1> QED
  BY <1>3, <1>4

LEMMA AveragesDoneKeeps == ASSUME MarketInv, NEW a \in Loaders, AveragesDone(a) PROVE MarketInv'
<1>1. /\ loading[a].at = "write" /\ loading[a].rows = {} /\ LoadEnds(a, FALSE)
      /\ UNCHANGED <<tradingDay, afterClose, traded, core, calendarKnown, dailyBar, average, loads, mishaps,
                     passedOver, cutShort, off>>
  BY DEF AveragesDone, clockVars, barVars, marketHistory
<1>2. mishaps' \in 0..Mishaps /\ off \subseteq off' /\ off' \subseteq Instruments
  BY <1>1 DEF MarketInv, MarketTypeInv
<1> QED
  BY <1>1, <1>2, LoadIsOver

LEMMA LoadFailsKeeps == ASSUME MarketInv, NEW a \in Loaders, LoadFails(a) PROVE MarketInv'
<1>1. /\ loading[a].at # "none" /\ LoadEnds(a, TRUE)
      /\ off' = IF loading[a].at \in {"read", "write"} THEN off \cup {loading[a].code} ELSE off
      /\ UNCHANGED <<tradingDay, afterClose, traded, core, calendarKnown, dailyBar, average, loads,
                     passedOver, cutShort>>
  BY DEF LoadFails, clockVars, barVars
<1>2. mishaps' \in 0..Mishaps
  BY MarketConstants DEF MarketInv, MarketTypeInv, LoadFails
<1>3. off \subseteq off' /\ off' \subseteq Instruments
  BY <1>1 DEF MarketInv, MarketTypeInv, LoadInv
<1>4. PICK failed \in BOOLEAN : failed /\ LoadEnds(a, failed)
  BY <1>1
<1>5. ~failed => loading[a].at = "write" /\ loading[a].rows = {}
  BY <1>4
<1>6. failed => (loading[a].at \in {"read", "write"} => loading[a].code \in off')
  BY <1>1
<1>7. loading[a].at # "none" /\ LoadEnds(a, failed)
  BY <1>1, <1>4
<1> QED
  BY <1>1, <1>2, <1>3, <1>5, <1>6, <1>7, LoadIsOver

LEMMA StaleIs ==
    ASSUME NEW c
    PROVE  StaleDays(c)' = {d \in Dates : average'[c][d] # WindowOf(dailyBar'[c], d)}
BY DEF StaleDays, WindowOf

LEMMA ReadBarsKeeps == ASSUME MarketInv, BlankInv, NEW a \in Loaders, ReadBars(a) PROVE MarketInv'
<1> DEFINE code == loading[a].code
           rows == {d \in Dates : Has(code, d) /\ average[code][d] # WindowOf(dailyBar[code], d)}
           seen == dailyBar[code]
           l == [loading[a] EXCEPT !.at = "write", !.seen = seen, !.rows = rows]
<1>1. /\ loading[a].at = "read" /\ loading[a] \in LoadType /\ loading \in [Loaders -> LoadType] /\ loading[a].got = {}
      /\ code \in Instruments /\ seen \in BarRow /\ off' = off \ {code}
      /\ UNCHANGED <<tradingDay, afterClose, traded, core, calendarKnown, dailyBar, average, update, loads, mishaps,
                     passedOver, cutShort>>
  BY DEF MarketInv, MarketTypeInv, LoadInv, ReadBars, clockVars, barVars
<1>2. loading' = [loading EXCEPT ![a] = l]
  <2>1. loading' = [loading EXCEPT ![a].at = "write", ![a].seen = seen, ![a].rows = rows]
    BY DEF ReadBars
  <2> HIDE DEF seen, rows, code
  <2>2. [loading EXCEPT ![a].at = "write", ![a].seen = seen, ![a].rows = rows] = [loading EXCEPT ![a] = l]
    <3> DEFINE k == [loading EXCEPT ![a].at = "write"]
               m == [k EXCEPT ![a].seen = seen]
    <3>1. k[a] = [loading[a] EXCEPT !.at = "write"] /\ k \in [Loaders -> LoadType]
      BY <1>1 DEF LoadType
    <3>2. m[a] = [k[a] EXCEPT !.seen = seen]
      BY <3>1
    <3>3. [m EXCEPT ![a].rows = rows] = [m EXCEPT ![a] = [m[a] EXCEPT !.rows = rows]]
      OBVIOUS
    <3>4. [m[a] EXCEPT !.rows = rows] = l
      BY <3>1, <3>2
    <3>5. [m EXCEPT ![a] = l] = [loading EXCEPT ![a] = l]
      BY <1>1, <3>1
    <3>6. [loading EXCEPT ![a].at = "write", ![a].seen = seen, ![a].rows = rows] = [m EXCEPT ![a].rows = rows]
      OBVIOUS
    <3> QED
      BY <3>3, <3>4, <3>5, <3>6
  <2> QED
    BY <2>1, <2>2
<1>3. /\ l \in LoadType /\ l.at = "write" /\ l.code = loading[a].code /\ l.seen = dailyBar[l.code] /\ l.seen \in BarRow
      /\ l.got = {} /\ StaleDays(l.code) \subseteq l.rows
  <2>1. rows \subseteq Dates
    OBVIOUS
  <2>2. StaleDays(code) \subseteq rows
    <3>1. ASSUME NEW d \in Dates, ~Has(code, d) PROVE average[code][d] = WindowOf(dailyBar[code], d)
      BY <1>1, <3>1 DEF BlankInv, WindowOf, Has
    <3> QED
      BY <3>1 DEF StaleDays
  <2> HIDE DEF rows, seen, code
  <2> QED
    BY <1>1, <2>1, <2>2 DEF LoadType, seen, code
<1> HIDE DEF l
<1>4. LoadIs(a, l)
  BY <1>1, <1>2, <1>3 DEF LoadIs
<1>5. MarketTypeInv'
  BY <1>1, <1>4 DEF MarketInv, MarketTypeInv, LoadIs
<1>6. CalendarInv' /\ HolesAreAccounted'
  BY <1>1, CalendarFrame, HolesFrame DEF MarketInv
<1>7. GotInv'
  BY <1>1, <1>3, <1>4, GotFrame DEF MarketInv, LoadIs
<1>8. ControlInv'
  BY <1>1 DEF MarketInv, ControlInv
<1>9. LoadInv'
  <2>1. /\ loading'["update"].at # "none" => loading["update"].at # "none"
        /\ loading'["update"].code = loading["update"].code
        /\ loading'["update"].at \in {"fetch", "store"} => loading["update"].at \in {"fetch", "store"}
    BY <1>1, <1>3, <1>4 DEF LoadIs, Loaders
  <2>2. \A b \in Loaders : loading'[b] = loading[b] \/ loading'[b] = l
    BY <1>4 DEF LoadIs
  <2>3. l.at = "write" /\ l.code \in Instruments /\ l.seen \in BarRow /\ l.got = {}
    BY <1>1, <1>3
  <2> QED
    BY <1>1, <2>1, <2>2, <2>3 DEF MarketInv, LoadInv
<1>10. loading'["update"].at \in {"fetch", "store"} => loading'["update"] = loading["update"]
  BY <1>3, <1>4 DEF LoadIs, Loaders
<1>11. loading["update"].at \in {"fetch", "store"} => loading'["update"] = loading["update"]
  BY <1>1, <1>4 DEF LoadIs, Loaders
<1>12. BehindInv' /\ AccountInv'
  BY <1>1, <1>10, <1>11 DEF MarketInv, BehindInv, AccountInv, Has
<1>13. FreshInv'
  <2>1. \A c \in Instruments : StaleDays(c)' = StaleDays(c)
    BY <1>1 DEF StaleDays, WindowOf
  <2> PICK mine : mine = loading[a].code
    OBVIOUS
  <2>2. SeesTo(a, mine)'
    BY <1>1, <1>3, <1>4, <2>1 DEF SeesTo, LoadIs
  <2>3. \A c \in Instruments \ Excused' : c \notin Excused \/ \E b \in Loaders : SeesTo(b, c)'
    <3>1. \A c \in Instruments \ Excused' : c # mine => c \notin Excused
      BY <1>1 DEF Excused
    <3> QED
      BY <2>2, <3>1
  <2>4. ASSUME NEW c \in Instruments, NEW b \in Loaders, SeesTo(b, c) PROVE \E e \in Loaders : SeesTo(e, c)'
    <3>1. CASE b = a
      BY <2>2, <2>4, <3>1 DEF SeesTo
    <3>2. CASE b # a
      BY <1>1, <1>4, <2>1, <2>4, <3>2 DEF SeesTo, LoadIs
    <3> QED
      BY <3>1, <3>2
  <2> QED
    BY <1>1, <2>3, <2>4, FreshFrame DEF MarketInv
<1> QED
  BY <1>5, <1>6, <1>7, <1>8, <1>9, <1>12, <1>13 DEF MarketInv

LEMMA WriteAverageKeeps == ASSUME MarketInv, NEW a \in Loaders, WriteAverage(a) PROVE MarketInv'
<1>1. PICK d : d = Min(loading[a].rows)
  OBVIOUS
<1>2. PICK l : l = [loading[a] EXCEPT !.rows = loading[a].rows \ {d}]
  OBVIOUS
<1>3. PICK code : code = loading[a].code
  OBVIOUS
<1>4. PICK new : new = WindowOf(loading[a].seen, d)
  OBVIOUS
<1>5. /\ loading[a].at = "write" /\ loading[a] \in LoadType /\ loading \in [Loaders -> LoadType] /\ loading[a].got = {}
      /\ code \in Instruments /\ loading[a].seen \in BarRow /\ loading[a].rows \subseteq Dates /\ loading[a].rows # {}
      /\ UNCHANGED <<tradingDay, afterClose, traded, core, calendarKnown, dailyBar, update, loads, mishaps,
                     passedOver, cutShort>>
  BY <1>3 DEF MarketInv, MarketTypeInv, LoadInv, LoadType, WriteAverage, clockVars
<1>6. d \in loading[a].rows /\ d \in Dates
  BY <1>1, <1>5, MinOfDays
<1>7. /\ average' = [average EXCEPT ![code][d] = new]
      /\ off' = IF dailyBar[code] # loading[a].seen THEN off \cup {code} ELSE off
      /\ loading' = [loading EXCEPT ![a] = l]
  <2>1. /\ average' = [average EXCEPT ![loading[a].code][d] = WindowOf(loading[a].seen, d)]
        /\ off' = IF dailyBar[loading[a].code] # loading[a].seen THEN off \cup {loading[a].code} ELSE off
        /\ loading' = [loading EXCEPT ![a].rows = @ \ {d}]
    BY <1>1 DEF WriteAverage
  <2> QED
    BY <1>2, <1>3, <1>4, <2>1
<1>8. /\ l \in LoadType /\ l.at = "write" /\ l.code = code /\ l.seen = loading[a].seen /\ l.got = {}
      /\ l.rows = loading[a].rows \ {d}
  BY <1>2, <1>3, <1>5 DEF LoadType
<1>9. LoadIs(a, l)
  BY <1>5, <1>7, <1>8 DEF LoadIs
<1>10. new \subseteq Dates \X (Kinds \cup {"none"})
  <2> DEFINE days == {e \in Dates : loading[a].seen[e] # "none" /\ e <= d}
             last == {e \in days : Cardinality({f \in days : f >= e}) <= AverageOf}
  <2>1. new \subseteq {<<e, loading[a].seen[e]>> : e \in last}
    BY <1>4 DEF WindowOf
  <2>2. last \subseteq Dates
    OBVIOUS
  <2> HIDE DEF last
  <2>3. \A e \in last : loading[a].seen[e] \in Kinds \cup {"none"}
    BY <1>5, <2>2 DEF BarRow
  <2> QED
    BY <2>1, <2>2, <2>3
<1>11. MarketTypeInv'
  <2>1. average' \in [Instruments -> [Dates -> SUBSET (Dates \X (Kinds \cup {"none"}))]]
    <3> DEFINE S == SUBSET (Dates \X (Kinds \cup {"none"}))
    <3>1. new \in S /\ average \in [Instruments -> [Dates -> S]]
      BY <1>10 DEF MarketInv, MarketTypeInv
    <3> HIDE DEF S
    <3>2. average' \in [Instruments -> [Dates -> S]]
      BY <1>5, <1>6, <1>7, <3>1
    <3> QED
      BY <3>2 DEF S
  <2>2. off' \subseteq Instruments
    BY <1>5, <1>7 DEF MarketInv, MarketTypeInv
  <2> QED
    BY <1>5, <1>9, <2>1, <2>2 DEF MarketInv, MarketTypeInv, LoadIs
<1>12. CalendarInv' /\ HolesAreAccounted'
  BY <1>5, CalendarFrame, HolesFrame DEF MarketInv
<1>13. GotInv'
  BY <1>5, <1>8, <1>9, GotFrame DEF MarketInv, LoadIs
<1>14. ControlInv'
  BY <1>5 DEF MarketInv, ControlInv
<1>15. LoadInv'
  <2>1. /\ loading'["update"].at = loading["update"].at /\ loading'["update"].code = loading["update"].code
    BY <1>3, <1>5, <1>8, <1>9 DEF LoadIs, Loaders
  <2>2. \A b \in Loaders : loading'[b] = loading[b] \/ loading'[b] = l
    BY <1>9 DEF LoadIs
  <2>3. l.at = "write" /\ l.code \in Instruments /\ l.seen \in BarRow /\ l.got = {}
    BY <1>5, <1>8
  <2> QED
    BY <1>5, <2>1, <2>2, <2>3 DEF MarketInv, LoadInv
<1>16. /\ loading'["update"].at = loading["update"].at
       /\ loading["update"].at \in {"fetch", "store"} => loading'["update"] = loading["update"]
  BY <1>5, <1>8, <1>9 DEF LoadIs, Loaders
<1>17. BehindInv' /\ AccountInv'
  BY <1>5, <1>16 DEF MarketInv, BehindInv, AccountInv, Has
<1>18. FreshInv'
  <2>1. Excused \subseteq Excused'
    BY <1>5, <1>7 DEF Excused
  <2>2. \A c \in Instruments, e \in Dates :
           average'[c][e] = IF c = code /\ e = d THEN new ELSE average[c][e]
    BY <1>5, <1>6, <1>7 DEF MarketInv, MarketTypeInv
  <2>3. \A c \in Instruments \ {code} : StaleDays(c)' = StaleDays(c)
    <3> SUFFICES ASSUME NEW c \in Instruments \ {code} PROVE StaleDays(c)' = StaleDays(c)
      OBVIOUS
    <3>1. StaleDays(c)' = {e \in Dates : average'[c][e] # WindowOf(dailyBar[c], e)}
      BY <1>5, StaleIs
    <3> QED
      BY <2>2, <3>1 DEF StaleDays
  <2>4. dailyBar[code] = loading[a].seen => StaleDays(code)' \subseteq StaleDays(code) \ {d}
    <3>1. StaleDays(code)' = {e \in Dates : average'[code][e] # WindowOf(dailyBar[code], e)}
      BY <1>5, StaleIs
    <3> QED
      BY <1>4, <1>5, <1>6, <2>2, <3>1 DEF StaleDays
  <2> SUFFICES ASSUME NEW c \in Instruments \ Excused' PROVE StaleDays(c)' = {} \/ \E b \in Loaders : SeesTo(b, c)'
    BY DEF FreshInv
  <2>5. StaleDays(c) = {} \/ \E b \in Loaders : SeesTo(b, c)
    BY <2>1 DEF MarketInv, FreshInv
  <2>6. /\ StaleDays(c)' \subseteq StaleDays(c)
        /\ c = code => dailyBar[c] = loading[a].seen /\ d \notin StaleDays(c)'
    <3>1. c = code => dailyBar[c] = loading[a].seen
      BY <1>7 DEF Excused
    <3> QED
      BY <2>3, <2>4, <3>1
  <2>7. ASSUME NEW b \in Loaders, SeesTo(b, c) PROVE SeesTo(b, c)'
    <3>1. CASE b = a
      <4>1. c = code
        BY <1>3, <2>7, <3>1 DEF SeesTo
      <4>2. StaleDays(c)' \subseteq l.rows
        BY <1>5, <1>8, <2>6, <2>7, <3>1, <4>1 DEF SeesTo
      <4>3. l.seen = dailyBar'[c]
        BY <1>5, <1>8, <2>6, <4>1
      <4> QED
        BY <1>8, <1>9, <3>1, <4>1, <4>2, <4>3 DEF SeesTo, LoadIs
    <3>2. CASE b # a
      BY <1>5, <1>9, <2>6, <2>7, <3>2 DEF SeesTo, LoadIs
    <3> QED
      BY <3>1, <3>2
  <2> QED
    BY <2>5, <2>6, <2>7
<1> QED
  BY <1>11, <1>12, <1>13, <1>14, <1>15, <1>17, <1>18 DEF MarketInv

\* Bars of a code are stored: none is lost, and no hole of it opens that nobody
\* is excused for.
LEMMA BarsStored ==
    ASSUME MarketInv, NEW code \in Instruments, NEW new \in BarRow, dailyBar' = StoredBar(code, new),
           NEW excused \in BOOLEAN, PassOver(code, excused), traded' = traded,
           excused \/ \A d \in Holes(code, dailyBar'[code]) : d \in Holes(code, dailyBar[code])
    PROVE  /\ HolesAreAccounted' /\ dailyBar' \in [Instruments -> BarRow] /\ passedOver' \subseteq Instruments \X Dates
           /\ \A c \in Instruments \ {code} : dailyBar'[c] = dailyBar[c]
           /\ \A d \in Dates : dailyBar'[code][d] = IF new[d] # "none" THEN new[d] ELSE dailyBar[code][d]
<1> DEFINE row == [d \in Dates |-> IF new[d] # "none" THEN new[d] ELSE dailyBar[code][d]]
<1>1. dailyBar' = [dailyBar EXCEPT ![code] = row] /\ dailyBar \in [Instruments -> BarRow]
  BY DEF StoredBar, MarketInv, MarketTypeInv
<1>2. row \in BarRow
  BY <1>1 DEF BarRow
<1>3. \A d \in Dates : row[d] = IF new[d] # "none" THEN new[d] ELSE dailyBar[code][d]
  OBVIOUS
<1> HIDE DEF row
<1>4. dailyBar' \in [Instruments -> BarRow] /\ dailyBar'[code] = row /\ \A c \in Instruments \ {code} : dailyBar'[c] = dailyBar[c]
  BY <1>1, <1>2
<1> PICK holes : holes = Holes(code, dailyBar'[code])
  OBVIOUS
<1>5. holes \subseteq Dates /\ \A d \in holes : dailyBar'[code][d] = "none"
  BY DEF Holes, MarketInv, MarketTypeInv
<1>6. passedOver' = (passedOver \cup (IF excused THEN {<<code, d>> : d \in holes} ELSE {}))
                       \ {<<code, d>> : d \in {e \in Dates : dailyBar'[code][e] # "none"}}
  BY DEF PassOver
<1>7. passedOver' \subseteq Instruments \X Dates
  BY <1>5, <1>6 DEF MarketInv, MarketTypeInv
<1>8. HolesAreAccounted'
  <2> SUFFICES ASSUME NEW c \in Instruments, NEW d \in Holes(c, dailyBar[c])' PROVE <<c, d>> \in passedOver'
    BY DEF HolesAreAccounted
  <2>1. Holes(c, dailyBar[c])' = Holes(c, dailyBar'[c])
    BY DEF Holes
  <2>2. CASE c # code
    <3>1. d \in Holes(c, dailyBar[c])
      BY <1>4, <2>1, <2>2
    <3>2. <<c, d>> \in passedOver
      BY <3>1 DEF MarketInv, HolesAreAccounted
    <3> QED
      BY <1>6, <2>2, <3>2
  <2>3. CASE c = code
    <3>1. d \in holes /\ dailyBar'[code][d] = "none"
      BY <1>5, <2>1, <2>3
    <3>2. excused \/ <<code, d>> \in passedOver
      BY <3>1 DEF MarketInv, HolesAreAccounted
    <3> QED
      BY <1>6, <2>3, <3>1, <3>2
  <2> QED
    BY <2>2, <2>3
<1> QED
  BY <1>3, <1>4, <1>7, <1>8

LEMMA AppendBarKeeps == ASSUME MarketInv, AppendBar PROVE MarketInv'
<1> DEFINE cares == update.code \in update.cared
           new == [d \in Dates |-> IF d = update.day THEN "final" ELSE "none"]
<1>1. PICK code : code = update.code
  OBVIOUS
<1>2. /\ update.at = "append" /\ update.mode = "snapshot" /\ update.day = tradingDay /\ code \in Instruments
      /\ loading["update"].at = "none" /\ update \in UpdateType /\ tradingDay \in Dates
      /\ UNCHANGED <<tradingDay, afterClose, traded, core, calendarKnown, average, loading, loads, mishaps, cutShort>>
  BY <1>1 DEF MarketInv, MarketTypeInv, ControlInv, LoadInv, AppendBar, clockVars
<1>3. PICK dirty : dirty = ToAverage(code, cares)
  OBVIOUS
<1>4. /\ dailyBar' = StoredBar(code, new) /\ PassOver(code, ~cares \/ ~calendarKnown)
      /\ update' = [update EXCEPT !.at = "previous", !.code = "none", !.dirty = dirty]
      /\ off' = IF cares THEN off ELSE off \cup {code}
  BY <1>1, <1>3 DEF AppendBar
<1>5. update.dirty \subseteq dirty /\ dirty \subseteq Instruments /\ (cares => code \in dirty)
  BY <1>2, <1>3 DEF ToAverage, UpdateType
<1>6. UpdateIs("previous", update.todo, "none", update.gaps, dirty)
  BY <1>2, <1>4, <1>5 DEF UpdateIs, UpdateType
<1>7. /\ new \in BarRow /\ \A d \in Dates : new[d] = IF d = update.day THEN "final" ELSE "none"
  BY DEF BarRow, Kinds
<1>8. dailyBar'[code] = [d \in Dates |-> IF new[d] # "none" THEN new[d] ELSE dailyBar[code][d]]
  BY <1>2, <1>4 DEF StoredBar, MarketInv, MarketTypeInv
<1> HIDE DEF new
<1>9. \A d \in Dates : dailyBar'[code][d] = IF d = update.day THEN "final" ELSE dailyBar[code][d]
  BY <1>7, <1>8
<1>10. \A d \in Dates : Has(code, d) => d <= tradingDay
  BY <1>2 DEF MarketInv, CalendarInv
<1>11. ASSUME cares, calendarKnown, NEW d \in Holes(code, dailyBar'[code]) PROVE d \in Holes(code, dailyBar[code])
  <2>1. update.day - 1 \in Dates /\ Has(code, update.day - 1)
    BY <1>1, <1>2, <1>11 DEF MarketInv, BehindInv
  <2>2. d \in traded[code] /\ dailyBar'[code][d] = "none" /\ d \in Dates
    BY <1>2 DEF Holes, MarketInv, MarketTypeInv
  <2>3. PICK e \in Dates : e < d /\ dailyBar'[code][e] # "none"
    BY DEF Holes
  <2>4. PICK f \in Dates : f > d /\ dailyBar'[code][f] # "none"
    BY DEF Holes
  <2>5. d # update.day /\ dailyBar[code][d] = "none"
    BY <1>9, <2>2
  <2>6. f <= update.day
    <3>1. f # update.day => Has(code, f)
      BY <1>9, <2>4 DEF Has
    <3>2. f # update.day => f <= update.day
      BY <1>2, <1>10, <3>1
    <3> QED
      <4>1. CASE f = update.day
        BY <1>2, <4>1, DatesAreNat
      <4> QED
        BY <3>2, <4>1
  <2>7. d < update.day - 1
    <3>1. d # update.day - 1
      BY <2>1, <2>5 DEF Has
    <3>2. update.day \in Nat /\ d \in Nat /\ f \in Nat
      BY <1>2, <2>2, <2>4, DatesAreNat
    <3>3. f > d
      BY <2>4
    <3> QED
      BY <2>6, <3>1, <3>2, <3>3
  <2>8. dailyBar[code][e] # "none"
    BY <1>2, <1>9, <2>2, <2>3, <2>7, MarketConstants, SMTT(30)
  <2> QED
    BY <2>1, <2>2, <2>3, <2>5, <2>7, <2>8 DEF Holes, Has
<1>12. /\ HolesAreAccounted' /\ dailyBar' \in [Instruments -> BarRow] /\ passedOver' \subseteq Instruments \X Dates
       /\ \A c \in Instruments \ {code} : dailyBar'[c] = dailyBar[c]
  <2>1. PICK excused \in BOOLEAN : excused <=> (~cares \/ ~calendarKnown)
    OBVIOUS
  <2>2. PassOver(code, excused)
    BY <1>4, <2>1 DEF PassOver
  <2> HIDE DEF cares
  <2>3. excused \/ \A d \in Holes(code, dailyBar'[code]) : d \in Holes(code, dailyBar[code])
    BY <1>2, <1>11, <2>1 DEF MarketInv, MarketTypeInv
  <2> QED
    BY <1>2, <1>4, <1>7, <2>2, <2>3, BarsStored
<1>13. MarketTypeInv'
  <2>1. off' \subseteq Instruments
    BY <1>2, <1>4 DEF MarketInv, MarketTypeInv
  <2> QED
    BY <1>2, <1>6, <1>12, <2>1 DEF MarketInv, MarketTypeInv, UpdateIs
<1>14. CalendarInv'
  <2>1. \A c \in Instruments, d \in Dates : Has(c, d)' => d <= tradingDay
    <3>1. ASSUME NEW c \in Instruments, NEW d \in Dates, Has(c, d)' PROVE d <= tradingDay
      <4>1. CASE c = code /\ d = update.day
        BY <1>2, <4>1, MarketConstants
      <4>2. CASE ~(c = code /\ d = update.day)
        BY <1>9, <1>12, <3>1, <4>2 DEF MarketInv, CalendarInv, Has
      <4> QED
        BY <4>1, <4>2
    <3> QED
      BY <3>1
  <2> QED
    BY <1>2, <2>1 DEF MarketInv, CalendarInv
<1>15. ControlInv' /\ LoadInv' /\ BehindInv'
  BY <1>2, <1>6 DEF MarketInv, ControlInv, LoadInv, BehindInv, UpdateIs
<1>16. GotInv'
  BY <1>2, GotFrame DEF MarketInv
<1>17. AccountInv'
  <2>1. dailyBar'[code][update.day] = "final"
    BY <1>2, <1>9
  <2>2. \A c \in Instruments : c \in update.todo \cup update.gaps \cup cutShort \/ dailyBar'[c][update.day] = "final"
    BY <1>1, <1>2, <1>12, <2>1 DEF MarketInv, AccountInv
  <2> QED
    BY <1>2, <1>6, <2>2 DEF AccountInv, UpdateIs
<1>18. FreshInv'
  <2>1. Excused \subseteq Excused' /\ code \in Excused'
    BY <1>2, <1>4, <1>5, <1>6 DEF Excused, UpdateIs
  <2>2. ASSUME NEW c \in Instruments \ {code} PROVE StaleDays(c)' = StaleDays(c)
    <3>1. StaleDays(c)' = {d \in Dates : average[c][d] # WindowOf(dailyBar[c], d)}
      BY <1>2, <1>12, StaleIs
    <3> QED
      BY <3>1 DEF StaleDays
  <2> SUFFICES ASSUME NEW c \in Instruments \ Excused' PROVE StaleDays(c)' = {} \/ \E b \in Loaders : SeesTo(b, c)'
    BY DEF FreshInv
  <2>3. StaleDays(c) = {} \/ \E b \in Loaders : SeesTo(b, c)
    BY <2>1 DEF MarketInv, FreshInv
  <2> QED
    BY <1>2, <1>12, <2>1, <2>2, <2>3 DEF SeesTo
<1> QED
  BY <1>12, <1>13, <1>14, <1>15, <1>16, <1>17, <1>18 DEF MarketInv

LEMMA StoreKeeps == ASSUME MarketInv, NEW a \in Loaders, Store(a) PROVE MarketInv'
<1>1. PICK l : l = loading[a]
  OBVIOUS
<1>2. PICK code : code = l.code
  OBVIOUS
<1>3. PICK new : new = [d \in Dates |-> IF \E g \in l.got : g[1] = d THEN (CHOOSE g \in l.got : g[1] = d)[2] ELSE "none"]
  OBVIOUS
<1>4. /\ l.at = "store" /\ l \in LoadType /\ loading \in [Loaders -> LoadType] /\ code \in Instruments
      /\ l.got \subseteq Dates \X Kinds /\ update \in UpdateType /\ tradingDay \in Dates
      /\ Loaders = {"update", "outside"}
      /\ UNCHANGED <<tradingDay, afterClose, traded, core, calendarKnown, average, update, loads, mishaps, off>>
  <2>1. loading[a].at = "store" /\ UNCHANGED <<clockVars, average, update, loads, mishaps, off>>
    BY DEF Store
  <2>2. loading \in [Loaders -> LoadType] /\ update \in UpdateType /\ tradingDay \in Dates
    BY DEF MarketInv, MarketTypeInv
  <2>3. code \in Instruments
    BY <1>1, <1>2, <2>1 DEF MarketInv, LoadInv
  <2> QED
    BY <1>1, <2>1, <2>2, <2>3 DEF LoadType, clockVars, Loaders
<1>5. /\ dailyBar' = StoredBar(code, new) /\ PassOver(code, a = "outside" \/ update.mode = "historical")
      /\ cutShort' = IF a = "update" /\ update.mode = "snapshot" /\ new[l.to] = "none"
                       THEN cutShort \cup {code} ELSE cutShort
      /\ loading' = [loading EXCEPT ![a].at = "read", ![a].got = {}]
  BY <1>1, <1>2, <1>3 DEF Store
\* The row that is stored is that of the bars that were loaded.
<1>6. /\ new \in BarRow
      /\ \A d \in Dates : new[d] # "none" => \E g \in l.got : g[1] = d /\ g[2] = new[d]
      /\ \A d \in Dates : (\E g \in l.got : g[1] = d) => new[d] # "none"
  <2>1. \A g \in l.got : g[1] \in Dates /\ g[2] \in Kinds
    BY <1>4
  <2>2. ASSUME NEW d \in Dates, \E g \in l.got : g[1] = d
        PROVE  \E g \in l.got : g[1] = d /\ g[2] = new[d]
    <3>1. PICK g : g = CHOOSE h \in l.got : h[1] = d
      OBVIOUS
    <3>2. g \in l.got /\ g[1] = d
      BY <2>2, <3>1
    <3>3. new[d] = g[2]
      BY <1>3, <2>2, <3>1
    <3> QED
      BY <3>2, <3>3
  <2>3. \A d \in Dates : ~(\E g \in l.got : g[1] = d) => new[d] = "none"
    BY <1>3
  <2>4. "none" \notin Kinds
    BY DEF Kinds
  <2>5. \A d \in Dates : new[d] \in Kinds \cup {"none"}
    BY <2>1, <2>2, <2>3
  <2>6. new = [d \in Dates |-> new[d]]
    BY <1>3
  <2>7. new \in BarRow
    BY <2>5, <2>6 DEF BarRow
  <2> QED
    BY <2>1, <2>2, <2>3, <2>4, <2>7
<1>7. PICK k : k = [l EXCEPT !.at = "read", !.got = {}]
  OBVIOUS
<1>8. /\ k \in LoadType /\ k.at = "read" /\ k.code = code /\ k.got = {}
  BY <1>2, <1>4, <1>7 DEF LoadType
<1>9. LoadIs(a, k)
  <2>1. loading' = [loading EXCEPT ![a] = k]
    <3> DEFINE m == [loading EXCEPT ![a].at = "read"]
    <3>1. m[a] = [l EXCEPT !.at = "read"] /\ m = [loading EXCEPT ![a] = [l EXCEPT !.at = "read"]]
      BY <1>1, <1>4
    <3>2. loading' = [m EXCEPT ![a] = [m[a] EXCEPT !.got = {}]]
      BY <1>5
    <3>3. [m[a] EXCEPT !.got = {}] = k
      BY <1>7, <3>1
    <3> QED
      BY <1>4, <3>1, <3>2, <3>3
  <2> QED
    BY <1>4, <1>8, <2>1 DEF LoadIs
\* What the loaded bars are of.
<1>10. \A g \in l.got : /\ l.from <= g[1] /\ g[1] <= l.to /\ g[1] <= tradingDay
                        /\ g[2] = "partial" => g[1] = tradingDay /\ ~afterClose
  BY <1>1 DEF MarketInv, GotInv
<1>11. \A d \in traded[code] : l.from <= d /\ d <= l.to /\ d # tradingDay => \E g \in l.got : g[1] = d
  BY <1>1, <1>2, <1>4 DEF MarketInv, GotInv
<1>12. dailyBar'[code] = [d \in Dates |-> IF new[d] # "none" THEN new[d] ELSE dailyBar[code][d]]
  BY <1>4, <1>5 DEF StoredBar, MarketInv, MarketTypeInv
<1>13. \A d \in Dates : dailyBar'[code][d] = IF new[d] # "none" THEN new[d] ELSE dailyBar[code][d]
  BY <1>12
<1>14. \A d \in Dates : dailyBar'[code][d] # "none" => d <= tradingDay
  <2>1. \A d \in Dates : dailyBar[code][d] # "none" => d <= tradingDay
    BY <1>4 DEF MarketInv, CalendarInv, Has
  <2>2. ASSUME NEW d \in Dates, new[d] # "none" PROVE d <= tradingDay
    <3>1. PICK g \in l.got : g[1] = d
      BY <1>6, <2>2
    <3>2. g[1] <= tradingDay
      BY <1>10
    <3> QED
      BY <3>1, <3>2
  <2> QED
    BY <1>13, <2>1, <2>2
\* The update that reloads a code begins after a bar it has and goes to the day.
<1>15. ASSUME a = "update", update.mode = "snapshot"
       PROVE  /\ l.to = tradingDay /\ update.day = tradingDay /\ afterClose /\ update.at = "reload" /\ update.code = code
              /\ l.from # 1 => l.from - 1 \in Dates /\ Has(code, l.from - 1)
  <2>1. update.at = "reload" /\ update.code = code
    BY <1>1, <1>2, <1>4, <1>15 DEF MarketInv, LoadInv
  <2>2. update.day = tradingDay /\ (update.day < tradingDay \/ afterClose)
    BY <1>15, <2>1 DEF MarketInv, ControlInv
  <2>3. l.to = update.day /\ (l.from # 1 => l.from - 1 \in Dates /\ Has(l.code, l.from - 1))
    <3>1. loading["update"].at \in {"fetch", "store"} /\ loading["update"].code = code
      BY <1>1, <1>2, <1>4, <1>15
    <3> QED
      BY <1>1, <1>2, <1>15, <2>1, <3>1 DEF MarketInv, BehindInv
  <2> QED
    BY <1>2, <1>4, <2>1, <2>2, <2>3, MarketConstants
<1>16. ASSUME a = "update", update.mode = "snapshot", NEW d \in Holes(code, dailyBar'[code])
       PROVE  d \in Holes(code, dailyBar[code])
  <2>1. d \in traded[code] /\ dailyBar'[code][d] = "none" /\ d \in Dates
    BY <1>4 DEF Holes, MarketInv, MarketTypeInv
  <2>2. PICK e \in Dates : e < d /\ dailyBar'[code][e] # "none"
    BY DEF Holes
  <2>3. PICK f \in Dates : f > d /\ dailyBar'[code][f] # "none"
    BY DEF Holes
  <2>4. new[d] = "none" /\ dailyBar[code][d] = "none"
    BY <1>13, <2>1
  <2>5. /\ tradingDay \in Nat /\ d \in Nat /\ e \in Nat /\ f \in Nat /\ l.from \in Nat /\ l.from >= 1
    <3>1. l.from \in Dates
      BY <1>4 DEF LoadType
    <3> QED
      BY <1>4, <2>1, <3>1, DatesAreNat
  <2>6. d < tradingDay
    BY <1>14, <2>3, <2>5
  <2>7. d < l.from
    <3>1. ~(l.from <= d)
      BY <1>6, <1>11, <1>15, <1>16, <2>1, <2>4, <2>5, <2>6
    <3> QED
      BY <2>5, <3>1
  <2>8. l.from # 1 /\ l.from - 1 \in Dates /\ Has(code, l.from - 1)
    BY <1>15, <1>16, <2>1, <2>5, <2>7, MarketConstants
  <2>9. d < l.from - 1
    <3>1. d # l.from - 1
      BY <2>4, <2>8 DEF Has
    <3> QED
      BY <2>5, <2>7, <3>1
  <2>10. dailyBar[code][e] # "none"
    <3>1. ASSUME NEW g \in l.got, g[1] = e PROVE FALSE
      <4>1. l.from <= e
        BY <1>10, <3>1
      <4> QED
        BY <2>2, <2>5, <2>7, <4>1
    <3>2. new[e] = "none"
      BY <1>6, <3>1
    <3> QED
      BY <1>13, <2>2, <3>2
  <2> QED
    BY <2>1, <2>2, <2>4, <2>8, <2>9, <2>10 DEF Holes, Has
<1>17. /\ HolesAreAccounted' /\ dailyBar' \in [Instruments -> BarRow] /\ passedOver' \subseteq Instruments \X Dates
       /\ \A c \in Instruments \ {code} : dailyBar'[c] = dailyBar[c]
  <2>1. PICK excused \in BOOLEAN : excused <=> (a = "outside" \/ update.mode = "historical")
    OBVIOUS
  <2>2. PassOver(code, excused)
    BY <1>5, <2>1 DEF PassOver
  <2>3. ~excused => a = "update" /\ update.mode = "snapshot"
    BY <1>4, <2>1 DEF UpdateType
  <2>4. excused \/ \A d \in Holes(code, dailyBar'[code]) : d \in Holes(code, dailyBar[code])
    BY <1>16, <2>3
  <2> QED
    BY <1>4, <1>5, <1>6, <2>2, <2>4, BarsStored
<1>18. \A c \in Instruments, d \in Dates : dailyBar[c][d] # "none" => dailyBar'[c][d] # "none"
  BY <1>13, <1>17
<1>19. MarketTypeInv'
  <2>1. cutShort' \subseteq Instruments
    BY <1>4, <1>5 DEF MarketInv, MarketTypeInv
  <2> QED
    BY <1>4, <1>9, <1>17, <2>1 DEF MarketInv, MarketTypeInv, LoadIs
<1>20. CalendarInv'
  <2>1. \A c \in Instruments, d \in Dates : Has(c, d)' => d <= tradingDay
    BY <1>14, <1>17 DEF MarketInv, CalendarInv, Has
  <2> QED
    BY <1>4, <2>1 DEF MarketInv, CalendarInv
<1>21. ControlInv'
  BY <1>4 DEF MarketInv, ControlInv
<1>22. /\ loading'["update"].at # "none" <=> loading["update"].at # "none"
       /\ loading'["update"].code = loading["update"].code
       /\ loading'["update"].at \in {"fetch", "store"} => loading'["update"] = loading["update"]
       /\ a # "update" => loading'["update"] = loading["update"]
  BY <1>1, <1>2, <1>4, <1>8, <1>9 DEF LoadIs
<1>23. LoadInv'
  <2>1. \A b \in Loaders : loading'[b] = loading[b] \/ loading'[b] = k
    BY <1>9 DEF LoadIs
  <2> QED
    BY <1>4, <1>8, <1>22, <2>1 DEF MarketInv, LoadInv
<1>24. GotInv'
  BY <1>4, <1>8, <1>9, GotFrame DEF MarketInv, LoadIs
<1>25. BehindInv'
  <2>1. update.at = "append" /\ update.code \in update.cared => update.code \in Instruments
    BY <1>4 DEF UpdateType
  <2>2. loading["update"].at # "none" => loading["update"].code \in Instruments
    BY <1>4 DEF MarketInv, LoadInv
  <2> QED
    <3>1. update.at = "append" /\ update.code \in update.cared /\ calendarKnown =>
             update.day - 1 \in Dates /\ dailyBar'[update.code][update.day - 1] # "none"
      BY <1>18, <2>1 DEF MarketInv, BehindInv, Has
    <3>2. update.mode = "snapshot" /\ loading["update"].at \in {"fetch", "store"} =>
             /\ loading["update"].to = update.day
             /\ loading["update"].from # 1 =>
                  loading["update"].from - 1 \in Dates /\ dailyBar'[update.code][loading["update"].from - 1] # "none"
      <4>1. loading["update"].at \in {"fetch", "store"} => update.code \in Instruments
        BY <2>2 DEF MarketInv, LoadInv
      <4> QED
        BY <1>18, <4>1 DEF MarketInv, BehindInv, Has
    <3> QED
      BY <1>4, <1>22, <3>1, <3>2 DEF BehindInv, Has
<1>26. AccountInv'
  <2>1. update.day \in Dates /\ update.cared \subseteq Instruments
    BY <1>4 DEF UpdateType
  <2>2. ASSUME update.mode = "snapshot", update.at # "idle", NEW c \in Instruments, dailyBar[c][update.day] = "final"
        PROVE  dailyBar'[c][update.day] = "final"
    <3>1. CASE c # code
      BY <1>17, <2>2, <3>1
    <3>2. CASE c = code /\ new[update.day] = "none"
      BY <1>13, <2>1, <2>2, <3>2
    <3>3. CASE c = code /\ new[update.day] # "none"
      <4>1. update.day < tradingDay \/ afterClose
        BY <2>2 DEF MarketInv, ControlInv
      <4>2. new[update.day] \in Kinds /\ new[update.day] # "partial"
        <5>1. PICK g \in l.got : g[1] = update.day /\ g[2] = new[update.day]
          BY <1>6, <2>1, <3>3
        <5>2. g[2] \in Kinds
          BY <1>4
        <5>3. g[2] = "partial" => g[1] = tradingDay /\ ~afterClose
          BY <1>10
        <5> QED
          BY <1>4, <4>1, <5>1, <5>2, <5>3, MarketConstants
      <4> QED
        BY <1>13, <2>1, <3>3, <4>2 DEF Kinds
    <3> QED
      BY <3>1, <3>2, <3>3
  <2>3. ASSUME a = "update", update.mode = "snapshot"
        PROVE  code \in cutShort' \/ dailyBar'[code][update.day] = "final"
    <3>1. l.to = update.day /\ afterClose
      BY <1>15, <2>3
    <3>2. CASE new[update.day] = "none"
      BY <1>5, <2>3, <3>1, <3>2
    <3>3. CASE new[update.day] # "none"
      <4>1. new[update.day] \in Kinds /\ new[update.day] # "partial"
        <5>1. PICK g \in l.got : g[1] = update.day /\ g[2] = new[update.day]
          BY <1>6, <2>1, <3>3
        <5>2. g[2] \in Kinds
          BY <1>4
        <5>3. g[2] = "partial" => ~afterClose
          BY <1>10
        <5> QED
          BY <3>1, <5>1, <5>2, <5>3
      <4> QED
        BY <1>13, <2>1, <3>3, <4>1 DEF Kinds
    <3> QED
      BY <3>2, <3>3
  <2>4. a = "update" => update.code = code
    BY <1>1, <1>2, <1>4 DEF MarketInv, LoadInv
  <2>5. cutShort \subseteq cutShort'
    BY <1>5
  <2>6. ASSUME update.mode = "snapshot", update.at \in {"previous", "append", "reload", "averages", "done"},
               NEW c \in Instruments
        PROVE  \/ c \in update.todo \cup update.gaps \cup cutShort'
               \/ dailyBar'[c][update.day] = "final"
               \/ c = update.code /\ update.at = "append"
               \/ c = update.code /\ update.at = "reload" /\ loading'["update"].at \in {"fetch", "store"}
    <3>1. \/ c \in update.todo \cup update.gaps \cup cutShort
          \/ dailyBar[c][update.day] = "final"
          \/ c = update.code /\ update.at = "append"
          \/ c = update.code /\ update.at = "reload" /\ loading["update"].at \in {"fetch", "store"}
      BY <2>6 DEF MarketInv, AccountInv
    <3>2. dailyBar[c][update.day] = "final" => dailyBar'[c][update.day] = "final"
      BY <2>2, <2>6
    <3>3. a = "update" /\ c = update.code => c \in cutShort' \/ dailyBar'[c][update.day] = "final"
      BY <2>3, <2>4, <2>6
    <3> QED
      BY <1>22, <2>5, <3>1, <3>2, <3>3
  <2>7. ASSUME update.mode = "historical", NEW c \in update.cared
        PROVE  /\ update.at \in {"backfill", "reload"} => Has(c, update.day)' \/ c \in update.dirty
               /\ update.at = "done" => Has(c, update.day)' \/ c \in update.gaps
    BY <1>4, <1>18, <2>1, <2>7 DEF MarketInv, AccountInv, Has
  <2> QED
    BY <1>4, <2>6, <2>7 DEF AccountInv
<1>27. FreshInv'
  <2>1. Excused' = Excused
    BY <1>4 DEF Excused
  <2>2. SeesTo(a, code)'
    BY <1>8, <1>9 DEF SeesTo, LoadIs
  <2>3. ASSUME NEW c \in Instruments \ {code} PROVE StaleDays(c)' = StaleDays(c)
    <3>1. StaleDays(c)' = {d \in Dates : average[c][d] # WindowOf(dailyBar[c], d)}
      BY <1>4, <1>17, StaleIs
    <3> QED
      BY <3>1 DEF StaleDays
  <2> SUFFICES ASSUME NEW c \in Instruments \ Excused', c # code
               PROVE  StaleDays(c)' = {} \/ \E b \in Loaders : SeesTo(b, c)'
    BY <2>2 DEF FreshInv
  <2>4. StaleDays(c) = {} \/ \E b \in Loaders : SeesTo(b, c)
    BY <2>1 DEF MarketInv, FreshInv
  <2>5. ASSUME NEW b \in Loaders, SeesTo(b, c) PROVE SeesTo(b, c)'
    <3>1. b # a
      BY <1>1, <1>2, <2>5 DEF SeesTo
    <3> QED
      BY <1>9, <1>17, <2>3, <2>5, <3>1 DEF SeesTo, LoadIs
  <2> QED
    BY <2>3, <2>4, <2>5
<1> QED
  BY <1>17, <1>19, <1>20, <1>21, <1>23, <1>24, <1>25, <1>26, <1>27 DEF MarketInv

LEMMA MarketCrashKeeps == ASSUME MarketInv, MarketCrash PROVE MarketInv'
<1>1. PICK gone : gone = {loading[a].code : a \in {b \in Loaders : loading[b].at \in {"read", "write"}}}
  OBVIOUS
<1>2. /\ update' = NoUpdate /\ loading' = [a \in Loaders |-> NoLoad]
      /\ off' = off \cup update.dirty \cup gone
      /\ UNCHANGED <<tradingDay, afterClose, traded, core, calendarKnown, dailyBar, average, loads, passedOver, cutShort>>
  BY <1>1 DEF MarketCrash, clockVars, barVars
<1>3. mishaps' \in 0..Mishaps
  BY MarketConstants DEF MarketInv, MarketTypeInv, MarketCrash
<1>4. gone \subseteq Instruments /\ update.dirty \subseteq Instruments
  BY <1>1 DEF MarketInv, MarketTypeInv, LoadInv, UpdateType
<1>5. \A a \in Loaders : loading'[a] = NoLoad
  BY <1>2
<1>6. MarketTypeInv'
  BY <1>2, <1>3, <1>4, NoLoadIs, NoUpdateIs DEF MarketInv, MarketTypeInv
<1>7. CalendarInv' /\ HolesAreAccounted'
  BY <1>2, CalendarFrame, HolesFrame DEF MarketInv
<1>8. GotInv'
  BY <1>2, <1>5, NoLoadIs, GotFrame DEF MarketInv
<1>9. 1 <= tradingDay
  BY MarketConstants DEF MarketInv, MarketTypeInv
<1>10. ControlInv'
  BY <1>2, <1>9, NoUpdateIs DEF ControlInv
<1>11. "update" \in Loaders
  BY DEF Loaders
<1>12. LoadInv' /\ BehindInv' /\ AccountInv'
  BY <1>2, <1>5, <1>11, NoUpdateIs, NoLoadIs DEF LoadInv, BehindInv, AccountInv
<1>13. FreshInv'
  <2>1. Excused \subseteq Excused'
    BY <1>2, NoUpdateIs DEF Excused
  <2>2. \A c \in Instruments, a \in Loaders : SeesTo(a, c) => c \in Excused'
    BY <1>1, <1>2 DEF SeesTo, Excused
  <2> QED
    BY <1>2, <2>1, <2>2, FreshFrame DEF MarketInv
<1> QED
  BY <1>6, <1>7, <1>8, <1>10, <1>12, <1>13 DEF MarketInv

-----------------------------------------------------------------------------
(* Days without a bar.                                                     *)

LEMMA BlankFrame ==
    ASSUME BlankInv, average' = average, \A c \in Instruments, d \in Dates : Has(c, d) => Has(c, d)',
           \A a \in Loaders : \/ loading'[a].rows = {}
                              \/ loading'[a].rows \subseteq loading[a].rows /\ loading'[a].code = loading[a].code
    PROVE  BlankInv'
BY DEF BlankInv

LEMMA BlankKeeps == ASSUME MarketInv, BlankInv, MarketNext \/ UNCHANGED marketVars PROVE BlankInv'
<1>1. Loaders = {"update", "outside"} /\ loading \in [Loaders -> LoadType] /\ dailyBar \in [Instruments -> BarRow]
  BY DEF Loaders, MarketInv, MarketTypeInv
<1>2. NoLoad.rows = {}
  BY DEF NoLoad
\* Most steps leave the bars and the averages alone and begin or end a load.
<1>3. ASSUME UNCHANGED <<dailyBar, average>>,
             \A a \in Loaders : \/ loading'[a].rows = {}
                                \/ loading'[a].rows \subseteq loading[a].rows /\ loading'[a].code = loading[a].code
      PROVE  BlankInv'
  BY <1>3, BlankFrame DEF Has
<1>4. CASE loading' = loading /\ UNCHANGED <<dailyBar, average>>
  BY <1>3, <1>4
<1>5. ASSUME NEW a \in Loaders, NEW l, l.rows = {}, loading' = [loading EXCEPT ![a] = l], UNCHANGED <<dailyBar, average>>
      PROVE  BlankInv'
  <2>1. \A b \in Loaders : loading'[b] = IF b = a THEN l ELSE loading[b]
    BY <1>1, <1>5
  <2> QED
    BY <1>3, <1>5, <2>1
<1>6. ASSUME NEW c \in Instruments, ReadPrevious(c) PROVE BlankInv'
  <2>1. CASE loading' = loading
    BY <1>4, <1>6, <2>1 DEF ReadPrevious, barVars
  <2>2. CASE loading' # loading
    <3>1. PICK l : l = [NoLoad EXCEPT !.at = "fetch", !.code = c, !.from = LatestBar(c, update.day) + 1,
                                      !.to = update.day, !.marks = TRUE]
      OBVIOUS
    <3>2. loading' = [loading EXCEPT !["update"] = l] /\ UNCHANGED <<dailyBar, average>>
      BY <1>6, <2>2, <3>1 DEF ReadPrevious, barVars
    <3>3. l.rows = {}
      BY <3>1 DEF NoLoad
    <3> QED
      BY <1>1, <1>5, <3>2, <3>3
  <2> QED
    BY <2>1, <2>2
<1>7. ASSUME NEW c \in Instruments, BackfillNext(c) PROVE BlankInv'
  <2>1. PICK l : l = [NoLoad EXCEPT !.at = "fetch", !.code = c, !.to = update.day, !.marks = TRUE]
    OBVIOUS
  <2>2. loading' = [loading EXCEPT !["update"] = l] /\ UNCHANGED <<dailyBar, average>>
    BY <1>7, <2>1 DEF BackfillNext, barVars
  <2>3. l.rows = {}
    BY <2>1 DEF NoLoad
  <2> QED
    BY <1>1, <1>5, <2>2, <2>3
<1>8. ASSUME NEW c \in Instruments, NEW from \in Dates, NEW to \in Dates, LoadOutside(c, from, to) PROVE BlankInv'
  <2>1. PICK l : l = [NoLoad EXCEPT !.at = "fetch", !.code = c, !.from = from, !.to = to, !.marks = TRUE]
    OBVIOUS
  <2>2. loading' = [loading EXCEPT !["outside"] = l] /\ UNCHANGED <<dailyBar, average>>
    BY <1>8, <2>1 DEF LoadOutside, barVars
  <2>3. l.rows = {}
    BY <2>1 DEF NoLoad
  <2> QED
    BY <1>1, <1>5, <2>2, <2>3
<1>9. CASE AverageNext
  <2>1. CASE update.dirty = {}
    BY <1>4, <1>9, <2>1 DEF AverageNext, barVars
  <2>2. CASE update.dirty # {}
    <3>1. PICK c \in update.dirty : loading' = [loading EXCEPT !["update"] = [NoLoad EXCEPT !.at = "read", !.code = c]]
      BY <1>9, <2>2 DEF AverageNext
    <3>2. PICK l : l = [NoLoad EXCEPT !.at = "read", !.code = c]
      OBVIOUS
    <3>3. l.rows = {}
      BY <3>2 DEF NoLoad
    <3> QED
      BY <1>1, <1>5, <1>9, <3>1, <3>2, <3>3 DEF AverageNext, barVars
  <2> QED
    BY <2>1, <2>2
<1>10. ASSUME NEW a \in Loaders, NEW failed, LoadEnds(a, failed), UNCHANGED <<dailyBar, average>> PROVE BlankInv'
  BY <1>2, <1>5, <1>10 DEF LoadEnds
<1>11. ASSUME NEW a \in Loaders, Fetch(a) PROVE BlankInv'
  <2>1. UNCHANGED <<dailyBar, average>>
    BY <1>11 DEF Fetch, barVars
  <2>2. CASE LoadEnds(a, TRUE)
    BY <1>2, <1>5, <2>1, <2>2 DEF LoadEnds
  <2>3. CASE ~LoadEnds(a, TRUE)
    <3>1. PICK G : loading' = [loading EXCEPT ![a].at = "store", ![a].got = G]
      BY <1>11, <2>3 DEF Fetch
    <3>2. \A b \in Loaders : loading'[b].rows = loading[b].rows /\ loading'[b].code = loading[b].code
      BY <1>1, <3>1 DEF LoadType
    <3> QED
      BY <1>3, <2>1, <3>2
  <2> QED
    BY <2>2, <2>3
<1>12. ASSUME NEW a \in Loaders, Store(a) PROVE BlankInv'
  <2>1. loading' = [loading EXCEPT ![a].at = "read", ![a].got = {}] /\ average' = average
    BY <1>12 DEF Store
  <2>2. \A b \in Loaders : loading'[b].rows = loading[b].rows /\ loading'[b].code = loading[b].code
    BY <1>1, <2>1 DEF LoadType
  <2>3. PICK new : dailyBar' = StoredBar(loading[a].code, new)
    BY <1>12 DEF Store
  <2>4. \A c \in Instruments, d \in Dates : Has(c, d) => Has(c, d)'
    BY <1>1, <2>3 DEF Has, StoredBar, BarRow
  <2> QED
    BY <2>1, <2>2, <2>4, BlankFrame
<1>13. CASE AppendBar
  <2>1. UNCHANGED <<average, loading>>
    BY <1>13 DEF AppendBar
  <2>2. PICK new : dailyBar' = StoredBar(update.code, new)
    BY <1>13 DEF AppendBar
  <2>3. \A c \in Instruments, d \in Dates : Has(c, d) => Has(c, d)'
    BY <1>1, <2>2 DEF Has, StoredBar, BarRow
  <2> QED
    BY <2>1, <2>3, BlankFrame
<1>14. ASSUME NEW a \in Loaders, ReadBars(a) PROVE BlankInv'
  <2>1. PICK code : code = loading[a].code
    OBVIOUS
  <2>2. PICK rows : rows = {d \in Dates : Has(code, d) /\ average[code][d] # WindowOf(dailyBar[code], d)}
    OBVIOUS
  <2>3. loading' = [loading EXCEPT ![a].at = "write", ![a].seen = dailyBar[code], ![a].rows = rows]
        /\ UNCHANGED <<dailyBar, average>>
    BY <1>14, <2>1, <2>2 DEF ReadBars, barVars
  <2>4. /\ loading'[a].code = code /\ loading'[a].rows = rows
        /\ \A b \in Loaders \ {a} : loading'[b] = loading[b]
    BY <1>1, <2>1, <2>3 DEF LoadType
  <2>5. \A c \in Instruments, d \in Dates : Has(c, d)' <=> Has(c, d)
    BY <2>3 DEF Has
  <2>6. \A d \in rows : Has(code, d)
    BY <2>2
  <2> SUFFICES ASSUME NEW c \in Instruments, NEW d \in Dates, ~Has(c, d), NEW b \in Loaders
               PROVE  average[c][d] = {} /\ (loading'[b].code = c => d \notin loading'[b].rows)
    BY <2>3, <2>5 DEF BlankInv
  <2> QED
    BY <2>4, <2>6 DEF BlankInv
<1>15. ASSUME NEW a \in Loaders, WriteAverage(a) PROVE BlankInv'
  <2>1. PICK d : d = Min(loading[a].rows)
    OBVIOUS
  <2>2. PICK code : code = loading[a].code
    OBVIOUS
  <2>3. PICK new : new = WindowOf(loading[a].seen, d)
    OBVIOUS
  <2>4. /\ average' = [average EXCEPT ![code][d] = new]
        /\ loading' = [loading EXCEPT ![a].rows = loading[a].rows \ {d}]
        /\ dailyBar' = dailyBar /\ loading[a].rows # {}
    BY <1>15, <2>1, <2>2, <2>3 DEF WriteAverage
  <2>5. d \in loading[a].rows /\ d \in Dates /\ code \in Instruments
    <3>1. loading[a].rows \subseteq Dates
      BY <1>1 DEF LoadType
    <3>2. code \in Instruments
      BY <1>15, <2>2 DEF MarketInv, LoadInv, WriteAverage
    <3> QED
      BY <2>1, <2>4, <3>1, <3>2, MinOfDays
  <2>6. Has(code, d)
    BY <2>2, <2>5 DEF BlankInv
  <2>7. \A b \in Loaders : loading'[b].rows \subseteq loading[b].rows /\ loading'[b].code = loading[b].code
    BY <1>1, <2>4 DEF LoadType
  <2>8. \A c \in Instruments, e \in Dates : ~(c = code /\ e = d) => average'[c][e] = average[c][e]
    BY <2>4, <2>5 DEF MarketInv, MarketTypeInv
  <2>9. \A c \in Instruments, e \in Dates : Has(c, e)' <=> Has(c, e)
    BY <2>4 DEF Has
  <2> QED
    BY <2>6, <2>7, <2>8, <2>9 DEF BlankInv
<1>16. CASE MarketCrash
  <2>1. \A a \in Loaders : loading'[a] = NoLoad
    BY <1>16 DEF MarketCrash
  <2> QED
    BY <1>2, <1>3, <1>16, <2>1 DEF MarketCrash, barVars
<1>17. ASSUME NEW a \in Loaders, AveragesDone(a) \/ LoadFails(a) PROVE BlankInv'
  <2>1. UNCHANGED <<dailyBar, average>> /\ loading' = [loading EXCEPT ![a] = NoLoad]
    BY <1>17 DEF AveragesDone, LoadFails, LoadEnds, barVars
  <2> QED
    BY <1>2, <1>5, <2>1
<1>18. CASE Closes \/ NextTradingDay \/ (\E d \in Dates : StartUpdate(d)) \/ TakeQuotes \/ AppendRefused
            \/ FindMissing \/ RecheckMissing \/ EndUpdate
  BY <1>4, <1>18 DEF Closes, NextTradingDay, StartUpdate, TakeQuotes, AppendRefused, FindMissing, RecheckMissing,
                     EndUpdate, barVars
<1>19. CASE UNCHANGED marketVars
  BY <1>4, <1>19 DEF marketVars, barVars
<1> QED
  BY <1>6, <1>7, <1>8, <1>9, <1>11, <1>12, <1>13, <1>14, <1>15, <1>16, <1>17, <1>18, <1>19 DEF MarketNext

-----------------------------------------------------------------------------

LEMMA MarketStepKeeps == MarketInv /\ BlankInv /\ [MarketNext]_marketVars => MarketInv' /\ BlankInv'
<1> SUFFICES ASSUME MarketInv, BlankInv, MarketNext \/ UNCHANGED marketVars PROVE MarketInv' /\ BlankInv'
  OBVIOUS
<1>1. BlankInv'
  BY BlankKeeps
<1>2. CASE UNCHANGED marketVars
  <2>1. MarketTypeInv' /\ ControlInv' /\ LoadInv' /\ GotInv'
    BY <1>2 DEF MarketInv, MarketTypeInv, ControlInv, LoadInv, GotInv, marketVars, clockVars, barVars, marketHistory
  <2>2. CalendarInv' /\ HolesAreAccounted'
    BY <1>2, CalendarFrame, HolesFrame DEF MarketInv, marketVars, clockVars, barVars, marketHistory
  <2>3. BehindInv' /\ AccountInv'
    BY <1>2 DEF MarketInv, BehindInv, AccountInv, Has, marketVars, clockVars, barVars, marketHistory
  <2>4. FreshInv'
    BY <1>2, FreshSame DEF MarketInv, Excused, marketVars, barVars, marketHistory
  <2> QED
    BY <1>1, <2>1, <2>2, <2>3, <2>4 DEF MarketInv
<1>3. CASE Closes \/ NextTradingDay \/ \E d \in Dates : StartUpdate(d)
  BY <1>1, <1>3, ClosesKeeps, NextTradingDayKeeps, StartUpdateKeeps
<1>4. CASE TakeQuotes \/ AppendBar \/ AppendRefused \/ AverageNext \/ FindMissing \/ RecheckMissing \/ EndUpdate
  BY <1>1, <1>4, TakeQuotesKeeps, AppendBarKeeps, AppendRefusedKeeps, AverageNextKeeps, FindMissingKeeps,
     RecheckMissingKeeps, EndUpdateKeeps
<1>5. CASE \E c \in Instruments : ReadPrevious(c) \/ BackfillNext(c)
  BY <1>1, <1>5, ReadPreviousKeeps, BackfillNextKeeps
<1>6. CASE \E c \in Instruments, from, to \in Dates : LoadOutside(c, from, to)
  BY <1>1, <1>6, LoadOutsideKeeps
<1>7. CASE \E a \in Loaders : Fetch(a) \/ Store(a) \/ ReadBars(a) \/ WriteAverage(a) \/ AveragesDone(a) \/ LoadFails(a)
  BY <1>1, <1>7, FetchBarsKeeps, StoreKeeps, ReadBarsKeeps, WriteAverageKeeps, AveragesDoneKeeps, LoadFailsKeeps
<1>8. CASE MarketCrash
  BY <1>1, <1>8, MarketCrashKeeps
<1> QED
  BY <1>1, <1>2, <1>3, <1>4, <1>5, <1>6, <1>7, <1>8 DEF MarketNext

\* The daily bars, their averages, the update and the loads keep their types.
THEOREM MarketTypes == MarketSpec => []MarketTypeOK
<1>1. MarketInit => MarketInv /\ BlankInv
  <2>1. MarketInit => BlankInv
    BY DEF MarketInit, BlankInv, NoLoad
  <2> QED
    BY <2>1, MarketInitInv
<1>2. MarketInv => MarketTypeOK
  BY DEF MarketInv, MarketTypeInv, MarketTypeOK, UpdateType, LoadType, BarRow, Kinds
<1> QED
  BY <1>1, <1>2, MarketStepKeeps, PTL DEF MarketSpec

\* An update leaves no code of its scope unaccounted for and no bar of an open
\* day behind, no hole opens unnoticed, and the averages of a code nobody works
\* on are of the bars that are there.
THEOREM BarsStaySound == MarketSpec => []BarsAreSound
<1>1. MarketInit => MarketInv /\ BlankInv
  <2>1. MarketInit => BlankInv
    BY DEF MarketInit, BlankInv, NoLoad
  <2> QED
    BY <2>1, MarketInitInv
<1>2. MarketInv => MarketTypeOK
  BY DEF MarketInv, MarketTypeInv, MarketTypeOK, UpdateType, LoadType, BarRow, Kinds
<1>3. MarketInv => UpdatedBarsAreFinal
  BY DEF MarketInv, ControlInv, AccountInv, UpdatedBarsAreFinal
<1>4. MarketInv => NothingIsMissed
  <2> SUFFICES ASSUME MarketInv, update.at = "done", NEW c \in Scope(update.mode, update.cared)
               PROVE  Has(c, update.day) \/ c \in update.gaps \cup cutShort
    BY DEF NothingIsMissed
  <2>1. update.mode \in {"snapshot", "historical"}
    BY DEF MarketInv, MarketTypeInv, UpdateType
  <2>2. CASE update.mode = "snapshot"
    BY <2>2 DEF MarketInv, ControlInv, AccountInv, Scope, Has
  <2>3. CASE update.mode = "historical"
    BY <2>3 DEF MarketInv, AccountInv, Scope
  <2> QED
    BY <2>1, <2>2, <2>3
<1>5. MarketInv => AveragesAreFresh
  <2> SUFFICES ASSUME MarketInv, NEW c \in Instruments \ (off \cup update.dirty), \A a \in Loaders : loading[a].code # c,
                      NEW d \in Dates
               PROVE  average[c][d] = WindowOf(dailyBar[c], d)
    BY DEF AveragesAreFresh
  <2>1. c \notin Excused /\ \A a \in Loaders : ~SeesTo(a, c)
    BY DEF Excused, SeesTo
  <2>2. StaleDays(c) = {}
    BY <2>1 DEF MarketInv, FreshInv
  <2> QED
    BY <2>2 DEF StaleDays
<1>6. MarketInv => BarsAreSound
  BY <1>2, <1>3, <1>4, <1>5 DEF BarsAreSound, MarketInv
<1> QED
  BY <1>1, <1>6, MarketStepKeeps, PTL DEF MarketSpec

=============================================================================
