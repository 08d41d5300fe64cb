------------------------ MODULE ConversationsProofs -------------------------
(***************************************************************************)
(* Theorems about the turns of a session, for any set of turns and jobs,   *)
(* any number of continuations and messages, and any number of failed      *)
(* queries and crashes.                                                    *)
(*                                                                         *)
(* Then about the confirmations of domain writes: what a proposal's        *)
(* approval does, it does once, and on the state that was shown.  What makes *)
(* this induction work is Guards: which locks a request holds at each of its *)
(* steps, and what cannot change while it holds them -- the status of the  *)
(* proposal under the lock of its row, the version of the target, equal to *)
(* the snapshot's, under the lock of the target.                           *)
(*                                                                         *)
(* Last, that every behaviour of the small instances checked together is one *)
(* of each component.                                                      *)
(***************************************************************************)
EXTENDS MCConversations, DatasourceProofs

-----------------------------------------------------------------------------
(* The inductive invariants.                                               *)

\* The turns that wait or work, in the order in which they came.
InLine == {t \in Turns : pc[t] = "wait" \/ pc[t] \in Body}

\* The chain of promises is a line: each turn in it awaits the one before it,
\* the last is the tail, and only the first may work.
IsLine(n, q) ==
    /\ \A i \in 1..n : q[i] \in InLine
    /\ \A t \in InLine : \E i \in 1..n : q[i] = t
    /\ \A i, j \in 1..n : q[i] = q[j] => i = j
    /\ \A i \in 2..n : pc[q[i]] = "wait" /\ prev[q[i]] = q[i - 1]
    /\ tail = IF n = 0 THEN Nobody ELSE q[n]

LineInv == \E n \in Nat : \E q \in [1..n -> Turns] : IsLine(n, q)

Seqs == 1..SeqBound
Filled(s) == author[s] # Nobody

\* Numbers are given without a gap; a number that was read is at most one
\* beyond those that are given.
NoGap == \A s \in 2..SeqBound : Filled(s) => Filled(s - 1)
NextIsClose ==
    \A t \in Turns :
        pc[t] \in {"talk", "note"} =>
            nextSeq[t] >= 1 /\ (nextSeq[t] > 1 => Filled(nextSeq[t] - 1))

\* A turn that has not talked has no message; while it talks, what lies
\* between its first message and its next number is its own.
BeforeTalk == {"new", "open", "wait", "announce", "number"}
Together(t, a, c) == \A b \in a..c : author[b] = t
OwnMessages ==
    \A t \in Turns :
        /\ pc[t] \in BeforeTalk => \A a \in Seqs : author[a] # t
        /\ pc[t] = "talk" =>
              \A a \in Seqs : author[a] = t => a < nextSeq[t] /\ Together(t, a, nextSeq[t] - 1)
        /\ \A a, c \in Seqs : a <= c /\ author[a] = t /\ author[c] = t => Together(t, a, c)

MessageInv == NoGap /\ NextIsClose /\ OwnMessages

\* The mark of an abort is on the run that talks, and stays there.
MarkIsMeant(t) ==
    /\ abortRequested[t] => t \in accepted /\ pc[t] = "talk"
    /\ pc[t] = "talk" /\ t \in accepted => abortRequested[t]
    /\ pc[t] \in BeforeTalk => t \notin accepted
    /\ pc[t] \in BeforeTalk \cup {"talk"} => outcome[t] = "none"
    /\ t \in accepted => outcome[t] # "complete"
    /\ outcome[t] = "cancelled" => t \in accepted
AbortInv == \A t \in Turns : MarkIsMeant(t)

\* Who will see to it that the session does not say running for ever.
SeesToStatus(t) ==
    \/ t \in UserTurns /\ pc[t] \in Body \ {"announce"}
    \/ t \in JobTurns /\ pc[t] \in {"wait", "settle", "mirror"} \cup Body
    \/ t \in JobTurns /\ pc[t] \in {"readSeq", "note"} /\ outcome[t] # "failed"
    \/ t \in jobRunning
StatusInv ==
    /\ \A t \in Turns : pc[t] = "open" => t \in JobTurns
    /\ ~up => \A t \in Turns : pc[t] \in {"new", "over"}
    /\ up /\ ~strayed /\ status = "running" => \E t \in Turns : SeesToStatus(t)

-----------------------------------------------------------------------------
(* What the operators of the model yield.                                  *)

\* The next number is beyond all that are given and next to one of them.
LEMMA NextMessage ==
    /\ NextMessageSeq \in 1..(SeqBound + 1)
    /\ \A s \in Seqs : Filled(s) => s < NextMessageSeq
    /\ NextMessageSeq > 1 => Filled(NextMessageSeq - 1)
<1> DEFINE Beyond == {n \in Nat : n >= 1 /\ \A s \in Seqs : Filled(s) => s < n}
<1>1. SeqBound + 1 \in Beyond
  BY SessionAssumption DEF Seqs
<1>2. PICK x \in Beyond : \A y \in Beyond : x <= y
  BY <1>1, LeastOf
<1>3. x \in Nat /\ x >= 1 /\ x <= SeqBound + 1
  BY <1>1, <1>2, SessionAssumption
<1>4. x > 1 => Filled(x - 1)
  <2> SUFFICES ASSUME x > 1, ~Filled(x - 1) PROVE FALSE
    OBVIOUS
  <2>1. \A s \in Seqs : Filled(s) => s < x - 1
    BY <1>2, <1>3 DEF Seqs
  <2>2. x - 1 \in Beyond
    BY <1>3, <2>1
  <2> QED BY <1>2, <1>3, <2>2
<1>5. \A s \in Seqs : Filled(s) => s < x
  BY <1>2
<1>6. \E n \in 1..(SeqBound + 1) :
         /\ \A s \in 1..SeqBound : author[s] # Nobody => s < n
         /\ n > 1 => author[n - 1] # Nobody
  BY <1>3, <1>4, <1>5 DEF Seqs, Filled
<1>7. /\ NextMessageSeq \in 1..(SeqBound + 1)
      /\ \A s \in 1..SeqBound : author[s] # Nobody => s < NextMessageSeq
      /\ NextMessageSeq > 1 => author[NextMessageSeq - 1] # Nobody
  BY <1>6, Zenon DEF NextMessageSeq
<1> QED BY <1>7 DEF Seqs, Filled

-----------------------------------------------------------------------------
(* Types.                                                                  *)

LEMMA TypesInit == Init => TypeOK
<1> SUFFICES ASSUME Init PROVE TypeOK
  OBVIOUS
<1> USE SessionAssumption DEF Init
<1>1. up \in BOOLEAN /\ status \in Status /\ tail \in Turns \cup {Nobody}
  BY DEF Status
<1>2. author \in [1..SeqBound -> Turns \cup {Scheduler, Nobody}]
  OBVIOUS
<1>3. prev \in [Turns -> Turns \cup {Nobody}] /\ pc \in [Turns -> Steps]
  BY DEF Steps
<1>4. nextSeq \in [Turns -> 0..(SeqBound + 1)]
  OBVIOUS
<1>5. segment \in [Turns -> 0..(Continuations + 1)] /\ outcome \in [Turns -> Outcomes]
  BY DEF Outcomes
<1>6. abortRequested \in [Turns -> BOOLEAN] /\ jobRunning \subseteq JobTurns
  OBVIOUS
<1>7. faults \in 0..Faults /\ accepted \subseteq Turns
  OBVIOUS
<1>8. strayed \in BOOLEAN
  BY Zenon
<1> QED BY <1>1, <1>2, <1>3, <1>4, <1>5, <1>6, <1>7, <1>8 DEF TypeOK

\* A query fails at most as often as the bound says.
LEMMA FaultType == TypeOK /\ Fault => faults' \in 0..Faults
BY SessionAssumption DEF TypeOK, Fault

LEMMA LeaveType ==
    ASSUME TypeOK, NEW t \in Turns, NEW result \in Outcomes, Leave(t, result)
    PROVE  /\ outcome' \in [Turns -> Outcomes] /\ nextSeq' \in [Turns -> 0..(SeqBound + 1)]
           /\ segment' \in [Turns -> 0..(Continuations + 1)]
           /\ tail' \in Turns \cup {Nobody} /\ prev' = prev /\ pc' \in [Turns -> Steps]
BY SessionAssumption DEF TypeOK, Leave, Unlink, Goto, Steps, Afterwards

\* What a turn does in its chain and with its model.
LEMMA TurnTypes ==
    ASSUME TypeOK, NEW t \in Turns,
           \/ Begin(t) \/ Announce(t) \/ StartTalking(t) \/ AppendFails(t)
           \/ Close(t) \/ Catch(t) \/ AppendMessage(t) \/ Post(t)
           \/ PreparationFails(t) \/ CloseFails(t) \/ \E how \in Ways : EndSegment(t, how)
    PROVE  TypeOK'
<1> USE SessionAssumption
<1> USE DEF vars, chain, turn, history
<1>1. CASE Begin(t)
  BY <1>1 DEF TypeOK, Begin, Goto, Steps, Body
<1>2. CASE Announce(t)
  BY <1>2 DEF TypeOK, Announce, Goto, Steps, Body, Status
<1>3. CASE StartTalking(t)
  <2>1. NextMessageSeq \in 0..(SeqBound + 1)
    BY NextMessage
  <2> QED BY <1>3, <2>1 DEF TypeOK, StartTalking, Goto, Steps, Body
<1>4. CASE AppendFails(t)
  <2>1. faults' \in 0..Faults
    BY <1>4, FaultType DEF AppendFails, TypeOK
  <2> QED BY <1>4, <2>1 DEF TypeOK, AppendFails, Goto, Steps, Body, Unregister
<1>5. CASE Close(t)
  <2>1. outcome[t] \in Outcomes /\ Leave(t, outcome[t])
    BY <1>5 DEF TypeOK, Close
  <2>2. status' \in Status
    BY <1>5 DEF TypeOK, Close, Shown, Status
  <2> QED BY <1>5, <2>1, <2>2, LeaveType DEF TypeOK, Close
<1>6. CASE Catch(t)
  <2>1. "failed" \in Outcomes /\ Leave(t, "failed")
    BY <1>6 DEF Outcomes, Catch
  <2>2. status' \in Status
    BY <1>6 DEF TypeOK, Catch, StatusAfterError, Status
  <2>3. faults' \in 0..Faults /\ strayed' \in BOOLEAN
    BY <1>6, FaultType DEF Catch, TypeOK
  <2> QED BY <1>6, <2>1, <2>2, <2>3, LeaveType DEF TypeOK, Catch
<1>7. CASE AppendMessage(t)
  <2>1. SeqFor(t) \in 0..SeqBound
    BY <1>7 DEF AppendMessage, Insert, SeqFor, TypeOK
  <2>2. author' \in [1..SeqBound -> Turns \cup {Scheduler, Nobody}]
    BY <1>7 DEF TypeOK, AppendMessage, Insert
  <2>3. nextSeq' \in [Turns -> 0..(SeqBound + 1)]
    BY <1>7, <2>1 DEF TypeOK, AppendMessage
  <2> QED BY <1>7, <2>2, <2>3 DEF TypeOK, AppendMessage
<1>8. CASE Post(t)
  BY <1>8 DEF TypeOK, Post, Enter, Goto, Steps
<1>9. CASE PreparationFails(t)
  <2>1. "failed" \in Outcomes /\ Leave(t, "failed")
    BY <1>9 DEF Outcomes, PreparationFails
  <2>2. status' \in Status /\ strayed' \in BOOLEAN /\ faults' \in 0..Faults
    BY <1>9, FaultType DEF TypeOK, PreparationFails, Status
  <2> QED BY <1>9, <2>1, <2>2, LeaveType DEF TypeOK, PreparationFails
<1>10. CASE CloseFails(t)
  <2>1. status' \in Status /\ faults' \in 0..Faults
    BY <1>10, FaultType DEF TypeOK, CloseFails, Status, Shown
  <2> QED BY <1>10, <2>1 DEF TypeOK, CloseFails, Goto, Steps, Body
<1>11. ASSUME NEW how \in Ways, EndSegment(t, how) PROVE TypeOK'
  <2>1. segment' \in [Turns -> 0..(Continuations + 1)]
    <3>1. segment \in [Turns -> 0..(Continuations + 1)]
      BY DEF TypeOK
    <3>2. \/ segment' = segment
          \/ segment[t] <= Continuations /\ segment' = [segment EXCEPT ![t] = @ + 1]
      BY <1>11 DEF EndSegment, MayContinue
    <3> QED BY <3>1, <3>2
  <2>2. outcome' \in [Turns -> Outcomes]
    BY <1>11 DEF TypeOK, EndSegment, Outcomes
  <2>3. pc' \in [Turns -> Steps]
    <3>1. pc \in [Turns -> Steps] /\ "close" \in Steps /\ "catch" \in Steps
      BY DEF TypeOK, Steps, Body
    <3>2. pc' = pc \/ pc' = [pc EXCEPT ![t] = "close"] \/ pc' = [pc EXCEPT ![t] = "catch"]
      BY <1>11 DEF EndSegment, Goto
    <3> QED BY <3>1, <3>2
  <2>4. abortRequested' \in [Turns -> BOOLEAN]
    <3>1. abortRequested' = [abortRequested EXCEPT ![t] = FALSE] /\ abortRequested \in [Turns -> BOOLEAN]
      BY <1>11 DEF TypeOK, EndSegment, Unregister
    <3> QED BY <3>1
  <2>5. UNCHANGED <<up, status, author, tail, prev, nextSeq, jobRunning, faults, accepted, strayed>>
    BY <1>11 DEF EndSegment, chain, history
  <2> QED BY <2>1, <2>2, <2>3, <2>4, <2>5 DEF TypeOK
<1> QED BY <1>1, <1>2, <1>3, <1>4, <1>5, <1>6, <1>7, <1>8, <1>9, <1>10, <1>11

\* What the scheduler does around a turn, what users and the process do.
LEMMA OtherTypes ==
    ASSUME TypeOK, NEW t \in Turns, NEW u \in Turns,
           \/ JobClaimed(t) \/ JobOpens(t) \/ JobOpenFails(t) \/ JobSettles(t) \/ JobRecovers(t)
           \/ Mirror(t) \/ ReadSeq(t) \/ Note(t) \/ NoteFails(t)
           \/ Abort(t, u) \/ Crash \/ Boot
    PROVE  TypeOK'
<1> USE SessionAssumption
<1> USE DEF vars, chain, turn, history
<1>1. CASE JobClaimed(t)
  BY <1>1 DEF TypeOK, JobClaimed, Goto, Steps
<1>2. CASE JobOpens(t)
  BY <1>2 DEF TypeOK, JobOpens, Enter, Goto, Steps, Status
<1>3. CASE JobOpenFails(t)
  BY <1>3, FaultType DEF TypeOK, JobOpenFails, Goto, Steps, Afterwards, Outcomes
<1>4. CASE JobSettles(t)
  <2>1. faults' \in 0..Faults
    BY <1>4, FaultType DEF TypeOK, JobSettles
  <2>2. outcome' \in [Turns -> Outcomes] /\ pc' \in [Turns -> Steps]
    BY <1>4 DEF TypeOK, JobSettles, Goto, Steps, Afterwards, Outcomes
  <2> QED BY <1>4, <2>1, <2>2 DEF TypeOK, JobSettles
<1>5. CASE JobRecovers(t)
  BY <1>5 DEF TypeOK, JobRecovers, Goto, Steps, Afterwards, Outcomes
<1>6. CASE Mirror(t)
  <2>1. faults' \in 0..Faults /\ strayed' \in BOOLEAN
    BY <1>6, FaultType DEF TypeOK, Mirror
  <2>2. status' \in Status
    BY <1>6 DEF TypeOK, Mirror, Mirrored, Status
  <2>3. pc' \in [Turns -> Steps]
    BY <1>6 DEF TypeOK, Mirror, Goto, Steps, Afterwards
  <2> QED BY <1>6, <2>1, <2>2, <2>3 DEF TypeOK, Mirror
<1>7. CASE ReadSeq(t)
  <2>1. NextMessageSeq \in 0..(SeqBound + 1)
    BY NextMessage
  <2> QED BY <1>7, <2>1 DEF TypeOK, ReadSeq, Goto, Steps, Afterwards
<1>8. CASE Note(t)
  <2>1. author' \in [1..SeqBound -> Turns \cup {Scheduler, Nobody}]
    BY <1>8 DEF TypeOK, Note, Insert
  <2>2. pc' \in [Turns -> Steps]
    BY <1>8 DEF TypeOK, Note, AfterNote, Goto, Steps, Afterwards
  <2>3. nextSeq' \in [Turns -> 0..(SeqBound + 1)]
    BY <1>8 DEF TypeOK, Note
  <2> QED BY <1>8, <2>1, <2>2, <2>3 DEF TypeOK, Note
<1>9. CASE NoteFails(t)
  <2>1. faults' \in 0..Faults
    BY <1>9, FaultType DEF TypeOK, NoteFails
  <2> QED BY <1>9, <2>1 DEF TypeOK, NoteFails, AfterNote, Goto, Steps, Afterwards
<1>10. CASE Abort(t, u)
  BY <1>10 DEF TypeOK, Abort
<1>11. CASE Crash
  <2>1. pc' \in [Turns -> Steps] /\ outcome' \in [Turns -> Outcomes]
    BY <1>11 DEF TypeOK, Crash, Steps, Outcomes
  <2>2. faults' \in 0..Faults
    BY <1>11, FaultType DEF Crash
  <2>3. prev' \in [Turns -> Turns \cup {Nobody}] /\ tail' \in Turns \cup {Nobody}
    BY <1>11 DEF Crash
  <2>4. nextSeq' \in [Turns -> 0..(SeqBound + 1)] /\ segment' \in [Turns -> 0..(Continuations + 1)]
    BY <1>11 DEF Crash
  <2>5. abortRequested' \in [Turns -> BOOLEAN] /\ up' \in BOOLEAN
    BY <1>11 DEF Crash
  <2> QED BY <1>11, <2>1, <2>2, <2>3, <2>4, <2>5 DEF TypeOK, Crash
<1>12. CASE Boot
  BY <1>12 DEF TypeOK, Boot, Status
<1> QED BY <1>1, <1>2, <1>3, <1>4, <1>5, <1>6, <1>7, <1>8, <1>9, <1>10, <1>11, <1>12

LEMMA TypesStutter == TypeOK /\ UNCHANGED vars => TypeOK'
BY DEF TypeOK, vars, chain, turn, history

\* Every variable keeps its type: the statuses of the session, the promises of
\* its chain, the locals of its turns and the numbers of its messages.
THEOREM SessionTypes == Spec => []TypeOK
<1>1. TypeOK /\ [Next]_vars => TypeOK'
  <2> SUFFICES ASSUME TypeOK, [Next]_vars PROVE TypeOK'
    OBVIOUS
  <2>1. ASSUME NEW t \in Turns,
               TurnStep(t) \/ AppendMessage(t) \/ Post(t) \/ JobClaimed(t)
               \/ PreparationFails(t) \/ CloseFails(t) \/ JobOpenFails(t)
        PROVE  TypeOK'
    BY <2>1, TurnTypes, OtherTypes DEF TurnStep
  <2>2. ASSUME NEW t \in Turns, NEW u \in Turns, Abort(t, u) PROVE TypeOK'
    BY <2>2, OtherTypes
  <2>3. CASE Crash \/ Boot
    <3>1. CASE Turns = {}
      BY <2>3, <3>1, FaultType DEF Crash, Boot, TypeOK, turn, chain, history, Status
    <3>2. CASE Turns # {}
      BY <2>3, <3>2, OtherTypes
    <3> QED BY <3>1, <3>2
  <2>4. CASE UNCHANGED vars
    BY <2>4, TypesStutter
  <2> QED BY <2>1, <2>2, <2>3, <2>4 DEF Next
<1> QED BY <1>1, TypesInit, PTL DEF Spec

-----------------------------------------------------------------------------
(* One turn at a time.                                                     *)

\* Only the first of the line may work or find its gate open.
LEMMA FirstWorks ==
    ASSUME NEW n \in Nat, NEW q \in [1..n -> Turns], IsLine(n, q),
           NEW t \in InLine, pc[t] \in Body \/ Released(prev[t])
    PROVE  n >= 1 /\ q[1] = t
<1>1. PICK i \in 1..n : q[i] = t
  BY DEF IsLine
<1>2. SUFFICES ASSUME i # 1 PROVE FALSE
  BY <1>1
<1>3. i \in 2..n /\ i - 1 \in 1..n
  BY <1>1, <1>2
<1>4. pc[t] = "wait" /\ prev[t] = q[i - 1]
  BY <1>1, <1>3 DEF IsLine
<1>5. q[i - 1] \in InLine /\ q[i - 1] # Nobody
  BY <1>3, AuthorAssumption DEF IsLine, InLine
<1> QED BY <1>4, <1>5 DEF InLine, Released, Body, Afterwards

\* Whatever a turn does outside the line, or while it works, leaves it alone.
LEMMA LineQuiet ==
    ASSUME LineInv, NEW t \in Turns,
           \A u \in Turns \ {t} : pc'[u] = pc[u] /\ prev'[u] = prev[u],
           tail' = tail,
           \/ t \notin InLine /\ pc'[t] \notin Body \cup {"wait"}
           \/ pc[t] \in Body /\ pc'[t] \in Body
    PROVE  LineInv'
<1>0. PICK n \in Nat : \E q \in [1..n -> Turns] : IsLine(n, q)
  BY DEF LineInv
<1>1. PICK q \in [1..n -> Turns] : IsLine(n, q)
  BY <1>0
<1>2. \A u \in Turns : u \in InLine' <=> u \in InLine
  BY DEF InLine
<1>3. \A i \in 2..n : q[i] # t
  BY <1>1 DEF IsLine, InLine, Body
<1>4. InLine' = InLine
  BY <1>2 DEF InLine
<1>5. \A i \in 2..n : pc'[q[i]] = "wait" /\ prev'[q[i]] = q[i - 1]
  <2> TAKE i \in 2..n
  <2>0. i \in 1..n /\ q[i] # t
    BY <1>3
  <2>1. q[i] \in Turns \ {t} /\ pc[q[i]] = "wait" /\ prev[q[i]] = q[i - 1]
    <3>1. q[i] \in Turns
      BY <1>1, <2>0
    <3>2. pc[q[i]] = "wait" /\ prev[q[i]] = q[i - 1]
      BY <1>1 DEF IsLine
    <3> QED BY <2>0, <3>1, <3>2
  <2>2. pc'[q[i]] = pc[q[i]] /\ prev'[q[i]] = prev[q[i]]
    BY <2>1
  <2> QED BY <2>1, <2>2
<1>6. IsLine(n, q)'
  BY <1>1, <1>4, <1>5 DEF IsLine
<1> QED BY <1>6 DEF LineInv

\* A turn gets in line behind the last one.
LEMMA LineEnters ==
    ASSUME LineInv, TypeOK, NEW t \in Turns, pc[t] \in {"new", "open"}, Enter(t)
    PROVE  LineInv'
<1>0. PICK n \in Nat : \E q \in [1..n -> Turns] : IsLine(n, q)
  BY DEF LineInv
<1>1. PICK q \in [1..n -> Turns] : IsLine(n, q)
  BY <1>0
<1> DEFINE r == [i \in 1..(n + 1) |-> IF i = n + 1 THEN t ELSE q[i]]
<1>2. r \in [1..(n + 1) -> Turns] /\ n + 1 \in Nat
  OBVIOUS
<1>3. r[n + 1] = t /\ \A i \in 1..n : r[i] = q[i] /\ i # n + 1
  OBVIOUS
<1> HIDE DEF r
<1>4. /\ pc' = [pc EXCEPT ![t] = "wait"] /\ prev' = [prev EXCEPT ![t] = tail] /\ tail' = t
      /\ pc'[t] = "wait" /\ prev'[t] = tail
      /\ \A u \in Turns \ {t} : pc'[u] = pc[u] /\ prev'[u] = prev[u]
  BY DEF Enter, Goto, TypeOK
<1>5. InLine' = InLine \cup {t} /\ t \notin InLine
  BY <1>4 DEF InLine, Body
<1>6. \A i \in 1..n : q[i] # t
  BY <1>1, <1>5 DEF IsLine
<1>7. \A i \in 1..(n + 1) : r[i] \in InLine'
  BY <1>1, <1>3, <1>5 DEF IsLine
<1>8. \A u \in InLine' : \E i \in 1..(n + 1) : r[i] = u
  <2> TAKE u \in InLine'
  <2>1. CASE u = t
    BY <1>3, <2>1
  <2>2. CASE u \in InLine
    <3>1. PICK i \in 1..n : q[i] = u
      BY <1>1, <2>2 DEF IsLine
    <3>2. i \in 1..(n + 1) /\ r[i] = u
      BY <1>3, <3>1
    <3> QED BY <3>2
  <2> QED BY <1>5, <2>1, <2>2
<1>9. \A i, j \in 1..(n + 1) : r[i] = r[j] => i = j
  <2>1. \A i \in 1..(n + 1) : i \in 1..n \/ i = n + 1
    OBVIOUS
  <2>2. \A i, j \in 1..n : q[i] = q[j] => i = j
    BY <1>1 DEF IsLine
  <2> QED BY <1>3, <1>6, <2>1, <2>2
<1>10. \A i \in 2..(n + 1) : pc'[r[i]] = "wait" /\ prev'[r[i]] = r[i - 1]
  <2> TAKE i \in 2..(n + 1)
  <2>1. CASE i = n + 1
    <3>1. n >= 1 /\ tail = q[n] /\ r[n] = q[n]
      BY <1>1, <1>3, <2>1 DEF IsLine
    <3> QED BY <1>3, <1>4, <2>1, <3>1
  <2>2. CASE i # n + 1
    <3>1. i \in 2..n /\ i \in 1..n /\ i - 1 \in 1..n
      BY <2>2
    <3>2. pc[q[i]] = "wait" /\ prev[q[i]] = q[i - 1] /\ q[i] \in Turns \ {t}
      BY <1>1, <1>6, <3>1 DEF IsLine
    <3> QED BY <1>3, <1>4, <3>1, <3>2
  <2> QED BY <2>1, <2>2
<1>11. IsLine(n + 1, r)'
  BY <1>3, <1>4, <1>7, <1>8, <1>9, <1>10 DEF IsLine
<1> QED BY <1>2, <1>11 DEF LineInv

\* The first of the line gets to work.
LEMMA LineBegins ==
    ASSUME LineInv, TypeOK, NEW t \in Turns, Begin(t)
    PROVE  LineInv'
<1>0. PICK n \in Nat : \E q \in [1..n -> Turns] : IsLine(n, q)
  BY DEF LineInv
<1>1. PICK q \in [1..n -> Turns] : IsLine(n, q)
  BY <1>0
<1>2. /\ tail' = tail /\ pc'[t] \in Body
      /\ \A u \in Turns \ {t} : pc'[u] = pc[u] /\ prev'[u] = prev[u]
  BY DEF Begin, Goto, TypeOK, Body
<1>3. t \in InLine
  BY DEF Begin, InLine
<1>4. n >= 1 /\ q[1] = t
  BY <1>1, <1>3, FirstWorks DEF Begin
<1>5. InLine' = InLine
  BY <1>2, <1>3 DEF InLine
<1>6. \A i \in 2..n : pc'[q[i]] = "wait" /\ prev'[q[i]] = q[i - 1]
  <2> TAKE i \in 2..n
  <2>1. i \in 1..n /\ 1 \in 1..n /\ i # 1
    OBVIOUS
  <2>2. q[i] \in Turns \ {t} /\ pc[q[i]] = "wait" /\ prev[q[i]] = q[i - 1]
    BY <1>1, <1>4, <2>1 DEF IsLine
  <2> QED BY <1>2, <2>2
<1>7. IsLine(n, q)'
  BY <1>1, <1>2, <1>5, <1>6 DEF IsLine
<1> QED BY <1>7 DEF LineInv

\* The first of the line leaves it; the gate it opens is the next one's.
LEMMA LineLeaves ==
    ASSUME LineInv, TypeOK, NEW t \in Turns, pc[t] \in Body, NEW result, Leave(t, result)
    PROVE  LineInv'
<1>0. PICK n \in Nat : \E q \in [1..n -> Turns] : IsLine(n, q)
  BY DEF LineInv
<1>1. PICK q \in [1..n -> Turns] : IsLine(n, q)
  BY <1>0
<1>2. t \in InLine
  BY DEF InLine
<1>3. n >= 1 /\ q[1] = t
  BY <1>1, <1>2, FirstWorks
<1> DEFINE m == n - 1
           r == [i \in 1..m |-> q[i + 1]]
<1>4. m \in Nat /\ r \in [1..m -> Turns]
  BY <1>3
<1>5. \A i \in 1..m : r[i] = q[i + 1] /\ i + 1 \in 2..n /\ i + 1 \in 1..n
  BY <1>3
<1>6. \A i \in 2..n : i \in 1..n /\ i - 1 \in 1..m /\ r[i - 1] = q[i] /\ q[i] # t
  <2> TAKE i \in 2..n
  <2>1. i \in 1..n /\ 1 \in 1..n /\ i # 1 /\ i - 1 \in 1..m
    BY <1>3
  <2>2. r[i - 1] = q[i]
    BY <1>5, <2>1
  <2> QED BY <1>1, <1>3, <2>1, <2>2 DEF IsLine
<1>7. m = 0 <=> n = 1
  BY <1>3
<1>8. n > 1 => m \in 1..m /\ r[m] = q[n]
  BY <1>3, <1>5
<1>13. \A i \in 2..m : i \in 1..m /\ i - 1 \in 1..m /\ (i - 1) + 1 = i /\ i + 1 - 1 = i
  BY <1>4
<1> HIDE DEF m, r
<1>9. /\ tail' = (IF tail = t THEN Nobody ELSE tail) /\ pc'[t] \notin Body \cup {"wait"}
      /\ prev' = prev /\ \A u \in Turns \ {t} : pc'[u] = pc[u]
  BY DEF Leave, Unlink, Goto, TypeOK, Body
<1>10. InLine' = InLine \ {t}
  BY <1>9 DEF InLine
<1>11. \A i \in 1..m : r[i] \in InLine'
  BY <1>1, <1>5, <1>6, <1>10 DEF IsLine
<1>12. \A u \in InLine' : \E i \in 1..m : r[i] = u
  <2> TAKE u \in InLine'
  <2>1. PICK i \in 1..n : q[i] = u
    BY <1>1, <1>10 DEF IsLine
  <2>2. i \in 2..n
    BY <1>3, <1>10, <2>1
  <2> QED BY <1>6, <2>1, <2>2
<1>14. \A i, j \in 1..m : r[i] = r[j] => i = j
  <2> TAKE i, j \in 1..m
  <2>1. i + 1 = j + 1 => i = j
    BY <1>4
  <2> QED BY <1>1, <1>5, <2>1 DEF IsLine
<1>15. \A i \in 2..m : pc'[r[i]] = "wait" /\ prev'[r[i]] = r[i - 1]
  <2> TAKE i \in 2..m
  <2>1. i \in 1..m /\ i - 1 \in 1..m /\ r[i] = q[i + 1] /\ r[i - 1] = q[i]
    BY <1>5, <1>13
  <2>2. i + 1 \in 2..n /\ pc[q[i + 1]] = "wait" /\ prev[q[i + 1]] = q[i]
    BY <1>1, <1>5, <1>13, <2>1 DEF IsLine
  <2>3. q[i + 1] \in Turns \ {t}
    BY <1>5, <1>6, <2>1, <2>2
  <2> QED BY <1>9, <2>1, <2>2, <2>3
<1>16. tail' = IF m = 0 THEN Nobody ELSE r[m]
  <2>1. tail = q[n]
    BY <1>1, <1>3 DEF IsLine
  <2>2. CASE n = 1
    BY <1>3, <1>7, <1>9, <2>1, <2>2
  <2>3. CASE n # 1
    <3>1. n \in 2..n /\ n > 1
      BY <1>3, <2>3
    <3>2. q[n] # t /\ r[m] = q[n]
      BY <1>6, <1>8, <3>1
    <3> QED BY <1>7, <1>9, <2>1, <2>3, <3>2
  <2> QED BY <2>2, <2>3
<1>17. IsLine(m, r)'
  BY <1>11, <1>12, <1>14, <1>15, <1>16 DEF IsLine
<1> QED BY <1>4, <1>17 DEF LineInv

\* Nobody waits or works when the process has died.
LEMMA LineCrashes ==
    ASSUME TypeOK, Crash
    PROVE  LineInv'
<1>1. InLine' = {} /\ tail' = Nobody
  BY DEF Crash, InLine, Body, TypeOK, Steps
<1> DEFINE q == [i \in 1..0 |-> Nobody]
<1>2. q \in [1..0 -> Turns]
  OBVIOUS
<1>3. \A i \in 1..0 : FALSE
  OBVIOUS
<1>4. \A i \in 2..0 : FALSE
  OBVIOUS
<1>5. IsLine(0, q)'
  BY <1>1, <1>3, <1>4 DEF IsLine
<1> QED BY <1>2, <1>5 DEF LineInv

LEMMA LineInit == Init => LineInv
<1> SUFFICES ASSUME Init PROVE LineInv
  OBVIOUS
<1>1. InLine = {} /\ tail = Nobody
  BY DEF Init, InLine, Body
<1> DEFINE q == [i \in 1..0 |-> Nobody]
<1>2. q \in [1..0 -> Turns]
  OBVIOUS
<1>3. \A i \in 1..0 : FALSE
  OBVIOUS
<1>4. \A i \in 2..0 : FALSE
  OBVIOUS
<1>5. IsLine(0, q)
  BY <1>1, <1>3, <1>4 DEF IsLine
<1> QED BY <1>2, <1>5 DEF LineInv

LEMMA LineStutter == LineInv /\ UNCHANGED <<pc, chain>> => LineInv'
BY DEF LineInv, IsLine, InLine, chain

LEMMA LineNext == TypeOK /\ LineInv /\ [Next]_vars => LineInv'
<1> SUFFICES ASSUME TypeOK, LineInv, [Next]_vars PROVE LineInv'
  OBVIOUS
<1>1. ASSUME NEW t \in Turns, Post(t) \/ JobOpens(t) PROVE LineInv'
  BY <1>1, LineEnters DEF Post, JobOpens
<1>2. ASSUME NEW t \in Turns, Begin(t) PROVE LineInv'
  BY <1>2, LineBegins
<1>3. ASSUME NEW t \in Turns, Close(t) \/ Catch(t) \/ PreparationFails(t) PROVE LineInv'
  <2>1. pc[t] \in Body
    BY <1>3 DEF Close, Catch, PreparationFails, Body
  <2>2. \E result \in {outcome[t], "failed"} : Leave(t, result)
    BY <1>3 DEF Close, Catch, PreparationFails
  <2> QED BY <2>1, <2>2, LineLeaves
<1>4. ASSUME NEW t \in Turns,
             \/ Announce(t) \/ StartTalking(t) \/ AppendMessage(t) \/ AppendFails(t)
             \/ CloseFails(t) \/ \E how \in Ways : EndSegment(t, how)
      PROVE  LineInv'
  <2>1. pc[t] \in Body /\ pc'[t] \in Body /\ UNCHANGED chain /\ \A u \in Turns \ {t} : pc'[u] = pc[u]
    BY <1>4 DEF Announce, StartTalking, AppendMessage, AppendFails, CloseFails, EndSegment, Goto,
                TypeOK, Body
  <2> QED BY <2>1, LineQuiet DEF chain
<1>5. ASSUME NEW t \in Turns,
             \/ JobClaimed(t) \/ JobOpenFails(t) \/ JobSettles(t) \/ JobRecovers(t)
             \/ Mirror(t) \/ ReadSeq(t) \/ Note(t) \/ NoteFails(t)
      PROVE  LineInv'
  <2>1. /\ pc[t] \notin Body \cup {"wait"} /\ pc'[t] \notin Body \cup {"wait"}
        /\ UNCHANGED chain /\ \A u \in Turns \ {t} : pc'[u] = pc[u]
    BY <1>5 DEF JobClaimed, JobOpenFails, JobSettles, JobRecovers, Mirror, ReadSeq, Note, NoteFails,
                AfterNote, Goto, TypeOK, Body
  <2> QED BY <2>1, LineQuiet DEF chain, InLine
<1>6. ASSUME NEW t \in Turns, NEW u \in Turns, Abort(t, u) PROVE LineInv'
  BY <1>6, LineStutter DEF Abort, turn
<1>7. CASE Crash
  BY <1>7, LineCrashes
<1>8. CASE Boot
  BY <1>8, LineStutter DEF Boot, turn
<1>9. CASE UNCHANGED vars
  BY <1>9, LineStutter DEF vars, turn
<1> QED BY <1>1, <1>2, <1>3, <1>4, <1>5, <1>6, <1>7, <1>8, <1>9 DEF Next, TurnStep

\* One turn works in a session at a time, however turns come, fail and leave:
\* those that wait form a line, and only the first of it finds its gate open.
THEOREM TurnsTakeTurns == Spec => []OneTurnAtATime
<1>1. LineInv => OneTurnAtATime
  <2> SUFFICES ASSUME LineInv, NEW t \in Turns, NEW u \in Turns, pc[t] \in Body, pc[u] \in Body
               PROVE  t = u
    BY DEF OneTurnAtATime
  <2>1. t \in InLine /\ u \in InLine
    BY DEF InLine
  <2> QED BY <2>1, FirstWorks DEF LineInv
<1> QED BY <1>1, SessionTypes, LineInit, LineNext, PTL DEF Spec

-----------------------------------------------------------------------------
(* Messages.                                                               *)

\* What writes no message and reads no number.
LEMMA MessagesQuiet ==
    ASSUME MessageInv, author' = author,
           \A u \in Turns :
              \/ pc'[u] = pc[u] /\ nextSeq'[u] = nextSeq[u]
              \/ pc'[u] \notin {"talk", "note"} /\ (pc'[u] \in BeforeTalk => pc[u] \in BeforeTalk)
    PROVE  MessageInv'
<1>1. NoGap'
  BY DEF MessageInv, NoGap, Filled
<1>2. NextIsClose'
  BY DEF MessageInv, NextIsClose, Filled
<1>3. OwnMessages'
  <2> SUFFICES ASSUME NEW u \in Turns
               PROVE  /\ pc'[u] \in BeforeTalk => \A a \in Seqs : author[a] # u
                      /\ pc'[u] = "talk" =>
                            \A a \in Seqs : author[a] = u =>
                               a < nextSeq'[u] /\ Together(u, a, nextSeq'[u] - 1)
                      /\ \A a, c \in Seqs : a <= c /\ author[a] = u /\ author[c] = u
                            => Together(u, a, c)
    BY DEF OwnMessages, Together, Seqs
  <2> QED BY DEF MessageInv, OwnMessages
<1> QED BY <1>1, <1>2, <1>3 DEF MessageInv

\* A number is read.
LEMMA MessagesRead ==
    ASSUME MessageInv, TypeOK, NEW t \in Turns, author' = author,
           \A u \in Turns \ {t} : pc'[u] = pc[u] /\ nextSeq'[u] = nextSeq[u],
           nextSeq'[t] = NextMessageSeq,
           pc'[t] \in {"talk", "note"}, pc'[t] = "talk" => pc[t] \in BeforeTalk
    PROVE  MessageInv'
<1>1. NoGap'
  BY DEF MessageInv, NoGap, Filled
<1>2. NextIsClose'
  BY NextMessage DEF MessageInv, NextIsClose, Filled
<1>3. OwnMessages'
  <2> SUFFICES ASSUME NEW u \in Turns
               PROVE  /\ pc'[u] \in BeforeTalk => \A a \in Seqs : author[a] # u
                      /\ pc'[u] = "talk" =>
                            \A a \in Seqs : author[a] = u =>
                               a < nextSeq'[u] /\ Together(u, a, nextSeq'[u] - 1)
                      /\ \A a, c \in Seqs : a <= c /\ author[a] = u /\ author[c] = u
                            => Together(u, a, c)
    BY DEF OwnMessages, Together, Seqs
  <2>1. CASE u # t
    BY <2>1 DEF MessageInv, OwnMessages
  <2>2. CASE u = t
    BY <2>2 DEF MessageInv, OwnMessages, BeforeTalk
  <2> QED BY <2>1, <2>2
<1> QED BY <1>1, <1>2, <1>3 DEF MessageInv

\* A message of the turn that talks, or a note of the scheduler.
LEMMA MessagesWritten ==
    ASSUME MessageInv, TypeOK, NEW t \in Turns, NEW s, s = nextSeq[t], NEW who, Insert(s, who),
           \A u \in Turns \ {t} : pc'[u] = pc[u] /\ nextSeq'[u] = nextSeq[u],
           \/ pc[t] = "talk" /\ pc'[t] = "talk" /\ who = t /\ nextSeq'[t] = s + 1
           \/ /\ pc[t] = "note" /\ who = Scheduler
              /\ pc'[t] \notin {"talk", "note"} /\ pc'[t] \notin BeforeTalk
    PROVE  MessageInv'
<1>1. /\ s \in Seqs /\ s >= 1 /\ s <= SeqBound /\ s \in Nat /\ author[s] = Nobody
      /\ author'[s] = who /\ who # Nobody
      /\ \A a \in Seqs \ {s} : author'[a] = author[a]
      /\ s > 1 => Filled(s - 1)
  BY AuthorAssumption, SessionAssumption
     DEF Insert, MessageInv, NextIsClose, TypeOK, Seqs, Scheduler, Nobody
<1>2. \A a \in Seqs : Filled(a) => Filled(a)'
  BY <1>1 DEF Filled
<1>3. Filled(s)'
  BY <1>1 DEF Filled
<1>4. NoGap'
  <2> SUFFICES ASSUME NEW x \in 2..SeqBound, Filled(x)' PROVE Filled(x - 1)'
    BY DEF NoGap, Filled
  <2>1. x \in Seqs /\ x - 1 \in Seqs
    BY SessionAssumption DEF Seqs
  <2>2. CASE x = s
    BY <1>1, <1>2, <2>1, <2>2
  <2>3. CASE x # s
    BY <1>1, <1>2, <2>1, <2>3 DEF Filled, MessageInv, NoGap
  <2> QED BY <2>2, <2>3
<1>5. NextIsClose'
  <2> SUFFICES ASSUME NEW u \in Turns, pc'[u] \in {"talk", "note"}
               PROVE  nextSeq'[u] >= 1 /\ (nextSeq'[u] > 1 => author'[nextSeq'[u] - 1] # Nobody)
    BY DEF NextIsClose, Filled
  <2>1. CASE u = t
    BY <1>1, <1>3, <2>1 DEF Filled
  <2>2. CASE u # t
    <3>1. nextSeq[u] >= 1 /\ (nextSeq[u] > 1 => Filled(nextSeq[u] - 1)) /\ nextSeq[u] \in 0..(SeqBound + 1)
      BY <2>2 DEF MessageInv, NextIsClose, TypeOK
    <3>2. nextSeq[u] > 1 => nextSeq[u] - 1 \in Seqs
      BY <3>1, SessionAssumption DEF Seqs
    <3> QED BY <1>2, <2>2, <3>1, <3>2 DEF Filled
  <2> QED BY <2>1, <2>2
<1>6. \A u \in Turns, a \in Seqs, c \in Int :
         Together(u, a, c) /\ c <= SeqBound => \A b \in a..c : author'[b] = u
  <2> SUFFICES ASSUME NEW u \in Turns, NEW a \in Seqs, NEW c \in Int, Together(u, a, c), c <= SeqBound,
                      NEW b \in a..c
               PROVE  author'[b] = u
    OBVIOUS
  <2>1. author[b] = u /\ b \in Seqs
    BY SessionAssumption DEF Together, Seqs
  <2>2. b # s
    BY <1>1, <2>1, AuthorAssumption
  <2> QED BY <1>1, <2>1, <2>2
<1>7. \A u \in Turns, a \in Seqs : u # who /\ author'[a] = u => author[a] = u /\ a # s
  BY <1>1
<1>8. who \in Turns => who = t /\ pc[t] = "talk" /\ pc'[t] = "talk" /\ nextSeq'[t] = s + 1
  BY AuthorAssumption
<1>9. who \in Turns => \A a \in Seqs : author'[a] = who => a <= s /\ \A b \in a..s : author'[b] = who
  <2> SUFFICES ASSUME who \in Turns, NEW a \in Seqs, author'[a] = who
               PROVE  a <= s /\ \A b \in a..s : author'[b] = who
    OBVIOUS
  <2>1. CASE a = s
    BY <1>1, <2>1 DEF Seqs
  <2>2. CASE a # s
    <3>1. author[a] = t /\ a < s /\ Together(t, a, s - 1)
      BY <1>1, <1>8, <2>2 DEF MessageInv, OwnMessages
    <3>2. \A b \in a..(s - 1) : author'[b] = t
      <4>1. s - 1 \in Int /\ s - 1 <= SeqBound
        BY <1>1, SessionAssumption
      <4> QED BY <1>6, <3>1, <4>1
    <3>3. \A b \in a..s : b \in a..(s - 1) \/ b = s
      BY <1>1 DEF Seqs
    <3>4. a <= s
      BY <1>1, <3>1 DEF Seqs
    <3> QED BY <1>1, <1>8, <3>2, <3>3, <3>4
  <2> QED BY <2>1, <2>2
<1>10. OwnMessages'
  <2> SUFFICES ASSUME NEW u \in Turns
               PROVE  /\ pc'[u] \in BeforeTalk => \A a \in Seqs : author'[a] # u
                      /\ pc'[u] = "talk" =>
                            \A a \in Seqs : author'[a] = u =>
                               a < nextSeq'[u] /\ \A b \in a..(nextSeq'[u] - 1) : author'[b] = u
                      /\ \A a, c \in Seqs : a <= c /\ author'[a] = u /\ author'[c] = u
                            => \A b \in a..c : author'[b] = u
    BY DEF OwnMessages, Together, Seqs
  <2>1. CASE u = who
    <3>1. u = t /\ pc'[t] = "talk" /\ nextSeq'[t] = s + 1
      BY <1>8, <2>1
    <3>2. pc'[u] \notin BeforeTalk
      BY <3>1 DEF BeforeTalk
    <3>3. ASSUME NEW a \in Seqs, author'[a] = u
          PROVE  a < nextSeq'[u] /\ \A b \in a..(nextSeq'[u] - 1) : author'[b] = u
      <4>1. a <= s /\ \A b \in a..s : author'[b] = u
        BY <1>9, <2>1, <3>3
      <4>2. nextSeq'[u] = s + 1 /\ nextSeq'[u] - 1 = s
        BY <1>1, <3>1
      <4>3. a < s + 1
        BY <1>1, <4>1 DEF Seqs
      <4> QED BY <4>1, <4>2, <4>3
    <3>4. ASSUME NEW a \in Seqs, NEW c \in Seqs, a <= c, author'[a] = u, author'[c] = u, NEW b \in a..c
          PROVE  author'[b] = u
      <4>1. c <= s /\ \A x \in a..s : author'[x] = u
        BY <1>9, <2>1, <3>4
      <4>2. b \in a..s
        BY <1>1, <4>1 DEF Seqs
      <4> QED BY <4>1, <4>2
    <3> QED BY <3>2, <3>3, <3>4
  <2>2. CASE u # who
    <3>1. \A a \in Seqs : author'[a] = u => author[a] = u /\ a # s
      BY <1>7, <2>2
    <3>2. pc'[u] \in BeforeTalk => pc[u] \in BeforeTalk
      BY DEF BeforeTalk
    <3>3. pc'[u] = "talk" => pc[u] = "talk" /\ nextSeq'[u] = nextSeq[u]
      BY <2>2
    <3>4. ASSUME pc'[u] = "talk", NEW a \in Seqs, author'[a] = u
          PROVE  a < nextSeq'[u] /\ \A b \in a..(nextSeq'[u] - 1) : author'[b] = u
      <4>1. author[a] = u /\ a < nextSeq[u] /\ Together(u, a, nextSeq[u] - 1) /\ nextSeq[u] \in 0..(SeqBound + 1)
        BY <3>1, <3>3, <3>4 DEF MessageInv, OwnMessages, TypeOK
      <4>2. a <= nextSeq[u] - 1 /\ nextSeq[u] - 1 <= SeqBound /\ nextSeq[u] - 1 \in Int
        BY <4>1, SessionAssumption DEF Seqs
      <4>3. \A b \in a..(nextSeq[u] - 1) : author'[b] = u
        BY <1>6, <4>1, <4>2
      <4>4. nextSeq'[u] = nextSeq[u]
        BY <3>3, <3>4
      <4> QED BY <4>1, <4>3, <4>4
    <3>5. ASSUME NEW a \in Seqs, NEW c \in Seqs, a <= c, author'[a] = u, author'[c] = u
          PROVE  \A b \in a..c : author'[b] = u
      <4>1. author[a] = u /\ Together(u, a, c)
        BY <3>1, <3>5 DEF MessageInv, OwnMessages
      <4>2. c <= SeqBound /\ c \in Int
        BY SessionAssumption DEF Seqs
      <4> QED BY <1>6, <4>1, <4>2, ZenonT(40)
    <3> QED BY <3>1, <3>2, <3>4, <3>5 DEF MessageInv, OwnMessages
  <2> QED BY <2>1, <2>2
<1> QED BY <1>4, <1>5, <1>10 DEF MessageInv

LEMMA MessagesInit == Init => MessageInv
<1> SUFFICES ASSUME Init PROVE MessageInv
  OBVIOUS
<1>1. \A a \in Seqs : author[a] = Nobody
  BY DEF Init, Seqs
<1>2. NoGap
  BY <1>1, SessionAssumption DEF NoGap, Filled, Seqs
<1>3. NextIsClose
  BY DEF Init, NextIsClose
<1>4. OwnMessages
  BY <1>1, AuthorAssumption DEF Init, OwnMessages
<1> QED BY <1>2, <1>3, <1>4 DEF MessageInv

LEMMA MessagesNext == TypeOK /\ MessageInv /\ [Next]_vars => MessageInv'
<1> SUFFICES ASSUME TypeOK, MessageInv, [Next]_vars PROVE MessageInv'
  OBVIOUS
<1>1. ASSUME NEW t \in Turns,
             \/ Post(t) \/ Begin(t) \/ Announce(t) \/ AppendFails(t) \/ CloseFails(t)
             \/ JobClaimed(t) \/ JobOpens(t) \/ JobOpenFails(t) \/ JobSettles(t)
             \/ JobRecovers(t) \/ Mirror(t) \/ NoteFails(t)
             \/ Close(t) \/ Catch(t) \/ PreparationFails(t)
      PROVE  MessageInv'
  <2>1. /\ author' = author
        /\ \A u \in Turns \ {t} : pc'[u] = pc[u] /\ nextSeq'[u] = nextSeq[u]
    BY <1>1 DEF Post, Enter, Begin, Announce, AppendFails, CloseFails, JobClaimed, JobOpens,
                JobOpenFails, JobSettles, JobRecovers, Mirror, NoteFails, Close, Catch,
                PreparationFails, Leave, Goto, TypeOK
  <2>2. pc'[t] \notin {"talk", "note"} /\ (pc'[t] \in BeforeTalk => pc[t] \in BeforeTalk)
    BY <1>1 DEF Post, Enter, Begin, Announce, AppendFails, CloseFails, JobClaimed, JobOpens,
                JobOpenFails, JobSettles, JobRecovers, Mirror, NoteFails, AfterNote, Close, Catch,
                PreparationFails, Leave, Goto, TypeOK, BeforeTalk
  <2> QED BY <2>1, <2>2, MessagesQuiet
<1>2. ASSUME NEW t \in Turns, NEW how \in Ways, EndSegment(t, how) PROVE MessageInv'
  <2>1. /\ author' = author /\ nextSeq' = nextSeq
        /\ \A u \in Turns \ {t} : pc'[u] = pc[u]
        /\ pc'[t] = pc[t] \/ pc'[t] \in {"close", "catch"}
    BY <1>2 DEF EndSegment, Goto, TypeOK
  <2> QED BY <2>1, MessagesQuiet DEF BeforeTalk
<1>3. ASSUME NEW t \in Turns, StartTalking(t) \/ ReadSeq(t) PROVE MessageInv'
  BY <1>3, MessagesRead DEF StartTalking, ReadSeq, Goto, TypeOK, BeforeTalk
<1>4. ASSUME NEW t \in Turns, AppendMessage(t) PROVE MessageInv'
  <2>1. /\ Insert(nextSeq[t], t) /\ pc[t] = "talk" /\ pc' = pc
        /\ nextSeq'[t] = nextSeq[t] + 1
        /\ \A u \in Turns \ {t} : nextSeq'[u] = nextSeq[u]
    BY <1>4 DEF AppendMessage, SeqFor, TypeOK
  <2> QED BY <2>1, MessagesWritten
<1>5. ASSUME NEW t \in Turns, Note(t) PROVE MessageInv'
  <2>1. /\ Insert(nextSeq[t], Scheduler) /\ pc[t] = "note"
        /\ pc'[t] \notin {"talk", "note"} /\ pc'[t] \notin BeforeTalk
        /\ \A u \in Turns \ {t} : pc'[u] = pc[u] /\ nextSeq'[u] = nextSeq[u]
    BY <1>5 DEF Note, AfterNote, Goto, TypeOK, BeforeTalk
  <2> QED BY <2>1, MessagesWritten
<1>6. ASSUME NEW t \in Turns, NEW u \in Turns, Abort(t, u) PROVE MessageInv'
  BY <1>6, MessagesQuiet DEF Abort, turn
<1>7. CASE Crash
  <2>1. author' = author /\ \A u \in Turns : pc'[u] = (IF pc[u] \in {"new", "over"} THEN pc[u] ELSE "over")
    BY <1>7 DEF Crash
  <2> QED BY <2>1, MessagesQuiet DEF BeforeTalk
<1>8. CASE Boot
  BY <1>8, MessagesQuiet DEF Boot, turn
<1>9. CASE UNCHANGED vars
  BY <1>9, MessagesQuiet DEF vars, turn
<1> QED BY <1>1, <1>2, <1>3, <1>4, <1>5, <1>6, <1>7, <1>8, <1>9 DEF Next, TurnStep

\* The messages are numbered without a gap, and those of a turn follow one
\* another: a turn's next number is next to what it wrote, and who took it
\* meanwhile ends the turn.
THEOREM MessagesTogether == Spec => []MessagesStayTogether
<1>1. MessageInv => MessagesStayTogether
  <2> SUFFICES ASSUME MessageInv PROVE MessagesStayTogether
    OBVIOUS
  <2>1. \A s \in 2..SeqBound : author[s] # Nobody => author[s - 1] # Nobody
    BY DEF MessageInv, NoGap, Filled
  <2>2. ASSUME NEW a \in Seqs, NEW b \in Seqs, NEW c \in Seqs,
               a < b, b < c, author[a] \in Turns, author[a] = author[c]
        PROVE  author[b] = author[a]
    <3>1. a <= c /\ b \in a..c
      BY <2>2, SessionAssumption DEF Seqs
    <3>2. Together(author[a], a, c)
      BY <2>2, <3>1 DEF MessageInv, OwnMessages
    <3> QED BY <3>1, <3>2 DEF Together
  <2> QED BY <2>1, <2>2 DEF MessagesStayTogether, Seqs
<1> QED BY <1>1, SessionTypes, MessagesInit, MessagesNext, PTL DEF Spec

-----------------------------------------------------------------------------
(* Aborts.                                                                 *)

\* A step of a turn that leaves what was accepted alone.
AloneWithMark(t) ==
    /\ accepted' = accepted
    /\ \A u \in Turns \ {t} :
          pc'[u] = pc[u] /\ outcome'[u] = outcome[u] /\ abortRequested'[u] = abortRequested[u]

LEMMA AbortQuiet ==
    ASSUME AbortInv, NEW t \in Turns, AloneWithMark(t),
           outcome'[t] \in {outcome[t], "failed", "lost"},
           \/ pc'[t] = pc[t] /\ abortRequested'[t] = abortRequested[t] /\ outcome'[t] = outcome[t]
           \/ /\ pc[t] \in BeforeTalk /\ pc'[t] \in BeforeTalk \cup {"talk"}
              /\ abortRequested'[t] = abortRequested[t] /\ outcome'[t] = outcome[t]
           \/ pc'[t] \notin BeforeTalk \cup {"talk"} /\ ~abortRequested'[t]
    PROVE  AbortInv'
<1>1. MarkIsMeant(t)'
  BY DEF AbortInv, MarkIsMeant, AloneWithMark, BeforeTalk
<1>2. \A u \in Turns \ {t} : MarkIsMeant(u)'
  BY DEF AbortInv, MarkIsMeant, AloneWithMark
<1> QED BY <1>1, <1>2 DEF AbortInv

LEMMA AbortNext == TypeOK /\ AbortInv /\ [Next]_vars => AbortInv'
<1> SUFFICES ASSUME TypeOK, AbortInv, [Next]_vars PROVE AbortInv'
  OBVIOUS
<1> USE DEF turn, chain, history
<1>1. ASSUME NEW t \in Turns,
             \/ Post(t) \/ Begin(t) \/ Announce(t) \/ StartTalking(t) \/ JobClaimed(t) \/ JobOpens(t)
      PROVE  AbortInv'
  <2>1. /\ AloneWithMark(t) /\ outcome' = outcome /\ abortRequested' = abortRequested
        /\ pc[t] \in BeforeTalk /\ pc'[t] \in BeforeTalk \cup {"talk"}
    BY <1>1 DEF Post, Enter, Begin, Announce, StartTalking, JobClaimed, JobOpens, Goto, TypeOK,
                AloneWithMark, BeforeTalk
  <2> QED BY <2>1, AbortQuiet
<1>2. ASSUME NEW t \in Turns, AppendMessage(t) PROVE AbortInv'
  BY <1>2, AbortQuiet DEF AppendMessage, AloneWithMark
<1>3. ASSUME NEW t \in Turns, AppendFails(t) PROVE AbortInv'
  <2>1. AloneWithMark(t) /\ outcome' = outcome /\ pc'[t] = "catch" /\ ~abortRequested'[t]
    BY <1>3 DEF AppendFails, Unregister, Goto, TypeOK, AloneWithMark
  <2> QED BY <2>1, AbortQuiet DEF BeforeTalk
<1>4. ASSUME NEW t \in Turns,
             \/ Close(t) \/ Catch(t) \/ PreparationFails(t) \/ CloseFails(t)
             \/ JobOpenFails(t) \/ JobSettles(t) \/ JobRecovers(t)
             \/ Mirror(t) \/ ReadSeq(t) \/ Note(t) \/ NoteFails(t)
      PROVE  AbortInv'
  <2>1. /\ accepted' = accepted /\ abortRequested' = abortRequested /\ pc[t] # "talk"
        /\ pc'[t] \notin BeforeTalk \cup {"talk"}
        /\ \A u \in Turns \ {t} : pc'[u] = pc[u]
    BY <1>4 DEF Close, Catch, PreparationFails, Leave, CloseFails, JobOpenFails, JobSettles,
                JobRecovers, Mirror, ReadSeq, Note, NoteFails, AfterNote, Goto, TypeOK, BeforeTalk
  <2>2. /\ outcome'[t] \in {outcome[t], "failed"}
        /\ \A u \in Turns \ {t} : outcome'[u] = outcome[u]
    BY <1>4 DEF Close, Catch, PreparationFails, Leave, CloseFails, JobOpenFails, JobSettles,
                JobRecovers, Mirror, ReadSeq, Note, NoteFails, TypeOK
  <2>3. ~abortRequested'[t]
    BY <2>1 DEF AbortInv, MarkIsMeant
  <2>4. AloneWithMark(t)
    BY <2>1, <2>2 DEF AloneWithMark
  <2> QED BY <2>1, <2>2, <2>3, <2>4, AbortQuiet
<1>5. ASSUME NEW t \in Turns, NEW how \in Ways, EndSegment(t, how) PROVE AbortInv'
  <2>1. AloneWithMark(t) /\ ~abortRequested'[t] /\ pc[t] = "talk"
    BY <1>5 DEF EndSegment, Unregister, Goto, TypeOK, AloneWithMark
  <2>2. outcome[t] = "none" /\ (t \in accepted <=> abortRequested[t])
    BY <2>1 DEF AbortInv, MarkIsMeant
  <2>3. \/ /\ pc'[t] = "close"
           /\ outcome'[t] = IF Aborted(t, how) THEN "cancelled"
                            ELSE IF how = "stop" THEN "complete" ELSE "failed"
        \/ ~Aborted(t, how) /\ outcome'[t] = "none" /\ pc'[t] \in {"talk", "catch"}
    <3>1. /\ pc' = [pc EXCEPT ![t] = "close"] => pc'[t] = "close"
          /\ pc' = [pc EXCEPT ![t] = "catch"] => pc'[t] = "catch"
          /\ \A x : outcome' = [outcome EXCEPT ![t] = x] => outcome'[t] = x
      BY DEF TypeOK
    <3>2. CASE outcome' = outcome
      BY <1>5, <2>1, <2>2, <3>1, <3>2 DEF EndSegment, Goto
    <3>3. CASE outcome' # outcome
      BY <1>5, <3>1, <3>3 DEF EndSegment, Goto
    <3> QED BY <3>2, <3>3
  <2>4. Aborted(t, how) <=> abortRequested[t]
    BY <1>5 DEF EndSegment, Aborted
  <2>5. accepted' = accepted
    BY <2>1 DEF AloneWithMark
  <2>6. MarkIsMeant(t)'
    BY <2>1, <2>2, <2>3, <2>4, <2>5 DEF MarkIsMeant, BeforeTalk
  <2>7. \A u \in Turns \ {t} : MarkIsMeant(u)'
    BY <2>1 DEF AbortInv, MarkIsMeant, AloneWithMark
  <2> QED BY <2>6, <2>7 DEF AbortInv
<1>6. ASSUME NEW t \in Turns, NEW u \in Turns, Abort(t, u) PROVE AbortInv'
  <2>1. /\ u = t /\ pc[t] = "talk" /\ accepted' = accepted \cup {t} /\ abortRequested'[t]
        /\ pc' = pc /\ outcome' = outcome
        /\ \A w \in Turns \ {t} : abortRequested'[w] = abortRequested[w]
    BY <1>6 DEF Abort, RunMatches, TypeOK
  <2>2. MarkIsMeant(t)'
    BY <2>1 DEF AbortInv, MarkIsMeant, BeforeTalk
  <2>3. \A w \in Turns \ {t} : MarkIsMeant(w)'
    BY <2>1 DEF AbortInv, MarkIsMeant
  <2> QED BY <2>2, <2>3 DEF AbortInv
<1>7. CASE Crash
  <2> SUFFICES ASSUME NEW t \in Turns PROVE MarkIsMeant(t)'
    BY DEF AbortInv
  <2>1. /\ accepted' = accepted /\ ~abortRequested'[t]
        /\ pc'[t] = IF pc[t] \in {"new", "over"} THEN pc[t] ELSE "over"
        /\ outcome'[t] \in {outcome[t], "lost"} /\ (pc[t] = "new" => outcome'[t] = outcome[t])
    BY <1>7 DEF Crash
  <2> QED BY <2>1 DEF AbortInv, MarkIsMeant, BeforeTalk
<1>8. CASE Boot
  BY <1>8 DEF Boot, AbortInv, MarkIsMeant
<1>9. CASE UNCHANGED vars
  BY <1>9 DEF vars, AbortInv, MarkIsMeant
<1> QED BY <1>1, <1>2, <1>3, <1>4, <1>5, <1>6, <1>7, <1>8, <1>9 DEF Next, TurnStep

\* An abort that was accepted ends the turn it was meant for, even if the
\* answer was just complete, and no other: the mark stays on that run until
\* the segment that finds it.
THEOREM AbortsHit == Spec => []AbortHitsItsTurn
<1>1. Init => AbortInv
  BY DEF Init, AbortInv, MarkIsMeant
<1>2. AbortInv => AbortHitsItsTurn
  BY DEF AbortInv, MarkIsMeant, AbortHitsItsTurn
<1> QED BY <1>1, <1>2, AbortNext, SessionTypes, PTL DEF Spec

-----------------------------------------------------------------------------
(* The status of the session.                                              *)

\* While the process is down no turn is under way, so a step of a turn is one
\* of a process that is up.
LEMMA StatusQuiet ==
    ASSUME StatusInv, NEW t \in Turns, up', up,
           \A u \in Turns \ {t} : pc'[u] = pc[u] /\ outcome'[u] = outcome[u],
           \A u \in Turns \ {t} : u \in jobRunning' <=> u \in jobRunning,
           pc'[t] = "open" => t \in JobTurns,
           status' = "running" /\ ~strayed' =>
              \/ SeesToStatus(t)'
              \/ status = "running" /\ ~strayed /\ ~SeesToStatus(t)
    PROVE  StatusInv'
<1>0. \A u \in Turns : pc'[u] = "open" => u \in JobTurns
  BY DEF StatusInv
<1> SUFFICES ASSUME status' = "running", ~strayed', ~SeesToStatus(t)'
             PROVE  \E u \in Turns : SeesToStatus(u)'
  BY <1>0 DEF StatusInv
<1>1. PICK u \in Turns : SeesToStatus(u)
  BY DEF StatusInv
<1>2. u # t
  BY <1>1
<1>3. SeesToStatus(u)'
  BY <1>1, <1>2 DEF SeesToStatus
<1> QED BY <1>3

\* What the chain and the model do to the status.
LEMMA StatusOfTurn ==
    ASSUME StatusInv, TypeOK, NEW t \in Turns,
           \/ Begin(t) \/ Announce(t) \/ StartTalking(t) \/ AppendMessage(t) \/ AppendFails(t)
           \/ Close(t) \/ Catch(t) \/ Post(t) \/ PreparationFails(t) \/ CloseFails(t)
           \/ \E how \in Ways : EndSegment(t, how)
    PROVE  StatusInv'
<1> USE DEF turn, chain, history
<1>1. t \in UserTurns \/ t \in JobTurns
  BY DEF Turns
<1>2. pc[t] \in {"new", "over"} => Post(t)
  BY DEF Begin, Announce, StartTalking, AppendMessage, AppendFails, Close, Catch, PreparationFails,
         CloseFails, EndSegment
<1>3. up /\ up' = up
  BY <1>2 DEF Begin, Announce, StartTalking, AppendMessage, AppendFails, Close, Catch, Post,
              PreparationFails, CloseFails, EndSegment, StatusInv
<1>4. /\ \A u \in Turns \ {t} : pc'[u] = pc[u] /\ outcome'[u] = outcome[u]
      /\ jobRunning' = jobRunning
  BY DEF Begin, Announce, StartTalking, AppendMessage, AppendFails, Close, Catch, Post, Enter, Leave,
         PreparationFails, CloseFails, EndSegment, Goto, TypeOK
<1>A. pc'[t] # "open"
  BY DEF Begin, Announce, StartTalking, AppendMessage, AppendFails, Close, Catch, Post, Enter, Leave,
         PreparationFails, CloseFails, EndSegment, Goto, TypeOK
<1>5. CASE Post(t) \/ Begin(t)
  <2>1. /\ status' = status /\ strayed' = strayed
        /\ t \in UserTurns => t \notin JobTurns /\ t \notin jobRunning /\ pc[t] \in {"new", "wait"}
        /\ t \in JobTurns => pc'[t] = "number" \/ t \in UserTurns
    BY <1>5, SessionAssumption DEF Post, Begin, Enter, Goto, TypeOK
  <2>2. t \in UserTurns => ~SeesToStatus(t)
    BY <2>1 DEF SeesToStatus, Body
  <2>3. t \notin UserTurns => SeesToStatus(t)'
    BY <1>1, <2>1 DEF SeesToStatus, Body
  <2> QED BY <1>3, <1>4, <2>1, <2>2, <2>3, <1>A, StatusQuiet
<1>6. CASE \/ Announce(t) \/ StartTalking(t) \/ AppendMessage(t) \/ AppendFails(t) \/ CloseFails(t)
           \/ \E how \in Ways : EndSegment(t, how)
  <2>1. pc'[t] \in Body \ {"announce"}
    BY <1>6 DEF Announce, StartTalking, AppendMessage, AppendFails, CloseFails, EndSegment, Goto,
                TypeOK, Body
  <2>2. SeesToStatus(t)'
    BY <1>1, <2>1 DEF SeesToStatus
  <2> QED BY <1>3, <1>4, <2>2, <1>A, StatusQuiet
<1>7. CASE Close(t) \/ Catch(t) \/ PreparationFails(t)
  <2>1. t \in JobTurns => pc'[t] = "settle"
    BY <1>7, SessionAssumption DEF Close, Catch, PreparationFails, Leave, Goto, TypeOK
  <2>2. t \in JobTurns => SeesToStatus(t)'
    BY <2>1 DEF SeesToStatus
  <2>3. t \in UserTurns => status' # "running" \/ strayed'
    BY <1>7 DEF Close, Catch, PreparationFails, Shown, StatusAfterError
  <2> QED BY <1>1, <1>3, <1>4, <2>2, <2>3, <1>A, StatusQuiet
<1> QED BY <1>5, <1>6, <1>7

\* What the scheduler does to the status.
LEMMA StatusOfJob ==
    ASSUME StatusInv, TypeOK, NEW t \in Turns,
           \/ JobClaimed(t) \/ JobOpens(t) \/ JobOpenFails(t) \/ JobSettles(t) \/ JobRecovers(t)
           \/ Mirror(t) \/ ReadSeq(t) \/ Note(t) \/ NoteFails(t)
    PROVE  StatusInv'
<1> USE DEF turn, chain, history
<1>1. t \in UserTurns \/ t \in JobTurns
  BY DEF Turns
<1>2. up /\ up' = up
  BY DEF JobClaimed, JobOpens, JobOpenFails, JobSettles, JobRecovers, Mirror, ReadSeq, Note, NoteFails,
         StatusInv
<1>3. /\ \A u \in Turns \ {t} : pc'[u] = pc[u] /\ outcome'[u] = outcome[u]
      /\ \A u \in Turns \ {t} : u \in jobRunning' <=> u \in jobRunning
  BY DEF JobClaimed, JobOpens, Enter, JobOpenFails, JobSettles, JobRecovers, Mirror, ReadSeq, Note,
         NoteFails, Goto, TypeOK
<1>4. CASE JobClaimed(t)
  <2>1. SeesToStatus(t)' /\ t \in JobTurns
    BY <1>4 DEF JobClaimed, SeesToStatus
  <2> QED BY <1>2, <1>3, <2>1, StatusQuiet
<1>5. CASE JobOpens(t)
  <2>1. t \in JobTurns /\ pc'[t] = "wait"
    BY <1>5 DEF JobOpens, Enter, Goto, TypeOK, StatusInv
  <2> QED BY <1>2, <1>3, <2>1, StatusQuiet DEF SeesToStatus
<1>6. CASE JobOpenFails(t)
  <2>1. pc[t] = "open" /\ pc'[t] = "settle" /\ t \in JobTurns
    BY <1>6 DEF JobOpenFails, Goto, TypeOK, StatusInv
  <2> QED BY <1>2, <1>3, <2>1, StatusQuiet DEF SeesToStatus
<1>7. CASE JobSettles(t)
  <2>1. /\ pc[t] = "settle" /\ status' = status /\ strayed' = strayed
        /\ pc'[t] = "mirror" \/ (pc'[t] = "readSeq" /\ outcome'[t] # "failed")
    BY <1>7 DEF JobSettles, Goto, TypeOK
  <2>2. t \in JobTurns => SeesToStatus(t)'
    BY <2>1 DEF SeesToStatus
  <2>3. t \notin JobTurns => ~SeesToStatus(t)
    BY <2>1 DEF SeesToStatus, Body, TypeOK
  <2> QED BY <1>2, <1>3, <2>1, <2>2, <2>3, StatusQuiet
<1>8. CASE JobRecovers(t)
  <2>1. t \in JobTurns /\ pc'[t] = "mirror"
    BY <1>8 DEF JobRecovers, Goto, TypeOK
  <2> QED BY <1>2, <1>3, <2>1, StatusQuiet DEF SeesToStatus
<1>9. CASE Mirror(t)
  <2>1. (status' # "running" \/ strayed') /\ pc'[t] # "open"
    BY <1>9 DEF Mirror, Mirrored, Goto, TypeOK
  <2> QED BY <1>2, <1>3, <2>1, StatusQuiet
<1>10. CASE ReadSeq(t)
  <2>1. /\ pc[t] = "readSeq" /\ pc'[t] = "note" /\ outcome'[t] = outcome[t]
        /\ jobRunning' = jobRunning /\ status' = status /\ strayed' = strayed
    BY <1>10 DEF ReadSeq, Goto, TypeOK
  <2>2. SeesToStatus(t) => SeesToStatus(t)'
    BY <2>1 DEF SeesToStatus, Body
  <2> QED BY <1>2, <1>3, <2>1, <2>2, StatusQuiet
<1>11. CASE Note(t) \/ NoteFails(t)
  <2>1. /\ pc[t] \in {"readSeq", "note"} /\ outcome'[t] = outcome[t]
        /\ pc'[t] = IF outcome[t] = "failed" THEN "over" ELSE "mirror"
        /\ jobRunning' = jobRunning /\ status' = status /\ strayed' = strayed
    BY <1>11 DEF Note, NoteFails, AfterNote, Goto, TypeOK
  <2>2. SeesToStatus(t) => SeesToStatus(t)'
    BY <2>1 DEF SeesToStatus, Body
  <2> QED BY <1>2, <1>3, <2>1, <2>2, StatusQuiet
<1> QED BY <1>4, <1>5, <1>6, <1>7, <1>8, <1>9, <1>10, <1>11

LEMMA StatusNext == TypeOK /\ StatusInv /\ [Next]_vars => StatusInv'
<1> SUFFICES ASSUME TypeOK, StatusInv, [Next]_vars PROVE StatusInv'
  OBVIOUS
<1> USE DEF turn, chain, history
<1>1. ASSUME NEW t \in Turns,
             TurnStep(t) \/ AppendMessage(t) \/ Post(t) \/ JobClaimed(t)
             \/ PreparationFails(t) \/ CloseFails(t) \/ JobOpenFails(t)
      PROVE  StatusInv'
  BY <1>1, StatusOfTurn, StatusOfJob DEF TurnStep
<1>2. ASSUME NEW t \in Turns, NEW u \in Turns, Abort(t, u) PROVE StatusInv'
  BY <1>2 DEF Abort, StatusInv, SeesToStatus
<1>3. CASE Crash
  <2>1. ~up' /\ \A t \in Turns : pc'[t] = IF pc[t] \in {"new", "over"} THEN pc[t] ELSE "over"
    BY <1>3 DEF Crash
  <2>2. \A t \in Turns : pc'[t] \in {"new", "over"} /\ pc'[t] # "open"
    BY <2>1
  <2> QED BY <2>1, <2>2 DEF StatusInv
<1>4. CASE Boot
  <2>1. /\ pc' = pc /\ jobRunning' = jobRunning /\ up'
        /\ status' = "running" => jobRunning # {}
    BY <1>4 DEF Boot
  <2>2. jobRunning \subseteq Turns
    BY DEF TypeOK, Turns
  <2>3. status' = "running" => \E t \in Turns : SeesToStatus(t)'
    BY <2>1, <2>2 DEF SeesToStatus
  <2> QED BY <2>1, <2>3 DEF StatusInv
<1>5. CASE UNCHANGED vars
  BY <1>5 DEF vars, StatusInv, SeesToStatus
<1> QED BY <1>1, <1>2, <1>3, <1>4, <1>5 DEF Next

\* When nobody works in the session it does not say it is running: from the
\* moment it does there is a turn, an attempt or a row of a running run whose
\* end will say otherwise.
THEOREM StatusIsSettled == Spec => []StatusSettles
<1>1. Init => StatusInv
  BY DEF Init, StatusInv
<1>2. TypeOK /\ StatusInv => StatusSettles
  BY DEF StatusInv, StatusSettles, SeesToStatus, Body
<1> QED BY <1>1, <1>2, StatusNext, SessionTypes, PTL DEF Spec

-----------------------------------------------------------------------------
(* Confirmations.                                                          *)

USE ConfirmationsAssumption

\* A request has arrived if it is of a kind; the user decides on a proposal
\* that was made; a tool call does not look for stale ones.
Shaped ==
    \A r \in Requests :
        /\ request[r].kind = "none" => request[r].step = "idle"
        /\ request[r].kind = "write" => request[r].step \in {"begin", "mutex", "execute", "commit", "end"}
        /\ request[r].kind \in {"approve", "reject"} =>
              request[r].p \in Proposals /\ request[r].step # "idle"
        /\ request[r].kind = "reject" => request[r].step \notin {"mutex", "execute"}

TypeInv == ConfirmationsTypeOK /\ Shaped

\* The request has looked at its proposal's row under the lock of it.
HasRow(r) ==
    \/ request[r].kind = "approve" /\ request[r].step \in {"mutex", "execute", "commit"}
    \/ request[r].kind = "reject" /\ request[r].step = "commit"

\* The request has locked the target's rows and compared them.
HasTarget(r) ==
    /\ request[r].step = "commit"
    /\ request[r].kind = "approve" \/ (request[r].kind = "write" /\ request[r].writes)

\* A proposal whose row is locked waits for its decision; a target that is
\* locked is as the snapshot has it, and as the user was shown.
Guards(r) ==
    /\ HasRow(r) => /\ rowLock[request[r].p] = r
                    /\ confirmation[request[r].p].status = "pending"
    /\ HasTarget(r) => targetLock = r /\ version = request[r].sawVersion /\ Matches(r)

\* The session is about to be told what was decided.
TellsTruth(r) ==
    request[r].step = "announce" => confirmation[request[r].p].status = Decision(r)

\* Only a proposal that was made is decided.
IsMade(r) ==
    request[r].kind \in {"approve", "reject"} => confirmation[request[r].p].status # "absent"

\* What a session has been told is a decision.
Told ==
    /\ \A p \in Proposals : announced[p] \in {"absent", "approved", "rejected"}
    /\ AnnouncedWasDecided

ApprovalInv ==
    /\ \A r \in Requests : Guards(r) /\ TellsTruth(r) /\ IsMade(r)
    /\ Told /\ DoneIffApproved /\ ApprovedAsShown

-----------------------------------------------------------------------------

\* The records a table and a request begin with are of their types.
LEMMA FreshType == Fresh \in ProposalType
BY DEF Fresh, ProposalType, ProposalStatus, AllTools, Registered

LEMMA IdleType == Idle \in RequestType
BY DEF Idle, RequestType, RequestKinds, RequestSteps, ProposalStatus, AllTools, Registered

\* Nothing has arrived in a fresh database.
LEMMA TypeInit == ConfirmationsInit => TypeInv
<1> SUFFICES ASSUME ConfirmationsInit PROVE TypeInv
  OBVIOUS
<1>1. "absent" \in ProposalStatus
  BY DEF ProposalStatus
<1>2. ConfirmationsTypeOK
  BY <1>1, FreshType, IdleType DEF ConfirmationsInit, ConfirmationsTypeOK
<1>3. Shaped
  BY DEF ConfirmationsInit, Shaped, Idle
<1> QED BY <1>2, <1>3 DEF TypeInv

\* What the tables and locks hold, apart from the requests.
TablesOK ==
    /\ confirmation \in [Proposals -> ProposalType] /\ version \in 0..VersionBound
    /\ disturbances \in 0..Disturbances
    /\ {targetLock, mutex} \subseteq Requests \cup {NoRequest}
    /\ rowLock \in [Proposals -> Requests \cup {NoRequest}]
    /\ done \in [Proposals -> Nat] /\ doneOn \in [Proposals -> 0..VersionBound]
    /\ announced \in [Proposals -> ProposalStatus] /\ audited \in [Proposals -> Nat]

\* Moving on with a request, and ending it, keeps the types.
LEMMA TypeMove ==
  ASSUME TypeInv, NEW r \in Requests, NEW step \in RequestSteps \ {"idle"}, Move(r, step),
         request[r].kind = "write" => step \in {"begin", "mutex", "execute", "commit", "end"},
         request[r].kind = "reject" => step \notin {"mutex", "execute"},
         request[r].kind # "none", TablesOK'
  PROVE  TypeInv'
<1>1. request' \in [Requests -> RequestType]
  BY DEF TypeInv, ConfirmationsTypeOK, RequestType, Move
<1>2. ConfirmationsTypeOK'
  BY <1>1 DEF ConfirmationsTypeOK, TablesOK
<1>3. Shaped'
  BY DEF TypeInv, ConfirmationsTypeOK, RequestType, Shaped, Move
<1> QED BY <1>2, <1>3 DEF TypeInv

\* A status that is written, and a proposal that grows old, are of their type.
LEMMA MarkedType ==
  ASSUME NEW old \in ProposalType, NEW newStatus \in ProposalStatus
  PROVE  /\ [old EXCEPT !.status = newStatus] \in ProposalType
         /\ [old EXCEPT !.aged = TRUE] \in ProposalType
BY DEF ProposalType

\* A request that arrives is of a kind and a shape, and what the user decides
\* on is there.
LEMMA Arrives ==
  ASSUME TypeInv, NEW r \in Requests,
         CallTool(r) \/ \E kind \in {"approve", "reject"}, p \in Proposals : Decide(r, kind, p)
  PROVE  \E new \in RequestType :
             /\ request' = [request EXCEPT ![r] = new]
             /\ \/ new.kind = "write" /\ new.step = "begin"
                \/ /\ new.kind \in {"approve", "reject"} /\ new.step = "expire" /\ new.p \in Proposals
                   /\ confirmation[new.p].status # "absent"
<1>0. Idle \in RequestType
  BY IdleType
<1>1. CASE CallTool(r)
  <2>1. PICK tool \in Tools, yolo \in BOOLEAN :
           request' = [request EXCEPT ![r] = [Idle EXCEPT !.kind = "write", !.step = "begin",
                           !.tool = tool, !.writes = WritesAtOnce(tool, yolo)]]
    BY <1>1 DEF CallTool
  <2> DEFINE new == [Idle EXCEPT !.kind = "write", !.step = "begin", !.tool = tool,
                                 !.writes = WritesAtOnce(tool, yolo)]
  <2>2. WritesAtOnce(tool, yolo) \in BOOLEAN /\ tool \in AllTools
    BY DEF WritesAtOnce
  <2>3. new \in RequestType /\ new.kind = "write" /\ new.step = "begin"
    BY <1>0, <2>2 DEF RequestType, RequestKinds, RequestSteps
  <2>4. request' = [request EXCEPT ![r] = new]
    BY <2>1
  <2> HIDE DEF new
  <2> QED BY <2>3, <2>4
<1>2. ASSUME NEW kind \in {"approve", "reject"}, NEW p \in Proposals, Decide(r, kind, p)
      PROVE  \E new \in RequestType :
                 /\ request' = [request EXCEPT ![r] = new]
                 /\ new.kind \in {"approve", "reject"} /\ new.step = "expire" /\ new.p \in Proposals
                 /\ confirmation[new.p].status # "absent"
  <2> DEFINE new == [Idle EXCEPT !.kind = kind, !.step = "expire", !.p = p]
  <2>1. request' = [request EXCEPT ![r] = new] /\ confirmation[p].status # "absent"
    BY <1>2 DEF Decide
  <2>2. new \in RequestType /\ new.kind = kind /\ new.step = "expire" /\ new.p = p
    BY <1>0 DEF RequestType, RequestKinds, RequestSteps
  <2> HIDE DEF new
  <2> QED BY <2>1, <2>2
<1> QED BY <1>1, <1>2

\* So the types are kept.
LEMMA TypeArrive ==
  ASSUME TypeInv, NEW r \in Requests,
         CallTool(r) \/ \E kind \in {"approve", "reject"}, p \in Proposals : Decide(r, kind, p)
  PROVE  TypeInv'
<1>1. PICK new \in RequestType :
             /\ request' = [request EXCEPT ![r] = new]
             /\ \/ new.kind = "write" /\ new.step = "begin"
                \/ new.kind \in {"approve", "reject"} /\ new.step = "expire" /\ new.p \in Proposals
  BY Arrives
<1>2. UNCHANGED <<confirmation, version, locks, disturbances, record>>
  BY DEF CallTool, Decide
<1>3. ConfirmationsTypeOK'
  BY <1>1, <1>2 DEF TypeInv, ConfirmationsTypeOK, locks, record
<1>4. Shaped'
  BY <1>1 DEF TypeInv, ConfirmationsTypeOK, Shaped
<1> QED BY <1>3, <1>4 DEF TypeInv

\* Letting go of locks keeps their types.
LEMMA TypeReleased ==
  ASSUME TypeInv, NEW r \in Requests, LocksReleased(r)
  PROVE  /\ {targetLock', mutex'} \subseteq Requests \cup {NoRequest}
         /\ rowLock' \in [Proposals -> Requests \cup {NoRequest}]
BY DEF TypeInv, ConfirmationsTypeOK, LocksReleased

\* What a request is, of its type.
LEMMA RequestFields ==
  ASSUME TypeInv, NEW r \in Requests
  PROVE  /\ request[r].kind \in RequestKinds /\ request[r].step \in RequestSteps
         /\ request[r].sawVersion \in 0..VersionBound
         /\ request[r].kind # "none" => request[r].step # "idle"
         /\ request[r].kind \in {"approve", "reject"} => request[r].p \in Proposals
         /\ request[r].step \in {"expire", "row", "announce"} => request[r].kind \in {"approve", "reject"}
BY DEF TypeInv, ConfirmationsTypeOK, RequestType, Shaped, RequestKinds

\* The first statement of a transaction takes its snapshot.
LEMMA TypeBegin ==
  ASSUME TypeInv, NEW r \in Requests, BeginWrite(r) \/ BeginApproval(r) \/ BeginRejection(r)
  PROVE  TypeInv'
<1>1. CASE BeginWrite(r)
  <2> DEFINE new == [request[r] EXCEPT !.step = "mutex", !.sawVersion = version]
  <2>1. new \in RequestType /\ new.kind = "write" /\ new.step = "mutex"
    BY <1>1 DEF BeginWrite, At, TypeInv, ConfirmationsTypeOK, RequestType, RequestSteps
  <2>2. request' = [request EXCEPT ![r] = new]
    BY <1>1 DEF BeginWrite, TypeInv, ConfirmationsTypeOK
  <2> HIDE DEF new
  <2>3. ConfirmationsTypeOK'
    BY <1>1, <2>1, <2>2 DEF BeginWrite, locks, record, TypeInv, ConfirmationsTypeOK
  <2>4. Shaped'
    BY <2>1, <2>2 DEF TypeInv, ConfirmationsTypeOK, Shaped
  <2> QED BY <2>3, <2>4 DEF TypeInv
<1>2. CASE BeginApproval(r)
  <2>1. request[r].p \in Proposals /\ confirmation[request[r].p].status \in ProposalStatus
    BY <1>2, RequestFields DEF BeginApproval, At, TypeInv, ConfirmationsTypeOK, ProposalType
  <2> DEFINE new == [request[r] EXCEPT !.step = "row", !.sawVersion = version,
                                       !.sawStatus = confirmation[request[r].p].status]
  <2>2. new \in RequestType /\ new.kind = "approve" /\ new.step = "row" /\ new.p = request[r].p
    BY <1>2, <2>1 DEF BeginApproval, At, TypeInv, ConfirmationsTypeOK, RequestType, RequestSteps
  <2>3. request' = [request EXCEPT ![r] = new]
    BY <1>2 DEF BeginApproval, TypeInv, ConfirmationsTypeOK
  <2> HIDE DEF new
  <2>4. ConfirmationsTypeOK'
    BY <1>2, <2>2, <2>3, ZenonT(40) DEF BeginApproval, locks, record, TypeInv, ConfirmationsTypeOK
  <2>5. Shaped'
    BY <2>1, <2>2, <2>3 DEF TypeInv, ConfirmationsTypeOK, Shaped
  <2> QED BY <2>4, <2>5 DEF TypeInv
<1>3. CASE BeginRejection(r)
  BY <1>3, TypeMove DEF BeginRejection, At, locks, record, RequestSteps, TypeInv, ConfirmationsTypeOK, TablesOK
<1> QED BY <1>1, <1>2, <1>3

\* What ends a transaction without a change of the tables keeps the types.
LEMMA TypeEnds ==
  ASSUME TypeInv, NEW r \in Requests,
         \/ MutexBusy(r) \/ ApprovalRefused(r) \/ ExecutionRefused(r) \/ RejectionRefused(r)
         \/ Breaks(r) \/ AnnouncementLost(r)
  PROVE  TypeInv'
<1>1. request[r].kind # "none" /\ "end" \in RequestSteps \ {"idle"}
  BY RequestFields DEF MutexBusy, ApprovalRefused, ExecutionRefused, RejectionRefused, Breaks,
     AnnouncementLost, At, RequestSteps, TypeInv, Shaped
<1>2. CASE MutexBusy(r) \/ ApprovalRefused(r) \/ ExecutionRefused(r) \/ RejectionRefused(r)
  <2>1. RollsBack(r)
    BY <1>2 DEF MutexBusy, ApprovalRefused, ExecutionRefused, RejectionRefused
  <2>2. TablesOK'
    BY <2>1, TypeReleased DEF RollsBack, record, TypeInv, ConfirmationsTypeOK, TablesOK
  <2> QED BY <1>1, <2>1, <2>2, TypeMove DEF RollsBack
<1>3. CASE Breaks(r) \/ AnnouncementLost(r)
  <2>1. /\ Move(r, "end") /\ UNCHANGED <<confirmation, version, record>>
        /\ disturbances' \in 0..Disturbances
        /\ {targetLock', mutex'} \subseteq Requests \cup {NoRequest}
        /\ rowLock' \in [Proposals -> Requests \cup {NoRequest}]
    BY <1>3, TypeReleased DEF Breaks, AnnouncementLost, Disturb, locks, TypeInv, ConfirmationsTypeOK
  <2>2. TablesOK'
    BY <2>1 DEF record, TypeInv, ConfirmationsTypeOK, TablesOK
  <2> QED BY <1>1, <2>1, <2>2, TypeMove
<1> QED BY <1>2, <1>3

\* So does what takes a lock, tells the session, or lets stale proposals expire.
LEMMA TypeLocks ==
  ASSUME TypeInv, NEW r \in Requests,
         TakeMutex(r) \/ LockForApproval(r) \/ LockForRejection(r) \/ Execute(r)
  PROVE  TypeInv'
<1>1. /\ \E step \in {"commit", "execute", "mutex"} :
            Move(r, step) /\ (request[r].kind = "reject" => step = "commit")
      /\ request[r].kind # "none"
  BY RequestFields DEF TakeMutex, LockForApproval, LockForRejection, Execute, At, TypeInv, Shaped
<1>2. PICK step \in {"commit", "execute", "mutex"} :
         Move(r, step) /\ (request[r].kind = "reject" => step = "commit")
  BY <1>1
<1>3. step \in RequestSteps \ {"idle"}
  BY DEF RequestSteps
<1>4. TablesOK'
  BY DEF TakeMutex, LockForApproval, LockForRejection, Execute, record, TypeInv, ConfirmationsTypeOK,
     TablesOK
<1> QED BY <1>1, <1>2, <1>3, <1>4, TypeMove

\* A commit writes what is of its type.
LEMMA TypeCommits ==
  ASSUME TypeInv, NEW r \in Requests,
         \/ ExpireStale(r) \/ CommitProposal(r) \/ CommitDirectWrite(r)
         \/ CommitApproval(r) \/ CommitRejection(r) \/ AnnounceOutcome(r)
  PROVE  TypeInv'
<1>1. /\ confirmation' \in [Proposals -> ProposalType] /\ version' \in 0..VersionBound
      /\ done' \in [Proposals -> Nat] /\ doneOn' \in [Proposals -> 0..VersionBound]
      /\ announced' \in [Proposals -> ProposalStatus] /\ audited' \in [Proposals -> Nat]
      /\ disturbances' = disturbances
  <2> USE DEF TypeInv, ConfirmationsTypeOK, record
  <2>1. CASE ExpireStale(r)
    BY <2>1, MarkedType DEF ExpireStale, ProposalStatus
  <2>2. CASE CommitProposal(r)
    <3>1. PICK p \in Proposals :
             confirmation' = [confirmation EXCEPT ![p] =
                [Fresh EXCEPT !.status = "pending", !.tool = request[r].tool,
                              !.expected = request[r].sawVersion]]
      BY <2>2 DEF CommitProposal
    <3>2. [Fresh EXCEPT !.status = "pending", !.tool = request[r].tool,
                        !.expected = request[r].sawVersion] \in ProposalType
      BY FreshType DEF ProposalType, ProposalStatus, RequestType
    <3>3. confirmation' \in [Proposals -> ProposalType]
      BY <3>1, <3>2
    <3> QED BY <2>2, <3>3 DEF CommitProposal
  <2>3. CASE CommitDirectWrite(r)
    BY <2>3 DEF CommitDirectWrite
  <2>4. CASE CommitApproval(r)
    <3>1. confirmation' \in [Proposals -> ProposalType]
      BY <2>4, MarkedType DEF CommitApproval, ProposalStatus
    <3> QED BY <2>4, <3>1 DEF CommitApproval
  <2>5. CASE CommitRejection(r)
    <3>1. confirmation' \in [Proposals -> ProposalType]
      BY <2>5, MarkedType DEF CommitRejection, ProposalStatus
    <3> QED BY <2>5, <3>1 DEF CommitRejection
  <2>6. CASE AnnounceOutcome(r)
    BY <2>6 DEF AnnounceOutcome, Decision, ProposalStatus
  <2> QED BY <2>1, <2>2, <2>3, <2>4, <2>5, <2>6
<1>2. /\ {targetLock', mutex'} \subseteq Requests \cup {NoRequest}
      /\ rowLock' \in [Proposals -> Requests \cup {NoRequest}]
  BY TypeReleased DEF ExpireStale, CommitProposal, CommitDirectWrite, CommitApproval, CommitRejection,
     AnnounceOutcome, locks, TypeInv, ConfirmationsTypeOK
<1>3. /\ request[r].kind # "none"
      /\ \E step \in {"begin", "announce", "end"} :
            Move(r, step) /\ (request[r].kind = "write" => step # "announce")
  BY RequestFields DEF ExpireStale, CommitProposal, CommitDirectWrite, CommitApproval, CommitRejection,
     AnnounceOutcome, At
<1>4. PICK step \in {"begin", "announce", "end"} :
         Move(r, step) /\ (request[r].kind = "write" => step # "announce")
  BY <1>3
<1>5. TablesOK'
  BY <1>1, <1>2 DEF TypeInv, ConfirmationsTypeOK, TablesOK
<1> QED BY <1>3, <1>4, <1>5, TypeMove DEF RequestSteps

\* Every step keeps the types.
LEMMA TypeNext == TypeInv /\ [ConfirmationsNext]_confirmationVars => TypeInv'
<1> SUFFICES ASSUME TypeInv, [ConfirmationsNext]_confirmationVars PROVE TypeInv'
  OBVIOUS
<1>1. CASE UNCHANGED confirmationVars
  BY <1>1 DEF confirmationVars, locks, record, TypeInv, ConfirmationsTypeOK, Shaped
<1>2. CASE OutsideWrite
  BY <1>2 DEF OutsideWrite, Disturb, locks, record, TypeInv, ConfirmationsTypeOK, Shaped
<1>3. ASSUME NEW p \in Proposals, DayPasses(p) PROVE TypeInv'
  <2>1. confirmation' \in [Proposals -> ProposalType]
    BY <1>3, MarkedType DEF DayPasses, TypeInv, ConfirmationsTypeOK, ProposalStatus
  <2> QED BY <1>3, <2>1 DEF DayPasses, Disturb, locks, record, TypeInv, ConfirmationsTypeOK, Shaped
<1>4. ASSUME NEW r \in Requests,
             CallTool(r) \/ \E kind \in {"approve", "reject"}, p \in Proposals : Decide(r, kind, p)
      PROVE  TypeInv'
  BY <1>4, TypeArrive
<1>5. ASSUME NEW r \in Requests, RequestStep(r) \/ Breaks(r) \/ AnnouncementLost(r) PROVE TypeInv'
  BY <1>5, TypeBegin, TypeEnds, TypeLocks, TypeCommits DEF RequestStep
<1> QED BY <1>1, <1>2, <1>3, <1>4, <1>5 DEF ConfirmationsNext

-----------------------------------------------------------------------------

\* Nothing is proposed in a fresh database.
LEMMA ApprovalInit == ConfirmationsInit => ApprovalInv
<1> SUFFICES ASSUME ConfirmationsInit PROVE ApprovalInv
  OBVIOUS
<1>1. \A r \in Requests : request[r].kind = "none" /\ request[r].step = "idle"
  BY DEF ConfirmationsInit, Idle
<1>2. \A p \in Proposals :
         confirmation[p].status = "absent" /\ done[p] = 0 /\ audited[p] = 0 /\ announced[p] = "absent"
  BY DEF ConfirmationsInit, Fresh
<1> QED BY <1>1, <1>2 DEF ApprovalInv, Guards, HasRow, HasTarget, TellsTruth, IsMade, Told,
           AnnouncedWasDecided, DoneIffApproved, ApprovedAsShown

\* A request that moves on while the tables stay as they are, and while nobody
\* loses a lock that guards, has only itself to answer for.
LEMMA ApprovalQuiet ==
  ASSUME TypeInv, ApprovalInv, NEW r \in Requests,
         \A q \in Requests \ {r} : request'[q] = request[q],
         confirmation' = confirmation, version' = version,
         done' = done, doneOn' = doneOn, announced' = announced, audited' = audited,
         \A q \in Requests \ {r} : targetLock = q => targetLock' = q,
         \A q \in Requests \ {r}, p \in Proposals : rowLock[p] = q => rowLock'[p] = q,
         Guards(r)', IsMade(r)', TellsTruth(r)'
  PROVE  ApprovalInv'
<1>1. ASSUME NEW q \in Requests \ {r}
      PROVE  Guards(q)' /\ TellsTruth(q)' /\ IsMade(q)'
  <2>1. Guards(q) /\ TellsTruth(q) /\ IsMade(q)
    BY DEF ApprovalInv
  <2>2. HasRow(q) => request[q].p \in Proposals
    BY RequestFields DEF HasRow
  <2>3. Guards(q)'
    BY <2>1, <2>2 DEF Guards, HasRow, HasTarget, Matches
  <2> QED BY <2>1, <2>3 DEF TellsTruth, IsMade, Decision
<1>2. (Told /\ DoneIffApproved /\ ApprovedAsShown)'
  BY DEF ApprovalInv, Told, AnnouncedWasDecided, DoneIffApproved, ApprovedAsShown
<1> QED BY <1>1, <1>2 DEF ApprovalInv

\* Letting go of one's locks leaves the others theirs.
LEMMA ReleasedOwn ==
  ASSUME TypeInv, NEW r \in Requests, LocksReleased(r)
  PROVE  /\ \A q \in Requests \ {r} : targetLock = q => targetLock' = q
         /\ \A q \in Requests \ {r}, p \in Proposals : rowLock[p] = q => rowLock'[p] = q
BY DEF LocksReleased

\* A request that has come to its end guards nothing and tells nothing.
LEMMA ApprovalEnds ==
  ASSUME TypeInv, ApprovalInv, NEW r \in Requests,
         \/ MutexBusy(r) \/ ApprovalRefused(r) \/ ExecutionRefused(r) \/ RejectionRefused(r)
         \/ Breaks(r) \/ AnnouncementLost(r)
  PROVE  ApprovalInv'
<1>1. /\ Move(r, "end") /\ UNCHANGED <<confirmation, version, record>>
      /\ LocksReleased(r) \/ UNCHANGED locks
  BY DEF MutexBusy, ApprovalRefused, ExecutionRefused, RejectionRefused, Breaks, AnnouncementLost, RollsBack
<1>2. /\ \A q \in Requests \ {r} : targetLock = q => targetLock' = q
      /\ \A q \in Requests \ {r}, p \in Proposals : rowLock[p] = q => rowLock'[p] = q
  BY <1>1, ReleasedOwn DEF locks
<1>3. /\ \A q \in Requests \ {r} : request'[q] = request[q]
      /\ request'[r].step = "end" /\ request'[r].kind = request[r].kind /\ request'[r].p = request[r].p
  BY <1>1 DEF Move, TypeInv, ConfirmationsTypeOK, RequestType
<1>4. Guards(r)' /\ TellsTruth(r)'
  BY <1>3 DEF Guards, HasRow, HasTarget, TellsTruth
<1>5. IsMade(r)'
  BY <1>1, <1>3 DEF IsMade, ApprovalInv
<1> QED BY <1>1, <1>2, <1>3, <1>4, <1>5, ApprovalQuiet DEF record

\* Neither does one that arrives or takes its snapshot.
LEMMA ApprovalBegins ==
  ASSUME TypeInv, ApprovalInv, NEW r \in Requests,
         \/ CallTool(r) \/ \E kind \in {"approve", "reject"}, p \in Proposals : Decide(r, kind, p)
         \/ BeginWrite(r) \/ BeginApproval(r) \/ BeginRejection(r)
  PROVE  ApprovalInv'
<1>1. UNCHANGED <<confirmation, version, locks, record>>
  BY DEF CallTool, Decide, BeginWrite, BeginApproval, BeginRejection
<1>2. /\ \A q \in Requests \ {r} : request'[q] = request[q]
      /\ request'[r].step \in {"begin", "expire", "mutex", "row"}
      /\ request'[r].step = "mutex" => request'[r].kind = "write"
      /\ IsMade(r)'
  <2>1. CASE CallTool(r) \/ \E kind \in {"approve", "reject"}, p \in Proposals : Decide(r, kind, p)
    <3>1. PICK new \in RequestType :
             /\ request' = [request EXCEPT ![r] = new]
             /\ \/ new.kind = "write" /\ new.step = "begin"
                \/ /\ new.kind \in {"approve", "reject"} /\ new.step = "expire" /\ new.p \in Proposals
                   /\ confirmation[new.p].status # "absent"
      BY <2>1, Arrives
    <3> QED BY <1>1, <3>1 DEF IsMade, TypeInv, ConfirmationsTypeOK
  <2>2. CASE BeginWrite(r) \/ BeginApproval(r) \/ BeginRejection(r)
    <3>1. /\ request'[r].kind = request[r].kind /\ request'[r].p = request[r].p
          /\ \A q \in Requests \ {r} : request'[q] = request[q]
          /\ request'[r].step \in {"begin", "expire", "mutex", "row"}
          /\ request'[r].step = "mutex" => request'[r].kind = "write"
      BY <2>2 DEF BeginWrite, BeginApproval, BeginRejection, Move, At, TypeInv, ConfirmationsTypeOK, RequestType
    <3> QED BY <1>1, <3>1 DEF IsMade, ApprovalInv
  <2> QED BY <2>1, <2>2
<1>3. Guards(r)' /\ TellsTruth(r)'
  BY <1>2 DEF Guards, HasRow, HasTarget, TellsTruth
<1> QED BY <1>1, <1>2, <1>3, ApprovalQuiet DEF locks, record

\* What takes a lock has made its checks under it.
LEMMA ApprovalLocks ==
  ASSUME TypeInv, ApprovalInv, NEW r \in Requests,
         TakeMutex(r) \/ LockForApproval(r) \/ LockForRejection(r) \/ Execute(r)
  PROVE  ApprovalInv'
<1>1. PICK step \in {"commit", "execute", "mutex"} : Move(r, step)
  BY DEF TakeMutex, LockForApproval, LockForRejection, Execute
<1>2. UNCHANGED <<confirmation, version, record>>
  BY DEF TakeMutex, LockForApproval, LockForRejection, Execute
<1>3. /\ \A q \in Requests \ {r} : request'[q] = request[q]
      /\ request'[r].step = step /\ request'[r].kind = request[r].kind /\ request'[r].p = request[r].p
      /\ request'[r].writes = request[r].writes /\ request'[r].sawVersion = request[r].sawVersion
  BY <1>1 DEF Move, TypeInv, ConfirmationsTypeOK, RequestType
<1>4. /\ \A q \in Requests \ {r} : targetLock = q => targetLock' = q
      /\ \A q \in Requests \ {r}, p \in Proposals : rowLock[p] = q => rowLock'[p] = q
  BY DEF TakeMutex, LockForApproval, LockForRejection, Execute, NoRequest, TypeInv, ConfirmationsTypeOK
<1>5. IsMade(r)' /\ TellsTruth(r)'
  BY <1>2, <1>3 DEF IsMade, TellsTruth, ApprovalInv
<1>6. Guards(r)'
  <2>0. Guards(r) /\ (request[r].kind \in {"approve", "reject"} => request[r].p \in Proposals)
    BY RequestFields DEF ApprovalInv
  <2>1. CASE TakeMutex(r)
    <3>1. /\ request[r].step = "mutex" /\ UNCHANGED <<targetLock, rowLock>>
          /\ request'[r].step = IF request[r].kind = "write" /\ ~request[r].writes THEN "commit" ELSE "execute"
      BY <2>1 DEF TakeMutex, Move, TypeInv, ConfirmationsTypeOK
    <3> QED BY <1>2, <1>3, <2>0, <3>1 DEF Guards, HasRow, HasTarget
  <2>2. CASE LockForApproval(r)
    <3>1. /\ request[r].kind = "approve" /\ request'[r].step = "mutex"
          /\ confirmation[request[r].p].status = "pending"
          /\ rowLock' = [rowLock EXCEPT ![request[r].p] = r]
      BY <2>2 DEF LockForApproval, MayApprove, At, Move, TypeInv, ConfirmationsTypeOK
    <3>2. rowLock'[request[r].p] = r
      BY <3>1, <2>0 DEF TypeInv, ConfirmationsTypeOK
    <3> QED BY <1>2, <1>3, <3>1, <3>2 DEF Guards, HasRow, HasTarget
  <2>3. CASE LockForRejection(r)
    <3>1. /\ request[r].kind = "reject" /\ request'[r].step = "commit"
          /\ confirmation[request[r].p].status = "pending"
          /\ rowLock' = [rowLock EXCEPT ![request[r].p] = r]
      BY <2>3 DEF LockForRejection, At, Move, TypeInv, ConfirmationsTypeOK
    <3>2. rowLock'[request[r].p] = r
      BY <3>1, <2>0 DEF TypeInv, ConfirmationsTypeOK
    <3> QED BY <1>2, <1>3, <3>1, <3>2 DEF Guards, HasRow, HasTarget
  <2>4. CASE Execute(r)
    <3>1. /\ request[r].step = "execute" /\ request'[r].step = "commit"
          /\ targetLock' = r /\ rowLock' = rowLock /\ version = request[r].sawVersion /\ Matches(r)
      BY <2>4 DEF Execute, UnchangedSinceSnapshot, Move, TypeInv, ConfirmationsTypeOK
    <3> QED BY <1>2, <1>3, <2>0, <3>1, RequestFields DEF Guards, HasRow, HasTarget, Matches, TypeInv, Shaped
  <2> QED BY <2>1, <2>2, <2>3, <2>4
<1> QED BY <1>2, <1>3, <1>4, <1>5, <1>6, ApprovalQuiet DEF record

\* How the tables change: a proposal is made, or decided by the holder of its
\* row or of nobody's; what it expects is fixed when it is made; the target
\* changes by the holder of its lock or when nobody has it.
Orderly(r) ==
    /\ \A p \in Proposals :
          /\ confirmation'[p].status # confirmation[p].status =>
                /\ confirmation[p].status \in {"absent", "pending"} /\ confirmation'[p].status # "absent"
                /\ confirmation[p].status = "pending" => rowLock[p] \in {r, NoRequest}
          /\ confirmation'[p].expected # confirmation[p].expected => confirmation[p].status = "absent"
    /\ version' # version => targetLock \in {r, NoRequest}
    /\ \A q \in Requests \ {r} : request'[q] = request[q] /\ (targetLock = q => targetLock' = q)
    /\ \A q \in Requests \ {r}, p \in Proposals : rowLock[p] = q => rowLock'[p] = q

\* An orderly change is none of the others' business.
LEMMA OthersGuard ==
  ASSUME TypeInv, ApprovalInv, NEW r, Orderly(r), NEW q \in Requests \ {r}
  PROVE  Guards(q)' /\ TellsTruth(q)' /\ IsMade(q)'
<1>1. Guards(q) /\ TellsTruth(q) /\ IsMade(q) /\ request'[q] = request[q] /\ q # NoRequest
  BY DEF ApprovalInv, NoRequest, Orderly
<1>2. request[q].kind \in {"approve", "reject"} => request[q].p \in Proposals
  BY RequestFields
<1>3. request[q].step = "announce" => request[q].kind \in {"approve", "reject"}
  BY RequestFields
<1>4. Guards(q)'
  <2>1. HasRow(q)' => rowLock'[request'[q].p] = q /\ confirmation'[request'[q].p].status = "pending"
    <3>1. ASSUME HasRow(q)'
          PROVE  /\ request[q].p \in Proposals /\ rowLock[request[q].p] = q
                 /\ confirmation[request[q].p].status = "pending"
      BY <1>1, <1>2, <3>1 DEF Guards, HasRow
    <3>2. ASSUME HasRow(q)', NEW p \in Proposals, p = request[q].p
          PROVE  confirmation'[p].status = "pending" /\ rowLock'[p] = q
      <4>1. rowLock[p] = q /\ confirmation[p].status = "pending" /\ q # r
        BY <3>1, <3>2
      <4>2. confirmation'[p].status = confirmation[p].status
        BY <1>1, <4>1 DEF Orderly
      <4>3. rowLock'[p] = q
        BY <4>1 DEF Orderly
      <4> QED BY <4>1, <4>2, <4>3
    <3> QED BY <1>1, <3>1, <3>2
  <2>2. HasTarget(q)' => targetLock' = q /\ version' = request'[q].sawVersion
    BY <1>1 DEF Orderly, Guards, HasTarget
  <2>3. HasTarget(q)' => Matches(q)'
    BY <1>1, <1>2 DEF Orderly, Guards, HasTarget, Matches, IsMade
  <2> QED BY <2>1, <2>2, <2>3 DEF Guards
<1>5. TellsTruth(q)'
  BY <1>1, <1>2, <1>3 DEF TellsTruth, Decision, Orderly
<1>6. IsMade(q)'
  BY <1>1, <1>2 DEF IsMade, Orderly
<1> QED BY <1>4, <1>5, <1>6

\* A proposal with a new status is otherwise what it was.
LEMMA MarkedFields ==
  ASSUME TypeInv, NEW p \in Proposals, NEW newStatus
  PROVE  /\ [confirmation[p] EXCEPT !.status = newStatus].status = newStatus
         /\ [confirmation[p] EXCEPT !.status = newStatus].expected = confirmation[p].expected
BY DEF TypeInv, ConfirmationsTypeOK, ProposalType

\* Stale proposals expire unless somebody is deciding on them.
LEMMA ApprovalExpires ==
  ASSUME TypeInv, ApprovalInv, NEW r \in Requests, ExpireStale(r)
  PROVE  ApprovalInv' /\ Orderly(r)
<1>1. \A p \in Proposals :
         /\ confirmation'[p].status = IF Expires(p) THEN "expired" ELSE confirmation[p].status
         /\ confirmation'[p].expected = confirmation[p].expected
  BY MarkedFields DEF ExpireStale
<1>2. /\ \A q \in Requests \ {r} : request'[q] = request[q]
      /\ request'[r].step = "begin" /\ request'[r].kind = request[r].kind /\ request'[r].p = request[r].p
  BY DEF ExpireStale, Move, TypeInv, ConfirmationsTypeOK, RequestType
<1>3. Orderly(r)
  BY <1>1, <1>2 DEF ExpireStale, Expires, Orderly, locks
<1>4. Guards(r)' /\ TellsTruth(r)'
  BY <1>2 DEF Guards, HasRow, HasTarget, TellsTruth
<1>5. IsMade(r)'
  BY <1>1, <1>2, RequestFields DEF IsMade, ApprovalInv
<1>6. (Told /\ DoneIffApproved /\ ApprovedAsShown)'
  BY <1>1 DEF ExpireStale, Expires, record, ApprovalInv, Told, AnnouncedWasDecided, DoneIffApproved,
     ApprovedAsShown
<1> QED BY <1>3, <1>4, <1>5, <1>6, OthersGuard DEF ApprovalInv

\* A proposal is made: nothing was done for it yet.
LEMMA ApprovalProposes ==
  ASSUME TypeInv, ApprovalInv, NEW r \in Requests, CommitProposal(r)
  PROVE  ApprovalInv' /\ Orderly(r)
<1> DEFINE new == [Fresh EXCEPT !.status = "pending", !.tool = request[r].tool,
                                !.expected = request[r].sawVersion]
<1>0. new.status = "pending"
  BY DEF Fresh
<1>1. PICK p \in Proposals :
         /\ \A q \in Proposals : confirmation[q].status = "absent" <=> q >= p
         /\ confirmation' = [confirmation EXCEPT ![p] = new]
  BY DEF CommitProposal
<1> HIDE DEF new
<1>2. /\ confirmation[p].status = "absent" /\ confirmation'[p].status = "pending"
      /\ \A q \in Proposals \ {p} : confirmation'[q] = confirmation[q]
  <2>1. p >= p
    BY DEF ConfirmationsAssumption
  <2>2. confirmation'[p] = new /\ \A q \in Proposals \ {p} : confirmation'[q] = confirmation[q]
    BY <1>1 DEF TypeInv, ConfirmationsTypeOK
  <2> QED BY <1>0, <1>1, <2>1, <2>2
<1>3. /\ \A q \in Requests \ {r} : request'[q] = request[q]
      /\ request'[r].step = "end" /\ request'[r].kind = "write"
  BY DEF CommitProposal, At, Move, TypeInv, ConfirmationsTypeOK, RequestType
<1>4. UNCHANGED <<version, record>> /\ LocksReleased(r)
  BY DEF CommitProposal
<1>5. Orderly(r)
  BY <1>1, <1>2, <1>3, <1>4, ReleasedOwn DEF Orderly
<1>6. Guards(r)' /\ TellsTruth(r)' /\ IsMade(r)'
  BY <1>3 DEF Guards, HasRow, HasTarget, TellsTruth, IsMade
<1>7. (Told /\ DoneIffApproved /\ ApprovedAsShown)'
  <2>1. announced[p] = "absent" /\ done[p] = 0 /\ audited[p] = 0
    BY <1>2 DEF ApprovalInv, Told, AnnouncedWasDecided, DoneIffApproved
  <2>2. UNCHANGED <<announced, done, doneOn, audited>>
    BY <1>4 DEF record
  <2>3. Told'
    BY <1>2, <2>1, <2>2 DEF ApprovalInv, Told, AnnouncedWasDecided
  <2>4. DoneIffApproved'
    BY <1>2, <2>1, <2>2 DEF ApprovalInv, DoneIffApproved
  <2>5. ApprovedAsShown'
    <3>1. ~(done[p] > 0)
      BY <2>1
    <3>2. \A q \in Proposals \ {p} : done[q] > 0 => doneOn[q] = confirmation[q].expected
      BY DEF ApprovalInv, ApprovedAsShown
    <3> QED BY <1>2, <2>2, <3>1, <3>2 DEF ApprovedAsShown
  <2> QED BY <2>3, <2>4, <2>5
<1> QED BY <1>5, <1>6, <1>7, OthersGuard DEF ApprovalInv

\* A write at once changes the target under its lock, and no proposal.
LEMMA ApprovalWritesAtOnce ==
  ASSUME TypeInv, ApprovalInv, NEW r \in Requests, CommitDirectWrite(r)
  PROVE  ApprovalInv' /\ Orderly(r)
<1>1. /\ \A q \in Requests \ {r} : request'[q] = request[q]
      /\ request'[r].step = "end" /\ request'[r].kind = "write"
  BY DEF CommitDirectWrite, At, Move, TypeInv, ConfirmationsTypeOK, RequestType
<1>2. targetLock = r
  BY DEF CommitDirectWrite, At, ApprovalInv, Guards, HasTarget
<1>3. UNCHANGED <<confirmation, record>> /\ LocksReleased(r)
  BY DEF CommitDirectWrite
<1>4. Orderly(r)
  BY <1>1, <1>2, <1>3, ReleasedOwn DEF Orderly
<1>5. Guards(r)' /\ TellsTruth(r)' /\ IsMade(r)'
  BY <1>1 DEF Guards, HasRow, HasTarget, TellsTruth, IsMade
<1>6. (Told /\ DoneIffApproved /\ ApprovedAsShown)'
  BY <1>3 DEF record, ApprovalInv, Told, AnnouncedWasDecided, DoneIffApproved, ApprovedAsShown
<1> QED BY <1>4, <1>5, <1>6, OthersGuard DEF ApprovalInv

\* An approval does its write on the version it was shown, the first time and
\* the only one: under the lock of the row the proposal was still pending.
LEMMA ApprovalApproves ==
  ASSUME TypeInv, ApprovalInv, NEW r \in Requests, CommitApproval(r)
  PROVE  ApprovalInv' /\ Orderly(r)
<1> DEFINE p == request[r].p
<1>1. /\ p \in Proposals /\ request[r].kind = "approve" /\ request[r].step = "commit"
      /\ rowLock[p] = r /\ confirmation[p].status = "pending"
      /\ targetLock = r /\ version = confirmation[p].expected
  BY RequestFields DEF CommitApproval, At, ApprovalInv, Guards, HasRow, HasTarget, Matches
<1>2. confirmation' = [confirmation EXCEPT ![p] = [confirmation[p] EXCEPT !.status = "approved"]]
  BY <1>1 DEF CommitApproval, TypeInv, ConfirmationsTypeOK
<1>3. /\ confirmation'[p].status = "approved" /\ confirmation'[p].expected = confirmation[p].expected
      /\ \A q \in Proposals \ {p} : confirmation'[q] = confirmation[q]
  <2>1. /\ confirmation'[p] = [confirmation[p] EXCEPT !.status = "approved"]
        /\ \A q \in Proposals \ {p} : confirmation'[q] = confirmation[q]
    BY <1>1, <1>2 DEF TypeInv, ConfirmationsTypeOK
  <2> QED BY <1>1, <2>1, MarkedFields
<1>4. /\ \A q \in Requests \ {r} : request'[q] = request[q]
      /\ request'[r].step = "announce" /\ request'[r].kind = "approve" /\ request'[r].p = p
  BY <1>1 DEF CommitApproval, Move, TypeInv, ConfirmationsTypeOK, RequestType
<1>5. /\ done'[p] = done[p] + 1 /\ doneOn'[p] = version /\ audited'[p] = audited[p] + 1
      /\ announced' = announced /\ LocksReleased(r)
      /\ \A q \in Proposals \ {p} :
            done'[q] = done[q] /\ doneOn'[q] = doneOn[q] /\ audited'[q] = audited[q]
  BY <1>1 DEF CommitApproval, TypeInv, ConfirmationsTypeOK
<1> HIDE DEF p
<1>6. Orderly(r)
  BY <1>1, <1>3, <1>4, <1>5, ReleasedOwn DEF Orderly
<1>7. Guards(r)' /\ TellsTruth(r)' /\ IsMade(r)'
  BY <1>3, <1>4 DEF Guards, HasRow, HasTarget, TellsTruth, Decision, IsMade
<1>8. Told'
  <2>1. announced[p] = "absent"
    BY <1>1 DEF ApprovalInv, Told, AnnouncedWasDecided
  <2> QED BY <1>3, <1>5, <2>1 DEF ApprovalInv, Told, AnnouncedWasDecided
<1>9. DoneIffApproved'
  BY <1>1, <1>3, <1>5 DEF ApprovalInv, DoneIffApproved
<1>10. ApprovedAsShown'
  BY <1>1, <1>3, <1>5 DEF ApprovalInv, ApprovedAsShown
<1> QED BY <1>6, <1>7, <1>8, <1>9, <1>10, OthersGuard DEF ApprovalInv

\* A rejection decides a proposal that was still pending.
LEMMA ApprovalRejects ==
  ASSUME TypeInv, ApprovalInv, NEW r \in Requests, CommitRejection(r)
  PROVE  ApprovalInv' /\ Orderly(r)
<1> DEFINE p == request[r].p
<1>1. /\ p \in Proposals /\ request[r].kind = "reject" /\ request[r].step = "commit"
      /\ rowLock[p] = r /\ confirmation[p].status = "pending"
  BY RequestFields DEF CommitRejection, At, ApprovalInv, Guards, HasRow
<1>2. confirmation' = [confirmation EXCEPT ![p] = [confirmation[p] EXCEPT !.status = "rejected"]]
  BY <1>1 DEF CommitRejection, TypeInv, ConfirmationsTypeOK
<1>3. /\ confirmation'[p].status = "rejected" /\ confirmation'[p].expected = confirmation[p].expected
      /\ \A q \in Proposals \ {p} : confirmation'[q] = confirmation[q]
  <2>1. /\ confirmation'[p] = [confirmation[p] EXCEPT !.status = "rejected"]
        /\ \A q \in Proposals \ {p} : confirmation'[q] = confirmation[q]
    BY <1>1, <1>2 DEF TypeInv, ConfirmationsTypeOK
  <2> QED BY <1>1, <2>1, MarkedFields
<1>4. /\ \A q \in Requests \ {r} : request'[q] = request[q]
      /\ request'[r].step = "announce" /\ request'[r].kind = "reject" /\ request'[r].p = p
  BY <1>1 DEF CommitRejection, Move, TypeInv, ConfirmationsTypeOK, RequestType
<1>5. /\ UNCHANGED <<version, done, doneOn, announced>> /\ LocksReleased(r)
      /\ audited'[p] = audited[p] + 1 /\ \A q \in Proposals \ {p} : audited'[q] = audited[q]
  BY <1>1 DEF CommitRejection, TypeInv, ConfirmationsTypeOK
<1> HIDE DEF p
<1>6. Orderly(r)
  BY <1>1, <1>3, <1>4, <1>5, ReleasedOwn DEF Orderly
<1>7. Guards(r)' /\ TellsTruth(r)' /\ IsMade(r)'
  BY <1>3, <1>4 DEF Guards, HasRow, HasTarget, TellsTruth, Decision, IsMade
<1>8. Told'
  <2>1. announced[p] = "absent"
    BY <1>1 DEF ApprovalInv, Told, AnnouncedWasDecided
  <2> QED BY <1>3, <1>5, <2>1 DEF ApprovalInv, Told, AnnouncedWasDecided
<1>9. DoneIffApproved'
  BY <1>1, <1>3, <1>5 DEF ApprovalInv, DoneIffApproved
<1>10. ApprovedAsShown'
  BY <1>1, <1>3, <1>5 DEF ApprovalInv, ApprovedAsShown
<1> QED BY <1>6, <1>7, <1>8, <1>9, <1>10, OthersGuard DEF ApprovalInv

\* The session is told what was decided.
LEMMA ApprovalAnnounces ==
  ASSUME TypeInv, ApprovalInv, NEW r \in Requests, AnnounceOutcome(r)
  PROVE  ApprovalInv' /\ Orderly(r)
<1> DEFINE p == request[r].p
<1>1. /\ p \in Proposals /\ confirmation[p].status = Decision(r)
      /\ request[r].kind \in {"approve", "reject"}
  BY RequestFields DEF AnnounceOutcome, ApprovalInv, TellsTruth
<1>2. /\ announced'[p] = Decision(r) /\ \A q \in Proposals \ {p} : announced'[q] = announced[q]
      /\ UNCHANGED <<confirmation, version, locks, done, doneOn, audited>>
  BY <1>1 DEF AnnounceOutcome, TypeInv, ConfirmationsTypeOK
<1>3. /\ \A q \in Requests \ {r} : request'[q] = request[q]
      /\ request'[r].step = "end" /\ request'[r].kind = request[r].kind /\ request'[r].p = p
  BY DEF AnnounceOutcome, Move, TypeInv, ConfirmationsTypeOK, RequestType
<1> HIDE DEF p
<1>4. Orderly(r)
  BY <1>2, <1>3 DEF Orderly, locks
<1>5. Guards(r)' /\ TellsTruth(r)' /\ IsMade(r)'
  BY <1>1, <1>2, <1>3 DEF Guards, HasRow, HasTarget, TellsTruth, IsMade, ApprovalInv, Decision
<1>6. Told'
  BY <1>1, <1>2 DEF ApprovalInv, Told, AnnouncedWasDecided, Decision
<1>7. (DoneIffApproved /\ ApprovedAsShown)'
  BY <1>2 DEF ApprovalInv, DoneIffApproved, ApprovedAsShown
<1> QED BY <1>4, <1>5, <1>6, <1>7, OthersGuard DEF ApprovalInv

\* A page or a job that writes, and a day that passes, touch nothing that is
\* locked.
LEMMA ApprovalOutside ==
  ASSUME TypeInv, ApprovalInv, OutsideWrite \/ \E p \in Proposals : DayPasses(p)
  PROVE  ApprovalInv' /\ Orderly(NoRequest)
<1>1. /\ UNCHANGED <<locks, request, record>>
      /\ version' # version => targetLock = NoRequest
  BY DEF OutsideWrite, DayPasses
<1>2. \A q \in Proposals :
         confirmation'[q].status = confirmation[q].status /\ confirmation'[q].expected = confirmation[q].expected
  BY DEF OutsideWrite, DayPasses, TypeInv, ConfirmationsTypeOK, ProposalType
<1>3. Orderly(NoRequest)
  BY <1>1, <1>2 DEF Orderly, locks
<1>4. (Told /\ DoneIffApproved /\ ApprovedAsShown)'
  BY <1>1, <1>2 DEF record, ApprovalInv, Told, AnnouncedWasDecided, DoneIffApproved, ApprovedAsShown
<1>5. \A q \in Requests : q \in Requests \ {NoRequest}
  BY DEF NoRequest
<1> QED BY <1>3, <1>4, <1>5, OthersGuard DEF ApprovalInv

\* Only what was not decided changes its status.
Settled ==
    \A p \in Proposals : confirmation'[p].status # confirmation[p].status =>
        confirmation[p].status \in {"absent", "pending"}

\* Every step keeps the approvals honest, and settled what is settled.
LEMMA ApprovalNext ==
  TypeInv /\ ApprovalInv /\ [ConfirmationsNext]_confirmationVars => ApprovalInv' /\ Settled
<1> SUFFICES ASSUME TypeInv, ApprovalInv, [ConfirmationsNext]_confirmationVars
             PROVE  ApprovalInv' /\ Settled
  OBVIOUS
<1>1. CASE UNCHANGED confirmationVars
  BY <1>1 DEF confirmationVars, locks, record, ApprovalInv, Guards, HasRow, HasTarget, Matches, TellsTruth,
     Decision, IsMade, Told, AnnouncedWasDecided, DoneIffApproved, ApprovedAsShown, Settled
<1>2. ASSUME NEW r \in Requests,
             \/ CallTool(r) \/ \E kind \in {"approve", "reject"}, p \in Proposals : Decide(r, kind, p)
             \/ BeginWrite(r) \/ BeginApproval(r) \/ BeginRejection(r)
      PROVE  ApprovalInv' /\ Settled
  <2>1. confirmation' = confirmation
    BY <1>2 DEF CallTool, Decide, BeginWrite, BeginApproval, BeginRejection
  <2> QED BY <1>2, <2>1, ApprovalBegins DEF Settled
<1>3. ASSUME NEW r \in Requests,
             TakeMutex(r) \/ LockForApproval(r) \/ LockForRejection(r) \/ Execute(r)
      PROVE  ApprovalInv' /\ Settled
  <2>1. confirmation' = confirmation
    BY <1>3 DEF TakeMutex, LockForApproval, LockForRejection, Execute
  <2> QED BY <1>3, <2>1, ApprovalLocks DEF Settled
<1>4. ASSUME NEW r \in Requests,
             \/ MutexBusy(r) \/ ApprovalRefused(r) \/ ExecutionRefused(r) \/ RejectionRefused(r)
             \/ Breaks(r) \/ AnnouncementLost(r)
      PROVE  ApprovalInv' /\ Settled
  <2>1. confirmation' = confirmation
    BY <1>4 DEF MutexBusy, ApprovalRefused, ExecutionRefused, RejectionRefused, Breaks, AnnouncementLost,
       RollsBack
  <2> QED BY <1>4, <2>1, ApprovalEnds DEF Settled
<1>5. ASSUME NEW r \in Requests,
             \/ ExpireStale(r) \/ CommitProposal(r) \/ CommitDirectWrite(r)
             \/ CommitApproval(r) \/ CommitRejection(r) \/ AnnounceOutcome(r)
      PROVE  ApprovalInv' /\ Settled
  <2>1. ApprovalInv' /\ Orderly(r)
    BY <1>5, ApprovalExpires, ApprovalProposes, ApprovalWritesAtOnce, ApprovalApproves, ApprovalRejects,
       ApprovalAnnounces
  <2> QED BY <2>1 DEF Orderly, Settled
<1>6. CASE OutsideWrite \/ \E p \in Proposals : DayPasses(p)
  <2>1. ApprovalInv' /\ Orderly(NoRequest)
    BY <1>6, ApprovalOutside
  <2> QED BY <2>1 DEF Orderly, Settled
<1> QED BY <1>1, <1>2, <1>3, <1>4, <1>5, <1>6 DEF ConfirmationsNext, RequestStep

-----------------------------------------------------------------------------

\* Every variable keeps its type in every behaviour.
THEOREM TypesKept == ConfirmationsSpec => []ConfirmationsTypeOK
<1>1. ConfirmationsInit => TypeInv
  BY TypeInit
<1>2. TypeInv /\ [ConfirmationsNext]_confirmationVars => TypeInv'
  BY TypeNext
<1>3. TypeInv => ConfirmationsTypeOK
  BY DEF TypeInv
<1> QED BY <1>1, <1>2, <1>3, PTL DEF ConfirmationsSpec

\* approveConfirmation and rejectConfirmation, against page writes, jobs, other
\* conversations, lost connections and days that pass: the write of a proposal
\* is done exactly once if it was approved and never otherwise, on the state
\* that was shown; a session is told only what was decided, and a decision is
\* for good.
THEOREM ApprovalsHonest == ConfirmationsSpec => ApprovalsAreHonest
<1> DEFINE Inv == TypeInv /\ ApprovalInv
           Final == \A p \in Proposals : confirmation[p].status \in {"approved", "rejected", "expired"}
                       => confirmation'[p].status = confirmation[p].status /\ done'[p] = done[p]
<1>1. ConfirmationsInit => Inv
  BY TypeInit, ApprovalInit
<1>2. Inv /\ [ConfirmationsNext]_confirmationVars => Inv' /\ [Final]_confirmationVars
  <2> SUFFICES ASSUME Inv, [ConfirmationsNext]_confirmationVars PROVE Inv' /\ Final
    OBVIOUS
  <2>1. Inv' /\ Settled
    BY TypeNext, ApprovalNext
  <2>2. DoneIffApproved /\ DoneIffApproved'
    BY <2>1 DEF ApprovalInv
  <2>3. Final
    BY <2>1, <2>2 DEF Settled, DoneIffApproved
  <2> QED BY <2>1, <2>3
<1>3. Inv => DoneIffApproved /\ ApprovedAsShown /\ AnnouncedWasDecided
  BY DEF ApprovalInv, Told
<1>4. ConfirmationsSpec => [](DoneIffApproved /\ ApprovedAsShown /\ AnnouncedWasDecided) /\ [][Final]_confirmationVars
  BY <1>1, <1>2, <1>3, PTL DEF ConfirmationsSpec
<1>5. DecisionIsFinal <=> [][Final]_confirmationVars
  BY PTL DEF DecisionIsFinal
<1> QED BY <1>4, <1>5 DEF ApprovalsAreHonest

-----------------------------------------------------------------------------
(* Together.                                                               *)

\* Only the component that moves changes its state, so a behaviour of all is
\* one of each.
LEMMA EachConversationsSpec == ConversationsSpec => Spec /\ ConfirmationsSpec /\ RequestSpec /\ MarketSpec
<1>1. ConversationsInit => Init /\ ConfirmationsInit /\ RequestInit /\ MarketInit
  BY DEF ConversationsInit
<1>2. [ConversationsNext]_ConversationsVars
        => /\ [Next]_vars /\ [ConfirmationsNext]_confirmationVars
           /\ [RequestNext]_requestVars /\ [MarketNext]_marketVars
  BY DEF ConversationsNext, ConversationsVars
<1> QED BY <1>1, <1>2, PTL DEF ConversationsSpec, Spec, ConfirmationsSpec, RequestSpec, MarketSpec

\* The types of the turns, the confirmations and the requests, whichever of
\* them moves.
THEOREM ConversationsTypes == ConversationsSpec => []ConversationsTypeOK
<1>1. ConversationsSpec => []TypeOK
  BY EachConversationsSpec, SessionTypes, PTL
<1>2. ConversationsSpec => []ConfirmationsTypeOK
  BY EachConversationsSpec, TypesKept, PTL
<1>3. ConversationsSpec => []RequestTypeOK
  BY EachConversationsSpec, RequestTypes, PTL
<1> QED BY <1>1, <1>2, <1>3, PTL DEF ConversationsTypeOK

=============================================================================
