---------------------------- MODULE SessionRunner ----------------------------
(***************************************************************************)
(* The turns of one agent session.  Users post messages; a scheduled job   *)
(* works in the session too and leaves notes there.  Turns are chained, so *)
(* that one talks to the model at a time; the scheduler's own writes are   *)
(* not part of the chain.  Every query is a step: what is read before one  *)
(* may be stale after it.                                                  *)
(***************************************************************************)
EXTENDS Integers, FiniteSets

CONSTANTS
    UserTurns,      \* messages posted by the user
    JobTurns,       \* attempts of a job run in this session
    Continuations,  \* maxContinuationTurns: 3 in the code
    TurnMessages,   \* bound on the messages of each turn
    SeqBound,       \* bound on the messages and notes of the session
    Faults          \* bound on failed queries and crashes

ASSUME SessionAssumption ==
    /\ IsFiniteSet(UserTurns) /\ IsFiniteSet(JobTurns) /\ UserTurns \cap JobTurns = {}
    /\ Continuations \in Nat /\ TurnMessages \in [UserTurns \cup JobTurns -> Nat] /\ Faults \in Nat
    /\ SeqBound \in Nat

Turns == UserTurns \cup JobTurns
Nobody == "nobody"
Scheduler == "scheduler"

ASSUME AuthorAssumption == Nobody \notin Turns /\ Scheduler \notin Turns

VARIABLES
    up,             \* the process
    status,         \* chat_session.session_status
    author,         \* chat_message: who wrote the message of a seq
    tail, prev,     \* sessionQueues: the last promise; the one a turn awaits
    pc, nextSeq, segment, outcome,  \* a turn: its step and locals
    abortRequested, \* on the registered run
    jobRunning,     \* job runs whose row says running
    faults,
    \* history, read by properties only: aborts that were accepted, whether a
    \* failed query left the status behind
    accepted, strayed

turn == <<pc, nextSeq, segment, outcome>>
chain == <<tail, prev>>
history == <<accepted, strayed>>
vars == <<up, status, author, chain, turn, abortRequested, jobRunning, faults, history>>

-----------------------------------------------------------------------------

Status == {"idle", "queued", "running", "success", "failed", "cancelled"}
Body == {"announce", "number", "talk", "close", "catch"}
Afterwards == {"settle", "mirror", "readSeq", "note"}
Steps == {"new", "open", "wait"} \cup Body \cup Afterwards \cup {"over"}
Outcomes == {"none", "complete", "failed", "cancelled", "lost"}

Init ==
    /\ up = TRUE /\ status = IF JobTurns = {} THEN "idle" ELSE "queued"
    /\ author = [s \in 1..SeqBound |-> Nobody]
    /\ tail = Nobody /\ prev = [t \in Turns |-> Nobody]
    /\ pc = [t \in Turns |-> "new"] /\ nextSeq = [t \in Turns |-> 0]
    /\ segment = [t \in Turns |-> 0] /\ outcome = [t \in Turns |-> "none"]
    /\ abortRequested = [t \in Turns |-> FALSE] /\ jobRunning = {}
    /\ faults = Faults /\ accepted = {} /\ strayed = FALSE

Goto(t, step) == pc' = [pc EXCEPT ![t] = step]
Fault == faults > 0 /\ faults' = faults - 1

\* COALESCE(MAX(seq) + 1, 1)
NextMessageSeq ==
    CHOOSE n \in 1..(SeqBound + 1) :
        /\ \A s \in 1..SeqBound : author[s] # Nobody => s < n
        /\ n > 1 => author[n - 1] # Nobody

\* UNIQUE (session_id, seq)
Insert(s, who) ==
    /\ s <= SeqBound /\ author[s] = Nobody
    /\ author' = [author EXCEPT ![s] = who]
Conflict(s) == s <= SeqBound /\ author[s] # Nobody

-----------------------------------------------------------------------------
(* serializeSession.                                                       *)

Enter(t) ==
    /\ Goto(t, "wait") /\ prev' = [prev EXCEPT ![t] = tail] /\ tail' = t
    /\ UNCHANGED <<nextSeq, segment, outcome>>

Post(t) ==
    /\ up /\ t \in UserTurns /\ pc[t] = "new" /\ Enter(t)
    /\ UNCHANGED <<up, status, author, abortRequested, jobRunning, faults, history>>

\* Mutant: a turn that failed does not let go of the chain.
ReleasedBySuccess(p) ==
    p # Nobody => (pc[p] \in Afterwards \cup {"over"} /\ outcome[p] = "complete")

\* The gate of a turn is opened in its finally.
Released(p) == p # Nobody => pc[p] \in Afterwards \cup {"over"}

Begin(t) ==
    /\ pc[t] = "wait" /\ Released(prev[t])
    /\ Goto(t, IF t \in UserTurns THEN "announce" ELSE "number")
    /\ prev' = [prev EXCEPT ![t] = Nobody]
    /\ UNCHANGED <<up, status, author, tail, nextSeq, segment, outcome,
                   abortRequested, jobRunning, faults, history>>

\* Mutant: the map forgets the chain although others wait in it.
UnlinkAlways(t) == Nobody

Unlink(t) == IF tail = t THEN Nobody ELSE tail

(* The turn is over for the session, its locals are gone; the attempt of a *)
(* job goes on.                                                            *)
Leave(t, result) ==
    /\ outcome' = [outcome EXCEPT ![t] = result]
    /\ nextSeq' = [nextSeq EXCEPT ![t] = 0] /\ segment' = [segment EXCEPT ![t] = 0]
    /\ tail' = Unlink(t) /\ UNCHANGED prev
    /\ Goto(t, IF t \in UserTurns THEN "over" ELSE "settle")

-----------------------------------------------------------------------------
(* runAgentSessionTurn.                                                    *)

Announce(t) ==
    /\ pc[t] = "announce" /\ Goto(t, "number") /\ status' = "running"
    /\ UNCHANGED <<up, author, chain, nextSeq, segment, outcome,
                   abortRequested, jobRunning, faults, history>>

(* What fails before the try block (reading the session and its history,   *)
(* announcing, numbering) only ends the turn: an announced status stays.   *)
PreparationFails(t) ==
    /\ pc[t] \in {"announce", "number"} /\ Fault /\ Leave(t, "failed")
    /\ \/ UNCHANGED status
       \/ pc[t] = "announce" /\ status' = "running"
    /\ strayed' = (strayed \/ (t \in UserTurns /\ status' = "running"))
    /\ UNCHANGED <<up, author, abortRequested, jobRunning, accepted>>

StartTalking(t) ==
    /\ pc[t] = "number" /\ Goto(t, "talk")
    /\ nextSeq' = [nextSeq EXCEPT ![t] = NextMessageSeq]
    /\ segment' = [segment EXCEPT ![t] = 1]
    /\ UNCHANGED <<up, status, author, chain, outcome, abortRequested,
                   jobRunning, faults, history>>

\* Mutant: the next seq is read again for each message.
SeqReadAgain(t) == NextMessageSeq

SeqFor(t) == nextSeq[t]

(* onMessageCompleted.                                                     *)
AppendMessage(t) ==
    /\ pc[t] = "talk" /\ Insert(SeqFor(t), t)
    /\ Cardinality({s \in 1..SeqBound : author[s] = t}) < TurnMessages[t]
    /\ nextSeq' = [nextSeq EXCEPT ![t] = SeqFor(t) + 1]
    /\ UNCHANGED <<up, status, chain, pc, segment, outcome, abortRequested,
                   jobRunning, faults, history>>

\* runAgentTurn ends: the next segment registers the run anew.
Unregister(t) == abortRequested' = [abortRequested EXCEPT ![t] = FALSE]

(* The seq has been taken meanwhile, or the query fails: frameChain is     *)
(* rejected for good.                                                      *)
AppendFails(t) ==
    /\ pc[t] = "talk" /\ Goto(t, "catch") /\ Unregister(t)
    /\ (Conflict(SeqFor(t)) /\ UNCHANGED faults) \/ Fault
    /\ UNCHANGED <<up, status, author, chain, nextSeq, segment, outcome,
                   jobRunning, history>>

Aborted(t, how) == abortRequested[t] \/ how = "cut"

\* Mutant: one segment more.
MayContinueOffByOne(t) == segment[t] <= Continuations + 1

MayContinue(t) == segment[t] <= Continuations

(* A segment of the model's loop ends: with a complete answer, cut off by  *)
(* an abort, with an error or a fused tool loop, or short of an answer.    *)
EndSegment(t, how) ==
    /\ pc[t] = "talk" /\ (how = "cut" => abortRequested[t]) /\ Unregister(t)
    /\ \/ /\ Aborted(t, how) \/ how \in {"stop", "error"}
          /\ Goto(t, "close") /\ UNCHANGED segment
          /\ outcome' = [outcome EXCEPT ![t] =
                IF Aborted(t, how) THEN "cancelled"
                  ELSE IF how = "stop" THEN "complete" ELSE "failed"]
       \/ /\ ~Aborted(t, how) /\ how = "short" /\ UNCHANGED outcome
          /\ IF MayContinue(t)
               THEN segment' = [segment EXCEPT ![t] = @ + 1] /\ UNCHANGED pc
               ELSE Goto(t, "catch") /\ UNCHANGED segment
    /\ UNCHANGED <<up, status, author, chain, nextSeq, jobRunning, faults, history>>

Shown(result) ==
    CASE result = "cancelled" -> "cancelled" [] result = "failed" -> "failed" [] OTHER -> "idle"

(* The status, the metrics, and the turn has its result.                   *)
Close(t) ==
    /\ pc[t] = "close" /\ Leave(t, outcome[t])
    /\ status' = IF t \in UserTurns THEN Shown(outcome[t]) ELSE status
    /\ UNCHANGED <<up, author, abortRequested, jobRunning, faults, history>>

\* A query before or after the one that saves the status.
CloseFails(t) ==
    /\ pc[t] = "close" /\ Fault /\ Goto(t, "catch")
    /\ \/ UNCHANGED status
       \/ t \in UserTurns /\ status' = Shown(outcome[t])
    /\ UNCHANGED <<up, author, chain, nextSeq, segment, outcome, abortRequested,
                   jobRunning, history>>

\* Mutant: the catch block only rethrows.
StatusAfterErrorKept(t) == status

StatusAfterError(t) == IF t \in UserTurns THEN "failed" ELSE status

(* Failing to save the status is swallowed, the error goes to the caller.  *)
Catch(t) ==
    /\ pc[t] = "catch" /\ Leave(t, "failed")
    /\ \/ status' = StatusAfterError(t) /\ UNCHANGED <<faults, strayed>>
       \/ t \in UserTurns /\ Fault /\ UNCHANGED status /\ strayed' = TRUE
    /\ UNCHANGED <<up, author, abortRequested, jobRunning, accepted>>

-----------------------------------------------------------------------------
(* controlAgentRun: abort.                                                 *)

\* Mutant: the run id is not compared.
RunMatchesAlways(t, expected) == TRUE

RunMatches(t, expected) == t = expected

(* A request for the run the user saw; the one that is streaming may be    *)
(* another by now.                                                         *)
Abort(t, expected) ==
    /\ up /\ pc[t] = "talk" /\ RunMatches(t, expected)
    /\ abortRequested' = [abortRequested EXCEPT ![t] = TRUE]
    /\ accepted' = accepted \cup {expected}
    /\ UNCHANGED <<up, status, author, chain, turn, jobRunning, faults, strayed>>

-----------------------------------------------------------------------------
(* executeJobRun, around the turn: status and notes of the scheduler.      *)

JobClaimed(t) ==
    /\ up /\ t \in JobTurns /\ pc[t] = "new" /\ Goto(t, "open")
    /\ jobRunning' = jobRunning \cup {t}
    /\ UNCHANGED <<up, status, author, chain, nextSeq, segment, outcome,
                   abortRequested, faults, history>>

\* setJobSessionStatus, then the turn.
JobOpens(t) ==
    /\ pc[t] = "open" /\ Enter(t) /\ status' = "running" /\ strayed' = FALSE
    /\ UNCHANGED <<up, author, abortRequested, jobRunning, faults, accepted>>

JobOpenFails(t) ==
    /\ pc[t] = "open" /\ Fault /\ Goto(t, "settle")
    /\ outcome' = [outcome EXCEPT ![t] = "failed"]
    /\ UNCHANGED <<up, status, author, chain, nextSeq, segment, abortRequested,
                   jobRunning, history>>

(* finishRun, cancelRun or failOrRetry: the row of the run. When saving a  *)
(* result fails, the attempt has failed.                                   *)
JobSettles(t) ==
    /\ pc[t] = "settle" /\ jobRunning' = jobRunning \ {t}
    /\ \E result \in {outcome[t], "failed"} :
         /\ IF result = outcome[t] THEN UNCHANGED faults
              ELSE outcome[t] = "complete" /\ Fault
         /\ outcome' = [outcome EXCEPT ![t] = result]
         /\ Goto(t, IF result = "failed" THEN "mirror" ELSE "readSeq")
    /\ UNCHANGED <<up, status, author, chain, nextSeq, segment, abortRequested, history>>

(* recoverInterruptedJobRuns: requests are taken already.                  *)
JobRecovers(t) ==
    /\ up /\ pc[t] = "over" /\ t \in jobRunning
    /\ jobRunning' = jobRunning \ {t} /\ Goto(t, "mirror")
    /\ outcome' = [outcome EXCEPT ![t] = "failed"]
    /\ UNCHANGED <<up, status, author, chain, nextSeq, segment, abortRequested,
                   faults, history>>

\* What the conversation says of a run that has ended or goes back to the queue.
Mirrored(result) ==
    CASE result = "complete" -> {"success"} [] result = "cancelled" -> {"cancelled"}
      [] OTHER -> {"queued", "failed"}

(* setJobSessionStatus; an error is logged.                                *)
Mirror(t) ==
    /\ pc[t] = "mirror" /\ Goto(t, IF outcome[t] = "failed" THEN "readSeq" ELSE "over")
    /\ \/ status' \in Mirrored(outcome[t]) /\ UNCHANGED <<faults, strayed>>
       \/ Fault /\ UNCHANGED status /\ strayed' = TRUE
    /\ UNCHANGED <<up, author, chain, nextSeq, segment, outcome, abortRequested,
                   jobRunning, accepted>>

(* appendConversationMessage: two queries, outside the chain.              *)
ReadSeq(t) ==
    /\ pc[t] = "readSeq" /\ Goto(t, "note")
    /\ nextSeq' = [nextSeq EXCEPT ![t] = NextMessageSeq]
    /\ UNCHANGED <<up, status, author, chain, segment, outcome, abortRequested,
                   jobRunning, faults, history>>

\* After a note: the status, unless a failed attempt has shown it already.
AfterNote(t) == IF outcome[t] = "failed" THEN "over" ELSE "mirror"

Note(t) ==
    /\ pc[t] = "note" /\ Goto(t, AfterNote(t))
    /\ Insert(nextSeq[t], Scheduler) /\ nextSeq' = [nextSeq EXCEPT ![t] = 0]
    /\ UNCHANGED <<up, status, chain, segment, outcome, abortRequested,
                   jobRunning, faults, history>>

(* A note whose seq was taken is lost, with a line in the log.             *)
NoteFails(t) ==
    /\ pc[t] \in {"readSeq", "note"} /\ Goto(t, AfterNote(t))
    /\ (pc[t] = "note" /\ Conflict(nextSeq[t]) /\ UNCHANGED faults) \/ Fault
    /\ nextSeq' = [nextSeq EXCEPT ![t] = 0]
    /\ UNCHANGED <<up, status, author, chain, segment, outcome,
                   abortRequested, jobRunning, history>>

-----------------------------------------------------------------------------
(* The process dies and starts again.                                      *)

Crash ==
    /\ up /\ Fault /\ up' = FALSE /\ tail' = Nobody
    /\ prev' = [t \in Turns |-> Nobody] /\ nextSeq' = [t \in Turns |-> 0]
    /\ segment' = [t \in Turns |-> 0] /\ abortRequested' = [t \in Turns |-> FALSE]
    /\ LET ended == {t \in Turns : pc[t] \notin {"new", "over"}}
       IN  /\ pc' = [t \in Turns |-> IF t \in ended THEN "over" ELSE pc[t]]
           /\ outcome' = [t \in Turns |->
                 IF t \in ended /\ pc[t] \notin Afterwards THEN "lost" ELSE outcome[t]]
    /\ UNCHANGED <<status, author, jobRunning, history>>

(* recoverInterruptedAgentSessions; the session of a job that was running  *)
(* is left to the recovery of the job.                                     *)
Boot ==
    /\ ~up /\ up' = TRUE /\ strayed' = FALSE
    /\ status' = IF jobRunning = {} /\ status = "running" THEN "failed" ELSE status
    /\ UNCHANGED <<author, chain, turn, abortRequested, jobRunning, faults,
                   accepted>>

-----------------------------------------------------------------------------

Ways == {"stop", "cut", "error", "short"}

\* What a turn and a job do by themselves.
TurnStep(t) ==
    \/ Begin(t) \/ Announce(t) \/ StartTalking(t) \/ AppendFails(t)
    \/ Close(t) \/ Catch(t)
    \/ JobOpens(t) \/ JobSettles(t) \/ JobRecovers(t) \/ Mirror(t) \/ ReadSeq(t) \/ Note(t) \/ NoteFails(t)
    \/ \E how \in Ways : EndSegment(t, how)

Next ==
    \/ \E t \in Turns : TurnStep(t) \/ AppendMessage(t) \/ Post(t) \/ JobClaimed(t)
                        \/ PreparationFails(t) \/ CloseFails(t) \/ JobOpenFails(t)
    \/ \E t, expected \in Turns : Abort(t, expected)
    \/ Crash \/ Boot

Spec == Init /\ [][Next]_vars

\* Queries return and segments of the model end; nothing is posted or aborted
\* of necessity.
FairSpec == Spec /\ \A t \in Turns : WF_vars(TurnStep(t))

-----------------------------------------------------------------------------
(* Properties.                                                             *)

\* Every variable keeps its type; no turn has more segments than it may.
TypeOK ==
    /\ up \in BOOLEAN /\ status \in Status
    /\ author \in [1..SeqBound -> Turns \cup {Scheduler, Nobody}]
    /\ tail \in Turns \cup {Nobody} /\ prev \in [Turns -> Turns \cup {Nobody}]
    /\ pc \in [Turns -> Steps] /\ nextSeq \in [Turns -> 0..(SeqBound + 1)]
    /\ segment \in [Turns -> 0..(Continuations + 1)] /\ outcome \in [Turns -> Outcomes]
    /\ abortRequested \in [Turns -> BOOLEAN] /\ jobRunning \subseteq JobTurns
    /\ faults \in 0..Faults /\ accepted \subseteq Turns
    /\ strayed \in BOOLEAN

\* One turn works in a session at a time, however turns come, fail and leave.
OneTurnAtATime ==
    \A t, u \in Turns : pc[t] \in Body /\ pc[u] \in Body => t = u

\* The messages are numbered without a gap, and those of a turn follow one
\* another: a tool's result stays next to its call though the scheduler writes
\* its notes without waiting for the turn.
MessagesStayTogether ==
    /\ \A s \in 2..SeqBound : author[s] # Nobody => author[s - 1] # Nobody
    /\ \A a, b, c \in 1..SeqBound :
          a < b /\ b < c /\ author[a] \in Turns /\ author[a] = author[c]
          => author[b] = author[a]

\* An abort that was accepted ends the turn it was meant for, even if the
\* answer was just complete, and no other.
AbortHitsItsTurn ==
    \A t \in Turns :
        /\ t \in accepted => outcome[t] # "complete"
        /\ outcome[t] = "cancelled" => t \in accepted

\* When nobody works in the session it does not say it is running, unless the
\* status could not be saved or its turn failed before it was prepared.
StatusSettles ==
    (up /\ ~strayed /\ jobRunning = {} /\ \A t \in Turns : pc[t] \in {"new", "over"})
        => status # "running"

\* Every turn that was posted and every attempt that was claimed has ended:
\* this is so again and again, as those before it let go of the chain.
NoTurnIsLeft == \A t \in Turns : pc[t] \in {"new", "over"}

=============================================================================
