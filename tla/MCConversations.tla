--------------------------- MODULE MCConversations ---------------------------
(* Conversations of an agent and the data it asks for, on small instances: *)
(* the turns of a session, the confirmations of its domain writes, the     *)
(* requests to the data provider, the bars that are kept and their         *)
(* averages.  They share no state: in one behaviour one of them moves and  *)
(* the others stay at their Init.                                          *)
EXTENDS SessionRunner, Confirmations, RequestScheduler, MarketUpdate, FiniteSetsExt, TLC

CONSTANTS u1, u2, j1

VARIABLE moving     \* the component that moves

TwoUsers == {u1, u2}
OneJob == {j1}

\* Two messages of one turn, for a note to come between them; one of another
\* turn; of the attempt of the job only the notes.
Messages == u1 :> 2 @@ u2 :> 1 @@ j1 :> 0

\* A crash may cost an attempt a second note.
AllMessages ==
    MapThenSumSet(LAMBDA t : TurnMessages[t], Turns) + Cardinality(JobTurns) + Faults

ConversationsInit ==
    /\ moving \in {"session", "confirmation", "request", "bars"}
    /\ Init /\ ConfirmationsInit /\ RequestInit /\ MarketInit
    \* of the bars, a load of a page or a mishap
    /\ core = Instruments /\ loads + mishaps = 1
    /\ moving # "bars" => calendarKnown /\ loads = 0

ConversationsVars == <<moving, vars, confirmationVars, requestVars, marketVars>>

ConversationsNext ==
    /\ UNCHANGED moving
    /\ \/ moving = "session" /\ Next /\ UNCHANGED <<confirmationVars, requestVars, marketVars>>
       \/ moving = "confirmation" /\ ConfirmationsNext /\ UNCHANGED <<vars, requestVars, marketVars>>
       \/ moving = "request" /\ RequestNext /\ UNCHANGED <<vars, confirmationVars, marketVars>>
       \/ moving = "bars" /\ MarketNext /\ UNCHANGED <<vars, confirmationVars, requestVars>>

\* Queries return and segments of the model end; what a request does once it
\* has arrived goes on; timers and the pump run.  Nothing is posted, aborted,
\* decided or asked for of necessity.
ConversationsSpec ==
    /\ ConversationsInit /\ [][ConversationsNext]_ConversationsVars
    /\ \A t \in Turns : WF_vars(moving = "session" /\ TurnStep(t))
    /\ \A r \in Requests : WF_confirmationVars(moving = "confirmation" /\ RequestStep(r))
    /\ \A i \in Pumps : WF_requestVars(moving = "request" /\ PumpStep(i))
    /\ \A c \in Callers : WF_requestVars(moving = "request" /\ AskAgain(c))
    /\ WF_requestVars(moving = "request" /\ PauseEnds)

-----------------------------------------------------------------------------
(* What the components promise together.                                   *)

\* Every variable of the conversations and the requests keeps its type.
ConversationsTypeOK == TypeOK /\ ConfirmationsTypeOK /\ RequestTypeOK

\* Turns that were posted and requests that arrived come to an end; a low
\* request to the provider is taken up, however many others keep coming.
ConversationsEnd == []<>(NoTurnIsLeft /\ NoRequestIsLeft) /\ LowIsTaken

=============================================================================
