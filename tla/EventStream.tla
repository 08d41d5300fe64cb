----------------------------- MODULE EventStream -----------------------------
(***************************************************************************)
(* The events of one conversation on their way to a page.  The server      *)
(* writes an event to the database and then publishes it to who listens;   *)
(* several parts of it do so at a time.  A stream listens, replays the     *)
(* rows after the page's cursor, and goes over to what is published.  The  *)
(* page takes events by their cursor; the requests to refresh it finds in  *)
(* a replay wait for its end.                                              *)
(***************************************************************************)
EXTENDS Integers, Sequences, FiniteSets, FiniteSetsExt

CONSTANTS
    Flows,       \* what writes events at a time: a turn, a decision, a tool
    EventLimit,  \* bound on events
    PageSize,    \* rows of one query of the replay: 500 in the code
    Reopenings   \* bound on how often the stream breaks or is closed

ASSUME StreamAssumption ==
    /\ IsFiniteSet(Flows) /\ {EventLimit, PageSize} \subseteq Nat \ {0} /\ Reopenings \in Nat

VARIABLES
    drawn, writing, \* chat_session_event: ids drawn; the insert of each flow
    stream,         \* the handler of the request: see NoStream
    wire,           \* what it has written and the page has not read
    following, address, \* evtSource is open; the cursor its address has
    replaying, cursor, putOff, primed, startedAt, \* the page: see eventCursors
    reopenings,
    \* history, read by properties only: events taken, refreshes made, events
    \* a later one was ahead of, refreshes put off for good, old news
    taken, refreshed, overtaken, dropped, oldNews

eventVars == <<drawn, writing>>
sourceVars == <<following, address, replaying, cursor, putOff, primed, startedAt>>
streamHistory == <<taken, refreshed, overtaken, dropped, oldNews>>
streamVars == <<eventVars, stream, wire, sourceVars, reopenings, streamHistory>>

-----------------------------------------------------------------------------

Ids == 1..EventLimit
Rest == [id |-> 0, stored |-> FALSE]
NoStream == [at |-> "none", last |-> 0, held |-> {}, rows |-> {}]

\* The page has been here before, or sees the conversation for the first time.
StreamInit ==
    /\ drawn \in 0..1 /\ writing = [f \in Flows |-> Rest]
    /\ stream = NoStream /\ wire = <<>> /\ following = FALSE /\ address = 0 /\ replaying = TRUE
    /\ cursor = 0 /\ putOff = {} /\ primed = FALSE /\ startedAt = 0
    /\ reopenings = Reopenings
    /\ taken = {} /\ refreshed = {} /\ overtaken = {} /\ dropped = {} /\ oldNews = {}

Stored == {e \in 1..drawn : \A f \in Flows : writing[f].id = e => writing[f].stored}
Published == {e \in 1..drawn : \A f \in Flows : writing[f].id # e}

Item(kind, e) == [kind |-> kind, id |-> e]
Ascending(S) ==
    CHOOSE q \in [1..Cardinality(S) -> S] : \A i, j \in 1..Cardinality(S) : i < j => q[i] < q[j]
EventsOf(S) == [i \in 1..Cardinality(S) |-> Item("event", Ascending(S)[i])]
Greatest(S, other) == Max(S \cup {other})

-----------------------------------------------------------------------------
(* appendChatSessionEvent and publishSessionEvent.                         *)

(* The statement has its id before it is committed.                        *)
InsertEvent(f) ==
    /\ writing[f].id = 0 /\ drawn < EventLimit /\ drawn' = drawn + 1
    /\ writing' = [writing EXCEPT ![f] = [id |-> drawn + 1, stored |-> FALSE]]
    /\ UNCHANGED <<stream, wire, sourceVars, reopenings, streamHistory>>

CommitEvent(f) ==
    /\ writing[f].id > 0 /\ ~writing[f].stored
    /\ writing' = [writing EXCEPT ![f].stored = TRUE]
    /\ UNCHANGED <<drawn, stream, wire, sourceVars, reopenings, streamHistory>>

\* Mutant: what is published before the replay is over is not kept.
HeldNothing(e) == {}

Held(e) == stream.held \cup {e}

(* The listener: it keeps what comes before the stream is live.            *)
Hear(e) ==
    CASE stream.at \in {"query", "emit"} -> stream' = [stream EXCEPT !.held = Held(e)] /\ UNCHANGED wire
      [] stream.at = "live" -> wire' = Append(wire, Item("event", e)) /\ UNCHANGED stream
      [] OTHER -> UNCHANGED <<stream, wire>>

PublishEvent(f) ==
    /\ writing[f].stored /\ Hear(writing[f].id)
    /\ writing' = [writing EXCEPT ![f] = Rest]
    /\ overtaken' = overtaken \cup (1..(writing[f].id - 1) \ Published)
    /\ UNCHANGED <<drawn, sourceVars, reopenings, taken, refreshed, dropped, oldNews>>

-----------------------------------------------------------------------------
(* streamChatSessionEvents.                                                *)

(* It listens before it reads.                                             *)
Subscribe ==
    /\ stream.at = "opening" /\ stream' = [stream EXCEPT !.at = "query"]
    /\ wire' = <<Item("ready", 0)>>
    /\ UNCHANGED <<eventVars, sourceVars, reopenings, streamHistory>>

QueryRows ==
    /\ stream.at = "query"
    /\ LET later == {e \in Stored : e > stream.last}
           rows == {e \in later : Cardinality({d \in later : d <= e}) <= PageSize}
       IN  /\ stream' = [stream EXCEPT !.at = "emit", !.rows = rows]
           /\ overtaken' = overtaken \cup {e \in 1..drawn \ Stored : \E r \in rows : r > e}
    /\ UNCHANGED <<eventVars, wire, sourceVars, reopenings, taken, refreshed, dropped, oldNews>>

\* Mutant: a page that is full ends the replay too.
IsLastPageAlways(rows) == TRUE

IsLastPage(rows) == Cardinality(rows) < PageSize

(* After the last page what was kept follows, in order and without what    *)
(* the replay has sent; then the stream is live.                           *)
EmitRows ==
    /\ stream.at = "emit"
    /\ LET last == Greatest(stream.rows, stream.last)
           kept == {e \in stream.held : e > last}
       IN  IF IsLastPage(stream.rows)
             THEN /\ wire' = wire \o EventsOf(stream.rows) \o EventsOf(kept)
                              \o <<Item("replay_complete", Greatest(kept, last))>>
                  /\ stream' = [NoStream EXCEPT !.at = "live"]
             ELSE /\ wire' = wire \o EventsOf(stream.rows)
                  /\ stream' = [stream EXCEPT !.at = "query", !.last = last, !.rows = {}]
    /\ UNCHANGED <<eventVars, sourceVars, reopenings, streamHistory>>

(* A query fails: an error is written and the stream ends.  Or the         *)
(* connection does.  The browser connects again by itself, with the        *)
(* address it had.                                                         *)
StreamBreaks ==
    /\ following /\ stream.at # "none" /\ reopenings > 0 /\ reopenings' = reopenings - 1
    /\ stream' = [NoStream EXCEPT !.at = "opening", !.last = address] /\ wire' = <<>>
    /\ UNCHANGED <<eventVars, sourceVars, streamHistory>>

-----------------------------------------------------------------------------
(* The page.                                                               *)

(* openEvents, with the cursor of the last event it took.                  *)
OpenEvents ==
    /\ ~following /\ following' = TRUE /\ address' = cursor /\ replaying' = TRUE /\ putOff' = {} /\ startedAt' = drawn
    /\ stream' = [NoStream EXCEPT !.at = "opening", !.last = cursor] /\ wire' = <<>>
    /\ UNCHANGED <<eventVars, cursor, primed, reopenings, streamHistory>>

CloseEvents ==
    /\ following /\ reopenings > 0 /\ reopenings' = reopenings - 1
    /\ following' = FALSE /\ stream' = NoStream /\ wire' = <<>>
    /\ putOff' = {} /\ dropped' = dropped \cup putOff
    /\ UNCHANGED <<eventVars, address, replaying, cursor, primed, startedAt, taken, refreshed, overtaken, oldNews>>

StreamReady ==
    /\ replaying' = TRUE /\ putOff' = {} /\ dropped' = dropped \cup putOff /\ startedAt' = drawn
    /\ UNCHANGED <<cursor, primed, taken, refreshed, oldNews>>

\* Mutant: an event is taken as it comes.
AcceptAlways(e) == TRUE

\* acceptCursor
Accept(e) == e > cursor

TakeEvent(e) ==
    /\ UNCHANGED <<primed, startedAt, replaying, dropped, oldNews>>
    /\ IF Accept(e)
         THEN /\ cursor' = e /\ taken' = taken \cup {e}
              /\ IF replaying THEN putOff' = putOff \cup {e} /\ UNCHANGED refreshed
                   ELSE refreshed' = refreshed \cup {e} /\ UNCHANGED putOff
         ELSE UNCHANGED <<cursor, taken, putOff, refreshed>>

(* What the first replay of a conversation finds is old news, but for what *)
(* is not a second older than the connection.                              *)
ReplayComplete(e, slack) ==
    /\ cursor' = Greatest({e}, cursor) /\ replaying' = FALSE /\ primed' = TRUE /\ putOff' = {}
    /\ LET old == IF primed THEN {} ELSE {d \in putOff : d <= startedAt - slack}
       IN  refreshed' = refreshed \cup (putOff \ old) /\ oldNews' = oldNews \cup old
    /\ UNCHANGED <<startedAt, taken, dropped>>

Receive ==
    /\ wire # <<>> /\ wire' = Tail(wire)
    /\ LET item == Head(wire)
       IN  CASE item.kind = "ready" -> StreamReady
             [] item.kind = "event" -> TakeEvent(item.id)
             [] OTHER -> \E slack \in 0..1 : ReplayComplete(item.id, slack)
    /\ UNCHANGED <<eventVars, stream, following, address, reopenings, overtaken>>

-----------------------------------------------------------------------------

StreamNext ==
    \/ \E f \in Flows : InsertEvent(f) \/ CommitEvent(f) \/ PublishEvent(f)
    \/ Subscribe \/ QueryRows \/ EmitRows
    \/ StreamBreaks
    \/ OpenEvents \/ CloseEvents \/ Receive

StreamSpec == StreamInit /\ [][StreamNext]_streamVars

-----------------------------------------------------------------------------
(* Properties.                                                             *)

\* Every variable of the stream keeps its type.
StreamTypeOK ==
    /\ drawn \in 0..EventLimit /\ writing \in [Flows -> [id : 0..EventLimit, stored : BOOLEAN]]
    /\ stream.at \in {"none", "opening", "query", "emit", "live"}
    /\ \A i \in 1..Len(wire) : wire[i].kind \in {"ready", "event", "replay_complete"}
    /\ {following, replaying, primed} \subseteq BOOLEAN /\ {address, cursor, startedAt} \subseteq 0..EventLimit
    /\ taken \cup refreshed \cup overtaken \cup dropped \cup oldNews \subseteq Ids
    /\ reopenings \in 0..Reopenings

\* However often the stream is opened and replays, an event that was taken is
\* not taken again, and no refresh is made for it a second time.
EventActsOnce ==
    [][(wire # <<>> /\ Receive /\ Head(wire).kind = "event" /\ Head(wire).id \in taken)
          => UNCHANGED <<sourceVars, refreshed>>]_streamVars

\* The stream is live, and nothing is on its way to the page or being written.
StreamSettled == stream.at = "live" /\ wire = <<>> /\ Published = 1..drawn

\* From the replay to what is published no event is lost: the page has taken
\* all of them in, but for one that a later one was ahead of.
NoEventIsMissed == StreamSettled => 1..drawn \subseteq taken \cup overtaken

\* Each event the page took in has made it refresh, but for the old news of
\* its first replay and for what a replay that broke off had put off.
RefreshesAreMade ==
    (StreamSettled /\ ~replaying) => taken \subseteq refreshed \cup dropped \cup oldNews

\* An event of a conversation reaches a page that follows it, makes it refresh,
\* and does so once.
EventsArrive == [](NoEventIsMissed /\ RefreshesAreMade) /\ EventActsOnce

=============================================================================
