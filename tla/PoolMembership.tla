---------------------------- MODULE PoolMembership ----------------------------
(***************************************************************************)
(* The short-term and the long-term pool: the roles an instrument has had, *)
(* one open at a time, and the attention its open role carries.  Roles     *)
(* come from the onboarding alone, as of the day it was initialised; an    *)
(* agent ends roles and keeps the attention of the user; the job of the    *)
(* daily plan marks what it waits for and clears what it no longer does;   *)
(* the first entry ends the wait.  Every writer but the page holds the     *)
(* agents' mutation lock, so an operation is a step.                       *)
(***************************************************************************)
EXTENDS Integers, Sequences

CONSTANTS Stocks,      \* instruments an agent knows
          PoolDays,    \* bound on days
          Onboardings  \* bound on onboardings proposed

ASSUME PoolAssumption == PoolDays \in Nat \ {0} /\ Onboardings \in Nat

VARIABLES
    poolDay,    \* the day
    roles,      \* pool_membership, of an instrument in the order of id
    attentionOf,  \* who wrote the attention of the open role
    proposed,   \* the pending pool_onboard of an instrument
    onboardings,
    owned,      \* portfolio_position: instruments held
    marked      \* history: what the last reconciliation marked

poolVars == <<poolDay, roles, attentionOf, proposed, onboardings, owned, marked>>

PoolDates == 1..PoolDays
Ongoing == PoolDays + 1          \* effective_to IS NULL
PoolKinds == {"short", "long"}
RoleKinds == {"core", "watch"}   \* stands for the role and its whole profile
NoProposal == [pool |-> "none"]

PoolInit ==
    /\ poolDay = 1 /\ roles = [c \in Stocks |-> <<>>] /\ attentionOf = [c \in Stocks |-> "none"]
    /\ proposed = [c \in Stocks |-> NoProposal] /\ onboardings = Onboardings
    /\ owned = {} /\ marked = {}

IsMember(c) == roles[c] # <<>> /\ roles[c][Len(roles[c])].to = Ongoing
Current(c) == roles[c][Len(roles[c])]

\* What the confirmation of an onboarding is checked against: not the attention.
FactsOf(c) == IF IsMember(c) THEN <<Current(c).pool, Current(c).role, Current(c).from>> ELSE <<>>

-----------------------------------------------------------------------------

NextPoolDay ==
    /\ poolDay < PoolDays /\ poolDay' = poolDay + 1
    /\ UNCHANGED <<roles, attentionOf, proposed, onboardings, owned, marked>>

(* initializePoolOnboarding: whatever the user asked for, as of today.     *)
ProposeOnboarding(c) ==
    /\ proposed[c] = NoProposal /\ onboardings > 0 /\ onboardings' = onboardings - 1
    /\ \E p \in PoolKinds, r \in RoleKinds :
         proposed' = [proposed EXCEPT ![c] = [pool |-> p, role |-> r, from |-> poolDay, seen |-> FactsOf(c)]]
    /\ UNCHANGED <<poolDay, roles, attentionOf, owned, marked>>

\* Mutant: what stays in its pool is refreshed in place.
RefreshesSamePool(row, new) == row.pool = new.pool

(* A profile made again on the day it is in force from is the same row.    *)
Refreshes(row, new) == row.from = new.from

\* UNIQUE (instrument_id, pool, effective_from).
RoleTaken(c, new, but) == \E i \in DOMAIN roles[c] \ {but} : roles[c][i].pool = new.pool /\ roles[c][i].from = new.from

Opened(new) == [pool |-> new.pool, role |-> new.role, from |-> new.from, to |-> Ongoing]

(* applyPoolChange: added; or refreshed; or ended and opened anew.         *)
Onboarded(c, new) ==
    LET h == roles[c]
        n == Len(h)
    IN  IF ~IsMember(c) THEN Append(h, Opened(new))
        ELSE IF Refreshes(Current(c), new)
               THEN [h EXCEPT ![n].pool = new.pool, ![n].role = new.role]
               ELSE Append([h EXCEPT ![n].to = new.from], Opened(new))

CommitOnboarding(c) ==
    /\ proposed[c] # NoProposal /\ proposed[c].seen = FactsOf(c)
    /\ LET new == proposed[c]
       IN  /\ ~RoleTaken(c, new, IF IsMember(c) /\ Refreshes(Current(c), new) THEN Len(roles[c]) ELSE 0)
           /\ roles' = [roles EXCEPT ![c] = Onboarded(c, new)]
    /\ proposed' = [proposed EXCEPT ![c] = NoProposal]
    \* what was open passes its attention on
    /\ UNCHANGED <<poolDay, attentionOf, onboardings, owned, marked>>

(* The user rejects it, it has expired, the facts changed or the key is    *)
(* taken.                                                                  *)
DropOnboarding(c) ==
    /\ proposed[c] # NoProposal /\ proposed' = [proposed EXCEPT ![c] = NoProposal]
    /\ UNCHANGED <<poolDay, roles, attentionOf, onboardings, owned, marked>>

(* pool_write remove: as of any day; the pool it names is not compared.    *)
(* The ended row keeps its attention, and nobody looks at it again.        *)
EndRole(c, d) ==
    /\ IsMember(c) /\ roles' = [roles EXCEPT ![c][Len(roles[c])].to = d]
    /\ attentionOf' = [attentionOf EXCEPT ![c] = "none"]
    /\ UNCHANGED <<poolDay, proposed, onboardings, owned, marked>>

(* pool_write update; and clearPoolAttention of the page, which clears.    *)
SetAttention(c, p, a) ==
    /\ IsMember(c) /\ Current(c).pool = p
    /\ attentionOf' = [attentionOf EXCEPT ![c] = a]
    /\ UNCHANGED <<poolDay, roles, proposed, onboardings, owned, marked>>

-----------------------------------------------------------------------------
(* pool_attention_write of the daily plan's job.                           *)

Members == {c \in Stocks : IsMember(c)}

\* Mutant: the job marks over what the user wrote.
MarkRefusedNever(c) == FALSE

MarkRefused(c) == c \notin owned /\ attentionOf[c] = "manual"
ClearRefused(c) == attentionOf[c] # "daily"

\* Mutant: only what the job names is looked at.
StaleNamed(kept, named) == {c \in named \ kept : attentionOf[c] = "daily"}

(* What the job does not mark, or may not because it is held, is cleared   *)
(* if a daily plan had marked it.                                          *)
Stale(kept, named) == {c \in Members \ kept : attentionOf[c] = "daily"}

Reconcile(marks, clears) ==
    /\ \A c \in marks : ~MarkRefused(c)
    /\ \A c \in clears : ~ClearRefused(c)
    /\ LET kept == marks \ owned
       IN  /\ attentionOf' = [c \in Stocks |-> IF c \in kept THEN "daily"
                                              ELSE IF c \in Stale(kept, marks \cup clears) THEN "none" ELSE attentionOf[c]]
           /\ marked' = kept
    /\ UNCHANGED <<poolDay, roles, proposed, onboardings, owned>>

-----------------------------------------------------------------------------
(* recordPositionChange, as far as the pools go.                           *)

\* Mutant: an entry leaves the attention alone.
AfterEntryKept(a) == a

AfterEntry(a) == IF a = "daily" THEN "none" ELSE a

BuyIn(c) ==
    /\ owned' = owned \cup {c}
    /\ attentionOf' = [attentionOf EXCEPT ![c] = AfterEntry(@)]
    /\ UNCHANGED <<poolDay, roles, proposed, onboardings, marked>>

SellOut(c) ==
    /\ c \in owned /\ owned' = owned \ {c}
    /\ UNCHANGED <<poolDay, roles, attentionOf, proposed, onboardings, marked>>

-----------------------------------------------------------------------------

PoolNext ==
    \/ NextPoolDay
    \/ \E c \in Stocks : ProposeOnboarding(c) \/ CommitOnboarding(c) \/ DropOnboarding(c) \/ BuyIn(c) \/ SellOut(c)
    \/ \E c \in Stocks, d \in PoolDates : EndRole(c, d)
    \/ \E c \in Stocks, p \in PoolKinds, a \in {"none", "manual"} : SetAttention(c, p, a)
    \/ \E marks \in SUBSET Members : \E clears \in SUBSET (Members \ marks) : Reconcile(marks, clears)

PoolSpec == PoolInit /\ [][PoolNext]_poolVars

-----------------------------------------------------------------------------
(* Properties.                                                             *)

RowsOf(h) == {h[i] : i \in DOMAIN h}

\* Every variable of the pools keeps its type, and only the last role is open.
PoolTypeOK ==
    /\ poolDay \in PoolDates /\ onboardings \in 0..Onboardings /\ attentionOf \in [Stocks -> {"none", "manual", "daily"}]
    /\ owned \subseteq Stocks /\ marked \subseteq Stocks
    /\ \A c \in Stocks :
         /\ RowsOf(roles[c]) \subseteq [pool : PoolKinds, role : RoleKinds, from : PoolDates, to : 1..Ongoing]
         /\ \A i \in 1..(Len(roles[c]) - 1) : roles[c][i].to # Ongoing

\* The role of history h on day e: the newest row that covers it.
RoleOn(h, e) ==
    LET covering == {i \in DOMAIN h : h[i].from <= e /\ e < h[i].to}
    IN  IF covering = {} THEN <<>>
        ELSE LET i == CHOOSE j \in covering : \A k \in covering : k <= j IN <<h[i].pool, h[i].role>>

\* The day a change of c's roles is in force from: as the onboarding says, or
\* the end of the role.
ChangeDate(c) == IF proposed'[c] # proposed[c] THEN proposed[c].from ELSE roles'[c][Len(roles'[c])].to

\* A change of role leaves the roles of the days before it as they were, also
\* when it is as of a day before others: the history is kept.
HistoryIsKept ==
    [][\A c \in Stocks : \A e \in PoolDates :
         RoleOn(roles'[c], e) # RoleOn(roles[c], e) => e >= ChangeDate(c)]_poolVars

\* What a daily plan marked waits for an entry: nothing held is marked so,
\* however it came to be held, marked, ended or onboarded again.
AttentionAwaitsEntry == \A c \in owned : attentionOf[c] # "daily"

\* Nothing but what the last daily plan marked is marked by a daily plan.
MarksAreTheLastPlans == \A c \in Members : attentionOf[c] = "daily" => c \in marked

\* What the user wrote stays through daily plans, entries and new roles.
ManualAttentionIsKept ==
    [][(\E marks, clears \in SUBSET Stocks : marks \cup clears \subseteq Members /\ Reconcile(marks, clears))
          \/ (\E c \in Stocks : BuyIn(c) \/ CommitOnboarding(c))
       => \A c \in Members : attentionOf[c] = "manual" => attentionOf'[c] = "manual"]_poolVars

\* The roles of past days stay, the mark of a daily plan is of the last one and
\* waits for an entry, and what the user wrote is the user's.
PoolsAreKept == [](PoolTypeOK /\ AttentionAwaitsEntry /\ MarksAreTheLastPlans) /\ HistoryIsKept /\ ManualAttentionIsKept

=============================================================================
