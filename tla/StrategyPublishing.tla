-------------------------- MODULE StrategyPublishing --------------------------
(***************************************************************************)
(* The current strategy: its documents, the state row that names their     *)
(* hash, and the proposals by which alone it changes                       *)
(* (modules/strategy/repo.ts, routes.ts, review-token.ts).  An agent reads *)
(* the strategy, later proposes new bodies for some documents on the base  *)
(* it read; a user opens the review page, which gets a token, and decides. *)
(*                                                                         *)
(* Proposals and decisions run in SERIALIZABLE transactions under the      *)
(* agents' try-lock, so one of them at a time has a current snapshot; the  *)
(* others fail.  Reading takes only a share lock on the state row.         *)
(***************************************************************************)
EXTENDS Integers, FiniteSets, Sequences

CONSTANTS
    Documents,      \* strategy_document
    Authors,        \* sessions whose agent reads the strategy and proposes
    ProposalIds,    \* ids a proposal may get, in this order
    Pages,          \* strategy pages of the user
    TokenBound,     \* bound on issued review tokens
    Restarts        \* bound on restarts, lost transactions and expiries

ASSUME PublishingAssumption ==
    /\ Documents # {} /\ ProposalIds \subseteq Nat \ {0}
    /\ Authors \cap Pages = {} /\ "free" \notin Authors \cup Pages
    /\ TokenBound \in Nat /\ Restarts \in Nat

VARIABLES
    body,           \* strategy_document.sha256: a body is named by its proposal
    state,          \* strategy_state: change_seq, current_hash
    proposal,       \* strategy_publish_proposal and its evolution
    shared, stateLocker,  \* readers with a share lock on the state row; its locker
    agentLock,      \* who has the agents' lock: a scribe, a page or nobody
    scribe,         \* an agent: step, and the state and bodies it read
    grant,          \* review-token.ts: the token in force of each proposal
    page,           \* a page: step, proposal, token, decision
    tokens, restarts,
    \* history: the adopted evolutions in their order, tokens that opened
    \* the way to a decision, by how often they did
    adopted, opened

publishingVars == <<body, state, proposal, shared, stateLocker, agentLock, scribe, grant,
                    page, tokens, restarts, adopted, opened>>

Free == "free"
\* calculateStrategyHash: the hash stands for the bodies of all documents.
HashOf(b) == b
\* 0 is the body every document was seeded with.
Seed == [d \in Documents |-> 0]
NotThere == [status |-> "absent", session |-> Free, seq |-> 0, base |-> Seed, changes |-> {}, after |-> Seed]
AwayPage == [step |-> "away", p |-> 0, token |-> 0, decision |-> "none"]

PublishingInit ==
    /\ body = Seed /\ state = [seq |-> 0, hash |-> HashOf(Seed)]
    /\ proposal = [p \in ProposalIds |-> NotThere]
    /\ shared = {} /\ stateLocker = Free /\ agentLock = Free
    /\ scribe = [a \in Authors |-> [step |-> "idle", state |-> [seq |-> 0, hash |-> Seed], body |-> Seed]]
    /\ grant = [p \in ProposalIds |-> 0]
    /\ page = [u \in Pages |-> AwayPage]
    /\ tokens = 0 /\ restarts = 0 /\ adopted = <<>>
    /\ opened = [t \in 1..TokenBound |-> 0]

AuthorTo(a, step) == scribe' = [scribe EXCEPT ![a].step = step]
PageTo(u, step) == page' = [page EXCEPT ![u].step = step]
PublishingFault == restarts < Restarts /\ restarts' = restarts + 1
keptByRead == <<body, state, proposal, stateLocker, agentLock, grant, page, tokens, restarts, adopted, opened>>
keptByLocks == <<body, state, proposal, shared, grant, tokens, restarts, adopted, opened>>

-----------------------------------------------------------------------------
(* getCurrentStrategy: the state row FOR SHARE, then the documents.        *)

\* Mutant: the state row is read without a lock.
MayShareAlways == TRUE

\* FOR SHARE waits for the transaction that has locked the row.
MayShare == stateLocker = Free

ReadState(a) ==
    /\ scribe[a].step = "idle" /\ MayShare
    /\ shared' = shared \cup {a}
    /\ scribe' = [scribe EXCEPT ![a].step = "reading", ![a].state = state]
    /\ UNCHANGED keptByRead

ReadDocuments(a) ==
    /\ scribe[a].step = "reading"
    /\ shared' = shared \ {a}
    /\ scribe' = [scribe EXCEPT ![a].step = "read", ![a].body = body]
    /\ UNCHANGED keptByRead

-----------------------------------------------------------------------------
(* createStrategyProposal.                                                 *)

\* pg_try_advisory_xact_lock, by an agent or a page.
AuthorTakesLock(a) ==
    /\ scribe[a].step = "read" /\ agentLock = Free
    /\ agentLock' = a /\ AuthorTo(a, "propose")
    /\ UNCHANGED <<keptByLocks, stateLocker, page>>

AuthorFindsItBusy(a) ==
    /\ scribe[a].step = "read" /\ agentLock # Free
    /\ AuthorTo(a, "idle")
    /\ UNCHANGED <<keptByLocks, stateLocker, agentLock, page>>

\* Mutant: the base is compared when the proposal is approved, not here.
BaseIsCurrentAlways(seq, hash) == TRUE

\* Sequence and hash of the base are those of the state row.
BaseIsCurrent(seq, hash) == state.seq = seq /\ state.hash = hash

NextId(p) == \A q \in ProposalIds : proposal[q].status = "absent" <=> q >= p

\* Mutant: a session may have several pending proposals.
HasNoPendingEver(a) == TRUE

\* No proposal of the session waits for its decision.
HasNoPending(a) ==
    \A p \in ProposalIds : ~(proposal[p].session = a /\ proposal[p].status = "pending")

\* The row and its evolution are written; the bodies go with the proposal.
Propose(a) ==
    /\ scribe[a].step = "propose" /\ shared = {}
    /\ HasNoPending(a) /\ BaseIsCurrent(scribe[a].state.seq, scribe[a].state.hash)
    /\ \E p \in ProposalIds, changes \in (SUBSET Documents) \ {{}} :
          /\ NextId(p)
          /\ \A d \in changes : body[d] = scribe[a].body[d]
          /\ proposal' = [proposal EXCEPT ![p] =
                [status |-> "pending", session |-> a, seq |-> scribe[a].state.seq,
                 base |-> scribe[a].state.hash, changes |-> changes, after |-> Seed]]
    /\ agentLock' = Free /\ AuthorTo(a, "idle")
    /\ UNCHANGED <<body, state, shared, stateLocker, grant, page, tokens, restarts, adopted, opened>>

ProposalRefused(a) ==
    /\ scribe[a].step = "propose"
    /\ HasNoPending(a) => ~BaseIsCurrent(scribe[a].state.seq, scribe[a].state.hash)
    /\ agentLock' = Free /\ AuthorTo(a, "idle")
    /\ UNCHANGED <<keptByLocks, stateLocker, page>>

-----------------------------------------------------------------------------
(* The review page: a token in the server's memory, good for one decision. *)

OpenReview(u, p) ==
    /\ page[u].step \in {"away", "review"} /\ proposal[p].status = "pending" /\ tokens < TokenBound
    /\ tokens' = tokens + 1
    /\ grant' = [grant EXCEPT ![p] = tokens + 1]
    /\ page' = [page EXCEPT ![u] = [step |-> "review", p |-> p, token |-> tokens + 1, decision |-> "none"]]
    /\ UNCHANGED <<body, state, proposal, shared, stateLocker, agentLock, scribe, restarts, adopted, opened>>

\* Mutant: a token stays in force.
ConsumedNever(p) == grant

\* grants.delete comes first, whatever token was sent.
Consumed(p) == [grant EXCEPT ![p] = 0]

\* consumeStrategyReviewToken; a user may press twice.
SendDecision(u, decision) ==
    /\ page[u].step \in {"review", "sent"}
    /\ grant' = Consumed(page[u].p)
    /\ IF grant[page[u].p] = page[u].token
         THEN /\ page' = [page EXCEPT ![u].step = "lock", ![u].decision = decision]
              /\ opened' = [opened EXCEPT ![page[u].token] = @ + 1]
         ELSE page' = [page EXCEPT ![u].step = "away"] /\ UNCHANGED opened
    /\ UNCHANGED <<body, state, proposal, shared, stateLocker, agentLock, scribe, tokens, restarts, adopted>>

PageTakesLock(u) ==
    /\ page[u].step = "lock" /\ agentLock = Free
    /\ agentLock' = u /\ PageTo(u, "check")
    /\ UNCHANGED <<keptByLocks, stateLocker, scribe>>

PageFindsItBusy(u) ==
    /\ page[u].step = "lock" /\ agentLock # Free
    /\ PageTo(u, "sent")
    /\ UNCHANGED <<keptByLocks, stateLocker, agentLock, scribe>>

-----------------------------------------------------------------------------
(* approveStrategyProposal and rejectStrategyProposal.                     *)

\* Mutant: the row is not looked at again under its lock.
StillPendingAlways(p) == TRUE

\* The status under the row lock; the review page may have been opened before.
StillPending(p) == proposal[p].status = "pending"

\* What a decision leaves behind when it ends.
Ends(u) == agentLock' = Free /\ stateLocker' = IF stateLocker = u THEN Free ELSE stateLocker

\* Proposal row and state row FOR UPDATE; the latter waits for readers.
LockState(u) ==
    /\ page[u].step = "check" /\ page[u].decision = "approve" /\ shared = {}
    /\ StillPending(page[u].p)
    /\ stateLocker' = u /\ PageTo(u, "decide")
    /\ UNCHANGED <<keptByLocks, agentLock, scribe>>

AlreadyDecided(u) ==
    /\ page[u].step = "check" /\ ~StillPending(page[u].p)
    /\ Ends(u) /\ PageTo(u, "sent")
    /\ UNCHANGED <<keptByLocks, scribe>>

\* Mutant: the sequence counts down.
PublishedStateDown(b) == [seq |-> state.seq - 1, hash |-> HashOf(b)]

\* Mutant: the state row keeps the old hash.
PublishedStateStale(b) == [state EXCEPT !.seq = @ + 1]

\* The state row after the new bodies were written.
PublishedState(b) == [seq |-> state.seq + 1, hash |-> HashOf(b)]

\* The bodies, the evolution, the proposal and the state are one commit.
Publish(u) ==
    LET p == page[u].p
        published == [d \in Documents |-> IF d \in proposal[p].changes THEN p ELSE body[d]]
    IN  /\ page[u].step = "decide" /\ BaseIsCurrent(proposal[p].seq, proposal[p].base)
        /\ body' = published /\ state' = PublishedState(published)
        /\ proposal' = [proposal EXCEPT ![p].status = "approved", ![p].after = HashOf(published)]
        /\ adopted' = Append(adopted, p)
        /\ Ends(u) /\ PageTo(u, "sent")
        /\ UNCHANGED <<shared, scribe, grant, tokens, restarts, opened>>

\* markProposalConflict is committed too, before the request is refused.
MarkConflict(u) ==
    LET p == page[u].p IN
    /\ page[u].step = "decide" /\ ~BaseIsCurrent(proposal[p].seq, proposal[p].base)
    /\ proposal' = [proposal EXCEPT ![p].status = "conflict"]
    /\ Ends(u) /\ PageTo(u, "sent")
    /\ UNCHANGED <<body, state, shared, scribe, grant, tokens, restarts, adopted, opened>>

RejectPublishing(u) ==
    /\ page[u].step = "check" /\ page[u].decision = "reject"
    /\ StillPending(page[u].p)
    /\ proposal' = [proposal EXCEPT ![page[u].p].status = "rejected"]
    /\ Ends(u) /\ PageTo(u, "sent")
    /\ UNCHANGED <<body, state, shared, scribe, grant, tokens, restarts, adopted, opened>>

\* A statement fails, a wait lasts over two seconds: rolled back, token gone.
DecisionBreaks(u) ==
    /\ page[u].step \in {"check", "decide"} /\ PublishingFault
    /\ Ends(u) /\ PageTo(u, "sent")
    /\ UNCHANGED <<body, state, proposal, shared, scribe, grant, tokens, adopted, opened>>

\* Five minutes pass.
TokenExpires(p) ==
    /\ grant[p] # 0 /\ PublishingFault /\ grant' = [grant EXCEPT ![p] = 0]
    /\ UNCHANGED <<body, state, proposal, shared, stateLocker, agentLock, scribe, page, tokens, adopted, opened>>

\* The process starts anew: transactions are rolled back, tokens are forgotten.
PublishingRestart ==
    /\ PublishingFault /\ shared' = {} /\ stateLocker' = Free /\ agentLock' = Free
    /\ grant' = [p \in ProposalIds |-> 0]
    /\ scribe' = [a \in Authors |-> [scribe[a] EXCEPT !.step = "idle"]]
    /\ page' = [u \in Pages |-> IF page[u].step \in {"lock", "check", "decide"}
                                  THEN [page[u] EXCEPT !.step = "sent"] ELSE page[u]]
    /\ UNCHANGED <<body, state, proposal, tokens, adopted, opened>>

PublishingNext ==
    \/ \E a \in Authors : ReadState(a) \/ ReadDocuments(a) \/ AuthorTakesLock(a)
                          \/ AuthorFindsItBusy(a) \/ Propose(a) \/ ProposalRefused(a)
    \/ \E u \in Pages, p \in ProposalIds : OpenReview(u, p)
    \/ \E u \in Pages : PageTakesLock(u) \/ PageFindsItBusy(u) \/ LockState(u) \/ AlreadyDecided(u)
                        \/ Publish(u) \/ MarkConflict(u) \/ RejectPublishing(u) \/ DecisionBreaks(u)
                        \/ SendDecision(u, "approve") \/ SendDecision(u, "reject")
    \/ \E p \in ProposalIds : TokenExpires(p)
    \/ PublishingRestart

PublishingSpec == PublishingInit /\ [][PublishingNext]_publishingVars

-----------------------------------------------------------------------------
(* Properties.                                                             *)

\* Every variable keeps its type.
PublishingTypeOK ==
    LET Bodies == [Documents -> ProposalIds \cup {0}]
        States == [seq : Nat, hash : Bodies]
    IN  /\ body \in Bodies /\ state \in States
        /\ proposal \in [ProposalIds -> [status : {"absent", "pending", "approved", "rejected", "conflict"},
               session : Authors \cup {Free}, seq : Nat, base : Bodies, changes : SUBSET Documents, after : Bodies]]
        /\ shared \subseteq Authors /\ stateLocker \in Pages \cup {Free}
        /\ agentLock \in Authors \cup Pages \cup {Free}
        /\ scribe \in [Authors -> [step : {"idle", "reading", "read", "propose"}, state : States, body : Bodies]]
        /\ grant \in [ProposalIds -> 0..TokenBound] /\ tokens \in 0..TokenBound /\ restarts \in 0..Restarts
        /\ page \in [Pages -> [step : {"away", "review", "lock", "check", "decide", "sent"},
               p : ProposalIds \cup {0}, token : 0..TokenBound, decision : {"none", "approve", "reject"}]]
        /\ opened \in [1..TokenBound -> Nat]

\* Whoever has read the strategy holds a state and documents that belong
\* together, though an approval may commit between the two reads: the check of
\* the hash in getCurrentStrategy never fails.
ReadsBelongTogether ==
    \A a \in Authors : scribe[a].step \in {"read", "propose"} =>
        scribe[a].state.hash = HashOf(scribe[a].body)

\* The adopted evolutions are a chain from the seed to the current strategy:
\* each was written on what the one before it left, so none undoes another.
EvolutionsChain ==
    /\ \A i \in DOMAIN adopted :
          proposal[adopted[i]].base = IF i = 1 THEN HashOf(Seed) ELSE proposal[adopted[i - 1]].after
    /\ HashOf(body) = IF adopted = <<>> THEN HashOf(Seed) ELSE proposal[adopted[Len(adopted)]].after
    /\ state = [seq |-> Len(adopted), hash |-> HashOf(body)]

\* A session has at most one proposal waiting.
OnePendingPerSession ==
    \A p, q \in ProposalIds :
        proposal[p].status = "pending" /\ proposal[q].status = "pending"
        /\ proposal[p].session = proposal[q].session => p = q

\* A review token opens the way to one decision only, and only the token of
\* the page that was opened last does: pressing twice, a second page or a
\* restart cannot decide again.
TokenOpensOnce == \A t \in 1..TokenBound : opened[t] <= 1

\* A proposal is decided once.
PublishingIsFinal ==
    [][\A p \in ProposalIds : proposal[p].status \in {"approved", "rejected", "conflict"}
         => proposal'[p] = proposal[p]]_publishingVars

\* Readers see a state and documents that belong together, the adopted
\* evolutions are a chain to the current strategy, a session waits for one
\* decision, a token opens one, and a decision is for good.
StrategyIsConsistent ==
    /\ [](ReadsBelongTogether /\ EvolutionsChain /\ OnePendingPerSession /\ TokenOpensOnce)
    /\ PublishingIsFinal

=============================================================================
