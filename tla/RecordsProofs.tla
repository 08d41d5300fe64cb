--------------------------- MODULE RecordsProofs ---------------------------
(***************************************************************************)
(* Proofs about the strategy: readers see what belongs together, the       *)
(* adopted evolutions are a chain to the current strategy, and a token     *)
(* opens the way to one decision.  Then about the pools: the roles of past *)
(* days are kept, and who wrote an attention decides who may change it.    *)
(* Last about the ledger: a holding is what its events add up to, and its  *)
(* results are what the money did, up to the rounding.                     *)
(*                                                                         *)
(* What makes the induction work for the strategy is LocksInv: nobody      *)
(* shares the state row while an approval has locked it, and of all agents *)
(* and pages one has the agents' lock, so what it found under the lock     *)
(* stays so until it commits.  For the pools it is what a change of a      *)
(* history does to the days before it (ChangedAsOf), for the ledger that   *)
(* the row's date of opening is the one its first buy was entered with     *)
(* (OpeningInv), whatever dates came before and after it.                  *)
(***************************************************************************)
EXTENDS StrategyPublishing, PoolMembership, PositionsLedger, BacktestEngineProofs

Bodies == [Documents -> ProposalIds \cup {0}]
States == [seq : Nat, hash : Bodies]
ProposalType ==
    [status : {"absent", "pending", "approved", "rejected", "conflict"}, session : Authors \cup {Free},
     seq : Nat, base : Bodies, changes : SUBSET Documents, after : Bodies]
ScribeType == [step : {"idle", "reading", "read", "propose"}, state : States, body : Bodies]
PageType == [step : {"away", "review", "lock", "check", "decide", "sent"}, p : ProposalIds \cup {0},
             token : 0..TokenBound, decision : {"none", "approve", "reject"}]

\* PublishingTypeOK in these words; the adopted evolutions are a list.
TypeInv ==
    /\ body \in Bodies /\ state \in States /\ proposal \in [ProposalIds -> ProposalType]
    /\ shared \subseteq Authors /\ stateLocker \in Pages \cup {Free}
    /\ agentLock \in Authors \cup Pages \cup {Free} /\ scribe \in [Authors -> ScribeType]
    /\ grant \in [ProposalIds -> 0..TokenBound] /\ tokens \in 0..TokenBound /\ restarts \in 0..Restarts
    /\ page \in [Pages -> PageType] /\ opened \in [1..TokenBound -> Nat]
    /\ adopted \in Seq(ProposalIds)

\* Who holds which lock at which step.
LocksInv ==
    /\ \A a \in Authors : /\ scribe[a].step = "propose" => agentLock = a
                          /\ scribe[a].step = "reading" => a \in shared
    /\ \A u \in Pages : /\ page[u].step \in {"check", "decide"} => agentLock = u
                        /\ page[u].step = "decide" => stateLocker = u
    /\ shared = {} \/ stateLocker = Free

\* A page is about a proposal that was made; the one a page decides is pending.
PageInv ==
    \A u \in Pages :
        /\ page[u].step # "away" => /\ page[u].p \in ProposalIds /\ page[u].token \in 1..tokens
                                    /\ proposal[page[u].p].status # "absent"
        /\ page[u].step = "decide" => proposal[page[u].p].status = "pending"

\* The state row names the documents; a reader between its two reads has the
\* one that is in force.
ReadInv ==
    /\ state.hash = HashOf(body)
    /\ \A a \in Authors : scribe[a].step = "reading" => scribe[a].state = state
    /\ ReadsBelongTogether

\* What the i-th adopted evolution left, the 0-th being the seed.
After(i) == IF i = 0 THEN HashOf(Seed) ELSE proposal[adopted[i]].after

\* EvolutionsChain in these words, and that its proposals were approved.
ChainInv ==
    /\ \A i \in 1..Len(adopted) : /\ proposal[adopted[i]].base = After(i - 1)
                                 /\ proposal[adopted[i]].status = "approved"
    /\ HashOf(body) = After(Len(adopted))
    /\ state = [seq |-> Len(adopted), hash |-> HashOf(body)]

\* A token in force is of one proposal and has opened nothing; those to come
\* have not either.
TokenInv ==
    /\ \A p \in ProposalIds : grant[p] \in 0..tokens
    /\ \A p \in ProposalIds : grant[p] # 0 => opened[grant[p]] = 0
    /\ \A p, q \in ProposalIds : grant[p] # 0 /\ grant[p] = grant[q] => p = q
    /\ \A t \in 1..TokenBound : t > tokens => opened[t] = 0
    /\ TokenOpensOnce

PublishingInv ==
    /\ TypeInv /\ LocksInv /\ PageInv /\ ReadInv /\ ChainInv /\ TokenInv /\ OnePendingPerSession

-----------------------------------------------------------------------------
(* Types, and what a step changes.                                         *)

LEMMA TypesMean == TypeInv => PublishingTypeOK
BY DEF TypeInv, PublishingTypeOK, Bodies, States, ProposalType, ScribeType, PageType

LEMMA SeedTyped == Seed \in Bodies /\ NotThere \in ProposalType /\ AwayPage \in PageType
BY PublishingAssumption DEF Seed, Bodies, NotThere, ProposalType, AwayPage, PageType

\* Only one agent, only one page, only one proposal changes.
AloneScribe(a) == \A b \in Authors \ {a} : scribe'[b] = scribe[b]
AlonePage(u) == \A v \in Pages \ {u} : page'[v] = page[v]
AloneProposal(p) == \A q \in ProposalIds \ {p} : proposal'[q] = proposal[q]

LEMMA ScribeSet ==
    ASSUME TypeInv, NEW a \in Authors, NEW new \in ScribeType, scribe' = [scribe EXCEPT ![a] = new]
    PROVE  scribe' \in [Authors -> ScribeType] /\ scribe'[a] = new /\ AloneScribe(a)
BY DEF TypeInv, AloneScribe

LEMMA PageSet ==
    ASSUME TypeInv, NEW u \in Pages, NEW new \in PageType, page' = [page EXCEPT ![u] = new]
    PROVE  page' \in [Pages -> PageType] /\ page'[u] = new /\ AlonePage(u)
BY DEF TypeInv, AlonePage

LEMMA ProposalSet ==
    ASSUME TypeInv, NEW p \in ProposalIds, NEW new \in ProposalType, proposal' = [proposal EXCEPT ![p] = new]
    PROVE  proposal' \in [ProposalIds -> ProposalType] /\ proposal'[p] = new /\ AloneProposal(p)
BY DEF TypeInv, AloneProposal

ScribeSteps == {"idle", "reading", "read", "propose"}
PageSteps == {"away", "review", "lock", "check", "decide", "sent"}

LEMMA ScribeGoes ==
    ASSUME TypeInv, NEW a \in Authors, NEW step \in ScribeSteps, AuthorTo(a, step)
    PROVE  /\ scribe' \in [Authors -> ScribeType] /\ AloneScribe(a)
           /\ scribe'[a].step = step /\ scribe'[a].state = scribe[a].state /\ scribe'[a].body = scribe[a].body
<1> DEFINE new == [scribe[a] EXCEPT !.step = step]
<1>1. scribe[a] \in ScribeType
  BY DEF TypeInv
<1>2. /\ new \in ScribeType /\ new.step = step
      /\ new.state = scribe[a].state /\ new.body = scribe[a].body
  BY <1>1 DEF ScribeType, ScribeSteps
<1>3. scribe' = [scribe EXCEPT ![a] = new]
  BY DEF AuthorTo
<1> HIDE DEF new
<1> QED
  BY <1>2, <1>3, ScribeSet

LEMMA PageGoes ==
    ASSUME TypeInv, NEW u \in Pages, NEW step \in PageSteps, PageTo(u, step)
    PROVE  /\ page' \in [Pages -> PageType] /\ AlonePage(u)
           /\ page'[u].step = step /\ page'[u].p = page[u].p /\ page'[u].token = page[u].token
<1> DEFINE new == [page[u] EXCEPT !.step = step]
<1>1. page[u] \in PageType
  BY DEF TypeInv
<1>2. new \in PageType /\ new.step = step /\ new.p = page[u].p /\ new.token = page[u].token
  BY <1>1 DEF PageType, PageSteps
<1>3. page' = [page EXCEPT ![u] = new]
  BY DEF PageTo
<1> HIDE DEF new
<1> QED
  BY <1>2, <1>3, PageSet

LEMMA StatusSet ==
    ASSUME TypeInv, NEW p \in ProposalIds, NEW status \in {"rejected", "conflict"},
           proposal' = [proposal EXCEPT ![p].status = status]
    PROVE  /\ proposal' \in [ProposalIds -> ProposalType] /\ AloneProposal(p)
           /\ proposal'[p].status = status
<1> DEFINE new == [proposal[p] EXCEPT !.status = status]
<1>1. proposal[p] \in ProposalType
  BY DEF TypeInv
<1>2. new \in ProposalType /\ new.status = status
  BY <1>1 DEF ProposalType
<1>3. proposal' = [proposal EXCEPT ![p] = new]
  OBVIOUS
<1> HIDE DEF new
<1> QED
  BY <1>2, <1>3, ProposalSet

-----------------------------------------------------------------------------
(* The effect of each action.                                              *)

LEMMA ReadStateEffect ==
    ASSUME TypeInv, NEW a \in Authors, ReadState(a)
    PROVE  /\ TypeInv' /\ AloneScribe(a) /\ stateLocker = Free /\ shared' = shared \cup {a}
           /\ scribe[a].step = "idle" /\ scribe'[a].step = "reading" /\ scribe'[a].state = state
           /\ UNCHANGED keptByRead
<1> DEFINE new == [scribe[a] EXCEPT !.step = "reading", !.state = state]
<1>1. scribe[a] \in ScribeType /\ state \in States
  BY DEF TypeInv
<1>2. new \in ScribeType /\ new.step = "reading" /\ new.state = state
  BY <1>1 DEF ScribeType
<1>3. /\ scribe' = [scribe EXCEPT ![a] = new] /\ shared' = shared \cup {a}
      /\ stateLocker = Free /\ scribe[a].step = "idle" /\ UNCHANGED keptByRead
  BY DEF ReadState, MayShare
<1> HIDE DEF new
<1>4. scribe' \in [Authors -> ScribeType] /\ scribe'[a] = new /\ AloneScribe(a)
  BY <1>2, <1>3, ScribeSet
<1>5. TypeInv'
  <2>1. shared' \subseteq Authors
    BY <1>3 DEF TypeInv
  <2> QED
    BY <1>3, <1>4, <2>1 DEF TypeInv, keptByRead
<1> QED
  BY <1>2, <1>3, <1>4, <1>5

LEMMA ReadDocumentsEffect ==
    ASSUME TypeInv, NEW a \in Authors, ReadDocuments(a)
    PROVE  /\ TypeInv' /\ AloneScribe(a) /\ shared' = shared \ {a}
           /\ scribe[a].step = "reading" /\ scribe'[a].step = "read"
           /\ scribe'[a].state = scribe[a].state /\ scribe'[a].body = body
           /\ UNCHANGED keptByRead
<1> DEFINE new == [scribe[a] EXCEPT !.step = "read", !.body = body]
<1>1. scribe[a] \in ScribeType /\ body \in Bodies
  BY DEF TypeInv
<1>2. new \in ScribeType /\ new.step = "read" /\ new.body = body /\ new.state = scribe[a].state
  BY <1>1 DEF ScribeType
<1>3. /\ scribe' = [scribe EXCEPT ![a] = new] /\ shared' = shared \ {a}
      /\ scribe[a].step = "reading" /\ UNCHANGED keptByRead
  BY DEF ReadDocuments
<1> HIDE DEF new
<1>4. scribe' \in [Authors -> ScribeType] /\ scribe'[a] = new /\ AloneScribe(a)
  BY <1>2, <1>3, ScribeSet
<1>5. TypeInv'
  BY <1>3, <1>4 DEF TypeInv, keptByRead
<1> QED
  BY <1>2, <1>3, <1>4, <1>5

\* An agent takes the lock, finds it taken, or is refused.
ScribeMoves(a) == AuthorTakesLock(a) \/ AuthorFindsItBusy(a) \/ ProposalRefused(a)

LEMMA ScribeMovesEffect ==
    ASSUME TypeInv, NEW a \in Authors, ScribeMoves(a)
    PROVE  /\ TypeInv' /\ AloneScribe(a)
           /\ scribe'[a].state = scribe[a].state /\ scribe'[a].body = scribe[a].body
           /\ \/ /\ scribe[a].step = "read" /\ scribe'[a].step = "propose"
                 /\ agentLock = Free /\ agentLock' = a
              \/ scribe[a].step = "read" /\ scribe'[a].step = "idle" /\ agentLock' = agentLock
              \/ scribe[a].step = "propose" /\ scribe'[a].step = "idle" /\ agentLock' = Free
           /\ UNCHANGED <<keptByLocks, stateLocker, page>>
<1>1. PICK step \in {"propose", "idle"} :
        /\ AuthorTo(a, step)
        /\ \/ scribe[a].step = "read" /\ step = "propose" /\ agentLock = Free /\ agentLock' = a
           \/ scribe[a].step = "read" /\ step = "idle" /\ agentLock' = agentLock
           \/ scribe[a].step = "propose" /\ step = "idle" /\ agentLock' = Free
        /\ UNCHANGED <<keptByLocks, stateLocker, page>>
  BY DEF ScribeMoves, AuthorTakesLock, AuthorFindsItBusy, ProposalRefused
<1>2. /\ scribe' \in [Authors -> ScribeType] /\ AloneScribe(a)
      /\ scribe'[a].step = step /\ scribe'[a].state = scribe[a].state /\ scribe'[a].body = scribe[a].body
  BY <1>1, ScribeGoes DEF ScribeSteps
<1>3. agentLock' \in Authors \cup Pages \cup {Free}
  BY <1>1 DEF TypeInv
<1>4. TypeInv'
  BY <1>1, <1>2, <1>3 DEF TypeInv, keptByLocks
<1> QED
  BY <1>1, <1>2, <1>4

LEMMA ProposeEffect ==
    ASSUME TypeInv, NEW a \in Authors, Propose(a)
    PROVE  /\ TypeInv' /\ AloneScribe(a) /\ HasNoPending(a)
           /\ scribe[a].step = "propose" /\ scribe'[a].step = "idle" /\ agentLock' = Free
           /\ \E p \in ProposalIds : /\ proposal[p].status = "absent" /\ AloneProposal(p)
                                     /\ proposal'[p].status = "pending" /\ proposal'[p].session = a
           /\ UNCHANGED <<body, state, shared, stateLocker, grant, page, tokens, restarts, adopted, opened>>
<1>1. PICK p \in ProposalIds, changes \in (SUBSET Documents) \ {{}} :
        /\ NextId(p)
        /\ proposal' = [proposal EXCEPT ![p] =
              [status |-> "pending", session |-> a, seq |-> scribe[a].state.seq,
               base |-> scribe[a].state.hash, changes |-> changes, after |-> Seed]]
  BY DEF Propose
<1>2. /\ HasNoPending(a) /\ scribe[a].step = "propose" /\ agentLock' = Free /\ AuthorTo(a, "idle")
      /\ UNCHANGED <<body, state, shared, stateLocker, grant, page, tokens, restarts, adopted, opened>>
  BY DEF Propose
<1> DEFINE new == [status |-> "pending", session |-> a, seq |-> scribe[a].state.seq,
                   base |-> scribe[a].state.hash, changes |-> changes, after |-> Seed]
<1>3. new \in ProposalType /\ new.status = "pending" /\ new.session = a
  <2>1. scribe[a].state \in States /\ Seed \in Bodies
    BY SeedTyped DEF TypeInv, ScribeType
  <2> QED
    BY <2>1 DEF ProposalType, States
<1>4. proposal' = [proposal EXCEPT ![p] = new]
  BY <1>1
<1> HIDE DEF new
<1>5. proposal' \in [ProposalIds -> ProposalType] /\ proposal'[p] = new /\ AloneProposal(p)
  BY <1>3, <1>4, ProposalSet
<1>6. scribe' \in [Authors -> ScribeType] /\ AloneScribe(a) /\ scribe'[a].step = "idle"
  BY <1>2, ScribeGoes DEF ScribeSteps
<1>7. proposal[p].status = "absent"
  BY <1>1, PublishingAssumption DEF NextId
<1>8. TypeInv'
  BY <1>2, <1>5, <1>6 DEF TypeInv
<1> QED
  BY <1>2, <1>3, <1>5, <1>6, <1>7, <1>8

LEMMA OpenReviewEffect ==
    ASSUME TypeInv, NEW u \in Pages, NEW p \in ProposalIds, OpenReview(u, p)
    PROVE  /\ TypeInv' /\ AlonePage(u) /\ proposal[p].status = "pending"
           /\ page[u].step \in {"away", "review"}
           /\ page'[u].step = "review" /\ page'[u].p = p /\ page'[u].token = tokens + 1
           /\ tokens' = tokens + 1 /\ grant' = [grant EXCEPT ![p] = tokens + 1]
           /\ UNCHANGED <<body, state, proposal, shared, stateLocker, agentLock, scribe, restarts,
                          adopted, opened>>
<1> DEFINE new == [step |-> "review", p |-> p, token |-> tokens + 1, decision |-> "none"]
<1>1. /\ page' = [page EXCEPT ![u] = new] /\ tokens < TokenBound /\ proposal[p].status = "pending"
      /\ page[u].step \in {"away", "review"}
      /\ tokens' = tokens + 1 /\ grant' = [grant EXCEPT ![p] = tokens + 1]
      /\ UNCHANGED <<body, state, proposal, shared, stateLocker, agentLock, scribe, restarts,
                     adopted, opened>>
  BY DEF OpenReview
<1>2. tokens \in 0..TokenBound /\ tokens + 1 \in 0..TokenBound
  BY <1>1, PublishingAssumption DEF TypeInv
<1>3. new \in PageType /\ new.step = "review" /\ new.p = p /\ new.token = tokens + 1
  BY <1>2 DEF PageType
<1> HIDE DEF new
<1>4. page' \in [Pages -> PageType] /\ page'[u] = new /\ AlonePage(u)
  BY <1>1, <1>3, PageSet
<1>5. grant' \in [ProposalIds -> 0..TokenBound]
  BY <1>1, <1>2 DEF TypeInv
<1>6. TypeInv'
  BY <1>1, <1>2, <1>4, <1>5 DEF TypeInv
<1> QED
  BY <1>1, <1>3, <1>4, <1>6

LEMMA SendEffect ==
    ASSUME TypeInv, PageInv, NEW u \in Pages, NEW decision \in {"approve", "reject"}, SendDecision(u, decision)
    PROVE  LET p == page[u].p
               t == page[u].token
           IN  /\ TypeInv' /\ AlonePage(u) /\ page[u].step \in {"review", "sent"} /\ p \in ProposalIds
               /\ t \in 1..TokenBound /\ grant' = [grant EXCEPT ![p] = 0]
               /\ \/ /\ grant[p] = t /\ opened' = [opened EXCEPT ![t] = opened[t] + 1]
                     /\ page'[u].step = "lock" /\ page'[u].p = p /\ page'[u].token = t
                  \/ page'[u].step = "away" /\ UNCHANGED opened
               /\ UNCHANGED <<body, state, proposal, shared, stateLocker, agentLock, scribe, tokens,
                              restarts, adopted>>
<1> DEFINE p == page[u].p
           t == page[u].token
           sent == [page[u] EXCEPT !.step = "lock", !.decision = decision]
<1>1. page[u] \in PageType /\ p \in ProposalIds /\ t \in 1..TokenBound
  <2>1. page[u] \in PageType /\ tokens \in 0..TokenBound
    BY DEF TypeInv
  <2>2. page[u].step \in {"review", "sent"}
    BY DEF SendDecision
  <2>3. p \in ProposalIds /\ t \in 1..tokens
    BY <2>2 DEF PageInv
  <2> QED
    BY <2>1, <2>3, PublishingAssumption
<1>2. sent \in PageType /\ sent.step = "lock" /\ sent.p = p /\ sent.token = t
  BY <1>1 DEF PageType
<1>3. /\ page[u].step \in {"review", "sent"} /\ grant' = [grant EXCEPT ![p] = 0]
      /\ \/ /\ grant[p] = t /\ opened' = [opened EXCEPT ![t] = opened[t] + 1]
            /\ page' = [page EXCEPT ![u] = sent]
         \/ PageTo(u, "away") /\ UNCHANGED opened
      /\ UNCHANGED <<body, state, proposal, shared, stateLocker, agentLock, scribe, tokens,
                     restarts, adopted>>
  BY DEF SendDecision, Consumed, PageTo
<1> HIDE DEF p, t, sent
<1>4. /\ page' \in [Pages -> PageType] /\ AlonePage(u)
      /\ \/ /\ grant[p] = t /\ opened' = [opened EXCEPT ![t] = opened[t] + 1]
            /\ page'[u].step = "lock" /\ page'[u].p = p /\ page'[u].token = t
         \/ page'[u].step = "away" /\ UNCHANGED opened
  BY <1>2, <1>3, PageSet, PageGoes DEF PageSteps
<1>5. opened' \in [1..TokenBound -> Nat] /\ grant' \in [ProposalIds -> 0..TokenBound]
  BY <1>1, <1>3, PublishingAssumption DEF TypeInv
<1>6. TypeInv'
  BY <1>3, <1>4, <1>5 DEF TypeInv
<1> QED
  BY <1>1, <1>3, <1>4, <1>6 DEF p, t

\* A page takes the lock, finds it taken, locks the rows, comes too late, or its
\* transaction is rolled back.
PageMoves(u) ==
    PageTakesLock(u) \/ PageFindsItBusy(u) \/ LockState(u) \/ AlreadyDecided(u) \/ DecisionBreaks(u)

LEMMA PageMovesEffect ==
    ASSUME TypeInv, NEW u \in Pages, PageMoves(u)
    PROVE  /\ TypeInv' /\ AlonePage(u) /\ page'[u].p = page[u].p /\ page'[u].token = page[u].token
           /\ \/ /\ page[u].step = "lock" /\ page'[u].step = "check"
                 /\ agentLock = Free /\ agentLock' = u /\ stateLocker' = stateLocker
              \/ /\ page[u].step = "lock" /\ page'[u].step = "sent"
                 /\ agentLock' = agentLock /\ stateLocker' = stateLocker
              \/ /\ page[u].step = "check" /\ page'[u].step = "decide" /\ shared = {}
                 /\ StillPending(page[u].p) /\ agentLock' = agentLock /\ stateLocker' = u
              \/ page[u].step \in {"check", "decide"} /\ page'[u].step = "sent" /\ Ends(u)
           /\ UNCHANGED <<body, state, proposal, shared, grant, tokens, scribe, adopted, opened>>
<1>1. PICK step \in {"check", "sent", "decide"} :
        /\ PageTo(u, step)
        /\ \/ /\ page[u].step = "lock" /\ step = "check"
              /\ agentLock = Free /\ agentLock' = u /\ stateLocker' = stateLocker
           \/ /\ page[u].step = "lock" /\ step = "sent"
              /\ agentLock' = agentLock /\ stateLocker' = stateLocker
           \/ /\ page[u].step = "check" /\ step = "decide" /\ shared = {}
              /\ StillPending(page[u].p) /\ agentLock' = agentLock /\ stateLocker' = u
           \/ page[u].step \in {"check", "decide"} /\ step = "sent" /\ Ends(u)
        /\ UNCHANGED <<body, state, proposal, shared, grant, tokens, scribe, adopted, opened>>
        /\ restarts' = restarts \/ PublishingFault
  <2> USE DEF keptByLocks
  <2>1. CASE PageTakesLock(u)
    BY <2>1 DEF PageTakesLock
  <2>2. CASE PageFindsItBusy(u)
    BY <2>2 DEF PageFindsItBusy
  <2>3. CASE LockState(u)
    BY <2>3 DEF LockState
  <2>4. CASE AlreadyDecided(u)
    BY <2>4 DEF AlreadyDecided
  <2>5. CASE DecisionBreaks(u)
    BY <2>5 DEF DecisionBreaks
  <2> QED
    BY <2>1, <2>2, <2>3, <2>4, <2>5 DEF PageMoves
<1>2. /\ page' \in [Pages -> PageType] /\ AlonePage(u)
      /\ page'[u].step = step /\ page'[u].p = page[u].p /\ page'[u].token = page[u].token
  BY <1>1, PageGoes DEF PageSteps
<1>3. agentLock' \in Authors \cup Pages \cup {Free} /\ stateLocker' \in Pages \cup {Free}
  BY <1>1 DEF TypeInv, Ends
<1>4. restarts' \in 0..Restarts
  BY <1>1, PublishingAssumption DEF TypeInv, PublishingFault
<1>5. TypeInv'
  BY <1>1, <1>2, <1>3, <1>4 DEF TypeInv
<1> QED
  BY <1>1, <1>2, <1>5

\* A decision that changes nothing but the proposal.
Refuses(u) == MarkConflict(u) \/ RejectPublishing(u)

LEMMA RefusesEffect ==
    ASSUME TypeInv, PageInv, NEW u \in Pages, Refuses(u)
    PROVE  LET p == page[u].p
           IN  /\ TypeInv' /\ AlonePage(u) /\ page'[u].p = p /\ page'[u].token = page[u].token
               /\ page[u].step \in {"check", "decide"} /\ page'[u].step = "sent" /\ Ends(u)
               /\ p \in ProposalIds /\ proposal[p].status = "pending" /\ AloneProposal(p)
               /\ proposal'[p].status \in {"rejected", "conflict"}
               /\ UNCHANGED <<body, state, shared, scribe, grant, tokens, restarts, adopted, opened>>
<1> DEFINE p == page[u].p
<1>1. PICK status \in {"rejected", "conflict"} :
        /\ proposal' = [proposal EXCEPT ![p].status = status]
        /\ page[u].step \in {"check", "decide"} /\ PageTo(u, "sent") /\ Ends(u)
        /\ StillPending(p) \/ page[u].step = "decide"
        /\ UNCHANGED <<body, state, shared, scribe, grant, tokens, restarts, adopted, opened>>
  BY DEF Refuses, MarkConflict, RejectPublishing
<1>2. p \in ProposalIds /\ proposal[p].status = "pending"
  BY <1>1 DEF PageInv, StillPending
<1> HIDE DEF p
<1>3. /\ proposal' \in [ProposalIds -> ProposalType] /\ AloneProposal(p)
      /\ proposal'[p].status = status
  BY <1>1, <1>2, StatusSet
<1>4. /\ page' \in [Pages -> PageType] /\ AlonePage(u)
      /\ page'[u].step = "sent" /\ page'[u].p = page[u].p /\ page'[u].token = page[u].token
  BY <1>1, PageGoes DEF PageSteps
<1>5. agentLock' \in Authors \cup Pages \cup {Free} /\ stateLocker' \in Pages \cup {Free}
  BY <1>1 DEF TypeInv, Ends
<1>6. TypeInv'
  BY <1>1, <1>3, <1>4, <1>5 DEF TypeInv
<1> QED
  BY <1>1, <1>2, <1>3, <1>4, <1>6 DEF p

LEMMA PublishEffect ==
    ASSUME TypeInv, PageInv, NEW u \in Pages, Publish(u)
    PROVE  LET p == page[u].p
           IN  /\ TypeInv' /\ AlonePage(u) /\ page'[u].p = p /\ page'[u].token = page[u].token
               /\ page[u].step = "decide" /\ page'[u].step = "sent" /\ Ends(u)
               /\ p \in ProposalIds /\ proposal[p].status = "pending" /\ AloneProposal(p)
               /\ proposal'[p].status = "approved" /\ proposal'[p].base = proposal[p].base
               /\ proposal'[p].after = HashOf(body') /\ proposal[p].base = state.hash
               /\ state' = [seq |-> state.seq + 1, hash |-> HashOf(body')] /\ adopted' = Append(adopted, p)
               /\ UNCHANGED <<shared, scribe, grant, tokens, restarts, opened>>
<1> DEFINE p == page[u].p
           published == [d \in Documents |-> IF d \in proposal[p].changes THEN p ELSE body[d]]
           new == [proposal[p] EXCEPT !.status = "approved", !.after = HashOf(published)]
<1>1. /\ page[u].step = "decide" /\ proposal[p].base = state.hash
      /\ body' = published /\ state' = [seq |-> state.seq + 1, hash |-> HashOf(published)]
      /\ proposal' = [proposal EXCEPT ![p] = new]
      /\ adopted' = Append(adopted, p) /\ Ends(u) /\ PageTo(u, "sent")
      /\ UNCHANGED <<shared, scribe, grant, tokens, restarts, opened>>
  BY DEF Publish, BaseIsCurrent, PublishedState
<1>2. p \in ProposalIds /\ proposal[p].status = "pending"
  BY <1>1 DEF PageInv
<1>3. published \in Bodies
  BY <1>2 DEF TypeInv, Bodies
<1>4. /\ new \in ProposalType /\ new.status = "approved"
      /\ new.base = proposal[p].base /\ new.after = published
  <2>1. proposal[p] \in ProposalType
    BY <1>2 DEF TypeInv
  <2> HIDE DEF published
  <2> QED
    BY <1>3, <2>1 DEF ProposalType, HashOf
<1> HIDE DEF p, published, new
<1>5. proposal' \in [ProposalIds -> ProposalType] /\ proposal'[p] = new /\ AloneProposal(p)
  BY <1>1, <1>2, <1>4, ProposalSet
<1>6. /\ page' \in [Pages -> PageType] /\ AlonePage(u)
      /\ page'[u].step = "sent" /\ page'[u].p = page[u].p /\ page'[u].token = page[u].token
  BY <1>1, PageGoes DEF PageSteps
<1>7. agentLock' \in Authors \cup Pages \cup {Free} /\ stateLocker' \in Pages \cup {Free}
  BY <1>1 DEF TypeInv, Ends
<1>8. state' \in States /\ adopted' \in Seq(ProposalIds)
  BY <1>1, <1>2, <1>3 DEF TypeInv, States, HashOf
<1>9. TypeInv'
  BY <1>1, <1>3, <1>5, <1>6, <1>7, <1>8 DEF TypeInv
<1> QED
  BY <1>1, <1>2, <1>4, <1>5, <1>6, <1>9 DEF p, HashOf

LEMMA ExpiresEffect ==
    ASSUME TypeInv, NEW p \in ProposalIds, TokenExpires(p)
    PROVE  /\ TypeInv' /\ grant' = [grant EXCEPT ![p] = 0]
           /\ UNCHANGED <<body, state, proposal, shared, stateLocker, agentLock, scribe, page, tokens,
                          adopted, opened>>
<1>1. restarts' \in 0..Restarts
  BY PublishingAssumption DEF TypeInv, TokenExpires, PublishingFault
<1>2. grant' \in [ProposalIds -> 0..TokenBound]
  BY PublishingAssumption DEF TypeInv, TokenExpires
<1> QED
  BY <1>1, <1>2 DEF TokenExpires, TypeInv

LEMMA RestartEffect ==
    ASSUME TypeInv, PublishingRestart
    PROVE  /\ TypeInv' /\ shared' = {} /\ stateLocker' = Free
           /\ grant' = [p \in ProposalIds |-> 0]
           /\ \A a \in Authors : scribe'[a].step = "idle"
           /\ \A u \in Pages : \/ page[u].step \in {"lock", "check", "decide"} /\ page'[u].step = "sent"
                                  /\ page'[u].p = page[u].p /\ page'[u].token = page[u].token
                               \/ page[u].step \notin {"lock", "check", "decide"} /\ page'[u] = page[u]
           /\ UNCHANGED <<body, state, proposal, tokens, adopted, opened>>
<1>1. /\ PublishingFault /\ shared' = {} /\ stateLocker' = Free /\ agentLock' = Free
      /\ grant' = [p \in ProposalIds |-> 0]
      /\ scribe' = [a \in Authors |-> [scribe[a] EXCEPT !.step = "idle"]]
      /\ page' = [u \in Pages |-> IF page[u].step \in {"lock", "check", "decide"}
                                    THEN [page[u] EXCEPT !.step = "sent"] ELSE page[u]]
      /\ UNCHANGED <<body, state, proposal, tokens, adopted, opened>>
  BY DEF PublishingRestart
<1>2. ASSUME NEW a \in Authors
      PROVE  [scribe[a] EXCEPT !.step = "idle"] \in ScribeType /\ scribe'[a].step = "idle"
  <2>1. scribe[a] \in ScribeType
    BY DEF TypeInv
  <2> QED
    BY <1>1, <2>1 DEF ScribeType
<1>3. ASSUME NEW u \in Pages
      PROVE  /\ [page[u] EXCEPT !.step = "sent"] \in PageType /\ page[u] \in PageType
             /\ \/ page[u].step \in {"lock", "check", "decide"} /\ page'[u].step = "sent"
                   /\ page'[u].p = page[u].p /\ page'[u].token = page[u].token
                \/ page[u].step \notin {"lock", "check", "decide"} /\ page'[u] = page[u]
  <2>1. page[u] \in PageType
    BY DEF TypeInv
  <2>2. /\ [page[u] EXCEPT !.step = "sent"] \in PageType
        /\ [page[u] EXCEPT !.step = "sent"].step = "sent"
        /\ [page[u] EXCEPT !.step = "sent"].p = page[u].p
        /\ [page[u] EXCEPT !.step = "sent"].token = page[u].token
    BY <2>1 DEF PageType
  <2> QED
    BY <1>1, <2>1, <2>2
<1>4. restarts' \in 0..Restarts
  BY <1>1, PublishingAssumption DEF TypeInv, PublishingFault
<1>5. scribe' \in [Authors -> ScribeType] /\ page' \in [Pages -> PageType]
  BY <1>1, <1>2, <1>3
<1>6. grant' \in [ProposalIds -> 0..TokenBound]
  BY <1>1, PublishingAssumption
<1>7. TypeInv'
  BY <1>1, <1>4, <1>5, <1>6 DEF TypeInv
<1> QED
  BY <1>1, <1>2, <1>3, <1>7

-----------------------------------------------------------------------------
(* The invariant, part by part.                                            *)

LEMMA PublishingSteps ==
    PublishingNext <=>
        \/ \E a \in Authors : ReadState(a) \/ ReadDocuments(a) \/ ScribeMoves(a) \/ Propose(a)
        \/ \E u \in Pages, p \in ProposalIds : OpenReview(u, p)
        \/ \E u \in Pages : PageMoves(u) \/ Publish(u) \/ Refuses(u)
                            \/ \E decision \in {"approve", "reject"} : SendDecision(u, decision)
        \/ \E p \in ProposalIds : TokenExpires(p)
        \/ PublishingRestart
BY DEF PublishingNext, ScribeMoves, PageMoves, Refuses

LEMMA Distinct == Free \notin Authors /\ Free \notin Pages /\ Authors \cap Pages = {}
BY PublishingAssumption DEF Free

LEMMA InitInv == PublishingInit => PublishingInv
<1> SUFFICES ASSUME PublishingInit
             PROVE  PublishingInv
  OBVIOUS
<1> USE DEF PublishingInit
<1>1. TypeInv
  BY SeedTyped, PublishingAssumption DEF TypeInv, States, HashOf, ScribeType
<1>2. /\ \A a \in Authors : scribe[a].step = "idle"
      /\ \A u \in Pages : page[u].step = "away"
      /\ \A p \in ProposalIds : proposal[p].status = "absent" /\ grant[p] = 0
      /\ shared = {} /\ tokens = 0 /\ \A t \in 1..TokenBound : opened[t] = 0
      /\ state.hash = HashOf(body) /\ state = [seq |-> 0, hash |-> HashOf(body)] /\ body = Seed
  BY DEF AwayPage, NotThere, HashOf
<1>3. Len(adopted) = 0 /\ \A i \in 1..Len(adopted) : FALSE
  OBVIOUS
<1>4. LocksInv /\ PageInv
  BY <1>2 DEF LocksInv, PageInv
<1>5. ReadInv /\ OnePendingPerSession
  BY <1>2 DEF ReadInv, ReadsBelongTogether, OnePendingPerSession
<1>6. ChainInv
  BY <1>2, <1>3 DEF ChainInv, After
<1>7. TokenInv
  BY <1>2 DEF TokenInv, TokenOpensOnce
<1> QED
  BY <1>1, <1>4, <1>5, <1>6, <1>7 DEF PublishingInv

LEMMA NextTypes ==
    ASSUME TypeInv, PageInv, PublishingNext
    PROVE  TypeInv'
BY PublishingSteps, ReadStateEffect, ReadDocumentsEffect, ScribeMovesEffect, ProposeEffect, OpenReviewEffect,
   PageMovesEffect, PublishEffect, RefusesEffect, SendEffect, ExpiresEffect, RestartEffect

\* Who leaves a decision had the agents' lock, and nobody else is affected.
LEMMA LocksEnd ==
    ASSUME LocksInv, NEW u \in Pages, page[u].step \in {"check", "decide"}, Ends(u), AlonePage(u),
           page'[u].step = "sent", UNCHANGED <<shared, scribe>>
    PROVE  LocksInv'
<1>1. agentLock = u /\ agentLock' = Free
  BY DEF LocksInv, Ends
<1>2. ASSUME NEW a \in Authors, scribe'[a].step = "propose"
      PROVE  FALSE
  BY <1>1, <1>2, Distinct DEF LocksInv
<1>3. ASSUME NEW v \in Pages, page'[v].step \in {"check", "decide"}
      PROVE  FALSE
  <2>1. v # u
    BY <1>3
  <2>2. agentLock = v
    BY <1>3, <2>1 DEF LocksInv, AlonePage
  <2> QED
    BY <1>1, <2>1, <2>2
<1>4. \A a \in Authors : scribe'[a].step = "reading" => a \in shared'
  BY DEF LocksInv
<1>5. shared' = {} \/ stateLocker' = Free
  BY DEF LocksInv, Ends
<1> QED
  BY <1>2, <1>3, <1>4, <1>5 DEF LocksInv

LEMMA ScribeLocks ==
    ASSUME TypeInv, LocksInv, NEW a \in Authors,
           ReadState(a) \/ ReadDocuments(a) \/ ScribeMoves(a) \/ Propose(a)
    PROVE  LocksInv'
<1>1. CASE ReadState(a)
  BY <1>1, ReadStateEffect DEF LocksInv, AloneScribe, keptByRead
<1>2. CASE ReadDocuments(a)
  BY <1>2, ReadDocumentsEffect DEF LocksInv, AloneScribe, keptByRead
<1>3. CASE ScribeMoves(a)
  <2>1. /\ AloneScribe(a) /\ UNCHANGED <<shared, stateLocker, page>> /\ scribe'[a].step # "reading"
        /\ \/ /\ scribe[a].step = "read" /\ scribe'[a].step = "propose"
              /\ agentLock = Free /\ agentLock' = a
           \/ scribe[a].step = "read" /\ scribe'[a].step = "idle" /\ agentLock' = agentLock
           \/ scribe[a].step = "propose" /\ scribe'[a].step = "idle" /\ agentLock' = Free
    BY <1>3, ScribeMovesEffect DEF keptByLocks
  <2>2. \A b \in Authors : scribe'[b].step = "propose" => agentLock' = b
    BY <2>1, Distinct DEF LocksInv, AloneScribe
  <2>3. \A u \in Pages : page'[u].step \in {"check", "decide"} => agentLock' = u
    BY <2>1, Distinct DEF LocksInv
  <2> QED
    BY <2>1, <2>2, <2>3 DEF LocksInv, AloneScribe
<1>4. CASE Propose(a)
  <2>1. /\ AloneScribe(a) /\ UNCHANGED <<shared, stateLocker, page>>
        /\ scribe[a].step = "propose" /\ scribe'[a].step = "idle" /\ agentLock' = Free
    BY <1>4, ProposeEffect
  <2>2. \A b \in Authors : scribe'[b].step # "propose"
    BY <2>1 DEF LocksInv, AloneScribe
  <2>3. \A u \in Pages : page'[u].step \notin {"check", "decide"}
    BY <2>1, Distinct DEF LocksInv
  <2> QED
    BY <2>1, <2>2, <2>3 DEF LocksInv, AloneScribe
<1> QED
  BY <1>1, <1>2, <1>3, <1>4

LEMMA PageLocks ==
    ASSUME TypeInv, LocksInv, NEW u \in Pages, PageMoves(u)
    PROVE  LocksInv'
<1>1. AlonePage(u) /\ UNCHANGED <<shared, scribe>>
  BY PageMovesEffect
<1>2. CASE /\ page[u].step = "lock" /\ page'[u].step = "check"
           /\ agentLock = Free /\ agentLock' = u /\ stateLocker' = stateLocker
  <2>1. \A a \in Authors : scribe[a].step # "propose"
    BY <1>2, Distinct DEF LocksInv
  <2>2. \A v \in Pages \ {u} : page'[v].step \notin {"check", "decide"}
    BY <1>1, <1>2, Distinct DEF LocksInv, AlonePage
  <2> QED
    BY <1>1, <1>2, <2>1, <2>2 DEF LocksInv
<1>3. CASE /\ page[u].step = "lock" /\ page'[u].step = "sent"
           /\ agentLock' = agentLock /\ stateLocker' = stateLocker
  BY <1>1, <1>3 DEF LocksInv, AlonePage
<1>4. CASE /\ page[u].step = "check" /\ page'[u].step = "decide" /\ shared = {}
           /\ agentLock' = agentLock /\ stateLocker' = u
  <2>1. \A v \in Pages \ {u} : page'[v].step \notin {"check", "decide"}
    BY <1>1, <1>4 DEF LocksInv, AlonePage
  <2> QED
    BY <1>1, <1>4, <2>1 DEF LocksInv
<1>5. CASE page[u].step \in {"check", "decide"} /\ page'[u].step = "sent" /\ Ends(u)
  BY <1>1, <1>5, LocksEnd
<1> QED
  BY <1>2, <1>3, <1>4, <1>5, PageMovesEffect

LEMMA NextLocks ==
    ASSUME TypeInv, LocksInv, PageInv, PublishingNext
    PROVE  LocksInv'
<1>1. ASSUME NEW u \in Pages, Publish(u) \/ Refuses(u)
      PROVE  LocksInv'
  <2>1. /\ page[u].step \in {"check", "decide"} /\ Ends(u) /\ AlonePage(u)
        /\ page'[u].step = "sent" /\ UNCHANGED <<shared, scribe>>
    BY <1>1, PublishEffect, RefusesEffect
  <2> QED
    BY <2>1, LocksEnd
<1>2. ASSUME NEW u \in Pages, AlonePage(u), page'[u].step \in {"review", "lock", "away"},
             UNCHANGED <<shared, scribe, stateLocker, agentLock>>
      PROVE  LocksInv'
  BY <1>2 DEF LocksInv, AlonePage
<1>3. ASSUME NEW u \in Pages, NEW p \in ProposalIds, OpenReview(u, p)
      PROVE  LocksInv'
  BY <1>2, <1>3, OpenReviewEffect
<1>4. ASSUME NEW u \in Pages, NEW decision \in {"approve", "reject"}, SendDecision(u, decision)
      PROVE  LocksInv'
  <2>1. /\ AlonePage(u) /\ page'[u].step \in {"review", "lock", "away"}
        /\ UNCHANGED <<shared, scribe, stateLocker, agentLock>>
    BY <1>4, SendEffect
  <2> QED
    BY <1>2, <2>1
<1>5. ASSUME NEW p \in ProposalIds, TokenExpires(p)
      PROVE  LocksInv'
  BY <1>5, ExpiresEffect DEF LocksInv
<1>6. CASE PublishingRestart
  BY <1>6, RestartEffect DEF LocksInv
<1> QED
  BY <1>1, <1>3, <1>4, <1>5, <1>6, PublishingSteps, ScribeLocks, PageLocks

\* The fate of one proposal in one step: it is made, or it is decided by the page
\* that has the agents' lock.
DecidedBy(u, p) ==
    /\ agentLock = u /\ page'[u].step = "sent"
    /\ proposal[p].status = "pending" /\ proposal'[p].status \in {"approved", "rejected", "conflict"}
Fate(p) ==
    \/ proposal'[p] = proposal[p]
    \/ proposal[p].status = "absent" /\ proposal'[p].status = "pending"
    \/ \E u \in Pages : DecidedBy(u, p)

LEMMA Fates ==
    ASSUME TypeInv, LocksInv, PageInv, PublishingNext, NEW p \in ProposalIds
    PROVE  Fate(p)
<1>1. ASSUME NEW a \in Authors, Propose(a)
      PROVE  Fate(p)
  <2>1. PICK q \in ProposalIds : /\ proposal[q].status = "absent" /\ AloneProposal(q)
                                 /\ proposal'[q].status = "pending"
    BY <1>1, ProposeEffect
  <2> QED
    BY <2>1 DEF Fate, AloneProposal
<1>2. ASSUME NEW u \in Pages, Publish(u) \/ Refuses(u)
      PROVE  Fate(p)
  <2> DEFINE q == page[u].p
  <2>1. /\ page[u].step \in {"check", "decide"} /\ page'[u].step = "sent" /\ AloneProposal(q)
        /\ q \in ProposalIds /\ proposal[q].status = "pending"
        /\ proposal'[q].status \in {"approved", "rejected", "conflict"}
    BY <1>2, PublishEffect, RefusesEffect
  <2>2. agentLock = u
    BY <2>1 DEF LocksInv
  <2> HIDE DEF q
  <2> QED
    BY <2>1, <2>2 DEF Fate, DecidedBy, AloneProposal
<1>3. CASE UNCHANGED proposal
  BY <1>3 DEF Fate
<1>4. ASSUME NEW a \in Authors, ReadState(a) \/ ReadDocuments(a) \/ ScribeMoves(a)
      PROVE  UNCHANGED proposal
  BY <1>4, ReadStateEffect, ReadDocumentsEffect, ScribeMovesEffect DEF keptByRead, keptByLocks
<1>5. ASSUME NEW u \in Pages, NEW decision \in {"approve", "reject"}, SendDecision(u, decision)
      PROVE  UNCHANGED proposal
  BY <1>5, SendEffect
<1> QED
  BY <1>1, <1>2, <1>3, <1>4, <1>5, PublishingSteps, OpenReviewEffect, PageMovesEffect, ExpiresEffect, RestartEffect

\* A page that stays where it is stays about a proposal that was made, and
\* about a pending one while it decides.
LEMMA PageStays ==
    ASSUME TypeInv, LocksInv, PageInv, PublishingNext, NEW v \in Pages,
           page'[v] = page[v], tokens' \in Nat, tokens <= tokens'
    PROVE  /\ page'[v].step # "away" => /\ page'[v].p \in ProposalIds /\ page'[v].token \in 1..tokens'
                                        /\ proposal'[page'[v].p].status # "absent"
           /\ page'[v].step = "decide" => proposal'[page'[v].p].status = "pending"
<1>1. tokens \in Nat
  BY PublishingAssumption DEF TypeInv
<1>2. CASE page[v].step # "away"
  <2>1. page[v].p \in ProposalIds /\ page[v].token \in 1..tokens' /\ proposal[page[v].p].status # "absent"
    BY <1>1, <1>2 DEF PageInv
  <2>2. Fate(page[v].p)
    BY <2>1, Fates
  <2>3. proposal'[page[v].p].status # "absent"
    BY <2>1, <2>2 DEF Fate, DecidedBy
  <2>4. ASSUME page[v].step = "decide"
        PROVE  proposal'[page[v].p].status = "pending"
    <3>1. agentLock = v /\ proposal[page[v].p].status = "pending"
      BY <2>4 DEF LocksInv, PageInv
    <3>2. \A u \in Pages : ~DecidedBy(u, page[v].p)
      BY <2>4, <3>1 DEF DecidedBy
    <3> QED
      BY <2>2, <3>1, <3>2 DEF Fate
  <2> QED
    BY <2>1, <2>3, <2>4
<1> QED
  BY <1>2

LEMMA NextPage ==
    ASSUME TypeInv, LocksInv, PageInv, PublishingNext
    PROVE  PageInv'
<1>1. tokens \in Nat
  BY PublishingAssumption DEF TypeInv
<1>2. ASSUME UNCHANGED <<page, tokens>>
      PROVE  PageInv'
  BY <1>1, <1>2, PageStays DEF PageInv
<1>3. ASSUME NEW u \in Pages, AlonePage(u), tokens' \in Nat, tokens <= tokens',
             page'[u].step # "away" => /\ page'[u].p \in ProposalIds /\ page'[u].token \in 1..tokens'
                                       /\ proposal'[page'[u].p].status # "absent",
             page'[u].step = "decide" => proposal'[page'[u].p].status = "pending"
      PROVE  PageInv'
  <2>1. ASSUME NEW v \in Pages, v # u
        PROVE  /\ page'[v].step # "away" => /\ page'[v].p \in ProposalIds /\ page'[v].token \in 1..tokens'
                                            /\ proposal'[page'[v].p].status # "absent"
               /\ page'[v].step = "decide" => proposal'[page'[v].p].status = "pending"
    <3>1. page'[v] = page[v]
      BY <1>3, <2>1 DEF AlonePage
    <3> QED
      BY <1>3, <3>1, PageStays
  <2> QED
    BY <1>3, <2>1 DEF PageInv
<1>4. ASSUME NEW u \in Pages, NEW p \in ProposalIds, OpenReview(u, p)
      PROVE  PageInv'
  <2>1. /\ AlonePage(u) /\ tokens' = tokens + 1 /\ page'[u].step = "review" /\ page'[u].p = p
        /\ page'[u].token = tokens + 1 /\ proposal[p].status = "pending" /\ proposal' = proposal
    BY <1>4, OpenReviewEffect
  <2> QED
    BY <1>1, <1>3, <2>1
<1>5. ASSUME NEW u \in Pages, PageMoves(u)
      PROVE  PageInv'
  <2>1. /\ AlonePage(u) /\ UNCHANGED <<proposal, tokens>>
        /\ page'[u].p = page[u].p /\ page'[u].token = page[u].token /\ page[u].step # "away"
        /\ page'[u].step = "decide" => StillPending(page[u].p)
    BY <1>5, PageMovesEffect
  <2> QED
    BY <1>1, <1>3, <2>1 DEF PageInv, StillPending
<1>6. ASSUME NEW u \in Pages, Publish(u) \/ Refuses(u)
      PROVE  PageInv'
  <2>1. /\ AlonePage(u) /\ tokens' = tokens /\ page'[u].p = page[u].p /\ page'[u].token = page[u].token
        /\ page[u].step # "away" /\ page'[u].step = "sent" /\ proposal'[page[u].p].status # "absent"
    BY <1>6, PublishEffect, RefusesEffect
  <2> QED
    BY <1>1, <1>3, <2>1 DEF PageInv
<1>7. ASSUME NEW u \in Pages, NEW decision \in {"approve", "reject"}, SendDecision(u, decision)
      PROVE  PageInv'
  <2>1. /\ AlonePage(u) /\ UNCHANGED <<proposal, tokens>> /\ page[u].step # "away"
        /\ \/ page'[u].step = "lock" /\ page'[u].p = page[u].p /\ page'[u].token = page[u].token
           \/ page'[u].step = "away"
    BY <1>7, SendEffect
  <2> QED
    BY <1>1, <1>3, <2>1 DEF PageInv
<1>8. CASE PublishingRestart
  BY <1>8, RestartEffect DEF PageInv
<1>9. ASSUME NEW a \in Authors, ReadState(a) \/ ReadDocuments(a) \/ ScribeMoves(a) \/ Propose(a)
      PROVE  UNCHANGED <<page, tokens>>
  BY <1>9, ReadStateEffect, ReadDocumentsEffect, ScribeMovesEffect, ProposeEffect DEF keptByRead, keptByLocks
<1> QED
  BY <1>2, <1>4, <1>5, <1>6, <1>7, <1>8, <1>9, PublishingSteps, ExpiresEffect

LEMMA NextRead ==
    ASSUME TypeInv, LocksInv, PageInv, ReadInv, PublishingNext
    PROVE  ReadInv'
<1> USE DEF HashOf
<1>1. ASSUME NEW u \in Pages, Publish(u)
      PROVE  ReadInv'
  <2>1. /\ page[u].step = "decide" /\ UNCHANGED <<shared, scribe>>
        /\ state' = [seq |-> state.seq + 1, hash |-> body']
    BY <1>1, PublishEffect
  <2>2. \A a \in Authors : scribe[a].step # "reading"
    BY <2>1, Distinct DEF LocksInv
  <2> QED
    BY <2>1, <2>2 DEF ReadInv, ReadsBelongTogether
<1>2. ASSUME NEW a \in Authors, ReadState(a)
      PROVE  ReadInv'
  BY <1>2, ReadStateEffect DEF ReadInv, ReadsBelongTogether, AloneScribe, keptByRead
<1>3. ASSUME NEW a \in Authors, ReadDocuments(a)
      PROVE  ReadInv'
  BY <1>3, ReadDocumentsEffect DEF ReadInv, ReadsBelongTogether, AloneScribe, keptByRead
<1>4. ASSUME NEW a \in Authors, ScribeMoves(a) \/ Propose(a)
      PROVE  ReadInv'
  <2>1. /\ AloneScribe(a) /\ UNCHANGED <<body, state>>
        /\ scribe'[a].step # "reading"
        /\ scribe'[a].step \in {"read", "propose"} =>
              /\ scribe[a].step = "read"
              /\ scribe'[a].state = scribe[a].state /\ scribe'[a].body = scribe[a].body
    BY <1>4, ScribeMovesEffect, ProposeEffect DEF keptByLocks
  <2> QED
    BY <2>1 DEF ReadInv, ReadsBelongTogether, AloneScribe
<1>5. ASSUME UNCHANGED <<body, state, scribe>>
      PROVE  ReadInv'
  BY <1>5 DEF ReadInv, ReadsBelongTogether
<1>6. CASE PublishingRestart
  BY <1>6, RestartEffect DEF ReadInv, ReadsBelongTogether
<1>7. ASSUME NEW u \in Pages, NEW decision \in {"approve", "reject"}, SendDecision(u, decision)
      PROVE  UNCHANGED <<body, state, scribe>>
  BY <1>7, SendEffect
<1>8. ASSUME NEW u \in Pages, Refuses(u)
      PROVE  UNCHANGED <<body, state, scribe>>
  BY <1>8, RefusesEffect
<1> QED
  BY <1>1, <1>2, <1>3, <1>4, <1>5, <1>6, <1>7, <1>8, PublishingSteps, OpenReviewEffect, PageMovesEffect, ExpiresEffect

\* The adopted evolutions are proposals, approved and so left alone.
LEMMA AdoptedStay ==
    ASSUME TypeInv, LocksInv, PageInv, ChainInv, PublishingNext
    PROVE  /\ Len(adopted) \in Nat
           /\ \A i \in 1..Len(adopted) : /\ adopted[i] \in ProposalIds
                                         /\ proposal'[adopted[i]] = proposal[adopted[i]]
<1>1. Len(adopted) \in Nat /\ \A i \in 1..Len(adopted) : adopted[i] \in ProposalIds
  BY DEF TypeInv
<1>2. ASSUME NEW i \in 1..Len(adopted)
      PROVE  proposal'[adopted[i]] = proposal[adopted[i]]
  <2>1. Fate(adopted[i]) /\ proposal[adopted[i]].status = "approved"
    BY <1>1, Fates DEF ChainInv
  <2> QED
    BY <2>1 DEF Fate, DecidedBy
<1> QED
  BY <1>1, <1>2

LEMMA NextChain ==
    ASSUME TypeInv, LocksInv, PageInv, ChainInv, PublishingNext
    PROVE  ChainInv'
<1>1. /\ Len(adopted) \in Nat
      /\ \A i \in 1..Len(adopted) : /\ adopted[i] \in ProposalIds
                                    /\ proposal'[adopted[i]] = proposal[adopted[i]]
  BY AdoptedStay
<1>2. ASSUME UNCHANGED <<body, state, adopted>>
      PROVE  ChainInv'
  <2>1. \A i \in 0..Len(adopted) : After(i)' = After(i)
    BY <1>1, <1>2 DEF After
  <2>2. \A i \in 1..Len(adopted) : i - 1 \in 0..Len(adopted)
    BY <1>1
  <2>3. Len(adopted) \in 0..Len(adopted)
    BY <1>1
  <2> QED
    BY <1>1, <1>2, <2>1, <2>2, <2>3 DEF ChainInv, HashOf
<1>3. ASSUME NEW u \in Pages, Publish(u)
      PROVE  ChainInv'
  <2> DEFINE p == page[u].p
  <2>1. /\ p \in ProposalIds /\ proposal'[p].status = "approved" /\ proposal'[p].base = proposal[p].base
        /\ proposal'[p].after = HashOf(body') /\ proposal[p].base = state.hash
        /\ state' = [seq |-> state.seq + 1, hash |-> HashOf(body')] /\ adopted' = Append(adopted, p)
    BY <1>3, PublishEffect
  <2> HIDE DEF p
  <2>0. PICK n \in Nat : n = Len(adopted)
    BY <1>1
  <2>2. state.seq = n /\ state.hash = After(n)
    BY <2>0 DEF ChainInv
  <2>3. /\ Len(adopted') = n + 1 /\ adopted'[n + 1] = p
        /\ \A i \in 1..n : adopted'[i] = adopted[i]
    BY <2>0, <2>1 DEF TypeInv
  <2>4. \A i \in 0..n : After(i)' = After(i)
    BY <1>1, <2>0, <2>3 DEF After
  <2>5. After(n + 1)' = HashOf(body')
    BY <2>1, <2>3, <2>4 DEF After
  <2>6. ASSUME NEW i \in 1..(n + 1)
        PROVE  proposal'[adopted'[i]].base = After(i - 1)' /\ proposal'[adopted'[i]].status = "approved"
    <3>1. CASE i = n + 1
      <4>1. i - 1 = n /\ After(n)' = After(n)
        BY <2>4, <3>1
      <4> QED
        BY <2>1, <2>2, <2>3, <3>1, <4>1
    <3>2. CASE i # n + 1
      <4>1. i \in 1..n /\ i - 1 \in 0..n
        BY <2>4, <3>2
      <4>2. proposal'[adopted'[i]] = proposal[adopted[i]] /\ After(i - 1)' = After(i - 1)
        BY <1>1, <2>0, <2>3, <2>4, <4>1
      <4> QED
        BY <2>0, <4>1, <4>2 DEF ChainInv
    <3> QED
      BY <3>1, <3>2
  <2>7. state' = [seq |-> Len(adopted'), hash |-> HashOf(body')]
    BY <2>1, <2>2, <2>3
  <2>8. \A i \in 1..Len(adopted') : /\ proposal'[adopted'[i]].base = After(i - 1)'
                                     /\ proposal'[adopted'[i]].status = "approved"
    BY <2>3, <2>6
  <2>9. HashOf(body') = After(Len(adopted))'
    BY <2>1, <2>3, <2>5 DEF After
  <2> QED
    BY <2>7, <2>8, <2>9 DEF ChainInv, HashOf
<1>4. ASSUME NEW a \in Authors, ReadState(a) \/ ReadDocuments(a) \/ ScribeMoves(a) \/ Propose(a)
      PROVE  UNCHANGED <<body, state, adopted>>
  BY <1>4, ReadStateEffect, ReadDocumentsEffect, ScribeMovesEffect, ProposeEffect DEF keptByRead, keptByLocks
<1>5. ASSUME NEW u \in Pages, NEW decision \in {"approve", "reject"}, SendDecision(u, decision)
      PROVE  UNCHANGED <<body, state, adopted>>
  BY <1>5, SendEffect
<1>6. ASSUME NEW u \in Pages, Refuses(u)
      PROVE  UNCHANGED <<body, state, adopted>>
  BY <1>6, RefusesEffect
<1> QED
  BY <1>2, <1>3, <1>4, <1>5, <1>6, PublishingSteps, OpenReviewEffect, PageMovesEffect, ExpiresEffect, RestartEffect

LEMMA NextPending ==
    ASSUME TypeInv, LocksInv, PageInv, OnePendingPerSession, PublishingNext
    PROVE  OnePendingPerSession'
<1>1. ASSUME NEW a \in Authors, Propose(a)
      PROVE  OnePendingPerSession'
  <2>1. PICK p \in ProposalIds : /\ AloneProposal(p) /\ proposal'[p].session = a
    BY <1>1, ProposeEffect
  <2>2. HasNoPending(a)
    BY <1>1, ProposeEffect
  <2> QED
    BY <2>1, <2>2 DEF OnePendingPerSession, AloneProposal, HasNoPending
<1>2. ASSUME NEW u \in Pages, Publish(u) \/ Refuses(u)
      PROVE  OnePendingPerSession'
  <2>1. /\ AloneProposal(page[u].p)
        /\ page[u].p \in ProposalIds => proposal'[page[u].p].status # "pending"
    BY <1>2, PublishEffect, RefusesEffect
  <2> QED
    BY <2>1 DEF OnePendingPerSession, AloneProposal
<1>3. ASSUME UNCHANGED proposal
      PROVE  OnePendingPerSession'
  BY <1>3 DEF OnePendingPerSession
<1>4. ASSUME NEW a \in Authors, ReadState(a) \/ ReadDocuments(a) \/ ScribeMoves(a)
      PROVE  UNCHANGED proposal
  BY <1>4, ReadStateEffect, ReadDocumentsEffect, ScribeMovesEffect DEF keptByRead, keptByLocks
<1>5. ASSUME NEW u \in Pages, NEW decision \in {"approve", "reject"}, SendDecision(u, decision)
      PROVE  UNCHANGED proposal
  BY <1>5, SendEffect
<1> QED
  BY <1>1, <1>2, <1>3, <1>4, <1>5, PublishingSteps, OpenReviewEffect, PageMovesEffect, ExpiresEffect, RestartEffect

LEMMA NextToken ==
    ASSUME TypeInv, PageInv, TokenInv, PublishingNext
    PROVE  TokenInv'
<1>1. /\ grant \in [ProposalIds -> 0..TokenBound] /\ tokens \in 0..TokenBound /\ TokenBound \in Nat
      /\ opened \in [1..TokenBound -> Nat]
  BY PublishingAssumption DEF TypeInv
<1> USE DEF TokenInv, TokenOpensOnce
<1>2. ASSUME UNCHANGED <<grant, tokens, opened>>
      PROVE  TokenInv'
  BY <1>2
<1>3. ASSUME NEW u \in Pages, NEW p \in ProposalIds, OpenReview(u, p)
      PROVE  TokenInv'
  <2>1. tokens' = tokens + 1 /\ grant' = [grant EXCEPT ![p] = tokens + 1] /\ opened' = opened
    BY <1>3, OpenReviewEffect
  <2>2. tokens + 1 \in 1..TokenBound
    <3>1. tokens < TokenBound
      BY <1>3 DEF OpenReview
    <3> QED
      BY <1>1, <3>1
  <2>3. grant'[p] = tokens + 1 /\ \A q \in ProposalIds \ {p} : grant'[q] = grant[q]
    BY <1>1, <2>1
  <2>4. opened[tokens + 1] = 0
    BY <1>1, <2>2
  <2>5. \A q \in ProposalIds : grant'[q] \in 0..tokens'
    BY <1>1, <2>1, <2>3
  <2>6. \A q \in ProposalIds : grant'[q] # 0 => opened'[grant'[q]] = 0
    BY <2>1, <2>3, <2>4
  <2>7. \A q, r \in ProposalIds : grant'[q] # 0 /\ grant'[q] = grant'[r] => q = r
    BY <1>1, <2>3
  <2>8. \A t \in 1..TokenBound : t > tokens' => opened'[t] = 0
    BY <1>1, <2>1
  <2> QED
    BY <2>1, <2>5, <2>6, <2>7, <2>8
<1>4. ASSUME NEW p \in ProposalIds, grant' = [grant EXCEPT ![p] = 0], UNCHANGED <<tokens, opened>>
      PROVE  TokenInv'
  BY <1>1, <1>4
<1>5. ASSUME NEW u \in Pages, NEW decision \in {"approve", "reject"}, SendDecision(u, decision)
      PROVE  TokenInv'
  <2> DEFINE p == page[u].p
             t == page[u].token
  <2>1. /\ p \in ProposalIds /\ t \in 1..TokenBound /\ grant' = [grant EXCEPT ![p] = 0] /\ tokens' = tokens
        /\ (grant[p] = t /\ opened' = [opened EXCEPT ![t] = opened[t] + 1]) \/ opened' = opened
    BY <1>5, SendEffect
  <2> HIDE DEF p, t
  <2>2. CASE opened' = opened
    BY <1>4, <2>1, <2>2
  <2>3. CASE grant[p] = t /\ opened' = [opened EXCEPT ![t] = opened[t] + 1]
    <3>0. opened[t] = 0 /\ t # 0
      BY <2>1, <2>3
    <3>1. /\ opened'[t] = 1 /\ t <= tokens
          /\ \A s \in 1..TokenBound \ {t} : opened'[s] = opened[s]
      BY <1>1, <2>1, <2>3, <3>0
    <3>2. grant'[p] = 0 /\ \A q \in ProposalIds \ {p} : grant'[q] = grant[q] /\ grant[q] # t
      BY <1>1, <2>1, <2>3
    <3>3. \A q \in ProposalIds : grant'[q] \in 0..tokens'
      BY <1>1, <2>1, <3>2
    <3>4. \A q \in ProposalIds : grant'[q] # 0 => opened'[grant'[q]] = 0
      BY <1>1, <3>1, <3>2
    <3>5. \A q, r \in ProposalIds : grant'[q] # 0 /\ grant'[q] = grant'[r] => q = r
      BY <3>2
    <3>6. \A s \in 1..TokenBound : (s > tokens' => opened'[s] = 0) /\ opened'[s] <= 1
      BY <1>1, <2>1, <3>1
    <3> QED
      BY <3>3, <3>4, <3>5, <3>6
  <2> QED
    BY <2>1, <2>2, <2>3
<1>6. ASSUME NEW p \in ProposalIds, TokenExpires(p)
      PROVE  TokenInv'
  BY <1>4, <1>6, ExpiresEffect
<1>7. CASE PublishingRestart
  <2>1. grant' = [p \in ProposalIds |-> 0] /\ UNCHANGED <<tokens, opened>>
    BY <1>7, RestartEffect
  <2> QED
    BY <1>1, <2>1
<1>8. ASSUME NEW a \in Authors, ReadState(a) \/ ReadDocuments(a) \/ ScribeMoves(a) \/ Propose(a)
      PROVE  UNCHANGED <<grant, tokens, opened>>
  BY <1>8, ReadStateEffect, ReadDocumentsEffect, ScribeMovesEffect, ProposeEffect DEF keptByRead, keptByLocks
<1>9. ASSUME NEW u \in Pages, PageMoves(u) \/ Publish(u) \/ Refuses(u)
      PROVE  UNCHANGED <<grant, tokens, opened>>
  BY <1>9, PageMovesEffect, PublishEffect, RefusesEffect
<1> QED
  BY <1>2, <1>3, <1>5, <1>6, <1>7, <1>8, <1>9, PublishingSteps

LEMMA NextInv == PublishingInv /\ [PublishingNext]_publishingVars => PublishingInv'
<1>1. ASSUME PublishingInv, PublishingNext
      PROVE  PublishingInv'
  <2>1. /\ TypeInv /\ LocksInv /\ PageInv /\ ReadInv /\ ChainInv /\ TokenInv /\ OnePendingPerSession
    BY <1>1 DEF PublishingInv
  <2>2. TypeInv' /\ LocksInv' /\ PageInv'
    BY <1>1, <2>1, NextTypes, NextLocks, NextPage
  <2>3. ReadInv' /\ ChainInv'
    BY <1>1, <2>1, NextRead, NextChain
  <2>4. TokenInv' /\ OnePendingPerSession'
    BY <1>1, <2>1, NextToken, NextPending
  <2> QED
    BY <2>2, <2>3, <2>4 DEF PublishingInv
<1>2. ASSUME PublishingInv, UNCHANGED publishingVars
      PROVE  PublishingInv'
  <2> USE <1>2 DEF PublishingInv, publishingVars
  <2>1. TypeInv' /\ LocksInv' /\ PageInv'
    BY DEF TypeInv, LocksInv, PageInv
  <2>2. ReadInv' /\ ChainInv'
    BY DEF ReadInv, ReadsBelongTogether, ChainInv, After, HashOf
  <2>3. TokenInv' /\ OnePendingPerSession'
    BY DEF TokenInv, TokenOpensOnce, OnePendingPerSession
  <2> QED
    BY <2>1, <2>2, <2>3
<1> QED
  BY <1>1, <1>2

-----------------------------------------------------------------------------
(* What follows for every instance.                                        *)

LEMMA InvIsConsistent ==
    PublishingInv => ReadsBelongTogether /\ EvolutionsChain /\ OnePendingPerSession /\ TokenOpensOnce
<1> SUFFICES ASSUME PublishingInv
             PROVE  ReadsBelongTogether /\ EvolutionsChain /\ OnePendingPerSession /\ TokenOpensOnce
  OBVIOUS
<1>1. TypeInv /\ ReadInv /\ ChainInv /\ TokenInv /\ OnePendingPerSession
  BY DEF PublishingInv
<1>2. /\ Len(adopted) \in Nat /\ DOMAIN adopted = 1..Len(adopted)
      /\ adopted = <<>> <=> Len(adopted) = 0
  BY <1>1 DEF TypeInv
<1>3. EvolutionsChain
  <2>1. ASSUME NEW i \in DOMAIN adopted
        PROVE  proposal[adopted[i]].base = IF i = 1 THEN HashOf(Seed) ELSE proposal[adopted[i - 1]].after
    <3>1. i \in Nat \ {0} /\ proposal[adopted[i]].base = After(i - 1)
      BY <1>1, <1>2, <2>1 DEF ChainInv
    <3>2. i - 1 = 0 <=> i = 1
      BY <3>1
    <3> QED
      BY <3>1, <3>2 DEF After
  <2>2. HashOf(body) = IF adopted = <<>> THEN HashOf(Seed) ELSE proposal[adopted[Len(adopted)]].after
    BY <1>1, <1>2 DEF ChainInv, After
  <2> QED
    BY <1>1, <2>1, <2>2 DEF EvolutionsChain, ChainInv
<1> QED
  BY <1>1, <1>3 DEF ReadInv, TokenInv

\* Every variable keeps its type: the documents and the state row, the
\* proposals, the locks, and the pages with their tokens.
THEOREM PublishingTypes == PublishingSpec => []PublishingTypeOK
<1>1. PublishingInv => PublishingTypeOK
  BY TypesMean DEF PublishingInv
<1> QED
  BY <1>1, InitInv, NextInv, PTL DEF PublishingSpec

\* However agents read and propose, pages are opened and pressed twice, tokens
\* expire and the process starts anew: readers see a state and documents that
\* belong together, each adopted evolution was written on what the one before
\* it left, a session waits for one decision, a token opens the way to one, and
\* a decided proposal is not touched again.
THEOREM StrategyStaysConsistent == PublishingSpec => StrategyIsConsistent
<1>1. PublishingSpec => []PublishingInv
  BY InitInv, NextInv, PTL DEF PublishingSpec
<1>2. PublishingInv /\ [PublishingNext]_publishingVars =>
        [\A p \in ProposalIds : proposal[p].status \in {"approved", "rejected", "conflict"}
            => proposal'[p] = proposal[p]]_publishingVars
  <2>1. ASSUME PublishingInv, PublishingNext, NEW p \in ProposalIds,
               proposal[p].status \in {"approved", "rejected", "conflict"}
        PROVE  proposal'[p] = proposal[p]
    <3>1. Fate(p)
      BY <2>1, Fates DEF PublishingInv
    <3> QED
      BY <2>1, <3>1 DEF Fate, DecidedBy
  <2> QED
    BY <2>1
<1>3. PublishingSpec => [](ReadsBelongTogether /\ EvolutionsChain /\ OnePendingPerSession /\ TokenOpensOnce)
  BY <1>1, InvIsConsistent, PTL
<1>4. PublishingSpec => PublishingIsFinal
  BY <1>1, <1>2, PTL DEF PublishingSpec, PublishingIsFinal
<1> QED
  BY <1>3, <1>4 DEF StrategyIsConsistent

-----------------------------------------------------------------------------
(* What the operators of the pools yield.                                  *)

-----------------------------------------------------------------------------
(* The invariant of the pools.                                             *)

RoleType == [pool : PoolKinds, role : RoleKinds, from : PoolDates, to : 1..Ongoing]
ProposedType == [pool : PoolKinds, role : RoleKinds, from : PoolDates,
                 seen : {<<>>} \cup PoolKinds \X RoleKinds \X PoolDates]

PoolTypeInv ==
    /\ poolDay \in PoolDates /\ onboardings \in 0..Onboardings /\ attentionOf \in [Stocks -> {"none", "manual", "daily"}]
    /\ owned \subseteq Stocks /\ marked \subseteq Stocks
    /\ roles \in [Stocks -> Seq(RoleType)] /\ proposed \in [Stocks -> ProposedType \cup {NoProposal}]

\* All roles but the last have ended.
EndedInv == \A c \in Stocks : \A i \in 1..(Len(roles[c]) - 1) : roles[c][i].to # Ongoing

\* No attention outlives the role that carried it.
CarriedInv == \A c \in Stocks : ~IsMember(c) => attentionOf[c] = "none"

PoolInv == PoolTypeInv /\ EndedInv /\ CarriedInv /\ AttentionAwaitsEntry /\ MarksAreTheLastPlans

LEMMA PoolCalendar ==
    /\ PoolDays \in Nat \ {0} /\ Ongoing \in 1..Ongoing /\ Ongoing \notin PoolDates
    /\ \A e \in PoolDates : e \in Nat /\ e < Ongoing /\ e \in 1..Ongoing
<1>1. PoolDays \in Nat \ {0}
  BY PoolAssumption
<1>2. Ongoing = PoolDays + 1 /\ PoolDates = 1..PoolDays
  BY DEF Ongoing, PoolDates
<1>3. \A e \in 1..PoolDays : e \in Nat /\ e < PoolDays + 1 /\ e \in 1..(PoolDays + 1)
  BY <1>1
<1>4. PoolDays + 1 \in 1..(PoolDays + 1) /\ PoolDays + 1 \notin 1..PoolDays
  BY <1>1
<1> QED
  BY <1>1, <1>2, <1>3, <1>4, Zenon

\* A set of numbers up to n with a member has a greatest one.
LEMMA GreatestOf ==
    ASSUME NEW n \in Nat, NEW T, T \subseteq 1..n, T # {}
    PROVE  \E x \in T : \A y \in T : y <= x
<1> DEFINE U == {n - i : i \in T}
<1>1. U \subseteq Nat /\ U # {}
  <2>1. \A i \in T : n - i \in Nat
    OBVIOUS
  <2> QED
    BY <2>1
<1>2. PICK u \in U : \A v \in U : u <= v
  BY <1>1, LeastOf
<1>3. PICK x \in T : u = n - x
  OBVIOUS
<1>4. \A y \in T : n - x <= n - y
  BY <1>2, <1>3
<1> QED
  BY <1>4

\* The role of a day is that of the newest row that covers it.
Covers(row, e) == row.from <= e /\ e < row.to
Covering(h, e) == {i \in DOMAIN h : Covers(h[i], e)}
Newest(S) == CHOOSE j \in S : \A k \in S : k <= j

LEMMA RoleIs ==
    ASSUME NEW h, NEW e
    PROVE  RoleOn(h, e) = IF Covering(h, e) = {} THEN <<>>
                          ELSE <<h[Newest(Covering(h, e))].pool, h[Newest(Covering(h, e))].role>>
BY DEF RoleOn, Covering, Covers, Newest

\* Rows that cover a day as they did, and those that do unchanged in pool and
\* role, show the same role.
LEMMA SameRole ==
    ASSUME NEW h \in Seq(RoleType), NEW g, NEW e,
           Covering(g, e) = Covering(h, e),
           \A i \in Covering(h, e) : g[i].pool = h[i].pool /\ g[i].role = h[i].role
    PROVE  RoleOn(g, e) = RoleOn(h, e)
<1>1. CASE Covering(h, e) = {}
  BY <1>1, RoleIs
<1>2. CASE Covering(h, e) # {}
  <2>1. Len(h) \in Nat /\ Covering(h, e) \subseteq 1..Len(h)
    BY DEF Covering
  <2>2. \E j \in Covering(h, e) : \A k \in Covering(h, e) : k <= j
    BY <1>2, <2>1, GreatestOf
  <2>3. Newest(Covering(h, e)) \in Covering(h, e)
    BY <2>2 DEF Newest
  <2> QED
    BY <1>2, <2>3, RoleIs
<1> QED
  BY <1>1, <1>2

\* A row appended that begins later is not seen before it begins, nor is an
\* open last row seen to end before it does.
LEMMA AddedLater ==
    ASSUME NEW h \in Seq(RoleType), NEW new \in RoleType, NEW e \in PoolDates, e < new.from
    PROVE  RoleOn(Append(h, new), e) = RoleOn(h, e)
<1> DEFINE g == Append(h, new)
<1>1. Len(h) \in Nat /\ DOMAIN h = 1..Len(h) /\ DOMAIN g = 1..(Len(h) + 1)
  OBVIOUS
<1>2. g[Len(h) + 1] = new /\ \A i \in 1..Len(h) : g[i] = h[i]
  OBVIOUS
<1>3. ~Covers(new, e)
  BY PoolCalendar DEF Covers, RoleType
<1> HIDE DEF g
<1>4. Covering(g, e) = Covering(h, e)
  BY <1>1, <1>2, <1>3 DEF Covering
<1>5. \A i \in Covering(h, e) : g[i] = h[i]
  BY <1>1, <1>2 DEF Covering
<1>6. RoleOn(g, e) = RoleOn(h, e)
  BY <1>4, <1>5, SameRole
<1> QED
  BY <1>6 DEF g

\* What writing the last row anew leaves alone.
LEMMA LastWritten ==
    ASSUME NEW h \in Seq(RoleType), h # <<>>, NEW new \in RoleType
    PROVE  LET g == [h EXCEPT ![Len(h)] = new]
           IN  /\ g \in Seq(RoleType) /\ Len(g) = Len(h) /\ g # <<>> /\ DOMAIN g = DOMAIN h
               /\ g[Len(h)] = new
               /\ \A i \in DOMAIN h : i # Len(h) => g[i] = h[i]
<1> DEFINE g == [h EXCEPT ![Len(h)] = new]
<1>1. Len(h) \in Nat \ {0} /\ DOMAIN h = 1..Len(h)
  BY EmptySeq, LenProperties
<1>2. g \in Seq(RoleType) /\ Len(g) = Len(h) /\ \A j \in 1..Len(h) : g[j] = IF j = Len(h) THEN new ELSE h[j]
  BY <1>1, ExceptSeq
<1> HIDE DEF g
<1>3. DOMAIN g = 1..Len(g)
  BY <1>2, LenProperties
<1>4. g # <<>>
  BY <1>1, <1>2, EmptySeq
<1>5. /\ g \in Seq(RoleType) /\ Len(g) = Len(h) /\ g # <<>> /\ DOMAIN g = DOMAIN h
      /\ g[Len(h)] = new
      /\ \A i \in DOMAIN h : i # Len(h) => g[i] = h[i]
  <2>1. Len(h) \in 1..Len(h)
    BY <1>1
  <2> QED
    BY <1>1, <1>2, <1>3, <1>4, <2>1
<1> QED
  BY <1>5 DEF g

\* A last row that covers a day if it did, and in the same role.
LEMMA LastWrittenLater ==
    ASSUME NEW h \in Seq(RoleType), h # <<>>, NEW new \in RoleType, NEW e,
           Covers(new, e) <=> Covers(h[Len(h)], e),
           Covers(new, e) => new.pool = h[Len(h)].pool /\ new.role = h[Len(h)].role
    PROVE  RoleOn([h EXCEPT ![Len(h)] = new], e) = RoleOn(h, e)
<1> DEFINE g == [h EXCEPT ![Len(h)] = new]
<1>1. /\ DOMAIN g = DOMAIN h /\ g[Len(h)] = new
      /\ \A i \in DOMAIN h : i # Len(h) => g[i] = h[i]
  BY LastWritten
<1> HIDE DEF g
<1>2. \A i \in DOMAIN h : Covers(g[i], e) <=> Covers(h[i], e)
  BY <1>1
<1>3. Covering(g, e) = Covering(h, e)
  BY <1>1, <1>2, Zenon DEF Covering
<1>4. \A i \in Covering(h, e) : g[i].pool = h[i].pool /\ g[i].role = h[i].role
  BY <1>1, <1>2 DEF Covering
<1>5. RoleOn(g, e) = RoleOn(h, e)
  BY <1>3, <1>4, SameRole
<1> QED
  BY <1>5 DEF g

-----------------------------------------------------------------------------
LEMMA MembersRole ==
    ASSUME PoolTypeInv, NEW c \in Stocks
    PROVE  /\ roles[c] \in Seq(RoleType) /\ Len(roles[c]) \in Nat /\ DOMAIN roles[c] = 1..Len(roles[c])
           /\ IsMember(c) => Len(roles[c]) > 0 /\ Current(c) \in RoleType /\ Current(c).to = Ongoing
<1>1. roles[c] \in Seq(RoleType)
  BY DEF PoolTypeInv
<1>2. Len(roles[c]) \in Nat /\ DOMAIN roles[c] = 1..Len(roles[c])
  BY <1>1
<1>3. roles[c] # <<>> => Len(roles[c]) > 0 /\ roles[c][Len(roles[c])] \in RoleType
  BY <1>1
<1> QED
  BY <1>1, <1>2, <1>3, Zenon DEF IsMember, Current

\* What a committed onboarding proposes.
LEMMA Proposes ==
    ASSUME PoolTypeInv, NEW c \in Stocks, proposed[c] # NoProposal
    PROVE  /\ proposed[c].pool \in PoolKinds /\ proposed[c].role \in RoleKinds /\ proposed[c].from \in PoolDates
           /\ Opened(proposed[c]) \in RoleType /\ Opened(proposed[c]).to = Ongoing
           /\ Opened(proposed[c]).from = proposed[c].from
<1>1. proposed[c] \in ProposedType
  BY DEF PoolTypeInv
<1>2. proposed[c].pool \in PoolKinds /\ proposed[c].role \in RoleKinds /\ proposed[c].from \in PoolDates
  BY <1>1 DEF ProposedType
<1> QED
  BY <1>2, PoolCalendar DEF Opened, RoleType

\* What a role history h may become on day d, seen by the types, by who asks
\* whether a role is open, and by who looks at the days before d.
ChangedAsOf(h, g, d) ==
    /\ g \in Seq(RoleType) /\ g # <<>>
    /\ (\A i \in 1..(Len(h) - 1) : h[i].to # Ongoing) => (\A i \in 1..(Len(g) - 1) : g[i].to # Ongoing)
    /\ \A e \in PoolDates : e < d => RoleOn(g, e) = RoleOn(h, e)

LEMMA AddedIsChange ==
    ASSUME NEW h \in Seq(RoleType), NEW new \in RoleType, h = <<>> \/ h[Len(h)].to # Ongoing
    PROVE  /\ ChangedAsOf(h, Append(h, new), new.from)
           /\ Append(h, new)[Len(Append(h, new))] = new
<1> DEFINE g == Append(h, new)
<1>1. Len(h) \in Nat /\ Len(g) = Len(h) + 1 /\ g \in Seq(RoleType) /\ g # <<>>
  OBVIOUS
<1>2. g[Len(h) + 1] = new /\ \A i \in 1..Len(h) : g[i] = h[i]
  OBVIOUS
<1>3. \A e \in PoolDates : e < new.from => RoleOn(g, e) = RoleOn(h, e)
  BY AddedLater
<1> HIDE DEF g
<1>4. (\A i \in 1..(Len(h) - 1) : h[i].to # Ongoing) => (\A i \in 1..(Len(g) - 1) : g[i].to # Ongoing)
  <2> SUFFICES ASSUME \A i \in 1..(Len(h) - 1) : h[i].to # Ongoing, NEW i \in 1..Len(h)
               PROVE  h[i].to # Ongoing
    BY <1>1, <1>2
  <2>1. CASE i = Len(h)
    <3>1. h # <<>>
      BY <1>1, <2>1
    <3> QED BY <2>1, <3>1
  <2>2. CASE i # Len(h)
    BY <1>1, <2>2
  <2> QED BY <2>1, <2>2
<1>5. ChangedAsOf(h, g, new.from) /\ g[Len(g)] = new
  BY <1>1, <1>2, <1>3, <1>4, Zenon DEF ChangedAsOf
<1> QED
  BY <1>5 DEF g

\* A last row of the same day and the same end; or one ended on day d.
LEMMA WrittenIsChange ==
    ASSUME NEW h \in Seq(RoleType), h # <<>>, NEW new \in RoleType, NEW d \in PoolDates,
           new.from = h[Len(h)].from,
           \/ new.to = h[Len(h)].to /\ d = new.from
           \/ h[Len(h)].to = Ongoing /\ new.to = d /\ new.pool = h[Len(h)].pool /\ new.role = h[Len(h)].role
    PROVE  LET g == [h EXCEPT ![Len(h)] = new]
           IN  ChangedAsOf(h, g, d) /\ Len(g) = Len(h) /\ g[Len(g)] = new
<1> DEFINE g == [h EXCEPT ![Len(h)] = new]
<1>1. /\ g \in Seq(RoleType) /\ Len(g) = Len(h) /\ g # <<>>
      /\ g[Len(h)] = new /\ \A i \in DOMAIN h : i # Len(h) => g[i] = h[i]
  BY LastWritten
<1>2. Len(h) \in Nat \ {0} /\ DOMAIN h = 1..Len(h)
  BY EmptySeq, LenProperties
<1>3. ASSUME NEW e \in PoolDates, e < d PROVE RoleOn(g, e) = RoleOn(h, e)
  <2>1. h[Len(h)] \in RoleType
    BY <1>2
  <2>2. /\ e \in Int /\ d \in Int /\ e < Ongoing /\ Ongoing \in Int
        /\ new.from \in Int /\ new.to \in Int /\ h[Len(h)].to \in Int
    BY <1>3, <2>1, PoolCalendar DEF RoleType
  <2>3. Covers(new, e) <=> Covers(h[Len(h)], e)
    BY <1>3, <2>2 DEF Covers
  <2>4. Covers(new, e) => new.pool = h[Len(h)].pool /\ new.role = h[Len(h)].role
    BY <1>3, <2>2 DEF Covers
  <2> QED
    BY <2>3, <2>4, LastWrittenLater
<1> HIDE DEF g
<1>4. \A i \in 1..(Len(g) - 1) : g[i] = h[i]
  BY <1>1, <1>2
<1>5. ChangedAsOf(h, g, d) /\ Len(g) = Len(h) /\ g[Len(g)] = new
  BY <1>1, <1>3, <1>4, Zenon DEF ChangedAsOf
<1> QED
  BY <1>5 DEF g

\* A change and another as of the same day are a change as of that day.
LEMMA ChangesCompose ==
    ASSUME NEW h, NEW k, NEW g, NEW d, ChangedAsOf(h, k, d), ChangedAsOf(k, g, d)
    PROVE  ChangedAsOf(h, g, d)
BY DEF ChangedAsOf

LEMMA OnboardedIsChange ==
    ASSUME PoolTypeInv, NEW c \in Stocks, proposed[c] # NoProposal
    PROVE  LET g == Onboarded(c, proposed[c])
           IN  ChangedAsOf(roles[c], g, proposed[c].from) /\ g[Len(g)].to = Ongoing
<1> DEFINE h == roles[c]
           new == Opened(proposed[c])
           g == Onboarded(c, proposed[c])
<1>1. h \in Seq(RoleType)
  BY MembersRole
<1>2. /\ proposed[c].pool \in PoolKinds /\ proposed[c].role \in RoleKinds /\ proposed[c].from \in PoolDates
      /\ new \in RoleType /\ new.to = Ongoing /\ new.from = proposed[c].from
  BY Proposes
<1>3. CASE ~IsMember(c)
  <2>1. g = Append(h, new)
    BY <1>3 DEF Onboarded
  <2>2. h = <<>> \/ h[Len(h)].to # Ongoing
    BY <1>3 DEF IsMember
  <2> HIDE DEF h, new
  <2>3. ChangedAsOf(h, Append(h, new), new.from) /\ Append(h, new)[Len(Append(h, new))] = new
    BY <1>1, <1>2, <2>2, AddedIsChange
  <2>4. ChangedAsOf(h, g, proposed[c].from) /\ g[Len(g)].to = Ongoing
    BY <1>2, <2>1, <2>3
  <2> QED
    BY <2>4 DEF h
<1>4. CASE IsMember(c)
  <2>1. h # <<>> /\ h[Len(h)].to = Ongoing /\ Current(c) = h[Len(h)]
    BY <1>4 DEF IsMember, Current
  <2>2. PICK row \in RoleType : row = h[Len(h)]
    BY <1>1, <2>1, EmptySeq, LenProperties
  <2>3. CASE Refreshes(Current(c), proposed[c])
    <3> DEFINE now == [[row EXCEPT !.pool = proposed[c].pool] EXCEPT !.role = proposed[c].role]
    <3>1. now \in RoleType /\ now.from = row.from /\ now.to = row.to
      BY <1>2, <2>2 DEF RoleType
    <3>2. row.from = proposed[c].from
      BY <2>1, <2>2, <2>3 DEF Refreshes
    <3>3. g = [h EXCEPT ![Len(h)] = now]
      <4>1. g = [h EXCEPT ![Len(h)].pool = proposed[c].pool, ![Len(h)].role = proposed[c].role]
        BY <1>4, <2>3 DEF Onboarded
      <4> DEFINE k == [h EXCEPT ![Len(h)].pool = proposed[c].pool]
      <4>2. Len(h) \in DOMAIN h
        BY <1>1, <2>1, EmptySeq, LenProperties
      <4>3. k = [h EXCEPT ![Len(h)] = [row EXCEPT !.pool = proposed[c].pool]]
        BY <2>2
      <4>4. k[Len(h)] = [row EXCEPT !.pool = proposed[c].pool]
        BY <4>2, <4>3
      <4>5. g = [k EXCEPT ![Len(h)] = now]
        BY <4>1, <4>4
      <4> QED
        BY <4>3, <4>5
    <3> HIDE DEF h, g, now
    <3>4. LET f == [h EXCEPT ![Len(h)] = now]
          IN  ChangedAsOf(h, f, proposed[c].from) /\ Len(f) = Len(h) /\ f[Len(f)] = now
      BY <1>1, <1>2, <2>1, <2>2, <3>1, <3>2, WrittenIsChange
    <3>5. ChangedAsOf(h, g, proposed[c].from) /\ g[Len(g)].to = Ongoing
      BY <2>1, <2>2, <3>1, <3>3, <3>4
    <3> QED
      BY <3>5 DEF h, g
  <2>4. CASE ~Refreshes(Current(c), proposed[c])
    <3> DEFINE ended == [row EXCEPT !.to = proposed[c].from]
               k == [h EXCEPT ![Len(h)] = ended]
    <3>1. /\ ended \in RoleType /\ ended.from = row.from /\ ended.to = proposed[c].from
          /\ ended.pool = row.pool /\ ended.role = row.role
      BY <1>2, <2>2, PoolCalendar DEF RoleType
    <3>2. g = Append([h EXCEPT ![Len(h)].to = proposed[c].from], new)
      BY <1>4, <2>4 DEF Onboarded
    <3>3. g = Append(k, new)
      BY <2>2, <3>2
    <3> HIDE DEF h, g, ended
    <3>4. ChangedAsOf(h, k, proposed[c].from) /\ Len(k) = Len(h) /\ k[Len(k)] = ended
      BY <1>1, <1>2, <2>1, <2>2, <3>1, WrittenIsChange
    <3> HIDE DEF k, new
    <3>5. k \in Seq(RoleType) /\ k[Len(k)].to # Ongoing
      BY <1>2, <3>1, <3>4, PoolCalendar DEF ChangedAsOf
    <3>6. ChangedAsOf(k, g, proposed[c].from) /\ g[Len(g)] = new
      BY <1>2, <3>3, <3>5, AddedIsChange
    <3>7. ChangedAsOf(h, g, proposed[c].from) /\ g[Len(g)].to = Ongoing
      BY <1>2, <3>4, <3>6, ChangesCompose
    <3> QED
      BY <3>7 DEF h, g
  <2> QED
    BY <2>3, <2>4
<1> QED
  BY <1>3, <1>4

LEMMA EndedIsChange ==
    ASSUME PoolTypeInv, NEW c \in Stocks, IsMember(c), NEW d \in PoolDates
    PROVE  LET g == [roles[c] EXCEPT ![Len(roles[c])].to = d]
           IN  ChangedAsOf(roles[c], g, d) /\ g[Len(g)].to = d
<1> DEFINE h == roles[c]
           g == [h EXCEPT ![Len(h)].to = d]
<1>1. h \in Seq(RoleType)
  BY MembersRole
<1>2. h # <<>> /\ h[Len(h)].to = Ongoing
  BY DEF IsMember
<1>3. PICK row \in RoleType : row = h[Len(h)]
  BY <1>1, <1>2, EmptySeq, LenProperties
<1> DEFINE ended == [row EXCEPT !.to = d]
<1>4. /\ ended \in RoleType /\ ended.from = row.from /\ ended.to = d
      /\ ended.pool = row.pool /\ ended.role = row.role
  BY <1>3, PoolCalendar DEF RoleType
<1>5. g = [h EXCEPT ![Len(h)] = ended]
  BY <1>3
<1> HIDE DEF h, g, ended
<1>6. LET f == [h EXCEPT ![Len(h)] = ended]
      IN  ChangedAsOf(h, f, d) /\ Len(f) = Len(h) /\ f[Len(f)] = ended
  BY <1>1, <1>2, <1>3, <1>4, WrittenIsChange
<1>7. ChangedAsOf(h, g, d) /\ g[Len(g)].to = d
  BY <1>4, <1>5, <1>6
<1> QED
  BY <1>7 DEF h, g

-----------------------------------------------------------------------------
LEMMA PoolInitInv == PoolInit => PoolInv
<1> SUFFICES ASSUME PoolInit PROVE PoolInv
  OBVIOUS
<1>1. <<>> \in Seq(RoleType) /\ Len(<<>>) = 0
  BY EmptySeq
<1>2. PoolTypeInv
  BY <1>1, PoolAssumption DEF PoolInit, PoolTypeInv, PoolDates
<1>3. EndedInv
  BY <1>1 DEF PoolInit, EndedInv
<1>4. CarriedInv /\ AttentionAwaitsEntry
  BY DEF PoolInit, CarriedInv, AttentionAwaitsEntry
<1>5. MarksAreTheLastPlans
  BY DEF PoolInit, MarksAreTheLastPlans, Members
<1> QED
  BY <1>2, <1>3, <1>4, <1>5 DEF PoolInv

\* The roles of one instrument changed as of a day, the attention kept or, as
\* no role is open, dropped: what that means for the invariant.
LEMMA RolesChange ==
    ASSUME PoolInv, NEW c \in Stocks, NEW g, NEW d \in PoolDates, ChangedAsOf(roles[c], g, d),
           roles' = [roles EXCEPT ![c] = g],
           \/ g[Len(g)].to = Ongoing /\ attentionOf' = attentionOf
           \/ attentionOf' = [attentionOf EXCEPT ![c] = "none"],
           UNCHANGED <<poolDay, onboardings, owned, marked>>,
           proposed' \in [Stocks -> ProposedType \cup {NoProposal}]
    PROVE  PoolInv'
<1>1. roles'[c] = g /\ \A k \in Stocks \ {c} : roles'[k] = roles[k]
  BY DEF PoolInv, PoolTypeInv
<1>2. g \in Seq(RoleType) /\ g # <<>>
  BY DEF ChangedAsOf
<1>3. \A k \in Stocks : attentionOf'[k] = attentionOf[k] \/ attentionOf'[k] = "none"
  BY DEF PoolInv, PoolTypeInv
<1>4. PoolTypeInv'
  BY <1>2 DEF PoolInv, PoolTypeInv
<1>5. EndedInv'
  <2> SUFFICES ASSUME NEW k \in Stocks
               PROVE  \A i \in 1..(Len(roles'[k]) - 1) : roles'[k][i].to # Ongoing
    BY DEF EndedInv
  <2>1. \A i \in 1..(Len(roles[k]) - 1) : roles[k][i].to # Ongoing
    BY DEF PoolInv, EndedInv
  <2>2. CASE k = c
    BY <1>1, <2>1, <2>2, Zenon DEF ChangedAsOf
  <2>3. CASE k # c
    BY <1>1, <2>1, <2>3
  <2> QED
    BY <2>2, <2>3
<1>6. \A k \in Stocks \ {c} : (IsMember(k) <=> IsMember(k)')
  BY <1>1 DEF IsMember
<1>7. CarriedInv'
  <2>1. ASSUME NEW k \in Stocks, ~IsMember(k)' PROVE attentionOf'[k] = "none"
    <3>1. CASE k = c
      <4>1. g[Len(g)].to # Ongoing
        BY <1>1, <1>2, <2>1, <3>1 DEF IsMember
      <4> QED
        BY <3>1, <4>1 DEF PoolInv, PoolTypeInv
    <3>2. CASE k # c
      BY <1>3, <1>6, <2>1, <3>2 DEF PoolInv, CarriedInv
    <3> QED
      BY <3>1, <3>2
  <2> QED
    BY <2>1 DEF CarriedInv
<1>8. AttentionAwaitsEntry'
  BY <1>3 DEF PoolInv, PoolTypeInv, AttentionAwaitsEntry
<1>9. MarksAreTheLastPlans'
  <2>1. ASSUME NEW k \in Stocks, attentionOf'[k] = "daily" PROVE k \in marked'
    <3>1. attentionOf[k] = "daily"
      BY <1>3, <2>1
    <3>2. IsMember(k)
      BY <3>1 DEF PoolInv, CarriedInv
    <3> QED
      BY <3>1, <3>2 DEF PoolInv, MarksAreTheLastPlans, Members
  <2> QED
    BY <2>1 DEF MarksAreTheLastPlans, Members
<1> QED
  BY <1>4, <1>5, <1>7, <1>8, <1>9 DEF PoolInv

\* The attention of some changed, their roles not.
LEMMA AttentionChanges ==
    ASSUME PoolInv, UNCHANGED <<poolDay, onboardings, roles, proposed>>,
           attentionOf' \in [Stocks -> {"none", "manual", "daily"}],
           owned' \subseteq Stocks, marked' \subseteq Stocks,
           \A c \in Stocks : ~IsMember(c) /\ attentionOf[c] = "none" => attentionOf'[c] = "none",
           \A c \in Stocks : attentionOf'[c] = "daily" => c \notin owned' /\ c \in marked'
    PROVE  PoolInv'
<1>1. PoolTypeInv' /\ EndedInv'
  BY DEF PoolInv, PoolTypeInv, EndedInv
<1>2. CarriedInv'
  BY DEF PoolInv, CarriedInv, IsMember
<1>3. AttentionAwaitsEntry' /\ MarksAreTheLastPlans'
  BY DEF AttentionAwaitsEntry, MarksAreTheLastPlans, Members
<1> QED
  BY <1>1, <1>2, <1>3 DEF PoolInv

\* Who is marked by a daily plan is a member, marked by the last, and not held.
LEMMA DailyIs ==
    ASSUME PoolInv, NEW c \in Stocks, attentionOf[c] = "daily"
    PROVE  IsMember(c) /\ c \in marked /\ c \notin owned
BY DEF PoolInv, CarriedInv, AttentionAwaitsEntry, MarksAreTheLastPlans, Members

LEMMA PoolStepInv == PoolInv /\ [PoolNext]_poolVars => PoolInv'
<1> SUFFICES ASSUME PoolInv, [PoolNext]_poolVars PROVE PoolInv'
  OBVIOUS
<1>1. PoolTypeInv
  BY DEF PoolInv
<1>2. CASE NextPoolDay
  <2>1. PoolTypeInv'
    BY <1>1, <1>2, PoolCalendar DEF PoolTypeInv, NextPoolDay, PoolDates
  <2> QED
    BY <1>2, <2>1 DEF PoolInv, NextPoolDay, EndedInv, CarriedInv, IsMember, AttentionAwaitsEntry,
                      MarksAreTheLastPlans, Members
<1>3. ASSUME NEW c \in Stocks, ProposeOnboarding(c) PROVE PoolInv'
  <2>1. FactsOf(c) \in {<<>>} \cup PoolKinds \X RoleKinds \X PoolDates
    BY <1>1, MembersRole DEF FactsOf, RoleType
  <2>2. PICK p \in PoolKinds, r \in RoleKinds :
          proposed' = [proposed EXCEPT ![c] = [pool |-> p, role |-> r, from |-> poolDay, seen |-> FactsOf(c)]]
    BY <1>3 DEF ProposeOnboarding
  <2>3. [pool |-> p, role |-> r, from |-> poolDay, seen |-> FactsOf(c)] \in ProposedType
    BY <1>1, <2>1 DEF PoolTypeInv, ProposedType
  <2>4. PoolTypeInv'
    BY <1>1, <1>3, <2>2, <2>3, PoolAssumption DEF PoolTypeInv, ProposeOnboarding
  <2> QED
    BY <1>3, <2>4 DEF PoolInv, ProposeOnboarding, EndedInv, CarriedInv, IsMember, AttentionAwaitsEntry,
                      MarksAreTheLastPlans, Members
<1>4. ASSUME NEW c \in Stocks, CommitOnboarding(c) PROVE PoolInv'
  <2> DEFINE g == Onboarded(c, proposed[c])
  <2>1. ChangedAsOf(roles[c], g, proposed[c].from) /\ g[Len(g)].to = Ongoing
    BY <1>1, <1>4, OnboardedIsChange DEF CommitOnboarding
  <2>2. proposed[c].from \in PoolDates
    BY <1>1, <1>4, Proposes DEF CommitOnboarding
  <2>3. /\ roles' = [roles EXCEPT ![c] = g] /\ attentionOf' = attentionOf
        /\ UNCHANGED <<poolDay, onboardings, owned, marked>>
        /\ proposed' \in [Stocks -> ProposedType \cup {NoProposal}]
    BY <1>1, <1>4 DEF CommitOnboarding, PoolTypeInv
  <2> HIDE DEF g
  <2> QED
    BY <2>1, <2>2, <2>3, RolesChange
<1>5. ASSUME NEW c \in Stocks, DropOnboarding(c) PROVE PoolInv'
  <2>1. PoolTypeInv'
    BY <1>1, <1>5 DEF PoolTypeInv, DropOnboarding
  <2> QED
    BY <1>5, <2>1 DEF PoolInv, DropOnboarding, EndedInv, CarriedInv, IsMember, AttentionAwaitsEntry,
                      MarksAreTheLastPlans, Members
<1>6. ASSUME NEW c \in Stocks, BuyIn(c) PROVE PoolInv'
  <2>1. \A k \in Stocks : attentionOf'[k] = IF k = c THEN AfterEntry(attentionOf[c]) ELSE attentionOf[k]
    BY <1>1, <1>6 DEF BuyIn, PoolTypeInv
  <2>2. attentionOf' \in [Stocks -> {"none", "manual", "daily"}] /\ owned' \subseteq Stocks /\ marked' \subseteq Stocks
    BY <1>1, <1>6 DEF BuyIn, PoolTypeInv, AfterEntry
  <2>3. \A k \in Stocks : attentionOf[k] = "none" => attentionOf'[k] = "none"
    BY <2>1 DEF AfterEntry
  <2>4. \A k \in Stocks : attentionOf'[k] = "daily" => k # c /\ attentionOf[k] = "daily"
    BY <2>1 DEF AfterEntry
  <2>5. \A k \in Stocks : attentionOf'[k] = "daily" => k \notin owned' /\ k \in marked'
    BY <1>6, <2>4, DailyIs DEF BuyIn
  <2> QED
    BY <1>6, <2>2, <2>3, <2>5, AttentionChanges DEF BuyIn
<1>7. ASSUME NEW c \in Stocks, SellOut(c) PROVE PoolInv'
  BY <1>7 DEF SellOut, PoolInv, PoolTypeInv, EndedInv, CarriedInv, IsMember, AttentionAwaitsEntry,
              MarksAreTheLastPlans, Members
<1>8. ASSUME NEW c \in Stocks, NEW d \in PoolDates, EndRole(c, d) PROVE PoolInv'
  <2> DEFINE g == [roles[c] EXCEPT ![Len(roles[c])].to = d]
  <2>1. ChangedAsOf(roles[c], g, d)
    BY <1>1, <1>8, EndedIsChange DEF EndRole
  <2>2. roles' = [roles EXCEPT ![c] = g]
    BY <1>8 DEF EndRole
  <2>3. /\ attentionOf' = [attentionOf EXCEPT ![c] = "none"]
        /\ UNCHANGED <<poolDay, onboardings, owned, marked>>
        /\ proposed' \in [Stocks -> ProposedType \cup {NoProposal}]
    BY <1>1, <1>8 DEF EndRole, PoolTypeInv
  <2> HIDE DEF g
  <2> QED
    BY <2>1, <2>2, <2>3, RolesChange
<1>9. ASSUME NEW c \in Stocks, NEW p \in PoolKinds, NEW a \in {"none", "manual"}, SetAttention(c, p, a)
      PROVE  PoolInv'
  <2>1. \A k \in Stocks : attentionOf'[k] = IF k = c THEN a ELSE attentionOf[k]
    BY <1>1, <1>9 DEF SetAttention, PoolTypeInv
  <2>2. attentionOf' \in [Stocks -> {"none", "manual", "daily"}] /\ owned' = owned /\ marked' = marked
    BY <1>1, <1>9 DEF SetAttention, PoolTypeInv
  <2>3. \A k \in Stocks : ~IsMember(k) /\ attentionOf[k] = "none" => attentionOf'[k] = "none"
    BY <1>9, <2>1 DEF SetAttention
  <2>4. \A k \in Stocks : attentionOf'[k] = "daily" => k \notin owned' /\ k \in marked'
    BY <2>1, <2>2, DailyIs
  <2>5. owned' \subseteq Stocks /\ marked' \subseteq Stocks
    BY <1>1, <2>2 DEF PoolTypeInv
  <2> QED
    BY <1>9, <2>2, <2>3, <2>4, <2>5, AttentionChanges DEF SetAttention
<1>10. ASSUME NEW marks \in SUBSET Members, NEW clears \in SUBSET (Members \ marks), Reconcile(marks, clears)
       PROVE  PoolInv'
  <2> DEFINE kept == marks \ owned
  <2>1. /\ \A k \in Stocks : attentionOf'[k] = IF k \in kept THEN "daily"
              ELSE IF k \in Stale(kept, marks \cup clears) THEN "none" ELSE attentionOf[k]
        /\ attentionOf' \in [Stocks -> {"none", "manual", "daily"}]
    BY <1>1, <1>10 DEF Reconcile, PoolTypeInv
  <2>2. marked' = kept /\ owned' = owned /\ kept \subseteq Stocks
    BY <1>10 DEF Reconcile, Members
  <2>3. \A k \in Stocks : ~IsMember(k) /\ attentionOf[k] = "none" => attentionOf'[k] = "none"
    BY <2>1 DEF Members
  <2>4. ASSUME NEW k \in Stocks, attentionOf'[k] = "daily" PROVE k \in kept
    <3> SUFFICES ASSUME k \notin kept PROVE FALSE
      OBVIOUS
    <3>1. attentionOf[k] = "daily" /\ k \notin Stale(kept, marks \cup clears)
      BY <2>1, <2>4
    <3>2. IsMember(k)
      BY <3>1, DailyIs
    <3> QED
      BY <3>1, <3>2 DEF Stale, Members
  <2>5. owned' \subseteq Stocks
    BY <1>1, <2>2 DEF PoolTypeInv
  <2> QED
    BY <1>10, <2>1, <2>2, <2>3, <2>4, <2>5, AttentionChanges DEF Reconcile
<1>11. CASE UNCHANGED poolVars
  BY <1>11 DEF poolVars, PoolInv, PoolTypeInv, EndedInv, CarriedInv, IsMember, AttentionAwaitsEntry,
               MarksAreTheLastPlans, Members
<1> QED
  BY <1>2, <1>3, <1>4, <1>5, <1>6, <1>7, <1>8, <1>9, <1>10, <1>11 DEF PoolNext

\* Every variable of the pools keeps its type: roles are rows of a pool, a role
\* and two dates, all but the last ended, and attention has one writer or none.
THEOREM PoolTypes == PoolSpec => []PoolTypeOK
<1>1. PoolInv => PoolTypeOK
  <2> SUFFICES ASSUME PoolInv PROVE PoolTypeOK
    OBVIOUS
  <2>1. ASSUME NEW c \in Stocks
        PROVE  RowsOf(roles[c]) \subseteq [pool : PoolKinds, role : RoleKinds, from : PoolDates, to : 1..Ongoing]
    <3>1. roles[c] \in Seq(RoleType)
      BY MembersRole DEF PoolInv
    <3>2. \A i \in DOMAIN roles[c] : roles[c][i] \in RoleType
      BY <3>1
    <3> QED
      BY <3>2 DEF RowsOf, RoleType
  <2> QED
    BY <2>1 DEF PoolInv, PoolTypeInv, EndedInv, PoolTypeOK
<1> QED
  BY <1>1, PoolInitInv, PoolStepInv, PTL DEF PoolSpec

\* Whatever roles are opened, refreshed and ended as of whichever day, and
\* however users, daily plans and entries write the attention: the roles of the
\* days before a change stay as they were, what is marked by a daily plan was
\* marked by the last one and is not held, and what the user wrote stays.
THEOREM PoolsStayKept == PoolSpec => PoolsAreKept
<1>1. PoolSpec => []PoolInv
  BY PoolInitInv, PoolStepInv, PTL DEF PoolSpec
<1>2. PoolSpec => [](AttentionAwaitsEntry /\ MarksAreTheLastPlans)
  BY <1>1, PTL DEF PoolInv
<1>3. PoolInv /\ [PoolNext]_poolVars =>
        [\A c \in Stocks : \A e \in PoolDates :
           RoleOn(roles'[c], e) # RoleOn(roles[c], e) => e >= ChangeDate(c)]_poolVars
  <2> SUFFICES ASSUME PoolInv, PoolNext, NEW c \in Stocks, NEW e \in PoolDates, ~(e >= ChangeDate(c))
               PROVE  RoleOn(roles'[c], e) = RoleOn(roles[c], e)
    OBVIOUS
  <2>1. PoolTypeInv
    BY DEF PoolInv
  <2>2. CASE roles'[c] = roles[c]
    BY <2>2
  <2>3. CASE CommitOnboarding(c)
    <3>1. roles'[c] = Onboarded(c, proposed[c]) /\ ChangeDate(c) = proposed[c].from
      BY <2>1, <2>3 DEF CommitOnboarding, ChangeDate, PoolTypeInv
    <3>2. proposed[c].from \in PoolDates
      BY <2>1, <2>3, Proposes DEF CommitOnboarding
    <3>3. ChangedAsOf(roles[c], roles'[c], proposed[c].from)
      BY <2>1, <2>3, <3>1, OnboardedIsChange DEF CommitOnboarding
    <3>4. e < proposed[c].from
      BY <3>1, <3>2, PoolCalendar
    <3> QED
      BY <3>3, <3>4 DEF ChangedAsOf
  <2>4. ASSUME NEW d \in PoolDates, EndRole(c, d) PROVE RoleOn(roles'[c], e) = RoleOn(roles[c], e)
    <3>1. roles'[c] = [roles[c] EXCEPT ![Len(roles[c])].to = d] /\ proposed'[c] = proposed[c]
      BY <2>1, <2>4 DEF EndRole, PoolTypeInv
    <3> DEFINE g == [roles[c] EXCEPT ![Len(roles[c])].to = d]
    <3>2. ChangedAsOf(roles[c], roles'[c], d) /\ roles'[c][Len(roles'[c])].to = d
      <4>1. IsMember(c)
        BY <2>4 DEF EndRole
      <4>2. ChangedAsOf(roles[c], g, d) /\ g[Len(g)].to = d
        BY <2>1, <4>1, EndedIsChange
      <4> HIDE DEF g
      <4> QED
        BY <3>1, <4>2 DEF g
    <3>3. ChangeDate(c) = d
      BY <3>1, <3>2 DEF ChangeDate
    <3>4. e < d
      BY <3>3, PoolCalendar
    <3> QED
      BY <3>2, <3>4 DEF ChangedAsOf
  <2>5. \/ roles'[c] = roles[c] \/ CommitOnboarding(c)
        \/ \E d \in PoolDates : EndRole(c, d)
    <3>1. CASE roles' = roles
      BY <3>1
    <3>2. ASSUME NEW k \in Stocks, CommitOnboarding(k) PROVE k = c \/ roles'[c] = roles[c]
      BY <2>1, <3>2 DEF CommitOnboarding, PoolTypeInv
    <3>3. ASSUME NEW k \in Stocks, NEW d \in PoolDates, EndRole(k, d) PROVE k = c \/ roles'[c] = roles[c]
      BY <2>1, <3>3 DEF EndRole, PoolTypeInv
    <3> QED
      BY <3>1, <3>2, <3>3 DEF PoolNext, NextPoolDay, ProposeOnboarding, DropOnboarding, BuyIn, SellOut,
                              SetAttention, Reconcile
  <2> QED
    BY <2>2, <2>3, <2>4, <2>5
<1>4. PoolSpec => HistoryIsKept
  BY <1>1, <1>3, PTL DEF PoolSpec, HistoryIsKept
<1>5. PoolInv /\ [PoolNext]_poolVars =>
        [(\E marks, clears \in SUBSET Stocks : marks \cup clears \subseteq Members /\ Reconcile(marks, clears))
            \/ (\E c \in Stocks : BuyIn(c) \/ CommitOnboarding(c))
         => \A c \in Members : attentionOf[c] = "manual" => attentionOf'[c] = "manual"]_poolVars
  <2> SUFFICES ASSUME PoolTypeInv, NEW c \in Stocks, attentionOf[c] = "manual",
                      \/ \E marks, clears \in SUBSET Stocks : Reconcile(marks, clears)
                      \/ \E k \in Stocks : BuyIn(k) \/ CommitOnboarding(k)
               PROVE  attentionOf'[c] = "manual"
    BY DEF PoolInv, Members
  <2>1. ASSUME NEW marks, NEW clears, Reconcile(marks, clears) PROVE attentionOf'[c] = "manual"
    BY <2>1 DEF Reconcile, MarkRefused, Stale
  <2>2. ASSUME NEW k \in Stocks, BuyIn(k) PROVE attentionOf'[c] = "manual"
    BY <2>2 DEF BuyIn, AfterEntry, PoolTypeInv
  <2>3. ASSUME NEW k \in Stocks, CommitOnboarding(k) PROVE attentionOf'[c] = "manual"
    BY <2>3 DEF CommitOnboarding
  <2> QED
    BY <2>1, <2>2, <2>3
<1>6. PoolSpec => ManualAttentionIsKept
  BY <1>1, <1>5, PTL DEF PoolSpec, ManualAttentionIsKept
<1> QED
  BY <1>2, <1>4, <1>6, PoolTypes, PTL DEF PoolsAreKept

-----------------------------------------------------------------------------
(* The holding of an instrument and its events.                            *)

EventType ==
    [kind : {"buy", "sell", "adjust", "note"}, day : Nat, quantity : Nat, price : Nat,
     type : SignalTypes \cup {"none"}, signal : Nat, costBefore : Nat, pnl : Int]
HoldingType == [quantity : Nat, cost : Nat, opened : Nat, type : SignalTypes \cup {"none"}]

\* LedgerTypeOK in these words; the row of a holding has shares and a cost.
LedgerTypeInv ==
    /\ ledger \in Seq(EventType) /\ Len(ledger) <= EventBound
    /\ holding \in HoldingType /\ attention \in {"plan", "manual", "none"}
    /\ holding # NoHolding => holding.quantity # 0 /\ holding.cost # 0 /\ holding.opened # 0 /\ holding.type \in SignalTypes
    /\ \A i \in 1..Len(ledger) : ledger[i].kind = "buy" => ledger[i].quantity # 0

\* A holding was opened by a buy, and its row has the date of that buy.
OpeningInv ==
    holding # NoHolding =>
        /\ Len(ledger) # 0 /\ CycleStart(Len(ledger)) \in Indices("buy")
        /\ holding.opened = ledger[CycleStart(Len(ledger))].day

LedgerInv ==
    /\ LedgerTypeInv /\ OpeningInv
    /\ HoldingIsProjection /\ SaleInheritsItsEntry /\ TypeFollowsLatestBuy

\* The quantity after one more event.
Counted(v, e) ==
    CASE e.kind = "buy" -> v + e.quantity
      [] e.kind = "sell" -> v - e.quantity
      [] e.kind = "adjust" /\ e.quantity # 0 -> e.quantity
      [] OTHER -> v

CountsOf(l, f, n) == f = [i \in 0..n |-> IF i = 0 THEN 0 ELSE Counted(f[i - 1], l[i])]

\* The recursion has a solution: a smallest number of events without one cannot be.
LEMMA CountsExist == \A l : \E f : CountsOf(l, f, EventBound)
<1> SUFFICES ASSUME NEW l PROVE \E f : CountsOf(l, f, EventBound)
  OBVIOUS
<1> DEFINE Bad == {n \in Nat : ~ \E f : CountsOf(l, f, n)}
<1>1. Bad = {}
  <2> SUFFICES ASSUME Bad # {} PROVE FALSE
    OBVIOUS
  <2>1. PICK n \in Bad : \A m \in Bad : n <= m
    <3>1. Bad \subseteq Nat
      OBVIOUS
    <3> HIDE DEF Bad
    <3> QED BY <3>1, LeastOf
  <2>2. CASE n = 0
    <3> DEFINE f == [i \in 0..0 |-> 0]
    <3>1. f = [i \in 0..0 |-> IF i = 0 THEN 0 ELSE Counted(f[i - 1], l[i])]
      OBVIOUS
    <3> QED
      BY <2>2, <3>1 DEF CountsOf
  <2>3. CASE n # 0
    <3>1. n \in Nat /\ n - 1 \in Nat /\ ~(n <= n - 1)
      BY <2>3
    <3>2. PICK f : CountsOf(l, f, n - 1)
      BY <2>1, <3>1
    <3>3. f = [i \in 0..(n - 1) |-> IF i = 0 THEN 0 ELSE Counted(f[i - 1], l[i])]
      BY <3>2 DEF CountsOf
    <3> DEFINE g == [i \in 0..n |-> IF i = n THEN Counted(f[n - 1], l[n]) ELSE f[i]]
    <3>4. \A i \in 0..(n - 1) : g[i] = f[i]
      BY <3>1
    <3>5. \A i \in 0..n : g[i] = IF i = 0 THEN 0 ELSE Counted(g[i - 1], l[i])
      <4> SUFFICES ASSUME NEW i \in 0..n PROVE g[i] = IF i = 0 THEN 0 ELSE Counted(g[i - 1], l[i])
        OBVIOUS
      <4>1. CASE i = n
        <5>1. g[i] = Counted(f[n - 1], l[n]) /\ n - 1 \in 0..(n - 1)
          BY <3>1, <4>1
        <5>2. g[n - 1] = f[n - 1]
          BY <3>4, <5>1
        <5> QED
          BY <2>3, <4>1, <5>1, <5>2
      <4>2. CASE i = 0
        <5>1. 0 \in 0..(n - 1)
          BY <3>1
        <5> QED
          BY <3>3, <3>4, <4>2, <5>1
      <4>3. CASE i # n /\ i # 0
        <5>1. i \in 0..(n - 1) /\ i - 1 \in 0..(n - 1)
          BY <3>1, <4>3
        <5>2. f[i] = Counted(f[i - 1], l[i])
          BY <3>3, <4>3, <5>1
        <5>3. g[i] = f[i] /\ g[i - 1] = f[i - 1]
          BY <3>4, <5>1
        <5> QED
          BY <4>3, <5>2, <5>3
      <4> QED
        BY <4>1, <4>2, <4>3
    <3>6. g = [i \in 0..n |-> g[i]]
      OBVIOUS
    <3> PICK h : h = g
      OBVIOUS
    <3>7. h = [i \in 0..n |-> IF i = 0 THEN 0 ELSE Counted(h[i - 1], l[i])]
      <4> HIDE DEF g
      <4> QED BY <3>5, <3>6
    <3> QED
      BY <3>7 DEF CountsOf
  <2> QED
    BY <2>2, <2>3
<1>2. EventBound \in Nat
  BY LedgerAssumption
<1> QED
  BY <1>1, <1>2

LEMMA QuantityIs == CountsOf(ledger, QuantityAfter, EventBound)
<1>1. QuantityAfter = CHOOSE f : CountsOf(ledger, f, EventBound)
  BY DEF QuantityAfter, CountsOf, Counted
<1> QED
  BY <1>1, CountsExist

LEMMA QuantityIsNext == CountsOf(ledger', QuantityAfter', EventBound)
<1>1. QuantityAfter' = CHOOSE f : CountsOf(ledger', f, EventBound)
  BY DEF QuantityAfter, CountsOf, Counted
<1> QED
  BY <1>1, CountsExist

LEMMA LedgerConstants ==
    EventBound \in Nat /\ Grains \in Nat \ {0} /\ Quantities \subseteq Nat \ {0} /\ SignalDays \subseteq Nat
BY LedgerAssumption DEF Grains

\* What the fills are entered with, and their prices.
LEMMA FillsAre ==
    /\ \A fill \in Fills : fill[1] \in Nat \ {0} /\ fill[2] * Grains \in Nat \ {0}
    /\ Prices \subseteq Nat \ {0}
<1>1. \A fill \in Fills : fill[1] \in Nat \ {0} /\ fill[2] \in Nat \ {0}
  BY LedgerAssumption
<1>2. \A a, b \in Nat \ {0} : a * b \in Nat \ {0}
  OBVIOUS
<1> QED BY <1>1, <1>2, LedgerConstants DEF Prices

-----------------------------------------------------------------------------
(* The greatest of some positions, and where a holding starts.             *)

LEMMA MaxIs ==
    ASSUME NEW n \in Nat, NEW S \in SUBSET (1..n), S # {}
    PROVE  Max(S) \in S /\ \A y \in S : Max(S) >= y
<1> DEFINE T == {n - y : y \in S}
<1>1. T \subseteq Nat /\ T # {}
  <2>1. \A y \in S : n - y \in Nat
    OBVIOUS
  <2> QED BY <2>1
<1>2. PICK u \in T : \A v \in T : u <= v
  BY <1>1, LeastOf
<1>3. PICK x \in S : u = n - x
  OBVIOUS
<1>4. \A y \in S : n - x <= n - y
  BY <1>2, <1>3
<1>5. \A y \in S : x >= y
  BY <1>4
<1> QED
  BY <1>5 DEF Max

LEMMA MaxUnique ==
    ASSUME NEW n \in Nat, NEW S \in SUBSET (1..n), NEW x \in S, \A y \in S : x >= y
    PROVE  Max(S) = x
<1>1. Max(S) \in S /\ Max(S) >= x
  BY MaxIs
<1> PICK g : g = Max(S)
  OBVIOUS
<1>2. g \in S /\ g >= x
  BY <1>1
<1>3. x >= g /\ x \in 1..n /\ g \in 1..n
  BY <1>2
<1> QED BY <1>2, <1>3

StartOf(f, n) == Max({1} \cup {j \in 2..n : f[j - 1] = 0})

LEMMA StartIs ==
    ASSUME NEW n \in Nat \ {0}, NEW f
    PROVE  StartOf(f, n) \in 1..n
<1>1. {1} \cup {j \in 2..n : f[j - 1] = 0} \in SUBSET (1..n)
  OBVIOUS
<1> QED BY <1>1, MaxIs DEF StartOf

LEMMA StartSteps ==
    ASSUME NEW n \in Nat, NEW f, f[0] = 0
    PROVE  /\ f[n] = 0 => StartOf(f, n + 1) = n + 1
           /\ f[n] # 0 => StartOf(f, n + 1) = StartOf(f, n)
<1> DEFINE S(k) == {1} \cup {j \in 2..k : f[j - 1] = 0}
<1>1. CASE f[n] = 0
  <2>1. S(n + 1) \in SUBSET (1..(n + 1)) /\ n + 1 \in S(n + 1) /\ \A y \in S(n + 1) : n + 1 >= y
    BY <1>1
  <2>2. Max(S(n + 1)) = n + 1
    <3> PICK U : U = S(n + 1)
      OBVIOUS
    <3> PICK k : k = n + 1
      OBVIOUS
    <3>1. k \in Nat /\ U \in SUBSET (1..k) /\ k \in U /\ \A y \in U : k >= y
      BY <2>1
    <3>2. Max(U) = k
      BY <3>1, MaxUnique
    <3> QED BY <3>2
  <2> QED BY <1>1, <2>2 DEF StartOf
<1>2. CASE f[n] # 0
  <2>1. \A j \in 2..(n + 1) : j # n + 1 => j \in 2..n
    OBVIOUS
  <2>2. S(n + 1) = S(n)
    BY <1>2, <2>1
  <2> QED BY <1>2, <2>2 DEF StartOf
<1> QED BY <1>1, <1>2

LEMMA StartAgrees ==
    ASSUME NEW n \in Nat, NEW f, NEW g, \A i \in 0..(n - 1) : f[i] = g[i]
    PROVE  StartOf(f, n) = StartOf(g, n)
<1>1. \A j \in 2..n : j - 1 \in 0..(n - 1)
  OBVIOUS
<1>2. {j \in 2..n : f[j - 1] = 0} = {j \in 2..n : g[j - 1] = 0}
  BY <1>1
<1> QED BY <1>2 DEF StartOf

-----------------------------------------------------------------------------
(* One more event.                                                         *)

\* A later ledger: one event more, and of the others at most the type differs.
Same(d, e) ==
    /\ d.kind = e.kind /\ d.day = e.day /\ d.quantity = e.quantity /\ d.signal = e.signal
    /\ d.price = e.price /\ d.pnl = e.pnl
Continues(l, m) == Len(m) = Len(l) + 1 /\ \A i \in 1..Len(l) : Same(l[i], m[i])

LEMMA CountsContinue ==
    ASSUME NEW l \in Seq(EventType), NEW m \in Seq(EventType), Len(m) <= EventBound, Continues(l, m),
           NEW f, CountsOf(l, f, EventBound), NEW g, CountsOf(m, g, EventBound)
    PROVE  /\ \A i \in 0..Len(l) : g[i] = f[i]
           /\ g[Len(m)] = Counted(f[Len(l)], m[Len(m)])
           /\ f[0] = 0 /\ g[0] = 0
<1>1. /\ \A i \in 0..EventBound : f[i] = IF i = 0 THEN 0 ELSE Counted(f[i - 1], l[i])
      /\ \A i \in 0..EventBound : g[i] = IF i = 0 THEN 0 ELSE Counted(g[i - 1], m[i])
  BY DEF CountsOf
<1>2. Len(l) \in Nat /\ Len(m) = Len(l) + 1 /\ Len(l) + 1 <= EventBound /\ \A i \in 0..(Len(l) + 1) : i \in 0..EventBound
  BY LedgerConstants DEF Continues
<1>3. f[0] = 0 /\ g[0] = 0
  <2>1. 0 \in 0..EventBound
    BY <1>2
  <2> QED BY <1>1, <2>1
<1>4. \A i \in 0..Len(l) : g[i] = f[i]
  <2> DEFINE Bad == {i \in 0..Len(l) : g[i] # f[i]}
  <2> SUFFICES ASSUME Bad # {} PROVE FALSE
    OBVIOUS
  <2>1. PICK n \in Bad : \A i \in Bad : n <= i
    <3>1. Bad \subseteq Nat
      OBVIOUS
    <3> HIDE DEF Bad
    <3> QED BY <3>1, LeastOf
  <2>2. n # 0 /\ n \in 1..Len(l) /\ n - 1 \in 0..Len(l) /\ ~(n <= n - 1) /\ n \in 0..EventBound
    BY <1>2, <1>3
  <2>3. g[n - 1] = f[n - 1]
    BY <2>1, <2>2
  <2>4. f[n] = Counted(f[n - 1], l[n]) /\ g[n] = Counted(g[n - 1], m[n])
    BY <1>1, <2>2
  <2>5. Same(l[n], m[n])
    BY <2>2 DEF Continues
  <2>6. Counted(f[n - 1], l[n]) = Counted(f[n - 1], m[n])
    BY <2>5 DEF Same, Counted
  <2> QED BY <2>3, <2>4, <2>6
<1>5. g[Len(m)] = Counted(f[Len(l)], m[Len(m)])
  <2>1. Len(m) \in 0..EventBound /\ Len(m) # 0 /\ Len(m) - 1 = Len(l) /\ Len(l) \in 0..Len(l)
    BY <1>2
  <2>2. g[Len(m)] = Counted(g[Len(m) - 1], m[Len(m)])
    BY <1>1, <2>1
  <2> QED BY <1>4, <2>1, <2>2
<1> QED BY <1>3, <1>4, <1>5

\* DatesTellApart and SaleInheritsItsEntry of one sale.
TellApart(l, f, i) ==
    \A j \in 1..(i - 1) :
        l[j].kind = "buy" /\ l[j].signal # 0 => (j >= StartOf(f, i) <=> l[j].day >= l[StartOf(f, i)].day)
SaleOf(l, f, i) ==
    (l[i].signal # 0 /\ TellApart(l, f, i)) =>
        /\ \E j \in StartOf(f, i)..(i - 1) : l[j].kind = "buy" /\ l[j].signal = l[i].signal
        /\ \A j \in StartOf(f, i)..(i - 1) : l[j].kind = "buy" => l[j].signal \in {0, l[i].signal}

LEMMA SaleStays ==
    ASSUME NEW l \in Seq(EventType), NEW m, Continues(l, m), NEW f, NEW g, NEW i \in 1..Len(l),
           StartOf(f, i) = StartOf(g, i), SaleOf(l, f, i)
    PROVE  SaleOf(m, g, i)
<1> PICK c : c = StartOf(f, i)
  OBVIOUS
<1>1. c \in 1..i
  BY StartIs
<1>2. i \in 1..Len(l) /\ c \in 1..Len(l) /\ (\A j \in c..(i - 1) : j \in 1..Len(l)) /\ \A j \in 1..(i - 1) : j \in 1..Len(l)
  BY <1>1
<1>3. \A j \in 1..Len(l) : m[j].kind = l[j].kind /\ m[j].signal = l[j].signal /\ m[j].day = l[j].day
  BY DEF Continues, Same
<1>4. TellApart(m, g, i) => TellApart(l, f, i)
  BY <1>2, <1>3 DEF TellApart
<1> QED BY <1>2, <1>3, <1>4 DEF SaleOf

\* SaleInheritsItsEntry in these words.
LEMMA SalesAre ==
    ASSUME ledger \in Seq(EventType)
    PROVE  SaleInheritsItsEntry <=> \A i \in Indices("sell") : SaleOf(ledger, QuantityAfter, i)
<1>1. DOMAIN ledger = 1..Len(ledger) /\ Len(ledger) \in Nat /\ \A i : CycleStart(i) = StartOf(QuantityAfter, i)
  BY DEF CycleStart, StartOf
<1>2. ASSUME NEW i \in Indices("sell")
      PROVE  DatesTellApart(i) <=> TellApart(ledger, QuantityAfter, i)
  <2>1. i \in 1..Len(ledger)
    BY <1>1 DEF Indices
  <2>2. \A j : (j \in Indices("buy") /\ j < i) <=> (j \in 1..(i - 1) /\ ledger[j].kind = "buy")
    BY <1>1, <2>1 DEF Indices
  <2> QED BY <1>1, <2>2 DEF DatesTellApart, TellApart
<1> QED BY <1>1, <1>2 DEF SaleInheritsItsEntry, SaleOf

LEMMA SalesAreNext ==
    ASSUME ledger' \in Seq(EventType)
    PROVE  SaleInheritsItsEntry' <=> \A i \in Indices("sell")' : SaleOf(ledger', QuantityAfter', i)
<1>1. DOMAIN ledger' = 1..Len(ledger') /\ Len(ledger') \in Nat /\ \A i : CycleStart(i)' = StartOf(QuantityAfter', i)
  BY DEF CycleStart, StartOf
<1>2. ASSUME NEW i \in Indices("sell")'
      PROVE  DatesTellApart(i)' <=> TellApart(ledger', QuantityAfter', i)
  <2>1. i \in 1..Len(ledger')
    BY <1>1 DEF Indices
  <2>2. \A j : (j \in Indices("buy")' /\ j < i) <=> (j \in 1..(i - 1) /\ ledger'[j].kind = "buy")
    BY <1>1, <2>1 DEF Indices
  <2> QED BY <1>1, <2>2 DEF DatesTellApart, TellApart
<1> QED BY <1>1, <1>2 DEF SaleInheritsItsEntry, SaleOf

\* What one more event does.
Grown ==
    /\ Len(ledger') = Len(ledger) + 1 /\ ledger' \in Seq(EventType)
    /\ QuantityAfter'[Len(ledger')] = Counted(holding.quantity, ledger'[Len(ledger')])
    /\ holding.quantity = 0 => StartOf(QuantityAfter', Len(ledger')) = Len(ledger')
    /\ holding.quantity # 0 => /\ Len(ledger) # 0
                               /\ StartOf(QuantityAfter', Len(ledger')) = StartOf(QuantityAfter, Len(ledger))
    /\ \A kind : Indices(kind)' = Indices(kind) \cup (IF ledger'[Len(ledger')].kind = kind THEN {Len(ledger')} ELSE {})
    /\ \A i \in Indices("sell") : SaleOf(ledger', QuantityAfter', i)

LEMMA LedgerTypesAre ==
    LedgerInv => /\ ledger \in Seq(EventType) /\ Len(ledger) \in Nat /\ DOMAIN ledger = 1..Len(ledger) /\ Len(ledger) <= EventBound
                 /\ holding \in HoldingType /\ holding.quantity \in Nat
                 /\ \A i \in 1..Len(ledger) : ledger[i] \in EventType /\ ledger[i].day \in Nat /\ ledger[i].quantity \in Nat
<1> SUFFICES ASSUME LedgerInv
             PROVE  /\ ledger \in Seq(EventType) /\ Len(ledger) \in Nat /\ DOMAIN ledger = 1..Len(ledger) /\ Len(ledger) <= EventBound
                    /\ holding \in HoldingType /\ holding.quantity \in Nat
                    /\ \A i \in 1..Len(ledger) : ledger[i] \in EventType /\ ledger[i].day \in Nat /\ ledger[i].quantity \in Nat
  OBVIOUS
<1>1. /\ ledger \in Seq(EventType) /\ Len(ledger) <= EventBound /\ holding \in HoldingType
  BY DEF LedgerInv, LedgerTypeInv
<1>2. Len(ledger) \in Nat /\ DOMAIN ledger = 1..Len(ledger) /\ \A i \in 1..Len(ledger) : ledger[i] \in EventType
  BY <1>1
<1>3. \A e \in EventType : e.day \in Nat /\ e.quantity \in Nat
  BY LedgerConstants DEF EventType
<1>4. holding.quantity \in Nat
  BY <1>1 DEF HoldingType
<1> QED
  BY <1>1, <1>2, <1>3, <1>4, LedgerConstants

LEMMA LedgerGrows ==
    ASSUME LedgerInv, ledger' \in Seq(EventType), Continues(ledger, ledger'), Len(ledger') <= EventBound
    PROVE  Grown
<1> PICK l : l = ledger
  OBVIOUS
<1> PICK m : m = ledger'
  OBVIOUS
<1> PICK f : f = QuantityAfter
  OBVIOUS
<1> PICK g : g = QuantityAfter'
  OBVIOUS
<1> PICK n : n = Len(l)
  OBVIOUS
<1>1. /\ l \in Seq(EventType) /\ n \in Nat /\ m \in Seq(EventType) /\ Len(m) = n + 1 /\ n + 1 \in Nat
      /\ DOMAIN l = 1..n /\ DOMAIN m = 1..(n + 1)
      /\ \A i \in 1..n : l[i].day \in Nat
  BY LedgerTypesAre DEF Continues
<1>2. \A i \in 1..n : m[i].kind = l[i].kind /\ m[i].day = l[i].day /\ m[i].signal = l[i].signal
  BY DEF Continues, Same
<1>3. \A i \in 1..(n + 1) : i = n + 1 \/ i \in 1..n
  BY <1>1
<1>5. /\ \A i \in 0..n : g[i] = f[i]
      /\ g[n + 1] = Counted(f[n], m[n + 1])
      /\ f[0] = 0 /\ g[0] = 0
  <2>1. CountsOf(l, f, EventBound) /\ CountsOf(m, g, EventBound)
    BY QuantityIs, QuantityIsNext
  <2>2. Len(m) <= EventBound /\ Continues(l, m)
    OBVIOUS
  <2> QED BY <1>1, <2>1, <2>2, CountsContinue
<1>6. f[n] = holding.quantity
  BY DEF LedgerInv, HoldingIsProjection
<1>7. g[n] = f[n] /\ \A i \in 0..n : f[i] = g[i]
  BY <1>1, <1>5
<1>8. /\ holding.quantity = 0 => StartOf(g, n + 1) = n + 1
      /\ holding.quantity # 0 => StartOf(g, n + 1) = StartOf(g, n)
  BY <1>1, <1>5, <1>6, <1>7, StartSteps
<1>9. \A k \in 1..n : StartOf(f, k) = StartOf(g, k)
  <2> SUFFICES ASSUME NEW k \in 1..n PROVE StartOf(f, k) = StartOf(g, k)
    OBVIOUS
  <2>1. k \in Nat /\ \A i \in 0..(k - 1) : f[i] = g[i]
    BY <1>1, <1>7
  <2> QED BY <2>1, StartAgrees
<1>10. holding.quantity # 0 => n # 0 /\ StartOf(g, n) = StartOf(f, n)
  <2>1. holding.quantity # 0 => n # 0
    BY <1>5, <1>6
  <2>2. n # 0 => n \in 1..n
    BY <1>1
  <2> QED BY <1>9, <2>1, <2>2
<1>11. \A kind : Indices(kind)' = Indices(kind) \cup (IF m[n + 1].kind = kind THEN {n + 1} ELSE {})
  <2> SUFFICES ASSUME NEW kind
               PROVE  Indices(kind)' = Indices(kind) \cup (IF m[n + 1].kind = kind THEN {n + 1} ELSE {})
    OBVIOUS
  <2>1. Indices(kind)' = {i \in 1..(n + 1) : m[i].kind = kind}
    BY <1>1 DEF Indices
  <2>2. Indices(kind) = {i \in 1..n : l[i].kind = kind}
    BY <1>1 DEF Indices
  <2>3. n + 1 \in 1..(n + 1) /\ \A i \in 1..n : i \in 1..(n + 1)
    BY <1>1
  <2> QED BY <1>2, <1>3, <2>1, <2>2, <2>3
<1>12. \A i \in Indices("sell") : SaleOf(m, g, i)
  <2> SUFFICES ASSUME NEW i \in Indices("sell") PROVE SaleOf(m, g, i)
    OBVIOUS
  <2>1. i \in 1..n
    BY <1>1 DEF Indices
  <2>2. SaleOf(l, f, i)
    BY <1>1, SalesAre DEF LedgerInv
  <2> QED BY <1>1, <1>9, <2>1, <2>2, SaleStays
<1> QED
  BY <1>1, <1>5, <1>6, <1>8, <1>10, <1>11, <1>12 DEF Grown

\* With an event that is no sale the sales are as they were.
LEMMA SalesStay ==
    ASSUME Grown, ledger'[Len(ledger')].kind # "sell"
    PROVE  SaleInheritsItsEntry'
<1>1. Indices("sell")' = Indices("sell")
  BY DEF Grown
<1>2. \A i \in Indices("sell")' : SaleOf(ledger', QuantityAfter', i)
  BY <1>1 DEF Grown
<1> QED
  BY <1>2, SalesAreNext DEF Grown

\* A holding that stays open has the same opening.
LEMMA OpeningStays ==
    ASSUME LedgerInv, Grown, holding # NoHolding, holding'.opened = holding.opened,
           \A i \in 1..Len(ledger) : Same(ledger[i], ledger'[i])
    PROVE  /\ OpeningInv' /\ StartOf(QuantityAfter', Len(ledger')) = StartOf(QuantityAfter, Len(ledger))
<1> PICK n : n = Len(ledger)
  OBVIOUS
<1> PICK c : c = StartOf(QuantityAfter, n)
  OBVIOUS
<1>1. holding.quantity # 0
  BY DEF LedgerInv, LedgerTypeInv
<1>2. StartOf(QuantityAfter', Len(ledger')) = c /\ n # 0 /\ Len(ledger') = n + 1 /\ n \in Nat
  BY <1>1, LedgerTypesAre DEF Grown
<1>3. c \in 1..n
  BY <1>2, StartIs
<1>4. c \in Indices("buy") /\ holding.opened = ledger[c].day
  BY DEF LedgerInv, OpeningInv, CycleStart, StartOf
<1>5. c \in Indices("buy")' /\ ledger'[c].day = ledger[c].day
  BY <1>3, <1>4 DEF Grown, Same
<1>6. CycleStart(Len(ledger))' = c
  BY <1>2 DEF CycleStart, StartOf
<1> QED
  BY <1>2, <1>4, <1>5, <1>6 DEF OpeningInv

LEMMA NoHoldingIs == NoHolding \in HoldingType /\ NoHolding.quantity = 0 /\ NoHolding.cost = 0
BY LedgerConstants DEF NoHolding, HoldingType

\* An event that is appended continues the ledger.
LEMMA Appended ==
    ASSUME LedgerInv, CanRecord, NEW e \in EventType, ledger' = Append(ledger, e)
    PROVE  /\ ledger' \in Seq(EventType) /\ Len(ledger') = Len(ledger) + 1 /\ Len(ledger') <= EventBound
           /\ Continues(ledger, ledger') /\ Grown /\ ledger'[Len(ledger')] = e
           /\ \A i \in 1..Len(ledger) : ledger'[i] = ledger[i] /\ Same(ledger[i], ledger'[i])
<1> PICK l : l = ledger
  OBVIOUS
<1> PICK m : m = Append(l, e)
  OBVIOUS
<1>1. l \in Seq(EventType) /\ Len(l) \in Nat
  BY LedgerTypesAre
<1>2. /\ m \in Seq(EventType) /\ Len(m) = Len(l) + 1 /\ m[Len(l) + 1] = e
      /\ \A i \in 1..Len(l) : m[i] = l[i]
  BY <1>1, AppendProperties
<1>3. Continues(l, m) /\ \A i \in 1..Len(l) : Same(l[i], m[i])
  BY <1>2 DEF Continues, Same
<1>4. Len(m) <= EventBound
  BY <1>1, <1>2, LedgerConstants DEF CanRecord
<1>5. ledger' = m
  BY <1>2
<1>6. Grown
  BY <1>2, <1>3, <1>4, <1>5, LedgerGrows
<1> QED BY <1>2, <1>3, <1>4, <1>5, <1>6

\* An average cost is a cost.
LEMMA AverageIs ==
    ASSUME NEW a \in Nat \ {0}, NEW b \in Nat \ {0}, NEW c \in Nat \ {0}, NEW d \in Nat \ {0}
    PROVE  (a * b + c * d) \div (a + c) \in Nat \ {0}
<1>1. a * b \in Nat /\ a * b >= a
  OBVIOUS
<1>2. c * d \in Nat /\ c * d >= c
  OBVIOUS
<1> PICK x : x = a * b + c * d
  OBVIOUS
<1> PICK y : y = a + c
  OBVIOUS
<1>3. x \in Nat /\ y \in Nat /\ y # 0 /\ x >= y
  BY <1>1, <1>2
<1>4. x \div y \in Nat \ {0}
  BY <1>3
<1> QED BY <1>4

\* The type shown is that of the latest buy, said of a set of buys.
LEMMA LatestBuyIs ==
    ASSUME NEW n \in Nat, NEW S \in SUBSET (1..n), NEW T, T = S \cup {n + 1}
    PROVE  Max(T) = n + 1
<1>1. T \in SUBSET (1..(n + 1)) /\ n + 1 \in T /\ \A y \in T : n + 1 >= y
  OBVIOUS
<1> PICK k : k = n + 1
  OBVIOUS
<1>2. k \in Nat /\ T \in SUBSET (1..k) /\ k \in T /\ \A y \in T : k >= y
  BY <1>1
<1>3. Max(T) = k
  BY <1>2, MaxUnique
<1> QED BY <1>3

BuysOfHolding == {i \in Indices("buy") : i >= CycleStart(Len(ledger))}

\* The last entered of the holding's buys is dated no earlier than any buy.
InOrder == \A i \in Indices("buy") : ledger[i].day <= ledger[Max(BuysOfHolding)].day

\* TypeFollowsLatestBuy in these words.
LEMMA TypesFollow ==
    TypeFollowsLatestBuy <=>
        ((holding # NoHolding /\ BuysOfHolding # {} /\ InOrder) => holding.type = ledger[Max(BuysOfHolding)].type)
BY DEF TypeFollowsLatestBuy, BuysOfHolding, InOrder

LEMMA TypesFollowNext ==
    TypeFollowsLatestBuy' <=>
        ((holding # NoHolding /\ BuysOfHolding # {} /\ InOrder)' => holding'.type = ledger'[Max(BuysOfHolding')].type)
BY DEF TypeFollowsLatestBuy, BuysOfHolding, InOrder

\* An event that is no buy leaves the holding its buys.
LEMMA BuysStay ==
    ASSUME LedgerInv, Grown, ledger'[Len(ledger')].kind # "buy",
           \A i \in 1..Len(ledger) : Same(ledger[i], ledger'[i]),
           StartOf(QuantityAfter', Len(ledger')) = StartOf(QuantityAfter, Len(ledger))
    PROVE  /\ BuysOfHolding' = BuysOfHolding /\ BuysOfHolding \in SUBSET (1..Len(ledger)) /\ Len(ledger) \in Nat
           /\ BuysOfHolding # {} => Max(BuysOfHolding) \in BuysOfHolding /\ Max(BuysOfHolding) \in 1..Len(ledger)
           /\ BuysOfHolding # {} /\ InOrder' => InOrder
<1> PICK S : S = BuysOfHolding
  OBVIOUS
<1>1. BuysOfHolding' = S
  BY DEF BuysOfHolding, Grown, CycleStart, StartOf
<1>2. Len(ledger) \in Nat /\ S \in SUBSET (1..Len(ledger)) /\ Indices("buy") \subseteq 1..Len(ledger)
  BY LedgerTypesAre DEF BuysOfHolding, Indices
<1>3. S # {} => Max(S) \in S /\ Max(S) \in 1..Len(ledger)
  BY <1>2, MaxIs
<1>4. Indices("buy")' = Indices("buy")
  BY DEF Grown
<1>5. \A i \in 1..Len(ledger) : ledger'[i].day = ledger[i].day
  BY DEF Same
<1>6. InOrder' <=> \A i \in Indices("buy") : ledger'[i].day <= ledger'[Max(S)].day
  BY <1>1, <1>4 DEF InOrder
<1>7. InOrder <=> \A i \in Indices("buy") : ledger[i].day <= ledger[Max(S)].day
  BY DEF InOrder
<1>8. S # {} /\ InOrder' => InOrder
  BY <1>2, <1>3, <1>5, <1>6, <1>7
<1> QED BY <1>1, <1>2, <1>3, <1>8

\* So it leaves the type of the latest of them to be shown.
LEMMA TypeStays ==
    ASSUME LedgerInv, Grown, holding # NoHolding, holding'.type = holding.type,
           ledger'[Len(ledger')].kind # "buy", \A i \in 1..Len(ledger) : ledger'[i] = ledger[i],
           StartOf(QuantityAfter', Len(ledger')) = StartOf(QuantityAfter, Len(ledger))
    PROVE  TypeFollowsLatestBuy'
<1> PICK S : S = BuysOfHolding
  OBVIOUS
<1>1. \A i \in 1..Len(ledger) : Same(ledger[i], ledger'[i])
  BY DEF Same
<1>2. BuysOfHolding' = S /\ (S # {} => Max(S) \in 1..Len(ledger)) /\ (S # {} /\ InOrder' => InOrder)
  BY <1>1, BuysStay
<1>3. S # {} /\ InOrder => holding.type = ledger[Max(S)].type
  BY TypesFollow DEF LedgerInv
<1> QED BY <1>2, <1>3, TypesFollowNext

LEMMA BuyKeeps ==
    ASSUME LedgerInv, NEW q \in Quantities, NEW day \in Nat \ {0}, NEW p \in Nat \ {0}, NEW type \in SignalTypes,
           NEW onSignal \in BOOLEAN, Buy(q, day, p, type, onSignal)
    PROVE  LedgerInv'
<1> PICK e : e = Event("buy", day, q, p, type, EntrySignal("buy", day, onSignal), 0)
  OBVIOUS
<1> PICK n : n = Len(ledger)
  OBVIOUS
<1>1. /\ CanRecord /\ ledger' = Append(ledger, e)
      /\ holding' = IF holding.quantity = 0
                      THEN [quantity |-> q, cost |-> p, opened |-> day, type |-> type]
                      ELSE Merged(q, p, type)
      /\ attention' = IF attention = "plan" THEN "none" ELSE attention
  BY DEF Buy
<1>2. q \in Nat /\ q # 0 /\ p \in Nat /\ p # 0 /\ day \in Nat /\ day # 0 /\ n \in Nat
  BY LedgerConstants, LedgerTypesAre
<1>3. e \in EventType /\ e.kind = "buy" /\ e.day = day /\ e.quantity = q /\ e.type = type
  <2>1. EntrySignal("buy", day, onSignal) \in Nat
    <3>1. EntrySignal("buy", day, onSignal) = IF onSignal THEN SignalOn(day) ELSE 0
      BY DEF EntrySignal
    <3> QED BY <1>2, <3>1 DEF SignalOn
  <2>2. type \in SignalTypes \cup {"none"} /\ holding.cost \in Nat
    BY LedgerTypesAre DEF HoldingType
  <2> QED BY <1>2, <2>1, <2>2 DEF Event, EventType
<1>4. /\ ledger' \in Seq(EventType) /\ Len(ledger') = n + 1 /\ Len(ledger') <= EventBound /\ Grown
      /\ ledger'[n + 1] = e /\ \A i \in 1..n : ledger'[i] = ledger[i] /\ Same(ledger[i], ledger'[i])
  BY <1>1, <1>3, Appended
<1>5. attention' \in {"plan", "manual", "none"}
  BY <1>1 DEF LedgerInv, LedgerTypeInv
<1>6. \A i \in 1..Len(ledger') : ledger'[i].kind = "buy" => ledger'[i].quantity # 0
  BY <1>2, <1>3, <1>4 DEF LedgerInv, LedgerTypeInv
<1>7. Indices("buy")' = Indices("buy") \cup {n + 1} /\ Indices("buy") \subseteq 1..n
  BY <1>3, <1>4, LedgerTypesAre DEF Grown, Indices
<1>8. SaleInheritsItsEntry'
  <2>1. ledger'[Len(ledger')].kind # "sell"
    BY <1>3, <1>4
  <2> QED BY <1>4, <2>1, SalesStay
<1>9. QuantityAfter'[Len(ledger')] = holding.quantity + q
  BY <1>3, <1>4 DEF Grown, Counted
<1>10. holding.quantity \in Nat /\ holding \in HoldingType
  BY LedgerTypesAre
\* With the buy as the last event, whatever is bought is bought as it says.
<1>11. ASSUME holding'.type = type, StartOf(QuantityAfter', Len(ledger')) \in 1..(n + 1) PROVE TypeFollowsLatestBuy'
  <2> PICK c : c = StartOf(QuantityAfter', Len(ledger'))
    OBVIOUS
  <2> PICK S : S = {i \in Indices("buy") : i >= c}
    OBVIOUS
  <2>1. BuysOfHolding' = S \cup {n + 1}
    <3>1. CycleStart(Len(ledger))' = c
      BY DEF CycleStart, StartOf
    <3>2. n + 1 >= c
      BY <1>2, <1>11
    <3> QED BY <1>7, <3>1, <3>2 DEF BuysOfHolding
  <2>2. S \in SUBSET (1..n)
    BY <1>7
  <2>3. Max(S \cup {n + 1}) = n + 1
    BY <1>2, <2>2, LatestBuyIs
  <2> QED BY <1>3, <1>4, <1>11, <2>1, <2>3, TypesFollowNext
<1>12. CASE holding.quantity = 0
  <2>1. /\ holding' = [quantity |-> q, cost |-> p, opened |-> day, type |-> type]
    BY <1>1, <1>12
  <2>2. /\ holding' \in HoldingType /\ holding'.quantity = q /\ holding'.cost = p /\ holding'.opened = day
        /\ holding'.type = type /\ holding' # NoHolding
    <3>1. holding' \in HoldingType /\ holding'.quantity = q /\ holding'.cost = p /\ holding'.opened = day
          /\ holding'.type = type
      BY <1>2, <1>10, <2>1 DEF HoldingType
    <3> QED BY <1>2, <3>1, NoHoldingIs
  <2>3. LedgerTypeInv'
    BY <1>1, <1>2, <1>4, <1>5, <1>6, <1>10, <2>2 DEF LedgerTypeInv
  <2>4. HoldingIsProjection'
    BY <1>2, <1>9, <1>12, <2>2 DEF HoldingIsProjection
  <2>5. StartOf(QuantityAfter', Len(ledger')) = n + 1 /\ n + 1 \in 1..(n + 1)
    BY <1>2, <1>4, <1>12 DEF Grown
  <2>6. OpeningInv'
    <3>1. CycleStart(Len(ledger))' = n + 1
      BY <2>5 DEF CycleStart, StartOf
    <3>2. n + 1 \in Indices("buy")' /\ ledger'[n + 1].day = day
      BY <1>3, <1>4, <1>7
    <3> QED BY <1>2, <1>4, <2>2, <3>1, <3>2 DEF OpeningInv
  <2>7. TypeFollowsLatestBuy'
    BY <1>11, <2>2, <2>5
  <2> QED BY <1>8, <2>3, <2>4, <2>6, <2>7 DEF LedgerInv
<1>13. CASE holding.quantity # 0
  <2> PICK cost : cost = (holding.quantity * holding.cost + q * p) \div (holding.quantity + q)
    OBVIOUS
  <2>1. holding' = [holding EXCEPT !.quantity = holding.quantity + q, !.cost = cost, !.type = type]
    BY <1>1, <1>13 DEF Merged
  <2>2. holding # NoHolding /\ holding.cost # 0 /\ holding.cost \in Nat /\ holding.opened # 0
    BY <1>10, <1>13, NoHoldingIs DEF LedgerInv, LedgerTypeInv, HoldingType
  <2>3. cost \in Nat /\ cost # 0
    <3>1. /\ holding.quantity \in Nat \ {0} /\ holding.cost \in Nat \ {0} /\ q \in Nat \ {0}
          /\ p \in Nat \ {0}
      BY <1>2, <1>10, <1>13, <2>2
    <3> QED BY <3>1, AverageIs
  <2>4. /\ holding' \in HoldingType /\ holding'.quantity = holding.quantity + q /\ holding'.cost = cost
        /\ holding'.type = type /\ holding'.opened = holding.opened /\ holding' # NoHolding
    <3>1. /\ holding' \in HoldingType /\ holding'.quantity = holding.quantity + q /\ holding'.cost = cost
          /\ holding'.type = type /\ holding'.opened = holding.opened
      <4>1. holding.quantity + q \in Nat /\ type \in SignalTypes \cup {"none"} /\ cost \in Nat
        BY <1>2, <1>10, <2>3
      <4> QED BY <1>10, <2>1, <4>1 DEF HoldingType
    <3> QED BY <2>3, <3>1, NoHoldingIs
  <2>5. LedgerTypeInv'
    <3>1. holding'.quantity # 0 /\ holding'.cost # 0 /\ holding'.opened # 0 /\ holding'.type \in SignalTypes
      BY <1>2, <1>10, <2>2, <2>3, <2>4
    <3> QED BY <1>1, <1>4, <1>5, <1>6, <1>10, <2>4, <3>1 DEF LedgerTypeInv
  <2>6. HoldingIsProjection'
    BY <1>9, <2>4 DEF HoldingIsProjection
  <2>7. OpeningInv' /\ StartOf(QuantityAfter', Len(ledger')) = StartOf(QuantityAfter, n)
    BY <1>1, <1>3, <1>4, <2>2, <2>4, OpeningStays
  <2>8. StartOf(QuantityAfter', Len(ledger')) \in 1..(n + 1)
    <3>1. n # 0
      BY <1>4, <1>13 DEF Grown
    <3> QED BY <1>2, <2>7, <3>1, StartIs
  <2>9. TypeFollowsLatestBuy'
    BY <1>11, <2>4, <2>8
  <2> QED BY <1>8, <2>5, <2>6, <2>7, <2>9 DEF LedgerInv
<1> QED BY <1>12, <1>13

\* An event that changes neither the row's opening nor its type, and is
\* neither a purchase nor a sale.
LEMMA QuietKeeps ==
    ASSUME LedgerInv, CanRecord, NEW kind \in {"adjust", "note"}, NEW q \in Nat, NEW p \in Nat,
           ledger' = Append(ledger, Event(kind, 0, q, p, "none", 0, 0)), attention' = attention,
           holding' \in HoldingType, holding'.quantity = IF kind = "adjust" /\ q # 0 THEN q ELSE holding.quantity,
           holding'.opened = holding.opened, holding'.type = holding.type,
           holding' = holding \/ (holding # NoHolding /\ holding'.cost # 0)
    PROVE  LedgerInv'
<1> PICK e : e = Event(kind, 0, q, p, "none", 0, 0)
  OBVIOUS
<1> PICK n : n = Len(ledger)
  OBVIOUS
<1>1. e \in EventType /\ e.kind = kind /\ e.quantity = q
  <2>1. holding.cost \in Nat
    BY LedgerTypesAre DEF HoldingType
  <2> QED BY <2>1 DEF Event, EventType
<1>2. /\ ledger' \in Seq(EventType) /\ Len(ledger') = n + 1 /\ Len(ledger') <= EventBound /\ Grown
      /\ ledger'[n + 1] = e /\ \A i \in 1..n : ledger'[i] = ledger[i] /\ Same(ledger[i], ledger'[i])
  BY <1>1, Appended
<1>3. holding \in HoldingType /\ n \in Nat /\ holding.quantity \in Nat
  BY LedgerTypesAre
<1>4. ledger'[Len(ledger')].kind # "sell" /\ ledger'[Len(ledger')].kind # "buy"
  BY <1>1, <1>2
<1>5. SaleInheritsItsEntry'
  BY <1>2, <1>4, SalesStay
<1>6. \A i \in 1..Len(ledger') : ledger'[i].kind = "buy" => ledger'[i].quantity # 0
  BY <1>1, <1>2, <1>3 DEF LedgerInv, LedgerTypeInv
<1>7. HoldingIsProjection'
  <2>1. QuantityAfter'[Len(ledger')] = Counted(holding.quantity, e)
    BY <1>2 DEF Grown
  <2>2. Counted(holding.quantity, e) = IF kind = "adjust" /\ q # 0 THEN q ELSE holding.quantity
    BY <1>1 DEF Counted
  <2> QED BY <2>1, <2>2 DEF HoldingIsProjection
<1>8. CASE holding = NoHolding
  <2>1. holding' = NoHolding
    BY <1>8
  <2>2. LedgerTypeInv'
    BY <1>2, <1>3, <1>6, <2>1 DEF LedgerInv, LedgerTypeInv
  <2>3. OpeningInv'
    BY <2>1 DEF OpeningInv
  <2>4. TypeFollowsLatestBuy'
    BY <2>1 DEF TypeFollowsLatestBuy
  <2> QED BY <1>5, <1>7, <2>2, <2>3, <2>4 DEF LedgerInv
<1>9. CASE holding # NoHolding
  <2>1. /\ holding.quantity # 0 /\ holding.cost # 0 /\ holding.opened # 0 /\ holding.type \in SignalTypes
    BY <1>9 DEF LedgerInv, LedgerTypeInv
  <2>2. holding'.quantity # 0 /\ holding'.cost # 0 /\ holding' # NoHolding
    BY <2>1, NoHoldingIs
  <2>3. LedgerTypeInv'
    BY <1>2, <1>3, <1>6, <2>1, <2>2 DEF LedgerInv, LedgerTypeInv
  <2>4. OpeningInv' /\ StartOf(QuantityAfter', Len(ledger')) = StartOf(QuantityAfter, n)
    BY <1>2, <1>9, OpeningStays
  <2>5. TypeFollowsLatestBuy'
    BY <1>2, <1>4, <1>9, <2>4, TypeStays
  <2> QED BY <1>5, <1>7, <2>3, <2>4, <2>5 DEF LedgerInv
<1> QED BY <1>8, <1>9

LEMMA AdjustKeeps ==
    ASSUME LedgerInv, NEW q \in Quantities \cup {0}, NEW price \in Prices \cup {0}, Adjust(q, price)
    PROVE  LedgerInv'
<1>1. /\ CanRecord /\ holding # NoHolding /\ ledger' = Append(ledger, Event("adjust", 0, q, price, "none", 0, 0))
      /\ holding' = [holding EXCEPT !.quantity = IF q = 0 THEN holding.quantity ELSE q,
                                    !.cost = IF price = 0 THEN holding.cost ELSE price]
      /\ attention' = attention
  BY DEF Adjust
<1>2. q \in Nat /\ price \in Nat /\ holding \in HoldingType /\ holding.quantity \in Nat /\ holding.cost \in Nat
  BY LedgerConstants, FillsAre, LedgerTypesAre DEF HoldingType
<1>3. holding.cost # 0
  BY <1>1 DEF LedgerInv, LedgerTypeInv
<1> PICK number : number = IF q = 0 THEN holding.quantity ELSE q
  OBVIOUS
<1> PICK cost : cost = IF price = 0 THEN holding.cost ELSE price
  OBVIOUS
<1>4. number \in Nat /\ cost \in Nat /\ cost # 0
  BY <1>2, <1>3
<1>5. /\ holding' \in HoldingType /\ holding'.quantity = number /\ holding'.cost = cost
      /\ holding'.opened = holding.opened /\ holding'.type = holding.type
  <2>1. holding' = [holding EXCEPT !.quantity = number, !.cost = cost]
    BY <1>1
  <2> QED BY <1>2, <1>4, <2>1 DEF HoldingType
<1>6. holding'.quantity = IF "adjust" = "adjust" /\ q # 0 THEN q ELSE holding.quantity
  BY <1>5
<1> QED BY <1>1, <1>2, <1>4, <1>5, <1>6, QuietKeeps

LEMMA RecordNoteKeeps == ASSUME LedgerInv, RecordNote PROVE LedgerInv'
<1>1. /\ CanRecord /\ ledger' = Append(ledger, Event("note", 0, 0, 0, "none", 0, 0))
      /\ holding' = holding /\ attention' = attention
  BY DEF RecordNote
<1>2. holding' \in HoldingType /\ holding'.quantity = IF "note" = "adjust" /\ 0 # 0 THEN 0 ELSE holding.quantity
  BY <1>1, LedgerTypesAre
<1> QED BY <1>1, <1>2, QuietKeeps

\* What a sale is attributed to: the assessments of the buys of its holding,
\* if they are one.
LEMMA EntryIs ==
    ASSUME LedgerInv, NEW s, s = EntrySignal("sell", 0, FALSE)
    PROVE  /\ s \in Nat
           /\ s # 0 => \A i \in EntriesSinceOpened : ledger[i].signal = s
           /\ s # 0 => \E i \in EntriesSinceOpened : ledger[i].signal = s
<1> PICK E : E = EntriesSinceOpened
  OBVIOUS
<1> PICK entries : entries = {ledger[i].signal : i \in E}
  OBVIOUS
<1>1. E \subseteq 1..Len(ledger) /\ Len(ledger) \in Nat
  BY LedgerTypesAre DEF EntriesSinceOpened, Indices
<1>2. \A i \in E : ledger[i].signal \in Nat
  BY <1>1, LedgerTypesAre DEF EventType
<1>3. IsFiniteSet(entries)
  <2>1. IsFiniteSet(E)
    <3>1. IsFiniteSet(1..Len(ledger))
      BY <1>1, FS_Interval
    <3> QED BY <1>1, <3>1, FS_Subset
  <2>2. \E signal : signal \in Surjection(E, entries)
    <3> DEFINE signal == [i \in E |-> ledger[i].signal]
    <3>1. signal \in [E -> entries] /\ \A d \in entries : \E i \in E : signal[i] = d
      OBVIOUS
    <3>2. signal \in Surjection(E, entries)
      BY <3>1 DEF Surjection
    <3> QED BY <3>2
  <2> QED BY <2>1, <2>2, FS_Surjection
<1>4. s = IF Cardinality(entries) = 1 THEN CHOOSE d \in entries : TRUE ELSE 0
  BY DEF EntrySignal
<1>5. CASE Cardinality(entries) = 1
  <2>1. PICK x : entries = {x}
    BY <1>3, <1>5, FS_Singleton
  <2>2. s = x
    BY <1>4, <1>5, <2>1
  <2>3. \A i \in E : ledger[i].signal = s
    BY <2>1, <2>2
  <2>4. \E i \in E : ledger[i].signal = s
    BY <2>1, <2>2
  <2> QED BY <1>2, <2>3, <2>4
<1>6. CASE Cardinality(entries) # 1
  <2>1. s = 0 /\ 0 \in Nat
    <3> PICK one \in BOOLEAN : one = (Cardinality(entries) = 1)
      OBVIOUS
    <3> PICK x : x = CHOOSE d \in entries : TRUE
      OBVIOUS
    <3>1. s = IF one THEN x ELSE 0
      BY <1>4
    <3>2. ~one
      BY <1>6
    <3>3. s = 0
      BY <3>1, <3>2
    <3>4. 0 \in Nat
      BY LedgerConstants
    <3> QED BY <3>3, <3>4
  <2> QED BY <2>1
<1> QED BY <1>5, <1>6

LEMMA SellKeeps == ASSUME LedgerInv, NEW q \in Quantities, NEW p \in Prices, Sell(q, p) PROVE LedgerInv'
<1> PICK s : s = EntrySignal("sell", 0, FALSE)
  OBVIOUS
<1> PICK e : e = Event("sell", 0, q, p, "none", s, Realized(q, p))
  OBVIOUS
<1> PICK n : n = Len(ledger)
  OBVIOUS
<1>1. /\ CanRecord /\ holding # NoHolding /\ q <= holding.quantity /\ ledger' = Append(ledger, e)
      /\ holding' = LeftAfter(q) /\ attention' = attention
  BY DEF Sell
<1>2. /\ q \in Nat /\ q # 0 /\ p \in Nat /\ n \in Nat
      /\ holding \in HoldingType /\ holding.quantity \in Nat /\ holding.cost \in Nat /\ holding.opened \in Nat
  BY LedgerConstants, FillsAre, LedgerTypesAre DEF HoldingType
<1>3. holding.quantity # 0
  BY <1>1, <1>2 DEF LedgerInv, LedgerTypeInv
<1>4. holding.quantity # 0 /\ q <= holding.quantity /\ holding # NoHolding
  BY <1>1, <1>3
<1>5. s \in Nat
  BY EntryIs
<1>6. e \in EventType /\ e.kind = "sell" /\ e.quantity = q /\ e.signal = s
  <2>1. Realized(q, p) \in Int
    <3>1. q * (p - holding.cost) \in Int
      BY <1>2
    <3>2. \A x \in Int : ((x + Grains \div 2) \div Grains) * Grains \in Int
      BY LedgerConstants
    <3> QED BY <3>1, <3>2 DEF Realized, Round2
  <2> QED BY <1>2, <1>5, <2>1 DEF Event, EventType
<1>7. /\ ledger' \in Seq(EventType) /\ Len(ledger') = n + 1 /\ Len(ledger') <= EventBound /\ Grown
      /\ ledger'[n + 1] = e /\ \A i \in 1..n : ledger'[i] = ledger[i] /\ Same(ledger[i], ledger'[i])
  BY <1>1, <1>6, Appended
<1> PICK c : c = StartOf(QuantityAfter, n)
  OBVIOUS
<1>8. StartOf(QuantityAfter', Len(ledger')) = c /\ n # 0 /\ c \in 1..n
  BY <1>2, <1>4, <1>7, StartIs DEF Grown
<1>9. /\ c \in Indices("buy") /\ Indices("buy") \subseteq 1..n
      /\ holding.opened = ledger[c].day
  BY <1>4, LedgerTypesAre DEF LedgerInv, OpeningInv, CycleStart, StartOf, Indices
<1>10. QuantityAfter'[Len(ledger')] = holding.quantity - q
  BY <1>6, <1>7 DEF Grown, Counted
<1>11. Indices("buy")' = Indices("buy") /\ Indices("sell")' = Indices("sell") \cup {n + 1}
  BY <1>6, <1>7 DEF Grown
\* The sale belongs to the entries of its own holding.
<1>12. SaleInheritsItsEntry'
  <2>1. SaleOf(ledger', QuantityAfter', n + 1)
    <3> SUFFICES ASSUME s # 0, TellApart(ledger', QuantityAfter', n + 1)
                 PROVE  /\ \E j \in c..n : ledger'[j].kind = "buy" /\ ledger'[j].signal = s
                        /\ \A j \in c..n : ledger'[j].kind = "buy" => ledger'[j].signal \in {0, s}
      <4>1. ledger'[n + 1].signal = s /\ StartOf(QuantityAfter', n + 1) = c /\ (n + 1) - 1 = n
        <5>1. ledger'[n + 1].signal = s
          BY <1>6, <1>7
        <5>2. Len(ledger') = n + 1 /\ (n + 1) - 1 = n
          BY <1>2, <1>7
        <5> QED BY <1>8, <5>1, <5>2
      <4> QED BY <4>1 DEF SaleOf
    <3>0. \A j \in 1..n : ledger[j].kind = "buy" /\ ledger[j].signal # 0 => (j >= c <=> ledger[j].day >= holding.opened)
      <4>1. /\ StartOf(QuantityAfter', n + 1) = c /\ (n + 1) - 1 = n /\ c \in 1..n
            /\ \A j \in 1..n : ledger'[j] = ledger[j]
        BY <1>2, <1>7, <1>8
      <4>2. \A j \in 1..n : ledger'[j].kind = "buy" /\ ledger'[j].signal # 0 => (j >= c <=> ledger'[j].day >= ledger'[c].day)
        BY <4>1 DEF TellApart
      <4> QED BY <1>9, <4>1, <4>2
    <3>1. PICK i \in EntriesSinceOpened : ledger[i].signal = s
      BY EntryIs
    <3>2. i \in Indices("buy") /\ i \in c..n /\ ledger[i].kind = "buy" /\ i \in 1..n
      BY <1>2, <1>8, <1>9, <3>0, <3>1 DEF EntriesSinceOpened, Indices
    <3>3. \E j \in c..n : ledger'[j].kind = "buy" /\ ledger'[j].signal = s
      BY <1>7, <3>1, <3>2
    <3>4. ASSUME NEW j \in c..n, ledger'[j].kind = "buy" PROVE ledger'[j].signal \in {0, s}
      <4>1. j \in 1..n /\ ledger'[j] = ledger[j] /\ j >= c
        BY <1>2, <1>7, <1>8
      <4>2. j \in Indices("buy")
        BY <1>2, <3>4, <4>1, LedgerTypesAre DEF Indices
      <4>3. ledger[j].signal # 0 => j \in EntriesSinceOpened
        BY <3>0, <3>4, <4>1, <4>2 DEF EntriesSinceOpened
      <4> QED BY <4>1, <4>3, EntryIs
    <3> QED BY <3>3, <3>4
  <2>2. \A i \in Indices("sell")' : SaleOf(ledger', QuantityAfter', i)
    BY <1>7, <1>11, <2>1 DEF Grown
  <2> QED BY <1>7, <2>2, SalesAreNext
<1>13. \A i \in 1..Len(ledger') : ledger'[i].kind = "buy" => ledger'[i].quantity # 0
  <2> SUFFICES ASSUME NEW i \in 1..Len(ledger'), ledger'[i].kind = "buy" PROVE ledger'[i].quantity # 0
    OBVIOUS
  <2>1. i # n + 1 /\ i \in 1..n
    <3>1. ledger'[n + 1].kind = "sell"
      BY <1>6, <1>7
    <3>2. i \in 1..(n + 1)
      BY <1>7
    <3> QED BY <1>2, <3>1, <3>2
  <2> QED BY <1>7, <2>1 DEF LedgerInv, LedgerTypeInv
<1>14. CASE q = holding.quantity
  <2>1. holding' = NoHolding
    BY <1>1, <1>14 DEF LeftAfter
  <2>2. LedgerTypeInv'
    BY <1>1, <1>2, <1>7, <1>13, <2>1, NoHoldingIs DEF LedgerInv, LedgerTypeInv
  <2>3. HoldingIsProjection'
    BY <1>2, <1>10, <1>14, <2>1, NoHoldingIs DEF HoldingIsProjection
  <2>5. OpeningInv'
    BY <2>1 DEF OpeningInv
  <2>6. TypeFollowsLatestBuy'
    BY <2>1 DEF TypeFollowsLatestBuy
  <2> QED BY <1>12, <2>2, <2>3, <2>5, <2>6 DEF LedgerInv
<1>15. CASE q # holding.quantity
  <2>1. holding' = [holding EXCEPT !.quantity = holding.quantity - q]
    BY <1>1, <1>15 DEF LeftAfter
  <2>2. /\ holding.quantity - q \in Nat /\ holding.quantity - q # 0
    BY <1>2, <1>4, <1>15
  <2>3. /\ holding' \in HoldingType /\ holding'.quantity = holding.quantity - q /\ holding'.cost = holding.cost
        /\ holding'.opened = holding.opened /\ holding'.type = holding.type
    BY <1>2, <2>1, <2>2 DEF HoldingType
  <2>4. holding' # NoHolding
    BY <2>2, <2>3, NoHoldingIs
  <2>5. LedgerTypeInv'
    <3>1. holding.cost # 0 /\ holding.opened # 0 /\ holding.type \in SignalTypes
      BY <1>4 DEF LedgerInv, LedgerTypeInv
    <3> QED BY <1>1, <1>2, <1>7, <1>13, <2>2, <2>3, <3>1 DEF LedgerInv, LedgerTypeInv
  <2>6. HoldingIsProjection'
    BY <1>10, <2>3 DEF HoldingIsProjection
  <2>7. OpeningInv'
    BY <1>4, <1>7, <2>3, OpeningStays
  <2>8. TypeFollowsLatestBuy'
    <3>1. ledger'[Len(ledger')].kind # "buy" /\ StartOf(QuantityAfter', Len(ledger')) = StartOf(QuantityAfter, Len(ledger))
      BY <1>6, <1>7, <1>8
    <3> QED BY <1>4, <1>7, <2>3, <3>1, TypeStays
  <2> QED BY <1>12, <2>5, <2>6, <2>7, <2>8 DEF LedgerInv
<1> QED BY <1>14, <1>15

\* Of some events one is the latest by date, then by number.
Dated(l, n) == \A i \in 1..n : l[i].day \in Nat
LatestIn(S, l, i) == i \in S /\ \A j \in S : l[j].day < l[i].day \/ (l[j].day = l[i].day /\ j <= i)

LEMMA LatestExists ==
    ASSUME NEW n \in Nat, NEW l, Dated(l, n), NEW S \in SUBSET (1..n), S # {}
    PROVE  \E i : LatestIn(S, l, i)
<1>0. \A i \in 1..n : l[i].day \in Nat
  BY DEF Dated
<1> DEFINE Later(i, j) == l[j].day < l[i].day \/ (l[j].day = l[i].day /\ j <= i)
           Bad == {m \in 0..n : (\E i \in S : i <= m) /\ ~ \E i \in S : i <= m /\ \A j \in S : j <= m => Later(i, j)}
<1>1. Bad = {}
  <2> SUFFICES ASSUME Bad # {} PROVE FALSE
    OBVIOUS
  <2>1. PICK m \in Bad : \A v \in Bad : m <= v
    <3>1. Bad \subseteq Nat
      OBVIOUS
    <3> HIDE DEF Bad
    <3> QED BY <3>1, LeastOf
  <2>2. PICK s \in S : s <= m
    OBVIOUS
  <2>3. m \in 1..n /\ m - 1 \in 0..n /\ ~(m <= m - 1) /\ \A j \in S : j <= m <=> (j = m \/ j <= m - 1)
    BY <2>2
  <2>4. m - 1 \notin Bad
    BY <2>1, <2>3
  <2>5. ASSUME m \notin S PROVE FALSE
    <3>1. \A j \in S : j <= m <=> j <= m - 1
      BY <2>3, <2>5
    <3> QED BY <2>3, <2>4, <3>1
  <2>6. m \in S /\ l[m].day \in Nat /\ m <= m
    BY <1>0, <2>3, <2>5
  <2>7. CASE \E i \in S : i <= m - 1
    <3>1. PICK i \in S : i <= m - 1 /\ \A j \in S : j <= m - 1 => Later(i, j)
      BY <2>3, <2>4, <2>7
    <3>2. \A j \in S : l[j].day \in Nat /\ j \in 1..n
      BY <1>0
    <3>3. CASE l[i].day <= l[m].day
      <4>1. \A j \in S : j <= m => Later(m, j)
        BY <2>3, <2>6, <3>1, <3>2, <3>3
      <4> QED BY <2>6, <4>1
    <3>4. CASE ~(l[i].day <= l[m].day)
      <4>1. \A j \in S : j <= m => Later(i, j)
        BY <2>3, <2>6, <3>1, <3>2, <3>4
      <4> QED BY <2>3, <3>1, <4>1
    <3> QED BY <3>3, <3>4
  <2>8. CASE ~ \E i \in S : i <= m - 1
    <3>1. \A j \in S : j <= m => j = m
      BY <2>3, <2>8
    <3>2. \A j \in S : j <= m => Later(m, j)
      BY <2>6, <3>1
    <3> QED BY <2>6, <3>2
  <2> QED BY <2>7, <2>8
<1>2. n \in 0..n /\ \A i \in S : i <= n
  OBVIOUS
<1>3. n \notin Bad
  BY <1>1
<1>5. PICK i \in S : \A j \in S : Later(i, j)
  BY <1>2, <1>3
<1> QED BY <1>5 DEF LatestIn

LEMMA CorrectTypeKeeps ==
    ASSUME LedgerInv, NEW type \in SignalTypes, CorrectType(type)
    PROVE  LedgerInv' /\ Continues(ledger, ledger') /\ ledger'[Len(ledger')].kind = "note"
<1> PICK n : n = Len(ledger)
  OBVIOUS
<1> PICK c : c = StartOf(QuantityAfter, n)
  OBVIOUS
<1> PICK bought : bought = {i \in Indices("buy") : ledger[i].day >= holding.opened}
  OBVIOUS
<1> PICK k : k = Corrected(bought)
  OBVIOUS
<1> PICK note : note = Event("note", 0, 0, 0, "none", 0, 0)
  OBVIOUS
<1> PICK corrected : corrected = IF bought = {} THEN ledger ELSE [ledger EXCEPT ![k].type = type]
  OBVIOUS
<1>1. /\ CanRecord /\ holding # NoHolding /\ holding' = [holding EXCEPT !.type = type]
      /\ ledger' = Append(corrected, note) /\ attention' = attention
  BY DEF CorrectType
<1>2. /\ holding.quantity # 0 /\ holding.cost # 0 /\ holding.opened # 0 /\ holding \in HoldingType /\ n \in Nat
      /\ ledger \in Seq(EventType) /\ DOMAIN ledger = 1..n
      /\ \A i \in 1..n : ledger[i] \in EventType /\ ledger[i].day \in Nat
  BY <1>1, LedgerTypesAre DEF LedgerInv, LedgerTypeInv
<1>3. /\ n # 0 /\ c \in Indices("buy") /\ Indices("buy") \subseteq 1..n
      /\ holding.opened = ledger[c].day
  BY <1>1, LedgerTypesAre DEF LedgerInv, OpeningInv, CycleStart, StartOf, Indices
<1>4. /\ c \in bought /\ bought \subseteq Indices("buy") /\ bought \in SUBSET (1..n) /\ c \in 1..n
      /\ BuysOfHolding = {i \in Indices("buy") : i >= c} /\ c \in BuysOfHolding /\ BuysOfHolding \in SUBSET (1..n)
  <2>1. BuysOfHolding = {i \in Indices("buy") : i >= c}
    BY DEF BuysOfHolding, CycleStart, StartOf
  <2>2. c \in 1..n /\ ledger[c].day >= ledger[c].day /\ c >= c
    BY <1>2, <1>3
  <2> QED BY <1>3, <2>1, <2>2
<1> PICK g : g = Max(BuysOfHolding)
  OBVIOUS
<1>4a. g \in BuysOfHolding /\ g \in 1..n /\ \A i \in Indices("buy") : i <= g
  <2>1. g \in BuysOfHolding /\ \A j \in BuysOfHolding : g >= j
    BY <1>2, <1>4, MaxIs
  <2>2. g \in 1..n /\ g >= c
    BY <1>4, <2>1
  <2>3. \A i \in Indices("buy") : i \in 1..n /\ (i \in BuysOfHolding \/ ~(i >= c))
    BY <1>3, <1>4
  <2>4. ASSUME NEW i \in Indices("buy") PROVE i <= g
    <3>1. i \in 1..n /\ c \in 1..n
      BY <1>4, <2>3
    <3> QED BY <2>1, <2>2, <2>3, <3>1
  <2> QED BY <2>1, <2>2, <2>4
\* One of the buys dated since the opening is the latest by date, then by number.
<1>4b. \E i \in bought : \A j \in bought : ledger[j].day < ledger[i].day \/ (ledger[j].day = ledger[i].day /\ j <= i)
  <2>1. Dated(ledger, n)
    BY <1>2 DEF Dated
  <2>2. bought # {} /\ bought \in SUBSET (1..n) /\ n \in Nat
    BY <1>2, <1>4
  <2>3. \E i : LatestIn(bought, ledger, i)
    BY ONLY <2>1, <2>2, LatestExists
  <2> QED BY <2>3 DEF LatestIn
<1>4c. k \in bought /\ \A j \in bought : ledger[j].day < ledger[k].day \/ (ledger[j].day = ledger[k].day /\ j <= k)
  BY <1>4b DEF Corrected
\* If the last buy entered is dated no earlier than any, it is the one corrected.
<1>5. (\A i \in Indices("buy") : ledger[i].day <= ledger[g].day) => k = g
  <2> SUFFICES ASSUME \A i \in Indices("buy") : ledger[i].day <= ledger[g].day PROVE k = g
    OBVIOUS
  <2>1. g \in Indices("buy") /\ ledger[g].day \in Nat /\ ledger[c].day \in Nat /\ c \in Indices("buy")
    BY <1>2, <1>3, <1>4, <1>4a
  <2>2. g \in bought
    BY <1>3, <2>1
  <2>3. k \in Indices("buy") /\ k \in 1..n /\ ledger[k].day \in Nat /\ k <= g
    BY <1>2, <1>4, <1>4a, <1>4c
  <2>4. ledger[k].day <= ledger[g].day
    BY <2>3
  <2>5. ledger[g].day < ledger[k].day \/ (ledger[g].day = ledger[k].day /\ g <= k)
    BY <1>4c, <2>2
  <2> QED BY <1>4a, <2>1, <2>3, <2>4, <2>5
<1> PICK row : row = [ledger[k] EXCEPT !.type = type]
  OBVIOUS
<1>6. k \in 1..n /\ ledger[k].kind = "buy"
  BY <1>4, <1>4c DEF Indices
<1>7. row \in EventType /\ row.type = type /\ row.kind = "buy" /\ row.quantity = ledger[k].quantity /\ Same(ledger[k], row)
  <2>1. ledger[k] \in EventType /\ type \in SignalTypes \cup {"none"}
    BY <1>2, <1>6
  <2>2. /\ row \in EventType /\ row.type = type /\ row.kind = ledger[k].kind /\ row.quantity = ledger[k].quantity
        /\ row.day = ledger[k].day /\ row.signal = ledger[k].signal
    BY <2>1 DEF EventType
  <2> QED BY <1>6, <2>2 DEF Same
<1>8. corrected = [ledger EXCEPT ![k] = row]
  BY <1>4
<1>9. /\ corrected \in Seq(EventType) /\ Len(corrected) = n /\ corrected[k] = row
      /\ \A i \in 1..n : i # k => corrected[i] = ledger[i]
  <2> HIDE <1>7
  <2>1. corrected \in Seq(EventType) /\ Len(corrected) = n
    BY <1>2, <1>6, <1>7, <1>8, ExceptSeq
  <2>2. corrected[k] = row /\ \A i \in 1..n : i # k => corrected[i] = ledger[i]
    BY <1>2, <1>6, <1>8
  <2> QED BY <2>1, <2>2
<1>10. note \in EventType /\ note.kind = "note"
  <2>1. holding.cost \in Nat
    BY <1>2 DEF HoldingType
  <2> QED BY <1>2, <2>1 DEF Event, EventType
<1>11. /\ ledger' \in Seq(EventType) /\ Len(ledger') = n + 1 /\ ledger'[n + 1] = note
       /\ \A i \in 1..n : ledger'[i] = corrected[i]
  <2> PICK m : m = Append(corrected, note)
    OBVIOUS
  <2>1. /\ m \in Seq(EventType) /\ Len(m) = n + 1 /\ m[n + 1] = note /\ \A i \in 1..n : m[i] = corrected[i]
    BY <1>9, <1>10, AppendProperties
  <2> QED BY <1>1, <2>1
<1>12. \A i \in 1..n : Same(ledger[i], ledger'[i])
  <2> SUFFICES ASSUME NEW i \in 1..n PROVE Same(ledger[i], ledger'[i])
    OBVIOUS
  <2>1. CASE i = k
    BY <1>7, <1>9, <1>11, <2>1
  <2>2. CASE i # k
    BY <1>9, <1>11, <2>2 DEF Same
  <2> QED BY <2>1, <2>2
<1>13. Len(ledger') <= EventBound /\ Continues(ledger, ledger')
  <2>1. Len(ledger) = n /\ n \in Nat /\ n < EventBound
    BY <1>1, <1>2 DEF CanRecord
  <2>2. Len(ledger') <= EventBound
    BY <1>11, <2>1, LedgerConstants
  <2>3. Continues(ledger, ledger')
    BY <1>11, <1>12, <2>1 DEF Continues
  <2> QED BY <2>2, <2>3
<1>14. Grown
  BY <1>11, <1>13, LedgerGrows
<1>15. /\ holding' \in HoldingType /\ holding'.quantity = holding.quantity /\ holding'.cost = holding.cost
       /\ holding'.opened = holding.opened /\ holding'.type = type
  BY <1>1, <1>2 DEF HoldingType
<1>16. holding' # NoHolding
  BY <1>2, <1>15, NoHoldingIs
<1>17. \A i \in 1..Len(ledger') : ledger'[i].kind = "buy" => ledger'[i].quantity # 0
  <2> SUFFICES ASSUME NEW i \in 1..Len(ledger'), ledger'[i].kind = "buy" PROVE ledger'[i].quantity # 0
    OBVIOUS
  <2>1. i # n + 1
    BY <1>10, <1>11
  <2>2. i \in 1..n
    BY <1>2, <1>11, <2>1
  <2>3. ledger'[i].kind = ledger[i].kind /\ ledger'[i].quantity = ledger[i].quantity
    BY <1>12, <2>2 DEF Same
  <2> QED BY <2>2, <2>3 DEF LedgerInv, LedgerTypeInv
<1>18. LedgerTypeInv'
  BY <1>1, <1>2, <1>11, <1>13, <1>15, <1>17 DEF LedgerInv, LedgerTypeInv
<1>19. HoldingIsProjection' /\ SaleInheritsItsEntry'
  <2>1. QuantityAfter'[Len(ledger')] = holding.quantity
    BY <1>10, <1>11, <1>14 DEF Grown, Counted
  <2>2. ledger'[Len(ledger')].kind # "sell"
    BY <1>10, <1>11
  <2> QED BY <1>14, <1>15, <2>1, <2>2, SalesStay DEF Grown, HoldingIsProjection
<1>20. OpeningInv' /\ StartOf(QuantityAfter', Len(ledger')) = c
  BY <1>1, <1>12, <1>14, <1>15, OpeningStays
<1>21. TypeFollowsLatestBuy'
  <2>1. BuysOfHolding' = BuysOfHolding /\ (InOrder' => InOrder)
    <3>1. ledger'[Len(ledger')].kind # "buy"
      BY <1>10, <1>11
    <3> QED BY <1>4, <1>12, <1>14, <1>20, <3>1, BuysStay
  <2>2. InOrder => k = g
    BY <1>5 DEF InOrder
  <2>3. ledger'[k].type = type
    BY <1>6, <1>7, <1>9, <1>11
  <2> QED BY <1>15, <2>1, <2>2, <2>3, TypesFollowNext
<1>22. ledger'[Len(ledger')].kind = "note"
  BY <1>10, <1>11
<1> QED BY <1>13, <1>18, <1>19, <1>20, <1>21, <1>22 DEF LedgerInv

LEMMA LedgerInitInv == LedgerInit => LedgerInv
<1> SUFFICES ASSUME LedgerInit PROVE LedgerInv
  OBVIOUS
<1>1. holding = NoHolding /\ ledger = <<>> /\ attention \in {"plan", "manual"}
  BY DEF LedgerInit
<1>2. Len(ledger) = 0 /\ ledger \in Seq(EventType) /\ DOMAIN ledger = {}
  BY <1>1
<1>3. LedgerTypeInv
  BY <1>1, <1>2, NoHoldingIs, LedgerConstants DEF LedgerTypeInv
<1>4. OpeningInv /\ SaleInheritsItsEntry /\ TypeFollowsLatestBuy
  BY <1>1, <1>2 DEF OpeningInv, SaleInheritsItsEntry, TypeFollowsLatestBuy, Indices
<1>5. QuantityAfter[0] = 0
  <2>1. 0 \in 0..EventBound
    BY LedgerConstants
  <2> QED BY <2>1, QuantityIs DEF CountsOf
<1> QED BY <1>1, <1>2, <1>3, <1>4, <1>5, NoHoldingIs DEF LedgerInv, HoldingIsProjection

LEMMA LedgerStepKeeps == LedgerInv /\ [LedgerNext]_ledgerVars => LedgerInv'
<1> SUFFICES ASSUME LedgerInv, [LedgerNext]_ledgerVars PROVE LedgerInv'
  OBVIOUS
<1>1. CASE \E q \in Quantities, fill \in Fills, type \in SignalTypes, onSignal \in BOOLEAN :
              Buy(q, fill[1], fill[2] * Grains, type, onSignal)
  BY <1>1, FillsAre, BuyKeeps
<1>2. CASE \E q \in Quantities, price \in Prices : Sell(q, price)
  BY <1>2, SellKeeps
<1>3. CASE \E q \in Quantities \cup {0}, price \in Prices \cup {0} : Adjust(q, price)
  BY <1>3, AdjustKeeps
<1>4. CASE RecordNote
  BY <1>4, RecordNoteKeeps
<1>5. CASE \E type \in SignalTypes : CorrectType(type)
  BY <1>5, CorrectTypeKeeps
<1>6. CASE UNCHANGED ledgerVars
  <2>1. holding' = holding /\ ledger' = ledger /\ attention' = attention
    BY <1>6 DEF ledgerVars
  <2>2. QuantityAfter' = QuantityAfter
    BY <2>1 DEF QuantityAfter
  <2>3. LedgerTypeInv' /\ HoldingIsProjection'
    BY <2>1, <2>2 DEF LedgerInv, LedgerTypeInv, HoldingIsProjection
  <2>4. OpeningInv'
    BY <2>1, <2>2 DEF LedgerInv, OpeningInv, CycleStart, Indices
  <2>5. SaleInheritsItsEntry'
    BY <2>1, <2>2 DEF LedgerInv, SaleInheritsItsEntry, DatesTellApart, CycleStart, Indices
  <2>6. TypeFollowsLatestBuy'
    BY <2>1, <2>2 DEF LedgerInv, TypeFollowsLatestBuy, CycleStart, Indices
  <2> QED BY <2>3, <2>4, <2>5, <2>6 DEF LedgerInv
<1> QED BY <1>1, <1>2, <1>3, <1>4, <1>5, <1>6 DEF LedgerNext

LEMMA LedgerInvHolds == LedgerSpec => []LedgerInv
BY LedgerInitInv, LedgerStepKeeps, PTL DEF LedgerSpec

-----------------------------------------------------------------------------
(* What the events book.                                                   *)

\* f adds up what d says, up to n.
SumsTo(f, d, n) == f = [i \in 0..n |-> IF i = 0 THEN 0 ELSE f[i - 1] + d[i]]

LEMMA SumsExist == \A d : \E f : SumsTo(f, d, EventBound)
<1> SUFFICES ASSUME NEW d PROVE \E f : SumsTo(f, d, EventBound)
  OBVIOUS
<1> DEFINE Bad == {n \in Nat : ~ \E f : SumsTo(f, d, n)}
<1>1. Bad = {}
  <2> SUFFICES ASSUME Bad # {} PROVE FALSE
    OBVIOUS
  <2>1. PICK n \in Bad : \A m \in Bad : n <= m
    <3>1. Bad \subseteq Nat
      OBVIOUS
    <3> HIDE DEF Bad
    <3> QED BY <3>1, LeastOf
  <2>2. CASE n = 0
    <3> DEFINE f == [i \in 0..0 |-> 0]
    <3>1. f = [i \in 0..0 |-> IF i = 0 THEN 0 ELSE f[i - 1] + d[i]]
      OBVIOUS
    <3> QED BY <2>2, <3>1 DEF SumsTo
  <2>3. CASE n # 0
    <3>1. n \in Nat /\ n - 1 \in Nat /\ ~(n <= n - 1)
      BY <2>3
    <3>2. PICK f : SumsTo(f, d, n - 1)
      BY <2>1, <3>1
    <3>3. f = [i \in 0..(n - 1) |-> IF i = 0 THEN 0 ELSE f[i - 1] + d[i]]
      BY <3>2 DEF SumsTo
    <3> DEFINE g == [i \in 0..n |-> IF i = n THEN f[n - 1] + d[n] ELSE f[i]]
    <3>4. \A i \in 0..(n - 1) : g[i] = f[i]
      BY <3>1
    <3>5. \A i \in 0..n : g[i] = IF i = 0 THEN 0 ELSE g[i - 1] + d[i]
      <4> SUFFICES ASSUME NEW i \in 0..n PROVE g[i] = IF i = 0 THEN 0 ELSE g[i - 1] + d[i]
        OBVIOUS
      <4>1. CASE i = n
        <5>1. g[i] = f[n - 1] + d[n] /\ n - 1 \in 0..(n - 1)
          BY <3>1, <4>1
        <5>2. g[n - 1] = f[n - 1]
          BY <3>4, <5>1
        <5> QED BY <2>3, <4>1, <5>1, <5>2
      <4>2. CASE i = 0
        <5>1. 0 \in 0..(n - 1)
          BY <3>1
        <5> QED BY <3>3, <3>4, <4>2, <5>1
      <4>3. CASE i # n /\ i # 0
        <5>1. i \in 0..(n - 1) /\ i - 1 \in 0..(n - 1)
          BY <3>1, <4>3
        <5>2. f[i] = f[i - 1] + d[i]
          BY <3>3, <4>3, <5>1
        <5>3. g[i] = f[i] /\ g[i - 1] = f[i - 1]
          BY <3>4, <5>1
        <5> QED BY <4>3, <5>2, <5>3
      <4> QED BY <4>1, <4>2, <4>3
    <3>6. g = [i \in 0..n |-> g[i]]
      OBVIOUS
    <3> PICK h : h = g
      OBVIOUS
    <3>7. h = [i \in 0..n |-> IF i = 0 THEN 0 ELSE h[i - 1] + d[i]]
      <4> HIDE DEF g
      <4> QED BY <3>5, <3>6
    <3> QED BY <3>7 DEF SumsTo
  <2> QED BY <2>2, <2>3
<1> QED BY <1>1, LedgerConstants

\* Sums of the same summands are the same, and one more summand is added.
LEMMA SumsContinue ==
    ASSUME NEW k \in Nat, k + 1 <= EventBound, NEW d, NEW e, \A i \in 1..k : d[i] \in Int /\ d[i] = e[i],
           NEW f, SumsTo(f, d, EventBound), NEW g, SumsTo(g, e, EventBound)
    PROVE  g[k + 1] = f[k] + e[k + 1] /\ f[k] \in Int
<1>1. /\ \A i \in 0..EventBound : f[i] = IF i = 0 THEN 0 ELSE f[i - 1] + d[i]
      /\ \A i \in 0..EventBound : g[i] = IF i = 0 THEN 0 ELSE g[i - 1] + e[i]
  BY DEF SumsTo
<1>2. \A i \in 0..k : i \in 0..EventBound /\ (i # 0 => i \in 1..k /\ i - 1 \in 0..k /\ ~(i <= i - 1))
  BY LedgerConstants
<1>3. f[0] = 0 /\ g[0] = 0
  <2>1. 0 \in 0..EventBound
    BY LedgerConstants
  <2> QED BY <1>1, <2>1
<1>4. \A i \in 0..k : g[i] = f[i] /\ f[i] \in Int
  <2> DEFINE Bad == {i \in 0..k : ~(g[i] = f[i] /\ f[i] \in Int)}
  <2> SUFFICES ASSUME Bad # {} PROVE FALSE
    OBVIOUS
  <2>1. PICK n \in Bad : \A i \in Bad : n <= i
    <3>1. Bad \subseteq Nat
      OBVIOUS
    <3> HIDE DEF Bad
    <3> QED BY <3>1, LeastOf
  <2>2. n # 0 /\ n \in 0..k
    BY <1>3
  <2>3. n \in 0..EventBound /\ n \in 1..k /\ n - 1 \in 0..k /\ ~(n <= n - 1)
    BY <1>2, <2>2
  <2>4. g[n - 1] = f[n - 1] /\ f[n - 1] \in Int
    BY <2>1, <2>3
  <2>5. f[n] = f[n - 1] + d[n] /\ g[n] = g[n - 1] + e[n] /\ d[n] = e[n] /\ d[n] \in Int
    BY <1>1, <2>2, <2>3
  <2> QED BY <2>4, <2>5
<1>5. k \in 0..k /\ k + 1 \in 0..EventBound /\ k + 1 # 0 /\ (k + 1) - 1 = k
  BY LedgerConstants
<1>6. g[k + 1] = g[(k + 1) - 1] + e[k + 1]
  BY <1>1, <1>5
<1> QED BY <1>4, <1>5, <1>6

BookedIn(l, f, n) == f = [i \in 0..n |-> IF i = 0 THEN 0 ELSE f[i - 1] + Booked(l[i])]
RoundedIn(l, q, f, n) == f = [i \in 0..n |-> IF i = 0 THEN 0 ELSE f[i - 1] + Rounded(l[i], q[i])]

\* What a list of events books, event by event, and what it rounds.
BookedBy(l) == [i \in 1..EventBound |-> Booked(l[i])]
RoundedBy(l, q) == [i \in 1..EventBound |-> Rounded(l[i], q[i])]

LEMMA BookedSums == \A l, f : BookedIn(l, f, EventBound) <=> SumsTo(f, BookedBy(l), EventBound)
<1> SUFFICES ASSUME NEW l, NEW f
             PROVE  BookedIn(l, f, EventBound) <=> SumsTo(f, BookedBy(l), EventBound)
  OBVIOUS
<1>1. \A i \in 0..EventBound : i # 0 => i \in 1..EventBound
  BY LedgerConstants
<1>2. \A i \in 1..EventBound : BookedBy(l)[i] = Booked(l[i])
  BY DEF BookedBy
<1> QED BY <1>1, <1>2 DEF BookedIn, SumsTo

LEMMA RoundedSums == \A l, q, f : RoundedIn(l, q, f, EventBound) <=> SumsTo(f, RoundedBy(l, q), EventBound)
<1> SUFFICES ASSUME NEW l, NEW q, NEW f
             PROVE  RoundedIn(l, q, f, EventBound) <=> SumsTo(f, RoundedBy(l, q), EventBound)
  OBVIOUS
<1>1. \A i \in 0..EventBound : i # 0 => i \in 1..EventBound
  BY LedgerConstants
<1>2. \A i \in 1..EventBound : RoundedBy(l, q)[i] = Rounded(l[i], q[i])
  BY DEF RoundedBy
<1> QED BY <1>1, <1>2 DEF RoundedIn, SumsTo

LEMMA BookedIs == SumsTo(BookedAfter, BookedBy(ledger), EventBound)
<1>1. BookedAfter = CHOOSE f : BookedIn(ledger, f, EventBound)
  BY DEF BookedAfter, BookedIn
<1>2. \E f : BookedIn(ledger, f, EventBound)
  BY BookedSums, SumsExist
<1> QED BY <1>1, <1>2, BookedSums

LEMMA BookedIsNext == SumsTo(BookedAfter', BookedBy(ledger'), EventBound)
<1>1. BookedAfter' = CHOOSE f : BookedIn(ledger', f, EventBound)
  BY DEF BookedAfter, BookedIn
<1>2. \E f : BookedIn(ledger', f, EventBound)
  BY BookedSums, SumsExist
<1> QED BY <1>1, <1>2, BookedSums

LEMMA RoundedIs == SumsTo(RoundedAfter, RoundedBy(ledger, QuantityAfter), EventBound)
<1>1. RoundedAfter = CHOOSE f : RoundedIn(ledger, QuantityAfter, f, EventBound)
  BY DEF RoundedAfter, RoundedIn
<1>2. \E f : RoundedIn(ledger, QuantityAfter, f, EventBound)
  BY RoundedSums, SumsExist
<1> QED BY <1>1, <1>2, RoundedSums

LEMMA RoundedIsNext == SumsTo(RoundedAfter', RoundedBy(ledger', QuantityAfter'), EventBound)
<1>1. RoundedAfter' = CHOOSE f : RoundedIn(ledger', QuantityAfter', f, EventBound)
  BY DEF RoundedAfter, RoundedIn
<1>2. \E f : RoundedIn(ledger', QuantityAfter', f, EventBound)
  BY RoundedSums, SumsExist
<1> QED BY <1>1, <1>2, RoundedSums

LEMMA BookedType == \A e \in EventType : Booked(e) \in Int
<1> SUFFICES ASSUME NEW e \in EventType PROVE Booked(e) \in Int
  OBVIOUS
<1>1. e.quantity \in Nat /\ e.price \in Nat /\ e.pnl \in Int
  BY DEF EventType
<1>2. e.quantity * e.price \in Int
  BY <1>1
<1>3. e.pnl - e.quantity * e.price \in Int
  BY <1>1, <1>2
<1> QED BY <1>2, <1>3 DEF Booked

LEMMA RoundedType == \A e, q : q \in Int => Rounded(e, q) \in Int
BY LedgerConstants DEF Rounded

LEMMA QuantityType ==
    ASSUME NEW l \in Seq(EventType), Len(l) <= EventBound, NEW f, CountsOf(l, f, EventBound)
    PROVE  \A i \in 0..Len(l) : f[i] \in Int
<1>1. \A i \in 0..EventBound : f[i] = IF i = 0 THEN 0 ELSE Counted(f[i - 1], l[i])
  BY DEF CountsOf
<1>2. Len(l) \in Nat /\ \A i \in 1..Len(l) : l[i] \in EventType /\ l[i].quantity \in Nat
  <2>1. Len(l) \in Nat /\ \A i \in 1..Len(l) : l[i] \in EventType
    OBVIOUS
  <2>2. \A e \in EventType : e.quantity \in Nat
    BY DEF EventType
  <2> QED BY <2>1, <2>2
<1> DEFINE Bad == {i \in 0..Len(l) : f[i] \notin Int}
<1> SUFFICES ASSUME Bad # {} PROVE FALSE
  OBVIOUS
<1>3. PICK n \in Bad : \A i \in Bad : n <= i
  <2>1. Bad \subseteq Nat
    OBVIOUS
  <2> HIDE DEF Bad
  <2> QED BY <2>1, LeastOf
<1>4. n \in 0..Len(l) /\ n \in 0..EventBound /\ f[n] \notin Int
  BY <1>2, LedgerConstants
<1>5. n # 0
  BY <1>1, <1>4
<1>6. n \in 1..Len(l) /\ n - 1 \in 0..Len(l) /\ ~(n <= n - 1)
  BY <1>2, <1>4, <1>5
<1>7. f[n - 1] \in Int
  BY <1>3, <1>6
<1>8. f[n] = Counted(f[n - 1], l[n])
  BY <1>1, <1>4, <1>5
<1> QED BY <1>2, <1>4, <1>6, <1>7, <1>8 DEF Counted

\* SumsContinue, said of two tables.
Extends(d, g, k) == k \in Nat /\ k + 1 <= EventBound /\ \A i \in 1..k : d[i] \in Int /\ d[i] = g[i]

LEMMA SumsGo ==
    \A k, d, g, f, h :
        Extends(d, g, k) /\ SumsTo(f, d, EventBound) /\ SumsTo(h, g, EventBound)
        => h[k + 1] = f[k] + g[k + 1] /\ f[k] \in Int
<1> SUFFICES ASSUME NEW k, NEW d, NEW g, NEW f, NEW h, Extends(d, g, k),
                    SumsTo(f, d, EventBound), SumsTo(h, g, EventBound)
             PROVE  h[k + 1] = f[k] + g[k + 1] /\ f[k] \in Int
  OBVIOUS
<1>1. k \in Nat /\ k + 1 <= EventBound /\ \A i \in 1..k : d[i] \in Int /\ d[i] = g[i]
  BY DEF Extends
<1> QED BY <1>1, SumsContinue

\* One more event books and rounds one more time.
LEMMA BooksGrow ==
    ASSUME LedgerInv, LedgerInv', Continues(ledger, ledger'), NEW e, e = ledger'[Len(ledger')]
    PROVE  /\ BookedAfter'[Len(ledger')] = BookedAfter[Len(ledger)] + Booked(e)
           /\ RoundedAfter'[Len(ledger')] = RoundedAfter[Len(ledger)] + Rounded(e, holding'.quantity)
           /\ BookedAfter[Len(ledger)] \in Int /\ RoundedAfter[Len(ledger)] \in Int
           /\ Booked(e) \in Int /\ Rounded(e, holding'.quantity) \in Int
           /\ Indices("adjust")' = {} => Indices("adjust") = {} /\ e.kind # "adjust"
<1> PICK l : l = ledger
  OBVIOUS
<1> PICK m : m = ledger'
  OBVIOUS
<1> PICK q : q = QuantityAfter
  OBVIOUS
<1> PICK r : r = QuantityAfter'
  OBVIOUS
<1> PICK k : k = Len(l)
  OBVIOUS
<1>1. l \in Seq(EventType) /\ k \in Nat /\ \A i \in 1..k : l[i] \in EventType
  BY LedgerTypesAre
<1>2. m \in Seq(EventType) /\ Len(m) = k + 1 /\ Len(m) <= EventBound
  BY DEF LedgerInv, LedgerTypeInv, Continues
<1>3. e \in EventType /\ DOMAIN m = 1..(k + 1) /\ e = m[k + 1] /\ k + 1 \in 1..(k + 1)
  BY <1>1, <1>2
<1>4. k <= EventBound /\ \A i \in 1..k : i \in 1..EventBound /\ i \in 0..k
  BY <1>1, <1>2, LedgerConstants
<1>5. CountsOf(l, q, EventBound) /\ CountsOf(m, r, EventBound)
  BY QuantityIs, QuantityIsNext
<1>6. \A i \in 0..k : r[i] = q[i]
  BY <1>1, <1>2, <1>5, CountsContinue
<1>7. \A i \in 0..k : q[i] \in Int
  BY <1>1, <1>4, <1>5, QuantityType
<1>8. \A i \in 1..k : Same(l[i], m[i])
  BY DEF Continues
<1>9. \A i \in 1..k : Booked(l[i]) = Booked(m[i]) /\ Rounded(l[i], q[i]) = Rounded(m[i], r[i])
  <2> SUFFICES ASSUME NEW i \in 1..k
               PROVE  Booked(l[i]) = Booked(m[i]) /\ Rounded(l[i], q[i]) = Rounded(m[i], r[i])
    OBVIOUS
  <2>1. Same(l[i], m[i]) /\ r[i] = q[i]
    BY <1>4, <1>6, <1>8
  <2> QED BY <2>1 DEF Same, Booked, Rounded
<1>10. /\ \A i \in 1..k : BookedBy(l)[i] \in Int /\ BookedBy(l)[i] = BookedBy(m)[i]
       /\ \A i \in 1..k : RoundedBy(l, q)[i] \in Int /\ RoundedBy(l, q)[i] = RoundedBy(m, r)[i]
  <2> SUFFICES ASSUME NEW i \in 1..k
               PROVE  /\ BookedBy(l)[i] \in Int /\ BookedBy(l)[i] = BookedBy(m)[i]
                      /\ RoundedBy(l, q)[i] \in Int /\ RoundedBy(l, q)[i] = RoundedBy(m, r)[i]
    OBVIOUS
  <2>1. /\ BookedBy(l)[i] = Booked(l[i]) /\ BookedBy(m)[i] = Booked(m[i])
        /\ RoundedBy(l, q)[i] = Rounded(l[i], q[i]) /\ RoundedBy(m, r)[i] = Rounded(m[i], r[i])
    BY <1>4 DEF BookedBy, RoundedBy
  <2>2. Booked(l[i]) \in Int /\ Rounded(l[i], q[i]) \in Int
    BY <1>1, <1>4, <1>7, BookedType, RoundedType
  <2> QED BY <1>9, <2>1, <2>2
<1>11. r[k + 1] = holding'.quantity /\ holding'.quantity \in Int
  <2>1. HoldingIsProjection' /\ holding' \in HoldingType
    BY DEF LedgerInv, LedgerTypeInv
  <2>2. holding'.quantity = r[Len(m)]
    BY <2>1 DEF HoldingIsProjection
  <2> QED BY <1>2, <2>1, <2>2 DEF HoldingType
<1>12. BookedBy(m)[k + 1] = Booked(e) /\ RoundedBy(m, r)[k + 1] = Rounded(e, holding'.quantity)
  <2>1. k + 1 \in 1..EventBound
    BY <1>1, <1>2, LedgerConstants
  <2> QED BY <1>3, <1>11, <2>1 DEF BookedBy, RoundedBy
<1>13. BookedAfter'[k + 1] = BookedAfter[k] + Booked(e) /\ BookedAfter[k] \in Int
  <2>1. SumsTo(BookedAfter, BookedBy(l), EventBound) /\ SumsTo(BookedAfter', BookedBy(m), EventBound)
    BY BookedIs, BookedIsNext
  <2>2. Extends(BookedBy(l), BookedBy(m), k)
    BY <1>1, <1>2, <1>10 DEF Extends
  <2>3. BookedAfter'[k + 1] = BookedAfter[k] + BookedBy(m)[k + 1] /\ BookedAfter[k] \in Int
    BY ONLY <2>1, <2>2, SumsGo
  <2> QED BY <1>12, <2>3
<1>14. RoundedAfter'[k + 1] = RoundedAfter[k] + Rounded(e, holding'.quantity) /\ RoundedAfter[k] \in Int
  <2>1. SumsTo(RoundedAfter, RoundedBy(l, q), EventBound) /\ SumsTo(RoundedAfter', RoundedBy(m, r), EventBound)
    BY RoundedIs, RoundedIsNext
  <2>2. Extends(RoundedBy(l, q), RoundedBy(m, r), k)
    BY <1>1, <1>2, <1>10 DEF Extends
  <2>3. RoundedAfter'[k + 1] = RoundedAfter[k] + RoundedBy(m, r)[k + 1] /\ RoundedAfter[k] \in Int
    BY ONLY <2>1, <2>2, SumsGo
  <2> QED BY <1>12, <2>3
<1>15. ASSUME Indices("adjust")' = {} PROVE Indices("adjust") = {} /\ e.kind # "adjust"
  <2>1. Indices("adjust")' = {i \in 1..(k + 1) : m[i].kind = "adjust"}
    BY <1>3 DEF Indices
  <2>2. Indices("adjust") = {i \in 1..k : l[i].kind = "adjust"}
    BY <1>1 DEF Indices
  <2>3. \A i \in 1..k : i \in 1..(k + 1)
    BY <1>1
  <2>4. \A i \in 1..k : l[i].kind = m[i].kind
    BY <1>8 DEF Same
  <2> QED BY <1>3, <1>15, <2>1, <2>2, <2>3, <2>4
<1>16. Booked(e) \in Int /\ Rounded(e, holding'.quantity) \in Int
  BY <1>3, <1>11, BookedType, RoundedType
<1> QED BY <1>2, <1>13, <1>14, <1>15, <1>16

\* What is held at cost moves with what is booked, up to the rounding.
Follows(e, value, after, quantity) ==
    /\ 2 * (Booked(e) - (after - value)) <= Rounded(e, quantity)
    /\ -Rounded(e, quantity) <= 2 * (Booked(e) - (after - value))

LEMMA ErrorsAdd ==
    \A b, d, r, s, v, w \in Int :
        /\ 2 * (b - v) <= r /\ -r <= 2 * (b - v)
        /\ 2 * (d - (w - v)) <= s /\ -s <= 2 * (d - (w - v))
        => 2 * ((b + d) - w) <= r + s /\ -(r + s) <= 2 * ((b + d) - w)
OBVIOUS

\* What the last event books is what the step moves.
HeldAtCost == holding.quantity * holding.cost
Moves ==
    \/ ledger'[Len(ledger')].kind = "adjust"
    \/ Follows(ledger'[Len(ledger')], HeldAtCost, HeldAtCost', holding'.quantity)

LEMMA HeldIs == LedgerInv => HeldAtCost \in Int
<1> SUFFICES ASSUME LedgerInv PROVE HeldAtCost \in Int
  OBVIOUS
<1>1. holding.quantity \in Nat /\ holding.cost \in Nat
  BY DEF LedgerInv, LedgerTypeInv, HoldingType
<1> QED BY <1>1 DEF HeldAtCost

LEMMA HeldIsNext == LedgerInv' => HeldAtCost' \in Int
<1> SUFFICES ASSUME LedgerInv' PROVE HeldAtCost' \in Int
  OBVIOUS
<1>1. holding'.quantity \in Nat /\ holding'.cost \in Nat
  BY DEF LedgerInv, LedgerTypeInv, HoldingType
<1> QED BY <1>1 DEF HeldAtCost

LEMMA ResultsStay ==
    ASSUME LedgerInv, LedgerInv', ResultsAddUp, Continues(ledger, ledger'), Moves
    PROVE  ResultsAddUp'
<1> PICK e : e = ledger'[Len(ledger')]
  OBVIOUS
<1> PICK value : value = HeldAtCost
  OBVIOUS
<1> PICK after : after = HeldAtCost'
  OBVIOUS
<1>1. value \in Int /\ after \in Int
  BY HeldIs, HeldIsNext
<1> SUFFICES ASSUME Indices("adjust")' = {}
             PROVE  /\ 2 * (BookedAfter'[Len(ledger')] - after) <= RoundedAfter'[Len(ledger')]
                    /\ -RoundedAfter'[Len(ledger')] <= 2 * (BookedAfter'[Len(ledger')] - after)
  BY DEF ResultsAddUp, HeldAtCost
<1> PICK b : b = BookedAfter[Len(ledger)]
  OBVIOUS
<1> PICK r : r = RoundedAfter[Len(ledger)]
  OBVIOUS
<1> PICK d : d = Booked(e)
  OBVIOUS
<1> PICK s : s = Rounded(e, holding'.quantity)
  OBVIOUS
<1>2. /\ BookedAfter'[Len(ledger')] = b + d /\ RoundedAfter'[Len(ledger')] = r + s
      /\ b \in Int /\ r \in Int /\ d \in Int /\ s \in Int /\ Indices("adjust") = {} /\ e.kind # "adjust"
  BY BooksGrow
<1>3. 2 * (b - value) <= r /\ -r <= 2 * (b - value)
  BY <1>2 DEF ResultsAddUp, HeldAtCost
<1>4. 2 * (d - (after - value)) <= s /\ -s <= 2 * (d - (after - value))
  BY <1>2 DEF Moves, Follows
<1>5. 2 * ((b + d) - after) <= r + s /\ -(r + s) <= 2 * ((b + d) - after)
  BY <1>1, <1>2, <1>3, <1>4, ErrorsAdd
<1> QED BY <1>2, <1>5

\* An average cost loses less than a grain a share.
LEMMA AverageLoses ==
    ASSUME NEW a \in Nat, NEW b \in Nat, NEW c \in Nat \ {0}, NEW d \in Nat,
           NEW x, x = (a * b + c * d) \div (a + c)
    PROVE  (a + c) * x <= a * b + c * d /\ a * b + c * d <= (a + c) * x + (a + c)
<1> PICK y : y = a * b + c * d
  OBVIOUS
<1> PICK z : z = a + c
  OBVIOUS
<1>1. y \in Nat /\ z \in Nat \ {0}
  <2>1. a * b \in Nat /\ c * d \in Nat
    OBVIOUS
  <2> QED BY <2>1
<1>2. \A u \in Nat, v \in Nat \ {0} : v * (u \div v) <= u /\ u <= v * (u \div v) + v
  OBVIOUS
<1>3. x = y \div z
  OBVIOUS
<1> QED BY <1>1, <1>2, <1>3

\* Rounding to the cent moves by half a cent.
LEMMA CentIs == \A x \in Int : Round2(x) \in Int /\ 2 * (Round2(x) - x) <= Grains /\ -Grains <= 2 * (Round2(x) - x)
BY DEF Round2, Grains

LEMMA AverageErrs ==
    \A v, d, w, n \in Int :
        w <= v + d /\ v + d <= w + n
        => 2 * (d - (w - v)) <= 2 * n /\ -(2 * n) <= 2 * (d - (w - v))
OBVIOUS

LEMMA SalesBook ==
    \A a, b, q, p, r \in Int : (r - q * p) - ((a - q) * b - a * b) = r - q * (p - b)
OBVIOUS

LEMMA LastOne ==
    ASSUME ledger \in Seq(EventType), NEW e, ledger' = Append(ledger, e)
    PROVE  Continues(ledger, ledger') /\ ledger'[Len(ledger')] = e
<1>1. Len(ledger') = Len(ledger) + 1 /\ ledger'[Len(ledger) + 1] = e /\ \A i \in 1..Len(ledger) : ledger'[i] = ledger[i]
  OBVIOUS
<1> QED BY <1>1 DEF Continues, Same

\* A purchase pays its price into what is held, up to a grain a share.
LEMMA BuyMoves ==
    ASSUME LedgerInv, LedgerInv', NEW q \in Quantities, NEW day \in Nat \ {0}, NEW p \in Nat \ {0},
           NEW type \in SignalTypes, NEW onSignal \in BOOLEAN, Buy(q, day, p, type, onSignal)
    PROVE  Continues(ledger, ledger') /\ Moves
<1> PICK e : e = Event("buy", day, q, p, type, EntrySignal("buy", day, onSignal), 0)
  OBVIOUS
<1>1. /\ CanRecord /\ ledger' = Append(ledger, e)
      /\ holding' = IF holding.quantity = 0
                      THEN [quantity |-> q, cost |-> p, opened |-> day, type |-> type]
                      ELSE Merged(q, p, type)
  BY DEF Buy
<1>2. q \in Nat \ {0} /\ p \in Nat /\ holding \in HoldingType /\ ledger \in Seq(EventType)
  BY LedgerConstants, FillsAre, LedgerTypesAre
<1> PICK a : a = holding.quantity
  OBVIOUS
<1> PICK b : b = holding.cost
  OBVIOUS
<1>3. a \in Nat /\ b \in Nat
  BY <1>2 DEF HoldingType
<1>4. Continues(ledger, ledger') /\ ledger'[Len(ledger')] = e
  BY <1>1, <1>2, LastOne
<1>5. e.kind = "buy" /\ e.quantity = q /\ e.price = p
  BY DEF Event
<1> PICK n : n = holding'.quantity
  OBVIOUS
<1>6. Booked(e) = q * p /\ Rounded(e, n) = 2 * n
  BY <1>5 DEF Booked, Rounded
<1>7. CASE a = 0
  <2>1. n = q /\ holding'.cost = p
    BY <1>1, <1>7
  <2>2. HeldAtCost = 0 * b /\ HeldAtCost' = q * p
    BY <1>7, <2>1 DEF HeldAtCost
  <2> PICK x : x = q * p
    OBVIOUS
  <2>3. 0 * b = 0 /\ x \in Int
    BY <1>2, <1>3
  <2>4. 2 * (x - (x - 0)) <= 2 * q /\ -(2 * q) <= 2 * (x - (x - 0))
    BY <1>2, <2>3
  <2>5. Follows(e, 0, x, n)
    BY <1>6, <2>1, <2>4 DEF Follows
  <2> QED BY <1>4, <2>2, <2>3, <2>5 DEF Moves
<1>8. CASE a # 0
  <2> PICK x : x = (a * b + q * p) \div (a + q)
    OBVIOUS
  <2>1. n = a + q /\ holding'.cost = x
    BY <1>1, <1>2, <1>8 DEF Merged, HoldingType
  <2>2. (a + q) * x <= a * b + q * p /\ a * b + q * p <= (a + q) * x + (a + q)
    <3>1. a + q = q + a /\ a \in Nat \ {0} /\ q \in Nat \ {0}
      BY <1>2, <1>3, <1>8
    <3> QED BY <1>2, <1>3, <3>1, AverageLoses
  <2> PICK v : v = a * b
    OBVIOUS
  <2> PICK d : d = q * p
    OBVIOUS
  <2> PICK w : w = (a + q) * x
    OBVIOUS
  <2>3. v \in Int /\ d \in Int /\ w \in Int /\ n \in Int
    <3>1. v \in Int /\ d \in Int
      BY <1>2, <1>3
    <3>2. HeldAtCost' = w
      BY <2>1 DEF HeldAtCost
    <3>3. w \in Int
      BY <3>2, HeldIsNext
    <3> QED BY <1>2, <1>3, <2>1, <3>1, <3>3
  <2>4. w <= v + d /\ v + d <= w + n
    BY <2>1, <2>2
  <2>5. 2 * (d - (w - v)) <= 2 * n /\ -(2 * n) <= 2 * (d - (w - v))
    BY <2>3, <2>4, AverageErrs
  <2>6. Follows(e, v, w, n)
    BY <1>6, <2>5 DEF Follows
  <2>7. HeldAtCost = v /\ HeldAtCost' = w
    BY <2>1 DEF HeldAtCost
  <2> QED BY <1>4, <2>6, <2>7 DEF Moves
<1> QED BY <1>7, <1>8

\* A sale takes its shares out of what is held at their cost, and its result is
\* their price less that cost, up to half a cent.
LEMMA SellMoves ==
    ASSUME LedgerInv, LedgerInv', NEW q \in Quantities, NEW p \in Prices, Sell(q, p)
    PROVE  Continues(ledger, ledger') /\ Moves
<1> PICK e : e = Event("sell", 0, q, p, "none", EntrySignal("sell", 0, FALSE), Realized(q, p))
  OBVIOUS
<1>1. CanRecord /\ ledger' = Append(ledger, e) /\ holding' = LeftAfter(q)
  BY DEF Sell
<1>2. q \in Nat \ {0} /\ p \in Nat /\ holding \in HoldingType /\ ledger \in Seq(EventType)
  BY LedgerConstants, FillsAre, LedgerTypesAre
<1> PICK a : a = holding.quantity
  OBVIOUS
<1> PICK b : b = holding.cost
  OBVIOUS
<1> PICK x : x = q * (p - b)
  OBVIOUS
<1> PICK pnl : pnl = Round2(x)
  OBVIOUS
<1>3. a \in Nat /\ b \in Nat
  BY <1>2 DEF HoldingType
<1>4. Continues(ledger, ledger') /\ ledger'[Len(ledger')] = e
  BY <1>1, <1>2, LastOne
<1>5. e.kind = "sell" /\ e.quantity = q /\ e.price = p /\ e.pnl = pnl
  BY DEF Event, Realized
<1>6. Booked(e) = pnl - q * p /\ Rounded(e, holding'.quantity) = Grains
  BY <1>5 DEF Booked, Rounded
<1>7. x \in Int /\ pnl \in Int /\ 2 * (pnl - x) <= Grains /\ -Grains <= 2 * (pnl - x)
  <2>1. x \in Int
    BY <1>2, <1>3
  <2> QED BY <2>1, CentIs
<1> PICK v : v = HeldAtCost
  OBVIOUS
<1> PICK w : w = HeldAtCost'
  OBVIOUS
\* The cost goes with the shares, whether the row goes or stays.
<1>8. w = (a - q) * b
  <2>1. CASE q = a
    <3>1. holding'.quantity = 0 /\ holding'.cost = 0
      BY <1>1, <2>1 DEF LeftAfter, NoHolding
    <3>2. (a - q) * b = 0 /\ 0 * 0 = 0
      BY <1>2, <1>3, <2>1
    <3> QED BY <3>1, <3>2 DEF HeldAtCost
  <2>2. CASE q # a
    <3>1. holding'.quantity = a - q /\ holding'.cost = b
      BY <1>1, <1>2, <2>2 DEF LeftAfter, HoldingType
    <3> QED BY <3>1 DEF HeldAtCost
  <2> QED BY <2>1, <2>2
<1>9. v = a * b
  BY DEF HeldAtCost
<1>10. (pnl - q * p) - (w - v) = pnl - x
  <2>1. a \in Int /\ b \in Int /\ q \in Int /\ p \in Int /\ pnl \in Int
    BY <1>2, <1>3, <1>7
  <2>2. (pnl - q * p) - ((a - q) * b - a * b) = pnl - q * (p - b)
    BY <2>1, SalesBook
  <2>3. x = q * (p - b)
    OBVIOUS
  <2> QED BY ONLY <1>8, <1>9, <2>2, <2>3
<1>11. Follows(e, v, w, holding'.quantity)
  BY <1>6, <1>7, <1>10 DEF Follows
<1> QED BY <1>4, <1>11 DEF Moves

\* A correction is no matter of the account, and a note books nothing.
LEMMA AdjustMoves ==
    ASSUME LedgerInv, NEW q \in Quantities \cup {0}, NEW price \in Prices \cup {0}, Adjust(q, price)
    PROVE  Continues(ledger, ledger') /\ Moves
<1> PICK e : e = Event("adjust", 0, q, price, "none", 0, 0)
  OBVIOUS
<1>1. ledger' = Append(ledger, e) /\ e.kind = "adjust" /\ ledger \in Seq(EventType)
  BY LedgerTypesAre DEF Adjust, Event
<1>2. Continues(ledger, ledger') /\ ledger'[Len(ledger')] = e
  BY <1>1, LastOne
<1> QED BY <1>1, <1>2 DEF Moves

LEMMA NoteMoves ==
    ASSUME LedgerInv, holding'.quantity = holding.quantity, holding'.cost = holding.cost,
           ledger'[Len(ledger')].kind = "note"
    PROVE  Moves
<1> PICK e : e = ledger'[Len(ledger')]
  OBVIOUS
<1> PICK v : v = HeldAtCost
  OBVIOUS
<1>1. v \in Int /\ HeldAtCost' = v
  BY HeldIs DEF HeldAtCost
<1>2. Booked(e) = 0 /\ Rounded(e, holding'.quantity) = 0
  BY DEF Booked, Rounded
<1>3. 2 * (0 - (v - v)) <= 0 /\ -0 <= 2 * (0 - (v - v))
  BY <1>1
<1>4. Follows(e, v, v, holding'.quantity)
  BY <1>2, <1>3 DEF Follows
<1> QED BY <1>1, <1>4 DEF Moves

LEMMA RecordNoteMoves == ASSUME LedgerInv, RecordNote PROVE Continues(ledger, ledger') /\ Moves
<1> PICK e : e = Event("note", 0, 0, 0, "none", 0, 0)
  OBVIOUS
<1>1. ledger' = Append(ledger, e) /\ e.kind = "note" /\ ledger \in Seq(EventType) /\ holding' = holding
  BY LedgerTypesAre DEF RecordNote, Event
<1>2. Continues(ledger, ledger') /\ ledger'[Len(ledger')].kind = "note"
  BY <1>1, LastOne
<1> QED BY <1>1, <1>2, NoteMoves

LEMMA CorrectTypeMoves ==
    ASSUME LedgerInv, NEW type \in SignalTypes, CorrectType(type)
    PROVE  Continues(ledger, ledger') /\ Moves
<1>1. Continues(ledger, ledger') /\ ledger'[Len(ledger')].kind = "note"
  BY CorrectTypeKeeps
<1>2. holding' = [holding EXCEPT !.type = type] /\ holding \in HoldingType
  BY LedgerTypesAre DEF CorrectType
<1>3. holding'.quantity = holding.quantity /\ holding'.cost = holding.cost
  BY <1>2 DEF HoldingType
<1> QED BY <1>1, <1>3, NoteMoves

LEMMA ResultsInit == LedgerInit => ResultsAddUp
<1> SUFFICES ASSUME LedgerInit PROVE ResultsAddUp
  OBVIOUS
<1>1. holding = NoHolding /\ Len(ledger) = 0
  BY DEF LedgerInit
<1>2. BookedAfter[0] = 0 /\ RoundedAfter[0] = 0
  <2>1. 0 \in 0..EventBound
    BY LedgerConstants
  <2>2. /\ BookedAfter = [i \in 0..EventBound |-> IF i = 0 THEN 0 ELSE BookedAfter[i - 1] + BookedBy(ledger)[i]]
        /\ RoundedAfter = [i \in 0..EventBound |->
                              IF i = 0 THEN 0 ELSE RoundedAfter[i - 1] + RoundedBy(ledger, QuantityAfter)[i]]
    BY BookedIs, RoundedIs DEF SumsTo
  <2> QED BY <2>1, <2>2
<1>3. holding.quantity * holding.cost = 0
  BY <1>1, NoHoldingIs
<1> QED BY <1>1, <1>2, <1>3 DEF ResultsAddUp

LEMMA ResultsStepKeep == LedgerInv /\ LedgerInv' /\ ResultsAddUp /\ [LedgerNext]_ledgerVars => ResultsAddUp'
<1> SUFFICES ASSUME LedgerInv, LedgerInv', ResultsAddUp, [LedgerNext]_ledgerVars PROVE ResultsAddUp'
  OBVIOUS
<1>1. CASE \E q \in Quantities, fill \in Fills, type \in SignalTypes, onSignal \in BOOLEAN :
              Buy(q, fill[1], fill[2] * Grains, type, onSignal)
  BY <1>1, FillsAre, BuyMoves, ResultsStay
<1>2. CASE \E q \in Quantities, price \in Prices : Sell(q, price)
  BY <1>2, SellMoves, ResultsStay
<1>3. CASE \E q \in Quantities \cup {0}, price \in Prices \cup {0} : Adjust(q, price)
  BY <1>3, AdjustMoves, ResultsStay
<1>4. CASE RecordNote
  BY <1>4, RecordNoteMoves, ResultsStay
<1>5. CASE \E type \in SignalTypes : CorrectType(type)
  BY <1>5, CorrectTypeMoves, ResultsStay
<1>6. CASE UNCHANGED ledgerVars
  <2>1. holding' = holding /\ ledger' = ledger
    BY <1>6 DEF ledgerVars
  <2>2. QuantityAfter' = QuantityAfter /\ BookedAfter' = BookedAfter
    BY <2>1 DEF QuantityAfter, BookedAfter
  <2>3. RoundedAfter' = RoundedAfter
    BY <2>1, <2>2 DEF RoundedAfter
  <2> QED BY <2>1, <2>2, <2>3 DEF ResultsAddUp, Indices
<1> QED BY <1>1, <1>2, <1>3, <1>4, <1>5, <1>6 DEF LedgerNext

LEMMA ResultsHold == LedgerSpec => []ResultsAddUp
<1>1. LedgerInit => LedgerInv /\ ResultsAddUp
  BY LedgerInitInv, ResultsInit
<1>2. LedgerInv /\ ResultsAddUp /\ [LedgerNext]_ledgerVars => (LedgerInv /\ ResultsAddUp)'
  BY LedgerStepKeeps, ResultsStepKeep
<1> QED BY <1>1, <1>2, PTL DEF LedgerSpec

\* The row of the holding and the events keep their types.
THEOREM LedgerTypesHold == LedgerSpec => []LedgerTypeOK
<1>1. LedgerInv => LedgerTypeOK
  <2> SUFFICES ASSUME LedgerInv PROVE LedgerTypeOK
    OBVIOUS
  <2>1. holding # NoHolding => holding \in [quantity : Nat \ {0}, cost : Nat \ {0}, opened : Nat \ {0}, type : SignalTypes]
    <3> SUFFICES ASSUME holding # NoHolding
                 PROVE  holding \in [quantity : Nat \ {0}, cost : Nat \ {0}, opened : Nat \ {0}, type : SignalTypes]
      OBVIOUS
    <3>1. /\ holding \in HoldingType /\ holding.quantity # 0 /\ holding.cost # 0 /\ holding.opened # 0
          /\ holding.type \in SignalTypes
      BY DEF LedgerInv, LedgerTypeInv
    <3> QED BY <3>1 DEF HoldingType
  <2>2. \A i \in DOMAIN ledger : ledger[i].kind \in {"buy", "sell", "adjust", "note"}
    BY LedgerTypesAre DEF EventType
  <2> QED BY <2>1, <2>2 DEF LedgerInv, LedgerTypeInv, LedgerTypeOK
<1> QED BY <1>1, LedgerInvHolds, PTL

\* The holding is what its events add up to, in shares and in money, whatever
\* dates they are entered with; a sale belongs to the entry it closes as far as
\* the dates tell its holding apart, and the type shown is that of the latest
\* buy unless an earlier entry is dated later: over any number of purchases,
\* sales that clear the holding, openings and corrections, at any prices.
THEOREM LedgerKeepsAddingUp == LedgerSpec => []LedgerAddsUp
<1>1. LedgerInv /\ ResultsAddUp => LedgerAddsUp
  BY DEF LedgerInv, LedgerAddsUp
<1> QED BY <1>1, LedgerInvHolds, ResultsHold, PTL

=============================================================================
