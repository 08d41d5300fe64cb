---------------------------- MODULE Confirmations ----------------------------
(***************************************************************************)
(* Domain writes of the agent: a tool call either writes at once (YOLO, or *)
(* a tool that never asks) or leaves a proposal, agent_confirmation, that  *)
(* the user approves, rejects or lets expire (agent/confirmations.ts,      *)
(* agent/mutation-lock.ts, agent/domain-write-tools.ts, agent/tools.ts).   *)
(*                                                                         *)
(* A write and an approval are SERIALIZABLE transactions: each sees the    *)
(* snapshot of its first statement, and a row that was changed after that  *)
(* cannot be locked.  The target of a write is one object (a position, a   *)
(* pool member, a job) whose state is its version; pages and jobs change   *)
(* it outside the lock the agents share.                                   *)
(***************************************************************************)
EXTENDS Integers, FiniteSets

CONSTANTS
    Proposals,      \* ids agent_confirmation may hand out
    Requests,       \* tool calls and HTTP requests, one transaction each
    Tools,          \* the domain write tools that are used
    VersionBound,   \* bound on the changes of the target
    Disturbances    \* bound on writers outside the lock and broken sessions

\* DOMAIN_WRITE_TOOLS: the tools approveConfirmation has an executor for.
Registered == {"portfolio_write", "pool_onboard", "pool_write", "job_write"}
\* The tools that never ask.
Direct == {"finalize_backtest"}
AllTools == Registered \cup Direct \cup {"memory_write", "position_entry_signal_write"}

ASSUME ConfirmationsAssumption ==
    /\ Proposals \subseteq Nat /\ Tools \subseteq AllTools
    /\ VersionBound \in Nat /\ Disturbances \in Nat
    /\ "nobody" \notin Requests

VARIABLES
    \* agent_confirmation: status, tool, expected_state_hash, age over 24 hours
    confirmation,
    \* the target: its version, who has locked its rows
    version, targetLock,
    \* the advisory lock of the agents, the lock of each proposal's row
    mutex, rowLock,
    \* a request: kind, step, proposal, tool, whether YOLO is on, and its
    \* snapshot: the version and the status of the proposal
    request,
    disturbances,
    \* history: how often the write of a proposal was done and on what
    \* version, the decision its session was told, its audited decisions
    done, doneOn, announced, audited

locks == <<targetLock, mutex, rowLock>>
record == <<done, doneOn, announced, audited>>
confirmationVars == <<confirmation, version, locks, request, disturbances, record>>

NoRequest == "nobody"
ProposalStatus == {"absent", "pending", "approved", "rejected", "expired"}
RequestKinds == {"none", "write", "approve", "reject"}
RequestSteps == {"idle", "expire", "begin", "row", "mutex", "execute", "commit", "announce", "end"}
Fresh == [status |-> "absent", tool |-> "pool_write", expected |-> 0, aged |-> FALSE]
Idle == [kind |-> "none", step |-> "idle", p |-> 0, tool |-> "pool_write",
         writes |-> FALSE, sawVersion |-> 0, sawStatus |-> "absent"]

ConfirmationsInit ==
    /\ confirmation = [p \in Proposals |-> Fresh]
    /\ version = 0 /\ targetLock = NoRequest /\ mutex = NoRequest
    /\ rowLock = [p \in Proposals |-> NoRequest]
    /\ request = [r \in Requests |-> Idle]
    /\ disturbances = 0
    /\ done = [p \in Proposals |-> 0] /\ doneOn = [p \in Proposals |-> 0]
    /\ announced = [p \in Proposals |-> "absent"]
    /\ audited = [p \in Proposals |-> 0]

At(r, kind, step) == request[r].kind = kind /\ request[r].step = step
Move(r, step) == request' = [request EXCEPT ![r].step = step]

Disturb ==
    /\ disturbances < Disturbances
    /\ disturbances' = disturbances + 1

\* Mutant: the row of the proposal stays locked.
LocksReleasedButRow(r) ==
    /\ targetLock' = IF targetLock = r THEN NoRequest ELSE targetLock
    /\ mutex' = IF mutex = r THEN NoRequest ELSE mutex
    /\ UNCHANGED rowLock

\* What a transaction lets go of when it ends, either way.
LocksReleased(r) ==
    /\ targetLock' = IF targetLock = r THEN NoRequest ELSE targetLock
    /\ mutex' = IF mutex = r THEN NoRequest ELSE mutex
    /\ rowLock' = [p \in Proposals |-> IF rowLock[p] = r THEN NoRequest ELSE rowLock[p]]

\* ROLLBACK and client.release, whatever went wrong; the caller gets an error.
RollsBack(r) ==
    /\ LocksReleased(r) /\ Move(r, "end")
    /\ UNCHANGED <<confirmation, version, disturbances, record>>

\* A lock wait of two seconds, a lost connection, a failed statement.
Breaks(r) ==
    /\ request[r].step \in {"expire", "row", "mutex", "execute", "commit"}
    /\ Disturb /\ LocksReleased(r) /\ Move(r, "end")
    /\ UNCHANGED <<confirmation, version, record>>

-----------------------------------------------------------------------------
(* Requests arrive.                                                        *)

\* settings.yolo_mode, or a tool that never asks.
WritesAtOnce(tool, yolo) == yolo \/ tool \in Direct

\* (As many calls as there are ids.)
CallTool(r) ==
    /\ At(r, "none", "idle")
    /\ Cardinality({q \in Requests : request[q].kind = "write"}) < Cardinality(Proposals)
    /\ \E tool \in Tools, yolo \in BOOLEAN :
          request' = [request EXCEPT ![r] = [Idle EXCEPT !.kind = "write", !.step = "begin",
                          !.tool = tool, !.writes = WritesAtOnce(tool, yolo)]]
    /\ UNCHANGED <<confirmation, version, locks, disturbances, record>>

Decide(r, kind, p) ==
    /\ At(r, "none", "idle") /\ confirmation[p].status # "absent"
    /\ request' = [request EXCEPT ![r] = [Idle EXCEPT !.kind = kind, !.step = "expire", !.p = p]]
    /\ UNCHANGED <<confirmation, version, locks, disturbances, record>>

\* Mutant: a decided proposal expires too.
ExpiresAnyhow(p) == confirmation[p].aged

\* expireStaleConfirmations: the proposals over their TTL.
Expires(p) == confirmation[p].status = "pending" /\ confirmation[p].aged

(* The UPDATE that expires waits for rows a decision has locked and looks  *)
(* at them again afterwards.                                               *)
ExpireStale(r) ==
    /\ request[r].step = "expire"
    /\ \A p \in Proposals : Expires(p) => rowLock[p] = NoRequest
    /\ confirmation' = [p \in Proposals |->
          IF Expires(p) THEN [confirmation[p] EXCEPT !.status = "expired"]
          ELSE confirmation[p]]
    /\ Move(r, "begin")
    /\ UNCHANGED <<version, locks, disturbances, record>>

-----------------------------------------------------------------------------
(* withAgentMutationLock and the tool call in it.                          *)

\* BEGIN; the first statement, which asks for the lock, fixes the snapshot.
BeginWrite(r) ==
    /\ At(r, "write", "begin")
    /\ request' = [request EXCEPT ![r].step = "mutex", ![r].sawVersion = version]
    /\ UNCHANGED <<confirmation, version, locks, disturbances, record>>

\* pg_try_advisory_xact_lock: there is no waiting for it.
TakeMutex(r) ==
    /\ request[r].step = "mutex" /\ mutex = NoRequest
    /\ mutex' = r
    /\ Move(r, IF request[r].kind = "write" /\ ~request[r].writes THEN "commit" ELSE "execute")
    /\ UNCHANGED <<confirmation, version, targetLock, rowLock, disturbances, record>>

MutexBusy(r) == request[r].step = "mutex" /\ mutex # NoRequest /\ RollsBack(r)

\* The proposal carries the hash of what the preview saw in its snapshot.
CommitProposal(r) ==
    /\ At(r, "write", "commit") /\ ~request[r].writes
    /\ \E p \in Proposals :
          /\ \A q \in Proposals : confirmation[q].status = "absent" <=> q >= p
          /\ confirmation' = [confirmation EXCEPT ![p] =
                [Fresh EXCEPT !.status = "pending", !.tool = request[r].tool,
                              !.expected = request[r].sawVersion]]
    /\ LocksReleased(r) /\ Move(r, "end")
    /\ UNCHANGED <<version, disturbances, record>>

CommitDirectWrite(r) ==
    /\ At(r, "write", "commit") /\ request[r].writes /\ version < VersionBound
    /\ version' = version + 1
    /\ LocksReleased(r) /\ Move(r, "end")
    /\ UNCHANGED <<confirmation, disturbances, record>>

-----------------------------------------------------------------------------
(* approveConfirmation.                                                    *)

\* SELECT ... FOR UPDATE begins: its snapshot is the transaction's.
BeginApproval(r) ==
    /\ At(r, "approve", "begin")
    /\ request' = [request EXCEPT ![r].step = "row", ![r].sawVersion = version,
                                  ![r].sawStatus = confirmation[request[r].p].status]
    /\ UNCHANGED <<confirmation, version, locks, disturbances, record>>

\* Mutant: the status the caller saw is not asked for again.
MayApproveAgain(p) == confirmation[p].tool \in Registered

\* The checks made under the lock of the row.
MayApprove(p) == confirmation[p].status = "pending" /\ confirmation[p].tool \in Registered

\* The row is free, has not changed since the snapshot, and may be approved.
LockForApproval(r) ==
    LET p == request[r].p IN
    /\ At(r, "approve", "row") /\ rowLock[p] = NoRequest
    /\ confirmation[p].status = request[r].sawStatus /\ MayApprove(p)
    /\ rowLock' = [rowLock EXCEPT ![p] = r] /\ Move(r, "mutex")
    /\ UNCHANGED <<confirmation, version, targetLock, mutex, disturbances, record>>

\* 40001, or a conflict, or no executor for the tool.
ApprovalRefused(r) ==
    LET p == request[r].p IN
    /\ At(r, "approve", "row") /\ rowLock[p] = NoRequest
    /\ confirmation[p].status = request[r].sawStatus => ~MayApprove(p)
    /\ RollsBack(r)

\* Mutant: the hash of the proposal is not compared.
MatchesAlways(r) == TRUE

\* expectedStateHash: what the user was shown is what the snapshot holds; a
\* direct write compares with the preview of its own snapshot.
Matches(r) ==
    request[r].kind = "approve" => confirmation[request[r].p].expected = request[r].sawVersion

\* Mutant: the rows are locked though they changed after the snapshot.
UnchangedAlways(r) == TRUE

\* A row changed after the snapshot cannot be locked (40001).
UnchangedSinceSnapshot(r) == version = request[r].sawVersion

\* executeDomainWriteInTransaction locks the target's rows and compares.
Execute(r) ==
    /\ request[r].step = "execute" /\ targetLock = NoRequest
    /\ UnchangedSinceSnapshot(r) /\ Matches(r)
    /\ targetLock' = r /\ Move(r, "commit")
    /\ UNCHANGED <<confirmation, version, mutex, rowLock, disturbances, record>>

\* DomainWriteConflictError or 40001: nothing is written.
ExecutionRefused(r) ==
    /\ request[r].step = "execute" /\ targetLock = NoRequest
    /\ ~(UnchangedSinceSnapshot(r) /\ Matches(r))
    /\ RollsBack(r)

\* The write, the new status and the audit are one commit; afterwards the
\* session is told.
CommitApproval(r) ==
    LET p == request[r].p IN
    /\ At(r, "approve", "commit") /\ version < VersionBound
    /\ version' = version + 1
    /\ confirmation' = [confirmation EXCEPT ![p].status = "approved"]
    /\ done' = [done EXCEPT ![p] = @ + 1]
    /\ doneOn' = [doneOn EXCEPT ![p] = version]
    /\ audited' = [audited EXCEPT ![p] = @ + 1]
    /\ LocksReleased(r) /\ Move(r, "announce")
    /\ UNCHANGED <<disturbances, announced>>

-----------------------------------------------------------------------------
(* rejectConfirmation: READ COMMITTED, so the row is looked at when it is  *)
(* free.                                                                   *)

BeginRejection(r) ==
    /\ At(r, "reject", "begin") /\ Move(r, "row")
    /\ UNCHANGED <<confirmation, version, locks, disturbances, record>>

LockForRejection(r) ==
    LET p == request[r].p IN
    /\ At(r, "reject", "row") /\ rowLock[p] = NoRequest
    /\ confirmation[p].status = "pending"
    /\ rowLock' = [rowLock EXCEPT ![p] = r] /\ Move(r, "commit")
    /\ UNCHANGED <<confirmation, version, targetLock, mutex, disturbances, record>>

RejectionRefused(r) ==
    /\ At(r, "reject", "row") /\ rowLock[request[r].p] = NoRequest
    /\ confirmation[request[r].p].status # "pending"
    /\ RollsBack(r)

CommitRejection(r) ==
    LET p == request[r].p IN
    /\ At(r, "reject", "commit")
    /\ confirmation' = [confirmation EXCEPT ![p].status = "rejected"]
    /\ audited' = [audited EXCEPT ![p] = @ + 1]
    /\ LocksReleased(r) /\ Move(r, "announce")
    /\ UNCHANGED <<version, disturbances, done, doneOn, announced>>

\* Mutant: the session is told what was asked for.
DecisionAskedFor(r) == IF request[r].kind = "reject" THEN "approved" ELSE "rejected"

\* persistAndPublishSessionEvent, outside the transaction ...
Decision(r) == IF request[r].kind = "approve" THEN "approved" ELSE "rejected"

AnnounceOutcome(r) ==
    /\ request[r].step = "announce"
    /\ announced' = [announced EXCEPT ![request[r].p] = Decision(r)]
    /\ Move(r, "end")
    /\ UNCHANGED <<confirmation, version, locks, disturbances, done, doneOn, audited>>

\* ... so that it can be lost though the decision stands.
AnnouncementLost(r) ==
    /\ request[r].step = "announce" /\ Disturb /\ Move(r, "end")
    /\ UNCHANGED <<confirmation, version, locks, record>>

-----------------------------------------------------------------------------
(* The world: a page or a job changes the target without the agents' lock, *)
(* a day passes.                                                           *)

OutsideWrite ==
    /\ targetLock = NoRequest /\ version < VersionBound /\ Disturb
    /\ version' = version + 1
    /\ UNCHANGED <<confirmation, locks, request, record>>

DayPasses(p) ==
    /\ confirmation[p].status # "absent" /\ ~confirmation[p].aged /\ Disturb
    /\ confirmation' = [confirmation EXCEPT ![p].aged = TRUE]
    /\ UNCHANGED <<version, locks, request, record>>

\* What a request does by itself once it has arrived.
RequestStep(r) ==
    \/ ExpireStale(r) \/ BeginWrite(r) \/ TakeMutex(r) \/ MutexBusy(r)
    \/ CommitProposal(r) \/ CommitDirectWrite(r) \/ BeginApproval(r)
    \/ LockForApproval(r) \/ ApprovalRefused(r) \/ Execute(r)
    \/ ExecutionRefused(r) \/ CommitApproval(r) \/ BeginRejection(r)
    \/ LockForRejection(r) \/ RejectionRefused(r) \/ CommitRejection(r) \/ AnnounceOutcome(r)

ConfirmationsNext ==
    \/ \E r \in Requests : CallTool(r) \/ RequestStep(r) \/ Breaks(r) \/ AnnouncementLost(r)
    \/ \E r \in Requests, kind \in {"approve", "reject"}, p \in Proposals : Decide(r, kind, p)
    \/ OutsideWrite
    \/ \E p \in Proposals : DayPasses(p)

ConfirmationsSpec == ConfirmationsInit /\ [][ConfirmationsNext]_confirmationVars

-----------------------------------------------------------------------------
(* Properties.                                                             *)

ProposalType == [status : ProposalStatus, tool : AllTools, expected : 0..VersionBound, aged : BOOLEAN]
RequestType ==
    [kind : RequestKinds, step : RequestSteps, p : Proposals \cup {0}, tool : AllTools,
     writes : BOOLEAN, sawVersion : 0..VersionBound, sawStatus : ProposalStatus]

\* Every variable keeps its type.
ConfirmationsTypeOK ==
    /\ confirmation \in [Proposals -> ProposalType]
    /\ version \in 0..VersionBound /\ disturbances \in 0..Disturbances
    /\ {targetLock, mutex} \subseteq Requests \cup {NoRequest}
    /\ rowLock \in [Proposals -> Requests \cup {NoRequest}]
    /\ request \in [Requests -> RequestType]
    /\ done \in [Proposals -> Nat] /\ doneOn \in [Proposals -> 0..VersionBound]
    /\ announced \in [Proposals -> ProposalStatus] /\ audited \in [Proposals -> Nat]

\* The write of a proposal is done once if it was approved and never if it
\* was not, and each decision of a user is audited once.
DoneIffApproved ==
    \A p \in Proposals :
        /\ done[p] = IF confirmation[p].status = "approved" THEN 1 ELSE 0
        /\ audited[p] = IF confirmation[p].status \in {"approved", "rejected"} THEN 1 ELSE 0

\* An approved write changed exactly the state the user had been shown, though
\* pages, jobs and other conversations write between proposal and approval.
ApprovedAsShown ==
    \A p \in Proposals : done[p] > 0 => doneOn[p] = confirmation[p].expected

\* A session is never told a decision that was not made.
AnnouncedWasDecided ==
    \A p \in Proposals : announced[p] # "absent" => announced[p] = confirmation[p].status

\* A decision is for good: approved, rejected and expired proposals keep their
\* status and no write of theirs comes later.
DecisionIsFinal ==
    [][\A p \in Proposals : confirmation[p].status \in {"approved", "rejected", "expired"}
         => confirmation'[p].status = confirmation[p].status /\ done'[p] = done[p]]_confirmationVars

\* Every request has come to its end: this is so again and again, as nobody
\* waits for ever for a row or a lock.
NoRequestIsLeft == \A r \in Requests : request[r].kind = "none" \/ request[r].step = "end"

\* The user can approve what is waiting for him: its tool has an executor.
PendingCanBeApproved ==
    \A p \in Proposals : confirmation[p].status = "pending" => confirmation[p].tool \in Registered

\* The write of a proposal is done once if and only if it was approved, on
\* exactly the state that was shown; a session is told what was decided, and a
\* decision is for good.
ApprovalsAreHonest ==
    /\ [](DoneIffApproved /\ ApprovedAsShown /\ AnnouncedWasDecided)
    /\ DecisionIsFinal

=============================================================================
