-------------------------- MODULE GovernedActions --------------------------
(***************************************************************************)
(* One agent proposal from draft to executed action: ProposalService,      *)
(* ApprovalService and ControlledActionService of nerve-agent-platform     *)
(* over FileGovernanceStore and InMemoryExecutionReceiptStore.             *)
(*                                                                         *)
(* The store reads and replaces whole rows, each atomically; a handler     *)
(* works on the copies it read and awaits between them, so it is a job     *)
(* with a step for every await that matters.  Audit events are left out.   *)
(* The actions modelled are those whose policy needs an approval.  A crash *)
(* loses the jobs and, with the process's memory, the claims; the file of  *)
(* proposals and approvals and the envelopes handed out remain.            *)
(***************************************************************************)
EXTENDS Integers, Sequences, FiniteSets, FiniteSetsExt

CONSTANTS Person,       \* who may decide
          RolesOf,      \* the roles of each person
          RoleSets,     \* the policy's requiredRoleSets
          ApprovalId, Key,
          Job,          \* handlers running at once
          None,
          Lifetime,     \* the proposal's expiresAt
          Window,       \* the policy's expiresAfterMinutes
          MaxTime,      \* bound: the last instant
          MaxCrashes    \* bound: crashes of the process

ASSUME PolicyAssumption ==
    /\ RolesOf \in [Person -> SUBSET UNION {RoleSets[i] : i \in DOMAIN RoleSets}]
    /\ RoleSets \in Seq(UNION {SUBSET RoleSets[i] : i \in DOMAIN RoleSets})
    /\ RoleSets # <<>>
    /\ {Lifetime, Window, MaxTime, MaxCrashes} \subseteq Nat

VARIABLES now,
          fresh,      \* facts and evidence are still those of the finding
          proposal,   \* the status of the proposal's row
          approvals,  \* the approval rows
          envelopes,  \* approvals for which an envelope was prepared
          claims,     \* the execution receipts, by idempotency key
          effects,    \* times the source application acted, by key, since
                      \* the process started
          acts,       \* times it ever acted, by approval
          job,        \* the handlers in progress
          crashes,
          torn,       \* approvals whose execution a crash cut off between the
                      \* call and the consumption (history)
          raced       \* history: see the properties

vars == <<now, fresh, proposal, approvals, envelopes, claims, effects, acts, job, crashes,
          torn, raced>>
rows == <<proposal, approvals>>
world == <<now, fresh, crashes, acts, torn>>

ProposalStatus == {"DRAFT", "PENDING", "APPROVED", "REJECTED", "STALE", "EXPIRED"}
ApprovalStatus == (ProposalStatus \ {"DRAFT"}) \cup {"CONSUMED"}
\* FAILED stands for REJECTED too.
Outcome == {"SUCCEEDED", "FAILED", "UNKNOWN"}
Decision == [by : Person, say : {"APPROVE", "REJECT"}]
Approval == [status : ApprovalStatus, decisions : SUBSET Decision, expires : Nat]
Claim == [approval : ApprovalId, receipt : Outcome \cup {None}]

\* A handler in progress: what it does next, its input and what it has read.
Work == [step : {"mark", "save",
                 "decide", "prepare", "staleProposal", "staleApproval",
                 "writeApproval", "writeProposal",
                 "expireProposal", "list", "expire",
                 "validate", "call", "complete", "consume", "consumed"},
         approval : ApprovalId \cup {None}, decision : Decision \cup {None},
         current : BOOLEAN, key : Key \cup {None},
         seen : Approval \cup {None}, old : Approval \cup {None},
         listed : SUBSET [approval : ApprovalId, row : Approval],
         status : ProposalStatus \cup {None},
         outcome : Outcome \cup {None}]

ASSUME NoneAssumption ==
    /\ None \notin ApprovalId /\ None \notin Key /\ None \notin Decision
    /\ None \notin Approval /\ None \notin Claim /\ None \notin Work
    /\ None \notin ProposalStatus /\ None \notin Outcome

TypeOK == /\ now \in 0..MaxTime /\ fresh \in BOOLEAN
          /\ proposal \in ProposalStatus \cup {None}
          /\ approvals \in [ApprovalId -> Approval \cup {None}]
          /\ envelopes \in SUBSET ApprovalId
          /\ claims \in [Key -> Claim \cup {None}]
          /\ effects \in [Key -> Nat]
          /\ acts \in [ApprovalId -> Nat]
          /\ job \in [Job -> Work \cup {None}]
          /\ crashes \in 0..MaxCrashes
          /\ torn \in SUBSET ApprovalId /\ raced \in BOOLEAN

Init == /\ now = 0 /\ fresh = TRUE /\ proposal = None
        /\ approvals = [a \in ApprovalId |-> None]
        /\ envelopes = {} /\ claims = [k \in Key |-> None]
        /\ effects = [k \in Key |-> 0]
        /\ acts = [a \in ApprovalId |-> 0]
        /\ job = [j \in Job |-> None]
        /\ crashes = 0 /\ torn = {} /\ raced = FALSE

-----------------------------------------------------------------------------
NewWork == [step |-> "mark", approval |-> None, decision |-> None, current |-> TRUE,
            key |-> None, seen |-> None, old |-> None, listed |-> {},
            status |-> None, outcome |-> None]

Start(j, work) == job[j] = None /\ job' = [job EXCEPT ![j] = work]
At(j, step) == job[j] # None /\ job[j].step = step
Go(j, work) == job' = [job EXCEPT ![j] = work]
Then(j, step) == Go(j, [job[j] EXCEPT !.step = step])
Done(j) == job' = [job EXCEPT ![j] = None]

\* updateApproval replaces the row that was read by the handler's copy,
\* whatever the store holds now.
Write(a, old, row) == /\ approvals' = [approvals EXCEPT ![a] = row]
                      /\ raced' = (raced \/ approvals[a] # old)
WriteApproval(j, row) == Write(job[j].approval, job[j].old, row)

-----------------------------------------------------------------------------
(* Proposing, requesting approval, expiring.                               *)
Create == /\ proposal = None /\ now < Lifetime
          /\ proposal' = "DRAFT"
          /\ UNCHANGED <<world, approvals, envelopes, claims, effects, job, raced>>

\* ApprovalService.request reads the draft ...
RequestApproval(j, a) ==
    /\ proposal = "DRAFT" /\ now < Lifetime
    /\ approvals[a] = None /\ \A i \in Job : job[i] # None => job[i].approval # a
    /\ Start(j, [NewWork EXCEPT !.approval = a,
                   !.seen = [status |-> "PENDING", decisions |-> {},
                             expires |-> Min({Lifetime, now + Window})]])
    /\ UNCHANGED <<world, rows, envelopes, claims, effects, raced>>

\* ... marks the proposal ...
MarkPending(j) ==
    /\ At(j, "mark")
    /\ proposal' = "PENDING" /\ raced' = (raced \/ proposal # "DRAFT")
    /\ Then(j, "save")
    /\ UNCHANGED <<world, approvals, envelopes, claims, effects>>

\* ... and stores the new approval.
SaveApproval(j) ==
    /\ At(j, "save")
    /\ approvals' = [approvals EXCEPT ![job[j].approval] = job[j].seen]
    /\ Done(j)
    /\ UNCHANGED <<world, proposal, envelopes, claims, effects, raced>>

\* ProposalService.expire writes the proposal it listed, then lists its open
\* approvals and writes them one by one.
Expire(j) ==
    /\ proposal \in {"DRAFT", "PENDING", "APPROVED"} /\ now >= Lifetime
    /\ Start(j, [NewWork EXCEPT !.step = "expireProposal", !.status = proposal])
    /\ UNCHANGED <<world, rows, envelopes, claims, effects, raced>>

ExpireProposal(j) ==
    /\ At(j, "expireProposal")
    /\ proposal' = "EXPIRED" /\ raced' = (raced \/ proposal # job[j].status)
    /\ Then(j, "list")
    /\ UNCHANGED <<world, approvals, envelopes, claims, effects>>

ListApprovals(j) ==
    LET open == {a \in ApprovalId : /\ approvals[a] # None
                                    /\ approvals[a].status \in {"PENDING", "APPROVED"}} IN
    /\ At(j, "list")
    /\ IF open = {} THEN Done(j)
       ELSE Go(j, [job[j] EXCEPT !.step = "expire",
                     !.listed = {[approval |-> a, row |-> approvals[a]] : a \in open}])
    /\ UNCHANGED <<world, rows, envelopes, claims, effects, raced>>

ExpireApproval(j) ==
    /\ At(j, "expire")
    /\ \E x \in job[j].listed :
         /\ Write(x.approval, x.row, [x.row EXCEPT !.status = "EXPIRED"])
         /\ IF job[j].listed = {x} THEN Done(j)
            ELSE Go(j, [job[j] EXCEPT !.listed = @ \ {x}])
    /\ UNCHANGED <<world, proposal, envelopes, claims, effects>>

-----------------------------------------------------------------------------
(* Deciding and preparing.                                                 *)

\* decide and prepareExecution read the approval ...
ReadApproval(j, a, step, d) ==
    /\ approvals[a] # None
    /\ Start(j, [NewWork EXCEPT !.step = step, !.approval = a, !.decision = d,
                   !.current = fresh, !.seen = approvals[a], !.old = approvals[a]])
    /\ UNCHANGED <<world, rows, envelopes, claims, effects, raced>>

Decide(j, a, d) == ReadApproval(j, a, "decide", d)
Prepare(j, a) == ReadApproval(j, a, "prepare", None)

Approvers(row) == {d.by : d \in {e \in row.decisions : e.say = "APPROVE"}}
Covers(who, i) == RolesOf[who] \cap RoleSets[i] # {}
\* The role sets of the policy that no approver covers yet.
Remaining(row) ==
    {i \in DOMAIN RoleSets : \A who \in Approvers(row) : ~Covers(who, i)}

\* Each person decides once, for a role set nobody has approved for.
Eligible(row, who) == /\ \A d \in row.decisions : d.by # who
                      /\ \E i \in Remaining(row) : Covers(who, i)

\* An approval that still waits for decisions.
Open(row, status) == /\ row.status = "PENDING" /\ status = "PENDING"
                     /\ now < row.expires /\ now < Lifetime

\* Slip: one approval is enough.
SlipFullyApproved(row) == Approvers(row) # {}

\* As many approvals as the policy has role sets.
FullyApproved(row) == Cardinality(Approvers(row)) >= Len(RoleSets)

\* The row with one decision more.
Decided(row, d) ==
    LET more == [row EXCEPT !.decisions = @ \cup {d}] IN
    IF d.say = "REJECT" THEN [more EXCEPT !.status = "REJECTED"]
    ELSE IF FullyApproved(more) THEN [more EXCEPT !.status = "APPROVED"] ELSE more

\* ... then the proposal.  assertCurrent marks both stale when the facts have
\* changed; otherwise the decision is taken on the copies.
ReadProposalAndDecide(j) ==
    LET w == job[j] IN
    /\ At(j, "decide")
    /\ \/ ~w.current /\ Go(j, [w EXCEPT !.step = "staleProposal", !.status = proposal,
                                       !.decision = None])
       \/ /\ w.current /\ Open(w.seen, proposal) /\ Eligible(w.seen, w.decision.by)
          /\ Go(j, [w EXCEPT !.step = "writeApproval", !.status = proposal, !.decision = None,
                      !.seen = Decided(w.seen, w.decision)])
       \/ /\ w.current /\ ~(Open(w.seen, proposal) /\ Eligible(w.seen, w.decision.by))
          /\ Done(j)
    /\ UNCHANGED <<world, rows, envelopes, claims, effects, raced>>

\* An approval complete and in time.
Usable(row, status) == /\ row.status = "APPROVED" /\ status = "APPROVED"
                       /\ now < row.expires /\ now < Lifetime

\* prepareExecution: the same checks, then the source revalidates.
ReadProposalAndPrepare(j) ==
    LET w == job[j] IN
    /\ At(j, "prepare")
    /\ \/ /\ ~w.current
          /\ Go(j, [w EXCEPT !.step = "staleProposal", !.status = proposal, !.decision = None])
          /\ UNCHANGED envelopes
       \/ /\ w.current /\ Done(j)
          /\ \/ Usable(w.seen, proposal) /\ envelopes' = envelopes \cup {w.approval}
             \/ UNCHANGED envelopes
    /\ UNCHANGED <<world, rows, claims, effects, raced>>

StaleProposal(j) ==
    /\ At(j, "staleProposal")
    /\ proposal' = "STALE" /\ raced' = (raced \/ proposal # job[j].status)
    /\ Then(j, "staleApproval")
    /\ UNCHANGED <<world, approvals, envelopes, claims, effects>>

StaleApproval(j) ==
    /\ At(j, "staleApproval")
    /\ WriteApproval(j, [job[j].seen EXCEPT !.status = "STALE"])
    /\ Done(j)
    /\ UNCHANGED <<world, proposal, envelopes, claims, effects>>

WriteDecision(j) ==
    /\ At(j, "writeApproval")
    /\ WriteApproval(j, job[j].seen)
    /\ Go(j, [job[j] EXCEPT !.step = "writeProposal", !.old = None])
    /\ UNCHANGED <<world, proposal, envelopes, claims, effects>>

\* The proposal takes the status of the approval.
WriteProposal(j) ==
    /\ At(j, "writeProposal")
    /\ proposal' = job[j].seen.status
    /\ raced' = (raced \/ proposal # job[j].status)
    /\ Done(j)
    /\ UNCHANGED <<world, approvals, envelopes, claims, effects>>

-----------------------------------------------------------------------------
(* Executing.                                                              *)

\* Slip: a claim without a receipt is taken for a free one.
SlipMayClaim(k, a) == claims[k] \in {None} \cup [approval : ApprovalId, receipt : {None}]

\* Replay, conflict and "in progress" change nothing.
MayClaim(k, a) == claims[k] = None

ClaimKey(j, k, a) ==
    /\ a \in envelopes /\ MayClaim(k, a)
    /\ claims' = [claims EXCEPT ![k] = [approval |-> a, receipt |-> None]]
    /\ Start(j, [NewWork EXCEPT !.step = "validate", !.approval = a, !.key = k])
    /\ UNCHANGED <<world, rows, envelopes, effects, raced>>

\* Another execution of this approval has been validated and not yet consumed it.
Spending(j) == \E i \in Job \ {j} : /\ job[i] # None /\ job[i].approval = job[j].approval
                                    /\ job[i].step \in {"call", "complete", "consume", "consumed"}

\* validateApproval comes after the claim: a refusal leaves the key claimed.
Validate(j) ==
    LET row == approvals[job[j].approval] IN
    /\ At(j, "validate")
    /\ \/ /\ Usable(row, proposal)
          /\ Go(j, [job[j] EXCEPT !.step = "call", !.seen = row])
          /\ raced' = (raced \/ Spending(j))
       \/ ~Usable(row, proposal) /\ Done(j) /\ UNCHANGED raced
    /\ UNCHANGED <<world, rows, envelopes, claims, effects>>

\* The source authorizes, reloads, validates and acts, or does not, or fails
\* so that nobody knows.  It may have acted though the outcome is a failure: a
\* success that does not attest a required check is turned into REJECTED.
Call(j) ==
    /\ At(j, "call")
    /\ \E out \in Outcome :
         /\ Go(j, [job[j] EXCEPT !.step = "complete", !.outcome = out, !.seen = None])
         /\ \/ /\ effects' = [effects EXCEPT ![job[j].key] = @ + 1]
               /\ acts' = [acts EXCEPT ![job[j].approval] = @ + 1]
            \/ out # "SUCCEEDED" /\ UNCHANGED <<effects, acts>>
    /\ UNCHANGED <<now, fresh, crashes, torn, rows, envelopes, claims, raced>>

Complete(j) ==
    /\ At(j, "complete")
    /\ claims' = [claims EXCEPT ![job[j].key].receipt = job[j].outcome]
    /\ Then(j, "consume")
    /\ UNCHANGED <<world, rows, envelopes, effects, raced>>

\* The approval is read once more and written back as consumed.
ConsumeRead(j) ==
    LET row == approvals[job[j].approval] IN
    /\ At(j, "consume")
    /\ Go(j, [job[j] EXCEPT !.step = "consumed", !.seen = row, !.old = row])
    /\ UNCHANGED <<world, rows, envelopes, claims, effects, raced>>

\* Slip: only a successful action spends its approval.
SlipSpent(j) == IF job[j].outcome = "SUCCEEDED"
                THEN [job[j].seen EXCEPT !.status = "CONSUMED"] ELSE job[j].seen

Spent(j) == [job[j].seen EXCEPT !.status = "CONSUMED"]

Consume(j) ==
    /\ At(j, "consumed")
    /\ WriteApproval(j, Spent(j))
    /\ Done(j)
    /\ UNCHANGED <<world, proposal, envelopes, claims, effects>>

-----------------------------------------------------------------------------
\* An execution has called the source and not consumed its approval yet.
Unsettled(j) == job[j] # None /\ job[j].step \in {"complete", "consume", "consumed"}

\* The process dies: its handlers and its map of receipts are gone.
Crash == /\ crashes < MaxCrashes /\ \E j \in Job : job[j] # None
         /\ crashes' = crashes + 1
         /\ torn' = torn \cup {job[j].approval : j \in {i \in Job : Unsettled(i)}}
         /\ job' = [j \in Job |-> None]
         /\ claims' = [k \in Key |-> None]
         /\ effects' = [k \in Key |-> 0]
         /\ UNCHANGED <<now, fresh, rows, envelopes, acts, raced>>

FactsChange == fresh /\ fresh' = FALSE
               /\ UNCHANGED <<now, crashes, acts, torn, rows, envelopes, claims, effects, job,
                              raced>>
Tick == now < MaxTime /\ now' = now + 1
        /\ UNCHANGED <<fresh, crashes, acts, torn, rows, envelopes, claims, effects, job, raced>>

Step(j) == \/ MarkPending(j) \/ SaveApproval(j)
           \/ ExpireProposal(j) \/ ListApprovals(j) \/ ExpireApproval(j)
           \/ ReadProposalAndDecide(j) \/ ReadProposalAndPrepare(j)
           \/ StaleProposal(j) \/ StaleApproval(j)
           \/ WriteDecision(j) \/ WriteProposal(j)
           \/ Validate(j) \/ Call(j) \/ Complete(j) \/ ConsumeRead(j) \/ Consume(j)

Next == \/ Create \/ FactsChange \/ Tick \/ Crash
        \/ \E j \in Job : Step(j) \/ Expire(j)
        \/ \E j \in Job, a \in ApprovalId : RequestApproval(j, a) \/ Prepare(j, a)
        \/ \E j \in Job, a \in ApprovalId, d \in Decision : Decide(j, a, d)
        \/ \E j \in Job, a \in ApprovalId, k \in Key : ClaimKey(j, k, a)

Spec == Init /\ [][Next]_vars

-----------------------------------------------------------------------------
(* Properties.                                                             *)

\* However executions of one key overlap, fail or are retried, the source acts
\* at most once for it in one life of the process, in whose memory the claims
\* are (claim() in execution-store.ts).
ActsOncePerKey == \A k \in Key : effects[k] <= 1

\* Whoever overwrites whom, an approval that counts as approved, and one an
\* execution relies on, carries an approver for every role set of its policy,
\* as many people as there are role sets, and no rejection (decide()).
Backed(row) == /\ Remaining(row) = {}
               /\ Cardinality(Approvers(row)) >= Len(RoleSets)
               /\ \A d \in row.decisions : d.say # "REJECT"
EveryRoleApproved ==
    /\ TypeOK
    /\ \A a \in ApprovalId :
         approvals[a] # None /\ approvals[a].status = "APPROVED" => Backed(approvals[a])
    /\ \A j \in Job : At(j, "call") => Backed(job[j].seen)

\* raced: a row was overwritten that had changed since it was read, or two
\* executions of one approval were in flight after their validation.  Without
\* these the source acts once on an approval, under whatever keys, whatever the
\* outcome and however often the process dies, unless it dies between the call
\* and the consumption that ends execute(): then the claim is forgotten while
\* the approval still stands, and the same request acts again.
SpentTwiceOnlyInRace ==
    ~raced => \A a \in ApprovalId \ torn : acts[a] <= 1
=============================================================================
