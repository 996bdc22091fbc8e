----------------------------- MODULE NerveProofs -----------------------------
(***************************************************************************)
(* Nerve.  Of controlled actions: that a key acts once in one life of the  *)
(* process, that an approval which counts carries an approver for every    *)
(* role set, and that the source acts twice on it only in a race or after  *)
(* a crash between the call and the consumption, for any people, roles,    *)
(* policies, approvals, keys and handlers.  Of business events: that a     *)
(* released event is queued once, and that the store hands over an ordered *)
(* stream (OrderedStream), for any events, however they are numbered.      *)
(***************************************************************************)
EXTENDS GovernedActions, NerveEvents, FiniteSetTheorems, WellFoundedInduction, TLAPS

Asking == {"mark", "save"}
InFlight == {"call", "complete", "consume", "consumed"}
Settling == {"complete", "consume", "consumed"}
Executing == {"validate"} \cup InFlight
Acting == {"validate", "call"}
Reading == {"decide", "prepare", "staleProposal", "staleApproval",
            "writeApproval", "writeProposal", "call", "consumed"}
Listing == {"expireProposal", "list", "expire"}

\* What a handler holds by the time it is at a step.
WellRead(w) ==
    /\ w.step \notin Listing => w.approval \in ApprovalId
    /\ w.step \in Asking => /\ w.seen \in Approval
                            /\ w.seen.status = "PENDING" /\ w.seen.decisions = {}
    /\ w.step \in Reading => w.seen \in Approval
    /\ w.step = "decide" => w.decision \in Decision /\ w.old = w.seen
    /\ w.step = "writeApproval" => w.old \in Approval /\ w.old.status = "PENDING"
    /\ w.step \in {"writeApproval", "writeProposal"} =>
           w.seen.status \in {"PENDING", "APPROVED", "REJECTED"}
    /\ w.step \in Executing => w.key \in Key

WorksRead == \A j \in Job : job[j] # None => WellRead(job[j])

Shape == TypeOK /\ WorksRead

\* An approval is stored once, by the handler that asks for it, and all others
\* found it stored, and so did every execution that acted on it.
Stored(a) == approvals[a] # None
StoredOnce ==
    /\ \A a \in envelopes : Stored(a)
    /\ \A k \in Key : claims[k] # None => claims[k].approval \in envelopes
    /\ \A a \in ApprovalId : acts[a] # 0 => Stored(a)
    /\ \A j \in Job : job[j] # None =>
         /\ job[j].step \in Asking => ~Stored(job[j].approval)
         /\ job[j].step \notin Asking /\ job[j].approval # None => Stored(job[j].approval)
         /\ \A x \in job[j].listed : Stored(x.approval)
    /\ \A i, j \in Job : job[i] # None /\ job[j] # None /\ i # j
            /\ job[i].step \in Asking /\ job[j].step \in Asking
                => job[i].approval # job[j].approval

\* An execution holds its key: no other has it, and before its call nothing was
\* done for it.
KeysHeld ==
    /\ \A j \in Job : job[j] # None /\ job[j].step \in Executing =>
         /\ claims[job[j].key] # None /\ claims[job[j].key].approval = job[j].approval
         /\ job[j].step \in Acting => effects[job[j].key] = 0
    /\ \A i, j \in Job : job[i] # None /\ job[j] # None /\ i # j
            /\ job[i].step \in Executing /\ job[j].step \in Executing
                => job[i].key # job[j].key
    /\ \A k \in Key : effects[k] <= 1 /\ (claims[k] = None => effects[k] = 0)

\* Every approver covered a role set that was still open, so the approvers and
\* the open role sets together are never more than the role sets.
Sound(row) ==
    /\ IsFiniteSet(Approvers(row))
    /\ Cardinality(Remaining(row)) + Cardinality(Approvers(row)) <= Len(RoleSets)
    /\ row.status \in {"PENDING", "APPROVED"} => \A d \in row.decisions : d.say # "REJECT"
    /\ row.status = "APPROVED" => FullyApproved(row)

RowsSound ==
    /\ \A a \in ApprovalId : approvals[a] # None => Sound(approvals[a])
    /\ \A j \in Job : job[j] # None =>
         /\ job[j].seen # None => Sound(job[j].seen)
         /\ job[j].old # None => Sound(job[j].old)
         /\ \A x \in job[j].listed : Sound(x.row)
         /\ job[j].step = "call" => job[j].seen.status = "APPROVED"

\* An approval nothing can be done with any more.
Dead(a) == approvals[a].status \notin {"PENDING", "APPROVED"}
Working(j, a, steps) == job[j] # None /\ job[j].step \in steps /\ job[j].approval = a

\* Without a race an approval has one execution in flight at most.  Unless a
\* crash cut one off, nobody acted on it before that execution calls the source,
\* and once somebody did it is dead or about to be.
SpentOnce ==
    ~raced => \A a \in ApprovalId :
      /\ \A i, j \in Job : Working(i, a, InFlight) /\ Working(j, a, InFlight) => i = j
      /\ a \notin torn =>
           /\ \A j \in Job : Working(j, a, {"call"}) => acts[a] = 0
           /\ acts[a] # 0 => Dead(a) \/ \E j \in Job : Working(j, a, Settling)
           /\ acts[a] <= 1

IInv == Shape /\ StoredOnce /\ KeysHeld /\ RowsSound /\ SpentOnce

-----------------------------------------------------------------------------
(* Types.                                                                  *)

\* The earlier of two instants, as request takes it for an approval.
LEMMA EarlierOfTwo ==
  ASSUME NEW m \in Nat, NEW n \in Nat
  PROVE  Min({m, n}) \in Nat
<1>1. \E x \in {m, n} : \A y \in {m, n} : x <= y
  BY m <= n \/ n <= m
<1> QED BY <1>1 DEF Min

\* A handler changes its own work and nobody else's.
LEMMA OneMoves ==
  ASSUME NEW j \in Job, NEW w, job \in [Job -> Work \cup {None}],
         job' = [job EXCEPT ![j] = w]
  PROVE  /\ job'[j] = w
         /\ \A i \in Job : i # j => job'[i] = job[i]
         /\ w \in Work \cup {None} => job' \in [Job -> Work \cup {None}]
  OBVIOUS

\* A handler starts with everything else unread.
LEMMA NewWorkTyped == NewWork \in Work
  BY DEF NewWork, Work

\* Nothing is stored and nobody works at the start.
LEMMA InitHolds == Init => IInv
<1> SUFFICES ASSUME Init PROVE IInv
  OBVIOUS
<1>1. TypeOK
  <2>1. now \in 0..MaxTime /\ crashes \in 0..MaxCrashes
    BY PolicyAssumption DEF Init
  <2> QED BY <2>1 DEF Init, TypeOK
<1>2. WorksRead
  BY DEF Init, WorksRead
<1>3. StoredOnce /\ KeysHeld /\ RowsSound
  BY DEF Init, StoredOnce, KeysHeld, RowsSound, Stored
<1>5. SpentOnce
  BY DEF Init, SpentOnce, Working
<1> QED BY <1>1, <1>2, <1>3, <1>5 DEF IInv, Shape

\* The state keeps its type, and every handler what it has read.
LEMMA ShapeKept == IInv /\ [Next]_vars => Shape'
<1> SUFFICES ASSUME IInv, [Next]_vars PROVE Shape'
  OBVIOUS
<1> USE DEF IInv, Shape
<1>1. CASE UNCHANGED vars
  BY <1>1 DEF vars, TypeOK, WorksRead
<1>2. CASE Create
  BY <1>2 DEF Create, TypeOK, WorksRead, ProposalStatus, world
<1>3. CASE FactsChange
  BY <1>3 DEF FactsChange, TypeOK, WorksRead, ProposalStatus, rows
<1>4. CASE Tick
  BY <1>4, PolicyAssumption DEF Tick, TypeOK, WorksRead, ProposalStatus, rows
<1>5. CASE Crash
  <2>1. \A j \in Job : Unsettled(j) => job[j].approval \in ApprovalId
    BY DEF WorksRead, WellRead, Unsettled, Listing
  <2>2. torn' \in SUBSET ApprovalId /\ WorksRead'
    BY <1>5, <2>1 DEF Crash, TypeOK, WorksRead
  <2> QED BY <1>5, <2>2, PolicyAssumption DEF Crash, TypeOK, ProposalStatus, rows
<1>6. ASSUME NEW j \in Job, NEW a \in ApprovalId, RequestApproval(j, a) PROVE Shape'
  <2> DEFINE row == [status |-> "PENDING", decisions |-> {}, expires |-> Min({Lifetime, now + Window})]
             w == [NewWork EXCEPT !.approval = a, !.seen = row]
  <2>1. row \in Approval
    <3>1. Lifetime \in Nat /\ now + Window \in Nat
      BY PolicyAssumption DEF TypeOK
    <3> QED BY <3>1, EarlierOfTwo DEF Approval, ApprovalStatus, ProposalStatus
  <2>2. w \in Work
    BY <2>1, NewWorkTyped DEF Work
  <2>3. w.step = "mark" /\ w.approval = a /\ w.seen = row
    BY DEF NewWork
  <2>4. job' = [job EXCEPT ![j] = w] /\ UNCHANGED <<world, proposal, approvals, envelopes, claims, effects, raced>>
    BY <1>6 DEF RequestApproval, Start, world, rows
  <2> HIDE DEF w
  <2>5. job' \in [Job -> Work \cup {None}]
    BY <2>2, <2>4 DEF TypeOK
  <2>6. WellRead(w)
    BY <2>1, <2>3 DEF WellRead, Asking, Reading, Executing, InFlight, Listing
  <2>7. TypeOK'
    BY <2>4, <2>5 DEF TypeOK, world
  <2>8. WorksRead'
    BY <2>4, <2>6 DEF WorksRead, TypeOK
  <2> QED BY <2>7, <2>8
<1>7. ASSUME NEW j \in Job, NEW w,
             job' = [job EXCEPT ![j] = w], w = None \/ (w \in Work /\ WellRead(w)),
             UNCHANGED world
      PROVE  job' \in [Job -> Work \cup {None}] /\ WorksRead'
             /\ now' \in 0..MaxTime /\ fresh' \in BOOLEAN /\ crashes' \in 0..MaxCrashes
             /\ acts' \in [ApprovalId -> Nat] /\ torn' \in SUBSET ApprovalId
  <2>1. /\ job \in [Job -> Work \cup {None}] /\ w \in Work \cup {None}
        /\ now' \in 0..MaxTime /\ fresh' \in BOOLEAN /\ crashes' \in 0..MaxCrashes
        /\ acts' \in [ApprovalId -> Nat] /\ torn' \in SUBSET ApprovalId
    BY <1>7 DEF TypeOK, world
  <2> QED BY <1>7, <2>1 DEF WorksRead
<1> USE DEF WellRead, Asking, Reading, Executing, InFlight, Listing
<1>8. ASSUME NEW j \in Job, NEW s, At(j, s)
      PROVE  job[j] \in Work /\ job[j].step = s /\ WellRead(job[j]) /\ job[j] # None
  BY <1>8 DEF At, TypeOK, WorksRead
<1>9. ASSUME NEW j \in Job, MarkPending(j) PROVE Shape'
  <2> DEFINE w == [job[j] EXCEPT !.step = "save"]
  <2>1. w \in Work /\ WellRead(w)
    BY <1>9, <1>8 DEF MarkPending, Work
  <2>2. job' = [job EXCEPT ![j] = w] /\ UNCHANGED <<world, approvals, envelopes, claims, effects>>
        /\ proposal' = "PENDING" /\ raced' \in BOOLEAN
    BY <1>9 DEF MarkPending, Then, Go, TypeOK
  <2> QED BY <1>7, <2>1, <2>2 DEF TypeOK, ProposalStatus
<1>10. ASSUME NEW j \in Job, SaveApproval(j) PROVE Shape'
  <2>1. job[j].seen \in Approval /\ job[j].approval \in ApprovalId
    BY <1>10, <1>8 DEF SaveApproval
  <2>2. job' = [job EXCEPT ![j] = None] /\ UNCHANGED <<world, proposal, envelopes, claims, effects, raced>>
        /\ approvals' = [approvals EXCEPT ![job[j].approval] = job[j].seen]
    BY <1>10 DEF SaveApproval, Done
  <2> QED BY <1>7, <2>1, <2>2 DEF TypeOK
<1>11. ASSUME NEW j \in Job, ExpireProposal(j) PROVE Shape'
  <2> DEFINE w == [job[j] EXCEPT !.step = "list"]
  <2>1. w \in Work /\ WellRead(w)
    BY <1>11, <1>8 DEF ExpireProposal, Work
  <2>2. job' = [job EXCEPT ![j] = w] /\ UNCHANGED <<world, approvals, envelopes, claims, effects>>
        /\ proposal' = "EXPIRED" /\ raced' \in BOOLEAN
    BY <1>11 DEF ExpireProposal, Then, Go, TypeOK
  <2> QED BY <1>7, <2>1, <2>2 DEF TypeOK, ProposalStatus
<1>12. ASSUME NEW j \in Job, ListApprovals(j) PROVE Shape'
  <2> DEFINE open == {a \in ApprovalId : /\ approvals[a] # None
                                         /\ approvals[a].status \in {"PENDING", "APPROVED"}}
             found == {[approval |-> a, row |-> approvals[a]] : a \in open}
             w == [job[j] EXCEPT !.step = "expire", !.listed = found]
  <2>1. w \in Work /\ WellRead(w)
    <3>1. found \in SUBSET [approval : ApprovalId, row : Approval]
      BY DEF TypeOK
    <3> HIDE DEF found
    <3>2. job[j] \in Work /\ job[j].step = "list" /\ WellRead(job[j])
      BY <1>12, <1>8 DEF ListApprovals
    <3>3. w \in Work
      BY <3>1, <3>2 DEF Work
    <3>4. w.step = "expire"
      BY <3>2 DEF Work
    <3> HIDE DEF w
    <3> QED BY <3>1, <3>2, <3>3, <3>4
  <2>2. UNCHANGED <<world, rows, envelopes, claims, effects, raced>>
        /\ (job' = [job EXCEPT ![j] = None] \/ job' = [job EXCEPT ![j] = w])
    BY <1>12 DEF ListApprovals, Done, Go
  <2> HIDE DEF w
  <2> QED BY <1>7, <2>1, <2>2 DEF TypeOK, rows
<1>13. ASSUME NEW j \in Job, ExpireApproval(j) PROVE Shape'
  <2>1. PICK x \in job[j].listed :
          /\ approvals' = [approvals EXCEPT ![x.approval] = [x.row EXCEPT !.status = "EXPIRED"]]
          /\ \/ job' = [job EXCEPT ![j] = None]
             \/ job' = [job EXCEPT ![j] = [job[j] EXCEPT !.listed = @ \ {x}]]
          /\ raced' \in BOOLEAN
    BY <1>13 DEF ExpireApproval, Write, Done, Go, TypeOK
  <2> DEFINE w == [job[j] EXCEPT !.listed = @ \ {x}]
  <2>2. w \in Work /\ WellRead(w)
    BY <1>13, <1>8 DEF ExpireApproval, Work
  <2>3. x.approval \in ApprovalId /\ [x.row EXCEPT !.status = "EXPIRED"] \in Approval
    BY <1>13, <1>8 DEF ExpireApproval, Work, Approval, ApprovalStatus, ProposalStatus
  <2>4. UNCHANGED <<world, proposal, envelopes, claims, effects>>
    BY <1>13 DEF ExpireApproval
  <2>5. job' = [job EXCEPT ![j] = None] \/ job' = [job EXCEPT ![j] = w]
    BY <2>1
  <2> HIDE DEF w
  <2> QED BY <1>7, <2>1, <2>2, <2>3, <2>4, <2>5 DEF TypeOK
<1>14. ASSUME NEW j \in Job, NEW a \in ApprovalId, NEW s \in {"decide", "prepare"},
              NEW d \in Decision \cup {None}, s = "decide" => d \in Decision,
              ReadApproval(j, a, s, d)
       PROVE  Shape'
  <2> DEFINE w == [NewWork EXCEPT !.step = s, !.approval = a, !.decision = d,
                     !.current = fresh, !.seen = approvals[a], !.old = approvals[a]]
  <2>1. approvals[a] \in Approval
    BY <1>14 DEF ReadApproval, TypeOK
  <2>2. w \in Work
    BY <1>14, <2>1, NewWorkTyped DEF Work, TypeOK
  <2>3. w.step = s /\ w.approval = a /\ w.decision = d /\ w.seen = approvals[a] /\ w.old = approvals[a]
    BY DEF NewWork
  <2>4. WellRead(w)
    <3> HIDE DEF w
    <3> QED BY <1>14, <2>1, <2>3
  <2>5. job' = [job EXCEPT ![j] = w] /\ UNCHANGED <<world, rows, envelopes, claims, effects, raced>>
    BY <1>14 DEF ReadApproval, Start
  <2> HIDE DEF w
  <2> QED BY <1>7, <2>2, <2>4, <2>5 DEF TypeOK, rows
<1>15. ASSUME NEW j \in Job, ReadProposalAndDecide(j) PROVE Shape'
  <2>1. /\ job[j] \in Work /\ job[j].step = "decide" /\ WellRead(job[j])
        /\ UNCHANGED <<world, rows, envelopes, claims, effects, raced>>
        /\ proposal \in ProposalStatus \cup {None}
    BY <1>15, <1>8 DEF ReadProposalAndDecide, TypeOK
  <2>2. CASE job' = [job EXCEPT ![j] = None]
    BY <1>7, <2>1, <2>2 DEF TypeOK, rows
  <2>3. CASE Go(j, [job[j] EXCEPT !.step = "staleProposal", !.status = proposal,
                                  !.decision = None])
    <3> DEFINE w == [job[j] EXCEPT !.step = "staleProposal", !.status = proposal,
                                  !.decision = None]
    <3>1. w \in Work /\ WellRead(w)
      BY <2>1 DEF Work
    <3> HIDE DEF w
    <3> QED BY <1>7, <2>1, <2>3, <3>1 DEF TypeOK, rows, Go, w
  <2>4. CASE /\ Open(job[j].seen, proposal)
             /\ Go(j, [job[j] EXCEPT !.step = "writeApproval", !.status = proposal,
                         !.decision = None, !.seen = Decided(job[j].seen, job[j].decision)])
    <3> DEFINE row == Decided(job[j].seen, job[j].decision)
               w == [job[j] EXCEPT !.step = "writeApproval", !.status = proposal,
                       !.decision = None, !.seen = row]
    <3>1. row \in Approval /\ row.status \in {"PENDING", "APPROVED", "REJECTED"}
      BY <2>1, <2>4 DEF Decided, Approval, ApprovalStatus, ProposalStatus, Open
    <3>2. job[j].old.status = "PENDING" /\ job[j].old \in Approval
      BY <2>1, <2>4 DEF Open
    <3>3. w \in Work /\ WellRead(w)
      <4> HIDE DEF row
      <4> QED BY <2>1, <3>1, <3>2 DEF Work
    <3> HIDE DEF w
    <3> QED BY <1>7, <2>1, <2>4, <3>3 DEF TypeOK, rows, Go, w
  <2> QED BY <1>15, <2>2, <2>3, <2>4 DEF ReadProposalAndDecide, Done
<1>16. ASSUME NEW j \in Job, ReadProposalAndPrepare(j) PROVE Shape'
  <2>1. /\ job[j] \in Work /\ job[j].step = "prepare" /\ WellRead(job[j])
        /\ UNCHANGED <<world, rows, claims, effects, raced>>
        /\ proposal \in ProposalStatus \cup {None}
    BY <1>16, <1>8 DEF ReadProposalAndPrepare, TypeOK
  <2>2. envelopes' \in SUBSET ApprovalId
    BY <1>16, <2>1 DEF ReadProposalAndPrepare, TypeOK
  <2>3. CASE job' = [job EXCEPT ![j] = None]
    BY <1>7, <2>1, <2>2, <2>3 DEF TypeOK, rows
  <2>4. CASE Go(j, [job[j] EXCEPT !.step = "staleProposal", !.status = proposal,
                                  !.decision = None])
    <3> DEFINE w == [job[j] EXCEPT !.step = "staleProposal", !.status = proposal,
                                  !.decision = None]
    <3>1. w \in Work /\ WellRead(w)
      BY <2>1 DEF Work
    <3> HIDE DEF w
    <3> QED BY <1>7, <2>1, <2>2, <2>4, <3>1 DEF TypeOK, rows, Go, w
  <2> QED BY <1>16, <2>3, <2>4 DEF ReadProposalAndPrepare, Done
<1>17. ASSUME NEW j \in Job, StaleProposal(j) PROVE Shape'
  <2> DEFINE w == [job[j] EXCEPT !.step = "staleApproval"]
  <2>1. w \in Work /\ WellRead(w)
    BY <1>17, <1>8 DEF StaleProposal, Work
  <2>2. job' = [job EXCEPT ![j] = w] /\ UNCHANGED <<world, approvals, envelopes, claims, effects>>
        /\ proposal' = "STALE" /\ raced' \in BOOLEAN
    BY <1>17 DEF StaleProposal, Then, Go, TypeOK
  <2> QED BY <1>7, <2>1, <2>2 DEF TypeOK, ProposalStatus
<1>18. ASSUME NEW j \in Job, StaleApproval(j) PROVE Shape'
  <2>1. [job[j].seen EXCEPT !.status = "STALE"] \in Approval /\ job[j].approval \in ApprovalId
    BY <1>18, <1>8 DEF StaleApproval, Approval, ApprovalStatus, ProposalStatus
  <2>2. job' = [job EXCEPT ![j] = None] /\ UNCHANGED <<world, proposal, envelopes, claims, effects>>
        /\ approvals' = [approvals EXCEPT ![job[j].approval] = [job[j].seen EXCEPT !.status = "STALE"]]
        /\ raced' \in BOOLEAN
    BY <1>18 DEF StaleApproval, WriteApproval, Write, Done, TypeOK
  <2> QED BY <1>7, <2>1, <2>2 DEF TypeOK
<1>19. ASSUME NEW j \in Job, WriteDecision(j) PROVE Shape'
  <2> DEFINE w == [job[j] EXCEPT !.step = "writeProposal", !.old = None]
  <2>1. w \in Work /\ WellRead(w) /\ job[j].seen \in Approval /\ job[j].approval \in ApprovalId
    <3>2. job[j] \in Work /\ job[j].step = "writeApproval" /\ WellRead(job[j])
      BY <1>19, <1>8 DEF WriteDecision
    <3>3. w \in Work
      BY <3>2 DEF Work
    <3>4. w.step = "writeProposal" /\ w.seen = job[j].seen /\ w.approval = job[j].approval
      BY <3>2 DEF Work
    <3> HIDE DEF w
    <3> QED BY <3>2, <3>3, <3>4
  <2>2. job' = [job EXCEPT ![j] = w] /\ UNCHANGED <<world, proposal, envelopes, claims, effects>>
        /\ approvals' = [approvals EXCEPT ![job[j].approval] = job[j].seen]
        /\ raced' \in BOOLEAN
    BY <1>19 DEF WriteDecision, WriteApproval, Write, Go, TypeOK
  <2> HIDE DEF w
  <2> QED BY <1>7, <2>1, <2>2 DEF TypeOK
<1>20. ASSUME NEW j \in Job, WriteProposal(j) PROVE Shape'
  <2>1. job[j].seen.status \in ProposalStatus
    BY <1>20, <1>8 DEF WriteProposal, ProposalStatus
  <2>2. job' = [job EXCEPT ![j] = None] /\ UNCHANGED <<world, approvals, envelopes, claims, effects>>
        /\ proposal' = job[j].seen.status /\ raced' \in BOOLEAN
    BY <1>20 DEF WriteProposal, Done, TypeOK
  <2> QED BY <1>7, <2>1, <2>2 DEF TypeOK
<1>21. ASSUME NEW j \in Job, NEW k \in Key, NEW a \in ApprovalId, ClaimKey(j, k, a) PROVE Shape'
  <2> DEFINE w == [NewWork EXCEPT !.step = "validate", !.approval = a, !.key = k]
  <2>1. w \in Work
    BY NewWorkTyped DEF Work
  <2>2. w.step = "validate" /\ w.approval = a /\ w.key = k
    BY DEF NewWork
  <2>3. job' = [job EXCEPT ![j] = w] /\ UNCHANGED <<world, rows, envelopes, effects, raced>>
        /\ claims' = [claims EXCEPT ![k] = [approval |-> a, receipt |-> None]]
    BY <1>21 DEF ClaimKey, Start
  <2> HIDE DEF w
  <2>4. claims' \in [Key -> Claim \cup {None}]
    BY <2>3 DEF TypeOK, Claim
  <2>5. WellRead(w)
    BY <2>2
  <2> QED BY <1>7, <2>1, <2>3, <2>4, <2>5 DEF TypeOK, rows
<1>22. ASSUME NEW j \in Job, Validate(j) PROVE Shape'
  <2> DEFINE row == approvals[job[j].approval]
             w == [job[j] EXCEPT !.step = "call", !.seen = row]
  <2>1. row \in Approval
    <3>1. job[j] # None /\ job[j].step = "validate" /\ job[j].approval \in ApprovalId
      BY <1>22, <1>8 DEF Validate
    <3>2. Stored(job[j].approval)
      BY <3>1, NoneAssumption DEF StoredOnce
    <3> QED BY <3>1, <3>2 DEF Stored, TypeOK
  <2>2. w \in Work /\ WellRead(w)
    <3> HIDE DEF row
    <3>2. job[j] \in Work /\ job[j].step = "validate" /\ WellRead(job[j])
      BY <1>22, <1>8 DEF Validate
    <3>3. w \in Work
      BY <2>1, <3>2 DEF Work
    <3>4. w.step = "call" /\ w.seen = row /\ w.approval = job[j].approval /\ w.key = job[j].key
      BY <3>2 DEF Work
    <3> HIDE DEF w
    <3> QED BY <2>1, <3>2, <3>3, <3>4
  <2>3. UNCHANGED <<world, rows, envelopes, claims, effects>> /\ raced' \in BOOLEAN
        /\ (job' = [job EXCEPT ![j] = None] \/ job' = [job EXCEPT ![j] = w])
    BY <1>22 DEF Validate, Done, Go, TypeOK
  <2> HIDE DEF w
  <2> QED BY <1>7, <2>2, <2>3 DEF TypeOK, rows
<1>23. ASSUME NEW j \in Job, Call(j) PROVE Shape'
  <2>1. PICK out \in Outcome :
          /\ job' = [job EXCEPT ![j] = [job[j] EXCEPT !.step = "complete", !.outcome = out,
                                                      !.seen = None]]
          /\ effects' = [effects EXCEPT ![job[j].key] = @ + 1] \/ effects' = effects
          /\ acts' = [acts EXCEPT ![job[j].approval] = @ + 1] \/ acts' = acts
    BY <1>23 DEF Call, Go
  <2> DEFINE w == [job[j] EXCEPT !.step = "complete", !.outcome = out, !.seen = None]
  <2>2. w \in Work /\ WellRead(w)
    <3>2. job[j] \in Work /\ job[j].step = "call" /\ WellRead(job[j])
      BY <1>23, <1>8 DEF Call
    <3>3. w \in Work
      BY <3>2 DEF Work
    <3>4. w.step = "complete" /\ w.approval = job[j].approval /\ w.key = job[j].key
      BY <3>2 DEF Work
    <3> HIDE DEF w
    <3> QED BY <3>2, <3>3, <3>4
  <2>3. job' = [job EXCEPT ![j] = w] /\ effects' \in [Key -> Nat] /\ acts' \in [ApprovalId -> Nat]
        /\ UNCHANGED <<now, fresh, crashes, torn, rows, envelopes, claims, raced>>
    BY <1>23, <2>1 DEF Call, TypeOK
  <2> HIDE DEF w
  <2>4. job' \in [Job -> Work \cup {None}] /\ WorksRead'
    BY <2>2, <2>3 DEF TypeOK, WorksRead
  <2> QED BY <2>3, <2>4 DEF TypeOK, rows
<1>24. ASSUME NEW j \in Job, Complete(j) PROVE Shape'
  <2> DEFINE w == [job[j] EXCEPT !.step = "consume"]
  <2>1. /\ job[j] \in Work /\ job[j].step = "complete" /\ WellRead(job[j])
        /\ claims[job[j].key] # None /\ job[j].key \in Key
    BY <1>24, <1>8 DEF Complete, KeysHeld
  <2>2. w \in Work /\ WellRead(w)
    BY <2>1 DEF Work
  <2>3. job' = [job EXCEPT ![j] = w] /\ UNCHANGED <<world, rows, envelopes, effects, raced>>
        /\ claims' = [claims EXCEPT ![job[j].key].receipt = job[j].outcome]
    BY <1>24 DEF Complete, Then, Go
  <2>4. claims' \in [Key -> Claim \cup {None}]
    BY <2>1, <2>3 DEF TypeOK, Claim, Work
  <2> HIDE DEF w
  <2> QED BY <1>7, <2>2, <2>3, <2>4 DEF TypeOK, rows
<1>25. ASSUME NEW j \in Job, ConsumeRead(j) PROVE Shape'
  <2> DEFINE row == approvals[job[j].approval]
             w == [job[j] EXCEPT !.step = "consumed", !.seen = row, !.old = row]
  <2>1. row \in Approval
    <3>1. job[j] # None /\ job[j].step = "consume" /\ job[j].approval \in ApprovalId
      BY <1>25, <1>8 DEF ConsumeRead
    <3>2. Stored(job[j].approval)
      BY <3>1, NoneAssumption DEF StoredOnce
    <3> QED BY <3>1, <3>2 DEF Stored, TypeOK
  <2>2. w \in Work /\ WellRead(w)
    <3> HIDE DEF row
    <3>2. job[j] \in Work /\ job[j].step = "consume" /\ WellRead(job[j])
      BY <1>25, <1>8 DEF ConsumeRead
    <3>3. w \in Work
      BY <2>1, <3>2 DEF Work
    <3>4. w.step = "consumed" /\ w.seen = row /\ w.approval = job[j].approval /\ w.key = job[j].key
      BY <3>2 DEF Work
    <3> HIDE DEF w
    <3> QED BY <2>1, <3>2, <3>3, <3>4
  <2>3. UNCHANGED <<world, rows, envelopes, claims, effects, raced>>
        /\ job' = [job EXCEPT ![j] = w]
    BY <1>25 DEF ConsumeRead, Go
  <2> HIDE DEF w
  <2> QED BY <1>7, <2>2, <2>3 DEF TypeOK, rows
<1>26. ASSUME NEW j \in Job, Consume(j) PROVE Shape'
  <2>1. Spent(j) \in Approval /\ job[j].approval \in ApprovalId
    BY <1>26, <1>8 DEF Consume, Spent, Approval, ApprovalStatus, ProposalStatus
  <2>2. job' = [job EXCEPT ![j] = None] /\ UNCHANGED <<world, proposal, envelopes, claims, effects>>
        /\ approvals' = [approvals EXCEPT ![job[j].approval] = Spent(j)]
        /\ raced' \in BOOLEAN
    BY <1>26 DEF Consume, WriteApproval, Write, Done, TypeOK
  <2> QED BY <1>7, <2>1, <2>2 DEF TypeOK
<1>27. ASSUME NEW j \in Job, Expire(j) PROVE Shape'
  <2> DEFINE w == [NewWork EXCEPT !.step = "expireProposal", !.status = proposal]
  <2>1. w \in Work
    BY NewWorkTyped DEF Work, TypeOK
  <2>2. w.step = "expireProposal"
    BY DEF NewWork
  <2>3. job' = [job EXCEPT ![j] = w] /\ UNCHANGED <<world, rows, envelopes, claims, effects, raced>>
    BY <1>27 DEF Expire, Start
  <2> HIDE DEF w
  <2>4. WellRead(w)
    BY <2>2
  <2> QED BY <1>7, <2>1, <2>3, <2>4 DEF TypeOK, rows
<1>28. ASSUME NEW j \in Job, NEW a \in ApprovalId, NEW d \in Decision, Decide(j, a, d) PROVE Shape'
  BY <1>28, <1>14 DEF Decide
<1>29. ASSUME NEW j \in Job, NEW a \in ApprovalId, Prepare(j, a) PROVE Shape'
  BY <1>29, <1>14 DEF Prepare
<1> HIDE DEF IInv, Shape, WellRead, Asking, Reading, Executing, InFlight, Listing
<1> QED
  BY <1>1, <1>2, <1>3, <1>4, <1>5, <1>6, <1>9, <1>10, <1>11, <1>12, <1>13, <1>15, <1>16,
     <1>17, <1>18, <1>19, <1>20, <1>21, <1>22, <1>23, <1>24, <1>25, <1>26, <1>27, <1>28, <1>29,
     Zenon DEF Next, Step

-----------------------------------------------------------------------------
(* What each step does to the handlers.                                    *)

OthersStay(j) == \A i \in Job : i # j => job'[i] = job[i]
Begins(j, to, a) == /\ job[j] = None /\ job'[j] # None /\ OthersStay(j)
                    /\ job'[j].step = to /\ job'[j].approval = a
Ends(j, from) == job[j] # None /\ job[j].step = from /\ job'[j] = None /\ OthersStay(j)
Goes(j, from, to) == /\ job[j] # None /\ job[j].step = from
                     /\ job'[j] # None /\ job'[j].step = to /\ OthersStay(j)
                     /\ job'[j].approval = job[j].approval /\ job'[j].key = job[j].key
Keeps(j, seen, old, listed) ==
    job'[j].seen = seen /\ job'[j].old = old /\ job'[j].listed = listed

\* A handler that is replaced.
LEMMA Replaced ==
  ASSUME Shape, NEW j \in Job, NEW s, At(j, s)
  PROVE  /\ job[j] \in Work /\ job[j] # None /\ job[j].step = s /\ WellRead(job[j])
         /\ Done(j) => Ends(j, s)
         /\ \A w \in Work : Go(j, w) => job'[j] = w /\ OthersStay(j) /\ job'[j] # None
<1>1. job[j] \in Work /\ job[j] # None /\ job[j].step = s /\ WellRead(job[j])
      /\ job \in [Job -> Work \cup {None}]
  BY DEF Shape, TypeOK, WorksRead, At
<1>2. Done(j) => Ends(j, s)
  BY <1>1 DEF Done, Ends, OthersStay
<1>3. ASSUME NEW w \in Work, Go(j, w) PROVE job'[j] = w /\ OthersStay(j) /\ job'[j] # None
  BY <1>1, <1>3, NoneAssumption DEF Go, OthersStay
<1> QED BY <1>1, <1>2, <1>3

\* A handler that starts.
LEMMA Started ==
  ASSUME Shape, NEW j \in Job, NEW w \in Work, Start(j, w)
  PROVE  job[j] = None /\ job'[j] = w /\ job'[j] # None /\ OthersStay(j)
  BY NoneAssumption DEF Shape, TypeOK, Start, OthersStay

\* Handlers that only move on.
LEMMA MovesOn ==
  ASSUME Shape, NEW j \in Job, NEW s, At(j, s),
         NEW u \in {"save", "list", "staleApproval", "consume"}, Then(j, u)
  PROVE  Goes(j, s, u) /\ Keeps(j, job[j].seen, job[j].old, job[j].listed)
<1> DEFINE w == [job[j] EXCEPT !.step = u]
<1>1. job[j] \in Work /\ job[j] # None /\ job[j].step = s
  BY Replaced
<1>2. w \in Work /\ w.step = u /\ w.approval = job[j].approval /\ w.key = job[j].key
      /\ w.seen = job[j].seen /\ w.old = job[j].old /\ w.listed = job[j].listed
  BY <1>1 DEF Work
<1>3. Go(j, w)
  BY DEF Then
<1> HIDE DEF w
<1>4. job'[j] = w /\ OthersStay(j) /\ job'[j] # None
  BY <1>2, <1>3, Replaced
<1> QED BY <1>1, <1>2, <1>4 DEF Goes, Keeps

\* request starts with the approval it is about to store.
LEMMA RequestBegins ==
  ASSUME Shape, NEW j \in Job, NEW a \in ApprovalId, RequestApproval(j, a)
  PROVE  /\ Begins(j, "mark", a) /\ job'[j].old = None /\ job'[j].listed = {}
         /\ job'[j].seen \in Approval
         /\ job'[j].seen.status = "PENDING" /\ job'[j].seen.decisions = {}
<1> DEFINE row == [status |-> "PENDING", decisions |-> {}, expires |-> Min({Lifetime, now + Window})]
           w == [NewWork EXCEPT !.approval = a, !.seen = row]
<1>1. row \in Approval
  <2>1. Lifetime \in Nat /\ now + Window \in Nat
    BY PolicyAssumption DEF Shape, TypeOK
  <2> QED BY <2>1, EarlierOfTwo DEF Approval, ApprovalStatus, ProposalStatus
<1>2. row.status = "PENDING" /\ row.decisions = {}
  OBVIOUS
<1> HIDE DEF row
<1>3. w \in Work
  BY <1>1, NewWorkTyped DEF Work
<1>4. w.step = "mark" /\ w.approval = a /\ w.seen = row /\ w.old = None /\ w.listed = {}
  BY DEF NewWork
<1>5. Start(j, w)
  BY DEF RequestApproval, row
<1> HIDE DEF w
<1> QED BY <1>1, <1>2, <1>3, <1>4, <1>5, Started DEF Begins

\* decide and prepareExecution start with the row they read, twice.
LEMMA ReadBegins ==
  ASSUME Shape, NEW j \in Job, NEW a \in ApprovalId, NEW s \in {"decide", "prepare"},
         NEW d \in Decision \cup {None}, ReadApproval(j, a, s, d)
  PROVE  Begins(j, s, a) /\ Keeps(j, approvals[a], approvals[a], {})
<1> DEFINE w == [NewWork EXCEPT !.step = s, !.approval = a, !.decision = d,
                   !.current = fresh, !.seen = approvals[a], !.old = approvals[a]]
<1>1. approvals[a] \in Approval
  BY DEF ReadApproval, Shape, TypeOK
<1>2. w \in Work
  BY <1>1, NewWorkTyped DEF Work, Shape, TypeOK
<1>3. w.step = s /\ w.approval = a /\ w.seen = approvals[a] /\ w.old = approvals[a] /\ w.listed = {}
  BY DEF NewWork
<1>4. Start(j, w)
  BY DEF ReadApproval
<1> HIDE DEF w
<1> QED BY <1>2, <1>3, <1>4, Started DEF Begins, Keeps

\* An execution starts with its key and approval.
LEMMA ClaimBegins ==
  ASSUME Shape, NEW j \in Job, NEW k \in Key, NEW a \in ApprovalId, ClaimKey(j, k, a)
  PROVE  Begins(j, "validate", a) /\ Keeps(j, None, None, {}) /\ job'[j].key = k
<1> DEFINE w == [NewWork EXCEPT !.step = "validate", !.approval = a, !.key = k]
<1>1. w \in Work
  BY NewWorkTyped DEF Work
<1>2. w.step = "validate" /\ w.approval = a /\ w.seen = None /\ w.old = None /\ w.listed = {}
      /\ w.key = k
  BY DEF NewWork
<1>3. Start(j, w)
  BY DEF ClaimKey
<1> HIDE DEF w
<1> QED BY <1>1, <1>2, <1>3, Started DEF Begins, Keeps

\* expire starts without an approval.
LEMMA ExpireBegins ==
  ASSUME Shape, NEW j \in Job, Expire(j)
  PROVE  Begins(j, "expireProposal", None) /\ Keeps(j, None, None, {})
<1> DEFINE w == [NewWork EXCEPT !.step = "expireProposal", !.status = proposal]
<1>1. w \in Work
  BY NewWorkTyped DEF Work, Shape, TypeOK
<1>2. w.step = "expireProposal" /\ w.approval = None /\ w.seen = None /\ w.old = None /\ w.listed = {}
  BY DEF NewWork
<1>3. Start(j, w)
  BY DEF Expire
<1> HIDE DEF w
<1> QED BY <1>1, <1>2, <1>3, Started DEF Begins, Keeps

\* A handler that goes on with other work for the same approval and key.
LEMMA GoesOn ==
  ASSUME Shape, NEW j \in Job, NEW s, At(j, s), NEW w \in Work, Go(j, w),
         w.approval = job[j].approval, w.key = job[j].key
  PROVE  Goes(j, s, w.step) /\ Keeps(j, w.seen, w.old, w.listed)
  BY Replaced DEF Goes, Keeps

Found == {[approval |-> a, row |-> approvals[a]] : a \in
            {b \in ApprovalId : approvals[b] # None /\ approvals[b].status \in {"PENDING", "APPROVED"}}}

\* expire ends without open approvals, or lists them with their rows.
LEMMA ListMoves ==
  ASSUME Shape, NEW j \in Job, ListApprovals(j)
  PROVE  \/ Ends(j, "list")
         \/ Goes(j, "list", "expire") /\ Keeps(j, job[j].seen, job[j].old, Found)
<1> DEFINE w == [job[j] EXCEPT !.step = "expire", !.listed = Found]
<1>1. At(j, "list") /\ (Done(j) \/ Go(j, w))
  BY DEF ListApprovals, Found
<1>2. job[j] \in Work
  BY <1>1, Replaced
<1>3. Found \in SUBSET [approval : ApprovalId, row : Approval]
  BY DEF Found, Shape, TypeOK
<1> HIDE DEF Found
<1>4. w \in Work
  BY <1>2, <1>3 DEF Work
<1>5. w.step = "expire" /\ w.listed = Found /\ w.seen = job[j].seen /\ w.old = job[j].old
      /\ w.approval = job[j].approval /\ w.key = job[j].key
  BY <1>2 DEF Work
<1> HIDE DEF w
<1> QED BY <1>1, <1>4, <1>5, Replaced, GoesOn

\* expire writes one listed row and keeps the others listed.
LEMMA ExpireMoves ==
  ASSUME Shape, NEW j \in Job, ExpireApproval(j)
  PROVE  /\ At(j, "expire") /\ OthersStay(j)
         /\ job[j].listed \subseteq [approval : ApprovalId, row : Approval]
         /\ \E x \in job[j].listed :
              /\ Write(x.approval, x.row, [x.row EXCEPT !.status = "EXPIRED"])
              /\ \/ Ends(j, "expire")
                 \/ /\ Goes(j, "expire", "expire")
                    /\ Keeps(j, job[j].seen, job[j].old, job[j].listed \ {x})
<1>1. At(j, "expire")
  BY DEF ExpireApproval
<1>2. job[j] \in Work /\ job[j].step = "expire"
  BY <1>1, Replaced
<1>3. PICK x \in job[j].listed :
        /\ Write(x.approval, x.row, [x.row EXCEPT !.status = "EXPIRED"])
        /\ Done(j) \/ Go(j, [job[j] EXCEPT !.listed = @ \ {x}])
  BY DEF ExpireApproval
<1> DEFINE w == [job[j] EXCEPT !.listed = @ \ {x}]
<1>4. w \in Work /\ w.step = "expire" /\ w.listed = job[j].listed \ {x}
      /\ w.seen = job[j].seen /\ w.old = job[j].old
      /\ w.approval = job[j].approval /\ w.key = job[j].key
  BY <1>2 DEF Work
<1>5. job[j].listed \subseteq [approval : ApprovalId, row : Approval]
  BY <1>2 DEF Work
<1>6. Done(j) \/ Go(j, w)
  BY <1>3
<1> HIDE DEF w
<1>7. CASE Done(j)
  BY <1>1, <1>3, <1>5, <1>7, Replaced DEF Ends
<1>8. CASE Go(j, w)
  <2>1. Goes(j, "expire", "expire") /\ Keeps(j, job[j].seen, job[j].old, job[j].listed \ {x})
    BY <1>1, <1>4, <1>8, GoesOn
  <2> QED BY <1>1, <1>3, <1>5, <2>1 DEF Goes
<1> QED BY <1>6, <1>7, <1>8

\* decide ends, turns to marking stale, or takes one eligible decision.
LEMMA DecideMoves ==
  ASSUME Shape, NEW j \in Job, ReadProposalAndDecide(j)
  PROVE  /\ job[j].decision \in Decision /\ job[j].seen \in Approval
         /\ \/ Ends(j, "decide")
            \/ Goes(j, "decide", "staleProposal") /\ Keeps(j, job[j].seen, job[j].old, job[j].listed)
            \/ /\ job[j].seen.status = "PENDING" /\ Eligible(job[j].seen, job[j].decision.by)
               /\ Goes(j, "decide", "writeApproval")
               /\ Keeps(j, Decided(job[j].seen, job[j].decision), job[j].old, job[j].listed)
<1>1. At(j, "decide")
  BY DEF ReadProposalAndDecide
<1>2. job[j] \in Work /\ WellRead(job[j]) /\ job[j].step = "decide"
      /\ proposal \in ProposalStatus \cup {None}
  BY <1>1, Replaced DEF Shape, TypeOK
<1>3. job[j].decision \in Decision /\ job[j].seen \in Approval
  BY <1>2 DEF WellRead, Reading
<1>4. CASE Done(j)
  BY <1>1, <1>3, <1>4, Replaced
<1>5. CASE Go(j, [job[j] EXCEPT !.step = "staleProposal", !.status = proposal, !.decision = None])
  <2> DEFINE w == [job[j] EXCEPT !.step = "staleProposal", !.status = proposal, !.decision = None]
  <2>1. w \in Work /\ w.step = "staleProposal" /\ w.listed = job[j].listed
        /\ w.seen = job[j].seen /\ w.old = job[j].old
        /\ w.approval = job[j].approval /\ w.key = job[j].key
    BY <1>2 DEF Work
  <2>2. Go(j, w)
    BY <1>5
  <2> HIDE DEF w
  <2> QED BY <1>1, <1>3, <2>1, <2>2, GoesOn
<1>6. CASE /\ Open(job[j].seen, proposal) /\ Eligible(job[j].seen, job[j].decision.by)
           /\ Go(j, [job[j] EXCEPT !.step = "writeApproval", !.status = proposal,
                       !.decision = None, !.seen = Decided(job[j].seen, job[j].decision)])
  <2> DEFINE row == Decided(job[j].seen, job[j].decision)
             w == [job[j] EXCEPT !.step = "writeApproval", !.status = proposal,
                     !.decision = None, !.seen = row]
  <2>1. row \in Approval
    BY <1>3, <1>6 DEF Decided, Approval, ApprovalStatus, ProposalStatus, Open
  <2>2. Go(j, w)
    BY <1>6
  <2> HIDE DEF row
  <2>3. w \in Work /\ w.step = "writeApproval" /\ w.listed = job[j].listed
        /\ w.seen = row /\ w.old = job[j].old
        /\ w.approval = job[j].approval /\ w.key = job[j].key
    BY <1>2, <2>1 DEF Work
  <2> HIDE DEF w
  <2>4. Goes(j, "decide", "writeApproval") /\ Keeps(j, row, job[j].old, job[j].listed)
    BY <1>1, <2>2, <2>3, GoesOn
  <2> QED BY <1>3, <1>6, <2>4 DEF row, Open
<1> QED BY <1>4, <1>5, <1>6 DEF ReadProposalAndDecide

\* prepareExecution ends or turns to marking stale; it prepares its own approval only.
LEMMA PrepareMoves ==
  ASSUME Shape, NEW j \in Job, ReadProposalAndPrepare(j)
  PROVE  /\ \/ Ends(j, "prepare")
            \/ Goes(j, "prepare", "staleProposal") /\ Keeps(j, job[j].seen, job[j].old, job[j].listed)
         /\ At(j, "prepare") /\ job[j].approval \in ApprovalId
         /\ envelopes' \subseteq envelopes \cup {job[j].approval}
         /\ envelopes \subseteq envelopes'
<1>1. At(j, "prepare")
  BY DEF ReadProposalAndPrepare
<1>2. job[j] \in Work /\ WellRead(job[j]) /\ job[j].step = "prepare"
      /\ proposal \in ProposalStatus \cup {None}
  BY <1>1, Replaced DEF Shape, TypeOK
<1>3. job[j].approval \in ApprovalId
  BY <1>2 DEF WellRead, Listing
<1>4. envelopes' \subseteq envelopes \cup {job[j].approval} /\ envelopes \subseteq envelopes'
  BY DEF ReadProposalAndPrepare
<1>5. CASE Done(j)
  BY <1>1, <1>3, <1>4, <1>5, Replaced
<1>6. CASE Go(j, [job[j] EXCEPT !.step = "staleProposal", !.status = proposal, !.decision = None])
  <2> DEFINE w == [job[j] EXCEPT !.step = "staleProposal", !.status = proposal, !.decision = None]
  <2>1. w \in Work /\ w.step = "staleProposal" /\ w.listed = job[j].listed
        /\ w.seen = job[j].seen /\ w.old = job[j].old
        /\ w.approval = job[j].approval /\ w.key = job[j].key
    BY <1>2 DEF Work
  <2>2. Go(j, w)
    BY <1>6
  <2> HIDE DEF w
  <2> QED BY <1>1, <1>3, <1>4, <2>1, <2>2, GoesOn
<1> QED BY <1>5, <1>6 DEF ReadProposalAndPrepare

\* decide goes on to the proposal with the row it wrote.
LEMMA WriteDecisionMoves ==
  ASSUME Shape, NEW j \in Job, WriteDecision(j)
  PROVE  /\ Goes(j, "writeApproval", "writeProposal")
         /\ Keeps(j, job[j].seen, None, job[j].listed)
<1> DEFINE w == [job[j] EXCEPT !.step = "writeProposal", !.old = None]
<1>1. At(j, "writeApproval") /\ Go(j, w)
  BY DEF WriteDecision
<1>2. job[j] \in Work
  BY <1>1, Replaced
<1>3. w \in Work /\ w.step = "writeProposal" /\ w.listed = job[j].listed
      /\ w.seen = job[j].seen /\ w.old = None
      /\ w.approval = job[j].approval /\ w.key = job[j].key
  BY <1>2 DEF Work
<1> HIDE DEF w
<1> QED BY <1>1, <1>3, GoesOn

\* The row of the approval a handler is about, once it is stored.
LEMMA RowFound ==
  ASSUME Shape, StoredOnce, NEW j \in Job, NEW s \in {"validate", "consume"}, At(j, s)
  PROVE  approvals[job[j].approval] \in Approval
<1>1. job[j] # None /\ job[j].step = s /\ job[j].approval \in ApprovalId
  BY Replaced DEF WellRead, Listing
<1>2. Stored(job[j].approval)
  BY <1>1, NoneAssumption DEF StoredOnce, Asking
<1> QED BY <1>1, <1>2 DEF Stored, Shape, TypeOK

\* An execution goes on with the row it validated, and is raced with another.
LEMMA ValidateMoves ==
  ASSUME Shape, StoredOnce, NEW j \in Job, Validate(j)
  PROVE  \/ Ends(j, "validate") /\ UNCHANGED raced
         \/ /\ Usable(approvals[job[j].approval], proposal)
            /\ Goes(j, "validate", "call")
            /\ Keeps(j, approvals[job[j].approval], job[j].old, job[j].listed)
            /\ raced' = (raced \/ Spending(j))
<1> DEFINE row == approvals[job[j].approval]
           w == [job[j] EXCEPT !.step = "call", !.seen = row]
<1>1. At(j, "validate")
  BY DEF Validate
<1>2. job[j] \in Work /\ row \in Approval
  BY <1>1, Replaced, RowFound
<1>3. CASE Done(j) /\ UNCHANGED raced
  BY <1>1, <1>3, Replaced
<1>4. CASE Usable(row, proposal) /\ Go(j, w) /\ raced' = (raced \/ Spending(j))
  <2> HIDE DEF row
  <2>1. w \in Work /\ w.step = "call" /\ w.listed = job[j].listed
        /\ w.seen = row /\ w.old = job[j].old
        /\ w.approval = job[j].approval /\ w.key = job[j].key
    BY <1>2 DEF Work
  <2> HIDE DEF w
  <2>2. Goes(j, "validate", "call") /\ Keeps(j, row, job[j].old, job[j].listed)
    BY <1>1, <1>4, <2>1, GoesOn
  <2> QED BY <1>4, <2>2 DEF row
<1> QED BY <1>3, <1>4 DEF Validate

\* The source was called.
LEMMA CallMoves ==
  ASSUME Shape, NEW j \in Job, Call(j)
  PROVE  Goes(j, "call", "complete") /\ Keeps(j, None, job[j].old, job[j].listed)
<1>1. PICK out \in Outcome :
        Go(j, [job[j] EXCEPT !.step = "complete", !.outcome = out, !.seen = None])
  BY DEF Call
<1> DEFINE w == [job[j] EXCEPT !.step = "complete", !.outcome = out, !.seen = None]
<1>2. At(j, "call") /\ Go(j, w)
  BY <1>1 DEF Call
<1>3. job[j] \in Work
  BY <1>2, Replaced
<1>4. w \in Work /\ w.step = "complete" /\ w.listed = job[j].listed
      /\ w.seen = None /\ w.old = job[j].old
      /\ w.approval = job[j].approval /\ w.key = job[j].key
  BY <1>3 DEF Work
<1> HIDE DEF w
<1> QED BY <1>2, <1>4, GoesOn

\* The approval is read again before it is consumed.
LEMMA ConsumeReadMoves ==
  ASSUME Shape, StoredOnce, NEW j \in Job, ConsumeRead(j)
  PROVE  /\ Goes(j, "consume", "consumed")
         /\ Keeps(j, approvals[job[j].approval], approvals[job[j].approval], job[j].listed)
<1> DEFINE row == approvals[job[j].approval]
           w == [job[j] EXCEPT !.step = "consumed", !.seen = row, !.old = row]
<1>1. At(j, "consume") /\ Go(j, w)
  BY DEF ConsumeRead
<1>2. job[j] \in Work /\ row \in Approval
  BY <1>1, Replaced, RowFound
<1> HIDE DEF row
<1>3. w \in Work /\ w.step = "consumed" /\ w.listed = job[j].listed
      /\ w.seen = row /\ w.old = row
      /\ w.approval = job[j].approval /\ w.key = job[j].key
  BY <1>2 DEF Work
<1> HIDE DEF w
<1>4. Goes(j, "consume", "consumed") /\ Keeps(j, row, row, job[j].listed)
  BY <1>1, <1>3, GoesOn
<1> QED BY <1>4 DEF row

-----------------------------------------------------------------------------
(* Approvals are stored once.                                              *)

\* The source acts on an approval in a call only, and that found it stored.
LEMMA ActedOnStored ==
  ASSUME Shape, StoredOnce, [Next]_vars
  PROVE  \A a \in ApprovalId : acts'[a] # 0 => Stored(a)
<1>1. ASSUME NEW j \in Job, Call(j)
      PROVE  \A a \in ApprovalId : acts'[a] # 0 => Stored(a)
  <2>1. job[j] # None /\ job[j].step = "call" /\ job[j].approval \in ApprovalId
    BY <1>1, Replaced DEF Call, WellRead, Listing
  <2>2. Stored(job[j].approval)
    BY <2>1, NoneAssumption DEF StoredOnce, Asking
  <2>3. \A a \in ApprovalId : a # job[j].approval => acts'[a] = acts[a]
    BY <1>1 DEF Call, Shape, TypeOK
  <2> QED BY <2>2, <2>3 DEF StoredOnce
<1>2. CASE acts' = acts
  BY <1>2 DEF StoredOnce
<1>3. CASE UNCHANGED vars
  BY <1>2, <1>3 DEF vars
<1>4. CASE Create \/ FactsChange \/ Tick \/ Crash
  BY <1>2, <1>4 DEF Create, FactsChange, Tick, Crash, world
<1>5. ASSUME NEW j \in Job, Step(j), ~Call(j) PROVE acts' = acts
  BY <1>5 DEF Step, world, MarkPending, SaveApproval, ExpireProposal, ListApprovals, ExpireApproval,
       ReadProposalAndDecide, ReadProposalAndPrepare, StaleProposal, StaleApproval, WriteDecision,
       WriteProposal, Validate, Complete, ConsumeRead, Consume
<1>6. ASSUME NEW j \in Job, Expire(j) PROVE acts' = acts
  BY <1>6 DEF Expire, world
<1>7. ASSUME NEW j \in Job, NEW a \in ApprovalId,
             \/ RequestApproval(j, a) \/ Prepare(j, a)
             \/ \E d \in Decision : Decide(j, a, d)
             \/ \E k \in Key : ClaimKey(j, k, a)
      PROVE  acts' = acts
  BY <1>7 DEF RequestApproval, Prepare, Decide, ReadApproval, ClaimKey, world
<1> QED BY <1>1, <1>2, <1>3, <1>4, <1>5, <1>6, <1>7, Zenon DEF Next

\* No step stores an approval twice, or works on one not stored.
LEMMA StoredOnceKept == IInv /\ [Next]_vars => StoredOnce'
<1> SUFFICES ASSUME IInv, [Next]_vars PROVE StoredOnce'
  OBVIOUS
<1>0. /\ Shape /\ StoredOnce
      /\ \A a \in ApprovalId : acts'[a] # 0 => Stored(a)
  BY ActedOnStored DEF IInv
<1>1. /\ envelopes \subseteq ApprovalId
      /\ approvals \in [ApprovalId -> Approval \cup {None}]
      /\ claims \in [Key -> Claim \cup {None}]
      /\ \A j \in Job : job[j] # None =>
           /\ job[j].approval \in ApprovalId \cup {None}
           /\ \A x \in job[j].listed : x.approval \in ApprovalId
  BY <1>0 DEF Shape, TypeOK, Work
<1> DEFINE Same == \A a \in ApprovalId : approvals'[a] # None <=> Stored(a)
           Claimed == \A k \in Key : claims'[k] # None => claims'[k].approval \in envelopes'
<1>2. ASSUME NEW j \in Job, OthersStay(j), Same, \A a \in envelopes' : a \in ApprovalId /\ Stored(a),
             Claimed,
             job'[j] # None =>
               /\ \/ /\ job'[j].step \notin Asking
                     /\ job'[j].approval = None \/ (job'[j].approval \in ApprovalId /\ Stored(job'[j].approval))
                  \/ /\ job[j] # None /\ job[j].step \in Asking
                     /\ job'[j].step \in Asking /\ job'[j].approval = job[j].approval
               /\ \A x \in job'[j].listed : x.approval \in ApprovalId /\ Stored(x.approval)
      PROVE  StoredOnce'
  <2>1. \A a \in envelopes' : approvals'[a] # None
    BY <1>2
  <2>2. ASSUME NEW i \in Job, job'[i] # None
        PROVE  /\ job'[i].step \in Asking => approvals'[job'[i].approval] = None
               /\ job'[i].step \notin Asking /\ job'[i].approval # None => approvals'[job'[i].approval] # None
               /\ \A x \in job'[i].listed : Stored(x.approval)'
    <3>1. CASE i # j
      <4>1. job'[i] = job[i]
        BY <1>2, <3>1 DEF OthersStay
      <4>2. job[i].step \in Asking => job[i].approval \in ApprovalId
        BY <1>0, <2>2, <4>1 DEF Shape, WorksRead, WellRead, Asking, Listing
      <4> QED BY <1>0, <1>1, <1>2, <2>2, <4>1, <4>2 DEF StoredOnce, Stored
    <3>2. CASE i = j
      <4>1. job[j] # None /\ job[j].step \in Asking => job[j].approval \in ApprovalId
        BY <1>0 DEF Shape, WorksRead, WellRead, Asking, Listing
      <4> QED BY <1>0, <1>1, <1>2, <2>2, <3>2, <4>1 DEF StoredOnce, Stored
    <3> QED BY <3>1, <3>2
  <2>3. ASSUME NEW i \in Job, NEW l \in Job, job'[i] # None, job'[l] # None, i # l,
               job'[i].step \in Asking, job'[l].step \in Asking
        PROVE  job'[i].approval # job'[l].approval
    BY <1>0, <1>2, <2>3 DEF StoredOnce, OthersStay
  <2> QED BY <1>0, <1>2, <2>1, <2>2, <2>3 DEF StoredOnce, Stored
<1>3. ASSUME approvals' = approvals PROVE Same
  BY <1>3 DEF Stored
<1>4. ASSUME NEW b \in ApprovalId, NEW row \in Approval, Stored(b),
             approvals' = [approvals EXCEPT ![b] = row]
      PROVE  Same
  BY <1>1, <1>4, NoneAssumption DEF Stored
<1>5. ASSUME UNCHANGED <<envelopes, claims>>
      PROVE  (\A a \in envelopes' : a \in ApprovalId /\ Stored(a)) /\ Claimed
  BY <1>0, <1>1, <1>5 DEF StoredOnce
<1>6. ASSUME NEW j \in Job, NEW s, Ends(j, s) PROVE job'[j] = None /\ OthersStay(j)
  BY <1>6 DEF Ends
\* A handler past its asking moves on, with what it had listed or less.
<1>7. ASSUME NEW j \in Job, NEW s, NEW u, Goes(j, s, u), s \notin Asking, u \notin Asking,
             job'[j].listed \subseteq job[j].listed
      PROVE  /\ OthersStay(j) /\ job'[j].step \notin Asking
             /\ job'[j].approval = None \/ (job'[j].approval \in ApprovalId /\ Stored(job'[j].approval))
             /\ \A x \in job'[j].listed : x.approval \in ApprovalId /\ Stored(x.approval)
  BY <1>0, <1>1, <1>7 DEF Goes, StoredOnce
<1>8. CASE UNCHANGED vars
  <2>1. UNCHANGED <<approvals, envelopes, claims, job>>
    BY <1>8 DEF vars
  <2> QED BY <1>0, <2>1 DEF StoredOnce, Stored
<1>9. CASE Create \/ FactsChange \/ Tick
  <2>1. UNCHANGED <<approvals, envelopes, claims, job>>
    BY <1>9 DEF Create, FactsChange, Tick, rows
  <2> QED BY <1>0, <2>1 DEF StoredOnce, Stored
<1>10. CASE Crash
  <2>1. /\ UNCHANGED <<approvals, envelopes>> /\ \A j \in Job : job'[j] = None
        /\ \A k \in Key : claims'[k] = None
    BY <1>10 DEF Crash, rows
  <2> QED BY <1>0, <2>1 DEF StoredOnce, Stored
<1>11. ASSUME NEW j \in Job, NEW a \in ApprovalId, RequestApproval(j, a) PROVE StoredOnce'
  <2>1. Begins(j, "mark", a) /\ job'[j].listed = {}
    BY <1>0, <1>11, RequestBegins
  <2>2. /\ UNCHANGED <<approvals, envelopes, claims>> /\ ~Stored(a)
        /\ \A i \in Job : job[i] # None => job[i].approval # a
    BY <1>11 DEF RequestApproval, rows, Stored
  <2>3. \A i \in Job \ {j} : job'[i] = job[i]
    BY <2>1 DEF Begins, OthersStay
  <2> QED BY <1>0, <2>1, <2>2, <2>3 DEF StoredOnce, Stored, Begins, Asking
<1>12. ASSUME NEW j \in Job, MarkPending(j) PROVE StoredOnce'
  <2>1. Goes(j, "mark", "save") /\ job'[j].listed = job[j].listed
    BY <1>0, <1>12, MovesOn DEF MarkPending, Keeps
  <2>2. UNCHANGED <<approvals, envelopes, claims>>
    BY <1>12 DEF MarkPending
  <2>3. \A x \in job[j].listed : x.approval \in ApprovalId /\ Stored(x.approval)
    BY <1>0, <1>1, <2>1 DEF StoredOnce, Goes
  <2>4. OthersStay(j) /\ job[j] # None /\ job[j].step \in Asking
        /\ job'[j].step \in Asking /\ job'[j].approval = job[j].approval
    BY <2>1 DEF Goes, Asking
  <2> QED BY <1>2, <1>3, <1>5, <2>1, <2>2, <2>3, <2>4
<1>13. ASSUME NEW j \in Job, SaveApproval(j) PROVE StoredOnce'
  <2>1. Ends(j, "save") /\ job[j].approval \in ApprovalId /\ job[j].seen \in Approval
    BY <1>0, <1>13, Replaced DEF SaveApproval, WellRead, Listing, Asking
  <2>2. approvals' = [approvals EXCEPT ![job[j].approval] = job[j].seen] /\ UNCHANGED <<envelopes, claims>>
    BY <1>13 DEF SaveApproval
  <2>3. \A a \in ApprovalId : approvals'[a] # None <=> Stored(a) \/ a = job[j].approval
    BY <1>1, <2>1, <2>2, NoneAssumption DEF Stored
  <2>4. \A i \in Job : job'[i] # None => i # j /\ job'[i] = job[i]
    BY <2>1 DEF Ends, OthersStay
  <2>5. ASSUME NEW i \in Job, job'[i] # None
        PROVE  /\ job'[i].step \in Asking => approvals'[job'[i].approval] = None
               /\ job'[i].step \notin Asking /\ job'[i].approval # None => approvals'[job'[i].approval] # None
               /\ \A x \in job'[i].listed : Stored(x.approval)'
    <3>1. i # j /\ job'[i] = job[i] /\ job[i] # None /\ job[j] # None /\ job[j].step \in Asking
      BY <2>1, <2>4, <2>5 DEF Ends, Asking
    <3>2. job[i].step \in Asking => job[i].approval \in ApprovalId
      BY <1>0, <3>1 DEF Shape, WorksRead, WellRead, Asking, Listing
    <3> QED BY <1>0, <1>1, <2>3, <3>1, <3>2 DEF StoredOnce, Stored
  <2>6. \A a \in envelopes' : approvals'[a] # None
    BY <1>0, <1>1, <2>2, <2>3 DEF StoredOnce
  <2>7. \A a \in ApprovalId : acts'[a] # 0 => approvals'[a] # None
    BY <1>0, <2>3 DEF Stored
  <2> QED BY <1>0, <2>2, <2>4, <2>5, <2>6, <2>7 DEF StoredOnce, Stored
<1>14. ASSUME NEW j \in Job, ExpireProposal(j) PROVE StoredOnce'
  <2>1. Goes(j, "expireProposal", "list") /\ job'[j].listed = job[j].listed
    BY <1>0, <1>14, MovesOn DEF ExpireProposal, Keeps
  <2>2. UNCHANGED <<approvals, envelopes, claims>>
    BY <1>14 DEF ExpireProposal
  <2> QED BY <1>2, <1>3, <1>5, <1>7, <2>1, <2>2 DEF Asking
<1>15. ASSUME NEW j \in Job, ListApprovals(j) PROVE StoredOnce'
  <2>1. UNCHANGED <<approvals, envelopes, claims>>
    BY <1>15 DEF ListApprovals, rows
  <2>2. CASE Ends(j, "list")
    BY <1>2, <1>3, <1>5, <1>6, <2>1, <2>2
  <2>3. CASE Goes(j, "list", "expire") /\ Keeps(j, job[j].seen, job[j].old, Found)
    <3>1. \A x \in job'[j].listed : x.approval \in ApprovalId /\ Stored(x.approval)
      BY <2>3 DEF Keeps, Found, Stored
    <3>2. job'[j].step \notin Asking /\ OthersStay(j)
          /\ (job'[j].approval = None \/ (job'[j].approval \in ApprovalId /\ Stored(job'[j].approval)))
      BY <1>0, <1>1, <2>3 DEF Goes, Asking, StoredOnce
    <3> QED BY <1>2, <1>3, <1>5, <2>1, <3>1, <3>2
  <2> QED BY <1>0, <1>15, <2>2, <2>3, ListMoves
<1>16. ASSUME NEW j \in Job, ExpireApproval(j) PROVE StoredOnce'
  <2>1. PICK x \in job[j].listed :
          /\ approvals' = [approvals EXCEPT ![x.approval] = [x.row EXCEPT !.status = "EXPIRED"]]
          /\ \/ Ends(j, "expire")
             \/ /\ Goes(j, "expire", "expire") /\ job'[j].listed = job[j].listed \ {x}
    BY <1>0, <1>16, ExpireMoves DEF Write, Keeps
  <2>2. x.approval \in ApprovalId /\ x.row \in Approval
    BY <1>0, <1>16, ExpireMoves
  <2>3. UNCHANGED <<envelopes, claims>> /\ Stored(x.approval) /\ [x.row EXCEPT !.status = "EXPIRED"] \in Approval
    BY <1>0, <1>16, <2>2 DEF ExpireApproval, StoredOnce, At, Approval, ApprovalStatus, ProposalStatus
  <2>4. Same
    BY <1>4, <2>1, <2>2, <2>3
  <2>5. CASE Ends(j, "expire")
    BY <1>2, <1>5, <1>6, <2>3, <2>4, <2>5
  <2>6. CASE Goes(j, "expire", "expire") /\ job'[j].listed = job[j].listed \ {x}
    BY <1>2, <1>5, <1>7, <2>3, <2>4, <2>6 DEF Asking
  <2> QED BY <2>1, <2>5, <2>6
<1>17. ASSUME NEW j \in Job, NEW a \in ApprovalId, NEW s \in {"decide", "prepare"},
              NEW d \in Decision \cup {None}, ReadApproval(j, a, s, d)
       PROVE  StoredOnce'
  <2>1. Begins(j, s, a) /\ job'[j].listed = {}
    BY <1>0, <1>17, ReadBegins DEF Keeps
  <2>2. UNCHANGED <<approvals, envelopes, claims>> /\ Stored(a)
    BY <1>17 DEF ReadApproval, rows, Stored
  <2> QED BY <1>2, <1>3, <1>5, <2>1, <2>2 DEF Begins, Asking
<1>18. ASSUME NEW j \in Job, ReadProposalAndDecide(j) PROVE StoredOnce'
  <2>1. UNCHANGED <<approvals, envelopes, claims>>
    BY <1>18 DEF ReadProposalAndDecide, rows
  <2>2. \/ Ends(j, "decide")
        \/ (Goes(j, "decide", "staleProposal") \/ Goes(j, "decide", "writeApproval"))
           /\ job'[j].listed = job[j].listed
    BY <1>0, <1>18, DecideMoves DEF Keeps
  <2> QED BY <1>2, <1>3, <1>5, <1>6, <1>7, <2>1, <2>2 DEF Asking
<1>19. ASSUME NEW j \in Job, ReadProposalAndPrepare(j) PROVE StoredOnce'
  <2>1. UNCHANGED <<approvals, claims>>
    BY <1>19 DEF ReadProposalAndPrepare, rows
  <2>2. \/ Ends(j, "prepare")
        \/ Goes(j, "prepare", "staleProposal") /\ job'[j].listed = job[j].listed
    BY <1>0, <1>19, PrepareMoves DEF Keeps
  <2>3. /\ job[j].approval \in ApprovalId /\ envelopes \subseteq envelopes'
        /\ envelopes' \subseteq envelopes \cup {job[j].approval}
        /\ job[j] # None /\ job[j].step \notin Asking
    BY <1>0, <1>19, PrepareMoves DEF At, Asking
  <2>4. Stored(job[j].approval)
    BY <1>0, <2>3, NoneAssumption DEF StoredOnce
  <2>5. (\A a \in envelopes' : a \in ApprovalId /\ Stored(a)) /\ Claimed
    BY <1>0, <1>1, <2>1, <2>3, <2>4 DEF StoredOnce
  <2> QED BY <1>2, <1>3, <1>6, <1>7, <2>1, <2>2, <2>5 DEF Asking
<1>20. ASSUME NEW j \in Job, StaleProposal(j) PROVE StoredOnce'
  <2>1. Goes(j, "staleProposal", "staleApproval") /\ job'[j].listed = job[j].listed
    BY <1>0, <1>20, MovesOn DEF StaleProposal, Keeps
  <2>2. UNCHANGED <<approvals, envelopes, claims>>
    BY <1>20 DEF StaleProposal
  <2> QED BY <1>2, <1>3, <1>5, <1>7, <2>1, <2>2 DEF Asking
<1>21. ASSUME NEW j \in Job, NEW s \in {"staleApproval", "writeApproval", "consumed"}, At(j, s)
       PROVE  /\ job[j].approval \in ApprovalId /\ Stored(job[j].approval)
              /\ \A t \in ApprovalStatus : [job[j].seen EXCEPT !.status = t] \in Approval
              /\ job[j].seen \in Approval
  <2>1. job[j] # None /\ job[j].step = s /\ job[j].approval \in ApprovalId /\ job[j].seen \in Approval
    BY <1>0, <1>21, Replaced DEF WellRead, Listing, Reading
  <2>2. Stored(job[j].approval)
    BY <1>0, <2>1, NoneAssumption DEF StoredOnce, Asking
  <2> QED BY <2>1, <2>2 DEF Approval
<1>22. ASSUME NEW j \in Job, StaleApproval(j) PROVE StoredOnce'
  <2>1. Ends(j, "staleApproval") /\ UNCHANGED <<envelopes, claims>>
        /\ approvals' = [approvals EXCEPT ![job[j].approval] = [job[j].seen EXCEPT !.status = "STALE"]]
    BY <1>0, <1>22, Replaced DEF StaleApproval, WriteApproval, Write
  <2>2. [job[j].seen EXCEPT !.status = "STALE"] \in Approval /\ job[j].approval \in ApprovalId
        /\ Stored(job[j].approval)
    BY <1>21, <1>22 DEF StaleApproval, ApprovalStatus, ProposalStatus
  <2>3. Same
    BY <1>4, <2>1, <2>2
  <2> QED BY <1>2, <1>5, <1>6, <2>1, <2>3
<1>23. ASSUME NEW j \in Job, Consume(j) PROVE StoredOnce'
  <2>1. Ends(j, "consumed") /\ UNCHANGED <<envelopes, claims>>
        /\ approvals' = [approvals EXCEPT ![job[j].approval] = [job[j].seen EXCEPT !.status = "CONSUMED"]]
    BY <1>0, <1>23, Replaced DEF Consume, WriteApproval, Write, Spent
  <2>2. [job[j].seen EXCEPT !.status = "CONSUMED"] \in Approval /\ job[j].approval \in ApprovalId
        /\ Stored(job[j].approval)
    BY <1>21, <1>23 DEF Consume, ApprovalStatus
  <2>3. Same
    BY <1>4, <2>1, <2>2
  <2> QED BY <1>2, <1>5, <1>6, <2>1, <2>3
<1>24. ASSUME NEW j \in Job, WriteDecision(j) PROVE StoredOnce'
  <2>1. Goes(j, "writeApproval", "writeProposal") /\ job'[j].listed = job[j].listed
    BY <1>0, <1>24, WriteDecisionMoves DEF Keeps
  <2>2. UNCHANGED <<envelopes, claims>> /\ approvals' = [approvals EXCEPT ![job[j].approval] = job[j].seen]
    BY <1>24 DEF WriteDecision, WriteApproval, Write
  <2>3. Same
    BY <1>4, <1>21, <1>24, <2>2 DEF WriteDecision
  <2> QED BY <1>2, <1>5, <1>7, <2>1, <2>2, <2>3 DEF Asking
<1>25. ASSUME NEW j \in Job, WriteProposal(j) PROVE StoredOnce'
  <2>1. Ends(j, "writeProposal") /\ UNCHANGED <<approvals, envelopes, claims>>
    BY <1>0, <1>25, Replaced DEF WriteProposal
  <2> QED BY <1>2, <1>3, <1>5, <1>6, <2>1
<1>26. ASSUME NEW j \in Job, NEW k \in Key, NEW a \in ApprovalId, ClaimKey(j, k, a) PROVE StoredOnce'
  <2>1. Begins(j, "validate", a) /\ job'[j].listed = {}
    BY <1>0, <1>26, ClaimBegins DEF Keeps
  <2>2. UNCHANGED <<approvals, envelopes>> /\ a \in envelopes
        /\ claims' = [claims EXCEPT ![k] = [approval |-> a, receipt |-> None]]
    BY <1>26 DEF ClaimKey, rows
  <2>3. Stored(a) /\ Claimed /\ \A b \in envelopes' : b \in ApprovalId /\ Stored(b)
    BY <1>0, <1>1, <2>2 DEF StoredOnce
  <2> QED BY <1>2, <1>3, <2>1, <2>2, <2>3 DEF Begins, Asking
<1>27. ASSUME NEW j \in Job, Validate(j) PROVE StoredOnce'
  <2>1. UNCHANGED <<approvals, envelopes, claims>>
    BY <1>27 DEF Validate, rows
  <2>2. Ends(j, "validate") \/ (Goes(j, "validate", "call") /\ job'[j].listed = job[j].listed)
    BY <1>0, <1>27, ValidateMoves DEF Keeps
  <2> QED BY <1>2, <1>3, <1>5, <1>6, <1>7, <2>1, <2>2 DEF Asking
<1>28. ASSUME NEW j \in Job, Call(j) PROVE StoredOnce'
  <2>1. UNCHANGED <<approvals, envelopes, claims>>
    BY <1>28 DEF Call, rows
  <2>2. Goes(j, "call", "complete") /\ job'[j].listed = job[j].listed
    BY <1>0, <1>28, CallMoves DEF Keeps
  <2> QED BY <1>2, <1>3, <1>5, <1>7, <2>1, <2>2 DEF Asking
<1>29. ASSUME NEW j \in Job, Complete(j) PROVE StoredOnce'
  <2>1. Goes(j, "complete", "consume") /\ job'[j].listed = job[j].listed
    BY <1>0, <1>29, MovesOn DEF Complete, Keeps
  <2>2. UNCHANGED <<approvals, envelopes>>
        /\ claims' = [claims EXCEPT ![job[j].key].receipt = job[j].outcome]
    BY <1>29 DEF Complete, rows
  <2>3. job[j].key \in Key /\ claims[job[j].key] # None
    BY <1>0, <2>1 DEF IInv, KeysHeld, Goes, Executing, InFlight, Shape, WorksRead, WellRead
  <2>4. \A k \in Key : claims'[k] # None => claims[k] # None /\ claims'[k].approval = claims[k].approval
    BY <1>1, <2>2, <2>3 DEF Claim
  <2>5. Claimed /\ \A b \in envelopes' : b \in ApprovalId /\ Stored(b)
    BY <1>0, <1>1, <2>2, <2>4 DEF StoredOnce
  <2> QED BY <1>2, <1>3, <1>7, <2>1, <2>2, <2>5 DEF Asking
<1>30. ASSUME NEW j \in Job, ConsumeRead(j) PROVE StoredOnce'
  <2>1. UNCHANGED <<approvals, envelopes, claims>>
    BY <1>30 DEF ConsumeRead, rows
  <2>2. Goes(j, "consume", "consumed") /\ job'[j].listed = job[j].listed
    BY <1>0, <1>30, ConsumeReadMoves DEF Keeps
  <2> QED BY <1>2, <1>3, <1>5, <1>7, <2>1, <2>2 DEF Asking
<1>31. ASSUME NEW j \in Job, Expire(j) PROVE StoredOnce'
  <2>1. UNCHANGED <<approvals, envelopes, claims>>
    BY <1>31 DEF Expire, rows
  <2>2. Begins(j, "expireProposal", None) /\ job'[j].listed = {}
    BY <1>0, <1>31, ExpireBegins DEF Keeps
  <2> QED BY <1>2, <1>3, <1>5, <2>1, <2>2 DEF Begins, Asking
<1>32. ASSUME NEW j \in Job, NEW a \in ApprovalId, NEW d \in Decision, Decide(j, a, d) PROVE StoredOnce'
  BY <1>32, <1>17 DEF Decide
<1>33. ASSUME NEW j \in Job, NEW a \in ApprovalId, Prepare(j, a) PROVE StoredOnce'
  BY <1>33, <1>17 DEF Prepare
<1> QED
  BY <1>8, <1>9, <1>10, <1>11, <1>12, <1>13, <1>14, <1>15, <1>16, <1>18, <1>19, <1>20, <1>22,
     <1>23, <1>24, <1>25, <1>26, <1>27, <1>28, <1>29, <1>30, <1>31, <1>32, <1>33,
     Zenon DEF Next, Step

-----------------------------------------------------------------------------
(* An execution holds its key.                                             *)

\* No step takes a key that another execution holds, or acts on one twice.
LEMMA KeysHeldKept == IInv /\ [Next]_vars => KeysHeld'
<1> SUFFICES ASSUME IInv, [Next]_vars PROVE KeysHeld'
  OBVIOUS
<1>0. Shape /\ StoredOnce /\ KeysHeld
  BY DEF IInv
<1>1. /\ claims \in [Key -> Claim \cup {None}] /\ effects \in [Key -> Nat]
      /\ \A j \in Job : job[j] # None /\ job[j].step \in Executing =>
           job[j].key \in Key /\ job[j].approval \in ApprovalId
  BY <1>0 DEF Shape, TypeOK, WorksRead, WellRead, Executing, InFlight, Listing
\* A handler that does not execute, or goes on with the execution it is in.
<1>2. ASSUME NEW j \in Job, OthersStay(j), UNCHANGED <<claims, effects>>,
             job'[j] # None =>
               \/ job'[j].step \notin Executing
               \/ /\ job[j] # None /\ job[j].step \in Executing
                  /\ job'[j].key = job[j].key /\ job'[j].approval = job[j].approval
                  /\ job'[j].step \in Acting => job[j].step \in Acting
      PROVE  KeysHeld'
  <2>1. ASSUME NEW i \in Job, job'[i] # None, job'[i].step \in Executing
        PROVE  /\ job[i] # None /\ job[i].step \in Executing
               /\ job'[i].key = job[i].key /\ job'[i].approval = job[i].approval
               /\ job'[i].step \in Acting => job[i].step \in Acting
    BY <1>2, <2>1 DEF OthersStay
  <2> QED BY <1>0, <1>2, <2>1 DEF KeysHeld
<1>3. ASSUME NEW j \in Job, NEW s, Ends(j, s) PROVE job'[j] = None /\ OthersStay(j)
  BY <1>3 DEF Ends
<1>4. ASSUME NEW j \in Job, UNCHANGED <<claims, effects>>,
             \/ \E s : Ends(j, s)
             \/ \E s, u : Goes(j, s, u) /\ u \notin Executing
             \/ \E u, a : Begins(j, u, a) /\ u \notin Executing
      PROVE  KeysHeld'
  BY <1>2, <1>4 DEF Ends, Goes, Begins
<1>5. CASE UNCHANGED vars
  BY <1>0, <1>5 DEF vars, KeysHeld
<1>6. CASE Create \/ FactsChange \/ Tick
  <2>1. UNCHANGED <<claims, effects, job>>
    BY <1>6 DEF Create, FactsChange, Tick
  <2> QED BY <1>0, <2>1 DEF KeysHeld
<1>7. CASE Crash
  <2>1. \A j \in Job : job'[j] = None
    BY <1>7 DEF Crash
  <2>2. \A k \in Key : effects'[k] = 0
    BY <1>7 DEF Crash
  <2> QED BY <2>1, <2>2 DEF KeysHeld
<1> USE DEF Executing, InFlight
<1>8. ASSUME NEW j \in Job, NEW a \in ApprovalId, RequestApproval(j, a) PROVE KeysHeld'
  <2>1. UNCHANGED <<claims, effects>>
    BY <1>8 DEF RequestApproval
  <2>2. Begins(j, "mark", a)
    BY <1>0, <1>8, RequestBegins
  <2> QED BY <1>4, <2>1, <2>2
<1>9. ASSUME NEW j \in Job, MarkPending(j) PROVE KeysHeld'
  BY <1>0, <1>4, <1>9, MovesOn DEF MarkPending
<1>10. ASSUME NEW j \in Job, SaveApproval(j) PROVE KeysHeld'
  BY <1>0, <1>4, <1>10, Replaced DEF SaveApproval
<1>11. ASSUME NEW j \in Job, ExpireProposal(j) PROVE KeysHeld'
  BY <1>0, <1>4, <1>11, MovesOn DEF ExpireProposal
<1>12. ASSUME NEW j \in Job, ListApprovals(j) PROVE KeysHeld'
  <2>1. UNCHANGED <<claims, effects>>
    BY <1>12 DEF ListApprovals
  <2>2. Ends(j, "list") \/ Goes(j, "list", "expire")
    BY <1>0, <1>12, ListMoves
  <2> QED BY <1>4, <2>1, <2>2
<1>13. ASSUME NEW j \in Job, ExpireApproval(j) PROVE KeysHeld'
  <2>1. UNCHANGED <<claims, effects>>
    BY <1>13 DEF ExpireApproval
  <2>2. Ends(j, "expire") \/ Goes(j, "expire", "expire")
    BY <1>0, <1>13, ExpireMoves
  <2> QED BY <1>4, <2>1, <2>2
<1>14. ASSUME NEW j \in Job, NEW a \in ApprovalId, NEW s \in {"decide", "prepare"},
              NEW d \in Decision \cup {None}, ReadApproval(j, a, s, d)
       PROVE  KeysHeld'
  BY <1>0, <1>4, <1>14, ReadBegins DEF ReadApproval
<1>15. ASSUME NEW j \in Job, ReadProposalAndDecide(j) PROVE KeysHeld'
  <2>1. UNCHANGED <<claims, effects>>
    BY <1>15 DEF ReadProposalAndDecide
  <2>2. Ends(j, "decide") \/ Goes(j, "decide", "staleProposal") \/ Goes(j, "decide", "writeApproval")
    BY <1>0, <1>15, DecideMoves
  <2> QED BY <1>4, <2>1, <2>2
<1>16. ASSUME NEW j \in Job, ReadProposalAndPrepare(j) PROVE KeysHeld'
  <2>1. UNCHANGED <<claims, effects>>
    BY <1>16 DEF ReadProposalAndPrepare
  <2>2. Ends(j, "prepare") \/ Goes(j, "prepare", "staleProposal")
    BY <1>0, <1>16, PrepareMoves
  <2> QED BY <1>4, <2>1, <2>2
<1>17. ASSUME NEW j \in Job, StaleProposal(j) PROVE KeysHeld'
  BY <1>0, <1>4, <1>17, MovesOn DEF StaleProposal
<1>18. ASSUME NEW j \in Job, StaleApproval(j) PROVE KeysHeld'
  BY <1>0, <1>4, <1>18, Replaced DEF StaleApproval
<1>19. ASSUME NEW j \in Job, WriteDecision(j) PROVE KeysHeld'
  <2>1. UNCHANGED <<claims, effects>>
    BY <1>19 DEF WriteDecision
  <2>2. Goes(j, "writeApproval", "writeProposal")
    BY <1>0, <1>19, WriteDecisionMoves
  <2> QED BY <1>4, <2>1, <2>2
<1>20. ASSUME NEW j \in Job, WriteProposal(j) PROVE KeysHeld'
  BY <1>0, <1>4, <1>20, Replaced DEF WriteProposal
<1>21. ASSUME NEW j \in Job, NEW k \in Key, NEW a \in ApprovalId, ClaimKey(j, k, a) PROVE KeysHeld'
  <2>1. Begins(j, "validate", a) /\ job'[j].key = k
    BY <1>0, <1>21, ClaimBegins
  <2>2. /\ claims[k] = None /\ claims' = [claims EXCEPT ![k] = [approval |-> a, receipt |-> None]]
        /\ effects' = effects
    BY <1>21 DEF ClaimKey, MayClaim
  <2>3. claims'[k] # None /\ claims'[k].approval = a /\ \A l \in Key \ {k} : claims'[l] = claims[l]
    BY <1>1, <2>2, NoneAssumption DEF Claim
  <2>4. ASSUME NEW i \in Job, job'[i] # None, job'[i].step \in Executing, i # j
        PROVE  job[i] # None /\ job'[i] = job[i] /\ job[i].key \in Key \ {k}
    BY <1>0, <1>1, <2>1, <2>2, <2>4 DEF Begins, OthersStay, KeysHeld
  <2> QED BY <1>0, <2>1, <2>2, <2>3, <2>4 DEF KeysHeld, Begins, Acting
<1>22. ASSUME NEW j \in Job, Validate(j) PROVE KeysHeld'
  <2>1. UNCHANGED <<claims, effects>>
    BY <1>22 DEF Validate
  <2>2. Ends(j, "validate") \/ Goes(j, "validate", "call")
    BY <1>0, <1>22, ValidateMoves
  <2>3. CASE Ends(j, "validate")
    BY <1>4, <2>1, <2>3
  <2>4. CASE Goes(j, "validate", "call")
    BY <1>2, <2>1, <2>4 DEF Goes, Acting
  <2> QED BY <2>2, <2>3, <2>4
<1>23. ASSUME NEW j \in Job, Call(j) PROVE KeysHeld'
  <2>1. Goes(j, "call", "complete")
    BY <1>0, <1>23, CallMoves
  <2>2. claims' = claims /\ (effects' = [effects EXCEPT ![job[j].key] = @ + 1] \/ effects' = effects)
    BY <1>23 DEF Call
  <2>3. job[j].key \in Key /\ effects[job[j].key] = 0 /\ claims[job[j].key] # None
    BY <1>0, <1>1, <2>1 DEF Goes, KeysHeld, Acting
  <2>4. /\ \A l \in Key \ {job[j].key} : effects'[l] = effects[l]
        /\ effects'[job[j].key] <= 1
    BY <1>1, <2>2, <2>3
  <2>5. ASSUME NEW i \in Job, job'[i] # None, job'[i].step \in Executing, i # j
        PROVE  job[i] # None /\ job'[i] = job[i] /\ job[i].key \in Key \ {job[j].key}
    BY <1>0, <1>1, <2>1, <2>5 DEF Goes, OthersStay, KeysHeld
  <2>6. ASSUME NEW i \in Job, job'[i] # None, job'[i].step \in Executing
        PROVE  /\ claims'[job'[i].key] # None /\ claims'[job'[i].key].approval = job'[i].approval
               /\ job'[i].step \in Acting => effects'[job'[i].key] = 0
               /\ job[i] # None /\ job[i].step \in Executing /\ job'[i].key = job[i].key
    BY <1>0, <2>1, <2>2, <2>4, <2>5, <2>6 DEF KeysHeld, Goes, Acting
  <2>7. \A k \in Key : effects'[k] <= 1 /\ (claims'[k] = None => effects'[k] = 0)
    BY <1>0, <2>2, <2>3, <2>4 DEF KeysHeld
  <2> QED BY <1>0, <2>6, <2>7 DEF KeysHeld
<1>24. ASSUME NEW j \in Job, Complete(j) PROVE KeysHeld'
  <2>1. Goes(j, "complete", "consume")
    BY <1>0, <1>24, MovesOn DEF Complete
  <2>2. effects' = effects /\ claims' = [claims EXCEPT ![job[j].key].receipt = job[j].outcome]
    BY <1>24 DEF Complete
  <2>3. job[j].key \in Key /\ claims[job[j].key] # None
    BY <1>0, <1>1, <2>1 DEF Goes, KeysHeld
  <2>4. \A k \in Key : (claims'[k] = None <=> claims[k] = None)
                       /\ (claims[k] # None => claims'[k].approval = claims[k].approval)
    <3>1. job[j].outcome \in Outcome \cup {None}
      BY <1>0, <2>1 DEF Shape, TypeOK, Goes, Work
    <3>2. [claims[job[j].key] EXCEPT !.receipt = job[j].outcome] \in Claim
          /\ [claims[job[j].key] EXCEPT !.receipt = job[j].outcome].approval = claims[job[j].key].approval
      BY <1>1, <2>3, <3>1 DEF Claim
    <3> QED BY <1>1, <2>2, <2>3, <3>2, NoneAssumption
  <2>5. ASSUME NEW i \in Job, job'[i] # None, job'[i].step \in Executing
        PROVE  /\ job[i] # None /\ job[i].step \in Executing
               /\ job'[i].key = job[i].key /\ job'[i].approval = job[i].approval
               /\ job'[i].step \in Acting => job[i].step \in Acting
    BY <2>1, <2>5 DEF OthersStay, Goes, Acting
  <2> QED BY <1>0, <1>1, <2>2, <2>4, <2>5 DEF KeysHeld
<1>25. ASSUME NEW j \in Job, ConsumeRead(j) PROVE KeysHeld'
  <2>1. UNCHANGED <<claims, effects>>
    BY <1>25 DEF ConsumeRead
  <2>2. Goes(j, "consume", "consumed")
    BY <1>0, <1>25, ConsumeReadMoves
  <2> QED BY <1>2, <2>1, <2>2 DEF Goes, Acting
<1>26. ASSUME NEW j \in Job, Consume(j) PROVE KeysHeld'
  BY <1>0, <1>4, <1>26, Replaced DEF Consume
<1>27. ASSUME NEW j \in Job, Expire(j) PROVE KeysHeld'
  BY <1>0, <1>4, <1>27, ExpireBegins DEF Expire
<1>28. ASSUME NEW j \in Job, NEW a \in ApprovalId, NEW d \in Decision, Decide(j, a, d) PROVE KeysHeld'
  BY <1>28, <1>14 DEF Decide
<1>29. ASSUME NEW j \in Job, NEW a \in ApprovalId, Prepare(j, a) PROVE KeysHeld'
  BY <1>29, <1>14 DEF Prepare
<1> QED
  BY <1>5, <1>6, <1>7, <1>8, <1>9, <1>10, <1>11, <1>12, <1>13, <1>15, <1>16, <1>17, <1>18, <1>19,
     <1>20, <1>21, <1>22, <1>23, <1>24, <1>25, <1>26, <1>27, <1>28, <1>29,
     Zenon DEF Next, Step

-----------------------------------------------------------------------------
(* Approvers and open role sets.                                           *)

\* The open role sets are finitely many.
LEMMA RemainingFinite ==
  ASSUME NEW row
  PROVE  /\ IsFiniteSet(Remaining(row)) /\ Cardinality(Remaining(row)) \in Nat
         /\ Cardinality(Remaining(row)) <= Len(RoleSets) /\ Len(RoleSets) \in Nat
<1>1. Len(RoleSets) \in Nat /\ DOMAIN RoleSets = 1..Len(RoleSets)
  BY PolicyAssumption
<1>2. IsFiniteSet(1..Len(RoleSets)) /\ Cardinality(1..Len(RoleSets)) = Len(RoleSets)
  <2>1. IsFiniteSet(1..Len(RoleSets))
    BY <1>1, FS_Interval
  <2>2. Cardinality(1..Len(RoleSets)) = IF 1 > Len(RoleSets) THEN 0 ELSE Len(RoleSets) - 1 + 1
    BY <1>1, FS_Interval
  <2> QED BY <1>1, <2>1, <2>2
<1>3. Remaining(row) \subseteq 1..Len(RoleSets)
  BY <1>1 DEF Remaining
<1>4. IsFiniteSet(Remaining(row)) /\ Cardinality(Remaining(row)) <= Cardinality(1..Len(RoleSets))
  BY <1>2, <1>3, FS_Subset
<1> QED BY <1>1, <1>2, <1>4, FS_CardinalityType

\* Who approved, and what is open, depend on the decisions only.
LEMMA SoundWhenClosed ==
  ASSUME NEW row \in Approval, Sound(row), NEW t \in {"STALE", "EXPIRED", "CONSUMED"}
  PROVE  Sound([row EXCEPT !.status = t])
<1> DEFINE new == [row EXCEPT !.status = t]
<1>1. new.decisions = row.decisions /\ new.status = t
  BY DEF Approval
<1> HIDE DEF new
<1>2. Approvers(new) = Approvers(row)
  BY <1>1 DEF Approvers
<1>3. Remaining(new) = Remaining(row)
  BY <1>2 DEF Remaining
<1>4. Sound(new)
  BY <1>1, <1>2, <1>3 DEF Sound
<1> QED BY <1>4 DEF new

\* A new approval has every role set open.
LEMMA SoundWhenNew ==
  ASSUME NEW row, row.status = "PENDING", row.decisions = {}
  PROVE  Sound(row)
<1>1. Approvers(row) = {}
  BY DEF Approvers
<1>2. IsFiniteSet(Approvers(row)) /\ Cardinality(Approvers(row)) = 0
  BY <1>1, FS_EmptySet
<1> QED BY <1>2, RemainingFinite DEF Sound

\* decide: one approver more covers an open role set.
LEMMA SoundWhenDecided ==
  ASSUME NEW row \in Approval, Sound(row), row.status = "PENDING",
         NEW d \in Decision, Eligible(row, d.by)
  PROVE  Sound(Decided(row, d))
<1> DEFINE more == [row EXCEPT !.decisions = @ \cup {d}]
<1>1. more.decisions = row.decisions \cup {d} /\ more.status = "PENDING" /\ more \in Approval
  BY DEF Approval
<1>2. \A t : [more EXCEPT !.status = t].decisions = more.decisions /\ [more EXCEPT !.status = t].status = t
  BY <1>1 DEF Approval
<1>3. Decided(row, d) = IF d.say = "REJECT" THEN [more EXCEPT !.status = "REJECTED"]
                        ELSE IF FullyApproved(more) THEN [more EXCEPT !.status = "APPROVED"] ELSE more
  BY DEF Decided
<1> HIDE DEF more
<1> DEFINE new == Decided(row, d)
<1>4. new.decisions = row.decisions \cup {d}
  BY <1>1, <1>2, <1>3
<1>5. d.say \in {"APPROVE", "REJECT"} /\ row.decisions \subseteq Decision
  BY DEF Decision, Approval
<1>6. /\ new.status = "APPROVED" => FullyApproved(more) /\ d.say # "REJECT"
      /\ d.say = "REJECT" => new.status = "REJECTED"
  BY <1>1, <1>2, <1>3
<1> HIDE DEF new
<1>7. Approvers(more) = Approvers(new)
  BY <1>1, <1>4 DEF Approvers
<1>8. new.status = "APPROVED" => FullyApproved(new)
  BY <1>6, <1>7 DEF FullyApproved
<1>9. CASE d.say = "REJECT"
  <2>1. Approvers(new) = Approvers(row)
    BY <1>4, <1>9 DEF Approvers
  <2>2. Remaining(new) = Remaining(row)
    BY <2>1 DEF Remaining
  <2>3. Sound(new)
    BY <1>6, <1>9, <2>1, <2>2 DEF Sound
  <2> QED BY <2>3 DEF new
<1>10. CASE d.say = "APPROVE"
  <2>1. Approvers(new) = Approvers(row) \cup {d.by}
    BY <1>4, <1>10 DEF Approvers
  <2>2. d.by \notin Approvers(row)
    BY DEF Eligible, Approvers
  <2>3. IsFiniteSet(Approvers(new)) /\ Cardinality(Approvers(new)) = Cardinality(Approvers(row)) + 1
    BY <2>1, <2>2, FS_AddElement DEF Sound
  <2>4. PICK i \in Remaining(row) : Covers(d.by, i)
    BY DEF Eligible
  <2>5. Remaining(new) \subseteq Remaining(row) \ {i}
    BY <2>1, <2>4 DEF Remaining
  <2>6. Cardinality(Remaining(new)) <= Cardinality(Remaining(row)) - 1
    <3>1. IsFiniteSet(Remaining(row) \ {i}) /\ Cardinality(Remaining(row) \ {i}) = Cardinality(Remaining(row)) - 1
      BY <2>4, RemainingFinite, FS_RemoveElement
    <3>2. Cardinality(Remaining(new)) <= Cardinality(Remaining(row) \ {i})
      BY <2>5, <3>1, FS_Subset
    <3> QED BY <3>1, <3>2
  <2>7. Cardinality(Remaining(new)) + Cardinality(Approvers(new)) <= Len(RoleSets)
    <3>1. /\ Cardinality(Remaining(new)) \in Nat /\ Cardinality(Remaining(row)) \in Nat
          /\ Cardinality(Approvers(row)) \in Nat /\ Len(RoleSets) \in Nat
      BY RemainingFinite, FS_CardinalityType DEF Sound
    <3>2. Cardinality(Remaining(row)) + Cardinality(Approvers(row)) <= Len(RoleSets)
      BY DEF Sound
    <3> QED BY <2>3, <2>6, <3>1, <3>2
  <2>8. \A e \in new.decisions : e.say # "REJECT"
    BY <1>4, <1>10 DEF Sound
  <2>9. Sound(new)
    BY <1>8, <2>3, <2>7, <2>8 DEF Sound
  <2> QED BY <2>9 DEF new
<1> QED BY <1>5, <1>9, <1>10

\* A sound approval that counts as approved is backed by everyone it needs.
LEMMA SoundIsBacked ==
  ASSUME NEW row, Sound(row), row.status = "APPROVED"
  PROVE  Backed(row)
<1>1. /\ Cardinality(Remaining(row)) \in Nat /\ Len(RoleSets) \in Nat
      /\ Cardinality(Approvers(row)) \in Nat /\ IsFiniteSet(Remaining(row))
  BY RemainingFinite, FS_CardinalityType DEF Sound
<1>2. Cardinality(Approvers(row)) >= Len(RoleSets)
  BY DEF Sound, FullyApproved
<1>3. Cardinality(Remaining(row)) = 0
  BY <1>1, <1>2 DEF Sound
<1>4. Remaining(row) = {}
  BY <1>1, <1>3, FS_EmptySet
<1> QED BY <1>2, <1>4 DEF Sound, Backed

\* No step stores, or holds, an approval with more approvers than closed role sets.
LEMMA RowsSoundKept == IInv /\ [Next]_vars => RowsSound'
<1> SUFFICES ASSUME IInv, [Next]_vars PROVE RowsSound'
  OBVIOUS
<1>0. Shape /\ StoredOnce /\ RowsSound
  BY DEF IInv
<1>1. /\ approvals \in [ApprovalId -> Approval \cup {None}]
      /\ \A j \in Job : job[j] # None =>
           /\ job[j].seen \in Approval \cup {None} /\ job[j].old \in Approval \cup {None}
           /\ job[j].listed \subseteq [approval : ApprovalId, row : Approval]
  BY <1>0 DEF Shape, TypeOK, Work
<1> DEFINE Kept == \A a \in ApprovalId : approvals'[a] # None => Sound(approvals'[a])
<1>2. ASSUME NEW j \in Job, OthersStay(j), Kept,
             job'[j] # None =>
               /\ job'[j].seen # None => Sound(job'[j].seen)
               /\ job'[j].old # None => Sound(job'[j].old)
               /\ \A x \in job'[j].listed : Sound(x.row)
               /\ job'[j].step = "call" => job'[j].seen.status = "APPROVED"
      PROVE  RowsSound'
  <2>1. ASSUME NEW i \in Job, job'[i] # None
        PROVE  /\ job'[i].seen # None => Sound(job'[i].seen)
               /\ job'[i].old # None => Sound(job'[i].old)
               /\ \A x \in job'[i].listed : Sound(x.row)
               /\ job'[i].step = "call" => job'[i].seen.status = "APPROVED"
    BY <1>0, <1>2, <2>1 DEF RowsSound, OthersStay
  <2> QED BY <1>2, <2>1 DEF RowsSound
<1>3. ASSUME approvals' = approvals PROVE Kept
  BY <1>0, <1>3 DEF RowsSound
<1>4. ASSUME NEW b \in ApprovalId, NEW row, Sound(row),
             approvals' = [approvals EXCEPT ![b] = row]
      PROVE  Kept
  BY <1>0, <1>1, <1>4 DEF RowsSound
<1>5. ASSUME NEW j \in Job, NEW s, Ends(j, s) PROVE job'[j] = None /\ OthersStay(j)
  BY <1>5 DEF Ends
\* A handler that goes on with what it had read.
<1>6. ASSUME NEW j \in Job, NEW s, NEW u, Goes(j, s, u), u # "call",
             job'[j].seen = job[j].seen \/ job'[j].seen = None, 
             job'[j].old = job[j].old \/ job'[j].old = None,
             job'[j].listed \subseteq job[j].listed
      PROVE  /\ OthersStay(j)
             /\ job'[j].seen # None => Sound(job'[j].seen)
             /\ job'[j].old # None => Sound(job'[j].old)
             /\ \A x \in job'[j].listed : Sound(x.row)
             /\ job'[j].step # "call"
  BY <1>0, <1>6 DEF Goes, RowsSound
<1>7. CASE UNCHANGED vars
  <2>1. UNCHANGED <<approvals, job>>
    BY <1>7 DEF vars
  <2> QED BY <1>0, <2>1 DEF RowsSound
<1>8. CASE Create \/ FactsChange \/ Tick
  <2>1. UNCHANGED <<approvals, job>>
    BY <1>8 DEF Create, FactsChange, Tick, rows
  <2> QED BY <1>0, <2>1 DEF RowsSound
<1>9. CASE Crash
  <2>1. UNCHANGED approvals /\ \A j \in Job : job'[j] = None
    BY <1>9 DEF Crash, rows
  <2> QED BY <1>0, <2>1 DEF RowsSound
<1>10. ASSUME NEW j \in Job, NEW a \in ApprovalId, RequestApproval(j, a) PROVE RowsSound'
  <2>1. /\ Begins(j, "mark", a) /\ job'[j].old = None /\ job'[j].listed = {}
        /\ job'[j].seen.status = "PENDING" /\ job'[j].seen.decisions = {}
    BY <1>0, <1>10, RequestBegins
  <2>2. Sound(job'[j].seen)
    BY <2>1, SoundWhenNew
  <2>3. UNCHANGED approvals
    BY <1>10 DEF RequestApproval, rows
  <2> QED BY <1>2, <1>3, <2>1, <2>2, <2>3 DEF Begins
<1>11. ASSUME NEW j \in Job, MarkPending(j) PROVE RowsSound'
  <2>1. Goes(j, "mark", "save") /\ Keeps(j, job[j].seen, job[j].old, job[j].listed)
    BY <1>0, <1>11, MovesOn DEF MarkPending
  <2>2. UNCHANGED approvals
    BY <1>11 DEF MarkPending
  <2> QED BY <1>2, <1>3, <1>6, <2>1, <2>2 DEF Keeps
<1>12. ASSUME NEW j \in Job, SaveApproval(j) PROVE RowsSound'
  <2>1. Ends(j, "save") /\ job[j].approval \in ApprovalId /\ job[j].seen \in Approval /\ job[j] # None
    BY <1>0, <1>12, Replaced DEF SaveApproval, WellRead, Listing, Asking
  <2>2. approvals' = [approvals EXCEPT ![job[j].approval] = job[j].seen]
    BY <1>12 DEF SaveApproval
  <2>3. Sound(job[j].seen)
    BY <1>0, <2>1, NoneAssumption DEF RowsSound
  <2> QED BY <1>2, <1>4, <1>5, <2>1, <2>2, <2>3
<1>13. ASSUME NEW j \in Job, ExpireProposal(j) PROVE RowsSound'
  <2>1. Goes(j, "expireProposal", "list") /\ Keeps(j, job[j].seen, job[j].old, job[j].listed)
    BY <1>0, <1>13, MovesOn DEF ExpireProposal
  <2>2. UNCHANGED approvals
    BY <1>13 DEF ExpireProposal
  <2> QED BY <1>2, <1>3, <1>6, <2>1, <2>2 DEF Keeps
<1>14. ASSUME NEW j \in Job, ListApprovals(j) PROVE RowsSound'
  <2>1. UNCHANGED approvals
    BY <1>14 DEF ListApprovals, rows
  <2>2. CASE Ends(j, "list")
    BY <1>2, <1>3, <1>5, <2>1, <2>2
  <2>3. CASE Goes(j, "list", "expire") /\ Keeps(j, job[j].seen, job[j].old, Found)
    <3>1. \A x \in Found : Sound(x.row)
      BY <1>0 DEF Found, RowsSound
    <3>2. /\ OthersStay(j) /\ job'[j].step # "call"
          /\ job'[j].seen # None => Sound(job'[j].seen)
          /\ job'[j].old # None => Sound(job'[j].old)
      BY <1>0, <2>3 DEF Goes, Keeps, RowsSound
    <3> QED BY <1>2, <1>3, <2>1, <2>3, <3>1, <3>2 DEF Keeps
  <2> QED BY <1>0, <1>14, <2>2, <2>3, ListMoves
<1>15. ASSUME NEW j \in Job, ExpireApproval(j) PROVE RowsSound'
  <2>1. PICK x \in job[j].listed :
          /\ approvals' = [approvals EXCEPT ![x.approval] = [x.row EXCEPT !.status = "EXPIRED"]]
          /\ \/ Ends(j, "expire")
             \/ /\ Goes(j, "expire", "expire")
                /\ Keeps(j, job[j].seen, job[j].old, job[j].listed \ {x})
    BY <1>0, <1>15, ExpireMoves DEF Write
  <2>2. x.approval \in ApprovalId /\ x.row \in Approval
    BY <1>0, <1>15, ExpireMoves
  <2>3. Sound(x.row)
    BY <1>0, <2>1 DEF RowsSound, Ends, Goes
  <2>4. Kept
    BY <1>4, <2>1, <2>2, <2>3, SoundWhenClosed
  <2>5. CASE Ends(j, "expire")
    BY <1>2, <1>5, <2>4, <2>5
  <2>6. CASE Goes(j, "expire", "expire") /\ Keeps(j, job[j].seen, job[j].old, job[j].listed \ {x})
    BY <1>2, <1>6, <2>4, <2>6 DEF Keeps
  <2> QED BY <2>1, <2>5, <2>6
<1>16. ASSUME NEW j \in Job, NEW a \in ApprovalId, NEW s \in {"decide", "prepare"},
              NEW d \in Decision \cup {None}, ReadApproval(j, a, s, d)
       PROVE  RowsSound'
  <2>1. Begins(j, s, a) /\ Keeps(j, approvals[a], approvals[a], {})
    BY <1>0, <1>16, ReadBegins
  <2>2. UNCHANGED approvals /\ Sound(approvals[a])
    BY <1>0, <1>16 DEF ReadApproval, rows, RowsSound
  <2> QED BY <1>2, <1>3, <2>1, <2>2 DEF Begins, Keeps
<1>17. ASSUME NEW j \in Job, ReadProposalAndDecide(j) PROVE RowsSound'
  <2>1. UNCHANGED approvals
    BY <1>17 DEF ReadProposalAndDecide, rows
  <2>2. CASE Ends(j, "decide")
    BY <1>2, <1>3, <1>5, <2>1, <2>2
  <2>3. CASE Goes(j, "decide", "staleProposal") /\ Keeps(j, job[j].seen, job[j].old, job[j].listed)
    BY <1>2, <1>3, <1>6, <2>1, <2>3 DEF Keeps
  <2>4. CASE /\ job[j].seen.status = "PENDING" /\ Eligible(job[j].seen, job[j].decision.by)
             /\ Goes(j, "decide", "writeApproval")
             /\ Keeps(j, Decided(job[j].seen, job[j].decision), job[j].old, job[j].listed)
    <3>1. job[j].decision \in Decision /\ job[j].seen \in Approval /\ job[j] # None
      BY <1>0, <1>17, <2>4, DecideMoves DEF Goes
    <3>2. Sound(job[j].seen)
      BY <1>0, <3>1, NoneAssumption DEF RowsSound
    <3>3. Sound(Decided(job[j].seen, job[j].decision))
      BY <2>4, <3>1, <3>2, SoundWhenDecided
    <3>4. /\ OthersStay(j) /\ job'[j].step # "call"
          /\ job'[j].old # None => Sound(job'[j].old)
          /\ \A x \in job'[j].listed : Sound(x.row)
      BY <1>0, <2>4 DEF Goes, Keeps, RowsSound
    <3> QED BY <1>2, <1>3, <2>1, <2>4, <3>3, <3>4 DEF Keeps
  <2> QED BY <1>0, <1>17, <2>2, <2>3, <2>4, DecideMoves
<1>18. ASSUME NEW j \in Job, ReadProposalAndPrepare(j) PROVE RowsSound'
  <2>1. UNCHANGED approvals
    BY <1>18 DEF ReadProposalAndPrepare, rows
  <2>2. \/ Ends(j, "prepare")
        \/ Goes(j, "prepare", "staleProposal") /\ Keeps(j, job[j].seen, job[j].old, job[j].listed)
    BY <1>0, <1>18, PrepareMoves
  <2> QED BY <1>2, <1>3, <1>5, <1>6, <2>1, <2>2 DEF Keeps
<1>19. ASSUME NEW j \in Job, StaleProposal(j) PROVE RowsSound'
  <2>1. Goes(j, "staleProposal", "staleApproval") /\ Keeps(j, job[j].seen, job[j].old, job[j].listed)
    BY <1>0, <1>19, MovesOn DEF StaleProposal
  <2>2. UNCHANGED approvals
    BY <1>19 DEF StaleProposal
  <2> QED BY <1>2, <1>3, <1>6, <2>1, <2>2 DEF Keeps
<1>20. ASSUME NEW j \in Job, NEW s \in {"staleApproval", "writeApproval", "consumed"}, At(j, s)
       PROVE  job[j].approval \in ApprovalId /\ job[j].seen \in Approval /\ Sound(job[j].seen)
  <2>1. job[j] # None /\ job[j].approval \in ApprovalId /\ job[j].seen \in Approval
    BY <1>0, <1>20, Replaced DEF WellRead, Listing, Reading
  <2> QED BY <1>0, <2>1, NoneAssumption DEF RowsSound
<1>21. ASSUME NEW j \in Job, StaleApproval(j) PROVE RowsSound'
  <2>1. Ends(j, "staleApproval")
        /\ approvals' = [approvals EXCEPT ![job[j].approval] = [job[j].seen EXCEPT !.status = "STALE"]]
    BY <1>0, <1>21, Replaced DEF StaleApproval, WriteApproval, Write
  <2>2. Kept
    BY <1>4, <1>20, <1>21, <2>1, SoundWhenClosed DEF StaleApproval
  <2> QED BY <1>2, <1>5, <2>1, <2>2
<1>22. ASSUME NEW j \in Job, Consume(j) PROVE RowsSound'
  <2>1. Ends(j, "consumed")
        /\ approvals' = [approvals EXCEPT ![job[j].approval] = [job[j].seen EXCEPT !.status = "CONSUMED"]]
    BY <1>0, <1>22, Replaced DEF Consume, WriteApproval, Write, Spent
  <2>2. Kept
    BY <1>4, <1>20, <1>22, <2>1, SoundWhenClosed DEF Consume
  <2> QED BY <1>2, <1>5, <2>1, <2>2
<1>23. ASSUME NEW j \in Job, WriteDecision(j) PROVE RowsSound'
  <2>1. Goes(j, "writeApproval", "writeProposal") /\ Keeps(j, job[j].seen, None, job[j].listed)
    BY <1>0, <1>23, WriteDecisionMoves
  <2>2. approvals' = [approvals EXCEPT ![job[j].approval] = job[j].seen]
    BY <1>23 DEF WriteDecision, WriteApproval, Write
  <2>3. Kept
    BY <1>4, <1>20, <1>23, <2>2 DEF WriteDecision
  <2> QED BY <1>2, <1>6, <2>1, <2>3 DEF Keeps
<1>24. ASSUME NEW j \in Job, WriteProposal(j) PROVE RowsSound'
  <2>1. Ends(j, "writeProposal") /\ UNCHANGED approvals
    BY <1>0, <1>24, Replaced DEF WriteProposal
  <2> QED BY <1>2, <1>3, <1>5, <2>1
<1>25. ASSUME NEW j \in Job, NEW k \in Key, NEW a \in ApprovalId, ClaimKey(j, k, a) PROVE RowsSound'
  <2>1. Begins(j, "validate", a) /\ Keeps(j, None, None, {})
    BY <1>0, <1>25, ClaimBegins
  <2>2. UNCHANGED approvals
    BY <1>25 DEF ClaimKey, rows
  <2> QED BY <1>2, <1>3, <2>1, <2>2 DEF Begins, Keeps
<1>26. ASSUME NEW j \in Job, Validate(j) PROVE RowsSound'
  <2>1. UNCHANGED approvals
    BY <1>26 DEF Validate, rows
  <2>2. CASE Ends(j, "validate")
    BY <1>2, <1>3, <1>5, <2>1, <2>2
  <2>3. CASE /\ Usable(approvals[job[j].approval], proposal) /\ Goes(j, "validate", "call")
             /\ Keeps(j, approvals[job[j].approval], job[j].old, job[j].listed)
    <3>1. job[j].approval \in ApprovalId
      BY <1>0, <1>26, Replaced DEF Validate, WellRead, Listing
    <3>2. /\ OthersStay(j) /\ job'[j].seen.status = "APPROVED"
          /\ job'[j].old # None => Sound(job'[j].old)
          /\ \A x \in job'[j].listed : Sound(x.row)
      BY <1>0, <2>3 DEF Goes, Keeps, RowsSound, Usable
    <3>3. job'[j].seen # None => Sound(job'[j].seen)
      BY <1>0, <2>3, <3>1 DEF Keeps, RowsSound
    <3> QED BY <1>2, <1>3, <2>1, <3>2, <3>3
  <2> QED BY <1>0, <1>26, <2>2, <2>3, ValidateMoves
<1>27. ASSUME NEW j \in Job, Call(j) PROVE RowsSound'
  <2>1. UNCHANGED approvals
    BY <1>27 DEF Call, rows
  <2>2. Goes(j, "call", "complete") /\ Keeps(j, None, job[j].old, job[j].listed)
    BY <1>0, <1>27, CallMoves
  <2> QED BY <1>2, <1>3, <1>6, <2>1, <2>2 DEF Keeps
<1>28. ASSUME NEW j \in Job, Complete(j) PROVE RowsSound'
  <2>1. Goes(j, "complete", "consume") /\ Keeps(j, job[j].seen, job[j].old, job[j].listed)
    BY <1>0, <1>28, MovesOn DEF Complete
  <2>2. UNCHANGED approvals
    BY <1>28 DEF Complete, rows
  <2> QED BY <1>2, <1>3, <1>6, <2>1, <2>2 DEF Keeps
<1>29. ASSUME NEW j \in Job, ConsumeRead(j) PROVE RowsSound'
  <2>1. UNCHANGED approvals
    BY <1>29 DEF ConsumeRead, rows
  <2>2. Goes(j, "consume", "consumed")
        /\ Keeps(j, approvals[job[j].approval], approvals[job[j].approval], job[j].listed)
    BY <1>0, <1>29, ConsumeReadMoves
  <2>3. job[j].approval \in ApprovalId
    BY <1>0, <1>29, Replaced DEF ConsumeRead, WellRead, Listing
  <2>4. /\ OthersStay(j) /\ job'[j].step # "call"
        /\ \A x \in job'[j].listed : Sound(x.row)
    BY <1>0, <2>2 DEF Goes, Keeps, RowsSound
  <2>5. /\ job'[j].seen # None => Sound(job'[j].seen)
        /\ job'[j].old # None => Sound(job'[j].old)
    BY <1>0, <2>2, <2>3 DEF Keeps, RowsSound
  <2> QED BY <1>2, <1>3, <2>1, <2>4, <2>5
<1>30. ASSUME NEW j \in Job, Expire(j) PROVE RowsSound'
  <2>1. UNCHANGED approvals
    BY <1>30 DEF Expire, rows
  <2>2. Begins(j, "expireProposal", None) /\ Keeps(j, None, None, {})
    BY <1>0, <1>30, ExpireBegins
  <2> QED BY <1>2, <1>3, <2>1, <2>2 DEF Begins, Keeps
<1>31. ASSUME NEW j \in Job, NEW a \in ApprovalId, NEW d \in Decision, Decide(j, a, d) PROVE RowsSound'
  BY <1>31, <1>16 DEF Decide
<1>32. ASSUME NEW j \in Job, NEW a \in ApprovalId, Prepare(j, a) PROVE RowsSound'
  BY <1>32, <1>16 DEF Prepare
<1> QED
  BY <1>7, <1>8, <1>9, <1>10, <1>11, <1>12, <1>13, <1>14, <1>15, <1>17, <1>18, <1>19,
     <1>21, <1>22, <1>23, <1>24, <1>25, <1>26, <1>27, <1>28, <1>29, <1>30, <1>31, <1>32,
     Zenon DEF Next, Step

-----------------------------------------------------------------------------
(* Without a race an approval is spent once.                               *)

\* No step outside a race revives an approval, or starts a second execution of it.
LEMMA SpentOnceKept == IInv /\ [Next]_vars => SpentOnce'
<1> SUFFICES ASSUME IInv, [Next]_vars, ~raced' PROVE SpentOnce'
  BY DEF SpentOnce
<1>0. Shape /\ StoredOnce /\ KeysHeld /\ SpentOnce
  BY DEF IInv
<1>1. /\ approvals \in [ApprovalId -> Approval \cup {None}] /\ raced \in BOOLEAN
      /\ acts \in [ApprovalId -> Nat]
  BY <1>0 DEF Shape, TypeOK
<1> DEFINE Calling == {"call"}
           SameFlight(j) ==
             \/ /\ job[j] # None => job[j].step \notin InFlight
                /\ job'[j] # None => job'[j].step \notin InFlight
             \/ /\ job[j] # None /\ job'[j] # None /\ job'[j].approval = job[j].approval
                /\ job[j].step \in Settling /\ job'[j].step \in Settling
           SameActs == acts' = acts /\ torn' = torn
           DeadStay == \A a \in ApprovalId : Dead(a) => Dead(a)' \/ acts[a] = 0
           OneFlight(a) == \A i, l \in Job : Working(i, a, InFlight) /\ Working(l, a, InFlight) => i = l
           ActedOnce(a) == a \notin torn =>
                             /\ \A l \in Job : Working(l, a, Calling) => acts[a] = 0
                             /\ acts[a] # 0 => Dead(a) \/ \E l \in Job : Working(l, a, Settling)
                             /\ acts[a] <= 1
\* A step that starts, completes and ends no execution, and revives no approval.
<1>2. ASSUME ~raced, NEW j \in Job, OthersStay(j), SameFlight(j), SameActs, DeadStay
      PROVE  SpentOnce'
  <2>1. ASSUME NEW i \in Job, NEW a
        PROVE  /\ Working(i, a, InFlight)' <=> Working(i, a, InFlight)
               /\ Working(i, a, Calling)' <=> Working(i, a, Calling)
               /\ Working(i, a, Settling)' <=> Working(i, a, Settling)
    BY <1>2 DEF OthersStay, Working, InFlight, Settling
  <2> SUFFICES ASSUME NEW a \in ApprovalId PROVE OneFlight(a)' /\ ActedOnce(a)'
    BY DEF SpentOnce
  <2>2. OneFlight(a) /\ ActedOnce(a)
    BY <1>0, <1>2 DEF SpentOnce
  <2> HIDE DEF Calling
  <2> QED BY <1>2, <2>1, <2>2
<1>3. ASSUME UNCHANGED world PROVE SameActs
  BY <1>3 DEF world
<1>4. ASSUME UNCHANGED approvals PROVE DeadStay
  BY <1>4 DEF Dead
\* Writing a row keeps the others, and keeps a dead approval dead with this one.
<1>5. ASSUME NEW b \in ApprovalId, NEW row, approvals' = [approvals EXCEPT ![b] = row],
             \/ row.status \notin {"PENDING", "APPROVED"}
             \/ approvals[b].status \in {"PENDING", "APPROVED"}
             \/ acts[b] = 0
      PROVE  DeadStay
  BY <1>1, <1>5 DEF Dead
<1>6. ASSUME NEW j \in Job, NEW s, NEW u, Goes(j, s, u),
             \/ s \notin InFlight /\ u \notin InFlight
             \/ s \in Settling /\ u \in Settling
      PROVE  OthersStay(j) /\ SameFlight(j)
  BY <1>6 DEF Goes
<1>7. ASSUME NEW j \in Job, NEW s, s \notin InFlight, Ends(j, s) PROVE OthersStay(j) /\ SameFlight(j)
  BY <1>7 DEF Ends
<1>8. ASSUME NEW j \in Job, NEW u, NEW a, u \notin InFlight, Begins(j, u, a)
      PROVE  OthersStay(j) /\ SameFlight(j)
  BY <1>8 DEF Begins
\* A handler that writes back what it had read.
<1>9. ASSUME NEW a, NEW old, NEW row, Write(a, old, row)
      PROVE  ~raced /\ approvals[a] = old /\ approvals' = [approvals EXCEPT ![a] = row]
  BY <1>1, <1>9 DEF Write
<1>10. CASE UNCHANGED vars \/ Create \/ FactsChange \/ Tick
  <2>1. UNCHANGED <<approvals, acts, torn, job, raced>>
    BY <1>10 DEF vars, Create, FactsChange, Tick, rows, world
  <2> QED BY <1>0, <2>1 DEF SpentOnce, Working, Dead
\* An execution that a crash ends after its call tears its approval.
<1>11. CASE Crash
  <2>1. /\ ~raced /\ UNCHANGED <<approvals, acts>> /\ \A i \in Job : job'[i] = None
        /\ torn' = torn \cup {job[i].approval : i \in {l \in Job : Unsettled(l)}}
    BY <1>11 DEF Crash, rows
  <2> SUFFICES ASSUME NEW a \in ApprovalId PROVE OneFlight(a)' /\ ActedOnce(a)'
    BY DEF SpentOnce
  <2>2. ActedOnce(a)
    BY <1>0, <2>1 DEF SpentOnce
  <2>3. \A i \in Job : Working(i, a, Settling) => a \in torn'
    BY <2>1 DEF Working, Settling, Unsettled
  <2>4. \A i \in Job : \A S : ~Working(i, a, S)'
    BY <2>1 DEF Working
  <2>5. (Dead(a) <=> Dead(a)') /\ torn \subseteq torn'
    BY <2>1 DEF Dead
  <2> QED BY <2>1, <2>2, <2>3, <2>4, <2>5
<1> HIDE DEF SameFlight, SameActs, DeadStay
<1>12. ASSUME NEW j \in Job, NEW a \in ApprovalId, RequestApproval(j, a) PROVE SpentOnce'
  <2>1. ~raced /\ UNCHANGED <<world, approvals>>
    BY <1>12 DEF RequestApproval, rows
  <2>2. Begins(j, "mark", a)
    BY <1>0, <1>12, RequestBegins
  <2> QED BY <1>2, <1>3, <1>4, <1>8, <2>1, <2>2 DEF InFlight
<1>13. ASSUME NEW j \in Job, MarkPending(j) PROVE SpentOnce'
  <2>1. ~raced /\ UNCHANGED <<world, approvals>>
    BY <1>1, <1>13 DEF MarkPending
  <2>2. Goes(j, "mark", "save")
    BY <1>0, <1>13, MovesOn DEF MarkPending
  <2> QED BY <1>2, <1>3, <1>4, <1>6, <2>1, <2>2 DEF InFlight
<1>14. ASSUME NEW j \in Job, SaveApproval(j) PROVE SpentOnce'
  <2>1. ~raced /\ UNCHANGED world
        /\ approvals' = [approvals EXCEPT ![job[j].approval] = job[j].seen]
    BY <1>1, <1>14 DEF SaveApproval
  <2>2. Ends(j, "save") /\ job[j].approval \in ApprovalId /\ job[j] # None /\ job[j].step \in Asking
    BY <1>0, <1>14, Replaced DEF SaveApproval, WellRead, Listing, Asking
  <2>3. acts[job[j].approval] = 0
    BY <1>0, <2>2 DEF StoredOnce
  <2>4. DeadStay
    BY <1>5, <2>1, <2>2, <2>3
  <2> QED BY <1>2, <1>3, <1>7, <2>1, <2>2, <2>4 DEF InFlight
<1>15. ASSUME NEW j \in Job, ExpireProposal(j) PROVE SpentOnce'
  <2>1. ~raced /\ UNCHANGED <<world, approvals>>
    BY <1>1, <1>15 DEF ExpireProposal
  <2>2. Goes(j, "expireProposal", "list")
    BY <1>0, <1>15, MovesOn DEF ExpireProposal
  <2> QED BY <1>2, <1>3, <1>4, <1>6, <2>1, <2>2 DEF InFlight
<1>16. ASSUME NEW j \in Job, ListApprovals(j) PROVE SpentOnce'
  <2>1. ~raced /\ UNCHANGED <<world, approvals>>
    BY <1>16 DEF ListApprovals, rows
  <2>2. Ends(j, "list") \/ Goes(j, "list", "expire")
    BY <1>0, <1>16, ListMoves
  <2> QED BY <1>2, <1>3, <1>4, <1>6, <1>7, <2>1, <2>2 DEF InFlight
<1>17. ASSUME NEW j \in Job, ExpireApproval(j) PROVE SpentOnce'
  <2>1. PICK x \in job[j].listed :
          /\ Write(x.approval, x.row, [x.row EXCEPT !.status = "EXPIRED"])
          /\ Ends(j, "expire") \/ Goes(j, "expire", "expire")
    BY <1>0, <1>17, ExpireMoves
  <2>2. x.approval \in ApprovalId /\ x.row \in Approval
    BY <1>0, <1>17, ExpireMoves
  <2>3. [x.row EXCEPT !.status = "EXPIRED"].status = "EXPIRED"
    BY <2>2 DEF Approval
  <2> DEFINE row == [x.row EXCEPT !.status = "EXPIRED"]
  <2>4. ~raced /\ DeadStay
    <3>1. row.status = "EXPIRED" /\ Write(x.approval, x.row, row)
      BY <2>1, <2>3
    <3> HIDE DEF row
    <3>2. ~raced /\ approvals' = [approvals EXCEPT ![x.approval] = row]
      BY <1>9, <3>1
    <3> QED BY <1>5, <2>2, <3>1, <3>2
  <2>5. UNCHANGED world
    BY <1>17 DEF ExpireApproval
  <2> QED BY <1>2, <1>3, <1>6, <1>7, <2>1, <2>4, <2>5 DEF InFlight
<1>18. ASSUME NEW j \in Job, NEW a \in ApprovalId, NEW s \in {"decide", "prepare"},
              NEW d \in Decision \cup {None}, ReadApproval(j, a, s, d)
       PROVE  SpentOnce'
  <2>1. ~raced /\ UNCHANGED <<world, approvals>>
    BY <1>18 DEF ReadApproval, rows
  <2>2. Begins(j, s, a)
    BY <1>0, <1>18, ReadBegins
  <2> QED BY <1>2, <1>3, <1>4, <1>8, <2>1, <2>2 DEF InFlight
<1>19. ASSUME NEW j \in Job, ReadProposalAndDecide(j) PROVE SpentOnce'
  <2>1. ~raced /\ UNCHANGED <<world, approvals>>
    BY <1>19 DEF ReadProposalAndDecide, rows
  <2>2. \/ Ends(j, "decide") \/ Goes(j, "decide", "staleProposal")
        \/ Goes(j, "decide", "writeApproval")
    BY <1>0, <1>19, DecideMoves
  <2> QED BY <1>2, <1>3, <1>4, <1>6, <1>7, <2>1, <2>2 DEF InFlight
<1>20. ASSUME NEW j \in Job, ReadProposalAndPrepare(j) PROVE SpentOnce'
  <2>1. ~raced /\ UNCHANGED <<world, approvals>>
    BY <1>20 DEF ReadProposalAndPrepare, rows
  <2>2. Ends(j, "prepare") \/ Goes(j, "prepare", "staleProposal")
    BY <1>0, <1>20, PrepareMoves
  <2> QED BY <1>2, <1>3, <1>4, <1>6, <1>7, <2>1, <2>2 DEF InFlight
<1>21. ASSUME NEW j \in Job, StaleProposal(j) PROVE SpentOnce'
  <2>1. ~raced /\ UNCHANGED <<world, approvals>>
    BY <1>1, <1>21 DEF StaleProposal
  <2>2. Goes(j, "staleProposal", "staleApproval")
    BY <1>0, <1>21, MovesOn DEF StaleProposal
  <2> QED BY <1>2, <1>3, <1>4, <1>6, <2>1, <2>2 DEF InFlight
<1>22. ASSUME NEW j \in Job, StaleApproval(j) PROVE SpentOnce'
  <2>1. /\ Ends(j, "staleApproval") /\ job[j].approval \in ApprovalId /\ job[j].seen \in Approval
    BY <1>0, <1>22, Replaced DEF StaleApproval, WellRead, Listing, Reading
  <2>2. Write(job[j].approval, job[j].old, [job[j].seen EXCEPT !.status = "STALE"]) /\ UNCHANGED world
    BY <1>22 DEF StaleApproval, WriteApproval
  <2>3. [job[j].seen EXCEPT !.status = "STALE"].status = "STALE"
    BY <2>1 DEF Approval
  <2> DEFINE row == [job[j].seen EXCEPT !.status = "STALE"]
  <2>4. ~raced /\ DeadStay
    <3>1. row.status = "STALE" /\ Write(job[j].approval, job[j].old, row)
      BY <2>2, <2>3
    <3> HIDE DEF row
    <3>2. ~raced /\ approvals' = [approvals EXCEPT ![job[j].approval] = row]
      BY <1>9, <3>1
    <3> QED BY <1>5, <2>1, <3>1, <3>2
  <2> QED BY <1>2, <1>3, <1>7, <2>1, <2>2, <2>4 DEF InFlight
<1>23. ASSUME NEW j \in Job, WriteDecision(j) PROVE SpentOnce'
  <2>1. /\ Goes(j, "writeApproval", "writeProposal") /\ job[j].approval \in ApprovalId
        /\ job[j].old.status = "PENDING"
    <3>1. Goes(j, "writeApproval", "writeProposal") /\ At(j, "writeApproval")
      BY <1>0, <1>23, WriteDecisionMoves DEF WriteDecision
    <3>2. WellRead(job[j]) /\ job[j].step = "writeApproval"
      BY <1>0, <3>1, Replaced
    <3> QED BY <3>1, <3>2 DEF WellRead, Listing
  <2>2. Write(job[j].approval, job[j].old, job[j].seen) /\ UNCHANGED world
    BY <1>23 DEF WriteDecision, WriteApproval
  <2>3. ~raced /\ DeadStay
    BY <1>5, <1>9, <2>1, <2>2
  <2> QED BY <1>2, <1>3, <1>6, <2>1, <2>2, <2>3 DEF InFlight
<1>24. ASSUME NEW j \in Job, WriteProposal(j) PROVE SpentOnce'
  <2>1. ~raced /\ UNCHANGED <<world, approvals>>
    BY <1>1, <1>24 DEF WriteProposal
  <2>2. Ends(j, "writeProposal")
    BY <1>0, <1>24, Replaced DEF WriteProposal
  <2> QED BY <1>2, <1>3, <1>4, <1>7, <2>1, <2>2 DEF InFlight
<1>25. ASSUME NEW j \in Job, NEW k \in Key, NEW a \in ApprovalId, ClaimKey(j, k, a) PROVE SpentOnce'
  <2>1. ~raced /\ UNCHANGED <<world, approvals>>
    BY <1>25 DEF ClaimKey, rows
  <2>2. Begins(j, "validate", a)
    BY <1>0, <1>25, ClaimBegins
  <2> QED BY <1>2, <1>3, <1>4, <1>8, <2>1, <2>2 DEF InFlight
<1>26. ASSUME NEW j \in Job, Validate(j) PROVE SpentOnce'
  <2>1. UNCHANGED <<world, approvals>>
    BY <1>26 DEF Validate, rows
  <2>2. CASE Ends(j, "validate") /\ UNCHANGED raced
    BY <1>2, <1>3, <1>4, <1>7, <2>1, <2>2 DEF InFlight
  <2>3. CASE /\ Usable(approvals[job[j].approval], proposal) /\ Goes(j, "validate", "call")
             /\ raced' = (raced \/ Spending(j))
    <3>0. PICK b : b = job[j].approval
      OBVIOUS
    <3>1. ~raced /\ ~Spending(j) /\ b \in ApprovalId
      <4>1. At(j, "validate") /\ ~raced /\ ~Spending(j)
        BY <1>1, <1>26, <2>3 DEF Validate
      <4>2. WellRead(job[j]) /\ job[j].step = "validate"
        BY <1>0, <4>1, Replaced
      <4> QED BY <3>0, <4>1, <4>2 DEF WellRead, Listing
    <3>2. \A i \in Job : ~Working(i, b, InFlight)
      BY <2>3, <3>0, <3>1 DEF Goes, Spending, Working, InFlight
    <3>3. \A i \in Job : ~Working(i, b, Settling)
      BY <3>2 DEF Working, InFlight, Settling
    <3>4. ~Dead(b)
      BY <2>3, <3>0 DEF Usable, Dead
    <3>5. b \in torn \/ acts[b] = 0
      BY <1>0, <3>1, <3>3, <3>4 DEF SpentOnce
    <3>6. ASSUME NEW i \in Job, NEW a, i # j \/ a # b, NEW S
          PROVE  Working(i, a, S)' => Working(i, a, S)
      BY <2>3, <3>0, <3>6 DEF Goes, OthersStay, Working
    <3>7. ASSUME NEW i \in Job, NEW a PROVE Working(i, a, Settling)' <=> Working(i, a, Settling)
      BY <2>3 DEF Goes, OthersStay, Working, Settling
    <3>8. acts' = acts /\ torn' = torn /\ \A a \in ApprovalId : (Dead(a) <=> Dead(a)')
      BY <2>1 DEF world, Dead
    <3> SUFFICES ASSUME NEW a \in ApprovalId PROVE OneFlight(a)' /\ ActedOnce(a)'
      BY DEF SpentOnce
    <3>9. OneFlight(a) /\ ActedOnce(a)
      BY <1>0, <3>1 DEF SpentOnce
    <3> HIDE DEF Calling
    <3>10. OneFlight(a)'
      BY <3>2, <3>6, <3>9
    <3>11. a \notin torn => \A l \in Job : Working(l, a, Calling)' => acts[a] = 0
      BY <3>5, <3>6, <3>9
    <3> QED BY <3>7, <3>8, <3>9, <3>10, <3>11
  <2> QED BY <1>0, <1>26, <2>2, <2>3, ValidateMoves
<1>27. ASSUME NEW j \in Job, Call(j) PROVE SpentOnce'
  <2>0. PICK b : b = job[j].approval
    OBVIOUS
  <2>1. /\ ~raced /\ UNCHANGED <<approvals, torn>>
        /\ acts' = [acts EXCEPT ![b] = @ + 1] \/ acts' = acts
    BY <1>27, <2>0 DEF Call, rows
  <2>2. Goes(j, "call", "complete")
    BY <1>0, <1>27, CallMoves
  <2>3. b \in ApprovalId
    BY <1>0, <1>27, <2>0, Replaced DEF Call, WellRead, Listing
  <2>4. Working(j, b, Calling) /\ Working(j, b, InFlight) /\ Working(j, b, Settling)'
    BY <2>0, <2>2 DEF Goes, Working, InFlight, Settling
  <2>5. \A a \in ApprovalId : (a # b => acts'[a] = acts[a]) /\ (Dead(a) <=> Dead(a)')
    BY <1>1, <2>1 DEF Dead
  <2>6. b \in torn \/ acts'[b] <= 1
    BY <1>0, <1>1, <2>1, <2>3, <2>4 DEF SpentOnce
  <2>7. \A i \in Job : i # j => ~Working(i, b, InFlight)
    BY <1>0, <2>1, <2>3, <2>4 DEF SpentOnce
  <2>8. ASSUME NEW i \in Job, NEW a
        PROVE  /\ Working(i, a, InFlight)' <=> Working(i, a, InFlight)
               /\ Working(i, a, Calling)' => Working(i, a, Calling) /\ i # j
               /\ Working(i, a, Settling) => Working(i, a, Settling)'
               /\ Working(i, a, Calling) => Working(i, a, InFlight)
    BY <2>2 DEF Goes, OthersStay, Working, InFlight, Settling
  <2> SUFFICES ASSUME NEW a \in ApprovalId PROVE OneFlight(a)' /\ ActedOnce(a)'
    BY DEF SpentOnce
  <2>9. OneFlight(a) /\ ActedOnce(a)
    BY <1>0, <2>1 DEF SpentOnce
  <2> HIDE DEF Calling
  <2>10. OneFlight(a)'
    BY <2>8, <2>9
  <2>11. CASE a = b
    <3>1. \A l \in Job : ~Working(l, a, Calling)'
      BY <2>7, <2>8, <2>11
    <3> QED BY <2>1, <2>4, <2>6, <2>10, <2>11, <3>1
  <2>12. CASE a # b
    BY <2>1, <2>5, <2>8, <2>9, <2>10, <2>12
  <2> QED BY <2>11, <2>12
<1>28. ASSUME NEW j \in Job, Complete(j) PROVE SpentOnce'
  <2>1. ~raced /\ UNCHANGED <<world, approvals>>
    BY <1>28 DEF Complete, rows
  <2>2. Goes(j, "complete", "consume")
    BY <1>0, <1>28, MovesOn DEF Complete
  <2> QED BY <1>2, <1>3, <1>4, <1>6, <2>1, <2>2 DEF Settling
<1>29. ASSUME NEW j \in Job, ConsumeRead(j) PROVE SpentOnce'
  <2>1. ~raced /\ UNCHANGED <<world, approvals>>
    BY <1>29 DEF ConsumeRead, rows
  <2>2. Goes(j, "consume", "consumed")
    BY <1>0, <1>29, ConsumeReadMoves
  <2> QED BY <1>2, <1>3, <1>4, <1>6, <2>1, <2>2 DEF Settling
<1>30. ASSUME NEW j \in Job, Consume(j) PROVE SpentOnce'
  <2>0. PICK b : b = job[j].approval
    OBVIOUS
  <2> DEFINE row == [job[j].seen EXCEPT !.status = "CONSUMED"]
  <2>1. Ends(j, "consumed") /\ b \in ApprovalId /\ job[j].seen \in Approval
    <3>1. At(j, "consumed") /\ Done(j)
      BY <1>30 DEF Consume
    <3>2. WellRead(job[j]) /\ job[j].step = "consumed" /\ Ends(j, "consumed")
      BY <1>0, <3>1, Replaced
    <3> QED BY <2>0, <3>2 DEF WellRead, Listing, Reading
  <2>2. Write(b, job[j].old, row) /\ UNCHANGED world
    BY <1>30, <2>0 DEF Consume, WriteApproval, Spent
  <2>3. row.status = "CONSUMED"
    BY <2>1 DEF Approval
  <2> HIDE DEF row
  <2>4. ~raced /\ approvals' = [approvals EXCEPT ![b] = row]
    BY <1>9, <2>2
  <2>5. Dead(b)' /\ \A a \in ApprovalId : a # b => (Dead(a) <=> Dead(a)')
    BY <1>1, <2>1, <2>3, <2>4 DEF Dead
  <2>6. acts' = acts /\ torn' = torn
    BY <2>2 DEF world
  <2>7. ASSUME NEW i \in Job, NEW a, NEW S
        PROVE  /\ Working(i, a, S)' => Working(i, a, S)
               /\ a # b /\ Working(i, a, S) => Working(i, a, S)'
    BY <2>0, <2>1 DEF Ends, OthersStay, Working
  <2> SUFFICES ASSUME NEW a \in ApprovalId PROVE OneFlight(a)' /\ ActedOnce(a)'
    BY DEF SpentOnce
  <2>8. OneFlight(a) /\ ActedOnce(a)
    BY <1>0, <2>4 DEF SpentOnce
  <2> HIDE DEF Calling
  <2>9. CASE a = b
    BY <2>5, <2>6, <2>7, <2>8, <2>9
  <2>10. CASE a # b
    BY <2>5, <2>6, <2>7, <2>8, <2>10
  <2> QED BY <2>9, <2>10
<1>31. ASSUME NEW j \in Job, Expire(j) PROVE SpentOnce'
  <2>1. ~raced /\ UNCHANGED <<world, approvals>>
    BY <1>31 DEF Expire, rows
  <2>2. Begins(j, "expireProposal", None)
    BY <1>0, <1>31, ExpireBegins
  <2> QED BY <1>2, <1>3, <1>4, <1>8, <2>1, <2>2 DEF InFlight
<1>32. ASSUME NEW j \in Job, NEW a \in ApprovalId, NEW d \in Decision, Decide(j, a, d) PROVE SpentOnce'
  BY <1>32, <1>18 DEF Decide
<1>33. ASSUME NEW j \in Job, NEW a \in ApprovalId, Prepare(j, a) PROVE SpentOnce'
  BY <1>33, <1>18 DEF Prepare
<1> QED
  BY <1>10, <1>11, <1>12, <1>13, <1>14, <1>15, <1>16, <1>17, <1>19, <1>20, <1>21, <1>22,
     <1>23, <1>24, <1>25, <1>26, <1>27, <1>28, <1>29, <1>30, <1>31, <1>32, <1>33,
     Zenon DEF Next, Step

-----------------------------------------------------------------------------
(* The theorems.                                                           *)

\* The inductive invariant of the approval engine and its executions: it holds
\* at the start and every handler's step, and every crash, keeps it.
THEOREM GovernanceInvariant == Spec => []IInv
<1>1. IInv /\ [Next]_vars => IInv'
  BY ShapeKept, StoredOnceKept, KeysHeldKept, RowsSoundKept, SpentOnceKept DEF IInv
<1> QED BY <1>1, InitHolds, PTL DEF Spec

\* However executions of a key overlap, fail, are cut off or retried, the source
\* acts at most once for it in one life of the process: a claim is never taken
\* over while it is remembered (execution-store.ts, claim).
THEOREM KeyActsOnce == Spec => []ActsOncePerKey
<1>1. IInv => ActsOncePerKey
  BY DEF IInv, KeysHeld, ActsOncePerKey
<1> QED BY <1>1, GovernanceInvariant, PTL

\* The rows keep their types, and an approval that counts as approved, in the
\* store or in the hands of an execution, has an approver for every role set.
THEOREM ApprovedByEveryRole == Spec => []EveryRoleApproved
<1>1. IInv => EveryRoleApproved
  <2> SUFFICES ASSUME IInv PROVE EveryRoleApproved
    OBVIOUS
  <2>1. TypeOK
    BY DEF IInv, Shape
  <2>2. \A a \in ApprovalId :
          approvals[a] # None /\ approvals[a].status = "APPROVED" => Backed(approvals[a])
    BY SoundIsBacked DEF IInv, RowsSound
  <2>3. ASSUME NEW j \in Job, At(j, "call") PROVE Backed(job[j].seen)
    <3>1. job[j] # None /\ job[j].seen \in Approval
      BY <2>3, Replaced DEF IInv, WellRead, Reading
    <3>2. Sound(job[j].seen) /\ job[j].seen.status = "APPROVED"
      BY <2>3, <3>1, NoneAssumption DEF IInv, RowsSound, At
    <3> QED BY <3>2, SoundIsBacked
  <2> QED BY <2>1, <2>2, <2>3 DEF EveryRoleApproved
<1> QED BY <1>1, GovernanceInvariant, PTL

\* While nobody overwrote a row unread and no two executions of one approval were
\* in flight, the source acts once on an approval in all the process's lives,
\* unless a crash cut an execution off between the call and the consumption.
THEOREM ApprovalSpentOnce == Spec => []SpentTwiceOnlyInRace
<1>1. IInv => SpentTwiceOnlyInRace
  BY DEF IInv, SpentOnce, SpentTwiceOnlyInRace
<1> QED BY <1>1, GovernanceInvariant, PTL

-----------------------------------------------------------------------------
(* Business events.                                                        *)

\* The stream: what was released fills the positions up to the last, one event
\* each, and no event in turn is kept back.
StreamSound ==
  /\ \A e \in released : Position[e] \in 1..last
  /\ \A p \in 1..last : \E e \in released : Position[e] = p
  /\ \A a, b \in released : Position[a] = Position[b] => a = b
  /\ \A i \in DOMAIN kept : kept[i] \notin released => Position[kept[i]] # last + 1

\* What an ingest still holds was released, and is held in one place of one.
Holds(c, e) == \E k \in DOMAIN held[c] : held[c][k] = e

HeldSound ==
  /\ \A c \in Calls : \A k \in DOMAIN held[c] : held[c][k] \in released
  /\ \A c \in Calls : \A k, l \in DOMAIN held[c] : held[c][k] = held[c][l] => k = l
  /\ \A c, x \in Calls : \A e \in Events : Holds(c, e) /\ Holds(x, e) => c = x

\* A job is of an event released and no longer held, and the only one of its
\* delivery; every event released is held or has its job.
JobsSound ==
  /\ \A i \in DOMAIN jobs : jobs[i].event \in released
  /\ \A i \in DOMAIN jobs : jobs[i].status = "QUEUED" => jobs[i].attempts < MaximumAttempts
  /\ \A i, j \in DOMAIN jobs :
       jobs[i].event = jobs[j].event /\ jobs[i].delivery = jobs[j].delivery => i = j
  /\ \A i \in DOMAIN jobs : jobs[i].delivery = First =>
       \A c \in Calls : ~ Holds(c, jobs[i].event)
  /\ \A e \in released : Queued(e, First) \/ \E c \in Calls : Holds(c, e)

EInv == EventsTypeOK /\ StreamSound /\ HeldSound /\ JobsSound

-----------------------------------------------------------------------------
(* Numbers.                                                                *)

\* A set of numbers with 0 and every successor is all of them.
LEMMA EveryNumber ==
  ASSUME NEW G \in SUBSET Nat, 0 \in G, \A n \in G : n + 1 \in G
  PROVE  G = Nat
<1> SUFFICES ASSUME G # Nat PROVE FALSE
  OBVIOUS
<1> DEFINE R == OpToRel(<, Nat)
           B == Nat \ G
<1>1. PICK a \in B : \A b \in B : ~ (<<b, a>> \in R)
  <2>1. B # {} /\ B \subseteq Nat
    OBVIOUS
  <2> QED BY <2>1, NatLessThanWellFounded, WFMin
<1>2. a # 0 /\ a \in Nat /\ a \notin G
  OBVIOUS
<1>3. a - 1 \in Nat /\ a - 1 < a /\ a - 1 + 1 = a
  BY <1>2
<1>4. <<a - 1, a>> \in R
  BY <1>2, <1>3 DEF OpToRel
<1>5. a - 1 \in G
  <2> HIDE DEF R
  <2> QED BY <1>1, <1>3, <1>4
<1>6. a - 1 + 1 \in G
  BY <1>5
<1> QED BY <1>2, <1>3, <1>6

\* A set of numbers that has a member has a smallest one.
LEMMA SmallestMember ==
  ASSUME NEW S \in SUBSET Nat, NEW y \in S
  PROVE  \E x \in S : \A z \in S : x <= z
<1> SUFFICES ASSUME \A x \in S : \E z \in S : ~ (x <= z) PROVE FALSE
  OBVIOUS
<1> DEFINE G == {n \in Nat : \A x \in S : n <= x}
<1>1. 0 \in G
  OBVIOUS
<1>2. ASSUME NEW n \in G PROVE n + 1 \in G
  <2>1. n \in Nat /\ \A x \in S : n <= x
    OBVIOUS
  <2>2. ASSUME NEW x \in S PROVE n + 1 <= x
    <3>1. x \in Nat /\ n <= x
      BY <2>1
    <3>2. x # n
      BY <2>1
    <3> QED BY <2>1, <3>1, <3>2
  <2> QED BY <2>1, <2>2
<1>3. G = Nat
  <2> HIDE DEF G
  <2>1. G \in SUBSET Nat
    BY DEF G
  <2> QED BY <1>1, <1>2, <2>1, EveryNumber
<1>4. y + 1 \in G
  BY <1>3
<1> QED BY <1>4

\* The minimum of a set of numbers with a member is its smallest member.
LEMMA MinIsSmallest ==
  ASSUME NEW S \in SUBSET Nat, NEW y \in S
  PROVE  Min(S) \in S /\ \A z \in S : Min(S) <= z
BY SmallestMember DEF Min

\* A bounded set of numbers that has a member has a largest one.
LEMMA MaxIsLargest ==
  ASSUME NEW S \in SUBSET Nat, NEW y \in S, NEW b \in Nat, \A z \in S : z <= b
  PROVE  Max(S) \in S /\ \A z \in S : Max(S) >= z
<1> DEFINE T == {b - z : z \in S}
<1>1. T \in SUBSET Nat /\ b - y \in T
  <2>1. ASSUME NEW z \in S PROVE b - z \in Nat
    <3>1. z \in Nat /\ z <= b
      OBVIOUS
    <3> QED BY <3>1
  <2> QED BY <2>1
<1>2. PICK t \in T : \A z \in T : t <= z
  <2> HIDE DEF T
  <2> QED BY <1>1, SmallestMember
<1>3. PICK x \in S : t = b - x
  OBVIOUS
<1>4. ASSUME NEW z \in S PROVE x >= z
  <2>1. b - x <= b - z
    BY <1>2, <1>3
  <2>2. x \in Nat /\ z \in Nat
    OBVIOUS
  <2> QED BY <2>1, <2>2
<1>5. \E m \in S : \A z \in S : m >= z
  BY <1>4
<1> QED BY <1>5 DEF Max

\* The numbers of finitely many events have a bound.
LEMMA BoundOfMany ==
  ASSUME NEW n \in Nat, NEW f, \A i \in 1..n : f[i] \in Nat
  PROVE  \E b \in Nat : \A i \in 1..n : f[i] <= b
<1> DEFINE G == {m \in Nat : m <= n => \E b \in Nat : \A i \in 1..m : f[i] <= b}
<1>1. 0 \in G
  <2>1. \A i \in 1..0 : f[i] <= 0
    OBVIOUS
  <2> QED BY <2>1
<1>2. ASSUME NEW m \in G PROVE m + 1 \in G
  <2> SUFFICES ASSUME m + 1 <= n PROVE \E b \in Nat : \A i \in 1..(m + 1) : f[i] <= b
    OBVIOUS
  <2>1. m \in Nat /\ m <= n
    OBVIOUS
  <2>2. PICK b \in Nat : \A i \in 1..m : f[i] <= b
    BY <2>1
  <2>3. PICK k \in Nat : k = f[m + 1]
    BY <2>1
  <2>4. PICK c \in Nat : c = b + k
    OBVIOUS
  <2>5. ASSUME NEW i \in 1..(m + 1) PROVE f[i] <= c
    <3>1. CASE i = m + 1
      BY <2>3, <2>4, <3>1
    <3>2. CASE i \in 1..m
      <4>1. f[i] <= b /\ f[i] \in Nat
        BY <2>1, <2>2, <3>2
      <4> QED BY <2>4, <4>1
    <3> QED BY <2>1, <3>1, <3>2
  <2> QED BY <2>5
<1>3. G = Nat
  <2> HIDE DEF G
  <2>1. G \in SUBSET Nat
    BY DEF G
  <2> QED BY <1>1, <1>2, <2>1, EveryNumber
<1>4. n \in G
  BY <1>3
<1> QED BY <1>4

-----------------------------------------------------------------------------
(* What one event releases.                                                *)

\* Every position is a positive number.
LEMMA PositionIsNat ==
  ASSUME NEW e \in Events
  PROVE  Position[e] \in Nat /\ Position[e] >= 1 /\ Position[e] \in Positions
BY EventsAssumption DEF Positions

\* The run ends at the first position nothing waits for.
LEMMA RunEnds ==
  ASSUME EInv, NEW e \in Events, ~ Known(e), InTurn(e)
  PROVE  /\ RunEnd(e) \in Nat /\ RunEnd(e) >= Position[e]
         /\ \A q \in (Position[e] + 1)..RunEnd(e) : Buffered(q) # {}
         /\ Buffered(RunEnd(e) + 1) = {}
<1> DEFINE p == Position[e]
           Q == {r \in Positions : r >= p /\ \A q \in (p + 1)..r : Buffered(q) # {}}
<1>1. Positions \subseteq Nat /\ p \in Nat /\ p \in Positions
  BY PositionIsNat, EventsAssumption DEF Positions
<1>2. Q \in SUBSET Nat /\ p \in Q
  <2>1. (p + 1)..p = {} /\ p >= p
    BY <1>1
  <2> QED BY <1>1, <2>1
<1>3. kept \in Seq(Events)
  BY DEF EInv, EventsTypeOK
<1>4. PICK b \in Nat : \A i \in 1..Len(kept) : Position[kept[i]] <= b
  <2>1. PICK f : f = [i \in 1..Len(kept) |-> Position[kept[i]]]
    OBVIOUS
  <2>2. \A i \in 1..Len(kept) : f[i] = Position[kept[i]] /\ f[i] \in Nat
    BY <1>3, <2>1, PositionIsNat
  <2>3. Len(kept) \in Nat
    BY <1>3
  <2>4. \E b \in Nat : \A i \in 1..Len(kept) : f[i] <= b
    BY <2>2, <2>3, BoundOfMany
  <2> QED BY <2>2, <2>4
<1>5. \A q : Buffered(q) # {} => q <= b
  BY <1>3, <1>4 DEF Buffered
<1>6. PICK d \in Nat : d = b + p
  BY <1>1
<1>7. ASSUME NEW r \in Q PROVE r <= d
  <2>1. r \in Nat /\ r >= p /\ \A q \in (p + 1)..r : Buffered(q) # {}
    BY <1>1
  <2>2. CASE r = p
    BY <1>1, <1>6, <2>2
  <2>3. CASE r > p
    <3>1. r \in (p + 1)..r
      BY <1>1, <2>1, <2>3
    <3>2. r <= b
      BY <1>5, <2>1, <3>1
    <3> QED BY <1>1, <1>6, <2>1, <3>2
  <2> QED BY <1>1, <2>1, <2>2, <2>3
<1>8. PICK m : m = Max(Q)
  OBVIOUS
<1>9. m \in Q /\ \A r \in Q : m >= r
  <2> HIDE DEF Q
  <2> QED BY <1>2, <1>6, <1>7, <1>8, MaxIsLargest
<1>10. RunEnd(e) = m
  BY <1>8 DEF RunEnd
<1>11. m \in Nat /\ m >= p /\ \A q \in (p + 1)..m : Buffered(q) # {}
  BY <1>2, <1>9
<1>12. Buffered(m + 1) = {}
  <2> SUFFICES ASSUME Buffered(m + 1) # {} PROVE FALSE
    OBVIOUS
  <2>1. m + 1 \in Positions
    <3>1. PICK i \in DOMAIN kept : Position[kept[i]] = m + 1
      BY DEF Buffered
    <3>2. kept[i] \in Events
      BY <1>3
    <3> QED BY <3>1, <3>2, PositionIsNat
  <2>2. \A q \in (p + 1)..(m + 1) : q \in (p + 1)..m \/ q = m + 1
    BY <1>1, <1>11
  <2>3. \A q \in (p + 1)..(m + 1) : Buffered(q) # {}
    BY <1>11, <2>2
  <2>4. m + 1 \in Q
    BY <1>1, <1>11, <2>1, <2>3
  <2> QED BY <1>9, <1>11, <2>4
<1> QED BY <1>10, <1>11, <1>12

\* The run has one event for each of its positions, the first one e, the others
\* kept back so far.
RunOf(u, e, r) ==
  /\ u \in Seq(Events) /\ Len(u) = r - Position[e] + 1
  /\ \A k \in DOMAIN u : /\ Position[u[k]] = Position[e] + k - 1
                         /\ u[k] = e \/ u[k] \in ToSet(kept)
                         /\ u[k] \notin released

\* What an accepted event releases is such a run.
LEMMA RunIsRun ==
  ASSUME EInv, NEW e \in Events, ~ Known(e), InTurn(e)
  PROVE  RunOf(Run(e), e, RunEnd(e)) /\ Run(e) # <<>> /\ Run(e)[1] = e
<1>1. PICK r : r = RunEnd(e)
  OBVIOUS
<1>2. PICK p : p = Position[e]
  OBVIOUS
<1>3. r \in Nat /\ r >= p /\ p \in Nat /\ p >= 1 /\ \A q \in (p + 1)..r : Buffered(q) # {}
  BY <1>1, <1>2, RunEnds, PositionIsNat
<1>4. PICK u : u = Run(e)
  OBVIOUS
<1>5. u = [k \in 1..(r - p + 1) |-> IF k = 1 THEN e ELSE kept[Min(Buffered(p + k - 1))]]
  BY <1>1, <1>2, <1>4 DEF Run
<1>6. kept \in Seq(Events) /\ e \notin released
  BY DEF EInv, EventsTypeOK, Known
<1>7. ASSUME NEW k \in 1..(r - p + 1)
      PROVE  /\ u[k] \in Events /\ Position[u[k]] = p + k - 1
             /\ u[k] = e \/ u[k] \in ToSet(kept)
             /\ u[k] \notin released
  <2>1. CASE k = 1
    BY <1>2, <1>3, <1>5, <1>6, <2>1
  <2>2. CASE k # 1
    <3>1. p + k - 1 \in (p + 1)..r
      BY <1>3, <2>2
    <3>2. PICK B : B = Buffered(p + k - 1)
      OBVIOUS
    <3>3. B \in SUBSET Nat /\ B # {}
      BY <1>3, <1>6, <3>1, <3>2 DEF Buffered
    <3>4. PICK i \in B : i = Min(B)
      BY <3>3, MinIsSmallest
    <3>5. u[k] = kept[i]
      BY <1>5, <2>2, <3>2, <3>4
    <3>6. i \in DOMAIN kept /\ kept[i] \notin released /\ Position[kept[i]] = p + k - 1
      BY <3>2 DEF Buffered
    <3>7. kept[i] \in Events /\ kept[i] \in ToSet(kept)
      BY <1>6, <3>6 DEF ToSet
    <3> QED BY <3>5, <3>6, <3>7
  <2> QED BY <2>1, <2>2
<1>8. r - p + 1 \in Nat /\ r - p + 1 >= 1
  BY <1>3
<1>9. u \in Seq(Events) /\ Len(u) = r - p + 1 /\ DOMAIN u = 1..(r - p + 1)
  BY <1>5, <1>7, <1>8
<1>10. u # <<>> /\ u[1] = e
  BY <1>5, <1>8, <1>9
<1> QED BY <1>1, <1>2, <1>4, <1>7, <1>9, <1>10 DEF RunOf

-----------------------------------------------------------------------------
(* The steps of the store.                                                 *)

\* One more event is kept.
LEMMA OneMoreKept ==
  ASSUME kept \in Seq(Events), NEW e \in Events, kept' = Append(kept, e)
  PROVE  /\ kept' \in Seq(Events) /\ ToSet(kept') = ToSet(kept) \cup {e}
         /\ \A i \in DOMAIN kept' : (i \in DOMAIN kept /\ kept'[i] = kept[i]) \/ kept'[i] = e
<1>1. kept' \in Seq(Events) /\ Len(kept') = Len(kept) + 1 /\ Len(kept) \in Nat
  OBVIOUS
<1>2. DOMAIN kept = 1..Len(kept) /\ DOMAIN kept' = 1..(Len(kept) + 1)
  BY <1>1
<1>3. /\ \A i \in DOMAIN kept : i \in DOMAIN kept' /\ kept'[i] = kept[i]
      /\ Len(kept) + 1 \in DOMAIN kept' /\ kept'[Len(kept) + 1] = e
  BY <1>1, <1>2
<1>4. \A i \in DOMAIN kept' : i \in DOMAIN kept \/ i = Len(kept) + 1
  BY <1>1, <1>2
<1> QED BY <1>1, <1>3, <1>4 DEF ToSet

\* An event behind a gap waits: nothing moves but what is kept.
LEMMA GapStep ==
  ASSUME EInv, NEW c \in Calls, NEW e \in Events, BufferGap(c, e)
  PROVE  EInv'
<1>1. kept' = Append(kept, e) /\ UNCHANGED <<released, last, held, jobs, running, retried>>
  BY DEF BufferGap
<1>2. kept \in Seq(Events) /\ Position[e] # last + 1
  BY DEF BufferGap, InTurn, EInv, EventsTypeOK
<1>3. EventsTypeOK'
  BY <1>1, <1>2, OneMoreKept DEF EInv, EventsTypeOK
<1>4. StreamSound'
  BY <1>1, <1>2, OneMoreKept DEF EInv, StreamSound
<1>5. HeldSound' /\ JobsSound'
  BY <1>1 DEF EInv, HeldSound, JobsSound, Holds, Queued
<1> QED BY <1>3, <1>4, <1>5 DEF EInv

\* What an accepted event changes, in the words of its run u.
Releases(c, e, u, r) ==
  /\ RunOf(u, e, r) /\ u # <<>> /\ r \in Nat /\ r >= Position[e] /\ Position[e] = last + 1
  /\ Buffered(r + 1) = {}
  /\ e \notin ToSet(kept)
  /\ held[c] = <<>>
  /\ kept' = Append(kept, e) /\ released' = released \cup ToSet(u) /\ last' = r
  /\ held' = [held EXCEPT ![c] = u]
  /\ UNCHANGED <<jobs, running, retried>>

\* An accepted event releases its run, up to the first position that is missing.
LEMMA AcceptReleases ==
  ASSUME EInv, NEW c \in Calls, NEW e \in Events, Accept(c, e)
  PROVE  Releases(c, e, Run(e), RunEnd(e))
<1>1. ~ Known(e) /\ InTurn(e)
  BY DEF Accept
<1> QED BY <1>1, RunEnds, RunIsRun DEF Accept, Releases, InTurn, Known

\* A release leaves the stream gapless, and nothing in turn is kept back.
LEMMA ReleaseKeepsStream ==
  ASSUME EInv, NEW c \in Calls, NEW e \in Events, NEW u, NEW r, Releases(c, e, u, r)
  PROVE  EventsTypeOK' /\ StreamSound'
<1>1. /\ kept \in Seq(Events) /\ last \in Nat /\ released \subseteq ToSet(kept)
      /\ held \in [Calls -> Seq(Events)]
  BY DEF EInv, EventsTypeOK
<1>2. PICK p \in Nat : p = Position[e] /\ p >= 1 /\ p = last + 1
  BY PositionIsNat DEF Releases
<1>3. /\ u \in Seq(Events) /\ Len(u) = r - p + 1 /\ r \in Nat /\ r >= p
      /\ \A k \in DOMAIN u : /\ Position[u[k]] = p + k - 1
                             /\ u[k] = e \/ u[k] \in ToSet(kept)
                             /\ u[k] \notin released
  BY <1>2 DEF Releases, RunOf
<1>4. DOMAIN u = 1..(r - p + 1)
  BY <1>3
<1>5. ToSet(kept') = ToSet(kept) \cup {e} /\ kept' \in Seq(Events)
      /\ \A i \in DOMAIN kept' : (i \in DOMAIN kept /\ kept'[i] = kept[i]) \/ kept'[i] = e
  BY <1>1, OneMoreKept DEF Releases
<1>6. \A x : x \in ToSet(u) <=> \E k \in DOMAIN u : u[k] = x
  BY DEF ToSet
<1>7. released' = released \cup ToSet(u) /\ last' = r /\ UNCHANGED <<jobs, running, retried>>
      /\ held' = [held EXCEPT ![c] = u]
  BY DEF Releases
<1>8. EventsTypeOK'
  <2>1. released' \subseteq ToSet(kept')
    BY <1>1, <1>3, <1>5, <1>6, <1>7
  <2>2. held' \in [Calls -> Seq(Events)]
    BY <1>1, <1>3, <1>7
  <2> QED BY <1>3, <1>5, <1>7, <2>1, <2>2 DEF EInv, EventsTypeOK
<1>9. \A x \in released : Position[x] \in 1..last
  BY DEF EInv, StreamSound
<1>10. \A k \in DOMAIN u : Position[u[k]] \in p..r
  BY <1>3, <1>4
<1>11. StreamSound'
  <2>1. ASSUME NEW x \in released' PROVE Position[x] \in 1..r
    <3>1. CASE x \in released
      <4>1. Position[x] \in 1..last
        BY <1>9, <3>1
      <4> QED BY <1>1, <1>2, <1>3, <4>1
    <3>2. CASE x \in ToSet(u)
      BY <1>2, <1>3, <1>6, <1>10, <3>2
    <3> QED BY <1>7, <3>1, <3>2
  <2>2. ASSUME NEW q \in 1..r PROVE \E x \in released' : Position[x] = q
    <3>1. CASE q <= last
      <4>1. q \in 1..last
        BY <1>1, <3>1
      <4> QED BY <1>7, <4>1 DEF EInv, StreamSound
    <3>2. CASE q > last
      <4>1. q - p + 1 \in DOMAIN u /\ p + (q - p + 1) - 1 = q
        BY <1>1, <1>2, <1>3, <1>4, <3>2
      <4>2. u[q - p + 1] \in released'
        BY <1>6, <1>7, <4>1
      <4> QED BY <1>3, <4>1, <4>2
    <3> QED BY <1>1, <3>1, <3>2
  <2>3. ASSUME NEW x \in released', NEW y \in released', Position[x] = Position[y] PROVE x = y
    <3>1. CASE x \in released /\ y \in released
      BY <2>3, <3>1 DEF EInv, StreamSound
    <3>2. CASE x \in ToSet(u) /\ y \in ToSet(u)
      <4>1. PICK k \in DOMAIN u, l \in DOMAIN u : u[k] = x /\ u[l] = y
        BY <1>6, <3>2
      <4>2. p + k - 1 = p + l - 1
        BY <1>3, <2>3, <4>1
      <4> QED BY <1>2, <1>4, <4>1, <4>2
    <3>3. ~ (x \in released /\ y \in ToSet(u)) /\ ~ (y \in released /\ x \in ToSet(u))
      <4>1. \A z \in ToSet(u) : Position[z] \in p..r
        BY <1>6, <1>10
      <4> QED BY <1>1, <1>2, <1>9, <2>3, <4>1
    <3> QED BY <1>7, <3>1, <3>2, <3>3
  <2>4. ASSUME NEW i \in DOMAIN kept', kept'[i] \notin released' PROVE Position[kept'[i]] # r + 1
    <3>1. CASE i \in DOMAIN kept /\ kept'[i] = kept[i]
      <4>1. i \notin Buffered(r + 1)
        BY DEF Releases
      <4> QED BY <1>7, <2>4, <3>1, <4>1 DEF Buffered
    <3>2. CASE kept'[i] = e
      <4>1. Position[e] # r + 1
        BY <1>2, <1>3
      <4> QED BY <3>2, <4>1
    <3> QED BY <1>5, <3>1, <3>2
  <2> QED BY <1>7, <2>1, <2>2, <2>3, <2>4 DEF StreamSound
<1> QED BY <1>8, <1>11

\* A release gives its ingest events nobody held and no job was made of.
LEMMA ReleaseKeepsQueue ==
  ASSUME EInv, NEW c \in Calls, NEW e \in Events, NEW u, NEW r, Releases(c, e, u, r)
  PROVE  HeldSound' /\ JobsSound'
<1>1. held \in [Calls -> Seq(Events)] /\ held[c] = <<>>
  BY DEF EInv, EventsTypeOK, Releases
<1>2. /\ u \in Seq(Events)
      /\ \A k \in DOMAIN u : Position[u[k]] = Position[e] + k - 1 /\ u[k] \notin released
  BY DEF Releases, RunOf
<1>3. released' = released \cup ToSet(u) /\ UNCHANGED <<jobs, running, retried>>
      /\ held' = [held EXCEPT ![c] = u]
  BY DEF Releases
<1>4. \A x : x \in ToSet(u) <=> \E k \in DOMAIN u : u[k] = x
  BY DEF ToSet
<1>5. held'[c] = u /\ \A x \in Calls : x # c => held'[x] = held[x]
  BY <1>1, <1>3
<1>6. \A f : Holds(c, f)' <=> f \in ToSet(u)
  BY <1>4, <1>5 DEF Holds
<1>7. \A x \in Calls : x # c => \A f : Holds(x, f)' <=> Holds(x, f)
  BY <1>5 DEF Holds
<1>8. \A x \in Calls : \A f : Holds(x, f) => f \in released /\ x # c
  BY <1>1 DEF EInv, HeldSound, Holds
<1>9. \A f \in ToSet(u) : f \notin released
  BY <1>2, <1>4
<1>10. HeldSound'
  <2>1. ASSUME NEW x \in Calls, NEW k \in DOMAIN held'[x] PROVE held'[x][k] \in released'
    <3>1. CASE x = c
      BY <1>3, <1>4, <1>5, <3>1, <2>1
    <3>2. CASE x # c
      BY <1>3, <1>5, <2>1, <3>2 DEF EInv, HeldSound
    <3> QED BY <3>1, <3>2
  <2>2. ASSUME NEW x \in Calls, NEW k \in DOMAIN held'[x], NEW l \in DOMAIN held'[x],
               held'[x][k] = held'[x][l]
        PROVE  k = l
    <3>1. CASE x = c
      <4>1. k \in DOMAIN u /\ l \in DOMAIN u /\ u[k] = u[l]
        BY <1>5, <2>2, <3>1
      <4>2. Position[e] + k - 1 = Position[e] + l - 1
        BY <1>2, <4>1
      <4>3. k \in Int /\ l \in Int /\ Position[e] \in Int
        BY <1>2, <4>1, PositionIsNat
      <4> QED BY <4>2, <4>3
    <3>2. CASE x # c
      BY <1>5, <2>2, <3>2 DEF EInv, HeldSound
    <3> QED BY <3>1, <3>2
  <2>3. ASSUME NEW x \in Calls, NEW y \in Calls, NEW f \in Events, Holds(x, f)', Holds(y, f)'
        PROVE  x = y
    BY <1>6, <1>7, <1>8, <1>9, <2>3 DEF EInv, HeldSound
  <2> QED BY <2>1, <2>2, <2>3 DEF HeldSound
<1>11. JobsSound'
  <2>1. \A i \in DOMAIN jobs : jobs[i].event \in released /\ jobs[i].event \notin ToSet(u)
    BY <1>9 DEF EInv, JobsSound
  <2>2. ASSUME NEW i \in DOMAIN jobs, jobs[i].delivery = First, NEW x \in Calls, NEW f,
               f = jobs[i].event
        PROVE  ~ Holds(x, f)'
    <3>1. f \notin ToSet(u) /\ ~ Holds(x, f)
      BY <2>1, <2>2 DEF EInv, JobsSound
    <3> QED BY <1>6, <1>7, <3>1
  <2>3. \A f \in released' : Queued(f, First) \/ \E x \in Calls : Holds(x, f)'
    BY <1>3, <1>6, <1>7, <1>8 DEF EInv, JobsSound
  <2> QED BY <1>3, <2>1, <2>2, <2>3 DEF EInv, JobsSound, Queued, Holds
<1> QED BY <1>10, <1>11

\* An event in turn, and all it releases, keep the invariant.
LEMMA AcceptStep ==
  ASSUME EInv, NEW c \in Calls, NEW e \in Events, Accept(c, e)
  PROVE  EInv'
BY AcceptReleases, ReleaseKeepsStream, ReleaseKeepsQueue DEF EInv

-----------------------------------------------------------------------------
(* The steps of the queue.                                                 *)

\* A job made anew has all its attempts left.
LEMMA NewJobTyped ==
  ASSUME NEW e \in Events, NEW d \in Deliveries
  PROVE  /\ NewJob(e, d) \in QueueJob
         /\ NewJob(e, d).event = e /\ NewJob(e, d).delivery = d
         /\ NewJob(e, d).attempts < MaximumAttempts
BY EventsAssumption DEF NewJob, QueueJob

\* What the workers and the operator do to a job changes neither its event nor
\* its delivery.
LEMMA SameJobsStep ==
  ASSUME EInv, UNCHANGED stored, UNCHANGED held,
         jobs' \in Seq(QueueJob), DOMAIN jobs' = DOMAIN jobs,
         running' \in [Workers -> 0..Len(jobs')], retried' \in 0..MaxOperatorRetries,
         \A i \in DOMAIN jobs : /\ jobs'[i].event = jobs[i].event
                                /\ jobs'[i].delivery = jobs[i].delivery
                                /\ jobs'[i].status = "QUEUED" => jobs'[i].attempts < MaximumAttempts
  PROVE  EInv'
<1>1. kept' = kept /\ released' = released /\ last' = last /\ held' = held
  BY DEF stored
<1>2. EventsTypeOK' /\ StreamSound' /\ HeldSound'
  <2>1. EventsTypeOK'
    BY <1>1 DEF EInv, EventsTypeOK
  <2>2. StreamSound'
    BY <1>1 DEF EInv, StreamSound
  <2>3. HeldSound'
    BY <1>1 DEF EInv, HeldSound, Holds
  <2> QED BY <2>1, <2>2, <2>3
<1>3. \A f, d : Queued(f, d)' <=> Queued(f, d)
  BY DEF Queued
<1>4. \A x, f : Holds(x, f)' <=> Holds(x, f)
  BY <1>1 DEF Holds
<1>5. ASSUME NEW i \in DOMAIN jobs, jobs[i].delivery = First, NEW x \in Calls, NEW f,
             f = jobs'[i].event
      PROVE  ~ Holds(x, f)'
  BY <1>4, <1>5 DEF EInv, JobsSound
<1>6. JobsSound'
  BY <1>1, <1>3, <1>4, <1>5 DEF EInv, JobsSound
<1> QED BY <1>2, <1>6 DEF EInv

\* One job replaced by another of the same event and delivery.
LEMMA OneJobStep ==
  ASSUME EInv, UNCHANGED stored, UNCHANGED held, NEW i \in DOMAIN jobs, NEW j \in QueueJob,
         jobs' = [jobs EXCEPT ![i] = j], j.event = jobs[i].event, j.delivery = jobs[i].delivery,
         j.status = "QUEUED" => j.attempts < MaximumAttempts,
         running' \in [Workers -> 0..Len(jobs)], retried' \in 0..MaxOperatorRetries
  PROVE  EInv'
<1>1. jobs \in Seq(QueueJob)
  BY DEF EInv, EventsTypeOK
<1>2. jobs' \in Seq(QueueJob) /\ DOMAIN jobs' = DOMAIN jobs /\ Len(jobs') = Len(jobs)
  BY <1>1
<1>3. ASSUME NEW k \in DOMAIN jobs
      PROVE  /\ jobs'[k].event = jobs[k].event /\ jobs'[k].delivery = jobs[k].delivery
             /\ jobs'[k].status = "QUEUED" => jobs'[k].attempts < MaximumAttempts
  <2>1. CASE k = i
    BY <1>1, <2>1
  <2>2. CASE k # i
    BY <1>1, <2>2 DEF EInv, JobsSound
  <2> QED BY <2>1, <2>2
<1> QED BY <1>2, <1>3, SameJobsStep

\* A worker is at a job, or at none.
LEMMA AtJob ==
  ASSUME EInv, NEW w \in Workers, running[w] # 0
  PROVE  running[w] \in DOMAIN jobs /\ jobs[running[w]] \in QueueJob
<1>1. jobs \in Seq(QueueJob) /\ running[w] \in 0..Len(jobs)
  BY DEF EInv, EventsTypeOK
<1> QED BY <1>1

\* A worker takes the oldest waiting job, which has attempts left.
LEMMA TakeStep ==
  ASSUME EInv, NEW w \in Workers, TakeJob(w)
  PROVE  EInv'
<1>1. jobs \in Seq(QueueJob) /\ running \in [Workers -> 0..Len(jobs)]
      /\ retried \in 0..MaxOperatorRetries
  BY DEF EInv, EventsTypeOK
<1>2. Waiting \in SUBSET Nat /\ Waiting # {}
  BY <1>1 DEF TakeJob, Waiting
<1>3. PICK i \in Waiting : i = Min(Waiting)
  BY <1>2, MinIsSmallest
<1>4. i \in DOMAIN jobs /\ jobs[i] \in QueueJob /\ jobs[i].status = "QUEUED"
  BY <1>1, <1>3 DEF Waiting
<1>5. jobs[i].attempts < MaximumAttempts
  BY <1>4 DEF EInv, JobsSound
<1>6. PICK j : j = [jobs[i] EXCEPT !.status = "RUNNING", !.attempts = @ + 1]
  OBVIOUS
<1>7. j \in QueueJob /\ j.event = jobs[i].event /\ j.delivery = jobs[i].delivery /\ j.status = "RUNNING"
  <2>1. jobs[i].attempts \in Nat /\ MaximumAttempts \in Nat
    BY <1>4, EventsAssumption DEF QueueJob
  <2>2. jobs[i].attempts + 1 \in 0..MaximumAttempts
    BY <1>5, <2>1
  <2>3. j = [event |-> jobs[i].event, delivery |-> jobs[i].delivery,
             attempts |-> jobs[i].attempts + 1, status |-> "RUNNING"]
    BY <1>4, <1>6 DEF QueueJob
  <2> QED BY <1>4, <2>2, <2>3 DEF QueueJob
<1>8. jobs' = [jobs EXCEPT ![i] = j] /\ running' = [running EXCEPT ![w] = i]
      /\ UNCHANGED <<stored, held, retried>>
  BY <1>3, <1>4, <1>6, <1>1 DEF TakeJob, QueueJob
<1>9. running' \in [Workers -> 0..Len(jobs)]
  BY <1>1, <1>4, <1>8
<1> QED BY <1>1, <1>4, <1>7, <1>8, <1>9, OneJobStep

\* A completed job stays the one job of its event and delivery.
LEMMA CompleteStep ==
  ASSUME EInv, NEW w \in Workers, CompleteJob(w)
  PROVE  EInv'
<1>1. jobs \in Seq(QueueJob) /\ running \in [Workers -> 0..Len(jobs)]
      /\ retried \in 0..MaxOperatorRetries
  BY DEF EInv, EventsTypeOK
<1>2. PICK i \in DOMAIN jobs : i = running[w] /\ jobs[i] \in QueueJob
  BY AtJob DEF CompleteJob
<1>3. PICK j : j = [jobs[i] EXCEPT !.status = "COMPLETED"]
  OBVIOUS
<1>4. j \in QueueJob /\ j.event = jobs[i].event /\ j.delivery = jobs[i].delivery /\ j.status = "COMPLETED"
  BY <1>2, <1>3 DEF QueueJob
<1>5. jobs' = [jobs EXCEPT ![i] = j] /\ running' = [running EXCEPT ![w] = 0]
      /\ UNCHANGED <<stored, held, retried>>
  BY <1>1, <1>2, <1>3 DEF CompleteJob
<1>6. running' \in [Workers -> 0..Len(jobs)]
  BY <1>1, <1>5
<1> QED BY <1>1, <1>4, <1>5, <1>6, OneJobStep

\* A failed job waits again only while it has attempts left.
LEMMA FailStep ==
  ASSUME EInv, NEW w \in Workers, FailJob(w)
  PROVE  EInv'
<1>1. jobs \in Seq(QueueJob) /\ running \in [Workers -> 0..Len(jobs)]
      /\ retried \in 0..MaxOperatorRetries
  BY DEF EInv, EventsTypeOK
<1>2. PICK i \in DOMAIN jobs : i = running[w] /\ jobs[i] \in QueueJob
  BY AtJob DEF FailJob
<1>3. PICK j : j = AfterFailure(jobs[i])
  OBVIOUS
<1>4. /\ j \in QueueJob /\ j.event = jobs[i].event /\ j.delivery = jobs[i].delivery
      /\ j.status = "QUEUED" => j.attempts < MaximumAttempts
  BY <1>2, <1>3, EventsAssumption DEF QueueJob, AfterFailure, Exhausted
<1>5. jobs' = [jobs EXCEPT ![i] = j] /\ running' = [running EXCEPT ![w] = 0]
      /\ UNCHANGED <<stored, held, retried>>
  BY <1>1, <1>2, <1>3 DEF FailJob
<1>6. running' \in [Workers -> 0..Len(jobs)]
  BY <1>1, <1>5
<1> QED BY <1>1, <1>4, <1>5, <1>6, OneJobStep

\* A dead letter put back by an operator has its attempts back.
LEMMA RetryStep ==
  ASSUME EInv, NEW i \in DOMAIN jobs, RetryDeadLetter(i)
  PROVE  EInv'
<1>1. jobs \in Seq(QueueJob) /\ running \in [Workers -> 0..Len(jobs)]
      /\ retried \in 0..MaxOperatorRetries
  BY DEF EInv, EventsTypeOK
<1>2. jobs[i] \in QueueJob
  BY <1>1
<1>3. PICK j : j = [jobs[i] EXCEPT !.status = "QUEUED", !.attempts = 0]
  OBVIOUS
<1>4. /\ j \in QueueJob /\ j.event = jobs[i].event /\ j.delivery = jobs[i].delivery
      /\ j.attempts < MaximumAttempts
  <2>1. 0 \in 0..MaximumAttempts /\ 0 < MaximumAttempts
    BY EventsAssumption
  <2>2. j = [event |-> jobs[i].event, delivery |-> jobs[i].delivery,
             attempts |-> 0, status |-> "QUEUED"]
    BY <1>2, <1>3 DEF QueueJob
  <2> QED BY <1>2, <2>1, <2>2 DEF QueueJob
<1>5. jobs' = [jobs EXCEPT ![i] = j] /\ UNCHANGED <<stored, held, running>>
  BY <1>1, <1>2, <1>3 DEF RetryDeadLetter, QueueJob
<1>6. retried' \in 0..MaxOperatorRetries
  BY <1>1, EventsAssumption DEF RetryDeadLetter
<1> QED BY <1>1, <1>4, <1>5, <1>6, OneJobStep

\* The list s has the event e.
InList(s, e) == \E k \in DOMAIN s : s[k] = e

\* A list without its first event.
LEMMA WithoutFirst ==
  ASSUME NEW h \in Seq(Events), h # <<>>, \A k, l \in DOMAIN h : h[k] = h[l] => k = l,
         NEW t, t = Tail(h)
  PROVE  /\ t \in Seq(Events) /\ Head(h) \in Events /\ 1 \in DOMAIN h /\ h[1] = Head(h)
         /\ \A k, l \in DOMAIN t : t[k] = t[l] => k = l
         /\ \A f : InList(t, f) <=> f # Head(h) /\ InList(h, f)
<1>1. PICK n \in Nat : n = Len(h) /\ n >= 1 /\ DOMAIN h = 1..n
  OBVIOUS
<1>2. t \in Seq(Events) /\ Head(h) \in Events /\ h[1] = Head(h) /\ DOMAIN t = 1..(n - 1)
      /\ \A k \in 1..(n - 1) : t[k] = h[k + 1]
  BY <1>1
<1>3. \A k \in 1..(n - 1) : k + 1 \in DOMAIN h /\ k + 1 # 1
  BY <1>1
<1>4. 1 \in DOMAIN h
  BY <1>1
<1>5. ASSUME NEW k \in DOMAIN t, NEW l \in DOMAIN t, t[k] = t[l] PROVE k = l
  <2>1. k + 1 = l + 1
    BY <1>2, <1>3, <1>5
  <2> QED BY <1>2, <2>1
<1>6. ASSUME NEW f PROVE (\E k \in DOMAIN t : t[k] = f) <=> f # Head(h) /\ \E k \in DOMAIN h : h[k] = f
  <2>1. ASSUME NEW k \in DOMAIN t, t[k] = f PROVE f # Head(h) /\ \E l \in DOMAIN h : h[l] = f
    <3>1. k + 1 \in DOMAIN h /\ k + 1 # 1 /\ h[k + 1] = f
      BY <1>2, <1>3, <2>1
    <3> QED BY <1>2, <1>4, <3>1
  <2>2. ASSUME f # Head(h), NEW l \in DOMAIN h, h[l] = f PROVE \E k \in DOMAIN t : t[k] = f
    <3>1. l # 1
      BY <1>2, <2>2
    <3>2. l - 1 \in 1..(n - 1) /\ (l - 1) + 1 = l
      BY <1>1, <3>1
    <3>3. t[l - 1] = h[l]
      BY <1>2, <3>2
    <3> QED BY <1>2, <2>2, <3>2, <3>3
  <2> QED BY <2>1, <2>2
<1> QED BY <1>2, <1>4, <1>5, <1>6 DEF InList

\* n jobs are added for the delivery d, of the events f lists.
Added(n, f, d) ==
  /\ jobs' \in Seq(QueueJob) /\ Len(jobs') = Len(jobs) + n
  /\ \A i \in DOMAIN jobs : jobs'[i] = jobs[i]
  /\ \A k \in 1..n : jobs'[Len(jobs) + k] = NewJob(f[k], d)

\* They are of events released, each once, that had none.
Fresh(n, f, d) ==
  /\ n \in Nat /\ f \in [1..n -> Events]
  /\ \A k \in 1..n : f[k] \in released
  /\ \A k, l \in 1..n : f[k] = f[l] => k = l
  /\ \A k \in 1..n : ~ Queued(f[k], d)

\* Ingests let go of nothing but what gets its first job, and of all of that.
HandsOver(n, f, d) ==
  /\ \A x \in Calls, e \in Events : Holds(x, e)' => Holds(x, e)
  /\ \A x \in Calls, e \in Events :
       Holds(x, e) => Holds(x, e)' \/ (d = First /\ \E k \in 1..n : f[k] = e)
  /\ d = First => \A k \in 1..n : \A x \in Calls : \A e : e = f[k] => ~ Holds(x, e)'

\* Jobs added for fresh events, handed over by those that held them, keep the
\* queue sound.
LEMMA AddedJobs ==
  ASSUME EInv, UNCHANGED stored, NEW n, NEW d \in Deliveries, NEW f,
         Fresh(n, f, d), Added(n, f, d), HandsOver(n, f, d)
  PROVE  JobsSound'
<1> USE DEF Fresh, HandsOver
<1>1. jobs \in Seq(QueueJob) /\ Len(jobs) \in Nat /\ DOMAIN jobs = 1..Len(jobs)
      /\ kept \in Seq(Events) /\ released \subseteq ToSet(kept)
  BY DEF EInv, EventsTypeOK
<1>2. released' = released /\ released \subseteq Events
  BY <1>1 DEF stored, ToSet
<1>3. PICK m \in Nat : m = Len(jobs)
  BY <1>1
<1>4. DOMAIN jobs' = 1..(m + n) /\ DOMAIN jobs = 1..m
  BY <1>1, <1>3 DEF Added
<1>5. /\ \A i \in 1..m : jobs'[i] = jobs[i]
      /\ \A k \in 1..n : /\ jobs'[m + k].event = f[k] /\ jobs'[m + k].delivery = d
                         /\ jobs'[m + k].attempts < MaximumAttempts
  <2>1. \A k \in 1..n : jobs'[m + k] = NewJob(f[k], d) /\ f[k] \in Events
    BY <1>3 DEF Added
  <2>2. ASSUME NEW k \in 1..n
        PROVE  /\ jobs'[m + k].event = f[k] /\ jobs'[m + k].delivery = d
               /\ jobs'[m + k].attempts < MaximumAttempts
    <3>1. jobs'[m + k] = NewJob(f[k], d) /\ f[k] \in Events
      BY <2>1
    <3> QED BY <3>1, NewJobTyped
  <2> QED BY <1>3, <1>4, <2>2 DEF Added
<1>6. \A i \in 1..(m + n) : i \in 1..m \/ (i - m \in 1..n /\ i = m + (i - m))
  OBVIOUS
<1>7. ASSUME NEW i \in 1..(m + n)
      PROVE  \/ i \in 1..m /\ jobs'[i] = jobs[i] /\ jobs[i].event \in released
             \/ \E k \in 1..n : /\ i = m + k /\ jobs'[i].event = f[k] /\ jobs'[i].delivery = d
                                /\ jobs'[i].attempts < MaximumAttempts
  <2>1. CASE i \in 1..m
    BY <1>4, <1>5, <2>1 DEF EInv, JobsSound
  <2>2. CASE i - m \in 1..n /\ i = m + (i - m)
    BY <1>5, <2>2
  <2> QED BY <1>6, <2>1, <2>2
<1>8. ASSUME NEW i \in 1..m, NEW k \in 1..n PROVE ~ (jobs[i].event = f[k] /\ jobs[i].delivery = d)
  BY <1>4 DEF Queued
<1>9. \A i \in 1..(m + n) : jobs'[i].event \in released
  BY <1>7
<1>10. \A i \in 1..(m + n) : jobs'[i].status = "QUEUED" => jobs'[i].attempts < MaximumAttempts
  BY <1>4, <1>7 DEF EInv, JobsSound
<1>11. ASSUME NEW i \in 1..(m + n), NEW j \in 1..(m + n), jobs'[i].event = jobs'[j].event,
              jobs'[i].delivery = jobs'[j].delivery
       PROVE  i = j
  <2>1. CASE i \in 1..m /\ j \in 1..m
    <3>1. jobs[i].event = jobs[j].event /\ jobs[i].delivery = jobs[j].delivery
      BY <1>5, <1>11, <2>1
    <3> QED BY <1>4, <2>1, <3>1 DEF EInv, JobsSound
  <2>2. CASE i \in 1..m /\ j \notin 1..m
    <3>1. PICK k \in 1..n : j = m + k /\ jobs'[j].event = f[k] /\ jobs'[j].delivery = d
      BY <1>7, <2>2
    <3> QED BY <1>5, <1>8, <1>11, <2>2, <3>1
  <2>3. CASE i \notin 1..m /\ j \in 1..m
    <3>1. PICK k \in 1..n : i = m + k /\ jobs'[i].event = f[k] /\ jobs'[i].delivery = d
      BY <1>7, <2>3
    <3> QED BY <1>5, <1>8, <1>11, <2>3, <3>1
  <2>4. CASE i \notin 1..m /\ j \notin 1..m
    <3>1. PICK k \in 1..n : i = m + k /\ jobs'[i].event = f[k]
      BY <1>7, <2>4
    <3>2. PICK l \in 1..n : j = m + l /\ jobs'[j].event = f[l]
      BY <1>7, <2>4
    <3>3. k = l
      BY <1>11, <3>1, <3>2
    <3> QED BY <3>1, <3>2, <3>3
  <2> QED BY <2>1, <2>2, <2>3, <2>4
<1>12. ASSUME NEW i \in 1..(m + n), jobs'[i].delivery = First, NEW x \in Calls, NEW e,
              e = jobs'[i].event
       PROVE  ~ Holds(x, e)'
  <2>1. e \in Events
    BY <1>2, <1>9, <1>12
  <2>2. CASE i \in 1..m
    <3>1. ~ Holds(x, e)
      BY <1>4, <1>5, <1>12, <2>2 DEF EInv, JobsSound
    <3> QED BY <2>1, <3>1
  <2>3. CASE i \notin 1..m
    <3>1. PICK k \in 1..n : jobs'[i].event = f[k] /\ jobs'[i].delivery = d
      BY <1>7, <2>3
    <3> QED BY <1>12, <3>1
  <2> QED BY <2>2, <2>3
<1>13. ASSUME NEW e \in released PROVE Queued(e, First)' \/ \E x \in Calls : Holds(x, e)'
  <2>1. e \in Events
    BY <1>2
  <2>2. CASE Queued(e, First)
    <3>1. PICK i \in DOMAIN jobs : jobs[i].event = e /\ jobs[i].delivery = First
      BY <2>2 DEF Queued
    <3>2. i \in DOMAIN jobs' /\ jobs'[i] = jobs[i]
      BY <1>4, <1>5, <3>1
    <3> QED BY <3>1, <3>2 DEF Queued
  <2>3. CASE \E x \in Calls : Holds(x, e)
    <3>1. PICK x \in Calls : Holds(x, e)
      BY <2>3
    <3>2. CASE Holds(x, e)'
      BY <3>2
    <3>3. CASE d = First /\ \E k \in 1..n : f[k] = e
      <4>1. PICK k \in 1..n : f[k] = e
        BY <3>3
      <4>2. m + k \in DOMAIN jobs' /\ jobs'[m + k].event = e /\ jobs'[m + k].delivery = First
        BY <1>4, <1>5, <3>3, <4>1
      <4> QED BY <4>2 DEF Queued
    <3> QED BY <2>1, <3>1, <3>2, <3>3
  <2> QED BY <2>2, <2>3 DEF EInv, JobsSound
<1> QED BY <1>2, <1>4, <1>9, <1>10, <1>11, <1>12, <1>13 DEF JobsSound

\* An ingest that queues the first event it holds lets go of it in the same step,
\* so that event has a job where it had a holder.
LEMMA EnqueueStep ==
  ASSUME EInv, NEW c \in Calls, Enqueue(c)
  PROVE  EInv'
<1>1. held \in [Calls -> Seq(Events)] /\ jobs \in Seq(QueueJob)
  BY DEF EInv, EventsTypeOK
<1>2. PICK h \in Seq(Events) : h = held[c] /\ h # <<>>
  BY <1>1 DEF Enqueue
<1>3. \A k, l \in DOMAIN h : h[k] = h[l] => k = l
  BY <1>2 DEF EInv, HeldSound
<1>4. PICK t : t = Tail(h)
  OBVIOUS
<1>5. PICK e \in Events : e = Head(h)
  BY <1>2, <1>3, <1>4, WithoutFirst
<1>6. /\ t \in Seq(Events) /\ 1 \in DOMAIN h /\ h[1] = e
      /\ \A k, l \in DOMAIN t : t[k] = t[l] => k = l
      /\ \A f : (\E k \in DOMAIN t : t[k] = f) <=> f # e /\ \E k \in DOMAIN h : h[k] = f
  <2>1. /\ t \in Seq(Events) /\ 1 \in DOMAIN h /\ h[1] = Head(h)
        /\ \A k, l \in DOMAIN t : t[k] = t[l] => k = l
    BY <1>2, <1>3, <1>4, WithoutFirst
  <2>2. \A f : InList(t, f) <=> f # Head(h) /\ InList(h, f)
    BY <1>2, <1>3, <1>4, WithoutFirst
  <2> QED BY <1>5, <2>1, <2>2 DEF InList
<1>7. Holds(c, e) /\ e \in released
  BY <1>2, <1>6 DEF Holds, EInv, HeldSound
<1>8. ~ Queued(e, First)
  BY <1>7 DEF Queued, EInv, JobsSound
<1>9. held' = [held EXCEPT ![c] = t] /\ jobs' = Append(jobs, NewJob(e, First))
      /\ UNCHANGED <<stored, running, retried>>
  BY <1>1, <1>2, <1>4, <1>5, <1>8 DEF Enqueue
<1>10. First \in Deliveries
  BY EventsAssumption DEF First, Deliveries
<1>11. NewJob(e, First) \in QueueJob
  BY <1>10, NewJobTyped
<1>12. held'[c] = t /\ \A x \in Calls : x # c => held'[x] = held[x]
  BY <1>1, <1>9
<1>13. \A f : Holds(c, f)' <=> f # e /\ Holds(c, f)
  BY <1>2, <1>6, <1>12 DEF Holds
<1>14. \A x \in Calls : x # c => \A f : Holds(x, f)' <=> Holds(x, f)
  BY <1>12 DEF Holds
<1>15. PICK f : f = [k \in 1..1 |-> e]
  OBVIOUS
<1>16. Added(1, f, First)
  <2>1. jobs' \in Seq(QueueJob) /\ Len(jobs') = Len(jobs) + 1 /\ DOMAIN jobs = 1..Len(jobs)
    BY <1>1, <1>9, <1>11
  <2>2. (\A i \in DOMAIN jobs : jobs'[i] = jobs[i]) /\ jobs'[Len(jobs) + 1] = NewJob(e, First)
    BY <1>1, <1>9, <1>11
  <2> QED BY <1>15, <2>1, <2>2 DEF Added
<1>17. JobsSound'
  <2>1. /\ 1 \in Nat /\ f \in [1..1 -> Events] /\ \A k \in 1..1 : f[k] = e
        /\ \A k, l \in 1..1 : k = l
    BY <1>15
  <2>2. \A x \in Calls, g \in Events : Holds(x, g)' => Holds(x, g)
    BY <1>13, <1>14
  <2>3. \A x \in Calls, g \in Events :
          Holds(x, g) => Holds(x, g)' \/ (First = First /\ \E k \in 1..1 : f[k] = g)
    BY <1>13, <1>14, <2>1
  <2>4. \A x \in Calls : ~ Holds(x, e)'
    <3>1. ASSUME NEW x \in Calls, x # c PROVE ~ Holds(x, e)
      BY <1>7, <3>1 DEF EInv, HeldSound
    <3> QED BY <1>13, <1>14, <3>1
  <2>5. \A k \in 1..1 : f[k] \in released /\ ~ Queued(f[k], First)
    BY <1>7, <1>8, <2>1
  <2>6. \A k \in 1..1 : \A x \in Calls : \A g : g = f[k] => ~ Holds(x, g)'
    BY <2>1, <2>4
  <2>7. \A k, l \in 1..1 : f[k] = f[l] => k = l
    BY <2>1
  <2>8. (\A k \in 1..1 : f[k] \in released) /\ (\A k \in 1..1 : ~ Queued(f[k], First))
    BY <2>5
  <2>9. First = First => \A k \in 1..1 : \A x \in Calls : \A g : g = f[k] => ~ Holds(x, g)'
    BY <2>6
  <2>10. UNCHANGED stored
    BY <1>9
  <2>11. Fresh(1, f, First)
    BY <2>1, <2>7, <2>8 DEF Fresh
  <2>12. HandsOver(1, f, First)
    BY <2>2, <2>3, <2>9 DEF HandsOver
  <2> QED BY <1>10, <1>16, <2>10, <2>11, <2>12, AddedJobs
<1>18. HeldSound'
  <2>1. ASSUME NEW x \in Calls, NEW k \in DOMAIN held'[x] PROVE held'[x][k] \in released
    <3>1. CASE x = c
      <4>1. \E l \in DOMAIN h : h[l] = t[k]
        BY <1>6, <1>12, <2>1, <3>1
      <4> QED BY <1>2, <1>12, <3>1, <4>1 DEF EInv, HeldSound
    <3>2. CASE x # c
      BY <1>12, <2>1, <3>2 DEF EInv, HeldSound
    <3> QED BY <3>1, <3>2
  <2>2. ASSUME NEW x \in Calls, NEW k \in DOMAIN held'[x], NEW l \in DOMAIN held'[x],
               held'[x][k] = held'[x][l]
        PROVE  k = l
    <3>1. CASE x = c
      BY <1>6, <1>12, <2>2, <3>1
    <3>2. CASE x # c
      BY <1>12, <2>2, <3>2 DEF EInv, HeldSound
    <3> QED BY <3>1, <3>2
  <2>3. \A x, y \in Calls : \A g \in Events : Holds(x, g)' /\ Holds(y, g)' => x = y
    BY <1>13, <1>14 DEF EInv, HeldSound
  <2>4. released' = released
    BY <1>9 DEF stored
  <2> QED BY <2>1, <2>2, <2>3, <2>4 DEF HeldSound
<1>19. EventsTypeOK'
  <2>1. held' \in [Calls -> Seq(Events)]
    BY <1>1, <1>6, <1>9
  <2>2. jobs' \in Seq(QueueJob) /\ Len(jobs') = Len(jobs) + 1 /\ Len(jobs) \in Nat
    BY <1>1, <1>16 DEF Added
  <2>3. running' \in [Workers -> 0..Len(jobs')]
    <3>1. running \in [Workers -> 0..Len(jobs)] /\ running' = running
      BY <1>9 DEF EInv, EventsTypeOK
    <3>2. \A w \in Workers : running[w] \in 0..Len(jobs')
      BY <2>2, <3>1
    <3> QED BY <3>1, <3>2
  <2> QED BY <1>9, <2>1, <2>2, <2>3 DEF EInv, EventsTypeOK, stored
<1>20. StreamSound'
  BY <1>9 DEF EInv, StreamSound, stored
<1> QED BY <1>17, <1>18, <1>19, <1>20 DEF EInv

-----------------------------------------------------------------------------
(* The order of a replay.                                                  *)

\* f lists the n events of S in the order of the store.
InStoreOrder(f, n, S) ==
  /\ f \in [1..n -> S]
  /\ \A i, j \in 1..n : i < j => Before(f[i], f[j]) /\ f[i] # f[j]
  /\ \A e \in S : \E i \in 1..n : f[i] = e

\* A set of n events can be counted.
LEMMA Counted ==
  ASSUME NEW S, S \subseteq Events, IsFiniteSet(S)
  PROVE  \E g : /\ Cardinality(S) \in Nat /\ g \in [1..Cardinality(S) -> S]
                /\ \A e \in S : \E i \in 1..Cardinality(S) : g[i] = e
<1>1. Cardinality(S) \in Nat /\ ExistsBijection(1..Cardinality(S), S)
  BY FS_CardinalityType
<1> QED BY <1>1 DEF ExistsBijection, Bijection, Injection, Surjection

\* Of finitely many events, one comes last in the order of the store.
LEMMA LastExists ==
  ASSUME NEW S, S \subseteq Events, IsFiniteSet(S), NEW y \in S
  PROVE  \E m \in S : \A e \in S : Before(e, m)
<1>1. PICK g : /\ Cardinality(S) \in Nat /\ g \in [1..Cardinality(S) -> S]
               /\ \A e \in S : \E i \in 1..Cardinality(S) : g[i] = e
  BY Counted
<1>2. PICK n \in Nat : n = Cardinality(S)
  BY <1>1
<1>3. \A i \in 1..n : g[i] \in S /\ g[i] \in Events
  BY <1>1, <1>2
<1>4. ASSUME NEW f \in [Events -> Nat] PROVE \E b \in Nat : \A e \in S : f[e] <= b
  <2>1. PICK h : h = [i \in 1..n |-> f[g[i]]]
    OBVIOUS
  <2>2. \A i \in 1..n : h[i] = f[g[i]] /\ h[i] \in Nat
    BY <1>3, <1>4, <2>1
  <2>3. PICK b \in Nat : \A i \in 1..n : h[i] <= b
    BY <2>2, BoundOfMany
  <2>4. ASSUME NEW e \in S PROVE f[e] <= b
    <3>1. PICK i \in 1..n : g[i] = e
      BY <1>1, <1>2
    <3> QED BY <2>2, <2>3, <3>1
  <2> QED BY <2>4
<1>5. PICK b \in Nat : \A e \in S : OccurredAt[e] <= b
  BY <1>4, EventsAssumption
<1>6. PICK d \in Nat : \A e \in S : Position[e] <= d
  <2>1. Position \in [Events -> Nat]
    BY EventsAssumption
  <2> QED BY <1>4, <2>1
<1>7. PICK T : T = {OccurredAt[e] : e \in S}
  OBVIOUS
<1>8. T \in SUBSET Nat /\ OccurredAt[y] \in T /\ \A t \in T : t <= b
  BY <1>5, <1>7, EventsAssumption
<1>9. PICK t \in T : t = Max(T) /\ \A z \in T : t >= z
  BY <1>8, MaxIsLargest
<1>10. PICK Q : Q = {Position[e] : e \in {x \in S : OccurredAt[x] = t}}
  OBVIOUS
<1>11. PICK z \in S : OccurredAt[z] = t
  BY <1>7
<1>12. Q \in SUBSET Nat /\ Position[z] \in Q /\ \A q \in Q : q <= d
  BY <1>6, <1>10, <1>11, EventsAssumption
<1>13. PICK q \in Q : q = Max(Q) /\ \A p \in Q : q >= p
  BY <1>12, MaxIsLargest
<1>14. PICK m \in S : OccurredAt[m] = t /\ Position[m] = q
  BY <1>10
<1>15. ASSUME NEW e \in S PROVE Before(e, m)
  <2>1. t >= OccurredAt[e] /\ OccurredAt[e] \in Nat /\ t \in Nat /\ Position[e] \in Nat /\ q \in Nat
    BY <1>7, <1>8, <1>9, <1>12, PositionIsNat, EventsAssumption
  <2>2. CASE OccurredAt[e] = t
    <3>1. Position[e] \in Q
      BY <1>10, <2>2
    <3>2. q >= Position[e]
      BY <1>13, <3>1
    <3> QED BY <1>14, <2>1, <2>2, <3>2 DEF Before
  <2>3. CASE OccurredAt[e] # t
    BY <1>14, <2>1, <2>3 DEF Before
  <2> QED BY <2>2, <2>3
<1> QED BY <1>15

\* One event after all those listed.
LEMMA ListedOneMore ==
  ASSUME NEW n \in Nat, NEW g, NEW U, InStoreOrder(g, n, U), NEW m, m \notin U,
         \A e \in U : Before(e, m), NEW S, S = U \cup {m}
  PROVE  \E f : InStoreOrder(f, n + 1, S)
<1>1. PICK f : f = [i \in 1..(n + 1) |-> IF i = n + 1 THEN m ELSE g[i]]
  OBVIOUS
<1>2. f[n + 1] = m /\ \A i \in 1..n : f[i] = g[i] /\ g[i] \in U
  BY <1>1 DEF InStoreOrder
<1>3. f \in [1..(n + 1) -> S]
  BY <1>1 DEF InStoreOrder
<1>4. ASSUME NEW i \in 1..(n + 1), NEW j \in 1..(n + 1), i < j
      PROVE  Before(f[i], f[j]) /\ f[i] # f[j]
  <2>1. i \in 1..n
    BY <1>4
  <2>2. CASE j \in 1..n
    BY <1>2, <1>4, <2>1, <2>2 DEF InStoreOrder
  <2>3. CASE j = n + 1
    BY <1>2, <2>1, <2>3
  <2> QED BY <2>2, <2>3
<1>5. ASSUME NEW e \in S PROVE \E i \in 1..(n + 1) : f[i] = e
  <2>1. CASE e = m
    BY <1>2, <2>1
  <2>2. CASE e \in U
    <3>1. PICK i \in 1..n : g[i] = e
      BY <2>2 DEF InStoreOrder
    <3> QED BY <1>2, <3>1
  <2> QED BY <2>1, <2>2
<1> QED BY <1>3, <1>4, <1>5 DEF InStoreOrder

\* Every finite set of events has a list in the order of the store.
LEMMA OrderExists ==
  ASSUME NEW S, S \subseteq Events, IsFiniteSet(S)
  PROVE  Cardinality(S) \in Nat /\ \E f : InStoreOrder(f, Cardinality(S), S)
<1> DEFINE G == {n \in Nat : \A T : T \subseteq Events /\ IsFiniteSet(T) /\ Cardinality(T) = n
                               => \E f : InStoreOrder(f, n, T)}
<1>1. 0 \in G
  <2>1. ASSUME NEW T, IsFiniteSet(T), Cardinality(T) = 0 PROVE \E f : InStoreOrder(f, 0, T)
    <3>1. T = {}
      BY <2>1, FS_EmptySet
    <3>2. InStoreOrder(<<>>, 0, T)
      BY <3>1 DEF InStoreOrder
    <3> QED BY <3>2
  <2> QED BY <2>1
<1>2. ASSUME NEW n \in G PROVE n + 1 \in G
  <2>1. n \in Nat
    OBVIOUS
  <2>2. ASSUME NEW T, T \subseteq Events, IsFiniteSet(T), Cardinality(T) = n + 1
        PROVE  \E f : InStoreOrder(f, n + 1, T)
    <3>1. T # {}
      <4>1. n + 1 # 0
        BY <2>1
      <4> QED BY <2>2, <4>1, FS_EmptySet
    <3>2. PICK m \in T : \A e \in T : Before(e, m)
      BY <2>2, <3>1, LastExists
    <3>3. PICK U : U = T \ {m}
      OBVIOUS
    <3>4. IsFiniteSet(U) /\ Cardinality(U) = n
      <4>1. IsFiniteSet(U) /\ Cardinality(U) = Cardinality(T) - 1
        BY <2>2, <3>3, FS_RemoveElement
      <4> QED BY <2>1, <2>2, <4>1
    <3>5. PICK g : InStoreOrder(g, n, U)
      BY <2>2, <3>3, <3>4
    <3>6. m \notin U /\ T = U \cup {m} /\ \A e \in U : Before(e, m)
      BY <3>2, <3>3
    <3> HIDE DEF G
    <3> QED BY <2>1, <3>5, <3>6, ListedOneMore
  <2>3. n + 1 \in Nat
    BY <2>1
  <2> QED BY <2>2, <2>3
<1>3. G = Nat
  <2> HIDE DEF G
  <2>1. G \in SUBSET Nat
    BY DEF G
  <2> QED BY <1>1, <1>2, <2>1, EveryNumber
<1>4. Cardinality(S) \in Nat
  BY FS_CardinalityType
<1>5. Cardinality(S) \in G
  BY <1>3, <1>4
<1> QED BY <1>4, <1>5

\* What a replay lists is in the order of the store, each event once.
LEMMA ListedInOrder ==
  ASSUME NEW S, S \subseteq Events, IsFiniteSet(S)
  PROVE  InStoreOrder(Listed(S), Cardinality(S), S)
<1>1. PICK n \in Nat : n = Cardinality(S)
  BY OrderExists
<1>2. PICK f : InStoreOrder(f, n, S)
  BY <1>1, OrderExists
<1>3. f \in Bijection(1..n, S) /\ \A i, j \in DOMAIN f : i < j => Before(f[i], f[j])
  <2>1. \A i, j \in 1..n : f[i] = f[j] => i = j
    BY <1>2 DEF InStoreOrder
  <2> QED BY <1>2, <2>1 DEF InStoreOrder, Bijection, Injection, Surjection, IsInjective
<1>4. PICK g : g = Listed(S)
  OBVIOUS
<1>5. g \in Bijection(1..n, S) /\ \A i, j \in DOMAIN g : i < j => Before(g[i], g[j])
  BY <1>1, <1>3, <1>4 DEF Listed
<1>6. InStoreOrder(g, n, S)
  <2>1. g \in [1..n -> S] /\ \A i, j \in 1..n : g[i] = g[j] => i = j
    BY <1>5 DEF Bijection, Injection, IsInjective
  <2>2. \A e \in S : \E i \in 1..n : g[i] = e
    BY <1>5 DEF Bijection, Surjection
  <2>3. \A i, j \in 1..n : i < j => i # j
    OBVIOUS
  <2> QED BY <1>5, <2>1, <2>2, <2>3 DEF InStoreOrder
<1> QED BY <1>1, <1>4, <1>6

\* Finitely many events were released.
LEMMA FinitelyReleased ==
  ASSUME EInv
  PROVE  IsFiniteSet(released) /\ released \subseteq Events
<1>1. kept \in Seq(Events) /\ released \subseteq ToSet(kept)
  BY DEF EInv, EventsTypeOK
<1>2. PICK I : I = 1..Len(kept)
  OBVIOUS
<1>3. IsFiniteSet(I)
  <2>1. 1 \in Int /\ Len(kept) \in Int
    BY <1>1
  <2> QED BY <1>2, <2>1, FS_Interval
<1>4. PICK f : f = [i \in I |-> kept[i]]
  OBVIOUS
<1>5. f \in Surjection(I, ToSet(kept))
  BY <1>1, <1>2, <1>4 DEF Surjection, ToSet
<1>6. IsFiniteSet(ToSet(kept))
  BY <1>3, <1>5, FS_Surjection
<1>7. ToSet(kept) \subseteq Events
  BY <1>1 DEF ToSet
<1> QED BY <1>1, <1>6, <1>7, FS_Subset

\* A replay makes one job each of the events released that it has none for.
LEMMA ReplayStep ==
  ASSUME EInv, NEW id \in 1..MaxReplays, NEW from, NEW to, Replay(id, from, to)
  PROVE  EInv'
<1>1. PICK S : S = {e \in released : /\ from <= OccurredAt[e] /\ OccurredAt[e] <= to
                                     /\ ~Queued(e, id)}
  OBVIOUS
<1>2. PICK g : g = Listed(S)
  OBVIOUS
<1>3. PICK n : n = Cardinality(S)
  OBVIOUS
<1>4. jobs' = jobs \o [i \in 1..n |-> NewJob(g[i], id)] /\ UNCHANGED <<stored, held, running, retried>>
  BY <1>1, <1>2, <1>3 DEF Replay
<1>5. S \subseteq released /\ S \subseteq Events /\ IsFiniteSet(S)
  BY <1>1, FinitelyReleased, FS_Subset
<1>6. n \in Nat /\ InStoreOrder(g, n, S)
  BY <1>2, <1>3, <1>5, OrderExists, ListedInOrder
<1>7. id \in Deliveries /\ id # First
  BY EventsAssumption DEF Deliveries, First
<1>8. g \in [1..n -> S] /\ \A k \in 1..n : g[k] \in released /\ ~ Queued(g[k], id)
  BY <1>1, <1>6 DEF InStoreOrder
<1>9. ASSUME NEW k \in 1..n, NEW l \in 1..n, g[k] = g[l] PROVE k = l
  <2>1. ~ (k < l) /\ ~ (l < k)
    BY <1>6, <1>9 DEF InStoreOrder
  <2> QED BY <2>1
<1>10. Fresh(n, g, id)
  <2>1. g \in [1..n -> Events]
    BY <1>5, <1>8
  <2> QED BY <1>6, <1>8, <1>9, <2>1 DEF Fresh
<1>11. jobs \in Seq(QueueJob)
  BY DEF EInv, EventsTypeOK
<1>12. Added(n, g, id)
  <2>1. PICK a : a = [i \in 1..n |-> NewJob(g[i], id)]
    OBVIOUS
  <2>2. \A i \in 1..n : g[i] \in Events
    BY <1>5, <1>8
  <2>3. a \in Seq(QueueJob) /\ Len(a) = n /\ \A i \in 1..n : a[i] = NewJob(g[i], id)
    <3>1. \A i \in 1..n : NewJob(g[i], id) \in QueueJob
      BY <1>7, <2>2, NewJobTyped
    <3> QED BY <1>6, <2>1, <3>1
  <2>4. jobs' = jobs \o a
    BY <1>4, <2>1
  <2>5. jobs' \in Seq(QueueJob) /\ Len(jobs') = Len(jobs) + n
    BY <1>11, <2>3, <2>4
  <2>6. \A i \in DOMAIN jobs : jobs'[i] = jobs[i]
    BY <1>11, <2>3, <2>4
  <2>7. \A k \in 1..n : jobs'[Len(jobs) + k] = a[k]
    BY <1>6, <1>11, <2>3, <2>4
  <2> QED BY <2>3, <2>5, <2>6, <2>7 DEF Added
<1>13. HandsOver(n, g, id)
  <2>1. \A x, e : Holds(x, e)' <=> Holds(x, e)
    BY <1>4 DEF Holds
  <2> QED BY <1>7, <2>1 DEF HandsOver
<1>14. JobsSound'
  BY <1>4, <1>7, <1>10, <1>12, <1>13, AddedJobs
<1>15. EventsTypeOK'
  <2>1. jobs' \in Seq(QueueJob) /\ Len(jobs') = Len(jobs) + n /\ Len(jobs) \in Nat
    BY <1>11, <1>12 DEF Added
  <2>2. running' \in [Workers -> 0..Len(jobs')]
    <3>1. running \in [Workers -> 0..Len(jobs)] /\ running' = running
      BY <1>4 DEF EInv, EventsTypeOK
    <3>2. \A w \in Workers : running[w] \in 0..Len(jobs')
      BY <1>6, <2>1, <3>1
    <3> QED BY <3>1, <3>2
  <2> QED BY <1>4, <2>1, <2>2 DEF EInv, EventsTypeOK, stored
<1>16. StreamSound' /\ HeldSound'
  BY <1>4 DEF EInv, StreamSound, HeldSound, Holds, stored
<1> QED BY <1>14, <1>15, <1>16 DEF EInv

-----------------------------------------------------------------------------
(* The theorems.                                                           *)

\* The invariant holds at the start.
LEMMA EventsInitHolds == EventsInit => EInv
<1> SUFFICES ASSUME EventsInit PROVE EInv
  OBVIOUS
<1>1. kept = <<>> /\ released = {} /\ last = 0 /\ held = [c \in Calls |-> <<>>] /\ jobs = <<>>
      /\ running = [w \in Workers |-> 0] /\ retried = 0
  BY DEF EventsInit
<1>2. EventsTypeOK
  <2>1. held \in [Calls -> Seq(Events)] /\ running \in [Workers -> 0..Len(jobs)]
    BY <1>1
  <2>2. retried \in 0..MaxOperatorRetries /\ released \subseteq ToSet(kept)
    BY <1>1, EventsAssumption
  <2> QED BY <1>1, <2>1, <2>2 DEF EventsTypeOK
<1>3. StreamSound
  BY <1>1 DEF StreamSound
<1>4. HeldSound
  BY <1>1 DEF HeldSound, Holds
<1>5. JobsSound
  BY <1>1 DEF JobsSound
<1> QED BY <1>2, <1>3, <1>4, <1>5 DEF EInv

\* Every step keeps the invariant.
LEMMA EventsStep == EInv /\ [EventsNext]_eventVars => EInv'
<1> SUFFICES ASSUME EInv, [EventsNext]_eventVars PROVE EInv'
  OBVIOUS
<1>1. ASSUME UNCHANGED eventVars PROVE EInv'
  <2>1. UNCHANGED <<kept, released, last, held, jobs, running, retried>>
    BY <1>1 DEF eventVars
  <2>2. EventsTypeOK' /\ StreamSound'
    BY <2>1 DEF EInv, EventsTypeOK, StreamSound
  <2>3. HeldSound' /\ JobsSound'
    BY <2>1 DEF EInv, HeldSound, JobsSound, Holds, Queued
  <2> QED BY <2>2, <2>3 DEF EInv
<1>2. ASSUME NEW c \in Calls, Ingest(c) PROVE EInv'
  BY <1>1, <1>2, GapStep, AcceptStep DEF Ingest, Duplicate
<1>3. ASSUME NEW c \in Calls, Enqueue(c) PROVE EInv'
  BY <1>3, EnqueueStep
<1>4. ASSUME NEW w \in Workers, WorkOn(w) PROVE EInv'
  BY <1>4, TakeStep, CompleteStep, FailStep DEF WorkOn
<1>5. CASE Operate
  BY <1>5, ReplayStep, RetryStep DEF Operate
<1> QED BY <1>1, <1>2, <1>3, <1>4, <1>5 DEF EventsNext

\* The store, what ingests hold and the queue stay sound together.
THEOREM EventsInvariant == EventsSpec => []EInv
BY EventsInitHolds, EventsStep, PTL DEF EventsSpec

\* Of the members of a set with at most one there are one or none.
LEMMA OneOrNone ==
  ASSUME NEW S, \A x, y \in S : x = y
  PROVE  Cardinality(S) = IF S = {} THEN 0 ELSE 1
<1>1. CASE S = {}
  BY <1>1, FS_EmptySet
<1>2. CASE S # {}
  <2>1. PICK x \in S : TRUE
    BY <1>2
  <2>2. S = {x}
    BY <2>1
  <2> QED BY <1>2, <2>2, FS_Singleton
<1> QED BY <1>1, <1>2

\* The invariant leaves each released event one holder or one job.
LEMMA SoundQueuesOnce == EInv => EachReleaseQueuedOnce
<1> SUFFICES ASSUME EInv PROVE EachReleaseQueuedOnce
  OBVIOUS
<1>1. EventsTypeOK
  BY DEF EInv
<1> DEFINE holders(e) == {c \in Calls : e \in ToSet(held[c])}
           made(e, d) == {i \in DOMAIN jobs : jobs[i].event = e /\ jobs[i].delivery = d}
<1>2. \A e, c : e \in ToSet(held[c]) <=> Holds(c, e)
  BY DEF ToSet, Holds
<1>3. ASSUME NEW e \in Events
      PROVE  Cardinality(holders(e)) = IF \E c \in Calls : Holds(c, e) THEN 1 ELSE 0
  <2>1. \A c, x \in holders(e) : c = x
    BY <1>2 DEF EInv, HeldSound
  <2>2. holders(e) = {} <=> ~ \E c \in Calls : Holds(c, e)
    BY <1>2
  <2> HIDE DEF holders
  <2> QED BY <2>1, <2>2, OneOrNone
<1>4. ASSUME NEW e \in Events, NEW d \in Deliveries
      PROVE  Cardinality(made(e, d)) = IF Queued(e, d) THEN 1 ELSE 0
  <2>1. \A i, j \in made(e, d) : i = j
    BY DEF EInv, JobsSound
  <2>2. made(e, d) = {} <=> ~ Queued(e, d)
    BY DEF Queued
  <2> HIDE DEF made
  <2> QED BY <2>1, <2>2, OneOrNone
<1>5. First \in Deliveries
  BY EventsAssumption DEF First, Deliveries
<1>6. ASSUME NEW e \in Events
      PROVE  /\ Cardinality(holders(e)) + Cardinality(made(e, First)) = IF e \in released THEN 1 ELSE 0
             /\ \A d \in Deliveries : Cardinality(made(e, d)) <= IF e \in released THEN 1 ELSE 0
  <2>1. \A d : Queued(e, d) => e \in released
    BY DEF Queued, EInv, JobsSound
  <2>2. \A c \in Calls : Holds(c, e) => e \in released
    BY DEF Holds, EInv, HeldSound
  <2>3. Queued(e, First) => ~ \E c \in Calls : Holds(c, e)
    BY DEF Queued, EInv, JobsSound
  <2>4. e \in released => Queued(e, First) \/ \E c \in Calls : Holds(c, e)
    BY DEF EInv, JobsSound
  <2> HIDE DEF holders, made
  <2>5. Cardinality(holders(e)) + Cardinality(made(e, First)) = IF e \in released THEN 1 ELSE 0
    BY <1>3, <1>4, <1>5, <2>1, <2>2, <2>3, <2>4
  <2>6. \A d \in Deliveries : Cardinality(made(e, d)) <= IF e \in released THEN 1 ELSE 0
    BY <1>4, <2>1
  <2> QED BY <2>5, <2>6
<1> QED BY <1>1, <1>6 DEF EachReleaseQueuedOnce

\* For any events, however they are numbered, and any ingests, workers, replays
\* and retries side by side, a released event is held by the ingest that
\* released it or has one job, and each replay makes at most one more.
THEOREM QueuedOnce == EventsSpec => []EachReleaseQueuedOnce
BY EventsInvariant, SoundQueuesOnce, PTL

-----------------------------------------------------------------------------
(* The refinement: the store hands over an ordered stream.                 *)

\* The stream made of the events R, n long.
StreamOf(R, n) == [p \in 1..n |-> CHOOSE e \in R : Position[e] = p]

\* The stream has an event of R at each of its positions.
LEMMA StreamListed ==
  ASSUME NEW R, NEW n \in Nat, \A p \in 1..n : \E e \in R : Position[e] = p
  PROVE  /\ StreamOf(R, n) \in Seq(R) /\ Len(StreamOf(R, n)) = n
         /\ \A p \in 1..n : StreamOf(R, n)[p] \in R /\ Position[StreamOf(R, n)[p]] = p
<1>1. PICK s : s = StreamOf(R, n)
  OBVIOUS
<1>2. s = [p \in 1..n |-> CHOOSE e \in R : Position[e] = p]
  BY <1>1 DEF StreamOf
<1>3. \A p \in 1..n : s[p] \in R /\ Position[s[p]] = p
  BY <1>2
<1>4. s \in Seq(R) /\ Len(s) = n
  BY <1>2, <1>3
<1> QED BY <1>1, <1>3, <1>4

\* More events at later positions leave the stream so far as it is.
LEMMA StreamExtends ==
  ASSUME NEW R, NEW T, R \subseteq T, NEW n \in Nat, NEW m \in Nat, n <= m,
         \A p \in 1..n : \E e \in R : Position[e] = p,
         \A p \in 1..m : \E e \in T : Position[e] = p,
         \A a, b \in T : Position[a] = Position[b] => a = b
  PROVE  IsPrefix(StreamOf(R, n), StreamOf(T, m))
<1>1. PICK s : s = StreamOf(R, n)
  OBVIOUS
<1>2. PICK t : t = StreamOf(T, m)
  OBVIOUS
<1>3. s \in Seq(R) /\ Len(s) = n /\ \A p \in 1..n : s[p] \in R /\ Position[s[p]] = p
  BY <1>1, StreamListed
<1>4. t \in Seq(T) /\ Len(t) = m /\ \A p \in 1..m : t[p] \in T /\ Position[t[p]] = p
  BY <1>2, StreamListed
<1>5. \A p \in 1..n : s[p] = t[p]
  BY <1>3, <1>4
<1>6. SubSeq(s, 1, n) = SubSeq(t, 1, n)
  <2>1. SubSeq(s, 1, n) = [p \in 1..n |-> s[p]]
    BY <1>3
  <2>2. SubSeq(t, 1, n) = [p \in 1..n |-> t[p]]
    BY <1>4
  <2> QED BY <1>5, <2>1, <2>2
<1>7. IsPrefix(s, t)
  BY <1>3, <1>4, <1>6 DEF IsPrefix
<1> QED BY <1>1, <1>2, <1>7

\* The store shows the stream the abstract one asks for.
ShowsStream ==
  /\ Released = StreamOf(released, last) /\ last \in Nat
  /\ Len(Released) = last /\ ToSet(Released) \subseteq ToSet(kept)
  /\ Ordered!InPosition(Released)
  /\ \A x \in ToSet(kept) : Position[x] # last + 1

\* A sound store shows it.
LEMMA ShownStream == EInv => ShowsStream
<1> SUFFICES ASSUME EInv PROVE ShowsStream
  OBVIOUS
<1>1. Released = StreamOf(released, last)
  BY DEF Released, StreamOf
<1>2. last \in Nat /\ kept \in Seq(Events) /\ released \subseteq ToSet(kept)
  BY DEF EInv, EventsTypeOK
<1>3. \A p \in 1..last : \E e \in released : Position[e] = p
  BY DEF EInv, StreamSound
<1>4. PICK s : s = Released
  OBVIOUS
<1>5. s \in Seq(released) /\ Len(s) = last /\ \A p \in 1..last : Position[s[p]] = p
  BY <1>1, <1>2, <1>3, <1>4, StreamListed
<1>6. ToSet(s) \subseteq ToSet(kept)
  BY <1>2, <1>5 DEF ToSet
<1>7. Ordered!InPosition(s)
  BY <1>5 DEF Ordered!InPosition
<1>8. ASSUME NEW x \in ToSet(kept) PROVE Position[x] # last + 1
  <2>1. PICK i \in DOMAIN kept : kept[i] = x
    BY DEF ToSet
  <2>2. CASE x \in released
    <3>1. Position[x] \in 1..last
      BY <2>2 DEF EInv, StreamSound
    <3> QED BY <1>2, <3>1
  <2>3. CASE x \notin released
    BY <2>1, <2>3 DEF EInv, StreamSound
  <2> QED BY <2>2, <2>3
<1> QED BY <1>1, <1>2, <1>4, <1>5, <1>6, <1>7, <1>8 DEF ShowsStream

\* And shows it after a step that leaves it sound.
LEMMA ShownNext == EInv' => ShowsStream'
BY ShownStream, PTL

\* An event that is kept arrives on the abstract stream.
LEMMA KeptArrives ==
  ASSUME EInv, EInv', NEW e \in Events \ ToSet(kept), kept' = Append(kept, e),
         released \subseteq released', last <= last'
  PROVE  Ordered!Next
<1>1. ToSet(kept') = ToSet(kept) \cup {e}
  <2>1. kept \in Seq(Events)
    BY DEF EInv, EventsTypeOK
  <2> QED BY <2>1, OneMoreKept
<1>2. ShowsStream /\ ShowsStream'
  BY ShownStream, ShownNext
<1>3. /\ Released = StreamOf(released, last) /\ last \in Nat
      /\ Released' = StreamOf(released', last') /\ last' \in Nat
  BY <1>2 DEF ShowsStream
<1>4. /\ \A p \in 1..last : \E x \in released : Position[x] = p
      /\ \A p \in 1..last' : \E x \in released' : Position[x] = p
      /\ \A a, b \in released' : Position[a] = Position[b] => a = b
  BY DEF EInv, StreamSound
<1>5. IsPrefix(Released, Released')
  BY <1>3, <1>4, StreamExtends
<1>6. /\ Len(Released') = last' /\ ToSet(Released') \subseteq ToSet(kept')
      /\ \A x \in ToSet(kept') : Position[x] # last' + 1
  BY <1>2 DEF ShowsStream
<1>7. Ordered!InPosition(Released')
  BY <1>2 DEF ShowsStream, Ordered!InPosition
<1>8. Ordered!IsPrefix(Released, Released')
  BY <1>5 DEF IsPrefix, Ordered!IsPrefix
<1>9. Ordered!ToSet(Released') \subseteq ToSet(kept')
  BY <1>6 DEF ToSet, Ordered!ToSet
<1>10. Ordered!Arrive(e)
  BY <1>1, <1>6, <1>7, <1>8, <1>9 DEF Ordered!Arrive
<1> QED BY <1>10 DEF Ordered!Next

\* The empty store shows the empty stream.
LEMMA ShowsFromStart == EventsInit => Ordered!Init
<1> SUFFICES ASSUME EventsInit PROVE Ordered!Init
  OBVIOUS
<1>1. kept = <<>> /\ last = 0
  BY DEF EventsInit
<1>2. Released = <<>>
  BY <1>1 DEF Released
<1> QED BY <1>1, <1>2 DEF Ordered!Init, ToSet

\* Each step of the store hands over one arrival, every other step none.
LEMMA StepsInOrder ==
  EInv /\ EInv' /\ [EventsNext]_eventVars => [Ordered!Next]_<<ToSet(kept), Released>>
<1> SUFFICES ASSUME EInv, EInv', [EventsNext]_eventVars
             PROVE  [Ordered!Next]_<<ToSet(kept), Released>>
  OBVIOUS
<1>1. ASSUME UNCHANGED stored PROVE UNCHANGED <<ToSet(kept), Released>>
  BY <1>1 DEF stored, Released
<1>2. ASSUME NEW c \in Calls, NEW e \in Events, BufferGap(c, e) PROVE Ordered!Next
  <2>1. e \notin ToSet(kept) /\ kept' = Append(kept, e) /\ released' = released /\ last' = last
    BY <1>2 DEF BufferGap, Known
  <2>2. last \in Nat
    BY DEF EInv, EventsTypeOK
  <2> QED BY <2>1, <2>2, KeptArrives
<1>3. ASSUME NEW c \in Calls, NEW e \in Events, Accept(c, e) PROVE Ordered!Next
  <2>1. PICK u : u = Run(e)
    OBVIOUS
  <2>2. PICK r : r = RunEnd(e)
    OBVIOUS
  <2>3. Releases(c, e, u, r)
    BY <1>3, <2>1, <2>2, AcceptReleases
  <2>4. /\ e \notin ToSet(kept) /\ kept' = Append(kept, e) /\ released \subseteq released'
        /\ last' = r /\ r \in Nat /\ r >= last + 1
    BY <2>3 DEF Releases
  <2>5. last \in Nat
    BY DEF EInv, EventsTypeOK
  <2>6. last <= last'
    BY <2>4, <2>5
  <2> QED BY <2>4, <2>6, KeptArrives
<1>4. CASE UNCHANGED eventVars
  BY <1>1, <1>4 DEF eventVars, stored
<1>5. ASSUME NEW c \in Calls, Ingest(c) PROVE [Ordered!Next]_<<ToSet(kept), Released>>
  <2>1. ASSUME NEW e \in Events, Duplicate(c, e) PROVE UNCHANGED stored
    BY <2>1 DEF Duplicate, eventVars, stored
  <2> QED BY <1>1, <1>2, <1>3, <1>5, <2>1 DEF Ingest
<1>6. ASSUME NEW c \in Calls, Enqueue(c) PROVE UNCHANGED stored
  BY <1>6 DEF Enqueue
<1>7. ASSUME NEW w \in Workers, WorkOn(w) PROVE UNCHANGED stored
  BY <1>7 DEF WorkOn, TakeJob, CompleteJob, FailJob
<1>8. CASE Operate
  BY <1>1, <1>8 DEF Operate, Replay, RetryDeadLetter
<1> QED BY <1>1, <1>4, <1>5, <1>6, <1>7, <1>8 DEF EventsNext

\* Whatever the order events come in, repeated or with holes, the released ones
\* are the abstract ordered stream: a step of the store is one arrival that
\* completes the longest run it can, or hands nothing over.
THEOREM ReleasedInOrder == EventsSpec => ReleasesInOrder
BY EventsInvariant, ShowsFromStart, StepsInOrder, PTL
   DEF EventsSpec, ReleasesInOrder, Ordered!Spec
=============================================================================
