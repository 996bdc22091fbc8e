--------------------------- MODULE SafeSaveProofs ---------------------------
(***************************************************************************)
(* Proofs about SafeSave for any saves, keys, requests and fault bound.    *)
(***************************************************************************)
EXTENDS SafeSave, TLAPS

\* A busy request carries a save and a key; a free one carries nothing.
JobsOK == \A h \in Handler :
    IF pc[h] = "free" THEN job[h] = NoJob /\ h \notin heard
                      ELSE job[h].save \in Save /\ job[h].key \in Key

\* A form waits for at most one request, and is waiting while it does.
HeardOK == \A h \in heard :
    /\ status[job[h].save] = "waiting"
    /\ \A g \in heard : job[g].save = job[h].save => g = h

\* An answer is a verdict; "result" is given for a committed receipt only.
AnswersOK == \A h \in Handler :
    pc[h] = "done" => /\ reply[h] \in Replies
                      /\ reply[h] = "result" => receipts[job[h].key] = job[h].save

\* Request h, or receipt k, belongs to s.
Carries(h, s) == job[h].save = s
Holds(k, s) == receipts[k] = s

\* Everything done for an unrefused save is done under one key ...
OneKey == \A s \in Unrefused :
    /\ \A h, g \in Handler : Carries(h, s) /\ Carries(g, s) => job[h].key = job[g].key
    /\ \A h \in Handler, k \in Key : Carries(h, s) /\ Holds(k, s) => job[h].key = k
    /\ \A j, k \in Key : Holds(j, s) /\ Holds(k, s) => j = k

\* ... which is the key its form has stored, until the save is settled.
KeptKey == \A s \in Unrefused :
    /\ status[s] # "refused"
    /\ status[s] = "draft" => /\ stored[s] = None
                              /\ \A h \in Handler : ~Carries(h, s)
                              /\ \A k \in Key : ~Holds(k, s)
    /\ status[s] \in {"waiting", "uncertain"} =>
           /\ stored[s] \in Key
           /\ \A h \in Handler : Carries(h, s) => job[h].key = stored[s]
           /\ \A k \in Key : Holds(k, s) => k = stored[s]

IInv == /\ TypeOK
        /\ JobsOK
        /\ HeardOK
        /\ OncePerKey
        /\ AnswersOK
        /\ SavedIsPosted
        /\ OneKey
        /\ KeptKey

-----------------------------------------------------------------------------
\* Nothing sent and nothing posted: the invariant holds at the start.
LEMMA InitIInv == ASSUME Init PROVE IInv
<1> USE ConstantsAssumption DEF Init
<1>1. TypeOK
  BY DEF TypeOK, NoJob
<1>2. JobsOK /\ HeardOK /\ AnswersOK
  BY DEF JobsOK, HeardOK, AnswersOK
<1>3. OncePerKey /\ SavedIsPosted
  BY DEF OncePerKey, SavedIsPosted
<1>4. OneKey /\ KeptKey
  BY DEF OneKey, KeptKey, Carries, Holds, Unrefused, NoJob
<1> QED
  BY <1>1, <1>2, <1>3, <1>4 DEF IInv

\* request() sends under the key kept for the details, or under a fresh one
\* (api.ts:77-98), so an unrefused save keeps to one key; one whose key could
\* not be kept is no longer counted among them.
LEMMA SubmitStep ==
  ASSUME IInv, NEW s \in Save, NEW h \in Handler, NEW k \in Key, Submit(s, h, k)
  PROVE  IInv'
<1> USE ConstantsAssumption
<1>1. TypeOK'
  BY DEF IInv, TypeOK, Submit, KeepKey, LoseKey, database
<1>2. JobsOK'
  BY DEF IInv, TypeOK, JobsOK, Submit
<1>3. HeardOK'
  BY DEF IInv, TypeOK, JobsOK, HeardOK, Submit
<1>4. AnswersOK'
  BY DEF IInv, TypeOK, JobsOK, AnswersOK, Submit, database
<1>5. OncePerKey' /\ SavedIsPosted'
  BY DEF IInv, TypeOK, OncePerKey, SavedIsPosted, Posted, Submit, database
<1>6. OneKey'
  BY DEF IInv, TypeOK, JobsOK, OneKey, KeptKey, Unrefused, Carries, Holds, NoJob,
         Submit, KeepKey, LoseKey, KeyFor, database
<1>7. KeptKey'
  BY DEF IInv, TypeOK, JobsOK, OneKey, KeptKey, Unrefused, Carries, Holds, NoJob,
         Submit, KeepKey, LoseKey, KeyFor, database
<1> QED
  BY <1>1, <1>2, <1>3, <1>4, <1>5, <1>6, <1>7 DEF IInv

\* What hearing answer r does to the forms: only that of s changes.
FormsAfter(s, r) ==
    /\ status' \in [Save -> {"draft", "waiting", "uncertain", "saved", "refused"}]
    /\ stored' \in [Save -> Key \cup {None}]
    /\ refusedOnce' \in SUBSET Save
    /\ refusedOnce \subseteq refusedOnce'
    /\ faults' \in Nat
    /\ \A x \in Save \ {s} : status'[x] = status[x] /\ stored'[x] = stored[x]
    /\ \/ r = "result" /\ status'[s] = "saved"
       \/ status'[s] = "uncertain" /\ stored'[s] = stored[s]
       \/ status'[s] = "refused" /\ s \in refusedOnce'

\* The three outcomes of hearing an answer (api.ts:99-123).
LEMMA HearForms ==
  ASSUME TypeOK, NEW s \in Save, NEW r, Hear(s, r)
  PROVE  FormsAfter(s, r)
<1> USE DEF FormsAfter
<1>1. CASE r = "result" /\ Hear(s, r)
  BY <1>1 DEF TypeOK, Hear, ForgetKey, Refusals
<1>2. CASE r = "unsure" /\ Hear(s, r)
  BY <1>2 DEF TypeOK, Hear, ForgetKey, Refusals
<1>3. CASE r \in Refusals /\ Hear(s, r)
  BY <1>3 DEF TypeOK, Hear, ForgetKey, Refusals
<1> QED
  BY <1>1, <1>2, <1>3 DEF Hear

\* The response is delivered: its answer is true of the receipts, and only the
\* form of its save changes.
LEMMA DeliverStep == ASSUME IInv, NEW h \in Handler, Deliver(h) PROVE IInv'
<1> USE ConstantsAssumption
<1>1. CASE h \notin heard
  <2>1. TypeOK' /\ JobsOK'
    BY <1>1 DEF IInv, TypeOK, JobsOK, Deliver, NoJob, database
  <2>2. HeardOK' /\ AnswersOK'
    BY <1>1 DEF IInv, TypeOK, JobsOK, HeardOK, AnswersOK, Deliver, NoJob, database
  <2>3. OncePerKey' /\ SavedIsPosted'
    BY <1>1 DEF IInv, OncePerKey, SavedIsPosted, Posted, Deliver, database
  <2>4. OneKey' /\ KeptKey'
    BY <1>1 DEF IInv, TypeOK, OneKey, KeptKey, Unrefused, Carries, Holds, NoJob,
                Deliver, database
  <2> QED
    BY <2>1, <2>2, <2>3, <2>4 DEF IInv
<1>2. CASE h \in heard
  <2> DEFINE s == job[h].save
  <2>1. s \in Save /\ reply[h] \in Replies /\ Hear(s, reply[h])
    BY <1>2 DEF IInv, JobsOK, AnswersOK, Deliver
  <2>2. reply[h] = "result" => Posted(s)
    BY <1>2 DEF IInv, TypeOK, JobsOK, AnswersOK, Posted, Deliver
  <2>3. FormsAfter(s, reply[h])
    BY <2>1, HearForms DEF IInv
  <2> DEFINE Freed == /\ pc[h] = "done"
                      /\ pc' = [pc EXCEPT ![h] = "free"]
                      /\ job' = [job EXCEPT ![h] = NoJob]
                      /\ reply' = [reply EXCEPT ![h] = None]
                      /\ heard' = heard \ {h}
                      /\ UNCHANGED <<issued, unkept, stale, receipts, effects>>
  <2>4. Freed
    BY DEF Deliver, database
  <2> USE DEF FormsAfter
  <2> HIDE DEF s
  <2>5. s = job[h].save
    BY DEF s
  <2>6. TypeOK' /\ JobsOK'
    BY <2>3, <2>4 DEF IInv, TypeOK, JobsOK, NoJob
  <2>7. HeardOK'
    BY <1>2, <2>1, <2>3, <2>4, <2>5 DEF IInv, TypeOK, JobsOK, HeardOK, NoJob
  <2>8. AnswersOK' /\ OncePerKey'
    BY <2>4 DEF IInv, TypeOK, AnswersOK, OncePerKey
  <2>9. SavedIsPosted'
    BY <2>2, <2>3, <2>4 DEF IInv, TypeOK, SavedIsPosted, Posted
  <2>10. OneKey'
    BY <2>3, <2>4 DEF IInv, TypeOK, OneKey, Unrefused, Carries, Holds, NoJob
  <2>11. KeptKey'
    BY <1>2, <2>1, <2>3, <2>4, <2>5
       DEF IInv, TypeOK, HeardOK, KeptKey, Unrefused, Carries, Holds, NoJob
  <2> QED
    BY <2>6, <2>7, <2>8, <2>9, <2>10, <2>11 DEF IInv
<1> QED
  BY <1>1, <1>2

\* A lost connection leaves the form uncertain, with its key.
LEMMA LoseStep == ASSUME IInv, NEW h \in Handler, Lose(h) PROVE IInv'
<1> USE ConstantsAssumption DEF Lose, server, database
<1>1. job[h].save \in Save /\ status[job[h].save] = "waiting"
  BY DEF IInv, JobsOK, HeardOK
<1>2. TypeOK' /\ JobsOK'
  BY <1>1 DEF IInv, TypeOK, JobsOK
<1>3. HeardOK' /\ AnswersOK'
  BY <1>1 DEF IInv, TypeOK, JobsOK, HeardOK, AnswersOK
<1>4. OncePerKey' /\ SavedIsPosted'
  BY <1>1 DEF IInv, TypeOK, OncePerKey, SavedIsPosted, Posted
<1>5. OneKey' /\ KeptKey'
  BY <1>1 DEF IInv, TypeOK, OneKey, KeptKey, Unrefused, Carries, Holds
<1> QED
  BY <1>2, <1>3, <1>4, <1>5 DEF IInv

\* A crash of the API cuts every request off and keeps what is committed.
LEMMA CrashStep == ASSUME IInv, Crash PROVE IInv'
<1> USE ConstantsAssumption DEF Crash, database
<1>1. TypeOK' /\ JobsOK'
  BY DEF IInv, TypeOK, JobsOK, NoJob
<1>2. HeardOK' /\ AnswersOK'
  BY DEF HeardOK, AnswersOK
<1>3. OncePerKey'
  BY DEF IInv, OncePerKey
<1>4. SavedIsPosted'
  BY DEF IInv, TypeOK, SavedIsPosted, Posted
<1>5. OneKey'
  BY DEF IInv, TypeOK, OneKey, Unrefused, Carries, Holds, NoJob
<1>6. KeptKey'
  <2> SUFFICES ASSUME NEW s \in Unrefused'
               PROVE  KeptKey!(s)'
    BY DEF KeptKey
  <2> QED
    BY DEF IInv, TypeOK, JobsOK, HeardOK, KeptKey, Unrefused, Carries, Holds, NoJob
<1> QED
  BY <1>1, <1>2, <1>3, <1>4, <1>5, <1>6 DEF IInv

\* A step of the API that leaves the browser and the receipts alone, and
\* whose answer, if it gives one, is true of the receipts.
LEMMA QuietStep ==
  ASSUME IInv, NEW h \in Handler,
         TypeOK',
         pc[h] # "free", pc'[h] # "free",
         \A g \in Handler \ {h} : pc'[g] = pc[g] /\ reply'[g] = reply[g],
         pc'[h] = "done" => /\ reply'[h] \in Replies
                            /\ reply'[h] = "result" => Holds(job[h].key, job[h].save),
         UNCHANGED <<client, job, heard, database>>
  PROVE  IInv'
<1> USE ConstantsAssumption DEF client, database
<1>1. JobsOK'
  BY DEF IInv, TypeOK, JobsOK
<1>2. HeardOK'
  BY DEF IInv, HeardOK
<1>3. AnswersOK'
  BY DEF IInv, TypeOK, AnswersOK, Holds
<1>4. OncePerKey' /\ SavedIsPosted'
  BY DEF IInv, OncePerKey, SavedIsPosted, Posted
<1>5. OneKey' /\ KeptKey'
  BY DEF IInv, OneKey, KeptKey, Unrefused, Carries, Holds
<1> QED
  BY <1>1, <1>2, <1>3, <1>4, <1>5 DEF IInv

\* Replaying a receipt answers "result" only to its own details.
LEMMA ReplayAnswers ==
  ASSUME IInv, NEW h \in Handler, pc[h] # "free", Replay(h)
  PROVE  /\ pc' = [pc EXCEPT ![h] = "done"]
         /\ UNCHANGED job
         /\ \/ /\ reply' = [reply EXCEPT ![h] = "result"]
               /\ Holds(job[h].key, job[h].save)
            \/ reply' = [reply EXCEPT ![h] = "reused"]
BY DEF Replay, Answer, Holds

\* The middleware and the handler's own reads touch neither forms nor rows.
LEMMA PreludeStep ==
  ASSUME IInv, NEW h \in Handler,
         Deny(h) \/ GuardRefuse(h) \/ Admit(h)
  PROVE  IInv'
<1> USE DEF Deny, GuardRefuse, Admit, Answer, client, database
<1>1. TypeOK'
  BY DEF IInv, TypeOK, Replies
<1>2. \A g \in Handler \ {h} : pc'[g] = pc[g] /\ reply'[g] = reply[g]
  BY DEF IInv, TypeOK
<1>3. pc'[h] \in {"done", "lookup"} /\ (pc'[h] = "done" => reply'[h] \in {"denied", "rule"})
  BY DEF IInv, TypeOK
<1> QED
  BY <1>1, <1>2, <1>3, QuietStep DEF Replies

\* The first look at the receipt (safe-save.ts:27-28).
LEMMA LookupStep == ASSUME IInv, NEW h \in Handler, Lookup(h) PROVE IInv'
<1> USE DEF Lookup, client, database
<1>1. CASE receipts[job[h].key] # None
  <2>1. Replay(h) /\ pc[h] # "free"
    BY <1>1
  <2>2. TypeOK'
    BY <2>1, ReplayAnswers DEF IInv, TypeOK, Replies
  <2>3. \A g \in Handler \ {h} : pc'[g] = pc[g] /\ reply'[g] = reply[g]
    BY <2>1, ReplayAnswers DEF IInv, TypeOK
  <2>4. /\ pc'[h] = "done" /\ reply'[h] \in Replies
        /\ reply'[h] = "result" => Holds(job[h].key, job[h].save)
    BY <2>1, ReplayAnswers DEF IInv, TypeOK, Replies
  <2> QED
    BY <2>1, <2>2, <2>3, <2>4, ReplayAnswers, QuietStep
<1>2. CASE receipts[job[h].key] = None
  <2>1. TypeOK'
    BY <1>2 DEF IInv, TypeOK
  <2>2. pc'[h] = "txn" /\ \A g \in Handler \ {h} : pc'[g] = pc[g] /\ reply'[g] = reply[g]
    BY <1>2 DEF IInv, TypeOK
  <2> QED
    BY <1>2, <2>1, <2>2, QuietStep
<1> QED
  BY <1>1, <1>2

\* The catch block's second look at the receipt (safe-save.ts:37-44).
LEMMA RecheckStep == ASSUME IInv, NEW h \in Handler, Recheck(h) PROVE IInv'
<1>1. pc[h] = "recheck" /\ UNCHANGED <<client, heard, stale, database, faults>>
  BY DEF Recheck
<1>2. pc' = [pc EXCEPT ![h] = "done"] /\ UNCHANGED job
  BY ReplayAnswers DEF Recheck, Answer
<1>3. PICK r \in Replies : /\ reply' = [reply EXCEPT ![h] = r]
                           /\ r = "result" => Holds(job[h].key, job[h].save)
  BY ReplayAnswers DEF Recheck, Answer, Replies
<1>4. TypeOK'
  BY <1>1, <1>2, <1>3 DEF IInv, TypeOK, client, database
<1>5. \A g \in Handler \ {h} : pc'[g] = pc[g] /\ reply'[g] = reply[g]
  BY <1>2, <1>3 DEF IInv, TypeOK
<1>6. /\ pc'[h] = "done" /\ reply'[h] \in Replies
      /\ reply'[h] = "result" => Holds(job[h].key, job[h].save)
  BY <1>2, <1>3 DEF IInv, TypeOK
<1> QED
  BY <1>1, <1>2, <1>4, <1>5, <1>6, QuietStep

\* A transaction that rolls back.
LEMMA RollbackStep ==
  ASSUME IInv, NEW h \in Handler,
         TxDuplicate(h) \/ TxConflict(h) \/ TxReject(h) \/ TxFail(h)
  PROVE  IInv'
<1> DEFINE Aborted(p, r) == /\ pc[h] = "txn"
                            /\ pc' = [pc EXCEPT ![h] = p]
                            /\ reply' = [reply EXCEPT ![h] = r]
                            /\ stale' = stale \ {h}
                            /\ faults' \in Nat
                            /\ UNCHANGED <<client, job, heard, database>>
<1>1. faults + 1 \in Nat /\ faults \in Nat /\ reply = [reply EXCEPT ![h] = reply[h]]
  BY DEF IInv, TypeOK
<1>2. \/ Aborted("recheck", reply[h])
      \/ \E r \in {"unsure", "rule"} : Aborted("done", r)
  <2>1. CASE TxDuplicate(h) \/ TxConflict(h)
    BY <1>1, <2>1 DEF TxDuplicate, TxConflict, Rollback
  <2>2. CASE TxReject(h)
    BY <1>1, <2>2 DEF TxReject, Rollback, Answer
  <2>3. CASE TxFail(h)
    BY <1>1, <2>3 DEF TxFail, Rollback, Answer
  <2> QED
    BY <2>1, <2>2, <2>3
<1>3. ASSUME NEW p \in {"recheck", "done"}, NEW r \in Replies \cup {None}, Aborted(p, r),
             p = "done" => r \in {"unsure", "rule"}
      PROVE  IInv'
  <2>1. TypeOK'
    BY <1>3 DEF IInv, TypeOK, client, database
  <2>2. /\ pc'[h] = p /\ reply'[h] = r
        /\ \A g \in Handler \ {h} : pc'[g] = pc[g] /\ reply'[g] = reply[g]
    BY <1>3 DEF IInv, TypeOK
  <2> QED
    BY <1>3, <2>1, <2>2, QuietStep DEF Replies
<1>4. reply[h] \in Replies \cup {None}
  BY DEF IInv, TypeOK
<1> QED
  BY <1>2, <1>3, <1>4 DEF Replies

\* The commit writes the receipt and the rows under a key nothing else holds
\* for these details (safe-save.ts:30-36).
LEMMA TxCommitStep == ASSUME IInv, NEW h \in Handler, TxCommit(h) PROVE IInv'
<1> USE ConstantsAssumption DEF TxCommit, client
<1>1. /\ job[h].save \in Save /\ job[h].key \in Key
      /\ receipts[job[h].key] = None /\ pc[h] = "txn"
  BY DEF IInv, JobsOK, ReceiptFree
<1>2. /\ pc' = [pc EXCEPT ![h] = "done"] /\ UNCHANGED job /\ faults' \in Nat
      /\ \E r \in {"result", "unsure"} : reply' = [reply EXCEPT ![h] = r]
  BY DEF IInv, TypeOK, CommitAnswer, Answer
<1>3. TypeOK'
  BY <1>1, <1>2 DEF IInv, TypeOK, Replies
<1>4. JobsOK' /\ HeardOK'
  BY <1>1, <1>2 DEF IInv, TypeOK, JobsOK, HeardOK
<1>5. AnswersOK'
  BY <1>1, <1>2 DEF IInv, TypeOK, JobsOK, AnswersOK, Replies
<1>6. OncePerKey'
  BY <1>1 DEF IInv, TypeOK, OncePerKey
<1>7. SavedIsPosted'
  BY <1>1 DEF IInv, TypeOK, SavedIsPosted, Posted
<1>8. OneKey'
  BY <1>1, <1>2 DEF IInv, TypeOK, OneKey, Unrefused, Carries, Holds
<1>9. KeptKey'
  BY <1>1, <1>2 DEF IInv, TypeOK, KeptKey, Unrefused, Carries, Holds
<1> QED
  BY <1>3, <1>4, <1>5, <1>6, <1>7, <1>8, <1>9 DEF IInv

\* Every step keeps the invariant.
LEMMA NextIInv == ASSUME IInv, [Next]_vars PROVE IInv'
<1>1. CASE \E s \in Save, h \in Handler, k \in Key : Submit(s, h, k)
  BY <1>1, SubmitStep
<1>2. ASSUME NEW h \in Handler, Work(h) \/ Lose(h) \/ TxFail(h) PROVE IInv'
  BY <1>2, PreludeStep, LookupStep, TxCommitStep, RollbackStep, RecheckStep,
     DeliverStep, LoseStep DEF Work
<1>3. CASE Crash
  BY <1>3, CrashStep
<1>4. CASE UNCHANGED vars
  BY <1>4 DEF IInv, TypeOK, JobsOK, HeardOK, OncePerKey, AnswersOK, SavedIsPosted,
              Posted, OneKey, KeptKey, Unrefused, Carries, Holds,
              vars, client, server, database
<1> QED
  BY <1>1, <1>2, <1>3, <1>4 DEF Next

\* The inductive invariant holds of every reachable state.
THEOREM Inductive == Spec => []IInv
<1>1. Init => IInv
  BY InitIInv
<1>2. IInv /\ [Next]_vars => IInv'
  BY NextIInv
<1> QED
  BY <1>1, <1>2, PTL DEF Spec

\* Every variable keeps its type.
THEOREM TypeCorrect == Spec => []TypeOK
<1>1. IInv => TypeOK
  BY DEF IInv
<1> QED
  BY <1>1, Inductive, PTL

\* A receipt and its business rows exist together and once, for any number
\* of overlapping requests (safe-save.ts:30-43).
THEOREM ReceiptAndRowsOnce == Spec => []OncePerKey
<1>1. IInv => OncePerKey
  BY DEF IInv
<1> QED
  BY <1>1, Inductive, PTL

\* The form never says "saved" of details that were not posted.
THEOREM SavedMeansPosted == Spec => []SavedIsPosted
<1>1. IInv => SavedIsPosted
  BY DEF IInv
<1> QED
  BY <1>1, Inductive, PTL

\* Lost responses, reloads, crashes and overlapping retries alone never
\* post a browser's save under two keys (api.ts:81-118).
THEOREM NoRefusalNoSecondEffect == Spec => []SecondEffectNeedsRefusal
<1>1. IInv => SecondEffectNeedsRefusal
  BY DEF IInv, OneKey, SecondEffectNeedsRefusal, PostedTwice, Unrefused, Holds
<1> QED
  BY <1>1, Inductive, PTL

\* A retry is not refused by a business rule because of what its own first
\* attempt posted (api.ts:81-118, safe-save.ts:27-32).
THEOREM RefusalsAreTrue == Spec => RefusedWasNotPosted
<1> DEFINE Refused(h) == /\ pc[h] # "done" /\ pc'[h] = "done" /\ reply'[h] = "rule"
                         /\ job[h].save \in Unrefused \ Guarded
           A == \A h \in Handler : Refused(h) => ~Posted(job[h].save)
<1>1. IInv /\ [Next]_vars => A
  <2> SUFFICES ASSUME IInv, [Next]_vars, NEW h \in Handler, Refused(h),
                      Posted(job[h].save)
               PROVE  FALSE
    OBVIOUS
  <2> USE ConstantsAssumption
  <2>1. ASSUME NEW s \in Save, NEW g \in Handler, NEW k \in Key, Submit(s, g, k)
        PROVE  FALSE
    BY <2>1 DEF Submit
  <2>2. ASSUME NEW g \in Handler,
               \/ Deliver(g) \/ Lose(g) \/ TxDuplicate(g) \/ TxConflict(g) \/ Admit(g)
               \/ Deny(g) \/ TxFail(g)
        PROVE  FALSE
    BY <2>2 DEF IInv, TypeOK, Deliver, Lose, TxDuplicate, TxConflict, Admit, Deny, TxFail,
                Answer, server
  <2>3. ASSUME NEW g \in Handler, Lookup(g) \/ Recheck(g) \/ TxCommit(g) PROVE FALSE
    BY <2>3 DEF IInv, TypeOK, Lookup, Recheck, Replay, TxCommit, CommitAnswer, Answer
  <2>4. ASSUME NEW g \in Handler, GuardRefuse(g) PROVE FALSE
    BY <2>4 DEF IInv, TypeOK, GuardRefuse, Answer
  <2>5. ASSUME NEW g \in Handler, TxReject(g) PROVE FALSE
    <3>1. g = h /\ receipts[job[h].key] = None
      BY <2>5 DEF IInv, TypeOK, TxReject, ReceiptFree, Answer
    <3>2. PICK k \in Key : receipts[k] = job[h].save
      BY DEF Posted
    <3>3. job[h].key = k
      BY <3>2 DEF IInv, OneKey, Carries, Holds
    <3> QED
      BY <3>1, <3>2, <3>3 DEF Unrefused
  <2>6. CASE Crash
    BY <2>6 DEF Crash
  <2>7. CASE UNCHANGED vars
    BY <2>7 DEF vars, server
  <2> QED
    BY <2>1, <2>2, <2>3, <2>4, <2>5, <2>6, <2>7 DEF Next, Work
<1>2. RefusedWasNotPosted <=> [][A]_vars
  BY DEF RefusedWasNotPosted
<1> QED
  BY <1>1, <1>2, Inductive, PTL DEF Spec

-----------------------------------------------------------------------------
(* The receipts implement SaveOnce.                                        *)

\* Nothing is committed and nobody has been told anything at the start.
LEMMA AbstractInit == ASSUME Init PROVE Once!Init
BY DEF Init, Once!Init, Told

\* A step that moves no form between "nothing", "saved" and "refused", and
\* leaves the receipts alone, is invisible.
LEMMA Invisible ==
  ASSUME \A s \in Save : Told(s)' = Told(s), UNCHANGED receipts
  PROVE  UNCHANGED Once!vars
BY DEF Once!vars

\* Every step is a commit, a verdict or a new attempt of SaveOnce, or is
\* invisible to it.
LEMMA AbstractStep == ASSUME IInv, [Next]_vars PROVE [Once!Next]_(Once!vars)
<1> USE ConstantsAssumption
<1>1. ASSUME NEW s \in Save, NEW h \in Handler, NEW k \in Key, Submit(s, h, k)
      PROVE  Once!TryAgain(s) \/ UNCHANGED Once!vars
  <2>1. CASE status[s] = "refused"
    BY <1>1, <2>1 DEF IInv, TypeOK, Submit, Told, Once!TryAgain, database
  <2>2. CASE status[s] # "refused"
    BY <1>1, <2>2, Invisible DEF IInv, TypeOK, Submit, Told, database
  <2> QED
    BY <2>1, <2>2
<1>2. ASSUME NEW h \in Handler, Deliver(h)
      PROVE  UNCHANGED Once!vars \/ \E s \in Save : Once!TellSaved(s) \/ Once!TellRefused(s)
  <2>1. CASE h \notin heard
    BY <1>2, <2>1, Invisible DEF Deliver, Told, database
  <2>2. CASE h \in heard
    <3> DEFINE s == job[h].save
    <3>1. /\ s \in Save /\ status[s] = "waiting" /\ Hear(s, reply[h])
          /\ UNCHANGED receipts
          /\ reply[h] = "result" => \E k \in Key : receipts[k] = s
      BY <1>2, <2>2 DEF IInv, TypeOK, JobsOK, HeardOK, AnswersOK, Deliver, database
    <3> HIDE DEF s
    <3>2. CASE reply[h] = "result"
      BY <3>1, <3>2 DEF IInv, TypeOK, Hear, Refusals, Told, Once!TellSaved
    <3>3. CASE reply[h] = "unsure"
      BY <3>1, <3>3, Invisible DEF IInv, TypeOK, Hear, Refusals, Told
    <3>4. CASE reply[h] \in Refusals
      BY <3>1, <3>4 DEF IInv, TypeOK, Hear, Refusals, Told, Once!TellRefused
    <3> QED
      BY <3>1, <3>2, <3>3, <3>4 DEF Hear
  <2> QED
    BY <2>1, <2>2
<1>3. ASSUME NEW h \in Handler, TxCommit(h)
      PROVE  \E s \in Save, k \in Key : Once!Commit(k, s)
  BY <1>3 DEF IInv, TypeOK, JobsOK, TxCommit, ReceiptFree, Told, client, Once!Commit
<1>4. ASSUME NEW h \in Handler, Deny(h) \/ GuardRefuse(h) \/ Admit(h) \/ Lookup(h)
                                \/ Recheck(h)
      PROVE  UNCHANGED Once!vars
  BY <1>4, Invisible DEF Deny, GuardRefuse, Admit, Lookup, Recheck, Told, client, database
<1>5. ASSUME NEW h \in Handler, TxDuplicate(h) \/ TxConflict(h) \/ TxReject(h) \/ TxFail(h)
      PROVE  UNCHANGED Once!vars
  BY <1>5, Invisible DEF TxDuplicate, TxConflict, TxReject, TxFail, Rollback, Told,
                         client, database
<1>6. ASSUME NEW h \in Handler, Lose(h) PROVE UNCHANGED Once!vars
  BY <1>6, Invisible DEF IInv, TypeOK, JobsOK, HeardOK, Lose, Told, database
<1>7. CASE Crash
  <2>1. \A s \in Save : Told(s)' = Told(s)
    BY <1>7 DEF IInv, TypeOK, JobsOK, HeardOK, Crash, Told
  <2> QED
    BY <1>7, <2>1, Invisible DEF Crash, database
<1>8. CASE UNCHANGED vars
  BY <1>8, Invisible DEF vars, client, database, Told
<1> QED
  BY <1>1, <1>2, <1>3, <1>4, <1>5, <1>6, <1>7, <1>8 DEF Next, Work, Once!Next

\* The protocol of browser, API and database keeps SaveOnce's promise: a key
\* is spent on one set of details for good, and "saved" is said of nothing else.
THEOREM Implements == Spec => ImplementsSaveOnce
<1>1. Init => Once!Init
  BY AbstractInit
<1>2. IInv /\ [Next]_vars => [Once!Next]_(Once!vars)
  BY AbstractStep
<1> QED
  BY <1>1, <1>2, Inductive, PTL DEF Spec, ImplementsSaveOnce, Once!Spec
=============================================================================
