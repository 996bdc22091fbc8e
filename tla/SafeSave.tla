------------------------------ MODULE SafeSave ------------------------------
(***************************************************************************)
(* Saving a record through the retry receipts: the browser's request()     *)
(* (apps/web/src/lib/api.ts), the API's middleware and safeTransaction()   *)
(* (apps/api/src/lib/safe-save.ts), and the serializable database          *)
(* transaction that writes the receipt together with the business rows.    *)
(*                                                                         *)
(* A save stands for one thing a person means to post once, with fixed     *)
(* details, so it is also its own fingerprint and its own result.  All     *)
(* saves here belong to one actor: receipts of different actors never      *)
(* meet (schema.prisma, SaveReceipt @@id([actor, key])).                   *)
(***************************************************************************)
EXTENDS Naturals, FiniteSets

CONSTANTS Save,         \* the details people submit
          Key,          \* the save identifiers (UUIDs) that can be drawn
          Handler,      \* requests the API can be serving at once
          Guarded,      \* saves whose handler reads business rows before
                        \* safeTransaction, so sees its own earlier effect
          Clashing,     \* saves that break a unique constraint of their own
                        \* (a taken supplier invoice number)
          Native,       \* saves of the iOS application, whose callers of
                        \* APIClient.send pick the key
          None,         \* "no key", "no receipt"
          MaxFaults     \* bound on lost connections, crashes, errors and
                        \* calls of sessionStorage that throw

ASSUME ConstantsAssumption ==
    /\ Guarded \subseteq Save /\ Clashing \subseteq Save
    /\ Native \subseteq Save
    /\ None \notin Save /\ None \notin Key
    /\ MaxFaults \in Nat

VARIABLES status,    \* status[s]: what the person's form shows for s
          stored,    \* stored[s]: the key kept in sessionStorage for s
          issued,    \* keys drawn so far
          pc,        \* pc[h]: where request h stands in the server
          job,       \* job[h]: the save and the key request h carries
          heard,     \* requests whose response the browser still awaits
          stale,     \* open transactions that started before a later commit
          reply,     \* reply[h]: the response of a finished request
          receipts,  \* receipts[k]: the save committed under k
          effects,   \* effects[k]: times business rows were posted under k
          refusedOnce, \* saves whose form was ever told "no" (history)
          unkept,    \* saves ever sent under a key the browser could not
                     \* keep (history)
          faults     \* faults so far

client == <<status, stored, issued, refusedOnce, unkept>>
server == <<pc, job, stale, reply>>
database == <<receipts, effects>>
vars == <<client, server, heard, database, faults>>

\* Codes for which the browser keeps the key: SAVE_RETRY_REQUIRED,
\* INTERNAL_ERROR, DATABASE_UNAVAILABLE and the rest of the list in request().
Replies == {"result", "unsure", "denied", "rule", "reused"}
Refusals == {"denied", "rule", "reused"}

TypeOK ==
    /\ status \in [Save -> {"draft", "waiting", "uncertain", "saved", "refused"}]
    /\ stored \in [Save -> Key \cup {None}]
    /\ issued \in SUBSET Key
    /\ refusedOnce \in SUBSET Save
    /\ unkept \in SUBSET Save
    /\ pc \in [Handler -> {"free", "received", "lookup", "txn", "recheck", "done"}]
    /\ job \in [Handler -> [save : Save \cup {None}, key : Key \cup {None}]]
    /\ heard \in SUBSET Handler
    /\ stale \in SUBSET Handler
    /\ reply \in [Handler -> Replies \cup {None}]
    /\ receipts \in [Key -> Save \cup {None}]
    /\ effects \in [Key -> Nat]
    /\ faults \in Nat

NoJob == [save |-> None, key |-> None]

Init == /\ status = [s \in Save |-> "draft"]
        /\ stored = [s \in Save |-> None]
        /\ issued = {}
        /\ refusedOnce = {}
        /\ unkept = {}
        /\ pc = [h \in Handler |-> "free"]
        /\ job = [h \in Handler |-> NoJob]
        /\ heard = {}
        /\ stale = {}
        /\ reply = [h \in Handler |-> None]
        /\ receipts = [k \in Key |-> None]
        /\ effects = [k \in Key |-> 0]
        /\ faults = 0

-----------------------------------------------------------------------------
(* The browser.                                                            *)

\* Slip: every attempt draws a key of its own.
SlipNewKey(s, k) == s \in Native \/ k \notin issued

\* The key request() sends: the one kept for these details, else a new one.
\* APIClient.send of the iOS application sends the key it is given.
KeyFor(s, k) == IF s \in Native THEN TRUE
                ELSE IF stored[s] # None THEN k = stored[s]
                ELSE k \notin issued

\* The key of this attempt is the one for these details, and is kept.
KeepKey(s, k) == /\ KeyFor(s, k)
                 /\ stored' = [stored EXCEPT ![s] = k]
                 /\ UNCHANGED <<unkept, faults>>

\* sessionStorage throws: the attempt goes out under a key of its own.
LoseKey(s, k) == /\ faults < MaxFaults
                 /\ s \notin Native
                 /\ k \notin issued
                 /\ unkept' = unkept \cup {s}
                 /\ faults' = faults + 1
                 /\ UNCHANGED stored

\* Saves that have no key to be tried again under.
Keyless == {s \in Save \ Native : /\ status[s] \in {"waiting", "uncertain"}
                                  /\ stored[s] = None}

\* Bound: identifiers never run out, so a draw leaves one for each such save.
SpareKeys == Cardinality(Key \ issued) >= Cardinality(Keyless)

\* request(): a save already in flight is joined, not sent again.
Submit(s, h, k) ==
    /\ status[s] \in {"draft", "uncertain", "refused"}
    /\ pc[h] = "free"
    /\ KeepKey(s, k) \/ LoseKey(s, k)
    /\ status' = [status EXCEPT ![s] = "waiting"]
    /\ issued' = issued \cup {k}
    /\ SpareKeys'
    /\ pc' = [pc EXCEPT ![h] = "received"]
    /\ job' = [job EXCEPT ![h] = [save |-> s, key |-> k]]
    /\ heard' = heard \cup {h}
    /\ UNCHANGED <<refusedOnce, stale, reply, database>>

\* Slip: the key is forgotten whatever the outcome.
SlipForgetKey(s, r) ==
    \E told \in {"saved", "uncertain", "refused"} :
        /\ (told = "saved") = (r = "result")
        /\ (told = "uncertain") = (r = "unsure")
        /\ status' = [status EXCEPT ![s] = told]
        /\ stored' = [stored EXCEPT ![s] = None]
        /\ refusedOnce' = refusedOnce \cup {x \in {s} : told = "refused"}
        /\ UNCHANGED faults

\* The key is removed, unless sessionStorage throws.
ForgetKey(s) == \/ stored' = [stored EXCEPT ![s] = None] /\ UNCHANGED faults
                \/ faults < MaxFaults /\ faults' = faults + 1 /\ UNCHANGED stored

\* What the form does with a response: forget the key on success and on an
\* error code outside the list; keep it while the outcome is uncertain.
Hear(s, r) ==
    \/ /\ r = "result"
       /\ status' = [status EXCEPT ![s] = "saved"]
       /\ ForgetKey(s)
       /\ UNCHANGED refusedOnce
    \/ /\ r = "unsure"
       /\ status' = [status EXCEPT ![s] = "uncertain"]
       /\ UNCHANGED <<stored, refusedOnce, faults>>
    \/ /\ r \in Refusals
       /\ status' = [status EXCEPT ![s] = "refused"]
       /\ ForgetKey(s)
       /\ refusedOnce' = refusedOnce \cup {s}

\* The response arrives; one nobody awaits any more is discarded.
Deliver(h) ==
    /\ pc[h] = "done"
    /\ IF h \in heard THEN Hear(job[h].save, reply[h])
                      ELSE UNCHANGED <<status, stored, refusedOnce, faults>>
    /\ pc' = [pc EXCEPT ![h] = "free"]
    /\ job' = [job EXCEPT ![h] = NoJob]
    /\ reply' = [reply EXCEPT ![h] = None]
    /\ heard' = heard \ {h}
    /\ UNCHANGED <<issued, unkept, stale, database>>

\* The connection drops or the tab reloads: the browser stops listening and
\* keeps its key, while the server goes on with the request.
Lose(h) ==
    /\ faults < MaxFaults
    /\ h \in heard
    /\ heard' = heard \ {h}
    /\ status' = [status EXCEPT ![job[h].save] = "uncertain"]
    /\ faults' = faults + 1
    /\ UNCHANGED <<stored, issued, refusedOnce, unkept, server, database>>

-----------------------------------------------------------------------------
(* The API process.                                                        *)

Answer(h, r) == /\ pc' = [pc EXCEPT ![h] = "done"]
                /\ reply' = [reply EXCEPT ![h] = r]
                /\ UNCHANGED job

\* Rate limiter, authentication, access and body validation run before any
\* receipt is looked at, and may refuse the request.
Deny(h) == /\ pc[h] = "received"
           /\ Answer(h, "denied")
           /\ UNCHANGED <<client, heard, stale, database, faults>>

\* Some save of these details has already been posted.
Posted(s) == \E k \in Key : receipts[k] = s

\* A handler that reads business rows first finds the meter moved on, the
\* stock received or the shift closed by the very save it is repeating.
GuardRefuse(h) == /\ pc[h] = "received"
                  /\ job[h].save \in Guarded
                  /\ Posted(job[h].save)
                  /\ Answer(h, "rule")
                  /\ UNCHANGED <<client, heard, stale, database, faults>>

Admit(h) == /\ pc[h] = "received"
            /\ job[h].save \in Guarded => ~Posted(job[h].save)
            /\ pc' = [pc EXCEPT ![h] = "lookup"]
            /\ UNCHANGED <<client, job, heard, stale, reply, database, faults>>

\* Slip: the fingerprint is not compared.
SlipReplayUnchecked(h) == Answer(h, "result")

\* replay(): the stored result, unless the receipt is of other details.
Replay(h) == IF receipts[job[h].key] = job[h].save THEN Answer(h, "result")
                                                   ELSE Answer(h, "reused")

\* The receipt is looked up outside the transaction.
Lookup(h) ==
    /\ pc[h] = "lookup"
    /\ IF receipts[job[h].key] # None
       THEN Replay(h)
       ELSE /\ pc' = [pc EXCEPT ![h] = "txn"]
            /\ UNCHANGED <<job, reply>>
    /\ UNCHANGED <<client, heard, stale, database, faults>>

-----------------------------------------------------------------------------
(* The serializable transaction: create the receipt, post the rows, store  *)
(* the result.  It takes effect at its commit; the receipt's primary key   *)
(* makes a second creation of the same receipt fail (P2002).               *)

ReceiptFree(h) == receipts[job[h].key] = None

\* The commit's own acknowledgement may be lost between the database and the
\* API, which then answers INTERNAL_ERROR for a save that is posted.
CommitAnswer(h) == \/ Answer(h, "result") /\ UNCHANGED faults
                   \/ /\ faults < MaxFaults
                      /\ Answer(h, "unsure")
                      /\ faults' = faults + 1

TxCommit(h) ==
    /\ pc[h] = "txn"
    /\ ReceiptFree(h)
    /\ job[h].save \notin Clashing
    /\ receipts' = [receipts EXCEPT ![job[h].key] = job[h].save]
    /\ effects' = [effects EXCEPT ![job[h].key] = @ + 1]
    /\ stale' = (stale \ {h}) \cup {g \in Handler \ {h} : pc[g] = "txn"}
    /\ CommitAnswer(h)
    /\ UNCHANGED <<client, heard>>

\* Everything below rolls the receipt back with the business rows.
Rollback(h) == /\ stale' = stale \ {h}
               /\ UNCHANGED <<client, heard, database>>

\* P2002: the receipt was created meanwhile, or the business rows clash.
TxDuplicate(h) == /\ pc[h] = "txn"
                  /\ ~ReceiptFree(h) \/ job[h].save \in Clashing
                  /\ pc' = [pc EXCEPT ![h] = "recheck"]
                  /\ Rollback(h)
                  /\ UNCHANGED <<job, reply, faults>>

\* P2034: a transaction that overlapped a commit is not serializable.
TxConflict(h) == /\ pc[h] = "txn"
                 /\ h \in stale
                 /\ pc' = [pc EXCEPT ![h] = "recheck"]
                 /\ Rollback(h)
                 /\ UNCHANGED <<job, reply, faults>>

\* A business rule inside the transaction refuses (AppError).  The receipt
\* is created first, so this request holds the only claim on its key.
TxReject(h) == /\ pc[h] = "txn"
               /\ ReceiptFree(h)
               /\ Answer(h, "rule")
               /\ Rollback(h)
               /\ UNCHANGED faults

\* Any other error: INTERNAL_ERROR or DATABASE_UNAVAILABLE, rolled back.
TxFail(h) == /\ pc[h] = "txn"
             /\ faults < MaxFaults
             /\ Answer(h, "unsure")
             /\ Rollback(h)
             /\ faults' = faults + 1

\* Slip: the catch block waits for a receipt that may never come.
SlipAwaitReceipt(h) == /\ pc[h] = "recheck"
                       /\ receipts[job[h].key] # None
                       /\ Replay(h)
                       /\ UNCHANGED <<client, heard, stale, database, faults>>

\* The catch block looks for the receipt once more.
Recheck(h) ==
    /\ pc[h] = "recheck"
    /\ IF receipts[job[h].key] # None THEN Replay(h) ELSE Answer(h, "unsure")
    /\ UNCHANGED <<client, heard, stale, database, faults>>

\* The API process dies: every request is cut off, open transactions roll
\* back, committed ones stay.
Crash ==
    /\ faults < MaxFaults
    /\ \E h \in Handler : pc[h] # "free"
    /\ status' = [s \in Save |-> IF \E h \in heard : job[h].save = s
                                 THEN "uncertain" ELSE status[s]]
    /\ pc' = [h \in Handler |-> "free"]
    /\ job' = [h \in Handler |-> NoJob]
    /\ reply' = [h \in Handler |-> None]
    /\ heard' = {}
    /\ stale' = {}
    /\ faults' = faults + 1
    /\ UNCHANGED <<stored, issued, refusedOnce, unkept, database>>

-----------------------------------------------------------------------------
Work(h) == \/ Deny(h) \/ GuardRefuse(h) \/ Admit(h) \/ Lookup(h)
           \/ TxCommit(h) \/ TxDuplicate(h) \/ TxConflict(h)
           \/ TxReject(h) \/ Recheck(h) \/ Deliver(h)

Next == \/ \E s \in Save, h \in Handler, k \in Key : Submit(s, h, k)
        \/ \E h \in Handler : Work(h) \/ Lose(h) \/ TxFail(h)
        \/ Crash

\* The person presses Save again while the outcome is uncertain.
Retry(s) == /\ status[s] = "uncertain"
            /\ \E h \in Handler, k \in Key : Submit(s, h, k)

Spec == Init /\ [][Next]_vars

\* Requests in the server make progress, and an uncertain save is retried.
\* The API takes any number of requests at once, Handler being a bound, so a
\* retry is not kept out for ever by other saves: strong fairness.
Fairness == /\ \A h \in Handler : WF_vars(Work(h))
            /\ \A s \in Save \ Clashing : SF_vars(Retry(s))

FairSpec == Spec /\ Fairness
-----------------------------------------------------------------------------
(* What must hold.                                                         *)

\* A receipt and the business rows of its save commit or roll back together,
\* and never twice, however requests carrying one key overlap
\* (safeTransaction, safe-save.ts:30-43).
OncePerKey == \A k \in Key : effects[k] = (IF receipts[k] = None THEN 0 ELSE 1)

\* The form says "saved" only of details that really are posted.
SavedIsPosted == \A s \in Save : status[s] = "saved" => Posted(s)

PostedTwice(s) == \E k1, k2 \in Key : /\ k1 # k2
                                      /\ receipts[k1] = s
                                      /\ receipts[k2] = s

\* Saves of browsers that could keep their key, and whose form was never told
\* "no".
Unrefused == Save \ (Native \cup refusedOnce \cup unkept)

\* Lost responses, reloads, crashes and overlapping retries alone never post
\* a browser's save twice: that takes an answer that made the form give up
\* its key, or a sessionStorage that could not keep it (request(),
\* api.ts:81-118).
SecondEffectNeedsRefusal == \A s \in Unrefused : ~PostedTwice(s)

\* A retry is not refused by a business rule because of what its own first
\* attempt posted (the payment exceeds what it left due): such a save is not
\* posted, under any key, when a rule refuses it.  That takes the key kept
\* over every lost answer, and the receipt created before the rules are
\* asked (api.ts:81-118, safe-save.ts:27-32).
RefusedWasNotPosted ==
    [][\A h \in Handler :
         /\ pc[h] # "done" /\ pc'[h] = "done" /\ reply'[h] = "rule"
         /\ job[h].save \in Unrefused \ Guarded
         => ~Posted(job[h].save)]_vars

\* An uncertain save is settled in the end: the form learns that it is
\* posted or that it was refused (api.ts:77-124 with safe-save.ts:37-44).
\* Not so one that breaks a unique constraint of its own: the P2002 is taken
\* for a race on the receipt and answered SAVE_RETRY_REQUIRED each time.
Settles == \A s \in Save \ Clashing :
             status[s] \in {"waiting", "uncertain"} ~> status[s] \in {"saved", "refused"}

\* The receipts keep the promise of SaveOnce.
Told(s) == IF status[s] \in {"saved", "refused"} THEN status[s] ELSE "nothing"
Once == INSTANCE SaveOnce WITH committed <- receipts,
                               told <- [s \in Save |-> Told(s)]
ImplementsSaveOnce == Once!Spec
=============================================================================
