---------------------------- MODULE OfflineSync ----------------------------
(***************************************************************************)
(* Records saved without a connection: the queue in IndexedDB that every   *)
(* tab of one browser shares (apps/web/src/lib/offline-sync.ts), request() *)
(* and replayOfflineRequest() of lib/api.ts, and signing in and out in     *)
(* components/AuthProvider.tsx.                                            *)
(*                                                                         *)
(* Each IndexedDB transaction and each request is a step of its own: a tab *)
(* works on the rows it read, whatever other tabs or the person do in      *)
(* between; what a tab counts, it counts in the step that changed it.  The *)
(* server keeps a receipt for each actor and identifier (SafeSave), and    *)
(* the actor is whoever the browser's cookie says.  A record is its own    *)
(* identifier; attempts and messages are left out.                         *)
(***************************************************************************)
EXTENDS Naturals, Sequences, FiniteSets, SequencesExt

CONSTANTS Record, Tab, User, None,
          MaxFaults,    \* bound: requests whose answer never arrives
          MaxSwitches,  \* bound: sign-ins, sign-outs and reloads
          MaxRetries    \* bound: presses of the retry button

ASSUME SyncAssumption == /\ {MaxFaults, MaxSwitches, MaxRetries} \subseteq Nat
                         /\ None \notin {"pending", "attention"}

VARIABLES cookie,    \* the session every tab's requests carry
          scope,     \* the user each tab believes is signed in
          queue,     \* the REQUESTS store: status of each row in it
          author,    \* the scope a row was stored with
          entered,   \* the records in the order they were saved
          work,      \* what the tab's loop has still to send
          stage,     \* where the loop stands
          reviving,  \* rows a retry is marking as pending again
          counted,   \* tabs whose snapshot shows pending rows
          posted,    \* the actors each record was posted for
          replayed,  \* history: records posted from the queue
          flagged,   \* history: records that needed attention
          faults, switches, retries

vars == <<cookie, scope, queue, author, entered, work, stage, reviving, counted,
          posted, replayed, flagged, faults, switches, retries>>
session == <<cookie, scope, switches>>
bounds == <<faults, retries>>
server == <<posted, replayed>>
tabVars == <<work, stage, reviving>>

RowStatus == {"pending", "attention"}
Stage == {"idle", "send", "ok", "pending", "attention"}

TypeOK == /\ cookie \in User \cup {None}
          /\ scope \in [Tab -> User \cup {None}]
          /\ queue \in [Record -> RowStatus \cup {None}]
          /\ author \in [Record -> User \cup {None}]
          /\ entered \in Seq(Record) /\ IsInjective(entered)
          /\ work \in [Tab -> Seq(Record)]
          /\ stage \in [Tab -> Stage]
          /\ \A t \in Tab : stage[t] # "idle" => work[t] # <<>>
          /\ reviving \in [Tab -> SUBSET Record]
          /\ counted \subseteq Tab
          /\ posted \in [Record -> SUBSET User]
          /\ replayed \subseteq Record /\ flagged \subseteq Record
          /\ faults \in 0..MaxFaults /\ switches \in 0..MaxSwitches
          /\ retries \in 0..MaxRetries

Init == /\ cookie \in User /\ scope = [t \in Tab |-> cookie]
        /\ queue = [r \in Record |-> None] /\ author = [r \in Record |-> None]
        /\ entered = <<>>
        /\ work = [t \in Tab |-> <<>>] /\ stage = [t \in Tab |-> "idle"]
        /\ reviving = [t \in Tab |-> {}]
        /\ counted = {}
        /\ posted = [r \in Record |-> {}]
        /\ replayed = {} /\ flagged = {} /\ faults = 0 /\ switches = 0 /\ retries = 0

-----------------------------------------------------------------------------
Sorted(S) ==
    CHOOSE f \in Bijection(1..Cardinality(S), S) : \A i, j \in DOMAIN f : i < j => f[i] < f[j]

\* The rows a tab counts, and its loop sends: its user's, sorted by when they
\* were saved.
PendingOf(t) ==
    LET mine == {i \in DOMAIN entered : queue[entered[i]] = "pending" /\ author[entered[i]] = scope[t]}
        order == Sorted(mine)
    IN  [i \in DOMAIN order |-> entered[order[i]]]

\* refreshCounts, after a tab's own changes of the store.
CountIf(t, changed) ==
    counted' = IF ~changed THEN counted
               ELSE IF PendingOf(t)' = <<>> THEN counted \ {t} ELSE counted \cup {t}

-----------------------------------------------------------------------------
(* Saving a record.                                                        *)
Fault == faults < MaxFaults /\ faults' = faults + 1 /\ UNCHANGED retries

New(t, r) == /\ scope[t] # None /\ r \notin ToSet(entered)
             /\ entered' = Append(entered, r)
             /\ author' = [author EXCEPT ![r] = scope[t]]

\* Without a connection the record is only queued; so it is when the server
\* fails or cannot be reached.
SaveOffline(t, r) ==
    /\ New(t, r)
    /\ queue' = [queue EXCEPT ![r] = "pending"]
    /\ UNCHANGED <<session, tabVars, server, flagged, bounds>>
    /\ CountIf(t, TRUE)

\* With one it is sent at once; when the answer is lost it is queued under the
\* same identifier.
SaveOnline(t, r, lost) ==
    /\ cookie # None /\ New(t, r)
    /\ posted' = [posted EXCEPT ![r] = @ \cup {cookie}]
    /\ queue' = [queue EXCEPT ![r] = IF lost THEN "pending" ELSE None]
    /\ IF lost THEN Fault ELSE UNCHANGED bounds
    /\ UNCHANGED <<session, tabVars, replayed, flagged>>
    /\ CountIf(t, lost)

-----------------------------------------------------------------------------
(* syncOfflineRequests.                                                    *)
\* The flag that stops a second loop belongs to the tab.  A loop may start at any
\* time: when the tab comes into focus, when the connection returns, after a
\* sign-in, and by the timer.
MayStart(t) == stage[t] = "idle" /\ scope[t] # None

StartSync(t) ==
    /\ MayStart(t) /\ PendingOf(t) # <<>>
    /\ work' = [work EXCEPT ![t] = PendingOf(t)]
    /\ stage' = [stage EXCEPT ![t] = "send"]
    /\ UNCHANGED <<session, queue, author, entered, reviving, counted, server, flagged, bounds>>

\* Other tabs have sent it all, or nothing was pending.
FindNothing(t) ==
    /\ MayStart(t) /\ PendingOf(t) = <<>>
    /\ UNCHANGED <<session, queue, author, entered, tabVars, server, flagged, bounds>>
    /\ CountIf(t, TRUE)

\* Every 15 s, in a tab whose own snapshot shows something pending.
Timer(t) == t \in counted /\ (StartSync(t) \/ FindNothing(t))

\* replay: the request carries the cookie of the moment.
Reaches(t) == stage[t] = "send"
Hears(t, result) == stage' = [stage EXCEPT ![t] = result]
Post(r) == /\ posted' = [posted EXCEPT ![r] = @ \cup {cookie}]
           /\ replayed' = replayed \cup {r}

\* Slips: any answer is taken for a success; a refusal is tried again for ever.
SlipAnyAnswer == "ok"
SlipTryForever == "pending"
OnRefusal == "attention"

Accept(t) == /\ Reaches(t) /\ cookie # None
             /\ Post(Head(work[t])) /\ Hears(t, "ok")
             /\ UNCHANGED <<session, queue, author, entered, work, reviving, counted, flagged, bounds>>

\* A rule of the business refuses it (even one posted before: the shift has been
\* closed since), another tab's save of it is in progress, or nobody is signed in.
Refuse(t) == /\ Reaches(t)
             /\ Hears(t, OnRefusal)
             /\ UNCHANGED <<session, queue, author, entered, work, reviving, counted, server, flagged, bounds>>

\* No answer: the server may have posted the record all the same.
Lose(t) == /\ Reaches(t) /\ Fault /\ Hears(t, "pending")
           /\ \/ cookie # None /\ Post(Head(work[t]))
              \/ UNCHANGED server
           /\ UNCHANGED <<session, queue, author, entered, work, reviving, counted, flagged>>

\* The row goes after a success and the loop goes on; at its end the tab counts ...
Drop(t) ==
    LET rest == Tail(work[t]) IN
    /\ stage[t] = "ok"
    /\ queue' = [queue EXCEPT ![Head(work[t])] = None]
    /\ work' = [work EXCEPT ![t] = rest]
    /\ stage' = [stage EXCEPT ![t] = IF rest = <<>> THEN "idle" ELSE "send"]
    /\ UNCHANGED <<session, author, entered, reviving, server, flagged, bounds>>
    /\ CountIf(t, rest = <<>>)

\* ... otherwise the row that was read is written back and the loop ends.
SlipRest(t) == Tail(work[t])
Rest(t) == <<>>

PutBack(t) ==
    LET r == Head(work[t]) IN
    /\ stage[t] \in RowStatus
    /\ queue' = [queue EXCEPT ![r] = stage[t]]
    /\ flagged' = IF stage[t] = "attention" THEN flagged \cup {r} ELSE flagged
    /\ work' = [work EXCEPT ![t] = Rest(t)]
    /\ stage' = [stage EXCEPT ![t] = IF Rest(t) = <<>> THEN "idle" ELSE "send"]
    /\ UNCHANGED <<session, author, entered, reviving, server, bounds>>
    /\ CountIf(t, Rest(t) = <<>>)

-----------------------------------------------------------------------------
\* retryOfflineRequests marks the rows it read as pending, one by one, and counts;
\* a loop may start meanwhile.  When it reads none it only starts a loop.
Retry(t) ==
    /\ retries < MaxRetries /\ retries' = retries + 1
    /\ scope[t] # None /\ reviving[t] = {}
    /\ reviving' = [reviving EXCEPT ![t] =
         {r \in Record : queue[r] = "attention" /\ author[r] = scope[t]}]
    /\ reviving'[t] # {}
    /\ UNCHANGED <<session, queue, author, entered, work, stage, counted, server, flagged, faults>>

Revive(t, r) ==
    /\ r \in reviving[t]
    /\ queue' = [queue EXCEPT ![r] = "pending"]
    /\ reviving' = [reviving EXCEPT ![t] = @ \ {r}]
    /\ UNCHANGED <<session, author, entered, work, stage, server, flagged, bounds>>
    /\ CountIf(t, reviving'[t] = {})

-----------------------------------------------------------------------------
(* Signing in and out happens in one tab; the cookie is the browser's.     *)
Switch == switches < MaxSwitches /\ switches' = switches + 1

SignIn(t, u) == /\ Switch /\ scope[t] = None
                /\ cookie' = u /\ scope' = [scope EXCEPT ![t] = u]
                /\ UNCHANGED <<queue, author, entered, tabVars, server, flagged, bounds>>
                /\ CountIf(t, TRUE)

SignOut(t) == /\ Switch /\ scope[t] # None
              /\ cookie' = None /\ scope' = [scope EXCEPT ![t] = None]
              /\ counted' = counted \ {t}
              /\ UNCHANGED <<queue, author, entered, tabVars, server, flagged, bounds>>

\* A reload, or a tab closed and opened: the loop is gone, api.me() tells the user.
Reload(t) == /\ Switch
             /\ scope' = [scope EXCEPT ![t] = cookie]
             /\ work' = [work EXCEPT ![t] = <<>>]
             /\ stage' = [stage EXCEPT ![t] = "idle"]
             /\ reviving' = [reviving EXCEPT ![t] = {}]
             /\ UNCHANGED <<cookie, queue, author, entered, server, flagged, bounds>>
             /\ CountIf(t, TRUE)

Answered(t) == Accept(t) \/ Refuse(t) \/ Lose(t)
Running(t) == Answered(t) \/ Drop(t) \/ PutBack(t)
Reviving(t) == \E r \in Record : Revive(t, r)

Next == \E t \in Tab :
          \/ \E r \in Record : \/ SaveOffline(t, r)
                               \/ \E lost \in BOOLEAN : SaveOnline(t, r, lost)
          \/ StartSync(t) \/ FindNothing(t) \/ Running(t)
          \/ Retry(t) \/ Reviving(t)
          \/ \E u \in User : SignIn(t, u)
          \/ SignOut(t) \/ Reload(t)

Spec == Init /\ [][Next]_vars

\* What a tab has begun goes on, and its timer ticks; nobody need look at a tab,
\* nor the connection come and go.
Fairness == \A t \in Tab : WF_vars(Timer(t)) /\ WF_vars(Running(t)) /\ WF_vars(Reviving(t))
FairSpec == Spec /\ Fairness

-----------------------------------------------------------------------------
Before(r, s) == \E i, j \in DOMAIN entered : i < j /\ entered[i] = r /\ entered[j] = s

\* Whatever two tabs, lost answers, reloads and changes of user do to the queue,
\* a saved record is in it until the server has it.
NothingLost == \A r \in ToSet(entered) : queue[r] # None \/ posted[r] # {}

\* The queue posts the records of one user in the order they were saved, even
\* from two tabs, as long as none of them needed attention.
QueueKeepsOrder ==
    /\ TypeOK
    /\ \A r, s \in Record :
           Before(r, s) /\ author[r] = author[s] /\ s \in replayed
               => posted[r] # {} \/ r \in flagged

\* A record does not stay pending for ever while some tab of its author's has
\* counted pending rows - the tab that saved it, gave it back or was loaded since -
\* whatever the other tabs do.
PendingIsSettled ==
    \A r \in Record :
        <>[](\E t \in counted : scope[t] = author[r]) => []<>(queue[r] # "pending")
=============================================================================
