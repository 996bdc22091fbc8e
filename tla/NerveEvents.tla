----------------------------- MODULE NerveEvents -----------------------------
(***************************************************************************)
(* Business events on their way to Nerve's agents: the event store with    *)
(* its gap buffer, the ingestion service that turns released events into   *)
(* jobs, the job queue with its bounded retries and dead letters, and the  *)
(* workers that run the jobs.  One stream of one tenant.                   *)
(*                                                                         *)
(* The store and the queue each change in one uninterrupted step, but an   *)
(* ingest awaits the store once per released event before it queues it, so *)
(* two ingests interleave between one job and the next.                    *)
(***************************************************************************)
EXTENDS Naturals, Sequences, FiniteSets, SequencesExt, FiniteSetsExt

CONSTANTS
  Events,           \* event ids; two may carry the same sequence number
  Position,         \* the sequence number of each
  OccurredAt,       \* the time each says it happened at
  Calls,            \* ingests that may run side by side
  Workers,          \* workers that may run side by side
  MaximumAttempts,  \* attempts before a job becomes a dead letter
  MaxReplays,       \* bound: replay ids 1..MaxReplays
  MaxOperatorRetries \* bound: dead letters put back by an operator

ASSUME EventsAssumption ==
  /\ Position \in [Events -> Nat \ {0}]
  /\ OccurredAt \in [Events -> Nat]
  /\ MaximumAttempts \in Nat \ {0}
  /\ MaxReplays \in Nat
  /\ MaxOperatorRetries \in Nat

VARIABLES
  kept,      \* the events kept, in the order they came
  released,  \* those of them the stream has released
  last,      \* the sequence number released last
  held,      \* for each ingest under way, the released events not yet queued
  jobs,      \* the queue: every job ever made
  running,   \* the job each worker is at, 0 for none
  retried    \* dead letters put back so far

eventVars == <<kept, released, last, held, jobs, running, retried>>
stored == <<kept, released, last>>

First == 0  \* the delivery that is not a replay
Deliveries == First..MaxReplays

QueueJob == [event : Events, delivery : Deliveries, attempts : 0..MaximumAttempts,
        status : {"QUEUED", "RUNNING", "COMPLETED", "DEAD_LETTER"}]

EventsInit ==
  /\ kept = <<>> /\ released = {} /\ last = 0
  /\ held = [c \in Calls |-> <<>>]
  /\ jobs = <<>>
  /\ running = [w \in Workers |-> 0]
  /\ retried = 0

-----------------------------------------------------------------------------
(* The event store *)

Known(e) == \/ e \in ToSet(kept)
            \/ Position[e] <= last

InTurn(e) == Position[e] = last + 1

\* The rows that wait for position p, by their place in the store.
Buffered(p) == {i \in DOMAIN kept : kept[i] \notin released /\ Position[kept[i]] = p}

Positions == {Position[e] : e \in Events}

\* Mutant: only the event that came is released.
SlipRunEnd(e) == Position[e]

\* The last position of the unbroken run that starts with e.
RunEnd(e) ==
  Max({p \in Positions : /\ p >= Position[e]
                         /\ \A q \in (Position[e] + 1)..p : Buffered(q) # {}})

\* The events e releases, itself first; of two at one position the older row.
Run(e) == [k \in 1..(RunEnd(e) - Position[e] + 1) |->
             IF k = 1 THEN e ELSE kept[Min(Buffered(Position[e] + k - 1))]]

Duplicate(c, e) ==
  /\ held[c] = <<>>
  /\ Known(e)
  /\ UNCHANGED eventVars

BufferGap(c, e) ==
  /\ held[c] = <<>>
  /\ ~Known(e) /\ ~InTurn(e)
  /\ kept' = Append(kept, e)
  /\ UNCHANGED <<released, last, held, jobs, running, retried>>

Accept(c, e) ==
  /\ held[c] = <<>>
  /\ ~Known(e) /\ InTurn(e)
  /\ kept' = Append(kept, e)
  /\ released' = released \cup ToSet(Run(e))
  /\ last' = RunEnd(e)
  /\ held' = [held EXCEPT ![c] = Run(e)]
  /\ UNCHANGED <<jobs, running, retried>>

-----------------------------------------------------------------------------
(* The queue *)

\* Mutant: any job for the event counts, whichever delivery it is for.
SlipQueued(e, d) == \E i \in DOMAIN jobs : jobs[i].event = e

\* One job for each event and delivery, whatever became of the job.
Queued(e, d) == \E i \in DOMAIN jobs : jobs[i].event = e /\ jobs[i].delivery = d

NewJob(e, d) == [event |-> e, delivery |-> d, attempts |-> 0, status |-> "QUEUED"]

\* The ingest goes on with the next event it released.
Enqueue(c) ==
  /\ held[c] # <<>>
  /\ jobs' = IF Queued(Head(held[c]), First) THEN jobs
             ELSE Append(jobs, NewJob(Head(held[c]), First))
  /\ held' = [held EXCEPT ![c] = Tail(@)]
  /\ UNCHANGED <<stored, running, retried>>

\* The order in which the store lists what it released.
Before(a, b) == \/ OccurredAt[a] < OccurredAt[b]
                \/ OccurredAt[a] = OccurredAt[b] /\ Position[a] <= Position[b]

Listed(S) ==
  CHOOSE f \in Bijection(1..Cardinality(S), S) :
    \A i, j \in DOMAIN f : i < j => Before(f[i], f[j])

\* Every released event between two times, queued again under the replay's id.
Replay(id, from, to) ==
  LET again == {e \in released : /\ from <= OccurredAt[e] /\ OccurredAt[e] <= to
                                 /\ ~Queued(e, id)}
  IN /\ released # {}
     /\ jobs' = jobs \o [i \in 1..Cardinality(again) |-> NewJob(Listed(again)[i], id)]
     /\ UNCHANGED <<stored, held, running, retried>>

-----------------------------------------------------------------------------
(* The workers *)

Waiting == {i \in DOMAIN jobs : jobs[i].status = "QUEUED"}

TakeJob(w) ==
  /\ running[w] = 0
  /\ Waiting # {}
  /\ LET i == Min(Waiting)
     IN /\ jobs' = [jobs EXCEPT ![i].status = "RUNNING", ![i].attempts = @ + 1]
        /\ running' = [running EXCEPT ![w] = i]
  /\ UNCHANGED <<stored, held, retried>>

CompleteJob(w) ==
  /\ running[w] # 0
  /\ jobs' = [jobs EXCEPT ![running[w]].status = "COMPLETED"]
  /\ running' = [running EXCEPT ![w] = 0]
  /\ UNCHANGED <<stored, held, retried>>

\* Mutant: a failed job starts counting again.
SlipAfterFailure(job) ==
  [job EXCEPT !.attempts = 0, !.status = "QUEUED"]

Exhausted(job) == job.attempts >= MaximumAttempts

AfterFailure(job) ==
  [job EXCEPT !.status = IF Exhausted(job) THEN "DEAD_LETTER" ELSE "QUEUED"]

FailJob(w) ==
  /\ running[w] # 0
  /\ jobs' = [jobs EXCEPT ![running[w]] = AfterFailure(@)]
  /\ running' = [running EXCEPT ![w] = 0]
  /\ UNCHANGED <<stored, held, retried>>

\* An operator puts a dead letter back.
MayRetry(job) == job.status = "DEAD_LETTER"

RetryDeadLetter(i) ==
  /\ retried < MaxOperatorRetries
  /\ MayRetry(jobs[i])
  /\ jobs' = [jobs EXCEPT ![i].status = "QUEUED", ![i].attempts = 0]
  /\ retried' = retried + 1
  /\ UNCHANGED <<stored, held, running>>

-----------------------------------------------------------------------------
Times == {OccurredAt[e] : e \in Events}

Ingest(c) == \E e \in Events : Duplicate(c, e) \/ BufferGap(c, e) \/ Accept(c, e)

WorkOn(w) == TakeJob(w) \/ CompleteJob(w) \/ FailJob(w)

Operate ==
  \/ \E id \in 1..MaxReplays, from, to \in Times : Replay(id, from, to)
  \/ \E i \in DOMAIN jobs : RetryDeadLetter(i)

EventsNext ==
  \/ \E c \in Calls : Ingest(c) \/ Enqueue(c)
  \/ \E w \in Workers : WorkOn(w)
  \/ Operate

EventsSpec == EventsInit /\ [][EventsNext]_eventVars

\* An ingest under way goes on, and the host keeps calling its workers.
EventsFairness ==
  /\ \A c \in Calls : WF_eventVars(Enqueue(c))
  /\ \A w \in Workers : WF_eventVars(WorkOn(w))

FairEventsSpec == EventsSpec /\ EventsFairness

-----------------------------------------------------------------------------
(* Properties *)

\* The types of the variables.
EventsTypeOK ==
  /\ kept \in Seq(Events)
  /\ released \subseteq ToSet(kept)
  /\ last \in Nat
  /\ held \in [Calls -> Seq(Events)]
  /\ jobs \in Seq(QueueJob)
  /\ running \in [Workers -> 0..Len(jobs)]
  /\ retried \in 0..MaxOperatorRetries

\* A released event is queued for its first delivery or is still held by the
\* ingest that released it, never both and never by two; an event not released
\* is not queued; and a replay queues an event once.  No interleaving of
\* ingests, replays and retries loses or doubles one (events.ts:33, queue.ts:5).
EachReleaseQueuedOnce ==
  /\ EventsTypeOK
  /\ LET holders(e) == {c \in Calls : e \in ToSet(held[c])}
         made(e, d) == {i \in DOMAIN jobs : jobs[i].event = e /\ jobs[i].delivery = d}
     IN \A e \in Events :
          /\ Cardinality(holders(e)) + Cardinality(made(e, First))
               = IF e \in released THEN 1 ELSE 0
          /\ \A d \in Deliveries :
               Cardinality(made(e, d)) <= IF e \in released THEN 1 ELSE 0

\* The events released make up the stream in order, one for each sequence
\* number, and none waits that could go (events.ts:13-20).
Released == [p \in 1..last |-> CHOOSE e \in released : Position[e] = p]
Ordered == INSTANCE OrderedStream WITH arrived <- ToSet(kept), stream <- Released
ReleasesInOrder == Ordered!Spec

\* A released event is delivered or set aside as a dead letter, however many
\* handlers fail and however many replays are queued behind it (queue.ts:8).
Settled(e) == \E i \in DOMAIN jobs : /\ jobs[i].event = e /\ jobs[i].delivery = First
                                     /\ jobs[i].status \in {"COMPLETED", "DEAD_LETTER"}
ReleasedIsSettled == \A e \in Events : e \in released ~> Settled(e)

=============================================================================
