--------------------------- MODULE InvoiceOutbox ---------------------------
(***************************************************************************)
(* How an invoice is emailed.  A send request stores an outbox event in    *)
(* PostgreSQL and hands a BullMQ job with the event's id to Redis; the     *)
(* worker process runs the job, mails the invoice, issues it and completes *)
(* the event.  When the worker starts it hands over again the events that  *)
(* are still waiting.  Requests and jobs exclude each other with a Redis   *)
(* lock per invoice.                                                       *)
(*                                                                         *)
(* There is one invoice; a handler is a sequence of steps, one for every   *)
(* statement, Redis command or mail after which another handler may run.   *)
(* Faults is what may go wrong around the handlers.                        *)
(***************************************************************************)
EXTENDS Naturals

CONSTANTS
    Events,       \* ids of outbox events
    Senders,      \* send requests that may be in progress together
    Workers,      \* jobs the worker process runs at a time
    MaxAttempts,  \* attempts of a job (5 in the code)
    Faults,       \* the faults of this instance
    Nil           \* no handler, no event

FaultKinds == {
    "crash",   \* an API request or the worker process dies
    "stall",   \* BullMQ takes a running job for dead and gives it out again
    "lease",   \* a lock's time to live ends before its holder is done
    "redis",   \* Redis refuses a command
    "wipe",    \* Redis restarts without its data
    "clean",   \* BullMQ drops finished jobs (removeOnComplete, removeOnFail)
    "mail",    \* the mail provider refuses, or accepts and its answer is lost
    "db"}      \* a statement fails

Handlers == Senders \cup Workers

ASSUME OutboxAssumption ==
    /\ Senders \cap Workers = {}
    /\ Nil \notin Handlers \cup Events
    /\ MaxAttempts \in Nat \ {0}
    /\ Faults \subseteq FaultKinds

VARIABLES
    status,       \* Invoice.status
    emailStatus,  \* Invoice.emailStatus
    outbox,       \* the outbox row of each event
    job,          \* the BullMQ job of each event
    lock,         \* the invoice-send lock
    task,         \* the progress of each handler
    main,         \* the worker process and its recovery of stored events
    mails,        \* mails the provider has accepted for each event (0, 1, 2 or more)
    done          \* the events whose completion was ever recorded

invoice == <<status, emailStatus>>
queue == <<job, main>>
history == <<mails, done>>
vars == <<status, emailStatus, outbox, job, lock, task, main, mails, done>>

Lease == INSTANCE RedisLock WITH Holders <- Handlers

-----------------------------------------------------------------------------
(***************************************************************************)
(* Types.                                                                  *)
(***************************************************************************)

InvoiceStatuses == {"DRAFT", "SENT", "VIEWED", "CANCELLED"}

ActiveStatuses == {"PENDING", "ENQUEUED", "PROCESSING"}

\* FAILED is never stored: every caller of markOutboxFailed passes a retry time.
OutboxRow == [status: ActiveStatuses \cup {"NONE", "COMPLETED"}, available: BOOLEAN]

JobStates == {"none", "waiting", "active", "delayed", "completed", "failed"}

Job == [state: JobStates, made: 0 .. MaxAttempts, stalls: 0 .. 1, runner: Workers \cup {Nil}]
NoJob == [state |-> "none", made |-> 0, stalls |-> 0, runner |-> Nil]

Steps == {"idle", "lock", "find", "create", "enqueue", "mark", "release",
          "load", "process", "read", "mail", "issue", "failure", "complete",
          "failing", "succeed", "throw"}

Task == [step: Steps, event: Events \cup {Nil}, seen: InvoiceStatuses, locked: BOOLEAN]
Idle == [step |-> "idle", event |-> Nil, seen |-> "DRAFT", locked |-> FALSE]

Taken(e) == [step |-> "load", event |-> e, seen |-> "DRAFT", locked |-> FALSE]

Main == [step: {"down", "ready", "recover", "mark"}, todo: SUBSET Events,
         event: Events \cup {Nil}]
Down == [step |-> "down", todo |-> {}, event |-> Nil]

-----------------------------------------------------------------------------
Active == {e \in Events : outbox[e].status \in ActiveStatuses}

\* Slip: the migration leaves the index out.
NoIndex(e) == TRUE

\* The partial unique index: no second active event for the invoice.
IndexAllows(e) == Active \subseteq {e}

At(h, step) == task[h].step = step

Goto(h, step) == task' = [task EXCEPT ![h].step = step]

Set(e, s) == outbox' = [outbox EXCEPT ![e].status = s]

\* queue.add with an id that the queue still knows changes nothing.
AddJob(e) ==
    job' = IF job[e].state = "none" THEN [job EXCEPT ![e].state = "waiting"] ELSE job

\* After the lock: taken, or out of reach and done without.
Proceed(h, step) ==
    \/ /\ Lease!Granted(h)
       /\ task' = [task EXCEPT ![h].step = step, ![h].locked = TRUE]
    \/ /\ "redis" \in Faults
       /\ Lease!OutOfReach
       /\ Goto(h, step)

GiveBack(h) ==
    \/ IF task[h].locked THEN Lease!Release(h) ELSE UNCHANGED lock
    \/ "redis" \in Faults /\ UNCHANGED lock

-----------------------------------------------------------------------------
(***************************************************************************)
(* A send request.                                                         *)
(***************************************************************************)
Send(s) ==
    /\ At(s, "idle")
    /\ status # "CANCELLED"
    /\ Goto(s, "lock")
    /\ UNCHANGED <<invoice, outbox, queue, lock, history>>

\* A busy lock means that another request is queueing the same mail.
LockToSend(s) ==
    /\ At(s, "lock") /\ s \in Senders
    /\ \/ Proceed(s, "find")
       \/ Lease!Busy /\ Goto(s, "idle")
    /\ UNCHANGED <<invoice, outbox, queue, history>>

FindActive(s) ==
    /\ At(s, "find")
    /\ Goto(s, IF Active # {} THEN "release" ELSE "create")
    /\ UNCHANGED <<invoice, outbox, queue, lock, history>>

CreateEvent(s) ==
    /\ At(s, "create")
    /\ \/ \E e \in Events :
             /\ outbox[e].status = "NONE"
             /\ IndexAllows(e)
             /\ outbox' = [outbox EXCEPT ![e] = [status |-> "PENDING", available |-> TRUE]]
             /\ task' = [task EXCEPT ![s].step = "enqueue", ![s].event = e]
       \/ Active # {} /\ Goto(s, "release") /\ UNCHANGED outbox
    /\ UNCHANGED <<invoice, queue, lock, history>>

Enqueue(s) ==
    /\ At(s, "enqueue")
    /\ \/ AddJob(task[s].event) /\ Goto(s, "mark")
       \/ "redis" \in Faults /\ Goto(s, "release") /\ UNCHANGED job
    /\ UNCHANGED <<invoice, outbox, lock, main, history>>

\* Whatever the worker has made of the event by now; the index may refuse it.
MarkEnqueued(s) ==
    /\ At(s, "mark")
    /\ IF IndexAllows(task[s].event) THEN Set(task[s].event, "ENQUEUED") ELSE UNCHANGED outbox
    /\ Goto(s, "release")
    /\ UNCHANGED <<invoice, queue, lock, history>>

ReleaseSender(s) ==
    /\ At(s, "release")
    /\ GiveBack(s)
    /\ task' = [task EXCEPT ![s] = Idle]
    /\ UNCHANGED <<invoice, outbox, queue, history>>

-----------------------------------------------------------------------------
(***************************************************************************)
(* A job.  The event is looked at before the lock is taken.                *)
(***************************************************************************)
TakeJob(w) ==
    /\ main.step # "down"
    /\ At(w, "idle")
    /\ \E e \in Events :
          /\ job[e].state = "waiting"
          /\ job' = [job EXCEPT ![e].state = "active", ![e].runner = w]
          /\ task' = [task EXCEPT ![w] = Taken(e)]
    /\ UNCHANGED <<invoice, outbox, lock, main, history>>

\* Slip: only events marked as queued are worked on.
LoadQueued(w) ==
    /\ At(w, "load")
    /\ Goto(w, IF outbox[task[w].event].status # "ENQUEUED" THEN "succeed" ELSE "lock")
    /\ UNCHANGED <<invoice, outbox, queue, lock, history>>

Load(w) ==
    /\ At(w, "load")
    /\ Goto(w, IF outbox[task[w].event].status = "COMPLETED" THEN "succeed" ELSE "lock")
    /\ UNCHANGED <<invoice, outbox, queue, lock, history>>

\* Slip: a held lock stops no job.
LockIgnored(w) ==
    /\ At(w, "lock") /\ w \in Workers
    /\ Goto(w, "process")
    /\ UNCHANGED <<invoice, outbox, queue, lock, history>>

LockToProcess(w) ==
    /\ At(w, "lock") /\ w \in Workers
    /\ \/ Proceed(w, "process")
       \/ Lease!Busy /\ Goto(w, "throw")
    /\ UNCHANGED <<invoice, outbox, queue, history>>

MarkProcessing(w) ==
    /\ At(w, "process")
    /\ IF IndexAllows(task[w].event)
       THEN Set(task[w].event, "PROCESSING") /\ Goto(w, "read")
       ELSE Goto(w, "failing") /\ UNCHANGED outbox
    /\ UNCHANGED <<invoice, queue, lock, history>>

ReadInvoice(w) ==
    /\ At(w, "read")
    /\ task' = [task EXCEPT ![w].step = "mail", ![w].seen = status]
    /\ UNCHANGED <<invoice, outbox, queue, lock, history>>

OneMore(e) == mails' = [mails EXCEPT ![e] = IF @ < 2 THEN @ + 1 ELSE 2]

\* Slip: the provider's refusal is not noticed.
RefusalMissed(w) ==
    /\ At(w, "mail")
    /\ \/ OneMore(task[w].event)
       \/ "mail" \in Faults /\ UNCHANGED mails
    /\ Goto(w, "issue")
    /\ UNCHANGED <<invoice, outbox, queue, lock, done>>

SendMail(w) ==
    /\ At(w, "mail")
    /\ \/ OneMore(task[w].event) /\ Goto(w, "issue")
       \/ /\ "mail" \in Faults
          /\ OneMore(task[w].event) \/ UNCHANGED mails
          /\ Goto(w, "failure")
    /\ UNCHANGED <<invoice, outbox, queue, lock, done>>

\* The invoice is issued if it was a draft when it was read.
Issue(w) ==
    /\ At(w, "issue")
    /\ emailStatus' = "SENT"
    /\ status' = IF task[w].seen = "DRAFT" THEN "SENT" ELSE status
    /\ Goto(w, "complete")
    /\ UNCHANGED <<outbox, queue, lock, history>>

RecordFailure(w) ==
    /\ At(w, "failure")
    /\ emailStatus' = "FAILED"
    /\ Goto(w, "failing")
    /\ UNCHANGED <<status, outbox, queue, lock, history>>

MarkCompleted(w) ==
    /\ At(w, "complete")
    /\ Set(task[w].event, "COMPLETED")
    /\ done' = done \cup {task[w].event}
    /\ Goto(w, "succeed")
    /\ UNCHANGED <<invoice, queue, lock, mails>>

\* The event waits again, from a later time on.
MarkFailed(w) ==
    /\ At(w, "failing")
    /\ IF IndexAllows(task[w].event)
       THEN outbox' = [outbox EXCEPT ![task[w].event] = [status |-> "PENDING", available |-> FALSE]]
       ELSE UNCHANGED outbox
    /\ Goto(w, "throw")
    /\ UNCHANGED <<invoice, queue, lock, history>>

(***************************************************************************)
(* Where a failed statement takes a handler: a request to its finally, a   *)
(* job to the catch of the mail, then to that of the event, then out.  An  *)
(* issued invoice still has its audit entry to write.                      *)
(***************************************************************************)
OnError == [
    find    |-> {"release"}, create   |-> {"release"}, mark    |-> {"release"},
    load    |-> {"throw"},   process  |-> {"failing"}, read    |-> {"failing"},
    issue   |-> {"failure"}, complete |-> {"failure", "failing"},
    failure |-> {"failing"}, failing  |-> {"throw"}]

StatementFails(h) ==
    /\ "db" \in Faults
    /\ task[h].step \in DOMAIN OnError
    /\ \E next \in OnError[task[h].step] : Goto(h, next)
    /\ UNCHANGED <<invoice, outbox, queue, lock, history>>

\* Slip: failed attempts are not counted.
EndedUncounted(j, step) ==
    [j EXCEPT !.state = IF step = "succeed" THEN "completed" ELSE "delayed", !.runner = Nil]

Ended(j, step) ==
    IF step = "succeed" THEN [j EXCEPT !.state = "completed", !.runner = Nil]
    ELSE [j EXCEPT !.made = @ + 1, !.runner = Nil,
                   !.state = IF j.made + 1 < MaxAttempts THEN "delayed" ELSE "failed"]

\* The lock goes back, and BullMQ hears of it unless it gave the job away.
EndJob(w) ==
    /\ At(w, "succeed") \/ At(w, "throw")
    /\ GiveBack(w)
    /\ LET e == task[w].event
       IN  job' = IF job[e].runner = w THEN [job EXCEPT ![e] = Ended(@, task[w].step)] ELSE job
    /\ task' = [task EXCEPT ![w] = Idle]
    /\ UNCHANGED <<invoice, outbox, main, history>>

-----------------------------------------------------------------------------
(***************************************************************************)
(* The worker process: the queue is served from the start, while the       *)
(* stored events that wait are handed over one after another.              *)
(***************************************************************************)
Recoverable ==
    {e \in Events : outbox[e].status \in {"PENDING", "ENQUEUED"} /\ outbox[e].available}

StartWorker ==
    /\ main.step = "down"
    /\ main' = [step |-> "recover", todo |-> Recoverable, event |-> Nil]
    /\ UNCHANGED <<invoice, outbox, job, lock, task, history>>

Recover ==
    /\ main.step = "recover"
    /\ \/ main.todo = {} /\ main' = [main EXCEPT !.step = "ready"] /\ UNCHANGED job
       \/ \E e \in main.todo :
             \/ AddJob(e) /\ main' = [main EXCEPT !.step = "mark", !.event = e]
             \/ /\ "redis" \in Faults
                /\ main' = [main EXCEPT !.todo = @ \ {e}]
                /\ UNCHANGED job
    /\ UNCHANGED <<invoice, outbox, lock, task, history>>

Orphans == [h \in Handlers |-> IF h \in Workers THEN Idle ELSE task[h]]

\* An error here ends the process.
MarkRecovered ==
    /\ main.step = "mark"
    /\ \/ /\ IndexAllows(main.event)
          /\ Set(main.event, "ENQUEUED")
          /\ main' = [step |-> "recover", todo |-> main.todo \ {main.event}, event |-> Nil]
          /\ UNCHANGED task
       \/ /\ ~IndexAllows(main.event) \/ "db" \in Faults
          /\ main' = Down
          /\ task' = Orphans
          /\ UNCHANGED outbox
    /\ UNCHANGED <<invoice, job, lock, history>>

-----------------------------------------------------------------------------
(***************************************************************************)
(* BullMQ, Redis, time, and what may fail.                                 *)
(***************************************************************************)
Backoff(e) ==
    /\ job[e].state = "delayed"
    /\ job' = [job EXCEPT ![e].state = "waiting"]
    /\ UNCHANGED <<invoice, outbox, lock, task, main, history>>

Abandoned(e) == task[job[e].runner].event # e

\* A job is given out again once; the second time it fails (maxStalledCount).
Stall(e) ==
    /\ job[e].state = "active"
    /\ "stall" \in Faults \/ Abandoned(e)
    /\ job' = [job EXCEPT ![e].runner = Nil,
                          ![e].stalls = 1,
                          ![e].state = IF job[e].stalls = 0 THEN "waiting" ELSE "failed"]
    /\ UNCHANGED <<invoice, outbox, lock, task, main, history>>

Clean(e) ==
    /\ "clean" \in Faults
    /\ job[e].state \in {"completed", "failed"}
    /\ job' = [job EXCEPT ![e] = NoJob]
    /\ UNCHANGED <<invoice, outbox, lock, task, main, history>>

Wipe ==
    /\ "wipe" \in Faults
    /\ job' = [e \in Events |-> NoJob]
    /\ lock' = Nil
    /\ UNCHANGED <<invoice, outbox, task, main, history>>

\* The lock of a handler that is gone always ends.
ExpireLock ==
    /\ Lease!Expire
    /\ "lease" \in Faults \/ ~task[lock].locked
    /\ UNCHANGED <<invoice, outbox, task, queue, history>>

RetryTime(e) ==
    /\ ~outbox[e].available
    /\ outbox' = [outbox EXCEPT ![e].available = TRUE]
    /\ UNCHANGED <<invoice, lock, task, queue, history>>

CrashSender(s) ==
    /\ "crash" \in Faults
    /\ ~At(s, "idle")
    /\ task' = [task EXCEPT ![s] = Idle]
    /\ UNCHANGED <<invoice, outbox, queue, lock, history>>

CrashWorker ==
    /\ "crash" \in Faults
    /\ main.step # "down"
    /\ main' = Down
    /\ task' = Orphans
    /\ UNCHANGED <<invoice, outbox, job, lock, history>>

\* What other handlers make of the invoice meanwhile.
CancelInvoice ==
    /\ status # "CANCELLED"
    /\ status' = "CANCELLED"
    /\ UNCHANGED <<emailStatus, outbox, queue, lock, task, history>>

ViewInvoice ==
    /\ status = "SENT"
    /\ status' = "VIEWED"
    /\ UNCHANGED <<emailStatus, outbox, queue, lock, task, history>>

-----------------------------------------------------------------------------
Init ==
    /\ status = "DRAFT"
    /\ emailStatus = "NOT_SENT"
    /\ outbox = [e \in Events |-> [status |-> "NONE", available |-> TRUE]]
    /\ job = [e \in Events |-> NoJob]
    /\ lock = Nil
    /\ task = [h \in Handlers |-> Idle]
    /\ main = Down
    /\ mails = [e \in Events |-> 0]
    /\ done = {}

SenderStep(s) ==
    \/ LockToSend(s) \/ FindActive(s) \/ CreateEvent(s) \/ Enqueue(s)
    \/ MarkEnqueued(s) \/ ReleaseSender(s)

JobStep(w) ==
    \/ Load(w) \/ LockToProcess(w) \/ MarkProcessing(w) \/ ReadInvoice(w) \/ SendMail(w)
    \/ Issue(w) \/ RecordFailure(w) \/ MarkCompleted(w) \/ MarkFailed(w) \/ EndJob(w)

Environment ==
    \/ Wipe \/ ExpireLock \/ CrashWorker \/ CancelInvoice \/ ViewInvoice
    \/ \E e \in Events : Backoff(e) \/ Stall(e) \/ Clean(e) \/ RetryTime(e)
    \/ \E s \in Senders : CrashSender(s)
    \/ \E h \in Handlers : StatementFails(h)

Next ==
    \/ \E s \in Senders : Send(s) \/ SenderStep(s)
    \/ \E w \in Workers : TakeJob(w) \/ JobStep(w)
    \/ StartWorker \/ Recover \/ MarkRecovered
    \/ Environment

Spec == Init /\ [][Next]_vars

(***************************************************************************)
(* What runs on by itself: the event loop of a process that is up, the     *)
(* supervisor that starts the worker again, BullMQ's timers, and leases    *)
(* whose holder is gone.  A waiting job is taken although the worker may   *)
(* die again and again (strong fairness); no fault is ever certain.        *)
(***************************************************************************)
FairSpec ==
    /\ Spec
    /\ WF_vars(StartWorker)
    /\ WF_vars(Recover \/ MarkRecovered)
    /\ \A s \in Senders : WF_vars(SenderStep(s))
    /\ \A w \in Workers : SF_vars(TakeJob(w)) /\ WF_vars(JobStep(w))
    /\ \A e \in Events : WF_vars(Backoff(e)) /\ WF_vars(Stall(e) /\ Abandoned(e))

-----------------------------------------------------------------------------
(***************************************************************************)
(* Properties.                                                             *)
(***************************************************************************)

TypeOK ==
    /\ status \in InvoiceStatuses
    /\ emailStatus \in {"NOT_SENT", "SENT", "FAILED"}
    /\ outbox \in [Events -> OutboxRow]
    /\ job \in [Events -> Job]
    /\ Lease!LockType
    /\ task \in [Handlers -> Task]
    /\ main \in Main
    /\ mails \in [Events -> 0 .. 2]
    /\ done \subseteq Events

(***************************************************************************)
(* An invoice is only issued, only shown as emailed, and an event only     *)
(* completed, after the provider accepted a mail: whatever fails, nobody   *)
(* is told that an invoice was sent when none was.                         *)
(***************************************************************************)
SentMeansMailed ==
    /\ status \in {"SENT", "VIEWED"} \/ emailStatus = "SENT" => \E e \in Events : mails[e] > 0
    /\ \A e \in done : mails[e] > 0

(***************************************************************************)
(* At most one event of the invoice is in flight, although requests look   *)
(* for one before they create theirs and the lock may be gone by then.     *)
(***************************************************************************)
AtMostOneActive == \A d, e \in Active : d = e

(***************************************************************************)
(* A job BullMQ counts as completed has delivered: retries end because the *)
(* mail went out or because the attempts did.                              *)
(***************************************************************************)
CompletedJobIsDone == \A e \in Events : job[e].state = "completed" => e \in done

(***************************************************************************)
(* While Redis answers and leases outlast their holders, one job at a time *)
(* is between looking at the invoice and recording what became of it, even *)
(* when BullMQ gives a running job out again.                              *)
(***************************************************************************)
Reliable == Faults \cap {"lease", "redis", "wipe"} = {}

Delivering == {w \in Workers : task[w].step \in
                  {"process", "read", "mail", "issue", "failure", "complete", "failing"}}

OneDelivery == \A v, w \in Delivering : v = w

(***************************************************************************)
(* A job that waits is not retried for ever nor forgotten: it completes or *)
(* uses up its attempts, also when the worker dies under it.               *)
(***************************************************************************)
JobEnds ==
    \A e \in Events : job[e].state = "waiting" ~> job[e].state \in {"completed", "failed"}

(***************************************************************************)
(* What the code and its tests say, and interleavings or faults refute.    *)
(*                                                                         *)
(* An event whose completion was recorded is not mailed again.             *)
(***************************************************************************)
NoMailAfterCompletion ==
    [][\A e \in done : mails'[e] = mails[e]]_vars

(***************************************************************************)
(* A request that is answered "already queued" leaves a job behind that    *)
(* will send the mail.                                                     *)
(***************************************************************************)
QueuedMeansJob ==
    [][\A s \in Senders : task[s].step = "find" /\ task'[s].step = "release"
          => \E e \in Active : job[e].state \in {"waiting", "active", "delayed"}]_vars

=============================================================================
