---------------------------- MODULE SpeechEngine -----------------------------
(***************************************************************************)
(* The serialized speech engine of src/src/worker.rs: concurrent calls of  *)
(* enqueue, stop, shutdown and reload_config against the one worker task   *)
(* and the job task it awaits.                                             *)
(*                                                                         *)
(* A step is what the code does atomically: one critical section, one      *)
(* atomic load or store, one send.  Nested sections (the queue lock held   *)
(* around the lock of `current`) are one step, since every other section   *)
(* that takes both takes the queue lock first.                             *)
(*                                                                         *)
(* Every job carries a waiter: `enqueue` and `enqueue_and_wait` differ     *)
(* only in whether somebody reads the outcome.  Queue depths, previews and *)
(* error texts in events are left out.                                     *)
(***************************************************************************)
EXTENDS Routing, SequencesExt

CONSTANTS
    Jobs,      \* the speak calls; a call's job has the call's identity (its Uuid)
    Stops,     \* the calls of SpeechEngine::stop
    Halts,     \* the calls of SpeechEngine::shutdown; the application makes none
    Configs,   \* the configurations the file may hold
    Requests,  \* the SpeakRequests a caller may make
    NoJob      \* None, where an Option<Uuid> or Option<CurrentJob> is expected

ASSUME ConfigsAssumption == \A c \in Configs : IsConfig(c)
ASSUME NoJobAssumption == NoJob \notin Jobs

VARIABLES
    config,     \* EngineInner.config
    registry,   \* EngineInner.registry
    queue,      \* EngineInner.queue
    notify,     \* EngineInner.notify: whether it holds a permit
    current,    \* EngineInner.current
    cancelled,  \* the jobs whose CancelToken is tripped
    state,      \* EngineInner.state: the job being spoken, NoJob when Idle
    shutdown,   \* EngineInner.shutdown
    degraded,   \* EngineInner.degraded
    events,     \* everything ever sent on EngineInner.events
    outcome,    \* what send_waiter delivered for each job
    call,       \* where each enqueue call is
    loaded,     \* the configuration each enqueue call loaded
    primary,    \* the provider each job was resolved to
    stop,       \* where each stop call is
    cleared,    \* the drained jobs a stop call still holds
    hit,        \* the cancelled_job of each stop call
    halt,       \* where each shutdown call is
    reload,     \* the configuration reload_config still has to store, if any
    recent,     \* history: the configurations that were in force, or were being
                \* put in force, since the worker took its job
    pc,         \* where the worker and its job task are
    job,        \* the job the worker took last
    snapshot,   \* the registry process_job loaded
    result      \* what became of that job, before it is reported

confVars   == <<config, registry, reload, recent>>
statusVars == <<current, state, degraded>>
callVars   == <<call, loaded, primary>>
stopVars   == <<stop, cleared, hit>>
workerVars == <<pc, job, snapshot, result>>
vars == <<confVars, queue, notify, statusVars, cancelled, shutdown, events,
          outcome, callVars, stopVars, halt, workerVars>>

-----------------------------------------------------------------------------
Outcomes == {"completed", "failed", "cancelled"}
Pending == "pending"

CallPc == {"new", "refused", "resolved", "full", "pushed", "notified", "accepted"}
StopPc == {"new", "swept", "returned"}
HaltPc == {"new", "flagged", "swept", "returned"}

\* The job task, from its spawn to the end of process_job.
TaskPc == {"registry", "select", "speaking", "started", "begin", "run", "report",
           "clear", "idle", "reply"}
\* handle_panicked_job, run by the worker itself.
PanicPc == {"panic_clear", "panic_idle", "panic_degrade", "panic_event",
            "panic_report", "panic_reply"}
WorkerPc == {"top", "pop", "park", "stopped"} \cup TaskPc \cup PanicPc

EventKinds == {"enqueued", "started", "finished", "failed", "stopped", "degraded"}
Events == [kind : EventKinds, job : Jobs \cup {NoJob}]
Event(kind, j) == [kind |-> kind, job |-> j]

Send(kind, j) == events' = Append(events, Event(kind, j))

\* Fault: notify_waiters, which leaves no permit: it is lost unless the worker
\* is parked and its await has begun.
NotifyWaiters == notify' \in {notify, notify \/ pc = "park"}

\* notify_one: wakes the parked worker, or leaves it one permit.
NotifyOne == notify' = TRUE

\* Fault: no token is tripped.
TripNothing == UNCHANGED cancelled

\* What stop and shutdown do under the locks to the current job, if any.
TripCurrent == cancelled' = cancelled \cup ({current} \ {NoJob})

\* send_waiter: take() makes the first delivery the only one.
SendWaiter(j, o) ==
    outcome' = [outcome EXCEPT ![j] = IF @ = Pending THEN o ELSE @]

TypeOK ==
    /\ config \in Configs
    /\ registry \in SUBSET Kinds
    /\ queue \in Seq(Jobs)
    /\ notify \in BOOLEAN
    /\ current \in Jobs \cup {NoJob}
    /\ cancelled \in SUBSET Jobs
    /\ state \in Jobs \cup {NoJob}
    /\ shutdown \in BOOLEAN
    /\ degraded \in BOOLEAN
    /\ events \in Seq(Events)
    /\ outcome \in [Jobs -> Outcomes \cup {Pending}]
    /\ call \in [Jobs -> CallPc]
    /\ loaded \in [Jobs -> Configs]
    /\ primary \in [Jobs -> Kinds]
    /\ stop \in [Stops -> StopPc]
    /\ cleared \in [Stops -> Seq(Jobs)]
    /\ hit \in [Stops -> Jobs \cup {NoJob}]
    /\ halt \in [Halts -> HaltPc]
    /\ reload \in SUBSET Configs /\ recent \in SUBSET Configs
    /\ pc \in WorkerPc
    /\ job \in Jobs \cup {NoJob}
    /\ snapshot \in SUBSET Kinds
    /\ result \in Outcomes \cup {Pending}

Init ==
    /\ config \in Configs
    /\ registry = Registry(config)
    /\ queue = <<>>
    /\ notify = FALSE
    /\ current = NoJob
    /\ cancelled = {}
    /\ state = NoJob
    /\ shutdown = FALSE
    /\ degraded = FALSE
    /\ events = <<>>
    /\ outcome = [j \in Jobs |-> Pending]
    /\ call = [j \in Jobs |-> "new"]
    /\ loaded = [j \in Jobs |-> config]
    /\ primary = [j \in Jobs |-> "apple"]
    /\ stop = [s \in Stops |-> "new"]
    /\ cleared = [s \in Stops |-> <<>>]
    /\ hit = [s \in Stops |-> NoJob]
    /\ halt = [h \in Halts |-> "new"]
    /\ reload = {} /\ recent = {}
    /\ pc = "top"
    /\ job = NoJob
    /\ snapshot = {}
    /\ result = Pending

-----------------------------------------------------------------------------
(* enqueue / enqueue_and_wait, one call per job *)

At(j, here, next) == call[j] = here /\ call' = [call EXCEPT ![j] = next]

\* config.load() and resolve_speech on what it returned.
Resolve(j, request) ==
    /\ \/ /\ Resolvable(config, request)
          /\ At(j, "new", "resolved")
          /\ loaded' = [loaded EXCEPT ![j] = config]
          /\ primary' = [primary EXCEPT ![j] = ResolvedProvider(config, request)]
       \/ /\ ~Resolvable(config, request)
          /\ At(j, "new", "refused")
          /\ UNCHANGED <<loaded, primary>>
    /\ UNCHANGED <<confVars, queue, notify, statusVars, cancelled, shutdown,
                   events, outcome, stopVars, halt, workerVars>>

\* Fault: the limit compared with > instead of >=.
IsFullLate(j) == loaded[j].capacity > 0 /\ Len(queue) > loaded[j].capacity

\* Backpressure, against the configuration the call loaded.
IsFull(j) == loaded[j].capacity > 0 /\ Len(queue) >= loaded[j].capacity

\* The critical section: the capacity check and push_back under one lock.
Push(j) ==
    /\ \/ IsFull(j) /\ At(j, "resolved", "full") /\ UNCHANGED queue
       \/ ~IsFull(j) /\ At(j, "resolved", "pushed") /\ queue' = Append(queue, j)
    /\ UNCHANGED <<confVars, notify, statusVars, cancelled, shutdown, events,
                   outcome, loaded, primary, stopVars, halt, workerVars>>

NotifyPushed(j) ==
    /\ At(j, "pushed", "notified")
    /\ NotifyOne
    /\ UNCHANGED <<confVars, queue, statusVars, cancelled, shutdown, events,
                   outcome, loaded, primary, stopVars, halt, workerVars>>

\* The Enqueued event, after the lock is gone and the worker is awake.
Announce(j) ==
    /\ At(j, "notified", "accepted")
    /\ Send("enqueued", j)
    /\ UNCHANGED <<confVars, queue, notify, statusVars, cancelled, shutdown,
                   outcome, loaded, primary, stopVars, halt, workerVars>>

EnqueueStep(j) == Push(j) \/ NotifyPushed(j) \/ Announce(j)

-----------------------------------------------------------------------------
(* stop *)

\* Faults: the drained jobs are dropped with their waiters; the queue is copied.
DrainUnanswered(s) == queue' = <<>> /\ UNCHANGED cleared
DrainCopy(s) == cleared' = [cleared EXCEPT ![s] = queue] /\ UNCHANGED queue

\* queue.drain(..), the jobs kept by the call.
Drain(s) == cleared' = [cleared EXCEPT ![s] = queue] /\ queue' = <<>>

\* The critical section: trip the current token and drain the queue.
Sweep(s) ==
    /\ stop[s] = "new"
    /\ stop' = [stop EXCEPT ![s] = "swept"]
    /\ hit' = [hit EXCEPT ![s] = current]
    /\ TripCurrent
    /\ Drain(s)
    /\ UNCHANGED <<confVars, notify, statusVars, shutdown, events, outcome,
                   callVars, halt, workerVars>>

\* One turn of the loop that answers the waiters of the drained jobs.
AnswerCleared(s) ==
    /\ cleared[s] # <<>>
    /\ SendWaiter(Head(cleared[s]), "cancelled")
    /\ cleared' = [cleared EXCEPT ![s] = Tail(@)]
    /\ UNCHANGED <<confVars, queue, notify, statusVars, cancelled, shutdown,
                   events, callVars, stop, hit, halt, workerVars>>

\* The Stopped event, with the job that was current in the critical section.
AnnounceStop(s) ==
    /\ stop[s] = "swept" /\ cleared[s] = <<>>
    /\ stop' = [stop EXCEPT ![s] = "returned"]
    /\ Send("stopped", hit[s])
    /\ UNCHANGED <<confVars, queue, notify, statusVars, cancelled, shutdown,
                   outcome, callVars, cleared, hit, halt, workerVars>>

StopStep(s) == AnswerCleared(s) \/ AnnounceStop(s)

-----------------------------------------------------------------------------
(* shutdown *)

RaiseShutdown(h) ==
    /\ halt[h] = "new"
    /\ halt' = [halt EXCEPT ![h] = "flagged"]
    /\ shutdown' = TRUE
    /\ UNCHANGED <<confVars, queue, notify, statusVars, cancelled, events,
                   outcome, callVars, stopVars, workerVars>>

\* Only the current job is cancelled; the queue is left as it is.
CancelCurrent(h) ==
    /\ halt[h] = "flagged"
    /\ halt' = [halt EXCEPT ![h] = "swept"]
    /\ TripCurrent
    /\ UNCHANGED <<confVars, queue, notify, statusVars, shutdown, events,
                   outcome, callVars, stopVars, workerVars>>

NotifyShutdown(h) ==
    /\ halt[h] = "swept"
    /\ halt' = [halt EXCEPT ![h] = "returned"]
    /\ NotifyOne
    /\ UNCHANGED <<confVars, queue, statusVars, cancelled, shutdown, events,
                   outcome, callVars, stopVars, workerVars>>

HaltStep(h) == CancelCurrent(h) \/ NotifyShutdown(h)

-----------------------------------------------------------------------------
(* reload_config: one caller, the config watcher or the event loop *)

StoreRegistry(c) ==
    /\ reload = {}
    /\ c # config
    /\ registry' = Registry(c)
    /\ reload' = {c}
    /\ recent' = recent \cup {c}
    /\ UNCHANGED <<config, queue, notify, statusVars, cancelled, shutdown,
                   events, outcome, callVars, stopVars, halt, workerVars>>

StoreConfig ==
    /\ \E c \in reload : config' = c
    /\ reload' = {}
    /\ UNCHANGED <<registry, recent, queue, notify, statusVars, cancelled, shutdown,
                   events, outcome, callVars, stopVars, halt, workerVars>>

-----------------------------------------------------------------------------
(* worker_loop *)

Goto(here, next) == pc = here /\ pc' = next

calls == <<callVars, stopVars, halt, shutdown, cancelled>>
outside == <<confVars, calls>>

\* The top of the loop: stop once the flag is seen.
CheckShutdown ==
    /\ Goto("top", IF shutdown THEN "stopped" ELSE "pop")
    /\ UNCHANGED <<outside, queue, notify, statusVars, events, outcome, job,
                   snapshot, result>>

\* Faults: the job is left in the queue; the popped job is not made current.
TakePeeking == job' = Head(queue) /\ current' = Head(queue) /\ UNCHANGED queue
TakeUnregistered == job' = Head(queue) /\ queue' = Tail(queue) /\ UNCHANGED current

\* pop_front and, before the lock is released, current with a fresh token.
Take == job' = Head(queue) /\ queue' = Tail(queue) /\ current' = Head(queue)

\* The critical section.  An empty queue sends the worker to park.
Pop ==
    /\ \/ /\ queue # <<>> /\ Goto("pop", "registry") /\ Take
          /\ result' = Pending /\ recent' = {config} \cup reload
       \/ /\ queue = <<>> /\ Goto("pop", "park")
          /\ UNCHANGED <<job, queue, current, result, recent>>
    /\ UNCHANGED <<config, registry, reload, calls, notify, state, degraded, events,
                   outcome, snapshot>>

\* notified().await: consumes the permit.
Wake ==
    /\ notify
    /\ Goto("park", "top")
    /\ notify' = FALSE
    /\ UNCHANGED <<outside, queue, statusVars, events, outcome, job, snapshot,
                   result>>

-----------------------------------------------------------------------------
(* process_job, awaited by the worker *)

\* Fault: the registry is loaded once and kept.
LoadRegistryOnce ==
    /\ Goto("registry", "select")
    /\ snapshot' = IF snapshot = {} THEN registry ELSE snapshot
    /\ UNCHANGED <<outside, queue, notify, statusVars, events, outcome, job, result>>

LoadRegistry ==
    /\ Goto("registry", "select")
    /\ snapshot' = registry
    /\ UNCHANGED <<outside, queue, notify, statusVars, events, outcome, job, result>>

\* Fault: the order is that of the configuration the call was resolved with.
ChosenByCall == Select(snapshot, primary[job], loaded[job].order)

\* config.load_full() and registry.select: a later load than the registry's.
Chosen == Select(snapshot, primary[job], config.order)

SelectProvider ==
    /\ pc = "select"
    /\ \/ Chosen # NoProvider /\ pc' = "speaking" /\ UNCHANGED result
       \/ Chosen = NoProvider /\ pc' = "report" /\ result' = "failed"
    /\ UNCHANGED <<outside, queue, notify, statusVars, events, outcome, job, snapshot>>

SetSpeaking ==
    /\ Goto("speaking", "started")
    /\ state' = job
    /\ UNCHANGED <<outside, queue, notify, current, degraded, events, outcome,
                   job, snapshot, result>>

AnnounceStart ==
    /\ Goto("started", "begin")
    /\ Send("started", job)
    /\ UNCHANGED <<outside, queue, notify, statusVars, outcome, job, snapshot, result>>

\* Fault: a cancelled run is reported like a failed one.
EndRunReporting(r) == pc' = "report" /\ result' = r

\* What run_job returned: only a cancelled job has nothing to report.
EndRun(r) == pc' = (IF r = "cancelled" THEN "clear" ELSE "report") /\ result' = r

\* Every provider looks at the token before it starts.
BeginSynthesis ==
    /\ pc = "begin"
    /\ \/ job \in cancelled /\ EndRun("cancelled")
       \/ job \notin cancelled /\ pc' = "run" /\ UNCHANGED result
    /\ UNCHANGED <<outside, queue, notify, statusVars, events, outcome, job, snapshot>>

\* run_job returns Ok or Failed, whatever the token says by then ...
FinishRun ==
    /\ pc = "run"
    /\ \E r \in {"completed", "failed"} : EndRun(r)
    /\ UNCHANGED <<outside, queue, notify, statusVars, events, outcome, job, snapshot>>

\* ... or it notices the token and returns Cancelled ...
NoticeCancel ==
    /\ pc = "run" /\ job \in cancelled
    /\ EndRun("cancelled")
    /\ UNCHANGED <<outside, queue, notify, statusVars, events, outcome, job, snapshot>>

\* ... or the job task panics and the worker finds a JoinError.
PanicRun ==
    /\ Goto("run", "panic_clear")
    /\ result' = "failed"
    /\ UNCHANGED <<outside, queue, notify, statusVars, events, outcome, job, snapshot>>

\* Fault: failures are logged and not announced.
AnnounceSuccess ==
    IF result = "completed" THEN Send("finished", job) ELSE UNCHANGED events

AnnounceEnd == Send(IF result = "completed" THEN "finished" ELSE "failed", job)

\* Finished or Failed; a cancelled job announces nothing.
Report ==
    /\ \/ Goto("report", "clear")
       \/ Goto("panic_report", "panic_reply")
    /\ AnnounceEnd
    /\ UNCHANGED <<outside, queue, notify, statusVars, outcome, job, snapshot, result>>

\* The end of process_job, and the start of handle_panicked_job.
ClearCurrent ==
    /\ \/ Goto("clear", "idle") /\ current' = NoJob
       \/ /\ Goto("panic_clear", "panic_idle")
          /\ current' = IF current = job THEN NoJob ELSE current
    /\ UNCHANGED <<outside, queue, notify, state, degraded, events, outcome, job,
                   snapshot, result>>

\* Fault: the state is left at Speaking.
StaySpeaking == UNCHANGED state

BecomeIdle == state' = NoJob

SetIdle ==
    /\ \/ Goto("idle", "reply")
       \/ Goto("panic_idle", "panic_degrade")
    /\ BecomeIdle
    /\ UNCHANGED <<outside, queue, notify, current, degraded, events, outcome,
                   job, snapshot, result>>

\* mark_degraded: the flag, then the event.
MarkDegraded ==
    /\ Goto("panic_degrade", "panic_event")
    /\ degraded' = TRUE
    /\ UNCHANGED <<outside, queue, notify, current, state, events, outcome, job,
                   snapshot, result>>

AnnounceDegraded ==
    /\ Goto("panic_event", "panic_report")
    /\ Send("degraded", NoJob)
    /\ UNCHANGED <<outside, queue, notify, statusVars, outcome, job, snapshot, result>>

\* Fault: the waiter of a panicked job is lost with the job task.
ReplyUnlessPanicked ==
    /\ \/ Goto("reply", "top") /\ SendWaiter(job, result)
       \/ Goto("panic_reply", "top") /\ UNCHANGED outcome
    /\ UNCHANGED <<outside, queue, notify, statusVars, events, job, snapshot, result>>

Reply ==
    /\ \/ Goto("reply", "top")
       \/ Goto("panic_reply", "top")
    /\ SendWaiter(job, result)
    /\ UNCHANGED <<outside, queue, notify, statusVars, events, job, snapshot, result>>

\* What the worker and its job task do by themselves.
WorkerStep ==
    \/ CheckShutdown \/ Pop \/ Wake
    \/ LoadRegistry \/ SelectProvider \/ SetSpeaking \/ AnnounceStart
    \/ BeginSynthesis
    \/ Report \/ ClearCurrent \/ SetIdle
    \/ MarkDegraded \/ AnnounceDegraded \/ Reply

\* How a provider or the audio device ends a run.
ProviderStep == FinishRun \/ NoticeCancel \/ PanicRun

Next ==
    \/ \E j \in Jobs : (\E r \in Requests : Resolve(j, r)) \/ EnqueueStep(j)
    \/ \E s \in Stops : Sweep(s) \/ StopStep(s)
    \/ \E h \in Halts : RaiseShutdown(h) \/ HaltStep(h)
    \/ (\E c \in Configs : StoreRegistry(c)) \/ StoreConfig
    \/ WorkerStep
    \/ ProviderStep

Spec == Init /\ [][Next]_vars

-----------------------------------------------------------------------------
(* Fairness.  A call that has begun runs to its end (it has no await), the  *)
(* runtime schedules the worker, and, in FairSpec, a provider ends its run. *)

CallFairness ==
    /\ \A j \in Jobs : WF_vars(EnqueueStep(j))
    /\ \A s \in Stops : WF_vars(StopStep(s))
    /\ \A h \in Halts : WF_vars(HaltStep(h))
    /\ WF_vars(StoreConfig)

FairSpec == Spec /\ CallFairness /\ WF_vars(WorkerStep) /\ WF_vars(ProviderStep)

-----------------------------------------------------------------------------
(* Properties *)

Accepted(j) == call[j] \in {"pushed", "notified", "accepted"}
InQueue(j) == Contains(queue, j)
InFlight(j) == job = j /\ pc \in TaskPc \cup PanicPc
HeldBy(s, j) == Contains(cleared[s], j)

\* The part of a job's flight during which stop and shutdown must find it.
CurrentPc == (TaskPc \ {"idle", "reply"}) \cup {"panic_clear"}

\* No accepted job is lost: until its waiter is answered it is in the queue,
\* with the worker, or among the drained jobs of a stop call (worker.rs: pop
\* and current under one lock, drain collected before the lock is released).
NoJobLost ==
    \A j \in Jobs : Accepted(j) /\ outcome[j] = Pending =>
        InQueue(j) \/ InFlight(j) \/ \E s \in Stops : HeldBy(s, j)

\* No job has two owners, and an answered job has none: the worker never runs
\* a job that a stop call cleared, and no job is queued or answered twice.
NoJobTwice ==
    /\ IsInjective(queue)
    /\ \A j \in Jobs :
        /\ InQueue(j) => ~InFlight(j)
        /\ \A s \in Stops : HeldBy(s, j) => ~InQueue(j) /\ ~InFlight(j)
        /\ \A s, t \in Stops : HeldBy(s, j) /\ HeldBy(t, j) => s = t
        /\ outcome[j] # Pending =>
            ~InQueue(j) /\ ~InFlight(j) /\ \A s \in Stops : ~HeldBy(s, j)

\* A job the worker is executing is always the one stop and shutdown cancel.
CurrentIsVisible == pc \in CurrentPc => current = job

\* The critical section of stop misses nobody: whatever was accepted before it
\* has been answered, is drained, is past its run, or finds its token tripped.
StopReachesEveryJob ==
    [][\A s \in Stops, j \in Jobs :
          stop[s] = "new" /\ stop'[s] = "swept" /\ Accepted(j) =>
            \/ outcome[j] # Pending
            \/ \E t \in Stops : HeldBy(t, j)'
            \/ j \in cancelled'
            \/ InFlight(j) /\ pc \notin CurrentPc]_vars

\* A parked worker with something to do will be woken: the permit is there, or
\* the call that pushed a waiting job (or raised the flag) has yet to notify.
NoLostWakeup ==
    pc = "park" =>
        /\ queue # <<>> => notify \/ \E j \in Jobs : InQueue(j) /\ call[j] = "pushed"
        /\ shutdown => notify \/ \E h \in Halts : halt[h] \in {"flagged", "swept"}

\* Who has its outcome finds the engine done with the job: the status of the
\* engine no longer names it and a stop can no longer claim to cancel it.
ReplyAfterIdle ==
    \A j \in Jobs : outcome[j] # Pending => current # j /\ state # j

Sent(kind, j) == Contains(events, Event(kind, j))

\* What listeners of the event stream saw agrees with what the waiter is told:
\* the terminal event precedes the answer, and a cancelled job has none.
OutcomeMatchesEvents ==
    \A j \in Jobs :
        /\ outcome[j] = "completed" => Sent("finished", j)
        /\ outcome[j] = "failed" => Sent("failed", j)
        /\ outcome[j] = "cancelled" => ~Sent("finished", j) /\ ~Sent("failed", j)

\* A job has at most one started and one finished or failed, in this order.
LifecycleOrder ==
    \A a, b \in DOMAIN events :
        /\ a < b /\ events[a].job = events[b].job
        /\ {events[a].kind, events[b].kind} \subseteq {"started", "finished", "failed"}
        => events[a].kind = "started" /\ events[b].kind # "started"

\* Utterances never overlap as listeners see them: a job is announced only once
\* the one announced before it has finished, failed or been cancelled.
UtterancesNeverOverlap ==
    \A a, b \in DOMAIN events :
        /\ a < b
        /\ events[a].kind = "started" /\ events[b].kind = "started"
        => \/ events[a].job \in cancelled
           \/ \E i \in a .. b : /\ events[i].kind \in {"finished", "failed"}
                                /\ events[i].job = events[a].job

\* Backpressure holds however calls race and reloads change the limit: no job
\* waits at a place beyond the limit its call loaded (0 being no limit).
QueueWithinLimit ==
    \A i \in DOMAIN queue :
        LET limit == loaded[queue[i]].capacity IN limit > 0 => i <= limit

\* Every accepted job is answered, whatever panics, fails or finds its token tripped
\* by a shutdown, unless the engine is shut down: then a job still in the queue
\* never is.  (What a stop does to a job is NoJobLost and StopReachesEveryJob.)
AcceptedJobsAreAnswered ==
    \A j \in Jobs : Accepted(j) ~>
        outcome[j] # Pending \/ (pc = "stopped" /\ InQueue(j))

\* reload_config takes effect on the next job: however reloads fall between the
\* pop and the two loads, the backend of a job is found with a registry and an
\* order that were in force, or were being put in force, once the worker had
\* taken the job, and never with what an earlier job or the call had loaded.
NextJobSeesReload ==
    [][pc = "select" /\ pc' # pc =>
          \E c, d \in recent : Chosen = Select(Registry(c), primary[job], d.order)]_vars

\* The comment of reload_config: "Atomically swap in a new configuration".  The
\* backend of a job is the one that some single configuration finds for it.
SwapIsAtomic ==
    [][pc = "select" /\ pc' # pc =>
          \E c \in recent : Chosen = Select(Registry(c), primary[job], c.order)]_vars

\* A raised shutdown flag ends the worker.
ShutdownEndsWorker == shutdown ~> pc = "stopped"

-----------------------------------------------------------------------------
(* The inductive invariants under these properties; see SpeechEngineProofs. *)

\* What the steps of one job rely on: the worker always has the job it works
\* for, `current` is set exactly while a stop must find it, only that job can
\* be shown as spoken, and an end is decided before it is reported.
SpeakingPc == {"started", "begin", "run", "report", "clear", "idle",
               "panic_clear", "panic_idle"}
DecidedPc == {"report", "clear", "idle", "reply"} \cup PanicPc

WorkerInv ==
    /\ pc \in TaskPc \cup PanicPc => job \in Jobs
    /\ CurrentIsVisible
    /\ pc \notin CurrentPc => current = NoJob
    /\ state # NoJob => state = job /\ pc \in SpeakingPc
    /\ pc \in DecidedPc => result # Pending

\* Where each job is: nowhere before it is accepted or once it is answered, and
\* until then in exactly one place.
Owned(j) == InQueue(j) \/ InFlight(j) \/ \E s \in Stops : HeldBy(s, j)

CustodyInv ==
    /\ NoJobLost
    /\ NoJobTwice
    /\ \A j \in Jobs : ~Accepted(j) => ~Owned(j) /\ outcome[j] = Pending
    /\ \A s \in Stops : IsInjective(cleared[s])
    /\ \A s \in Stops : stop[s] = "new" => cleared[s] = <<>>

\* A flag the worker may have missed, because it looked before it was raised,
\* is announced before the worker can sleep on it.
WakeupInv ==
    /\ NoLostWakeup
    /\ shutdown /\ pc \in {"pop", "park"} =>
        notify \/ \E h \in Halts : halt[h] \in {"flagged", "swept"}

\* A registry is never older than the configuration it is stored before, and what
\* a job has loaded, or is about to, came into force no earlier than its pop.
RegistryInv ==
    /\ reload = {} => registry = Registry(config)
    /\ \A c \in reload : registry = Registry(c)
    /\ pc \in {"registry", "select"} => {config} \cup reload \subseteq recent
    /\ pc = "select" => \E c \in recent : snapshot = Registry(c)

\* Only a tripped token makes a run end as cancelled, and only shutdown calls
\* that have raised the flag go on to trip it.
CancelInv ==
    /\ pc \in DecidedPc /\ result = "cancelled" => job \in cancelled
    /\ pc \in {"report"} \cup PanicPc => result # "cancelled"
    /\ \A h \in Halts : halt[h] # "new" => shutdown

\* The steps at which a job may have been announced, and those at which its end,
\* if it is announced at all, has been.
SpokenPc == {"begin", "run", "report", "clear", "idle", "reply"} \cup PanicPc
ToldPc == {"clear", "idle", "reply", "panic_reply"}

Ended(j) == Sent("finished", j) \/ Sent("failed", j)

\* The stream speaks only of jobs the worker has taken, of the one in flight no
\* more than it has done, and of its end what the waiter is about to be told.
EventsInv ==
    /\ OutcomeMatchesEvents
    /\ LifecycleOrder
    /\ \A j \in Jobs :
        /\ Sent("started", j) \/ Ended(j) => outcome[j] # Pending \/ InFlight(j)
        /\ InFlight(j) /\ Sent("started", j) => pc \in SpokenPc
        /\ InFlight(j) /\ Ended(j) => pc \in ToldPc
        /\ InFlight(j) /\ pc \in ToldPc =>
            /\ result = "completed" => Sent("finished", j)
            /\ result = "failed" => Sent("failed", j)
            /\ result = "cancelled" => ~Ended(j)

\* Whatever was announced is cancelled, over, or what the worker is at.
IsOver(a, b) ==
    \E i \in a .. b : events[i].kind \in {"finished", "failed"} /\ events[i].job = events[a].job

UtteranceInv ==
    /\ UtterancesNeverOverlap
    /\ \A a \in DOMAIN events : events[a].kind = "started" =>
        \/ events[a].job \in cancelled
        \/ IsOver(a, Len(events))
        \/ InFlight(events[a].job) /\ pc \in SpokenPc \ ToldPc
=============================================================================
