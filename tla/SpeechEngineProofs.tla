------------------------- MODULE SpeechEngineProofs --------------------------
(***************************************************************************)
(* What TLAPS proves of SpeechEngine for every number of calls, every set  *)
(* of configurations and every request.                                    *)
(***************************************************************************)
EXTENDS SpeechEngine, TLAPS

-----------------------------------------------------------------------------
(* What VecDeque::push_back, pop_front and drain do to the members of a queue *)

\* push_back adds its element and keeps the others.
LEMMA ContainsAppend ==
    ASSUME NEW S, NEW q \in Seq(S), NEW e \in S, NEW x
    PROVE  Contains(Append(q, e), x) <=> Contains(q, x) \/ x = e
<1>1. Len(Append(q, e)) = Len(q) + 1 /\ Len(q) \in Nat
  OBVIOUS
<1>2. \A i \in 1 .. Len(q) : Append(q, e)[i] = q[i]
  OBVIOUS
<1>3. Append(q, e)[Len(q) + 1] = e
  OBVIOUS
<1>4. ASSUME Contains(q, x) PROVE Contains(Append(q, e), x)
  <2>1. PICK i \in 1 .. Len(q) : q[i] = x
    BY <1>4 DEF Contains
  <2>2. i \in 1 .. Len(Append(q, e)) /\ Append(q, e)[i] = x
    BY <1>1, <1>2, <2>1
  <2> QED
    BY <2>2 DEF Contains
<1>5. ASSUME x = e PROVE Contains(Append(q, e), x)
  BY <1>1, <1>3, <1>5 DEF Contains
<1>6. ASSUME Contains(Append(q, e), x), x # e PROVE Contains(q, x)
  <2>1. PICK i \in 1 .. Len(Append(q, e)) : Append(q, e)[i] = x
    BY <1>6 DEF Contains
  <2>2. i \in 1 .. Len(q)
    BY <1>1, <1>3, <1>6, <2>1
  <2> QED
    BY <1>2, <2>1, <2>2 DEF Contains
<1> QED
  BY <1>4, <1>5, <1>6

\* pop_front removes one occurrence of the head.
LEMMA ContainsTail ==
    ASSUME NEW S, NEW q \in Seq(S), q # <<>>, NEW x
    PROVE  Contains(q, x) <=> Contains(Tail(q), x) \/ x = Head(q)
<1>1. Len(q) \in Nat \ {0} /\ Len(Tail(q)) = Len(q) - 1 /\ Head(q) = q[1]
  OBVIOUS
<1>2. \A i \in 1 .. Len(Tail(q)) : Tail(q)[i] = q[i + 1]
  OBVIOUS
<1>3. ASSUME Contains(q, x), x # Head(q) PROVE Contains(Tail(q), x)
  <2>1. PICK i \in 1 .. Len(q) : q[i] = x
    BY <1>3 DEF Contains
  <2>2. i - 1 \in 1 .. Len(Tail(q)) /\ (i - 1) + 1 = i
    BY <1>1, <1>3, <2>1
  <2>3. Tail(q)[i - 1] = x
    BY <1>2, <2>1, <2>2
  <2> QED
    BY <2>2, <2>3 DEF Contains
<1>4. ASSUME Contains(Tail(q), x) PROVE Contains(q, x)
  <2>1. PICK i \in 1 .. Len(Tail(q)) : Tail(q)[i] = x
    BY <1>4 DEF Contains
  <2>2. i + 1 \in 1 .. Len(q) /\ q[i + 1] = x
    BY <1>1, <1>2, <2>1
  <2> QED
    BY <2>2 DEF Contains
<1>5. ASSUME x = Head(q) PROVE Contains(q, x)
  BY <1>1, <1>5 DEF Contains
<1> QED
  BY <1>3, <1>4, <1>5

\* A new element keeps the members distinct.
LEMMA InjectiveAppend ==
    ASSUME NEW S, NEW q \in Seq(S), NEW e \in S, IsInjective(q), ~Contains(q, e)
    PROVE  IsInjective(Append(q, e))
<1> DEFINE r == Append(q, e)
<1>1. Len(q) \in Nat /\ DOMAIN q = 1 .. Len(q) /\ DOMAIN r = 1 .. (Len(q) + 1)
  OBVIOUS
<1>2. \A i \in 1 .. Len(q) : r[i] = q[i]
  OBVIOUS
<1>3. r[Len(q) + 1] = e
  OBVIOUS
<1>4. \A i \in 1 .. Len(q) : q[i] # e
  BY DEF Contains
<1> SUFFICES ASSUME NEW a \in DOMAIN r, NEW b \in DOMAIN r, r[a] = r[b]
             PROVE  a = b
  BY DEF IsInjective
<1>5. CASE a \in 1 .. Len(q) /\ b \in 1 .. Len(q)
  BY <1>1, <1>2, <1>5 DEF IsInjective
<1>6. CASE a \notin 1 .. Len(q) \/ b \notin 1 .. Len(q)
  <2>1. \A i \in DOMAIN r : i \notin 1 .. Len(q) => i = Len(q) + 1
    BY <1>1
  <2> HIDE DEF r
  <2> QED
    BY <1>2, <1>3, <1>4, <1>6, <2>1
<1> QED
  BY <1>5, <1>6

\* Popping the head of a queue of distinct members leaves it out of the rest.
LEMMA InjectiveTail ==
    ASSUME NEW S, NEW q \in Seq(S), q # <<>>, IsInjective(q)
    PROVE  IsInjective(Tail(q)) /\ ~Contains(Tail(q), Head(q))
<1>1. Len(q) \in Nat \ {0} /\ Len(Tail(q)) = Len(q) - 1 /\ Head(q) = q[1]
  OBVIOUS
<1>2. DOMAIN q = 1 .. Len(q) /\ DOMAIN Tail(q) = 1 .. (Len(q) - 1)
  OBVIOUS
<1>3. \A i \in 1 .. (Len(q) - 1) : Tail(q)[i] = q[i + 1] /\ i + 1 \in DOMAIN q
  BY <1>1, <1>2
<1>4. IsInjective(Tail(q))
  <2> SUFFICES ASSUME NEW a \in DOMAIN Tail(q), NEW b \in DOMAIN Tail(q),
                      Tail(q)[a] = Tail(q)[b]
               PROVE  a = b
    BY DEF IsInjective
  <2>1. q[a + 1] = q[b + 1] /\ a + 1 \in DOMAIN q /\ b + 1 \in DOMAIN q
    BY <1>2, <1>3
  <2>2. a + 1 = b + 1
    BY <2>1 DEF IsInjective
  <2> QED
    BY <1>1, <1>2, <2>2
<1>5. ASSUME Contains(Tail(q), Head(q)) PROVE FALSE
  <2>1. PICK i \in 1 .. (Len(q) - 1) : Tail(q)[i] = q[1]
    BY <1>1, <1>5 DEF Contains
  <2>2. q[i + 1] = q[1] /\ i + 1 \in DOMAIN q /\ 1 \in DOMAIN q
    BY <1>1, <1>2, <1>3, <2>1
  <2>3. i + 1 = 1
    BY <2>2 DEF IsInjective
  <2> QED
    BY <1>1, <2>1, <2>3
<1> QED
  BY <1>4, <1>5

\* A drained queue holds nobody.
LEMMA EmptyQueue == IsInjective(<<>>) /\ \A x : ~Contains(<<>>, x)
  BY DEF IsInjective, Contains

-----------------------------------------------------------------------------
(* Lemmas about the helpers *)

\* The tuples of variables the actions leave unchanged are always expanded.
USE DEF confVars, statusVars, callVars, stopVars, workerVars, calls, outside

\* Every event the engine sends is an event.
LEMMA EventType ==
    ASSUME NEW kind \in EventKinds, NEW j \in Jobs \cup {NoJob}
    PROVE  Event(kind, j) \in Events
  BY DEF Event, Events

\* A resolved request names one of the backends.
LEMMA ResolvedType ==
    ASSUME NEW c \in Configs, NEW r, Resolvable(c, r)
    PROVE  ResolvedProvider(c, r) \in Kinds
  BY ConfigsAssumption DEF IsConfig, Resolvable, ResolvedProvider

\* A configuration builds a registry of backends.
LEMMA RegistryType ==
    ASSUME NEW c \in Configs PROVE Registry(c) \in SUBSET Kinds
  BY ConfigsAssumption DEF IsConfig, Registry, Kinds

-----------------------------------------------------------------------------
(* Type correctness *)

LEMMA TypeInit == Init => TypeOK
<1> SUFFICES ASSUME Init PROVE TypeOK
  OBVIOUS
<1>1. registry \in SUBSET Kinds
  BY RegistryType DEF Init
<1>2. outcome \in [Jobs -> Outcomes \cup {Pending}] /\ call \in [Jobs -> CallPc]
  BY DEF Init, CallPc
<1>4. loaded \in [Jobs -> Configs]
  BY DEF Init
<1>5. primary \in [Jobs -> Kinds]
  BY DEF Init, Kinds
<1>3. /\ stop \in [Stops -> StopPc]
      /\ cleared \in [Stops -> Seq(Jobs)]
      /\ hit \in [Stops -> Jobs \cup {NoJob}]
      /\ halt \in [Halts -> HaltPc]
  BY DEF Init, StopPc, HaltPc
<1>6. notify \in BOOLEAN /\ shutdown \in BOOLEAN /\ degraded \in BOOLEAN
  BY DEF Init
<1>7. queue \in Seq(Jobs) /\ events \in Seq(Events)
  BY DEF Init
<1> QED
  BY <1>1, <1>2, <1>3, <1>4, <1>5, <1>6, <1>7 DEF Init, TypeOK, WorkerPc

LEMMA TypeEnqueue ==
    ASSUME TypeOK, NEW j \in Jobs,
           (\E r \in Requests : Resolve(j, r)) \/ EnqueueStep(j)
    PROVE  TypeOK'
<1>1. ASSUME NEW r \in Requests, Resolve(j, r) PROVE TypeOK'
  <2>1. CASE Resolvable(config, r)
    <3>1. ResolvedProvider(config, r) \in Kinds
      BY <2>1, ResolvedType DEF TypeOK
    <3> QED
      BY <1>1, <2>1, <3>1 DEF TypeOK, Resolve, At, CallPc
  <2>2. CASE ~Resolvable(config, r)
    BY <1>1, <2>2 DEF TypeOK, Resolve, At, CallPc
  <2> QED
    BY <2>1, <2>2
<1>2. CASE Push(j)
  <2>1. queue \in Seq(Jobs)
    BY DEF TypeOK
  <2>2. queue' \in Seq(Jobs)
    BY <1>2, <2>1 DEF Push
  <2>3. call' \in [Jobs -> CallPc]
    BY <1>2 DEF TypeOK, Push, At, CallPc
  <2> QED
    BY <1>2, <2>2, <2>3 DEF TypeOK, Push
<1>3. CASE NotifyPushed(j)
  BY <1>3 DEF TypeOK, NotifyPushed, NotifyOne, At, CallPc
<1>4. CASE Announce(j)
  <2>1. Event("enqueued", j) \in Events
    BY EventType DEF EventKinds
  <2> QED
    BY <1>4, <2>1 DEF TypeOK, Announce, Send, At, CallPc
<1> QED
  BY <1>1, <1>2, <1>3, <1>4 DEF EnqueueStep

LEMMA TypeStop ==
    ASSUME TypeOK, NEW s \in Stops, Sweep(s) \/ StopStep(s)
    PROVE  TypeOK'
<1>1. CASE Sweep(s)
  <2>1. queue' \in Seq(Jobs) /\ cleared' \in [Stops -> Seq(Jobs)]
    BY <1>1 DEF TypeOK, Sweep, Drain
  <2>2. stop' \in [Stops -> StopPc] /\ hit' \in [Stops -> Jobs \cup {NoJob}]
    BY <1>1 DEF TypeOK, Sweep, StopPc
  <2>3. cancelled' \in SUBSET Jobs
    BY <1>1 DEF TypeOK, Sweep, TripCurrent
  <2> QED
    BY <1>1, <2>1, <2>2, <2>3 DEF TypeOK, Sweep
<1>2. CASE AnswerCleared(s)
  <2>1. cleared[s] \in Seq(Jobs) /\ cleared[s] # <<>>
    BY <1>2 DEF TypeOK, AnswerCleared
  <2>2. Tail(cleared[s]) \in Seq(Jobs) /\ Head(cleared[s]) \in Jobs
    BY <2>1
  <2>3. cleared' \in [Stops -> Seq(Jobs)]
    BY <1>2, <2>2 DEF TypeOK, AnswerCleared
  <2>4. outcome' \in [Jobs -> Outcomes \cup {Pending}]
    BY <1>2, <2>2 DEF TypeOK, AnswerCleared, SendWaiter, Outcomes
  <2> QED
    BY <1>2, <2>3, <2>4 DEF TypeOK, AnswerCleared
<1>3. CASE AnnounceStop(s)
  <2>1. hit[s] \in Jobs \cup {NoJob}
    BY DEF TypeOK
  <2>2. Event("stopped", hit[s]) \in Events
    BY <2>1, EventType DEF EventKinds
  <2> QED
    BY <1>3, <2>2 DEF TypeOK, AnnounceStop, Send, StopPc
<1> QED
  BY <1>1, <1>2, <1>3 DEF StopStep

LEMMA TypeHalt ==
    ASSUME TypeOK, NEW h \in Halts, RaiseShutdown(h) \/ HaltStep(h)
    PROVE  TypeOK'
<1>1. CASE RaiseShutdown(h)
  BY <1>1 DEF TypeOK, RaiseShutdown, HaltPc
<1>2. CASE CancelCurrent(h)
  <2>1. cancelled' \in SUBSET Jobs
    BY <1>2 DEF TypeOK, CancelCurrent, TripCurrent
  <2> QED
    BY <1>2, <2>1 DEF TypeOK, CancelCurrent, HaltPc
<1>3. CASE NotifyShutdown(h)
  BY <1>3 DEF TypeOK, NotifyShutdown, NotifyOne, HaltPc
<1> QED
  BY <1>1, <1>2, <1>3 DEF HaltStep

LEMMA TypeReload ==
    ASSUME TypeOK, (\E c \in Configs : StoreRegistry(c)) \/ StoreConfig
    PROVE  TypeOK'
<1>1. ASSUME NEW c \in Configs, StoreRegistry(c) PROVE TypeOK'
  <2>1. Registry(c) \in SUBSET Kinds
    BY RegistryType
  <2> QED
    BY <1>1, <2>1 DEF TypeOK, StoreRegistry
<1>2. CASE StoreConfig
  BY <1>2 DEF TypeOK, StoreConfig
<1> QED
  BY <1>1, <1>2

LEMMA TypeWorker ==
    ASSUME TypeOK, WorkerStep \/ ProviderStep
    PROVE  TypeOK'
<1>1. CASE CheckShutdown
  BY <1>1 DEF TypeOK, CheckShutdown, Goto, WorkerPc
<1>2. CASE Pop
  <2>1. CASE queue # <<>>
    <3>1. queue \in Seq(Jobs) /\ Head(queue) \in Jobs /\ Tail(queue) \in Seq(Jobs)
      BY <2>1 DEF TypeOK
    <3> QED
      BY <1>2, <2>1, <3>1 DEF TypeOK, Pop, Take, Goto, WorkerPc, TaskPc
  <2>2. CASE queue = <<>>
    BY <1>2, <2>2 DEF TypeOK, Pop, Goto, WorkerPc
  <2> QED
    BY <2>1, <2>2
<1>3. CASE Wake
  BY <1>3 DEF TypeOK, Wake, Goto, WorkerPc
<1>4. CASE LoadRegistry
  BY <1>4 DEF TypeOK, LoadRegistry, Goto, WorkerPc, TaskPc
<1>5. CASE SelectProvider
  BY <1>5 DEF TypeOK, SelectProvider, WorkerPc, TaskPc, Outcomes
<1>6. CASE SetSpeaking
  BY <1>6 DEF TypeOK, SetSpeaking, Goto, WorkerPc, TaskPc
<1>7. CASE AnnounceStart
  <2>1. Event("started", job) \in Events
    BY EventType DEF EventKinds, TypeOK
  <2> QED
    BY <1>7, <2>1 DEF TypeOK, AnnounceStart, Send, Goto, WorkerPc, TaskPc
<1>8. CASE BeginSynthesis
  BY <1>8 DEF TypeOK, BeginSynthesis, EndRun, WorkerPc, TaskPc, Outcomes
<1>9. CASE Report
  <2>1. Event("finished", job) \in Events /\ Event("failed", job) \in Events
    BY EventType DEF EventKinds, TypeOK
  <2>2. events' \in Seq(Events)
    BY <1>9, <2>1 DEF TypeOK, Report, AnnounceEnd, Send
  <2> QED
    BY <1>9, <2>2 DEF TypeOK, Report, Goto, WorkerPc, TaskPc, PanicPc
<1>10. CASE ClearCurrent
  BY <1>10 DEF TypeOK, ClearCurrent, Goto, WorkerPc, TaskPc, PanicPc
<1>11. CASE SetIdle
  BY <1>11 DEF TypeOK, SetIdle, BecomeIdle, Goto, WorkerPc, TaskPc, PanicPc
<1>12. CASE MarkDegraded
  BY <1>12 DEF TypeOK, MarkDegraded, Goto, WorkerPc, PanicPc
<1>13. CASE AnnounceDegraded
  <2>1. Event("degraded", NoJob) \in Events
    BY EventType DEF EventKinds
  <2> QED
    BY <1>13, <2>1 DEF TypeOK, AnnounceDegraded, Send, Goto, WorkerPc, PanicPc
<1>14. CASE Reply
  <2>1. outcome' \in [Jobs -> Outcomes \cup {Pending}]
    BY <1>14 DEF TypeOK, Reply, SendWaiter
  <2> QED
    BY <1>14, <2>1 DEF TypeOK, Reply, Goto, WorkerPc
<1>15. CASE FinishRun
  BY <1>15 DEF TypeOK, FinishRun, EndRun, WorkerPc, TaskPc, Outcomes
<1>16. CASE NoticeCancel
  BY <1>16 DEF TypeOK, NoticeCancel, EndRun, WorkerPc, TaskPc, Outcomes
<1>17. CASE PanicRun
  BY <1>17 DEF TypeOK, PanicRun, Goto, WorkerPc, PanicPc, Outcomes
<1> QED
  BY <1>1, <1>2, <1>3, <1>4, <1>5, <1>6, <1>7, <1>8, <1>9, <1>10, <1>11, <1>12,
     <1>13, <1>14, <1>15, <1>16, <1>17 DEF WorkerStep, ProviderStep

LEMMA TypeStutter == TypeOK /\ UNCHANGED vars => TypeOK'
  BY DEF TypeOK, vars

\* Every variable of the engine keeps its type, in particular every event names
\* a job or none, and no token but that of a job is ever tripped (worker.rs).
THEOREM TypeCorrect == Spec => []TypeOK
<1>1. TypeOK /\ [Next]_vars => TypeOK'
  BY TypeEnqueue, TypeStop, TypeHalt, TypeReload, TypeWorker, TypeStutter DEF Next
<1> QED
  BY TypeInit, <1>1, PTL DEF Spec

-----------------------------------------------------------------------------
(* The worker: `current`, `state` and the job in flight *)

USE DEF CurrentIsVisible

\* Calls touch neither the worker's position nor what it shows.
LEMMA WorkerInvFrame ==
    ASSUME WorkerInv, UNCHANGED <<pc, job, current, state, result>>
    PROVE  WorkerInv'
  BY DEF WorkerInv

LEMMA WorkerInvStep ==
    ASSUME TypeOK, WorkerInv, WorkerStep \/ ProviderStep
    PROVE  WorkerInv'
<1> USE DEF WorkerInv, TaskPc, PanicPc, CurrentPc, SpeakingPc, DecidedPc, Pending,
            Outcomes, Goto
<1>1. CASE CheckShutdown
  BY <1>1 DEF CheckShutdown
<1>2. CASE Pop
  <2>1. queue # <<>> => Head(queue) \in Jobs
    BY DEF TypeOK
  <2> QED
    BY <1>2, <2>1 DEF Pop, Take
<1>3. CASE Wake
  BY <1>3 DEF Wake
<1>4. CASE LoadRegistry
  BY <1>4 DEF LoadRegistry
<1>5. CASE SelectProvider
  BY <1>5 DEF SelectProvider
<1>6. CASE SetSpeaking
  BY <1>6 DEF SetSpeaking
<1>7. CASE AnnounceStart
  BY <1>7 DEF AnnounceStart
<1>8. CASE BeginSynthesis
  BY <1>8 DEF BeginSynthesis, EndRun
<1>9. CASE Report
  BY <1>9 DEF Report
<1>10. CASE ClearCurrent
  BY <1>10 DEF ClearCurrent
<1>11. CASE SetIdle
  BY <1>11 DEF SetIdle, BecomeIdle
<1>12. CASE MarkDegraded
  BY <1>12 DEF MarkDegraded
<1>13. CASE AnnounceDegraded
  BY <1>13 DEF AnnounceDegraded
<1>14. CASE Reply
  BY <1>14 DEF Reply
<1>15. CASE FinishRun
  BY <1>15 DEF FinishRun, EndRun
<1>16. CASE NoticeCancel
  BY <1>16 DEF NoticeCancel, EndRun
<1>17. CASE PanicRun
  BY <1>17 DEF PanicRun
<1> QED
  BY <1>1, <1>2, <1>3, <1>4, <1>5, <1>6, <1>7, <1>8, <1>9, <1>10, <1>11, <1>12,
     <1>13, <1>14, <1>15, <1>16, <1>17 DEF WorkerStep, ProviderStep

LEMMA WorkerInvNext == TypeOK /\ WorkerInv /\ [Next]_vars => WorkerInv'
<1> SUFFICES ASSUME TypeOK, WorkerInv, [Next]_vars PROVE WorkerInv'
  OBVIOUS
<1>1. ASSUME NEW j \in Jobs, (\E r \in Requests : Resolve(j, r)) \/ EnqueueStep(j)
      PROVE  WorkerInv'
  BY <1>1, WorkerInvFrame DEF Resolve, EnqueueStep, Push, NotifyPushed, Announce
<1>2. ASSUME NEW s \in Stops, Sweep(s) \/ StopStep(s) PROVE WorkerInv'
  BY <1>2, WorkerInvFrame DEF Sweep, StopStep, AnswerCleared, AnnounceStop
<1>3. ASSUME NEW h \in Halts, RaiseShutdown(h) \/ HaltStep(h) PROVE WorkerInv'
  BY <1>3, WorkerInvFrame DEF RaiseShutdown, HaltStep, CancelCurrent, NotifyShutdown
<1>4. CASE (\E c \in Configs : StoreRegistry(c)) \/ StoreConfig
  BY <1>4, WorkerInvFrame DEF StoreRegistry, StoreConfig
<1>5. CASE WorkerStep \/ ProviderStep
  BY <1>5, WorkerInvStep
<1>6. CASE UNCHANGED vars
  BY <1>6, WorkerInvFrame DEF vars
<1> QED
  BY <1>1, <1>2, <1>3, <1>4, <1>5, <1>6 DEF Next

LEMMA WorkerInvInit == Init => WorkerInv
  BY DEF Init, WorkerInv, TaskPc, PanicPc, CurrentPc, SpeakingPc, DecidedPc

THEOREM WorkerInvariant == Spec => []WorkerInv
  BY WorkerInvInit, WorkerInvNext, TypeCorrect, PTL DEF Spec

\* A job the worker is executing is always the one that stop and shutdown find
\* in `current`: the pop and the store are one section (worker.rs, worker_loop).
THEOREM CurrentAlwaysVisible == Spec => []CurrentIsVisible
<1>1. WorkerInv => CurrentIsVisible
  BY DEF WorkerInv
<1> QED
  BY <1>1, WorkerInvariant, PTL

-----------------------------------------------------------------------------
(* Custody: where every job is *)

\* Steps that move no job, whatever else they do.
LEMMA CustodyFrame ==
    ASSUME CustodyInv, UNCHANGED <<queue, cleared, outcome>>,
           \A j \in Jobs : Accepted(j)' = Accepted(j) /\ InFlight(j)' = InFlight(j),
           \A s \in Stops : stop'[s] = "new" => stop[s] = "new"
    PROVE  CustodyInv'
<1>1. \A j \in Jobs : InQueue(j)' = InQueue(j) /\ \A s \in Stops : HeldBy(s, j)' = HeldBy(s, j)
  BY DEF InQueue, HeldBy
<1> QED
  BY <1>1 DEF CustodyInv, NoJobLost, NoJobTwice, Owned

LEMMA CustodyCalls ==
    ASSUME TypeOK, CustodyInv, NEW j \in Jobs,
           (\E r \in Requests : Resolve(j, r)) \/ NotifyPushed(j) \/ Announce(j)
    PROVE  CustodyInv'
<1>1. \A k \in Jobs : Accepted(k)' = Accepted(k)
  BY DEF TypeOK, Resolve, NotifyPushed, Announce, At, Accepted
<1>2. \A k \in Jobs : InFlight(k)' = InFlight(k)
  BY DEF Resolve, NotifyPushed, Announce, InFlight
<1>3. UNCHANGED <<queue, cleared, outcome, stop>>
  BY DEF Resolve, NotifyPushed, Announce
<1> QED
  BY <1>1, <1>2, <1>3, CustodyFrame

LEMMA CustodyPush ==
    ASSUME TypeOK, CustodyInv, NEW j \in Jobs, Push(j)
    PROVE  CustodyInv'
<1>1. CASE IsFull(j)
  <2>1. \A k \in Jobs : Accepted(k)' = Accepted(k)
    BY <1>1 DEF TypeOK, Push, At, Accepted
  <2>2. \A k \in Jobs : InFlight(k)' = InFlight(k)
    BY DEF Push, InFlight
  <2>3. UNCHANGED <<queue, cleared, outcome, stop>>
    BY <1>1 DEF Push
  <2> QED
    BY <2>1, <2>2, <2>3, CustodyFrame
<1>2. CASE ~IsFull(j)
  <2>1. /\ queue' = Append(queue, j) /\ queue \in Seq(Jobs)
        /\ UNCHANGED <<cleared, outcome, stop>>
        /\ \A k \in Jobs : InFlight(k)' = InFlight(k)
        /\ \A k \in Jobs : \A s \in Stops : HeldBy(s, k)' = HeldBy(s, k)
    BY <1>2 DEF TypeOK, Push, InFlight, HeldBy
  <2>2. ~Accepted(j) /\ \A k \in Jobs : Accepted(k)' <=> Accepted(k) \/ k = j
    BY <1>2 DEF TypeOK, Push, At, Accepted
  <2>3. \A k \in Jobs : InQueue(k)' <=> InQueue(k) \/ k = j
    BY <2>1, ContainsAppend DEF InQueue
  <2>4. ~InQueue(j) /\ ~InFlight(j) /\ outcome[j] = Pending /\ \A s \in Stops : ~HeldBy(s, j)
    BY <2>2 DEF CustodyInv, Owned
  <2>5. IsInjective(queue')
    BY <2>1, <2>4, InjectiveAppend DEF CustodyInv, NoJobTwice, InQueue
  <2>6. NoJobLost'
    BY <2>1, <2>2, <2>3 DEF CustodyInv, NoJobLost
  <2>7. NoJobTwice'
    BY <2>1, <2>3, <2>4, <2>5 DEF CustodyInv, NoJobTwice
  <2> QED
    BY <2>1, <2>2, <2>3, <2>6, <2>7 DEF CustodyInv, Owned
<1> QED
  BY <1>1, <1>2

LEMMA CustodySweep ==
    ASSUME TypeOK, CustodyInv, NEW s \in Stops, Sweep(s)
    PROVE  CustodyInv'
<1>1. /\ queue' = <<>>
      /\ cleared' = [cleared EXCEPT ![s] = queue] /\ cleared[s] = <<>>
      /\ stop' = [stop EXCEPT ![s] = "swept"]
      /\ UNCHANGED outcome
      /\ \A j \in Jobs : Accepted(j)' = Accepted(j) /\ InFlight(j)' = InFlight(j)
  BY DEF Sweep, Drain, CustodyInv, Accepted, InFlight
<1>2. \A j \in Jobs : ~InQueue(j)' /\ ~HeldBy(s, j)
  BY <1>1, EmptyQueue DEF InQueue, HeldBy
<1>3. \A j \in Jobs : HeldBy(s, j)' <=> InQueue(j)
  BY <1>1 DEF TypeOK, HeldBy, InQueue
<1>4. \A j \in Jobs, t \in Stops \ {s} : HeldBy(t, j)' <=> HeldBy(t, j)
  BY <1>1 DEF TypeOK, HeldBy
<1>5. NoJobLost'
  BY <1>1, <1>2, <1>3, <1>4 DEF CustodyInv, NoJobLost
<1>6. NoJobTwice'
  BY <1>1, <1>2, <1>3, <1>4, EmptyQueue DEF CustodyInv, NoJobTwice
<1>7. \A t \in Stops : IsInjective(cleared'[t])
  BY <1>1 DEF TypeOK, CustodyInv, NoJobTwice
<1>8. \A t \in Stops : stop'[t] = "new" => cleared'[t] = <<>>
  BY <1>1 DEF TypeOK, CustodyInv
<1> QED
  BY <1>1, <1>2, <1>3, <1>4, <1>5, <1>6, <1>7, <1>8 DEF CustodyInv, Owned

LEMMA CustodyAnswer ==
    ASSUME TypeOK, CustodyInv, NEW s \in Stops, AnswerCleared(s)
    PROVE  CustodyInv'
<1>0. cleared[s] \in Seq(Jobs) /\ cleared[s] # <<>>
  BY DEF TypeOK, AnswerCleared
<1> PICK h \in Jobs : h = Head(cleared[s])
  BY <1>0
<1>1. cleared[s] \in Seq(Jobs) /\ cleared[s] # <<>> /\ h = Head(cleared[s])
  BY <1>0
<1>2. /\ UNCHANGED <<queue, stop>>
      /\ cleared' = [cleared EXCEPT ![s] = Tail(cleared[s])]
      /\ \A j \in Jobs : Accepted(j)' = Accepted(j) /\ InFlight(j)' = InFlight(j)
      /\ \A j \in Jobs : InQueue(j)' = InQueue(j)
  BY DEF AnswerCleared, Accepted, InFlight, InQueue
<1>3. HeldBy(s, h) /\ ~HeldBy(s, h)'
  <2>1. cleared'[s] = Tail(cleared[s]) /\ IsInjective(cleared[s])
    BY <1>2 DEF TypeOK, CustodyInv
  <2>2. Contains(cleared[s], h)
    BY <1>1, ContainsTail
  <2>3. ~Contains(Tail(cleared[s]), h)
    BY <1>1, <2>1, InjectiveTail
  <2> QED
    BY <2>1, <2>2, <2>3 DEF HeldBy
<1>4. \A j \in Jobs : HeldBy(s, j)' \/ j = h <=> HeldBy(s, j)
  BY <1>1, <1>2, ContainsTail DEF TypeOK, HeldBy
<1>5. \A j \in Jobs, t \in Stops \ {s} : HeldBy(t, j)' <=> HeldBy(t, j)
  BY <1>2 DEF TypeOK, HeldBy
<1>6. outcome' = [outcome EXCEPT ![h] = "cancelled"]
  BY <1>1, <1>3 DEF TypeOK, AnswerCleared, SendWaiter, CustodyInv, NoJobTwice
<1>7. /\ \A j \in Jobs \ {h} : outcome'[j] = outcome[j]
      /\ outcome'[h] # Pending
  BY <1>1, <1>6 DEF TypeOK, Pending
<1>8. NoJobLost'
  BY <1>1, <1>2, <1>4, <1>5, <1>7 DEF CustodyInv, NoJobLost
<1>9. ~InQueue(h) /\ ~InFlight(h) /\ \A t \in Stops : HeldBy(t, h) => t = s
  BY <1>1, <1>3 DEF CustodyInv, NoJobTwice
<1>10. NoJobTwice'
  <2>1. \A j \in Jobs, t \in Stops : HeldBy(t, j)' => HeldBy(t, j) /\ (j = h => t # s)
    BY <1>3, <1>4, <1>5
  <2>2. \A t \in Stops : ~HeldBy(t, h)'
    BY <1>1, <1>9, <2>1
  <2>3. IsInjective(queue')
    BY <1>2 DEF CustodyInv, NoJobTwice
  <2>4. ASSUME NEW j \in Jobs, j # h, outcome'[j] # Pending
        PROVE  ~InQueue(j)' /\ ~InFlight(j)' /\ \A t \in Stops : ~HeldBy(t, j)'
    BY <1>2, <1>7, <2>1, <2>4 DEF CustodyInv, NoJobTwice
  <2>5. ASSUME NEW j \in Jobs
        PROVE  /\ InQueue(j)' => ~InFlight(j)'
               /\ \A t \in Stops : HeldBy(t, j)' => ~InQueue(j)' /\ ~InFlight(j)'
               /\ \A t, u \in Stops : HeldBy(t, j)' /\ HeldBy(u, j)' => t = u
    BY <1>2, <2>1 DEF CustodyInv, NoJobTwice
  <2> QED
    BY <1>1, <1>2, <1>9, <2>2, <2>3, <2>4, <2>5 DEF NoJobTwice
<1>11. \A t \in Stops : IsInjective(cleared'[t])
  BY <1>1, <1>2, InjectiveTail DEF TypeOK, CustodyInv
<1>12. \A t \in Stops : stop'[t] = "new" => cleared'[t] = <<>>
  BY <1>1, <1>2 DEF TypeOK, CustodyInv
<1>13. Accepted(h)
  BY <1>1, <1>3 DEF CustodyInv, Owned
<1> QED
  BY <1>2, <1>4, <1>5, <1>7, <1>8, <1>10, <1>11, <1>12, <1>13 DEF CustodyInv, Owned

\* Steps at which no job changes hands, with or without one in flight.
LEMMA CustodyTask ==
    ASSUME CustodyInv, UNCHANGED <<queue, cleared, outcome, stop, call, job>>,
           pc \in TaskPc \cup PanicPc <=> pc' \in TaskPc \cup PanicPc
    PROVE  CustodyInv'
<1>1. \A j \in Jobs : Accepted(j)' = Accepted(j) /\ InFlight(j)' = InFlight(j)
  BY DEF Accepted, InFlight
<1> QED
  BY <1>1, CustodyFrame

LEMMA CustodyPop ==
    ASSUME TypeOK, WorkerInv, CustodyInv, Pop
    PROVE  CustodyInv'
<1>1. CASE queue = <<>>
  <2>1. UNCHANGED <<queue, cleared, outcome, stop, call, job>>
    BY <1>1 DEF Pop
  <2>2. pc \notin TaskPc \cup PanicPc /\ pc' \notin TaskPc \cup PanicPc
    BY <1>1 DEF Pop, Goto, TaskPc, PanicPc
  <2> QED
    BY <2>1, <2>2, CustodyTask
<1>2. CASE queue # <<>>
  <2>1. queue \in Seq(Jobs) /\ Head(queue) \in Jobs
    BY <1>2 DEF TypeOK
  <2> PICK h \in Jobs : h = Head(queue)
    BY <2>1
  <2>9. /\ queue' = Tail(queue) /\ job' = h
        /\ pc = "pop" /\ pc' = "registry"
        /\ UNCHANGED <<cleared, outcome, stop, call>>
    BY <1>2, <2>1 DEF Pop, Take, Goto
  <2>2. /\ queue' = Tail(queue) /\ job' = h
        /\ pc = "pop" /\ pc' = "registry"
        /\ UNCHANGED <<cleared, outcome, stop>>
        /\ \A j \in Jobs : Accepted(j)' = Accepted(j)
        /\ \A j \in Jobs, s \in Stops : HeldBy(s, j)' = HeldBy(s, j)
    BY <2>9 DEF Accepted, HeldBy
  <2>3. \A j \in Jobs : ~InFlight(j) /\ (InFlight(j)' <=> j = h)
    BY <2>2 DEF InFlight, TaskPc, PanicPc
  <2>4. \A j \in Jobs : InQueue(j)' \/ j = h <=> InQueue(j)
    BY <1>2, <2>1, <2>2, ContainsTail DEF InQueue
  <2>5. IsInjective(queue') /\ ~InQueue(h)'
    BY <1>2, <2>1, <2>2, InjectiveTail DEF CustodyInv, NoJobTwice, InQueue
  <2>6. outcome[h] = Pending /\ Accepted(h) /\ \A s \in Stops : ~HeldBy(s, h)
    BY <2>4 DEF CustodyInv, NoJobTwice, Owned
  <2>7. NoJobLost'
    BY <2>2, <2>3, <2>4 DEF CustodyInv, NoJobLost
  <2>8. NoJobTwice'
    BY <2>2, <2>3, <2>4, <2>5, <2>6 DEF CustodyInv, NoJobTwice
  <2> QED
    BY <2>2, <2>3, <2>4, <2>6, <2>7, <2>8 DEF CustodyInv, Owned
<1> QED
  BY <1>1, <1>2

LEMMA CustodyReply ==
    ASSUME TypeOK, WorkerInv, CustodyInv, Reply
    PROVE  CustodyInv'
<1>1. pc \in {"reply", "panic_reply"} /\ pc' = "top"
  BY DEF Reply, Goto
<1> PICK h \in Jobs : h = job
  BY <1>1 DEF WorkerInv, TaskPc, PanicPc
<1>2. InFlight(h) /\ \A j \in Jobs : InFlight(j) => j = h
  BY <1>1 DEF InFlight, TaskPc, PanicPc
<1>3. \A j \in Jobs : ~InFlight(j)'
  BY <1>1 DEF InFlight, TaskPc, PanicPc
<1>4. result # Pending
  BY <1>1 DEF WorkerInv, DecidedPc, PanicPc
<1>5. /\ UNCHANGED <<queue, cleared, stop>>
      /\ \A j \in Jobs : Accepted(j)' = Accepted(j) /\ InQueue(j)' = InQueue(j)
      /\ \A j \in Jobs, s \in Stops : HeldBy(s, j)' = HeldBy(s, j)
  BY DEF Reply, Accepted, InQueue, HeldBy
<1>6. /\ \A j \in Jobs \ {h} : outcome'[j] = outcome[j]
      /\ outcome'[h] # Pending
  BY <1>4 DEF TypeOK, Reply, SendWaiter
<1>7. /\ ~InQueue(h) /\ Accepted(h)
      /\ \A s \in Stops : ~HeldBy(s, h)
  BY <1>2 DEF CustodyInv, NoJobTwice, Owned
<1>8. NoJobLost'
  BY <1>2, <1>5, <1>6 DEF CustodyInv, NoJobLost
<1>9. NoJobTwice'
  BY <1>3, <1>5, <1>6, <1>7 DEF CustodyInv, NoJobTwice
<1> QED
  BY <1>2, <1>3, <1>5, <1>6, <1>7, <1>8, <1>9 DEF CustodyInv, Owned

LEMMA CustodyWorker ==
    ASSUME TypeOK, WorkerInv, CustodyInv, WorkerStep \/ ProviderStep
    PROVE  CustodyInv'
<1>1. CASE Pop
  BY <1>1, CustodyPop
<1>2. CASE Reply
  BY <1>2, CustodyReply
<1>3. CASE CheckShutdown \/ Wake
  <2>1. pc \notin TaskPc \cup PanicPc /\ pc' \notin TaskPc \cup PanicPc
    BY <1>3 DEF CheckShutdown, Wake, Goto, TaskPc, PanicPc
  <2> QED
    BY <1>3, <2>1, CustodyTask DEF CheckShutdown, Wake
<1>4. CASE \/ LoadRegistry \/ SelectProvider \/ SetSpeaking \/ AnnounceStart
           \/ BeginSynthesis \/ ProviderStep
  <2>1. pc \in TaskPc \cup PanicPc /\ pc' \in TaskPc \cup PanicPc
    BY <1>4 DEF LoadRegistry, SelectProvider, SetSpeaking, AnnounceStart, BeginSynthesis,
       ProviderStep, FinishRun, NoticeCancel, PanicRun, EndRun, Goto, TaskPc, PanicPc
  <2>2. UNCHANGED <<queue, cleared, outcome, stop, call, job>>
    BY <1>4 DEF LoadRegistry, SelectProvider, SetSpeaking, AnnounceStart, BeginSynthesis,
       ProviderStep, FinishRun, NoticeCancel, PanicRun
  <2> QED
    BY <2>1, <2>2, CustodyTask
<1>5. CASE Report \/ ClearCurrent \/ SetIdle \/ MarkDegraded \/ AnnounceDegraded
  <2>1. pc \in TaskPc \cup PanicPc /\ pc' \in TaskPc \cup PanicPc
    BY <1>5 DEF Report, ClearCurrent, SetIdle, MarkDegraded, AnnounceDegraded, Goto,
       TaskPc, PanicPc
  <2>2. UNCHANGED <<queue, cleared, outcome, stop, call, job>>
    BY <1>5 DEF Report, ClearCurrent, SetIdle, MarkDegraded, AnnounceDegraded
  <2> QED
    BY <2>1, <2>2, CustodyTask
<1> QED
  BY <1>1, <1>2, <1>3, <1>4, <1>5 DEF WorkerStep

LEMMA CustodyNext == TypeOK /\ WorkerInv /\ CustodyInv /\ [Next]_vars => CustodyInv'
<1> SUFFICES ASSUME TypeOK, WorkerInv, CustodyInv, [Next]_vars PROVE CustodyInv'
  OBVIOUS
<1>1. ASSUME NEW j \in Jobs, (\E r \in Requests : Resolve(j, r)) \/ EnqueueStep(j)
      PROVE  CustodyInv'
  BY <1>1, CustodyCalls, CustodyPush DEF EnqueueStep
<1>2. ASSUME NEW s \in Stops, Sweep(s) \/ StopStep(s) PROVE CustodyInv'
  <2>1. CASE Sweep(s)
    BY <2>1, CustodySweep
  <2>2. CASE AnswerCleared(s)
    BY <2>2, CustodyAnswer
  <2>3. CASE AnnounceStop(s)
    <3>1. UNCHANGED <<queue, cleared, outcome, job, call, pc>>
      BY <2>3 DEF AnnounceStop
    <3>2. \A t \in Stops : stop'[t] = "new" => stop[t] = "new"
      BY <2>3 DEF AnnounceStop, TypeOK
    <3>3. \A j \in Jobs : Accepted(j)' = Accepted(j) /\ InFlight(j)' = InFlight(j)
      BY <3>1 DEF Accepted, InFlight
    <3> QED
      BY <3>1, <3>2, <3>3, CustodyFrame
  <2> QED
    BY <1>2, <2>1, <2>2, <2>3 DEF StopStep
<1>3. ASSUME NEW h \in Halts, RaiseShutdown(h) \/ HaltStep(h) PROVE CustodyInv'
  BY <1>3, CustodyTask DEF RaiseShutdown, HaltStep, CancelCurrent, NotifyShutdown
<1>4. CASE (\E c \in Configs : StoreRegistry(c)) \/ StoreConfig
  BY <1>4, CustodyTask DEF StoreRegistry, StoreConfig
<1>5. CASE WorkerStep \/ ProviderStep
  BY <1>5, CustodyWorker
<1>6. CASE UNCHANGED vars
  BY <1>6, CustodyTask DEF vars
<1> QED
  BY <1>1, <1>2, <1>3, <1>4, <1>5, <1>6 DEF Next

LEMMA CustodyInit == Init => CustodyInv
<1> SUFFICES ASSUME Init PROVE CustodyInv
  OBVIOUS
<1>1. \A j \in Jobs : ~Accepted(j) /\ ~InFlight(j) /\ outcome[j] = Pending
  BY DEF Init, Accepted, InFlight, TaskPc, PanicPc
<1>2. queue = <<>> /\ \A s \in Stops : cleared[s] = <<>>
  BY DEF Init
<1>3. \A j \in Jobs : ~InQueue(j) /\ \A s \in Stops : ~HeldBy(s, j)
  BY <1>2, EmptyQueue DEF InQueue, HeldBy
<1>4. IsInjective(queue) /\ \A s \in Stops : IsInjective(cleared[s])
  BY <1>2, EmptyQueue
<1> QED
  BY <1>1, <1>2, <1>3, <1>4 DEF CustodyInv, NoJobLost, NoJobTwice, Owned

THEOREM Custody == Spec => []CustodyInv
  BY CustodyInit, CustodyNext, TypeCorrect, WorkerInvariant, PTL DEF Spec

\* Whatever calls race, no accepted job is forgotten: until its waiter has its
\* outcome it is queued, with the worker, or held by a stop call (worker.rs).
THEOREM JobsNeverLost == Spec => []NoJobLost
<1>1. CustodyInv => NoJobLost
  BY DEF CustodyInv
<1> QED
  BY <1>1, Custody, PTL

\* ... and it is in one place only, and in none once it is answered, so no job
\* is spoken after stop has cleared it and none is spoken or answered twice.
THEOREM JobsNeverTwice == Spec => []NoJobTwice
<1>1. CustodyInv => NoJobTwice
  BY DEF CustodyInv
<1> QED
  BY <1>1, Custody, PTL

\* Who has its outcome finds the engine done with the job (worker.rs,
\* process_job: current and state are reset before send_waiter).
THEOREM RepliesAfterIdle == Spec => []ReplyAfterIdle
<1>1. WorkerInv /\ CustodyInv => ReplyAfterIdle
  BY NoJobAssumption DEF WorkerInv, CustodyInv, NoJobTwice, ReplyAfterIdle, InFlight,
     TaskPc, PanicPc, CurrentPc, SpeakingPc
<1> QED
  BY <1>1, WorkerInvariant, Custody, PTL

-----------------------------------------------------------------------------
(* stop *)

\* The one critical section of stop misses nobody, however it falls between the
\* steps of enqueue, of the worker and of other stops (worker.rs, stop).
THEOREM StopMissesNobody == Spec => StopReachesEveryJob
<1> DEFINE Reached(s, j) ==
        stop[s] = "new" /\ stop'[s] = "swept" /\ Accepted(j) =>
            \/ outcome[j] # Pending
            \/ \E t \in Stops : HeldBy(t, j)'
            \/ j \in cancelled'
            \/ InFlight(j) /\ pc \notin CurrentPc
<1>1. ASSUME TypeOK, WorkerInv, CustodyInv, [Next]_vars, NEW s \in Stops, NEW j \in Jobs
      PROVE  Reached(s, j)
  <2> SUFFICES ASSUME stop[s] = "new", stop'[s] = "swept", Accepted(j), outcome[j] = Pending,
                      ~(InFlight(j) /\ pc \notin CurrentPc)
               PROVE  (\E t \in Stops : HeldBy(t, j)') \/ j \in cancelled'
    OBVIOUS
  <2>1. Sweep(s)
    <3>1. UNCHANGED stop \/ \E t \in Stops : Sweep(t) \/ AnnounceStop(t)
      BY <1>1 DEF Next, vars, Resolve, EnqueueStep, Push, NotifyPushed, Announce,
         StopStep, AnswerCleared, RaiseShutdown, HaltStep, CancelCurrent, NotifyShutdown,
         StoreRegistry, StoreConfig, WorkerStep, ProviderStep, CheckShutdown, Pop, Wake,
         LoadRegistry, SelectProvider, SetSpeaking, AnnounceStart, BeginSynthesis, Report,
         ClearCurrent, SetIdle, MarkDegraded, AnnounceDegraded, Reply, FinishRun,
         NoticeCancel, PanicRun
    <3>2. stop # stop'
      BY DEF TypeOK
    <3>3. ASSUME NEW t \in Stops, Sweep(t) \/ AnnounceStop(t) PROVE t = s /\ Sweep(s)
      BY <1>1, <3>3 DEF TypeOK, Sweep, AnnounceStop
    <3> QED
      BY <3>1, <3>2, <3>3
  <2>2. InQueue(j) \/ InFlight(j) \/ \E t \in Stops : HeldBy(t, j)
    BY <1>1 DEF CustodyInv, NoJobLost
  <2>3. CASE InQueue(j)
    BY <1>1, <2>1, <2>3 DEF TypeOK, Sweep, Drain, InQueue, HeldBy
  <2>4. CASE InFlight(j)
    BY <1>1, <2>1, <2>4, NoJobAssumption DEF WorkerInv, Sweep, TripCurrent, InFlight
  <2>5. ASSUME NEW t \in Stops, HeldBy(t, j) PROVE HeldBy(t, j)'
    <3>1. t # s
      BY <1>1, <2>5, EmptyQueue DEF CustodyInv, HeldBy
    <3> QED
      BY <1>1, <2>1, <2>5, <3>1 DEF TypeOK, Sweep, Drain, HeldBy
  <2> QED
    BY <2>2, <2>3, <2>4, <2>5
<1>2. TypeOK /\ WorkerInv /\ CustodyInv /\ [Next]_vars
        => [\A s \in Stops, j \in Jobs : Reached(s, j)]_vars
  BY <1>1
<1> QED
  BY <1>2, TypeCorrect, WorkerInvariant, Custody, PTL DEF Spec, StopReachesEveryJob

-----------------------------------------------------------------------------
(* Wakeups *)

LEMMA WakeupInit == Init => WakeupInv
  BY DEF Init, WakeupInv, NoLostWakeup

LEMMA WakeupEnqueue ==
    ASSUME TypeOK, WakeupInv, NEW j \in Jobs,
           (\E r \in Requests : Resolve(j, r)) \/ EnqueueStep(j)
    PROVE  WakeupInv'
<1> USE DEF WakeupInv, NoLostWakeup
<1>1. ASSUME NEW r \in Requests, Resolve(j, r) PROVE WakeupInv'
  <2>1. UNCHANGED <<queue, notify, pc, shutdown, halt>>
    BY <1>1 DEF Resolve
  <2>2. \A k \in Jobs : InQueue(k)' = InQueue(k) /\ (call[k] = "pushed" => call'[k] = "pushed")
    BY <1>1 DEF TypeOK, Resolve, At, InQueue
  <2> QED
    BY <2>1, <2>2
<1>2. CASE Push(j)
  <2>1. UNCHANGED <<notify, pc, shutdown, halt>>
    BY <1>2 DEF Push
  <2>2. CASE IsFull(j)
    <3>1. UNCHANGED queue /\ \A k \in Jobs : call[k] = "pushed" => call'[k] = "pushed"
      BY <1>2, <2>2 DEF TypeOK, Push, At
    <3>2. \A k \in Jobs : InQueue(k)' = InQueue(k)
      BY <3>1 DEF InQueue
    <3> QED
      BY <2>1, <3>1, <3>2
  <2>3. CASE ~IsFull(j)
    <3>1. queue' = Append(queue, j) /\ call'[j] = "pushed" /\ queue \in Seq(Jobs)
      BY <1>2, <2>3 DEF TypeOK, Push, At
    <3>2. InQueue(j)'
      BY <3>1, ContainsAppend DEF InQueue
    <3> QED
      BY <2>1, <3>1, <3>2
  <2> QED
    BY <2>2, <2>3
<1>3. CASE NotifyPushed(j)
  BY <1>3 DEF NotifyPushed, NotifyOne
<1>4. CASE Announce(j)
  <2>1. UNCHANGED <<queue, notify, pc, shutdown, halt>>
    BY <1>4 DEF Announce
  <2>2. \A k \in Jobs : InQueue(k)' = InQueue(k) /\ (call[k] = "pushed" => call'[k] = "pushed")
    BY <1>4 DEF TypeOK, Announce, At, InQueue
  <2> QED
    BY <2>1, <2>2
<1> QED
  BY <1>1, <1>2, <1>3, <1>4 DEF EnqueueStep

LEMMA WakeupHalt ==
    ASSUME TypeOK, WakeupInv, NEW h \in Halts, RaiseShutdown(h) \/ HaltStep(h)
    PROVE  WakeupInv'
<1> USE DEF WakeupInv, NoLostWakeup
<1>1. UNCHANGED <<queue, call, pc>> /\ \A j \in Jobs : InQueue(j)' = InQueue(j)
  BY DEF RaiseShutdown, HaltStep, CancelCurrent, NotifyShutdown, InQueue
<1>2. CASE RaiseShutdown(h) \/ CancelCurrent(h)
  <2>1. halt'[h] \in {"flagged", "swept"} /\ UNCHANGED notify
    BY <1>2 DEF TypeOK, RaiseShutdown, CancelCurrent
  <2> QED
    BY <1>1, <2>1
<1>3. CASE NotifyShutdown(h)
  BY <1>1, <1>3 DEF NotifyShutdown, NotifyOne
<1> QED
  BY <1>2, <1>3 DEF HaltStep

LEMMA WakeupWorker ==
    ASSUME TypeOK, WakeupInv, WorkerStep \/ ProviderStep
    PROVE  WakeupInv'
<1> USE DEF WakeupInv, NoLostWakeup, Goto
<1>1. CASE CheckShutdown
  BY <1>1 DEF CheckShutdown
<1>2. CASE Pop
  BY <1>2 DEF Pop
<1>3. CASE ~CheckShutdown /\ ~Pop
  <2>1. pc' \notin {"pop", "park"}
    BY <1>3 DEF WorkerStep, ProviderStep, Wake, LoadRegistry, SelectProvider, SetSpeaking,
       AnnounceStart, BeginSynthesis, EndRun, Report, ClearCurrent, SetIdle, MarkDegraded,
       AnnounceDegraded, Reply, FinishRun, NoticeCancel, PanicRun
  <2> QED
    BY <2>1
<1> QED
  BY <1>1, <1>2, <1>3

LEMMA WakeupNext == TypeOK /\ WakeupInv /\ [Next]_vars => WakeupInv'
<1> SUFFICES ASSUME TypeOK, WakeupInv, [Next]_vars PROVE WakeupInv'
  OBVIOUS
<1>1. ASSUME NEW j \in Jobs, (\E r \in Requests : Resolve(j, r)) \/ EnqueueStep(j)
      PROVE  WakeupInv'
  BY <1>1, WakeupEnqueue
<1>2. ASSUME NEW s \in Stops, Sweep(s) PROVE WakeupInv'
  BY <1>2 DEF Sweep, Drain, WakeupInv, NoLostWakeup
<1>3. ASSUME UNCHANGED <<queue, notify, call, pc, shutdown, halt>> PROVE WakeupInv'
  <2>1. \A j \in Jobs : InQueue(j)' = InQueue(j)
    BY <1>3 DEF InQueue
  <2> QED
    BY <1>3, <2>1 DEF WakeupInv, NoLostWakeup
<1>4. ASSUME NEW s \in Stops, StopStep(s) PROVE WakeupInv'
  BY <1>3, <1>4 DEF StopStep, AnswerCleared, AnnounceStop
<1>5. ASSUME NEW h \in Halts, RaiseShutdown(h) \/ HaltStep(h) PROVE WakeupInv'
  BY <1>5, WakeupHalt
<1>6. CASE (\E c \in Configs : StoreRegistry(c)) \/ StoreConfig
  BY <1>3, <1>6 DEF StoreRegistry, StoreConfig
<1>7. CASE WorkerStep \/ ProviderStep
  BY <1>7, WakeupWorker
<1>8. CASE UNCHANGED vars
  BY <1>3, <1>8 DEF vars
<1> QED
  BY <1>1, <1>2, <1>4, <1>5, <1>6, <1>7, <1>8 DEF Next

\* The worker never sleeps on a waiting job or a raised flag: notify_one leaves
\* a permit when it comes between the worker's look and its await (worker.rs).
THEOREM WakeupsNeverLost == Spec => []NoLostWakeup
<1>1. WakeupInv => NoLostWakeup
  BY DEF WakeupInv
<1> QED
  BY <1>1, WakeupInit, WakeupNext, TypeCorrect, PTL DEF Spec

-----------------------------------------------------------------------------
(* Reloads *)

LEMMA RegistryInit == Init => RegistryInv
  BY DEF Init, RegistryInv

\* Calls and the other steps of the worker touch neither what reload_config
\* stores nor a snapshot still to be used.
LEMMA RegistryFrame ==
    ASSUME RegistryInv, UNCHANGED confVars,
           pc' \in {"registry", "select"} => UNCHANGED <<pc, snapshot>>
    PROVE  RegistryInv'
  BY DEF RegistryInv

LEMMA RegistryNext == TypeOK /\ RegistryInv /\ [Next]_vars => RegistryInv'
<1> SUFFICES ASSUME TypeOK, RegistryInv, [Next]_vars PROVE RegistryInv'
  OBVIOUS
<1>1. ASSUME NEW j \in Jobs, (\E r \in Requests : Resolve(j, r)) \/ EnqueueStep(j)
      PROVE  RegistryInv'
  BY <1>1, RegistryFrame DEF Resolve, EnqueueStep, Push, NotifyPushed, Announce
<1>2. ASSUME NEW s \in Stops, Sweep(s) \/ StopStep(s) PROVE RegistryInv'
  BY <1>2, RegistryFrame DEF Sweep, StopStep, AnswerCleared, AnnounceStop
<1>3. ASSUME NEW h \in Halts, RaiseShutdown(h) \/ HaltStep(h) PROVE RegistryInv'
  BY <1>3, RegistryFrame DEF RaiseShutdown, HaltStep, CancelCurrent, NotifyShutdown
<1>4. ASSUME NEW c \in Configs, StoreRegistry(c) PROVE RegistryInv'
  <2>1. /\ registry' = Registry(c) /\ reload' = {c} /\ recent' = recent \cup {c}
        /\ reload = {} /\ UNCHANGED <<config, pc, snapshot>>
    BY <1>4 DEF StoreRegistry
  <2> QED
    BY <2>1 DEF RegistryInv
<1>5. CASE StoreConfig
  <2>1. reload' = {} /\ UNCHANGED <<registry, recent, pc, snapshot>>
    BY <1>5 DEF StoreConfig
  <2>2. PICK c \in reload : config' = c
    BY <1>5 DEF StoreConfig
  <2> QED
    BY <2>1, <2>2 DEF RegistryInv
<1>6. CASE Pop
  <2>1. CASE queue # <<>>
    <3>1. /\ pc' = "registry" /\ recent' = {config} \cup reload
          /\ UNCHANGED <<config, registry, reload>>
      BY <1>6, <2>1 DEF Pop, Goto
    <3> QED
      BY <3>1 DEF RegistryInv
  <2>2. CASE queue = <<>>
    BY <1>6, <2>2, RegistryFrame DEF Pop, Goto
  <2> QED
    BY <2>1, <2>2
<1>7. CASE LoadRegistry
  <2>1. /\ pc = "registry" /\ pc' = "select" /\ snapshot' = registry
        /\ UNCHANGED <<config, registry, reload, recent>>
    BY <1>7 DEF LoadRegistry, Goto
  <2>2. {config} \cup reload \subseteq recent
    BY <2>1 DEF RegistryInv
  <2>3. \E c \in recent : registry = Registry(c)
    BY <2>2 DEF RegistryInv
  <2> QED
    BY <2>1, <2>2, <2>3 DEF RegistryInv
<1>8. CASE \/ CheckShutdown \/ Wake \/ SelectProvider \/ SetSpeaking \/ AnnounceStart
           \/ BeginSynthesis \/ Report \/ ClearCurrent \/ SetIdle \/ MarkDegraded
           \/ AnnounceDegraded \/ Reply \/ ProviderStep
  <2>1. UNCHANGED confVars /\ pc' \notin {"registry", "select"}
    BY <1>8 DEF CheckShutdown, Wake, SelectProvider, SetSpeaking, AnnounceStart,
       BeginSynthesis, Report, ClearCurrent, SetIdle, MarkDegraded, AnnounceDegraded, Reply,
       ProviderStep, FinishRun, NoticeCancel, PanicRun, EndRun, Goto
  <2> QED
    BY <2>1, RegistryFrame
<1>9. CASE UNCHANGED vars
  BY <1>9, RegistryFrame DEF vars
<1> QED
  BY <1>1, <1>2, <1>3, <1>4, <1>5, <1>6, <1>7, <1>8, <1>9 DEF Next, WorkerStep

\* However reloads fall between the pop of a job and the two loads that find its
\* backend, both loads return something that is in force, or being put in force,
\* since the pop: a reload that was over by then is never missed, whatever an
\* earlier job or the call itself had loaded (worker.rs, reload_config and
\* process_job).  The two may be of different configurations: see SwapIsAtomic.
THEOREM ReloadsTakeEffect == Spec => NextJobSeesReload
<1> DEFINE Sees == pc = "select" /\ pc' # pc =>
        \E c, d \in recent : Chosen = Select(Registry(c), primary[job], d.order)
<1>1. ASSUME RegistryInv, Next PROVE Sees
  <2> SUFFICES ASSUME pc = "select"
               PROVE  \E c, d \in recent : Chosen = Select(Registry(c), primary[job], d.order)
    OBVIOUS
  <2>1. PICK c \in recent : snapshot = Registry(c)
    BY <1>1 DEF RegistryInv
  <2>2. config \in recent
    BY <1>1 DEF RegistryInv
  <2> QED
    BY <2>1, <2>2 DEF Chosen
<1>2. RegistryInv /\ [Next]_vars => [Sees]_vars
  BY <1>1
<1> QED
  BY <1>2, RegistryInit, RegistryNext, TypeCorrect, PTL DEF Spec, NextJobSeesReload

-----------------------------------------------------------------------------
(* The limit *)

LEMMA LimitEnqueue ==
    ASSUME TypeOK, CustodyInv, QueueWithinLimit, NEW j \in Jobs,
           (\E r \in Requests : Resolve(j, r)) \/ EnqueueStep(j)
    PROVE  QueueWithinLimit'
<1> USE DEF QueueWithinLimit
<1>0. queue \in Seq(Jobs) /\ Len(queue) \in Nat
  BY DEF TypeOK
<1>1. ASSUME NEW r \in Requests, Resolve(j, r) PROVE QueueWithinLimit'
  <2>1. ~InQueue(j)
    BY <1>1 DEF Resolve, At, CustodyInv, Accepted, Owned
  <2>2. \A i \in DOMAIN queue : queue[i] # j /\ queue[i] \in Jobs
    BY <1>0, <2>1 DEF InQueue, Contains
  <2>3. queue' = queue /\ \A k \in Jobs \ {j} : loaded'[k] = loaded[k]
    BY <1>1 DEF TypeOK, Resolve
  <2> QED
    BY <2>2, <2>3
<1>2. CASE Push(j)
  <2>1. CASE IsFull(j)
    BY <1>2, <2>1 DEF Push
  <2>2. CASE ~IsFull(j)
    <3>1. queue' = Append(queue, j) /\ loaded' = loaded
      BY <1>2, <2>2 DEF Push
    <3>2. /\ DOMAIN queue' = 1 .. Len(queue) + 1 /\ queue'[Len(queue) + 1] = j
          /\ DOMAIN queue = 1 .. Len(queue)
          /\ \A i \in 1 .. Len(queue) : queue'[i] = queue[i]
      BY <1>0, <3>1
    <3>3. loaded[j].capacity \in Nat
      BY ConfigsAssumption DEF TypeOK, IsConfig
    <3>4. loaded[j].capacity > 0 => Len(queue) + 1 <= loaded[j].capacity
      BY <1>0, <2>2, <3>3 DEF IsFull
    <3> QED
      BY <1>0, <3>1, <3>2, <3>4
  <2> QED
    BY <2>1, <2>2
<1>3. CASE NotifyPushed(j) \/ Announce(j)
  BY <1>3 DEF NotifyPushed, Announce
<1> QED
  BY <1>1, <1>2, <1>3 DEF EnqueueStep

LEMMA LimitNext == TypeOK /\ CustodyInv /\ QueueWithinLimit /\ [Next]_vars => QueueWithinLimit'
<1> SUFFICES ASSUME TypeOK, CustodyInv, QueueWithinLimit, [Next]_vars PROVE QueueWithinLimit'
  OBVIOUS
<1>1. ASSUME NEW j \in Jobs, (\E r \in Requests : Resolve(j, r)) \/ EnqueueStep(j)
      PROVE  QueueWithinLimit'
  BY <1>1, LimitEnqueue
<1>2. ASSUME NEW s \in Stops, Sweep(s) PROVE QueueWithinLimit'
  BY <1>2 DEF Sweep, Drain, QueueWithinLimit
<1>3. CASE Pop
  <2>1. CASE queue = <<>>
    BY <1>3, <2>1 DEF Pop, QueueWithinLimit
  <2>2. CASE queue # <<>>
    <3>1. queue' = Tail(queue) /\ loaded' = loaded /\ queue \in Seq(Jobs)
      BY <1>3, <2>2 DEF Pop, Take, TypeOK
    <3>2. \A i \in DOMAIN queue' : i \in Nat /\ i + 1 \in DOMAIN queue /\ queue'[i] = queue[i + 1]
      BY <2>2, <3>1
    <3>3. \A k \in Jobs : loaded[k].capacity \in Nat
      BY ConfigsAssumption DEF TypeOK, IsConfig
    <3>4. \A i \in DOMAIN queue : queue[i] \in Jobs
      BY <3>1
    <3> QED
      BY <3>1, <3>2, <3>3, <3>4 DEF QueueWithinLimit
  <2> QED
    BY <2>1, <2>2
<1>4. ASSUME UNCHANGED <<queue, loaded>> PROVE QueueWithinLimit'
  BY <1>4 DEF QueueWithinLimit
<1>5. ASSUME NEW s \in Stops, StopStep(s) PROVE QueueWithinLimit'
  BY <1>4, <1>5 DEF StopStep, AnswerCleared, AnnounceStop
<1>6. ASSUME NEW h \in Halts, RaiseShutdown(h) \/ HaltStep(h) PROVE QueueWithinLimit'
  BY <1>4, <1>6 DEF RaiseShutdown, HaltStep, CancelCurrent, NotifyShutdown
<1>7. CASE (\E c \in Configs : StoreRegistry(c)) \/ StoreConfig
  BY <1>4, <1>7 DEF StoreRegistry, StoreConfig
<1>8. CASE (WorkerStep /\ ~Pop) \/ ProviderStep
  BY <1>4, <1>8 DEF WorkerStep, ProviderStep, CheckShutdown, Wake, LoadRegistry,
     SelectProvider, SetSpeaking, AnnounceStart, BeginSynthesis, Report, ClearCurrent,
     SetIdle, MarkDegraded, AnnounceDegraded, Reply, FinishRun, NoticeCancel, PanicRun
<1>9. CASE UNCHANGED vars
  BY <1>4, <1>9 DEF vars
<1> QED
  BY <1>1, <1>2, <1>3, <1>5, <1>6, <1>7, <1>8, <1>9 DEF Next

\* No call gets a job past the limit of the configuration it loaded, however many
\* calls race for the last place and whatever reloads do to the limit meanwhile:
\* the comparison and the push are one section (worker.rs, enqueue_inner).
THEOREM LimitHolds == Spec => []QueueWithinLimit
<1>1. Init => QueueWithinLimit
  BY DEF Init, QueueWithinLimit
<1> QED
  BY <1>1, LimitNext, TypeCorrect, Custody, PTL DEF Spec

-----------------------------------------------------------------------------
(* Cancellation *)

LEMMA CancelNext == TypeOK /\ WorkerInv /\ CancelInv /\ [Next]_vars => CancelInv'
<1> SUFFICES ASSUME TypeOK, WorkerInv, CancelInv, [Next]_vars PROVE CancelInv'
  OBVIOUS
<1>1. ASSUME UNCHANGED workerVars, cancelled \subseteq cancelled', UNCHANGED <<shutdown, halt>>
      PROVE  CancelInv'
  BY <1>1 DEF CancelInv
<1>2. ASSUME NEW j \in Jobs, (\E r \in Requests : Resolve(j, r)) \/ EnqueueStep(j)
      PROVE  CancelInv'
  BY <1>1, <1>2 DEF Resolve, EnqueueStep, Push, NotifyPushed, Announce
<1>3. ASSUME NEW s \in Stops, Sweep(s) \/ StopStep(s) PROVE CancelInv'
  BY <1>1, <1>3 DEF Sweep, TripCurrent, StopStep, AnswerCleared, AnnounceStop
<1>4. ASSUME NEW h \in Halts, RaiseShutdown(h) \/ HaltStep(h) PROVE CancelInv'
  <2>1. UNCHANGED workerVars /\ cancelled \subseteq cancelled'
    BY <1>4 DEF RaiseShutdown, HaltStep, CancelCurrent, TripCurrent, NotifyShutdown
  <2>2. \A g \in Halts : halt'[g] # "new" => shutdown'
    BY <1>4 DEF TypeOK, CancelInv, RaiseShutdown, HaltStep, CancelCurrent, NotifyShutdown
  <2> QED
    BY <2>1, <2>2 DEF CancelInv
<1>5. CASE (\E c \in Configs : StoreRegistry(c)) \/ StoreConfig
  BY <1>1, <1>5 DEF StoreRegistry, StoreConfig
<1>6. CASE WorkerStep \/ ProviderStep
  BY <1>6 DEF WorkerStep, ProviderStep, CheckShutdown, Pop, Wake, LoadRegistry,
     SelectProvider, SetSpeaking, AnnounceStart, BeginSynthesis, EndRun, Report, ClearCurrent,
     SetIdle, MarkDegraded, AnnounceDegraded, Reply, FinishRun, NoticeCancel, PanicRun,
     Goto, CancelInv, DecidedPc, PanicPc
<1>7. CASE UNCHANGED vars
  BY <1>1, <1>7 DEF vars
<1> QED
  BY <1>2, <1>3, <1>4, <1>5, <1>6, <1>7 DEF Next

THEOREM Cancellation == Spec => []CancelInv
<1>1. Init => CancelInv
  BY DEF Init, CancelInv, DecidedPc, PanicPc
<1> QED
  BY <1>1, CancelNext, TypeCorrect, WorkerInvariant, PTL DEF Spec

-----------------------------------------------------------------------------
(* The event stream *)

LEMMA NewEvent ==
    ASSUME TypeOK, NEW kind \in EventKinds, NEW j \in Jobs \cup {NoJob}, Send(kind, j)
    PROVE  /\ Len(events) \in Nat /\ Len(events') = Len(events) + 1
           /\ DOMAIN events = 1 .. Len(events) /\ DOMAIN events' = 1 .. Len(events) + 1
           /\ \A i \in 1 .. Len(events) : events'[i] = events[i]
           /\ events'[Len(events) + 1] = Event(kind, j)
           /\ events'[Len(events) + 1].kind = kind /\ events'[Len(events) + 1].job = j
           /\ \A k, x : Sent(k, x)' <=> Sent(k, x) \/ (k = kind /\ x = j)
<1>1. events \in Seq(Events) /\ events' = Append(events, Event(kind, j)) /\ Event(kind, j) \in Events
  BY EventType DEF TypeOK, Send
<1>2. \A k, x : Event(k, x) = Event(kind, j) <=> k = kind /\ x = j
  BY DEF Event
<1>3. \A k, x : Sent(k, x)' <=> Sent(k, x) \/ (k = kind /\ x = j)
  <2> TAKE k, x
  <2>1. Contains(events', Event(k, x)) <=> Contains(events, Event(k, x)) \/ Event(k, x) = Event(kind, j)
    BY <1>1, ContainsAppend
  <2> QED
    BY <1>2, <2>1 DEF Sent
<1>4. Event(kind, j).kind = kind /\ Event(kind, j).job = j
  BY DEF Event
<1>5. /\ Len(events) \in Nat /\ Len(events') = Len(events) + 1
      /\ DOMAIN events = 1 .. Len(events) /\ DOMAIN events' = 1 .. Len(events) + 1
      /\ \A i \in 1 .. Len(events) : events'[i] = events[i]
      /\ events'[Len(events) + 1] = Event(kind, j)
  BY <1>1
<1> QED
  BY <1>3, <1>4, <1>5

\* What is in the stream was sent.
LEMMA SentAt ==
    ASSUME TypeOK, NEW i \in DOMAIN events
    PROVE  Sent(events[i].kind, events[i].job)
<1>1. events \in Seq(Events) /\ DOMAIN events = 1 .. Len(events)
  BY DEF TypeOK
<1>2. events[i] \in Events
  BY <1>1
<1>3. events[i] = Event(events[i].kind, events[i].job)
  BY <1>2 DEF Events, Event
<1> QED
  BY <1>1, <1>3 DEF Sent, Contains

\* A step after which the stream says the same of every job's run.
Silent ==
    /\ \A k \in {"started", "finished", "failed"}, j \in Jobs : Sent(k, j)' = Sent(k, j)
    /\ LifecycleOrder => LifecycleOrder'

LEMMA SilentStutter == UNCHANGED events => Silent
  BY DEF Silent, Sent, LifecycleOrder

LEMMA SilentSend ==
    ASSUME TypeOK, NEW kind \in EventKinds \ {"started", "finished", "failed"},
           NEW j \in Jobs \cup {NoJob}, Send(kind, j)
    PROVE  Silent
<1>1. \A k \in {"started", "finished", "failed"}, x \in Jobs : Sent(k, x)' = Sent(k, x)
  <2>1. \A k, x : Sent(k, x)' <=> Sent(k, x) \/ (k = kind /\ x = j)
    BY NewEvent
  <2>2. kind \notin {"started", "finished", "failed"}
    OBVIOUS
  <2> QED
    BY <2>1, <2>2 DEF Sent, Contains
<1>2. ASSUME LifecycleOrder PROVE LifecycleOrder'
  <2>1. /\ Len(events) \in Nat
        /\ DOMAIN events = 1 .. Len(events) /\ DOMAIN events' = 1 .. Len(events) + 1
        /\ \A i \in 1 .. Len(events) : events'[i] = events[i]
        /\ events'[Len(events) + 1].kind = kind
    BY NewEvent
  <2>2. \A b \in DOMAIN events' : events'[b].kind \in {"started", "finished", "failed"} =>
            b \in DOMAIN events /\ events'[b] = events[b]
    BY <2>1
  <2> SUFFICES ASSUME NEW a \in DOMAIN events', NEW b \in DOMAIN events', a < b,
                      events'[a].job = events'[b].job,
                      {events'[a].kind, events'[b].kind} \subseteq {"started", "finished", "failed"}
               PROVE  events'[a].kind = "started" /\ events'[b].kind # "started"
    BY DEF LifecycleOrder
  <2> QED
    BY <1>2, <2>2 DEF LifecycleOrder
<1> QED
  BY <1>1, <1>2 DEF Silent

\* A silent step that answers nobody and takes no job, under which the worker
\* goes past the report of an end only if there is none to report.
LEMMA EventsSilent ==
    ASSUME EventsInv, Silent, UNCHANGED <<outcome, job>>,
           pc \in TaskPc \cup PanicPc <=> pc' \in TaskPc \cup PanicPc,
           pc \in SpokenPc => pc' \in SpokenPc,
           pc \in ToldPc => pc' \in ToldPc,
           pc' \in ToldPc => \/ pc \in ToldPc /\ UNCHANGED result
                             \/ pc \notin ToldPc /\ result' = "cancelled"
    PROVE  EventsInv'
<1>1. \A j \in Jobs : /\ InFlight(j)' = InFlight(j) /\ outcome'[j] = outcome[j]
                      /\ Sent("started", j)' = Sent("started", j)
                      /\ Sent("finished", j)' = Sent("finished", j)
                      /\ Sent("failed", j)' = Sent("failed", j)
                      /\ Ended(j)' = Ended(j)
  BY DEF InFlight, Silent, Ended
<1>2. LifecycleOrder'
  BY DEF EventsInv, Silent
<1>3. OutcomeMatchesEvents'
  BY <1>1 DEF EventsInv, OutcomeMatchesEvents
<1>4. ASSUME NEW j \in Jobs
      PROVE  /\ Sent("started", j)' \/ Ended(j)' => outcome'[j] # Pending \/ InFlight(j)'
             /\ InFlight(j)' /\ Sent("started", j)' => pc' \in SpokenPc
             /\ InFlight(j)' /\ Ended(j)' => pc' \in ToldPc
             /\ InFlight(j)' /\ pc' \in ToldPc =>
                 /\ result' = "completed" => Sent("finished", j)'
                 /\ result' = "failed" => Sent("failed", j)'
                 /\ result' = "cancelled" => ~Ended(j)'
  <2>1. /\ Sent("started", j) \/ Ended(j) => outcome[j] # Pending \/ InFlight(j)
        /\ InFlight(j) /\ Sent("started", j) => pc \in SpokenPc
        /\ InFlight(j) /\ Ended(j) => pc \in ToldPc
        /\ InFlight(j) /\ pc \in ToldPc =>
            /\ result = "completed" => Sent("finished", j)
            /\ result = "failed" => Sent("failed", j)
            /\ result = "cancelled" => ~Ended(j)
    BY DEF EventsInv
  <2> QED
    BY <1>1, <2>1
<1> QED
  BY <1>2, <1>3, <1>4 DEF EventsInv

LEMMA EventsPop ==
    ASSUME TypeOK, CustodyInv, EventsInv, Pop
    PROVE  EventsInv'
<1>0. Silent
  BY SilentStutter DEF Pop
<1>1. CASE queue = <<>>
  BY <1>0, <1>1, EventsSilent DEF Pop, Goto, TaskPc, PanicPc, SpokenPc, ToldPc
<1>2. CASE queue # <<>>
  <2>1. queue \in Seq(Jobs) /\ Head(queue) \in Jobs
    BY <1>2 DEF TypeOK
  <2> PICK h \in Jobs : h = Head(queue)
    BY <2>1
  <2>2. job' = h /\ pc = "pop" /\ pc' = "registry" /\ UNCHANGED <<events, outcome>>
    BY <1>2 DEF Pop, Take, Goto
  <2>3. \A j \in Jobs : ~InFlight(j) /\ (InFlight(j)' <=> j = h)
    BY <2>2 DEF InFlight, TaskPc, PanicPc
  <2>4. InQueue(h)
    BY <1>2, <2>1, ContainsTail DEF InQueue
  <2>5. outcome[h] = Pending
    BY <2>4 DEF CustodyInv, NoJobTwice
  <2>6. \A j \in Jobs : /\ Sent("started", j)' = Sent("started", j)
                        /\ Sent("finished", j)' = Sent("finished", j)
                        /\ Sent("failed", j)' = Sent("failed", j)
                        /\ Ended(j)' = Ended(j)
    BY <1>0 DEF Silent, Ended
  <2>7. ~Sent("started", h) /\ ~Ended(h)
    BY <2>3, <2>5 DEF EventsInv
  <2>8. LifecycleOrder' /\ OutcomeMatchesEvents'
    BY <1>0, <2>2, <2>6 DEF EventsInv, OutcomeMatchesEvents, Silent
  <2>9. pc' \notin ToldPc
    BY <2>2 DEF ToldPc
  <2> QED
    BY <2>2, <2>3, <2>6, <2>7, <2>8, <2>9 DEF EventsInv
<1> QED
  BY <1>1, <1>2

LEMMA EventsReply ==
    ASSUME TypeOK, WorkerInv, CustodyInv, EventsInv, Reply
    PROVE  EventsInv'
<1>1. pc \in {"reply", "panic_reply"} /\ pc' = "top" /\ UNCHANGED <<events, job, result>>
  BY DEF Reply, Goto
<1> PICK h \in Jobs : h = job
  BY <1>1 DEF WorkerInv, TaskPc, PanicPc
<1>2. /\ InFlight(h) /\ pc \in ToldPc
      /\ \A j \in Jobs : (InFlight(j) => j = h) /\ ~InFlight(j)'
  BY <1>1 DEF InFlight, TaskPc, PanicPc, ToldPc
<1>3. outcome[h] = Pending /\ result \in Outcomes
  BY <1>1, <1>2 DEF CustodyInv, NoJobTwice, WorkerInv, DecidedPc, PanicPc, TypeOK
<1>4. outcome'[h] = result /\ \A j \in Jobs \ {h} : outcome'[j] = outcome[j]
  BY <1>3 DEF TypeOK, Reply, SendWaiter
<1>5. Silent
  BY <1>1, SilentStutter
<1>6. \A j \in Jobs : /\ Sent("started", j)' = Sent("started", j)
                      /\ Sent("finished", j)' = Sent("finished", j)
                      /\ Sent("failed", j)' = Sent("failed", j)
                      /\ Ended(j)' = Ended(j)
  BY <1>5 DEF Silent, Ended
<1>7. /\ result = "completed" => Sent("finished", h)
      /\ result = "failed" => Sent("failed", h)
      /\ result = "cancelled" => ~Sent("finished", h) /\ ~Sent("failed", h)
  BY <1>2 DEF EventsInv, Ended
<1>8. LifecycleOrder'
  BY <1>5 DEF EventsInv, Silent
<1>9. OutcomeMatchesEvents'
  <2> SUFFICES ASSUME NEW j \in Jobs
               PROVE  /\ outcome'[j] = "completed" => Sent("finished", j)'
                      /\ outcome'[j] = "failed" => Sent("failed", j)'
                      /\ outcome'[j] = "cancelled" => ~Sent("finished", j)' /\ ~Sent("failed", j)'
    BY DEF OutcomeMatchesEvents
  <2>1. CASE j = h
    BY <1>4, <1>6, <1>7, <2>1
  <2>2. CASE j # h
    BY <1>4, <1>6, <2>2 DEF EventsInv, OutcomeMatchesEvents
  <2> QED
    BY <2>1, <2>2
<1>10. Pending \notin Outcomes
  BY DEF Outcomes, Pending
<1>11. \A j \in Jobs : Sent("started", j) \/ Ended(j) => outcome'[j] # Pending
  BY <1>2, <1>3, <1>4, <1>10 DEF EventsInv
<1> QED
  BY <1>2, <1>6, <1>8, <1>9, <1>11 DEF EventsInv

LEMMA EventsAnswer ==
    ASSUME TypeOK, CustodyInv, EventsInv, NEW s \in Stops, AnswerCleared(s)
    PROVE  EventsInv'
<1>1. cleared[s] \in Seq(Jobs) /\ cleared[s] # <<>>
  BY DEF TypeOK, AnswerCleared
<1> PICK h \in Jobs : h = Head(cleared[s])
  BY <1>1
<1>2. HeldBy(s, h)
  BY <1>1, ContainsTail DEF HeldBy
<1>3. outcome[h] = Pending /\ ~InFlight(h)
  BY <1>2 DEF CustodyInv, NoJobTwice
<1>4. outcome'[h] = "cancelled" /\ \A j \in Jobs \ {h} : outcome'[j] = outcome[j]
  BY <1>3 DEF TypeOK, AnswerCleared, SendWaiter
<1>5. UNCHANGED <<events, pc, job, result>>
  BY DEF AnswerCleared
<1>6. \A j \in Jobs : /\ Sent("started", j)' = Sent("started", j)
                      /\ Sent("finished", j)' = Sent("finished", j)
                      /\ Sent("failed", j)' = Sent("failed", j)
                      /\ Ended(j)' = Ended(j) /\ InFlight(j)' = InFlight(j)
  BY <1>5 DEF Sent, Ended, InFlight
<1>7. ~Sent("started", h) /\ ~Sent("finished", h) /\ ~Sent("failed", h)
  BY <1>3 DEF EventsInv, Ended
<1>8. LifecycleOrder'
  BY <1>5 DEF EventsInv, LifecycleOrder
<1>9. OutcomeMatchesEvents'
  <2> SUFFICES ASSUME NEW j \in Jobs
               PROVE  /\ outcome'[j] = "completed" => Sent("finished", j)'
                      /\ outcome'[j] = "failed" => Sent("failed", j)'
                      /\ outcome'[j] = "cancelled" => ~Sent("finished", j)' /\ ~Sent("failed", j)'
    BY DEF OutcomeMatchesEvents
  <2>1. CASE j = h
    BY <1>4, <1>6, <1>7, <2>1
  <2>2. CASE j # h
    BY <1>4, <1>6, <2>2 DEF EventsInv, OutcomeMatchesEvents
  <2> QED
    BY <2>1, <2>2
<1>10. \A j \in Jobs : outcome[j] # Pending => outcome'[j] # Pending
  BY <1>3, <1>4
<1>11. ASSUME NEW j \in Jobs
       PROVE  /\ Sent("started", j)' \/ Ended(j)' => outcome'[j] # Pending \/ InFlight(j)'
              /\ InFlight(j)' /\ Sent("started", j)' => pc' \in SpokenPc
              /\ InFlight(j)' /\ Ended(j)' => pc' \in ToldPc
              /\ InFlight(j)' /\ pc' \in ToldPc =>
                  /\ result' = "completed" => Sent("finished", j)'
                  /\ result' = "failed" => Sent("failed", j)'
                  /\ result' = "cancelled" => ~Ended(j)'
  BY <1>5, <1>6, <1>10 DEF EventsInv
<1> QED
  BY <1>8, <1>9, <1>11 DEF EventsInv

\* Appending to the stream what may follow keeps the order of each job's events.
LEMMA OrderSend ==
    ASSUME TypeOK, LifecycleOrder, NEW kind \in {"started", "finished", "failed"}, NEW j \in Jobs,
           Send(kind, j), ~Ended(j), kind = "started" => ~Sent("started", j)
    PROVE  LifecycleOrder'
<1>1. kind \in EventKinds
  BY DEF EventKinds
<1>2. /\ Len(events) \in Nat
      /\ DOMAIN events = 1 .. Len(events) /\ DOMAIN events' = 1 .. Len(events) + 1
      /\ \A i \in 1 .. Len(events) : events'[i] = events[i]
      /\ events'[Len(events) + 1].kind = kind /\ events'[Len(events) + 1].job = j
  BY <1>1, NewEvent
<1>3. ASSUME NEW a \in DOMAIN events, events[a].job = j,
             events[a].kind \in {"started", "finished", "failed"}
      PROVE  events[a].kind = "started" /\ kind # "started"
  BY <1>3, SentAt DEF Ended
<1> SUFFICES ASSUME NEW a \in DOMAIN events', NEW b \in DOMAIN events', a < b,
                    events'[a].job = events'[b].job,
                    {events'[a].kind, events'[b].kind} \subseteq {"started", "finished", "failed"}
             PROVE  events'[a].kind = "started" /\ events'[b].kind # "started"
  BY DEF LifecycleOrder
<1>4. a \in DOMAIN events /\ events'[a] = events[a]
  BY <1>2
<1>5. CASE b \in DOMAIN events
  BY <1>2, <1>4, <1>5 DEF LifecycleOrder
<1>6. CASE b = Len(events) + 1
  BY <1>2, <1>3, <1>4, <1>6
<1> QED
  BY <1>2, <1>5, <1>6

LEMMA EventsStart ==
    ASSUME TypeOK, WorkerInv, CustodyInv, EventsInv, AnnounceStart
    PROVE  EventsInv'
<1>1. pc = "started" /\ pc' = "begin" /\ UNCHANGED <<outcome, job, result>>
  BY DEF AnnounceStart, Goto
<1> PICK h \in Jobs : h = job
  BY <1>1 DEF WorkerInv, TaskPc
<1>2. /\ InFlight(h) /\ pc \notin SpokenPc \cup ToldPc /\ pc' \in SpokenPc \ ToldPc
      /\ \A j \in Jobs : InFlight(j)' = InFlight(j) /\ (InFlight(j) => j = h)
  BY <1>1 DEF InFlight, TaskPc, PanicPc, SpokenPc, ToldPc
<1>3. outcome[h] = Pending /\ ~Sent("started", h) /\ ~Ended(h)
  BY <1>2 DEF CustodyInv, NoJobTwice, EventsInv
<1>4. Send("started", h) /\ "started" \in EventKinds
  BY DEF AnnounceStart, EventKinds
<1>5. \A k, x : Sent(k, x)' <=> Sent(k, x) \/ (k = "started" /\ x = h)
  BY <1>4, NewEvent
<1>6. \A j \in Jobs : /\ Sent("started", j)' <=> Sent("started", j) \/ j = h
                      /\ Sent("finished", j)' <=> Sent("finished", j)
                      /\ Sent("failed", j)' <=> Sent("failed", j)
                      /\ Ended(j)' <=> Ended(j)
  BY <1>5 DEF Ended
<1>7. LifecycleOrder'
  BY <1>3, <1>4, OrderSend DEF EventsInv
<1>8. OutcomeMatchesEvents'
  BY <1>1, <1>6 DEF EventsInv, OutcomeMatchesEvents
<1>9. ASSUME NEW j \in Jobs
      PROVE  /\ Sent("started", j)' \/ Ended(j)' => outcome'[j] # Pending \/ InFlight(j)'
             /\ InFlight(j)' /\ Ended(j)' => pc' \in ToldPc
  BY <1>1, <1>2, <1>3, <1>6 DEF EventsInv
<1> QED
  BY <1>2, <1>7, <1>8, <1>9 DEF EventsInv

LEMMA EventsReport ==
    ASSUME TypeOK, WorkerInv, CustodyInv, CancelInv, EventsInv, Report
    PROVE  EventsInv'
<1>1. /\ pc \in {"report", "panic_report"} /\ pc' \in {"clear", "panic_reply"}
      /\ UNCHANGED <<outcome, job, result>>
  BY DEF Report, Goto
<1> PICK h \in Jobs : h = job
  BY <1>1 DEF WorkerInv, TaskPc, PanicPc
<1>2. /\ InFlight(h) /\ pc \in SpokenPc \ ToldPc /\ pc' \in SpokenPc \cap ToldPc
      /\ \A j \in Jobs : InFlight(j)' = InFlight(j) /\ (InFlight(j) => j = h)
  BY <1>1 DEF InFlight, TaskPc, PanicPc, SpokenPc, ToldPc
<1>3. outcome[h] = Pending /\ ~Ended(h) /\ result # "cancelled"
  BY <1>1, <1>2 DEF CustodyInv, NoJobTwice, EventsInv, CancelInv, PanicPc
<1> DEFINE kind == IF result = "completed" THEN "finished" ELSE "failed"
<1>4. Send(kind, h) /\ kind \in {"finished", "failed"} /\ kind \in EventKinds
  BY DEF Report, AnnounceEnd, EventKinds
<1>5. \A k, x : Sent(k, x)' <=> Sent(k, x) \/ (k = kind /\ x = h)
  BY <1>4, NewEvent
<1>6. LifecycleOrder'
  BY <1>3, <1>4, OrderSend DEF EventsInv
<1>7. \A j \in Jobs \ {h} : /\ Sent("started", j)' <=> Sent("started", j)
                            /\ Sent("finished", j)' <=> Sent("finished", j)
                            /\ Sent("failed", j)' <=> Sent("failed", j)
                            /\ Ended(j)' <=> Ended(j)
  BY <1>5 DEF Ended
<1>8. OutcomeMatchesEvents'
  <2> SUFFICES ASSUME NEW j \in Jobs
               PROVE  /\ outcome'[j] = "completed" => Sent("finished", j)'
                      /\ outcome'[j] = "failed" => Sent("failed", j)'
                      /\ outcome'[j] = "cancelled" => ~Sent("finished", j)' /\ ~Sent("failed", j)'
    BY DEF OutcomeMatchesEvents
  <2>1. CASE j = h
    BY <1>1, <1>3, <2>1 DEF Pending
  <2>2. CASE j # h
    BY <1>1, <1>7, <2>2 DEF EventsInv, OutcomeMatchesEvents
  <2> QED
    BY <2>1, <2>2
<1>9. /\ result = "completed" => Sent("finished", h)'
      /\ result = "failed" => Sent("failed", h)'
  BY <1>5
<1>10. \A j \in Jobs \ {h} : Sent("started", j)' \/ Ended(j)' => outcome'[j] # Pending
  BY <1>1, <1>2, <1>7 DEF EventsInv
<1> QED
  BY <1>1, <1>2, <1>3, <1>6, <1>8, <1>9, <1>10 DEF EventsInv

LEMMA EventsNext ==
    TypeOK /\ WorkerInv /\ CustodyInv /\ CancelInv /\ EventsInv /\ [Next]_vars => EventsInv'
<1> SUFFICES ASSUME TypeOK, WorkerInv, CustodyInv, CancelInv, EventsInv, [Next]_vars
             PROVE  EventsInv'
  OBVIOUS
<1>1. ASSUME UNCHANGED <<outcome, workerVars>>, Silent PROVE EventsInv'
  BY <1>1, EventsSilent
<1>2. ASSUME NEW j \in Jobs, (\E r \in Requests : Resolve(j, r)) \/ EnqueueStep(j)
      PROVE  EventsInv'
  <2>1. CASE Announce(j)
    <3>1. Silent
      BY <2>1, SilentSend DEF Announce, EventKinds
    <3> QED
      BY <1>1, <2>1, <3>1 DEF Announce
  <2>2. CASE (\E r \in Requests : Resolve(j, r)) \/ Push(j) \/ NotifyPushed(j)
    BY <1>1, <2>2, SilentStutter DEF Resolve, Push, NotifyPushed
  <2> QED
    BY <1>2, <2>1, <2>2 DEF EnqueueStep
<1>3. ASSUME NEW s \in Stops, Sweep(s) \/ StopStep(s) PROVE EventsInv'
  <2>1. CASE Sweep(s)
    BY <1>1, <2>1, SilentStutter DEF Sweep
  <2>2. CASE AnswerCleared(s)
    BY <2>2, EventsAnswer
  <2>3. CASE AnnounceStop(s)
    <3>1. hit[s] \in Jobs \cup {NoJob}
      BY DEF TypeOK
    <3>2. Silent
      BY <2>3, <3>1, SilentSend DEF AnnounceStop, EventKinds
    <3> QED
      BY <1>1, <2>3, <3>2 DEF AnnounceStop
  <2> QED
    BY <1>3, <2>1, <2>2, <2>3 DEF StopStep
<1>4. ASSUME NEW h \in Halts, RaiseShutdown(h) \/ HaltStep(h) PROVE EventsInv'
  BY <1>1, <1>4, SilentStutter DEF RaiseShutdown, HaltStep, CancelCurrent, NotifyShutdown
<1>5. CASE (\E c \in Configs : StoreRegistry(c)) \/ StoreConfig
  BY <1>1, <1>5, SilentStutter DEF StoreRegistry, StoreConfig
<1>6. CASE Pop \/ AnnounceStart \/ Report \/ Reply
  BY <1>6, EventsPop, EventsStart, EventsReport, EventsReply
<1>7. CASE AnnounceDegraded
  <2>1. Silent
    BY <1>7, SilentSend DEF AnnounceDegraded, EventKinds
  <2> QED
    BY <1>7, <2>1, EventsSilent DEF AnnounceDegraded, Goto, TaskPc, PanicPc, SpokenPc, ToldPc
<1>8. CASE \/ CheckShutdown \/ Wake \/ LoadRegistry \/ SelectProvider \/ SetSpeaking
           \/ BeginSynthesis \/ ClearCurrent \/ SetIdle \/ MarkDegraded \/ ProviderStep
  <2>1. Silent /\ UNCHANGED <<outcome, job>>
    BY <1>8, SilentStutter DEF CheckShutdown, Wake, LoadRegistry, SelectProvider, SetSpeaking,
       BeginSynthesis, ClearCurrent, SetIdle, MarkDegraded, ProviderStep, FinishRun,
       NoticeCancel, PanicRun
  <2>2. /\ pc \in TaskPc \cup PanicPc <=> pc' \in TaskPc \cup PanicPc
        /\ pc \in SpokenPc => pc' \in SpokenPc
        /\ pc \in ToldPc => pc' \in ToldPc
        /\ pc' \in ToldPc => \/ pc \in ToldPc /\ UNCHANGED result
                             \/ pc \notin ToldPc /\ result' = "cancelled"
    BY <1>8 DEF CheckShutdown, Wake, LoadRegistry, SelectProvider, SetSpeaking,
       BeginSynthesis, ClearCurrent, SetIdle, MarkDegraded, ProviderStep, FinishRun,
       NoticeCancel, PanicRun, EndRun, Goto, TaskPc, PanicPc, SpokenPc, ToldPc
  <2> QED
    BY <2>1, <2>2, EventsSilent
<1>9. CASE UNCHANGED vars
  BY <1>1, <1>9, SilentStutter DEF vars
<1> QED
  BY <1>2, <1>3, <1>4, <1>5, <1>6, <1>7, <1>8, <1>9 DEF Next, WorkerStep

LEMMA EventsInit == Init => EventsInv
  BY DEF Init, EventsInv, OutcomeMatchesEvents, LifecycleOrder, Sent, Ended, Contains,
     InFlight, TaskPc, PanicPc, Pending

THEOREM EventStream == Spec => []EventsInv
  BY EventsInit, EventsNext, TypeCorrect, WorkerInvariant, Custody, Cancellation, PTL DEF Spec

\* The stream and the waiter tell the same story: the end of a job is announced
\* before it is answered, and a cancelled job has no end to announce, whether a
\* stop call or the worker answered it (worker.rs, process_job and stop).
THEOREM OutcomesMatchEvents == Spec => []OutcomeMatchesEvents
<1>1. EventsInv => OutcomeMatchesEvents
  BY DEF EventsInv
<1> QED
  BY <1>1, EventStream, PTL

\* No job is announced twice, none ends twice, and none starts after its end,
\* although three paths of the worker announce ends (worker.rs, process_job and
\* handle_panicked_job).
THEOREM LifecyclesOrdered == Spec => []LifecycleOrder
<1>1. EventsInv => LifecycleOrder
  BY DEF EventsInv
<1> QED
  BY <1>1, EventStream, PTL

-----------------------------------------------------------------------------
(* Utterances *)

\* Steps that announce nothing, under which a job that was announced stays with
\* the worker until its end is announced, or is cancelled.
LEMMA UtteranceSilent ==
    ASSUME UtteranceInv, UNCHANGED events, cancelled \subseteq cancelled',
           \A j \in Jobs : InFlight(j) /\ pc \in SpokenPc \ ToldPc =>
               j \in cancelled' \/ (InFlight(j)' /\ pc' \in SpokenPc \ ToldPc),
           \A a \in DOMAIN events : events[a].job \in Jobs \cup {NoJob},
           InFlight(NoJob) => pc \notin SpokenPc
    PROVE  UtteranceInv'
<1>1. UtterancesNeverOverlap'
  BY DEF UtteranceInv, UtterancesNeverOverlap
<1>2. \A a, b : IsOver(a, b)' = IsOver(a, b)
  BY DEF IsOver
<1> SUFFICES ASSUME NEW a \in DOMAIN events, events[a].kind = "started"
             PROVE  \/ events[a].job \in cancelled'
                    \/ IsOver(a, Len(events))
                    \/ InFlight(events[a].job)' /\ pc' \in SpokenPc \ ToldPc
  BY <1>1, <1>2 DEF UtteranceInv
<1>3. \/ events[a].job \in cancelled
      \/ IsOver(a, Len(events))
      \/ InFlight(events[a].job) /\ pc \in SpokenPc \ ToldPc
  BY DEF UtteranceInv
<1> QED
  BY <1>3

\* An event that starts no utterance leaves what was over as it was.
LEMMA UtteranceSend ==
    ASSUME TypeOK, WorkerInv, UtteranceInv, NEW kind \in EventKinds \ {"started"},
           NEW j \in Jobs \cup {NoJob}, Send(kind, j), cancelled \subseteq cancelled',
           pc \in SpokenPc \ ToldPc =>
              \/ UNCHANGED job /\ pc' \in SpokenPc \ ToldPc
              \/ j = job /\ kind \in {"finished", "failed"}
    PROVE  UtteranceInv'
<1>1. /\ Len(events) \in Nat /\ Len(events') = Len(events) + 1
      /\ DOMAIN events = 1 .. Len(events) /\ DOMAIN events' = 1 .. Len(events) + 1
      /\ \A i \in 1 .. Len(events) : events'[i] = events[i]
      /\ events'[Len(events) + 1].kind = kind /\ events'[Len(events) + 1].job = j
  BY NewEvent
<1>2. \A a \in DOMAIN events' : events'[a].kind = "started" => a \in DOMAIN events
  BY <1>1
<1>3. UtterancesNeverOverlap'
  <2> SUFFICES ASSUME NEW a \in DOMAIN events', NEW b \in DOMAIN events', a < b,
                      events'[a].kind = "started", events'[b].kind = "started"
               PROVE  \/ events'[a].job \in cancelled'
                      \/ \E i \in a .. b : /\ events'[i].kind \in {"finished", "failed"}
                                           /\ events'[i].job = events'[a].job
    BY DEF UtterancesNeverOverlap
  <2>1. a \in DOMAIN events /\ b \in DOMAIN events
    BY <1>2
  <2>2. \/ events[a].job \in cancelled
        \/ \E i \in a .. b : /\ events[i].kind \in {"finished", "failed"}
                             /\ events[i].job = events[a].job
    BY <1>1, <2>1 DEF UtteranceInv, UtterancesNeverOverlap
  <2>3. \A i \in a .. b : events'[i] = events[i]
    BY <1>1, <2>1
  <2> QED
    BY <1>1, <2>1, <2>2, <2>3
<1>4. ASSUME NEW a \in DOMAIN events', events'[a].kind = "started"
      PROVE  \/ events'[a].job \in cancelled'
             \/ IsOver(a, Len(events))'
             \/ InFlight(events[a].job)' /\ pc' \in SpokenPc \ ToldPc
  <2>1. a \in 1 .. Len(events) /\ events'[a] = events[a]
    BY <1>1, <1>2, <1>4
  <2>2. \/ events[a].job \in cancelled
        \/ IsOver(a, Len(events))
        \/ InFlight(events[a].job) /\ pc \in SpokenPc \ ToldPc
    BY <1>1, <1>4, <2>1 DEF UtteranceInv
  <2>3. CASE IsOver(a, Len(events))
    <3>1. PICK i \in a .. Len(events) : events[i].kind \in {"finished", "failed"} /\ events[i].job = events[a].job
      BY <2>3 DEF IsOver
    <3>2. i \in a .. Len(events') /\ events'[i] = events[i]
      BY <1>1, <2>1
    <3> QED
      BY <2>1, <3>1, <3>2 DEF IsOver
  <2>4. CASE InFlight(events[a].job) /\ pc \in SpokenPc \ ToldPc
    <3>1. events[a].job = job
      BY <2>4 DEF InFlight
    <3>2. CASE j = job /\ kind \in {"finished", "failed"}
      <4>1. Len(events) + 1 \in a .. Len(events')
        BY <1>1, <2>1
      <4> QED
        BY <1>1, <2>1, <3>1, <3>2, <4>1 DEF IsOver
    <3>3. CASE UNCHANGED job /\ pc' \in SpokenPc \ ToldPc
      BY <2>1, <3>1, <3>3 DEF InFlight, SpokenPc, TaskPc
    <3> QED
      BY <2>4, <3>2, <3>3
  <2> QED
    BY <2>1, <2>2, <2>3, <2>4
<1> QED
  BY <1>3, <1>4 DEF UtteranceInv

LEMMA UtteranceStart ==
    ASSUME TypeOK, WorkerInv, UtteranceInv, AnnounceStart
    PROVE  UtteranceInv'
<1>1. pc = "started" /\ pc' = "begin" /\ UNCHANGED <<cancelled, job>>
  BY DEF AnnounceStart, Goto
<1> PICK h \in Jobs : h = job
  BY <1>1 DEF WorkerInv, TaskPc
<1>2. Send("started", h) /\ "started" \in EventKinds
  BY DEF AnnounceStart, EventKinds
<1>3. /\ Len(events) \in Nat /\ Len(events') = Len(events) + 1
      /\ DOMAIN events = 1 .. Len(events) /\ DOMAIN events' = 1 .. Len(events) + 1
      /\ \A i \in 1 .. Len(events) : events'[i] = events[i]
      /\ events'[Len(events) + 1].kind = "started" /\ events'[Len(events) + 1].job = h
  BY <1>2, NewEvent
<1>4. ASSUME NEW a \in DOMAIN events, events[a].kind = "started"
      PROVE  \/ events[a].job \in cancelled
             \/ \E i \in a .. Len(events) : /\ events'[i].kind \in {"finished", "failed"}
                                            /\ events'[i].job = events'[a].job
  <2>1. events[a].job \in cancelled \/ IsOver(a, Len(events))
    BY <1>1, <1>4 DEF UtteranceInv, SpokenPc, PanicPc
  <2>2. \A i \in a .. Len(events) : events'[i] = events[i]
    BY <1>3
  <2> QED
    BY <1>3, <2>1, <2>2 DEF IsOver
<1>5. UtterancesNeverOverlap'
  <2> SUFFICES ASSUME NEW a \in DOMAIN events', NEW b \in DOMAIN events', a < b,
                      events'[a].kind = "started", events'[b].kind = "started"
               PROVE  \/ events'[a].job \in cancelled'
                      \/ \E i \in a .. b : /\ events'[i].kind \in {"finished", "failed"}
                                           /\ events'[i].job = events'[a].job
    BY DEF UtterancesNeverOverlap
  <2>1. a \in DOMAIN events /\ events'[a] = events[a]
    BY <1>3
  <2>2. CASE b \in DOMAIN events
    <3>1. \A i \in a .. b : events'[i] = events[i]
      BY <1>3, <2>1, <2>2
    <3>2. \/ events[a].job \in cancelled
          \/ \E i \in a .. b : /\ events[i].kind \in {"finished", "failed"}
                               /\ events[i].job = events[a].job
      BY <1>3, <2>1, <2>2 DEF UtteranceInv, UtterancesNeverOverlap
    <3> QED
      BY <1>1, <2>1, <3>1, <3>2
  <2>3. CASE b = Len(events) + 1
    <3>1. \A i \in a .. Len(events) : i \in a .. b
      BY <1>3, <2>1, <2>3
    <3> QED
      BY <1>1, <1>4, <2>1, <3>1
  <2> QED
    BY <1>3, <2>2, <2>3
<1>6. ASSUME NEW a \in DOMAIN events', events'[a].kind = "started"
      PROVE  \/ events'[a].job \in cancelled'
             \/ IsOver(a, Len(events))'
             \/ InFlight(events[a].job)' /\ pc' \in SpokenPc \ ToldPc
  <2>1. CASE a \in DOMAIN events
    <3>1. \A i \in a .. Len(events) : i \in a .. Len(events')
      BY <1>3, <2>1
    <3> QED
      BY <1>1, <1>3, <1>4, <1>6, <2>1, <3>1 DEF IsOver
  <2>2. CASE a = Len(events) + 1
    BY <1>1, <1>3, <2>2 DEF InFlight, TaskPc, SpokenPc, ToldPc
  <2> QED
    BY <1>3, <2>1, <2>2
<1> QED
  BY <1>5, <1>6 DEF UtteranceInv

LEMMA UtteranceNext ==
    TypeOK /\ WorkerInv /\ UtteranceInv /\ [Next]_vars => UtteranceInv'
<1> SUFFICES ASSUME TypeOK, WorkerInv, UtteranceInv, [Next]_vars PROVE UtteranceInv'
  OBVIOUS
<1>0. \A a \in DOMAIN events : events[a].job \in Jobs \cup {NoJob}
  <2>1. events \in Seq(Events)
    BY DEF TypeOK
  <2>2. \A a \in DOMAIN events : events[a] \in Events
    BY <2>1
  <2> QED
    BY <2>2 DEF Events
<1>1. InFlight(NoJob) => pc \notin SpokenPc
  BY NoJobAssumption DEF WorkerInv, InFlight
<1>3. ASSUME UNCHANGED <<events, pc, job>>, cancelled \subseteq cancelled' PROVE UtteranceInv'
  BY <1>0, <1>1, <1>3, UtteranceSilent DEF InFlight
<1>4. ASSUME NEW j \in Jobs, (\E r \in Requests : Resolve(j, r)) \/ EnqueueStep(j)
      PROVE  UtteranceInv'
  <2>1. CASE Announce(j)
    <3>1. Send("enqueued", j) /\ UNCHANGED <<cancelled, pc, job>>
      BY <2>1 DEF Announce
    <3> QED
      BY <3>1, UtteranceSend DEF EventKinds
  <2>2. CASE (\E r \in Requests : Resolve(j, r)) \/ Push(j) \/ NotifyPushed(j)
    BY <1>3, <2>2 DEF Resolve, Push, NotifyPushed
  <2> QED
    BY <1>4, <2>1, <2>2 DEF EnqueueStep
<1>5. ASSUME NEW s \in Stops, Sweep(s) \/ StopStep(s) PROVE UtteranceInv'
  <2>1. CASE Sweep(s) \/ AnswerCleared(s)
    BY <1>3, <2>1 DEF Sweep, TripCurrent, AnswerCleared
  <2>2. CASE AnnounceStop(s)
    <3>1. hit[s] \in Jobs \cup {NoJob}
      BY DEF TypeOK
    <3>2. Send("stopped", hit[s]) /\ UNCHANGED <<cancelled, pc, job>>
      BY <2>2 DEF AnnounceStop
    <3> QED
      BY <3>1, <3>2, UtteranceSend DEF EventKinds
  <2> QED
    BY <1>5, <2>1, <2>2 DEF StopStep
<1>6. ASSUME NEW h \in Halts, RaiseShutdown(h) \/ HaltStep(h) PROVE UtteranceInv'
  BY <1>3, <1>6 DEF RaiseShutdown, HaltStep, CancelCurrent, TripCurrent, NotifyShutdown
<1>7. CASE (\E c \in Configs : StoreRegistry(c)) \/ StoreConfig
  BY <1>3, <1>7 DEF StoreRegistry, StoreConfig
<1>8. CASE AnnounceStart
  BY <1>8, UtteranceStart
<1>9. CASE Report
  <2>1. job \in Jobs /\ cancelled' = cancelled
    BY <1>9 DEF Report, Goto, WorkerInv, TaskPc, PanicPc
  <2>2. Send("finished", job) \/ Send("failed", job)
    BY <1>9 DEF Report, AnnounceEnd
  <2> QED
    BY <2>1, <2>2, UtteranceSend DEF EventKinds
<1>10. CASE AnnounceDegraded
  <2>1. Send("degraded", NoJob) /\ UNCHANGED <<cancelled, job>>
    BY <1>10 DEF AnnounceDegraded
  <2>2. pc' \in SpokenPc \ ToldPc
    BY <1>10 DEF AnnounceDegraded, Goto, SpokenPc, ToldPc, PanicPc
  <2> QED
    BY <2>1, <2>2, UtteranceSend DEF EventKinds
<1>11. CASE Pop
  <2>1. pc \notin SpokenPc /\ UNCHANGED <<events, cancelled>>
    BY <1>11 DEF Pop, Goto, SpokenPc, PanicPc
  <2> QED
    BY <1>0, <2>1, UtteranceSilent
<1>12. CASE \/ CheckShutdown \/ Wake \/ LoadRegistry \/ SelectProvider \/ SetSpeaking
            \/ BeginSynthesis \/ ClearCurrent \/ SetIdle \/ MarkDegraded \/ Reply
            \/ ProviderStep
  <2>1. UNCHANGED <<events, cancelled, job>>
    BY <1>12 DEF CheckShutdown, Wake, LoadRegistry, SelectProvider, SetSpeaking,
       BeginSynthesis, ClearCurrent, SetIdle, MarkDegraded, Reply, ProviderStep, FinishRun,
       NoticeCancel, PanicRun
  <2>2. pc \in SpokenPc \ ToldPc => job \in cancelled \/ pc' \in SpokenPc \ ToldPc
    BY <1>12 DEF CheckShutdown, Wake, LoadRegistry, SelectProvider, SetSpeaking,
       BeginSynthesis, ClearCurrent, SetIdle, MarkDegraded, Reply, ProviderStep, FinishRun,
       NoticeCancel, PanicRun, EndRun, Goto, SpokenPc, ToldPc, PanicPc
  <2>3. pc' \in SpokenPc => pc' \in TaskPc \cup PanicPc
    BY DEF SpokenPc, TaskPc
  <2>4. \A j \in Jobs : InFlight(j) /\ pc \in SpokenPc \ ToldPc =>
            j \in cancelled' \/ (InFlight(j)' /\ pc' \in SpokenPc \ ToldPc)
    BY <2>1, <2>2, <2>3 DEF InFlight
  <2> QED
    BY <1>0, <1>1, <2>1, <2>4, UtteranceSilent
<1>13. CASE UNCHANGED vars
  BY <1>3, <1>13 DEF vars
<1> QED
  BY <1>4, <1>5, <1>6, <1>7, <1>8, <1>9, <1>10, <1>11, <1>12, <1>13 DEF Next, WorkerStep

LEMMA UtteranceInit == Init => UtteranceInv
  BY DEF Init, UtteranceInv, UtterancesNeverOverlap

\* Between two started events the first job has ended or has been cancelled, for
\* any number of jobs and however calls, failures and panics interleave: what the
\* tray and the MCP peers show as being spoken is one job (worker.rs, worker_loop).
THEOREM OneUtterance == Spec => []UtterancesNeverOverlap
<1>1. UtteranceInv => UtterancesNeverOverlap
  BY DEF UtteranceInv
<1> QED
  BY <1>1, UtteranceInit, UtteranceNext, TypeCorrect, WorkerInvariant, PTL DEF Spec
=============================================================================
