-------------------- MODULE SpeechEngineRefinementProofs ---------------------
(***************************************************************************)
(* TLAPS proves that the engine of SpeechEngine implements the contract of *)
(* SpeechQueue, step by step: each step of a call or of the worker is one  *)
(* step of the contract, or leaves what the contract speaks of alone.      *)
(***************************************************************************)
EXTENDS SpeechEngineRefinement, SpeechEngineProofs

USE DEF confVars, statusVars, callVars, stopVars, workerVars, calls, outside, CurrentIsVisible

-----------------------------------------------------------------------------
(* How each job ended, as the contract sees it *)

LEMMA EndedInFlight == EndedPc \subseteq (TaskPc \cup PanicPc) \ CurrentPc
  BY DEF EndedPc, TaskPc, PanicPc, CurrentPc

\* Steps that end no job and answer none.
LEMMA EndingFrame ==
    ASSUME UNCHANGED <<outcome, cleared>>,
           pc \in EndedPc <=> pc' \in EndedPc,
           pc \in EndedPc => UNCHANGED <<job, result>>
    PROVE  UNCHANGED ending
<1>1. \A j \in Jobs, s \in Stops : HeldBy(s, j)' = HeldBy(s, j)
  BY DEF HeldBy
<1>2. \A j \in Jobs : (job' = j /\ pc' \in EndedPc) <=> (job = j /\ pc \in EndedPc)
  OBVIOUS
<1> QED
  BY <1>1, <1>2 DEF ending

\* An answered job ended as it was answered; one in flight is open until it
\* leaves `current`, and one held by a stop call has been cancelled.
LEMMA EndingOf ==
    ASSUME CustodyInv, NEW j \in Jobs
    PROVE  /\ outcome[j] # Pending => ending[j] = outcome[j]
           /\ outcome[j] = Pending /\ (\E s \in Stops : HeldBy(s, j)) => ending[j] = "cancelled"
           /\ InFlight(j) => ending[j] = IF pc \in EndedPc THEN result ELSE "open"
           /\ InQueue(j) \/ ~Accepted(j) => ending[j] = "open"
<1>1. ASSUME InFlight(j)
      PROVE  outcome[j] = Pending /\ job = j /\ ~\E s \in Stops : HeldBy(s, j)
  BY <1>1 DEF CustodyInv, NoJobTwice, InFlight
<1>2. ASSUME InQueue(j) \/ ~Accepted(j)
      PROVE  /\ outcome[j] = Pending /\ ~(job = j /\ pc \in EndedPc)
             /\ ~\E s \in Stops : HeldBy(s, j)
  BY <1>2, EndedInFlight DEF CustodyInv, NoJobTwice, Owned, InFlight
<1> QED
  BY <1>1, <1>2 DEF ending

LEMMA StutterStep ==
    ASSUME UNCHANGED <<queue, current, cancelled, ending, shutdown>>
    PROVE  [Queue!Next]_(Queue!queueVars)
  BY DEF Queue!queueVars

-----------------------------------------------------------------------------
(* Step simulation *)

LEMMA RefineInit == Init => Queue!Init
<1> SUFFICES ASSUME Init PROVE Queue!Init
  OBVIOUS
<1>1. \A j \in Jobs, s \in Stops : ~HeldBy(s, j)
  BY EmptyQueue DEF Init, HeldBy
<1>2. ending = [j \in Jobs |-> "open"]
  BY <1>1 DEF Init, ending, EndedPc
<1> QED
  BY <1>2 DEF Init, Queue!Init, Queue!Open

LEMMA RefineEnqueue ==
    ASSUME TypeOK, WorkerInv, CustodyInv, NEW j \in Jobs,
           (\E r \in Requests : Resolve(j, r)) \/ EnqueueStep(j)
    PROVE  [Queue!Next]_(Queue!queueVars)
<1>0. UNCHANGED ending
  <2>1. UNCHANGED <<outcome, cleared, pc, job, result>>
    BY DEF Resolve, EnqueueStep, Push, NotifyPushed, Announce
  <2> QED
    BY <2>1, EndingFrame
<1>1. CASE Push(j) /\ ~IsFull(j)
  <2>1. queue' = Append(queue, j) /\ UNCHANGED <<current, cancelled, shutdown>> /\ ~Accepted(j)
    BY <1>1 DEF Push, At, Accepted
  <2>2. ~InQueue(j) /\ ~InFlight(j) /\ ending[j] = "open"
    BY <2>1, EndingOf DEF CustodyInv, Owned
  <2>3. current # j
    BY <2>2, NoJobAssumption DEF WorkerInv, InFlight, CurrentPc, PanicPc
  <2>4. Queue!Accept(j)
    BY <1>0, <2>1, <2>2, <2>3 DEF Queue!Accept, Queue!Waits, Queue!Contains, Queue!Open, InQueue, Contains
  <2> QED
    BY <2>4 DEF Queue!Next
<1>2. CASE ~(Push(j) /\ ~IsFull(j))
  <2>1. UNCHANGED <<queue, current, cancelled, shutdown>>
    BY <1>2 DEF Resolve, EnqueueStep, Push, NotifyPushed, Announce
  <2> QED
    BY <1>0, <2>1, StutterStep
<1> QED
  BY <1>1, <1>2

LEMMA RefineSweep ==
    ASSUME TypeOK, CustodyInv, NEW s \in Stops, Sweep(s)
    PROVE  [Queue!Next]_(Queue!queueVars)
<1>1. /\ queue' = <<>>
      /\ cleared' = [cleared EXCEPT ![s] = queue] /\ cleared[s] = <<>>
      /\ UNCHANGED <<outcome, current, shutdown, pc, job, result>>
      /\ cancelled' = cancelled \cup ({current} \ {NoJob})
  BY DEF Sweep, Drain, TripCurrent, CustodyInv
<1>2. \A j \in Jobs : (\E t \in Stops : HeldBy(t, j)') <=> InQueue(j) \/ \E t \in Stops : HeldBy(t, j)
  <2> TAKE j \in Jobs
  <2>1. HeldBy(s, j)' <=> InQueue(j)
    BY <1>1 DEF TypeOK, HeldBy, InQueue
  <2>2. ~HeldBy(s, j)
    BY <1>1, EmptyQueue DEF HeldBy
  <2>3. \A t \in Stops \ {s} : HeldBy(t, j)' <=> HeldBy(t, j)
    BY <1>1 DEF TypeOK, HeldBy
  <2> QED
    BY <2>1, <2>2, <2>3
<1>3. \A j \in Jobs : InQueue(j) => outcome[j] = Pending
  BY DEF CustodyInv, NoJobTwice
<1>4. ending' = [j \in Jobs |-> IF InQueue(j) THEN "cancelled" ELSE ending[j]]
  BY <1>1, <1>2, <1>3 DEF ending
<1>5. Queue!Stop
  BY <1>1, <1>4 DEF Queue!Stop, Queue!Waits, Queue!Contains, InQueue, Contains
<1> QED
  BY <1>5 DEF Queue!Next

LEMMA RefineAnswer ==
    ASSUME TypeOK, CustodyInv, NEW s \in Stops, AnswerCleared(s)
    PROVE  [Queue!Next]_(Queue!queueVars)
<1>0. cleared[s] \in Seq(Jobs) /\ cleared[s] # <<>>
  BY DEF TypeOK, AnswerCleared
<1> PICK h \in Jobs : h = Head(cleared[s])
  BY <1>0
<1>1. /\ UNCHANGED <<queue, current, cancelled, shutdown, pc, job, result>>
      /\ cleared' = [cleared EXCEPT ![s] = Tail(cleared[s])]
  BY DEF AnswerCleared
<1>2. HeldBy(s, h) /\ \A j \in Jobs \ {h} : HeldBy(s, j)' <=> HeldBy(s, j)
  BY <1>0, <1>1, ContainsTail DEF TypeOK, HeldBy
<1>3. \A j \in Jobs, t \in Stops \ {s} : HeldBy(t, j)' <=> HeldBy(t, j)
  BY <1>1 DEF TypeOK, HeldBy
<1>4. outcome[h] = Pending
  BY <1>2 DEF CustodyInv, NoJobTwice
<1>5. outcome'[h] = "cancelled" /\ \A j \in Jobs \ {h} : outcome'[j] = outcome[j]
  BY <1>4 DEF TypeOK, AnswerCleared, SendWaiter
<1>6. \A j \in Jobs : ending'[j] = ending[j]
  <2> TAKE j \in Jobs
  <2>1. CASE j = h
    BY <1>2, <1>4, <1>5, <2>1 DEF ending, Pending
  <2>2. CASE j # h
    <3>1. (\E t \in Stops : HeldBy(t, j)') <=> \E t \in Stops : HeldBy(t, j)
      BY <1>2, <1>3, <2>2
    <3> QED
      BY <1>1, <1>5, <2>2, <3>1 DEF ending
  <2> QED
    BY <2>1, <2>2
<1>7. UNCHANGED ending
  BY <1>6 DEF ending
<1> QED
  BY <1>1, <1>7, StutterStep

LEMMA RefineHalt ==
    ASSUME TypeOK, CancelInv, NEW h \in Halts, RaiseShutdown(h) \/ HaltStep(h)
    PROVE  [Queue!Next]_(Queue!queueVars)
<1>0. UNCHANGED <<outcome, cleared, pc, job, result, queue, current>>
  BY DEF RaiseShutdown, HaltStep, CancelCurrent, NotifyShutdown
<1>1. UNCHANGED ending
  BY <1>0, EndingFrame
<1>2. CASE RaiseShutdown(h)
  BY <1>0, <1>1, <1>2 DEF RaiseShutdown, Queue!RaiseHalt, Queue!Next
<1>3. CASE CancelCurrent(h)
  <2>1. shutdown /\ UNCHANGED shutdown
    BY <1>3 DEF CancelCurrent, CancelInv
  <2>2. Queue!EndActive
    BY <1>0, <1>1, <1>3, <2>1 DEF CancelCurrent, TripCurrent, Queue!EndActive
  <2> QED
    BY <2>2 DEF Queue!Next
<1>4. CASE NotifyShutdown(h)
  BY <1>0, <1>1, <1>4, StutterStep DEF NotifyShutdown
<1> QED
  BY <1>2, <1>3, <1>4 DEF HaltStep

LEMMA RefinePop ==
    ASSUME TypeOK, WorkerInv, Pop
    PROVE  [Queue!Next]_(Queue!queueVars)
<1>1. pc = "pop" /\ pc' \in {"registry", "park"} /\ UNCHANGED <<outcome, cleared, cancelled, shutdown>>
  BY DEF Pop, Goto
<1>2. UNCHANGED ending
  BY <1>1, EndingFrame DEF EndedPc
<1>3. CASE queue = <<>>
  BY <1>1, <1>2, <1>3, StutterStep DEF Pop
<1>4. CASE queue # <<>>
  <2>1. current = NoJob
    BY <1>1 DEF WorkerInv, CurrentPc, TaskPc
  <2>2. Queue!Begin
    BY <1>1, <1>2, <1>4, <2>1 DEF Pop, Take, Queue!Begin
  <2> QED
    BY <2>2 DEF Queue!Next
<1> QED
  BY <1>3, <1>4

LEMMA RefineClear ==
    ASSUME TypeOK, WorkerInv, CustodyInv, CancelInv, ClearCurrent
    PROVE  [Queue!Next]_(Queue!queueVars)
<1>1. /\ pc \in {"clear", "panic_clear"} /\ pc' \in {"idle", "panic_idle"}
      /\ UNCHANGED <<queue, cancelled, shutdown, outcome, cleared, job, result>>
  BY DEF ClearCurrent, Goto
<1> PICK h \in Jobs : h = job
  BY <1>1 DEF WorkerInv, TaskPc, PanicPc
<1>2. current = h /\ current' = NoJob
  BY <1>1 DEF ClearCurrent, Goto, WorkerInv, CurrentPc, TaskPc
<1>3. result \in Queue!Ends /\ (result = "cancelled" => h \in cancelled)
  BY <1>1 DEF TypeOK, WorkerInv, CancelInv, DecidedPc, PanicPc, Outcomes, Queue!Ends
<1>4. InFlight(h) /\ pc \notin EndedPc /\ pc' \in EndedPc
  BY <1>1 DEF InFlight, TaskPc, PanicPc, EndedPc
<1>5. outcome[h] = Pending /\ ~\E s \in Stops : HeldBy(s, h)
  BY <1>4 DEF CustodyInv, NoJobTwice
<1>6. \A j \in Jobs, s \in Stops : HeldBy(s, j)' = HeldBy(s, j)
  BY <1>1 DEF HeldBy
<1>7. ending'[h] = result
  BY <1>1, <1>4, <1>5, <1>6 DEF ending
<1>8. \A j \in Jobs \ {h} : ending'[j] = ending[j]
  BY <1>1, <1>6 DEF ending
<1>9. ending' = [ending EXCEPT ![h] = result]
  <2>1. /\ ending = [j \in Jobs |-> ending[j]]
        /\ ending' = [j \in Jobs |-> ending'[j]]
    BY DEF ending
  <2> QED
    BY <1>7, <1>8, <2>1
<1>10. Queue!End(result)
  BY <1>1, <1>2, <1>3, <1>9, NoJobAssumption DEF Queue!End
<1> QED
  BY <1>3, <1>10 DEF Queue!Next

LEMMA RefineReply ==
    ASSUME TypeOK, WorkerInv, CustodyInv, Reply
    PROVE  [Queue!Next]_(Queue!queueVars)
<1>1. /\ pc \in {"reply", "panic_reply"} /\ pc' = "top"
      /\ UNCHANGED <<queue, current, cancelled, shutdown, cleared, job, result>>
  BY DEF Reply, Goto
<1> PICK h \in Jobs : h = job
  BY <1>1 DEF WorkerInv, TaskPc, PanicPc
<1>2. InFlight(h) /\ pc \in EndedPc /\ pc' \notin EndedPc /\ result # Pending
  BY <1>1 DEF InFlight, TaskPc, PanicPc, EndedPc, WorkerInv, DecidedPc
<1>3. outcome[h] = Pending /\ ~\E s \in Stops : HeldBy(s, h)
  BY <1>2 DEF CustodyInv, NoJobTwice
<1>4. outcome'[h] = result /\ \A j \in Jobs \ {h} : outcome'[j] = outcome[j]
  BY <1>3 DEF TypeOK, Reply, SendWaiter
<1>5. \A j \in Jobs, s \in Stops : HeldBy(s, j)' = HeldBy(s, j)
  BY <1>1 DEF HeldBy
<1>6. ending'[h] = ending[h]
  BY <1>2, <1>3, <1>4 DEF ending
<1>7. \A j \in Jobs \ {h} : ending'[j] = ending[j]
  BY <1>1, <1>2, <1>4, <1>5 DEF ending
<1>8. UNCHANGED ending
  <2>1. /\ ending = [j \in Jobs |-> ending[j]]
        /\ ending' = [j \in Jobs |-> ending'[j]]
    BY DEF ending
  <2> QED
    BY <1>6, <1>7, <2>1
<1> QED
  BY <1>1, <1>8, StutterStep

LEMMA RefineWorker ==
    ASSUME TypeOK, WorkerInv, CustodyInv, CancelInv, WorkerStep \/ ProviderStep
    PROVE  [Queue!Next]_(Queue!queueVars)
<1>1. CASE Pop \/ ClearCurrent \/ Reply
  BY <1>1, RefinePop, RefineClear, RefineReply
<1>2. CASE \/ CheckShutdown \/ Wake \/ LoadRegistry \/ SelectProvider \/ SetSpeaking
           \/ AnnounceStart \/ BeginSynthesis \/ ProviderStep
  <2>1. UNCHANGED <<queue, current, cancelled, shutdown, outcome, cleared>>
    BY <1>2 DEF CheckShutdown, Wake, LoadRegistry, SelectProvider, SetSpeaking, AnnounceStart,
       BeginSynthesis, ProviderStep, FinishRun, NoticeCancel, PanicRun
  <2>2. pc \notin EndedPc /\ pc' \notin EndedPc
    BY <1>2 DEF CheckShutdown, Wake, LoadRegistry, SelectProvider, SetSpeaking, AnnounceStart,
       BeginSynthesis, ProviderStep, FinishRun, NoticeCancel, PanicRun, EndRun, Goto, EndedPc
  <2> QED
    BY <2>1, <2>2, EndingFrame, StutterStep
<1>3. CASE Report \/ SetIdle \/ MarkDegraded \/ AnnounceDegraded
  <2>1. UNCHANGED <<queue, current, cancelled, shutdown, outcome, cleared, job, result>>
    BY <1>3 DEF Report, SetIdle, MarkDegraded, AnnounceDegraded
  <2>2. pc \in EndedPc <=> pc' \in EndedPc
    BY <1>3 DEF Report, SetIdle, MarkDegraded, AnnounceDegraded, Goto, EndedPc
  <2> QED
    BY <2>1, <2>2, EndingFrame, StutterStep
<1> QED
  BY <1>1, <1>2, <1>3 DEF WorkerStep

LEMMA RefineNext ==
    TypeOK /\ WorkerInv /\ CustodyInv /\ CancelInv /\ [Next]_vars => [Queue!Next]_(Queue!queueVars)
<1> SUFFICES ASSUME TypeOK, WorkerInv, CustodyInv, CancelInv, [Next]_vars
             PROVE  [Queue!Next]_(Queue!queueVars)
  OBVIOUS
<1>1. ASSUME NEW j \in Jobs, (\E r \in Requests : Resolve(j, r)) \/ EnqueueStep(j)
      PROVE  [Queue!Next]_(Queue!queueVars)
  BY <1>1, RefineEnqueue
<1>2. ASSUME UNCHANGED <<queue, current, cancelled, shutdown, outcome, cleared, workerVars>>
      PROVE  [Queue!Next]_(Queue!queueVars)
  BY <1>2, EndingFrame, StutterStep
<1>3. ASSUME NEW s \in Stops, Sweep(s) \/ StopStep(s) PROVE [Queue!Next]_(Queue!queueVars)
  BY <1>2, <1>3, RefineSweep, RefineAnswer DEF StopStep, AnnounceStop
<1>4. ASSUME NEW h \in Halts, RaiseShutdown(h) \/ HaltStep(h) PROVE [Queue!Next]_(Queue!queueVars)
  BY <1>4, RefineHalt
<1>5. CASE (\E c \in Configs : StoreRegistry(c)) \/ StoreConfig
  BY <1>2, <1>5 DEF StoreRegistry, StoreConfig
<1>6. CASE WorkerStep \/ ProviderStep
  BY <1>6, RefineWorker
<1>7. CASE UNCHANGED vars
  BY <1>2, <1>7 DEF vars
<1> QED
  BY <1>1, <1>3, <1>4, <1>5, <1>6, <1>7 DEF Next

\* The engine keeps the contract of worker.rs and mcp.rs for any calls in any
\* interleaving: accepted jobs run one at a time in the order of their push, each
\* comes to one end, a job ends cancelled only if it was asked to or was waiting,
\* and the critical section of stop is one indivisible stop.
THEOREM EngineImplementsQueue == Spec => ImplementsQueue
<1>1. TypeOK /\ WorkerInv /\ CustodyInv /\ CancelInv /\ [Next]_vars
        => [Queue!Next]_(Queue!queueVars)
  BY RefineNext
<1> QED
  BY <1>1, RefineInit, TypeCorrect, WorkerInvariant, Custody, Cancellation, PTL
     DEF Spec, ImplementsQueue, Queue!Spec
=============================================================================
