--------------------------- MODULE McpToolsProofs ----------------------------
(***************************************************************************)
(* What isimud.status reports is consistent, though it is read in three    *)
(* moments, for any number of callers, jobs, stops and reloads.            *)
(***************************************************************************)
EXTENDS McpTools, SpeechEngineProofs

USE DEF confVars, statusVars, callVars, stopVars, workerVars, calls, outside, toolVars

-----------------------------------------------------------------------------
(* The tools only watch *)

LEMMA EngineStep == [McpNext]_mcpVars => [Next]_vars
  BY DEF McpNext, mcpVars, Return, Look

LEMMA EngineOfTools == McpSpec => Spec
<1>1. McpInit => Init
  BY DEF McpInit
<1> QED
  BY <1>1, EngineStep, PTL DEF McpSpec, Spec

-----------------------------------------------------------------------------
(* Types *)

\* What a status can hold, and what a read of one of its fields makes of it.
View == [job : Jobs \cup {NoJob}, waiting : SUBSET Jobs, degraded : BOOLEAN]
Read(l) ==
    [job |-> IF look[l] = 0 THEN state ELSE view[l].job,
     waiting |-> IF look[l] = 1 THEN ToSet(queue) ELSE view[l].waiting,
     degraded |-> IF look[l] = 2 THEN degraded ELSE view[l].degraded]

\* A look is such a read of the next field.
LEMMA LookReads ==
    ASSUME ToolsTypeOK, NEW l \in Looks, Look(l)
    PROVE  /\ look[l] \in 0 .. 2 /\ look'[l] = look[l] + 1 /\ look' \in [Looks -> 0 .. 3]
           /\ view'[l] = Read(l)
           /\ look[l] = 0 => known'[l] = {j \in Jobs : told[j] \in Outcomes}
           /\ look[l] # 0 => known'[l] = known[l]
           /\ \A k \in Looks \ {l} :
                look'[k] = look[k] /\ view'[k] = view[k] /\ known'[k] = known[k]
<1> DEFINE field == Fields[look[l] + 1]
<1>1. look[l] \in 0 .. 3 /\ look[l] < 3
  BY DEF ToolsTypeOK, Look
<1>2. view' = [view EXCEPT ![l] = [view[l] EXCEPT ![field] = Now[field]]]
  BY DEF Look
<1>3. view'[l] = [view[l] EXCEPT ![field] = Now[field]]
  BY <1>2 DEF ToolsTypeOK
<1>4. /\ look[l] = 0 => field = "job"
      /\ look[l] = 1 => field = "waiting"
      /\ look[l] = 2 => field = "degraded"
  BY DEF Fields
<1>5. Now.job = state /\ Now.waiting = ToSet(queue) /\ Now.degraded = degraded
  BY DEF Now
<1>6. look' = [look EXCEPT ![l] = look[l] + 1]
  BY DEF Look
<1>7. look'[l] = look[l] + 1 /\ look' \in [Looks -> 0 .. 3]
  BY <1>1, <1>6 DEF ToolsTypeOK
<1>8. \A k \in Looks \ {l} :
        look'[k] = look[k] /\ view'[k] = view[k] /\ known'[k] = known[k]
  BY <1>2, <1>6 DEF Look, ToolsTypeOK
<1>9. look[l] = 0 => known'[l] = {j \in Jobs : told[j] \in Outcomes}
  BY DEF Look, ToolsTypeOK
<1>10. look[l] # 0 => known'[l] = known[l]
  BY DEF Look
<1>11. view[l] \in View
  BY DEF ToolsTypeOK, View
<1>12. view'[l] = Read(l)
  <2> HIDE DEF field
  <2>1. CASE look[l] = 0
    BY <1>3, <1>4, <1>5, <1>11, <2>1 DEF Read, View
  <2>2. CASE look[l] = 1
    BY <1>3, <1>4, <1>5, <1>11, <2>2 DEF Read, View
  <2>3. CASE look[l] = 2
    BY <1>3, <1>4, <1>5, <1>11, <2>3 DEF Read, View
  <2> QED
    BY <1>1, <2>1, <2>2, <2>3
<1> QED
  BY <1>1, <1>7, <1>8, <1>9, <1>10, <1>12

\* The jobs a depth counts are calls.
LEMMA QueuedAreJobs == TypeOK => ToSet(queue) \in SUBSET Jobs
  BY DEF TypeOK, ToSet

\* Nobody's call is undone.
LEMMA AcceptedForGood ==
    ASSUME TypeOK, [Next]_vars, NEW j \in Jobs, call[j] = "accepted"
    PROVE  call'[j] = "accepted"
<1>1. ASSUME NEW k \in Jobs, (\E r \in Requests : Resolve(k, r)) \/ EnqueueStep(k)
      PROVE  call'[j] = "accepted"
  BY <1>1 DEF TypeOK, Resolve, EnqueueStep, Push, NotifyPushed, Announce, At
<1>2. CASE UNCHANGED call
  BY <1>2
<1> QED
  BY <1>1, <1>2 DEF Next, vars, Sweep, StopStep, AnswerCleared, AnnounceStop,
     RaiseShutdown, HaltStep, CancelCurrent, NotifyShutdown, StoreRegistry, StoreConfig,
     WorkerStep, ProviderStep, CheckShutdown, Pop, Wake, LoadRegistry, SelectProvider,
     SetSpeaking, AnnounceStart, BeginSynthesis, Report, ClearCurrent, SetIdle,
     MarkDegraded, AnnounceDegraded, Reply, FinishRun, NoticeCancel, PanicRun

LEMMA ToolsTypeInit == McpInit => ToolsTypeOK
<1> SUFFICES ASSUME McpInit PROVE ToolsTypeOK
  OBVIOUS
<1>1. Now \in [job : Jobs \cup {NoJob}, waiting : SUBSET Jobs, degraded : BOOLEAN]
  BY TypeInit, QueuedAreJobs DEF McpInit, Now, TypeOK
<1> QED
  BY <1>1 DEF McpInit, ToolsTypeOK

LEMMA ToolsTypeStep == TypeOK /\ ToolsTypeOK /\ [McpNext]_mcpVars => ToolsTypeOK'
<1> SUFFICES ASSUME TypeOK, ToolsTypeOK, [McpNext]_mcpVars PROVE ToolsTypeOK'
  OBVIOUS
<1>1. \A j \in Jobs : call[j] = "accepted" => call'[j] = "accepted"
  BY AcceptedForGood, EngineStep
<1>2. CASE Next /\ UNCHANGED toolVars
  BY <1>1, <1>2 DEF ToolsTypeOK
<1>3. ASSUME NEW j \in Jobs, Return(j) PROVE ToolsTypeOK'
  <2>1. told' \in [Jobs -> Outcomes \cup {Nothing, Timeout}]
    BY <1>3 DEF ToolsTypeOK, TypeOK, Return, Outcome, TimeOut
  <2>2. \A k \in Jobs : told'[k] # Nothing => call[k] = "accepted"
    BY <1>3 DEF ToolsTypeOK, Return, Outcome, TimeOut, Awaiting
  <2> QED
    BY <1>1, <1>3, <2>1, <2>2 DEF ToolsTypeOK, Return
<1>4. ASSUME NEW l \in Looks, Look(l) PROVE ToolsTypeOK'
  <2>1. look' \in [Looks -> 0 .. 3] /\ view'[l] = Read(l)
    BY <1>4, LookReads
  <2>2. Read(l) \in View
    <3>1. view[l] \in View
      BY DEF ToolsTypeOK, View
    <3>2. state \in Jobs \cup {NoJob} /\ ToSet(queue) \in SUBSET Jobs /\ degraded \in BOOLEAN
      BY QueuedAreJobs DEF TypeOK
    <3> QED
      BY <3>1, <3>2 DEF Read, View
  <2>3. view' \in [Looks -> [job : Jobs \cup {NoJob}, waiting : SUBSET Jobs, degraded : BOOLEAN]]
    BY <1>4, <2>1, <2>2 DEF Look, ToolsTypeOK, View
  <2>4. known' \in [Looks -> SUBSET Jobs]
    BY <1>4 DEF Look, ToolsTypeOK
  <2> QED
    BY <1>1, <1>4, <2>1, <2>3, <2>4 DEF ToolsTypeOK, Look
<1>5. CASE UNCHANGED mcpVars
  BY <1>5 DEF mcpVars, vars, ToolsTypeOK
<1> QED
  BY <1>2, <1>3, <1>4, <1>5 DEF McpNext

\* Only a caller whose job was accepted is ever told anything, and a status is
\* made of what the fields can hold.
THEOREM ToolsTypeCorrect == McpSpec => []ToolsTypeOK
  BY EngineOfTools, TypeCorrect, ToolsTypeInit, ToolsTypeStep, PTL DEF McpSpec

-----------------------------------------------------------------------------
(* Moments that fit together *)

USE DEF SeenActive, Answered

\* An answered job stays answered.
LEMMA AnsweredForGood ==
    ASSUME TypeOK, [Next]_vars, NEW j \in Jobs, Answered(j) PROVE Answered(j)'
<1>1. CASE UNCHANGED outcome
  BY <1>1
<1>2. ASSUME NEW s \in Stops, AnswerCleared(s) PROVE Answered(j)'
  BY <1>2 DEF AnswerCleared, SendWaiter, TypeOK
<1>3. CASE Reply
  BY <1>3 DEF Reply, SendWaiter, TypeOK
<1> QED
  BY <1>1, <1>2, <1>3 DEF Next, vars, Resolve, EnqueueStep, Push, NotifyPushed, Announce,
     Sweep, StopStep, AnnounceStop,
     RaiseShutdown, HaltStep, CancelCurrent, NotifyShutdown, StoreRegistry, StoreConfig,
     WorkerStep, ProviderStep, CheckShutdown, Pop, Wake, LoadRegistry, SelectProvider,
     SetSpeaking, AnnounceStart, BeginSynthesis, Report, ClearCurrent, SetIdle,
     MarkDegraded, AnnounceDegraded, FinishRun, NoticeCancel, PanicRun

\* A job that has left the queue does not come back.
LEMMA SeenForGood ==
    ASSUME TypeOK, [Next]_vars, NEW j \in Jobs, SeenActive(j) PROVE SeenActive(j)'
<1> USE DEF Accepted, InQueue
<1>1. queue \in Seq(Jobs)
  BY DEF TypeOK
<1>2. ASSUME NEW k \in Jobs, (\E r \in Requests : Resolve(k, r)) \/ EnqueueStep(k)
      PROVE  SeenActive(j)'
  <2>1. CASE Push(k)
    <3>1. k # j
      BY <2>1 DEF Push, At
    <3>2. queue' \in {queue, Append(queue, k)} /\ call'[j] = call[j]
      BY <2>1, <3>1 DEF Push, At, TypeOK
    <3>3. ~Contains(queue, j)
      OBVIOUS
    <3>4. ~Contains(Append(queue, k), j)
      BY <1>1, <3>1, <3>3, ContainsAppend
    <3> QED
      BY <3>2, <3>3, <3>4
  <2>2. CASE \E r \in Requests : Resolve(k, r)
    BY <2>2 DEF Resolve, At, TypeOK
  <2>3. CASE NotifyPushed(k) \/ Announce(k)
    BY <2>3 DEF NotifyPushed, Announce, At, TypeOK
  <2> QED
    BY <1>2, <2>1, <2>2, <2>3 DEF EnqueueStep
<1>3. ASSUME NEW s \in Stops, Sweep(s) PROVE SeenActive(j)'
  <2>1. queue' = <<>> /\ UNCHANGED call
    BY <1>3 DEF Sweep, Drain
  <2> QED
    BY <2>1, EmptyQueue
<1>4. CASE Pop
  <2>1. UNCHANGED call /\ (queue' = queue \/ (queue # <<>> /\ queue' = Tail(queue)))
    BY <1>4 DEF Pop, Take
  <2> QED
    BY <1>1, <2>1, ContainsTail
<1>5. CASE UNCHANGED <<call, queue>>
  BY <1>5
<1> QED
  BY <1>2, <1>3, <1>4, <1>5 DEF Next, vars, StopStep, AnswerCleared, AnnounceStop,
     RaiseShutdown, HaltStep, CancelCurrent, NotifyShutdown, StoreRegistry, StoreConfig,
     WorkerStep, ProviderStep, CheckShutdown, Wake, LoadRegistry, SelectProvider,
     SetSpeaking, AnnounceStart, BeginSynthesis, Report, ClearCurrent, SetIdle,
     MarkDegraded, AnnounceDegraded, Reply, FinishRun, NoticeCancel, PanicRun

\* The job that is shown as spoken has left the queue, and was not answered.
LEMMA SpokenIsSeen ==
    ASSUME TypeOK, WorkerInv, CustodyInv, state # NoJob
    PROVE  state \in Jobs /\ SeenActive(state) /\ ~Answered(state)
<1>1. state = job /\ pc \in SpeakingPc
  BY DEF WorkerInv
<1>2. state \in Jobs /\ InFlight(state)
  BY <1>1 DEF TypeOK, InFlight, SpeakingPc, TaskPc, PanicPc
<1> QED
  BY <1>2 DEF CustodyInv, NoJobTwice, Owned

LEMMA ViewInit == McpInit => ViewInv
  BY DEF McpInit, ViewInv, Nothing, Outcomes

\* The engine takes a step, the status calls none.
LEMMA ViewEngine ==
    ASSUME TypeOK, ToolsTypeOK, ViewInv, [Next]_vars, UNCHANGED toolVars
    PROVE  ViewInv'
<1>1. \A j \in Jobs : Answered(j) => Answered(j)'
  BY AnsweredForGood
<1>2. \A j \in Jobs : SeenActive(j) => SeenActive(j)'
  BY SeenForGood
<1>3. \A l \in Looks : known[l] \subseteq Jobs /\ view[l].job \in Jobs \cup {NoJob}
  BY DEF ToolsTypeOK
<1> QED
  BY <1>1, <1>2, <1>3 DEF ViewInv

\* A status call reads its next field.
LEMMA ViewLook ==
    ASSUME TypeOK, WorkerInv, CustodyInv, ToolsTypeOK, ViewInv, NEW l \in Looks, Look(l)
    PROVE  ViewInv'
<1>1. UNCHANGED <<vars, told>>
  BY DEF Look
<1>2. \A j : Answered(j)' = Answered(j) /\ SeenActive(j)' = SeenActive(j)
  BY <1>1 DEF vars, Accepted, InQueue
<1>3. look[l] \in 0 .. 2 /\ look'[l] = look[l] + 1 /\ view'[l] = Read(l)
  BY LookReads
<1>4. \A j \in known'[l] : Answered(j)
  BY <1>3, LookReads DEF ViewInv
<1>5. view'[l].job \notin known'[l]
      /\ (view'[l].job # NoJob => SeenActive(view'[l].job))
  <2>1. CASE look[l] = 0
    <3>1. view'[l].job = state
      BY <1>3, <2>1 DEF Read
    <3>2. known'[l] \subseteq Jobs
      BY <2>1, LookReads
    <3> QED
      BY <1>4, <3>1, <3>2, SpokenIsSeen, NoJobAssumption
  <2>2. CASE look[l] # 0
    <3>1. view'[l].job = view[l].job /\ known'[l] = known[l]
      BY <1>3, <2>2, LookReads DEF Read
    <3> QED
      BY <1>3, <2>2, <3>1 DEF ViewInv
  <2> QED
    BY <2>1, <2>2
<1>6. look'[l] >= 2 => /\ view'[l].job \notin view'[l].waiting
                       /\ view'[l].waiting \cap known'[l] = {}
  <2>1. CASE look[l] = 0
    BY <1>3, <2>1
  <2>2. CASE look[l] = 1
    <3>1. view'[l].waiting = ToSet(queue) /\ view'[l].job = view[l].job
      BY <1>3, <2>2 DEF Read
    <3>2. \A j \in ToSet(queue) : j \in Jobs /\ InQueue(j)
      BY QueuedAreJobs DEF ToSet, InQueue, Contains, TypeOK
    <3>3. \A j \in ToSet(queue) : ~SeenActive(j) /\ ~Answered(j)
      BY <3>2 DEF CustodyInv, NoJobTwice
    <3>4. view'[l].job \notin ToSet(queue)
      BY <1>5, <3>2, <3>3, NoJobAssumption
    <3> QED
      BY <1>4, <3>1, <3>3, <3>4
  <2>3. CASE look[l] = 2
    <3>1. view'[l].waiting = view[l].waiting /\ view'[l].job = view[l].job
          /\ known'[l] = known[l]
      BY <1>3, <2>3, LookReads DEF Read
    <3> QED
      BY <2>3, <3>1 DEF ViewInv
  <2> QED
    BY <1>3, <2>1, <2>2, <2>3
<1>7. \A k \in Looks \ {l} :
        look'[k] = look[k] /\ view'[k] = view[k] /\ known'[k] = known[k]
  BY LookReads
<1> QED
  BY <1>1, <1>2, <1>4, <1>5, <1>6, <1>7 DEF ViewInv

LEMMA ViewStep ==
    TypeOK /\ WorkerInv /\ CustodyInv /\ ToolsTypeOK /\ ViewInv /\ [McpNext]_mcpVars
    => ViewInv'
<1> SUFFICES ASSUME TypeOK, WorkerInv, CustodyInv, ToolsTypeOK, ViewInv,
                    [McpNext]_mcpVars
             PROVE  ViewInv'
  OBVIOUS
<1>1. CASE Next /\ UNCHANGED toolVars
  BY <1>1, ViewEngine
<1>2. ASSUME NEW j \in Jobs, Return(j) PROVE ViewInv'
  <2>1. UNCHANGED <<vars, look, view, known>>
    BY <1>2 DEF Return
  <2>2. \A k : Answered(k)' = Answered(k) /\ SeenActive(k)' = SeenActive(k)
    BY <2>1 DEF vars, Accepted, InQueue
  <2>3. \A k \in Jobs : told'[k] \in Outcomes => Answered(k)
    BY <1>2 DEF Return, Outcome, TimeOut, ToolsTypeOK, ViewInv, Timeout, Outcomes
  <2> QED
    BY <2>1, <2>2, <2>3 DEF ViewInv
<1>3. ASSUME NEW l \in Looks, Look(l) PROVE ViewInv'
  BY <1>3, ViewLook
<1>4. CASE UNCHANGED mcpVars
  BY <1>4, ViewEngine DEF mcpVars
<1> QED
  BY <1>1, <1>2, <1>3, <1>4 DEF McpNext

LEMMA ViewInvariant == McpSpec => [](ToolsTypeOK /\ ViewInv)
  BY EngineOfTools, TypeCorrect, WorkerInvariant, Custody, ToolsTypeCorrect, ViewInit,
     ViewStep, PTL DEF McpSpec

\* Though state and queue are read at different moments, the queue depth never
\* counts the job that the same status reports as active.
THEOREM DepthLeavesOutActive == McpSpec => []StatusCountsNoActiveJob
<1>1. ToolsTypeOK /\ ViewInv => StatusCountsNoActiveJob
  BY DEF ViewInv, StatusCountsNoActiveJob
<1> QED
  BY <1>1, ViewInvariant, PTL

\* Who asks after an outcome is never told that the same job is spoken or waits.
THEOREM StatusFollowsOutcome == McpSpec => []StatusNotStale
<1>1. ToolsTypeOK /\ ViewInv => StatusNotStale
  BY DEF ViewInv, StatusNotStale
<1> QED
  BY <1>1, ViewInvariant, PTL
=============================================================================
