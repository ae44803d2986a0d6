------------------------- MODULE TrayIndicatorProofs -------------------------
(***************************************************************************)
(* The alarm of the tray is not lost, for any jobs, calls, lags of the     *)
(* receiver and capacities of the channel.                                 *)
(***************************************************************************)
EXTENDS TrayIndicator, SpeechEngineProofs

USE DEF confVars, statusVars, callVars, stopVars, workerVars, calls, outside, trayVars

-----------------------------------------------------------------------------
(* The tray only listens *)

LEMMA EngineStep == [TrayNext]_allVars => [Next]_vars
  BY DEF TrayNext, allVars, BuildTray, Forward, HandleSpeech

LEMMA EngineOfTray == TraySpec => Spec
<1>1. TrayInit => Init
  BY DEF TrayInit
<1> QED
  BY <1>1, EngineStep, PTL DEF TraySpec, Spec

\* What an engine step sends comes after what was sent before.
EventsGrow ==
    events' = events \/ \E e \in Events : events' = Append(events, e)

LEMMA EventsOnlyGrow ==
    ASSUME TypeOK, WorkerInv, [Next]_vars PROVE EventsGrow
<1> USE DEF EventsGrow
<1>1. CASE UNCHANGED events
  BY <1>1
<1>2. ASSUME NEW kind \in EventKinds, NEW j \in Jobs \cup {NoJob}, Send(kind, j)
      PROVE  EventsGrow
  BY <1>2, EventType DEF Send
<1>3. ASSUME NEW j \in Jobs, Announce(j) PROVE EventsGrow
  BY <1>2, <1>3 DEF Announce, EventKinds
<1>4. ASSUME NEW s \in Stops, AnnounceStop(s) PROVE EventsGrow
  <2>1. hit[s] \in Jobs \cup {NoJob}
    BY DEF TypeOK
  <2> QED
    BY <1>2, <1>4, <2>1 DEF AnnounceStop, EventKinds
<1>5. CASE AnnounceStart \/ Report
  <2>1. job \in Jobs \cup {NoJob}
    BY DEF TypeOK
  <2> QED
    BY <1>2, <1>5, <2>1 DEF AnnounceStart, Report, AnnounceEnd, EventKinds
<1>6. CASE AnnounceDegraded
  BY <1>2, <1>6 DEF AnnounceDegraded, EventKinds
<1> QED
  BY <1>1, <1>3, <1>4, <1>5, <1>6 DEF Next, vars, Resolve, EnqueueStep, Push, NotifyPushed,
     Sweep, StopStep, AnswerCleared,
     RaiseShutdown, HaltStep, CancelCurrent, NotifyShutdown, StoreRegistry, StoreConfig,
     WorkerStep, ProviderStep, CheckShutdown, Pop, Wake, LoadRegistry, SelectProvider,
     SetSpeaking, BeginSynthesis, ClearCurrent, SetIdle, MarkDegraded, Reply,
     FinishRun, NoticeCancel, PanicRun

\* A longer history has all that the shorter one had, where it was.
LEMMA GrownEvents ==
    ASSUME TypeOK, EventsGrow
    PROVE  /\ Len(events') \in Nat /\ Len(events) <= Len(events')
           /\ \A i \in 1 .. Len(events) : events'[i] = events[i]
<1>1. events \in Seq(Events)
  BY DEF TypeOK
<1>2. CASE events' = events
  BY <1>1, <1>2
<1>3. ASSUME NEW e \in Events, events' = Append(events, e)
      PROVE  /\ Len(events') \in Nat /\ Len(events) <= Len(events')
             /\ \A i \in 1 .. Len(events) : events'[i] = events[i]
  BY <1>1, <1>3
<1> QED
  BY <1>2, <1>3 DEF EventsGrow

-----------------------------------------------------------------------------
(* Types *)

LEMMA TrayTypeInit == TrayInit => TrayTypeOK
<1> SUFFICES ASSUME TrayInit PROVE TrayTypeOK
  OBVIOUS
<1>1. tray = FALSE /\ missed = 0 /\ received = 0 /\ mailbox = <<>> /\ indicator = "idle"
      /\ alarmed = FALSE /\ events = <<>>
  BY DEF TrayInit, Init
<1>2. tray \in BOOLEAN /\ alarmed \in BOOLEAN
  BY <1>1
<1>3. Len(events) \in Nat /\ mailbox \in Seq(Events)
  BY <1>1
<1> QED
  BY <1>1, <1>2, <1>3 DEF TrayTypeOK

\* The forwarder goes on by one event, or to the oldest that is kept.
LEMMA TrayTypeForward ==
    ASSUME TypeOK, TrayTypeOK, Forward PROVE TrayTypeOK'
<1>1. received \in Nat /\ received < Len(events) /\ Len(events) \in Nat /\ missed \in Nat
      /\ missed <= received
  BY DEF Forward, TrayTypeOK, TypeOK
<1>2. UNCHANGED <<vars, tray, indicator, alarmed>> /\ events' = events
  BY DEF Forward, vars
<1>3. CASE ~Overrun
  <2>1. mailbox' = Append(mailbox, events[received + 1]) /\ received' = received + 1
        /\ UNCHANGED missed
    BY <1>3 DEF Forward
  <2>2. events[received + 1] \in Events
    BY <1>1 DEF TypeOK
  <2>3. mailbox' \in Seq(Events)
    BY <2>1, <2>2 DEF TrayTypeOK
  <2> QED
    BY <1>1, <1>2, <2>1, <2>3 DEF TrayTypeOK
<1>4. CASE Overrun
  <2>1. received' = Len(events) - ChannelCapacity
        /\ missed' = missed + (received' - received) /\ UNCHANGED mailbox
    BY <1>4 DEF Forward
  <2>2. received' \in 0 .. Len(events) /\ missed' \in Nat /\ missed' <= received'
    BY <1>1, <1>4, <2>1, ChannelCapacityAssumption DEF Overrun
  <2> QED
    BY <1>2, <2>1, <2>2 DEF TrayTypeOK
<1> QED
  BY <1>3, <1>4

LEMMA TrayTypeStep ==
    TypeOK /\ WorkerInv /\ TrayTypeOK /\ [TrayNext]_allVars => TrayTypeOK'
<1> SUFFICES ASSUME TypeOK, WorkerInv, TrayTypeOK, [TrayNext]_allVars PROVE TrayTypeOK'
  OBVIOUS
<1>1. ASSUME UNCHANGED trayVars PROVE TrayTypeOK'
  <2>1. Len(events') \in Nat /\ Len(events) <= Len(events') /\ Len(events) \in Nat
    BY EngineStep, EventsOnlyGrow, GrownEvents DEF TypeOK
  <2> QED
    BY <1>1, <2>1 DEF TrayTypeOK
<1>2. CASE BuildTray
  <2>1. Len(events) \in Nat /\ events' = events
    BY <1>2 DEF TypeOK, BuildTray, vars
  <2>2. tray' = TRUE /\ missed' = Len(events) /\ received' = Len(events)
        /\ UNCHANGED <<mailbox, indicator, alarmed>>
    BY <1>2 DEF BuildTray, Subscribe
  <2> QED
    BY <2>1, <2>2 DEF TrayTypeOK
<1>3. CASE Forward
  BY <1>3, TrayTypeForward
<1>4. CASE HandleSpeech
  <2>1. mailbox' \in Seq(Events) /\ UNCHANGED <<events, tray, missed, received>>
    BY <1>4 DEF HandleSpeech, TrayTypeOK, vars
  <2>2. indicator' \in {"idle", "speaking"}
    BY <1>4 DEF HandleSpeech, Shown, TrayTypeOK
  <2>3. alarmed' \in BOOLEAN
    BY <1>4 DEF HandleSpeech, Alarmed, TrayTypeOK
  <2> QED
    BY <2>1, <2>2, <2>3 DEF TrayTypeOK
<1> QED
  BY <1>1, <1>2, <1>3, <1>4 DEF TrayNext, allVars

\* The receiver is never ahead of the engine, and what it missed it is past.
THEOREM TrayTypeCorrect == TraySpec => []TrayTypeOK
  BY EngineOfTray, TypeCorrect, WorkerInvariant, TrayTypeInit, TrayTypeStep, PTL
     DEF TraySpec

-----------------------------------------------------------------------------
(* The alarm *)

LEMMA AlarmInit == TrayInit => AlarmSent /\ AlarmArrives
  BY DEF TrayInit, Init, AlarmSent, AlarmArrives

\* The flag is raised only on the way to the event that announces it.
LEMMA AlarmSentStep ==
    ASSUME TypeOK, WorkerInv, AlarmSent, [Next]_vars PROVE AlarmSent'
<1>1. /\ Len(events') \in Nat /\ Len(events) <= Len(events') /\ Len(events) \in Nat
      /\ \A i \in 1 .. Len(events) : events'[i] = events[i]
  BY EventsOnlyGrow, GrownEvents DEF TypeOK
<1>2. ASSUME degraded' = degraded, pc # "panic_event" \/ pc' = "panic_event"
      PROVE  AlarmSent'
  BY <1>1, <1>2 DEF AlarmSent
<1>3. CASE MarkDegraded
  BY <1>3 DEF MarkDegraded, Goto, AlarmSent
<1>4. CASE AnnounceDegraded
  <2>1. events \in Seq(Events) /\ Event("degraded", NoJob) \in Events
    BY EventType DEF TypeOK, EventKinds
  <2>2. events' = Append(events, Event("degraded", NoJob))
    BY <1>4 DEF AnnounceDegraded, Send
  <2>3. Len(events') = Len(events) + 1 /\ events'[Len(events) + 1] = Event("degraded", NoJob)
    BY <2>1, <2>2
  <2>4. events'[Len(events) + 1].kind = "degraded"
    BY <2>3 DEF Event
  <2> QED
    BY <1>1, <2>3, <2>4 DEF AlarmSent
<1>5. CASE UNCHANGED <<degraded, pc>>
  BY <1>2, <1>5
<1>6. CASE \/ CheckShutdown \/ Pop \/ Wake \/ LoadRegistry \/ SelectProvider \/ SetSpeaking
           \/ AnnounceStart \/ BeginSynthesis \/ Report \/ ClearCurrent \/ SetIdle \/ Reply
           \/ FinishRun \/ NoticeCancel \/ PanicRun
  BY <1>2, <1>6 DEF CheckShutdown, Pop, Wake, LoadRegistry, SelectProvider, SetSpeaking,
     AnnounceStart, BeginSynthesis, Report, ClearCurrent, SetIdle, Reply, FinishRun,
     NoticeCancel, PanicRun, Goto
<1> QED
  BY <1>3, <1>4, <1>5, <1>6 DEF Next, vars, Resolve, EnqueueStep, Push, NotifyPushed,
     Announce, Sweep, StopStep, AnswerCleared, AnnounceStop, RaiseShutdown, HaltStep,
     CancelCurrent, NotifyShutdown, StoreRegistry, StoreConfig, WorkerStep, ProviderStep

\* The alarm is on its way while it is in the mailbox.
OnItsWay == \E k \in 1 .. Len(mailbox) : mailbox[k].kind = "degraded"

\* Handling an event takes the oldest of the mailbox, and its alarm is kept.
LEMMA HandledAlarm ==
    ASSUME TrayTypeOK, HandleSpeech, alarmed \/ OnItsWay PROVE alarmed' \/ OnItsWay'
<1>1. mailbox \in Seq(Events) /\ mailbox # <<>> /\ mailbox' = Tail(mailbox)
      /\ (alarmed' <=> alarmed \/ Head(mailbox).kind = "degraded")
  BY DEF HandleSpeech, TrayTypeOK, Alarmed
<1>2. CASE alarmed
  BY <1>1, <1>2
<1>3. CASE OnItsWay
  <2>1. PICK k \in 1 .. Len(mailbox) : mailbox[k].kind = "degraded"
    BY <1>3 DEF OnItsWay
  <2>2. Len(Tail(mailbox)) = Len(mailbox) - 1 /\ Len(mailbox) \in Nat
    BY <1>1
  <2>3. CASE k = 1
    BY <1>1, <2>1, <2>3
  <2>4. CASE k # 1
    <3>1. k - 1 \in 1 .. Len(Tail(mailbox)) /\ Tail(mailbox)[k - 1] = mailbox[k]
      BY <1>1, <2>1, <2>2, <2>4
    <3> QED
      BY <1>1, <2>1, <3>1 DEF OnItsWay
  <2> QED
    BY <2>3, <2>4
<1> QED
  BY <1>2, <1>3

\* The forwarder takes an event into the mailbox and leaves the others there.
LEMMA ForwardedAlarm ==
    ASSUME TypeOK, TrayTypeOK, AlarmArrives, Forward PROVE AlarmArrives'
<1>1. received \in Nat /\ received < Len(events) /\ Len(events) \in Nat
      /\ missed \in Nat /\ events' = events /\ alarmed' = alarmed
  BY DEF Forward, TrayTypeOK, TypeOK, vars
<1>2. CASE ~Overrun
  <2>1. mailbox' = Append(mailbox, events[received + 1]) /\ received' = received + 1
        /\ missed' = missed
    BY <1>2 DEF Forward
  <2>2. mailbox \in Seq(Events) /\ events[received + 1] \in Events
    BY <1>1 DEF TypeOK, TrayTypeOK
  <2>3. /\ Len(mailbox') = Len(mailbox) + 1 /\ Len(mailbox) \in Nat
        /\ \A k \in 1 .. Len(mailbox) : mailbox'[k] = mailbox[k]
        /\ mailbox'[Len(mailbox) + 1] = events[received + 1]
    BY <2>1, <2>2
  <2>4. OnItsWay => OnItsWay'
    BY <2>3 DEF OnItsWay
  <2>5. events[received + 1].kind = "degraded" => OnItsWay'
    BY <2>3 DEF OnItsWay
  <2>6. ASSUME missed' = 0, NEW i \in 1 .. received', events'[i].kind = "degraded"
        PROVE  alarmed' \/ OnItsWay'
    <3>1. CASE i = received + 1
      BY <1>1, <2>5, <2>6, <3>1
    <3>2. CASE i # received + 1
      <4>1. i \in 1 .. received
        BY <1>1, <2>1, <3>2
      <4>2. alarmed \/ OnItsWay
        BY <1>1, <2>1, <2>6, <4>1 DEF AlarmArrives, OnItsWay
      <4> QED
        BY <1>1, <2>4, <4>2
    <3> QED
      BY <3>1, <3>2
  <2> QED
    BY <2>6 DEF AlarmArrives, OnItsWay
<1>3. CASE Overrun
  <2>1. missed' > 0
    BY <1>1, <1>3, ChannelCapacityAssumption DEF Forward, Overrun
  <2> QED
    BY <2>1 DEF AlarmArrives
<1> QED
  BY <1>2, <1>3

LEMMA AlarmArrivesStep ==
    ASSUME TypeOK, WorkerInv, TrayTypeOK, AlarmArrives, [TrayNext]_allVars
    PROVE  AlarmArrives'
<1>1. ASSUME UNCHANGED trayVars PROVE AlarmArrives'
  <2>1. \A i \in 1 .. Len(events) : events'[i] = events[i]
    BY EngineStep, EventsOnlyGrow, GrownEvents
  <2>2. received \in 0 .. Len(events) /\ Len(events) \in Nat
    BY DEF TrayTypeOK, TypeOK
  <2> QED
    BY <1>1, <2>1, <2>2 DEF AlarmArrives
<1>2. CASE BuildTray
  BY <1>2 DEF BuildTray, Subscribe, AlarmArrives
<1>3. CASE Forward
  BY <1>3, ForwardedAlarm
<1>4. CASE HandleSpeech
  <2>1. UNCHANGED <<events, missed, received>>
    BY <1>4 DEF HandleSpeech, vars
  <2> QED
    BY <1>4, <2>1, HandledAlarm DEF AlarmArrives, OnItsWay
<1> QED
  BY <1>1, <1>2, <1>3, <1>4 DEF TrayNext, allVars

\* A panic stays visible: a tray that missed nothing and has handled everything
\* shows the alarm of an engine that is degraded, whatever was sent after it.
THEOREM AlarmsAreKept == TraySpec => []AlarmIsNotLost
<1>1. TrayInit => AlarmSent /\ AlarmArrives
  BY AlarmInit
<1>2. TypeOK /\ WorkerInv /\ TrayTypeOK /\ AlarmSent /\ AlarmArrives /\ [TrayNext]_allVars
      => AlarmSent' /\ AlarmArrives'
  BY EngineStep, AlarmSentStep, AlarmArrivesStep
<1>3. AlarmSent /\ AlarmArrives => AlarmIsNotLost
  BY DEF AlarmSent, AlarmArrives, AlarmIsNotLost, SawEverything, CaughtUp
<1> QED
  BY <1>1, <1>2, <1>3, EngineOfTray, TypeCorrect, WorkerInvariant, TrayTypeCorrect, PTL
     DEF TraySpec

-----------------------------------------------------------------------------
(* The pulse *)

\* One more event decides what is shown, or leaves it.
LEMMA PulsingNext ==
    ASSUME NEW es, NEW n \in Nat
    PROVE  PulsingAfter(n + 1, es) <=>
              \/ es[n + 1].kind = "started"
              \/ /\ es[n + 1].kind \notin {"finished", "failed", "stopped"}
                 /\ PulsingAfter(n, es)
<1> DEFINE Ends(k) == es[k].kind \in {"finished", "failed", "stopped"}
<1>1. ASSUME es[n + 1].kind = "started" PROVE PulsingAfter(n + 1, es)
  BY <1>1 DEF PulsingAfter
<1>2. ASSUME ~Ends(n + 1), PulsingAfter(n, es) PROVE PulsingAfter(n + 1, es)
  <2>1. PICK i \in 1 .. n : es[i].kind = "started" /\ \A k \in i + 1 .. n : ~Ends(k)
    BY <1>2 DEF PulsingAfter
  <2>2. \A k \in i + 1 .. n + 1 : ~Ends(k)
    BY <1>2, <2>1
  <2> QED
    BY <2>1, <2>2 DEF PulsingAfter
<1>3. ASSUME PulsingAfter(n + 1, es), es[n + 1].kind # "started"
      PROVE  ~Ends(n + 1) /\ PulsingAfter(n, es)
  <2>1. PICK i \in 1 .. n + 1 : es[i].kind = "started" /\ \A k \in i + 1 .. n + 1 : ~Ends(k)
    BY <1>3 DEF PulsingAfter
  <2>2. i \in 1 .. n /\ n + 1 \in i + 1 .. n + 1 /\ \A k \in i + 1 .. n : ~Ends(k)
    BY <1>3, <2>1
  <2> QED
    BY <2>1, <2>2 DEF PulsingAfter
<1> QED
  BY <1>1, <1>2, <1>3

\* What is shown depends on what was handled and on nothing after it.
LEMMA PulsingPrefix ==
    ASSUME NEW es, NEW fs, NEW n \in Nat, \A i \in 1 .. n : fs[i] = es[i]
    PROVE  PulsingAfter(n, fs) <=> PulsingAfter(n, es)
<1>1. \A i \in 1 .. n : \A k \in i + 1 .. n : fs[k] = es[k]
  OBVIOUS
<1> QED
  BY <1>1 DEF PulsingAfter

LEMMA PulsingSend ==
    ASSUME TypeOK, NEW kind \in EventKinds, NEW j \in Jobs \cup {NoJob}, Send(kind, j)
    PROVE  Pulsing' <=> \/ kind = "started"
                        \/ kind \notin {"finished", "failed", "stopped"} /\ Pulsing
<1>1. /\ Len(events) \in Nat /\ Len(events') = Len(events) + 1
      /\ \A i \in 1 .. Len(events) : events'[i] = events[i]
      /\ events'[Len(events) + 1].kind = kind
  BY NewEvent
<1>2. PulsingAfter(Len(events), events') <=> PulsingAfter(Len(events), events)
  BY <1>1, PulsingPrefix
<1> QED
  BY <1>1, <1>2, PulsingNext DEF Pulsing

LEMMA PulseStep ==
    ASSUME TypeOK, WorkerInv, CustodyInv, CancelInv, PulseInv, [Next]_vars
    PROVE  PulseInv'
<1> SUFFICES ASSUME NobodyStopped' PROVE PulseInv'
  BY DEF PulseInv
<1> USE DEF ToldPc
<1>1. NobodyStopped /\ \A s \in Stops : ~Sweep(s) /\ ~StopStep(s)
  <2>1. \A s \in Stops : ~Sweep(s)
    BY DEF TypeOK, NobodyStopped, Sweep
  <2>2. ASSUME NEW s \in Stops, StopStep(s) PROVE FALSE
    BY <2>2 DEF TypeOK, NobodyStopped, StopStep, AnswerCleared, AnnounceStop, CustodyInv
  <2>3. UNCHANGED stop
    BY <2>1, <2>2 DEF Next, vars, Resolve, EnqueueStep, Push, NotifyPushed, Announce,
       RaiseShutdown, HaltStep, CancelCurrent, NotifyShutdown, StoreRegistry, StoreConfig,
       WorkerStep, ProviderStep, CheckShutdown, Pop, Wake, LoadRegistry, SelectProvider,
       SetSpeaking, AnnounceStart, BeginSynthesis, Report, ClearCurrent, SetIdle, MarkDegraded,
       AnnounceDegraded, Reply, FinishRun, NoticeCancel, PanicRun
  <2> QED
    BY <2>1, <2>2, <2>3 DEF NobodyStopped
<1>2. /\ cancelled # {} => shutdown
      /\ pc \in {"begin", "run"} => Pulsing
      /\ pc \in {"pop", "park", "registry", "select", "speaking", "started"} => ~Pulsing
      /\ pc \in ToldPc \cup {"top"} => ~Pulsing \/ shutdown
  BY <1>1 DEF PulseInv
<1>3. ASSUME Pulsing' <=> Pulsing, UNCHANGED pc, shutdown => shutdown',
             cancelled' # {} => shutdown'
      PROVE  PulseInv'
  BY <1>2, <1>3 DEF PulseInv
<1>4. UNCHANGED events => (Pulsing' <=> Pulsing)
  BY DEF Pulsing
<1>5. ASSUME NEW j \in Jobs, (\E r \in Requests : Resolve(j, r)) \/ EnqueueStep(j)
      PROVE  PulseInv'
  <2>1. Announce(j) => (Pulsing' <=> Pulsing)
    BY PulsingSend DEF Announce, EventKinds
  <2>2. ~Announce(j) => UNCHANGED events
    BY <1>5 DEF Resolve, EnqueueStep, Push, NotifyPushed
  <2>3. UNCHANGED <<pc, shutdown, cancelled>>
    BY <1>5 DEF Resolve, EnqueueStep, Push, NotifyPushed, Announce
  <2> QED
    BY <1>2, <1>3, <1>4, <2>1, <2>2, <2>3
<1>6. ASSUME NEW h \in Halts, RaiseShutdown(h) \/ HaltStep(h) PROVE PulseInv'
  <2>1. UNCHANGED <<events, pc>> /\ (shutdown => shutdown')
    BY <1>6 DEF RaiseShutdown, HaltStep, CancelCurrent, NotifyShutdown
  <2>2. cancelled' # {} => shutdown'
    BY <1>2, <1>6 DEF RaiseShutdown, HaltStep, CancelCurrent, NotifyShutdown, CancelInv
  <2> QED
    BY <1>3, <1>4, <2>1, <2>2
<1>7. CASE (\E c \in Configs : StoreRegistry(c)) \/ StoreConfig
  BY <1>2, <1>3, <1>4, <1>7 DEF StoreRegistry, StoreConfig
<1>8. CASE AnnounceStart
  <2>1. Pulsing'
    BY <1>8, PulsingSend DEF AnnounceStart, EventKinds, TypeOK
  <2>2. pc' = "begin" /\ UNCHANGED <<shutdown, cancelled>>
    BY <1>8 DEF AnnounceStart, Goto
  <2> QED
    BY <1>2, <2>1, <2>2 DEF PulseInv
<1>9. CASE Report
  <2>1. Send("finished", job) \/ Send("failed", job)
    BY <1>9 DEF Report, AnnounceEnd
  <2>2. ~Pulsing'
    BY <2>1, PulsingSend DEF EventKinds, TypeOK
  <2>3. pc' \in {"clear", "panic_reply"} /\ UNCHANGED <<shutdown, cancelled>>
    BY <1>9 DEF Report, Goto
  <2> QED
    BY <1>2, <2>2, <2>3 DEF PulseInv
<1>10. CASE AnnounceDegraded
  <2>1. pc' = "panic_report" /\ UNCHANGED <<shutdown, cancelled>>
    BY <1>10 DEF AnnounceDegraded, Goto
  <2> QED
    BY <1>2, <2>1 DEF PulseInv
<1>11. CASE \/ CheckShutdown \/ Pop \/ Wake \/ LoadRegistry \/ SelectProvider \/ SetSpeaking
            \/ BeginSynthesis \/ ClearCurrent \/ SetIdle \/ MarkDegraded \/ Reply
            \/ ProviderStep
  <2>1. UNCHANGED <<events, shutdown, cancelled>>
    BY <1>11 DEF CheckShutdown, Pop, Wake, LoadRegistry, SelectProvider, SetSpeaking,
       BeginSynthesis, ClearCurrent, SetIdle, MarkDegraded, Reply, ProviderStep, FinishRun,
       NoticeCancel, PanicRun
  <2>2. /\ pc' \in {"begin", "run"} => Pulsing
        /\ pc' \in {"pop", "park", "registry", "select", "speaking", "started"} => ~Pulsing
        /\ pc' \in ToldPc \cup {"top"} => ~Pulsing \/ shutdown
    BY <1>2, <1>11 DEF CheckShutdown, Pop, Wake, LoadRegistry, SelectProvider, SetSpeaking,
       BeginSynthesis, ClearCurrent, SetIdle, MarkDegraded, Reply, ProviderStep, FinishRun,
       NoticeCancel, PanicRun, EndRun, Goto
  <2> QED
    BY <1>2, <1>4, <2>1, <2>2 DEF PulseInv
<1>12. CASE UNCHANGED vars
  BY <1>2, <1>3, <1>4, <1>12 DEF vars
<1> QED
  BY <1>1, <1>5, <1>6, <1>7, <1>8, <1>9, <1>10, <1>11, <1>12 DEF Next, WorkerStep

-----------------------------------------------------------------------------

\* What a tray that missed nothing has handled is a prefix of what was sent.
LEMMA FollowLengths ==
    ASSUME TypeOK, TrayTypeOK, FollowInv, missed = 0
    PROVE  /\ Len(mailbox) \in Nat /\ received \in Nat /\ Len(events) \in Nat
           /\ Handled \in Nat /\ Handled + Len(mailbox) = received /\ received <= Len(events)
<1>1. Len(mailbox) \in Nat /\ Len(events) \in Nat /\ received \in 0 .. Len(events)
  BY DEF TypeOK, TrayTypeOK
<1>2. Len(mailbox) <= received
  BY DEF FollowInv
<1> QED
  BY <1>1, <1>2 DEF Handled

\* What the engine sends does not change what the tray has handled.
LEMMA FollowEngine ==
    ASSUME TypeOK, WorkerInv, TrayTypeOK, FollowInv, [Next]_vars, UNCHANGED trayVars
    PROVE  FollowInv'
<1>1. \A i \in 1 .. Len(events) : events'[i] = events[i]
  BY EventsOnlyGrow, GrownEvents
<1>2. ~tray' => missed' = 0 /\ received' = 0
  BY DEF FollowInv
<1>3. ASSUME missed' = 0
      PROVE  /\ Len(mailbox') <= received'
             /\ \A k \in 1 .. Len(mailbox') : mailbox'[k] = events'[Handled + k]
             /\ indicator' = IF PulsingAfter(Handled, events') THEN "speaking" ELSE "idle"
  <2>0. missed = 0
    BY <1>3
  <2>1. /\ Len(mailbox) \in Nat /\ received \in Nat /\ Len(events) \in Nat
        /\ Handled \in Nat /\ Handled + Len(mailbox) = received /\ received <= Len(events)
    BY <2>0, FollowLengths
  <2>2. /\ Len(mailbox) <= received
        /\ \A k \in 1 .. Len(mailbox) : mailbox[k] = events[Handled + k]
        /\ indicator = IF PulsingAfter(Handled, events) THEN "speaking" ELSE "idle"
    BY <2>0 DEF FollowInv
  <2>3. \A k \in 1 .. Len(mailbox) : Handled + k \in 1 .. Len(events)
    BY <2>1
  <2>4. \A i \in 1 .. Handled : events'[i] = events[i]
    BY <1>1, <2>1
  <2>5. PulsingAfter(Handled, events') <=> PulsingAfter(Handled, events)
    BY <2>1, <2>4, PulsingPrefix
  <2>6. \A k \in 1 .. Len(mailbox) : mailbox[k] = events'[Handled + k]
    BY <1>1, <2>2, <2>3
  <2> QED
    BY <2>2, <2>5, <2>6
<1>4. Handled' = Handled
  BY DEF Handled
<1> QED
  BY <1>2, <1>3, <1>4 DEF FollowInv

\* The subscription starts after what was sent before it.
LEMMA FollowBuild ==
    ASSUME TypeOK, TrayTypeOK, FollowInv, BuildTray PROVE FollowInv'
<1>1. /\ tray' = TRUE /\ missed = 0 /\ received = 0
      /\ missed' = Len(events) /\ received' = Len(events)
      /\ UNCHANGED <<events, mailbox, indicator>>
  BY DEF BuildTray, Subscribe, FollowInv, vars
<1>2. CASE Len(events) = 0
  <2>1. UNCHANGED <<missed, received, Handled>>
    BY <1>1, <1>2 DEF Handled
  <2> QED
    BY <1>1, <2>1 DEF FollowInv
<1>3. CASE Len(events) # 0
  BY <1>1, <1>3 DEF FollowInv
<1> QED
  BY <1>2, <1>3

LEMMA FollowForward ==
    ASSUME TypeOK, TrayTypeOK, FollowInv, Forward PROVE FollowInv'
<1>1. /\ tray' = TRUE /\ UNCHANGED <<events, indicator>> /\ received < Len(events)
      /\ missed \in Nat /\ received \in Nat /\ Len(events) \in Nat
  BY DEF Forward, TrayTypeOK, TypeOK, vars
<1>2. CASE ~Overrun
  <2>1. mailbox' = Append(mailbox, events[received + 1]) /\ received' = received + 1
        /\ missed' = missed
    BY <1>2 DEF Forward
  <2>2. mailbox \in Seq(Events) /\ events[received + 1] \in Events
    BY <1>1 DEF TypeOK, TrayTypeOK
  <2>3. /\ Len(mailbox') = Len(mailbox) + 1 /\ Len(mailbox) \in Nat
        /\ \A k \in 1 .. Len(mailbox) : mailbox'[k] = mailbox[k]
        /\ mailbox'[Len(mailbox) + 1] = events[received + 1]
    BY <2>1, <2>2
  <2>4. Handled' = Handled
    BY <1>1, <2>1, <2>3 DEF Handled
  <2>5. ASSUME missed' = 0
        PROVE  /\ Len(mailbox') <= received'
               /\ \A k \in 1 .. Len(mailbox') : mailbox'[k] = events'[Handled + k]
               /\ indicator' = IF PulsingAfter(Handled, events') THEN "speaking" ELSE "idle"
    <3>1. missed = 0
      BY <2>1, <2>5
    <3>2. Handled + Len(mailbox) = received /\ Handled \in Nat /\ Len(mailbox) <= received
      BY <3>1, FollowLengths DEF FollowInv
    <3>3. \A k \in 1 .. Len(mailbox) : mailbox[k] = events[Handled + k]
      BY <3>1 DEF FollowInv
    <3>4. \A k \in 1 .. Len(mailbox') : k \in 1 .. Len(mailbox) \/ k = Len(mailbox) + 1
      BY <2>3
    <3>5. Handled + (Len(mailbox) + 1) = received + 1
      BY <2>3, <3>2
    <3>6. \A k \in 1 .. Len(mailbox') : mailbox'[k] = events[Handled + k]
      BY <2>3, <3>3, <3>4, <3>5
    <3>7. indicator = IF PulsingAfter(Handled, events) THEN "speaking" ELSE "idle"
      BY <3>1 DEF FollowInv
    <3>8. Len(mailbox') <= received'
      BY <1>1, <2>1, <2>3, <3>2
    <3> QED
      BY <1>1, <3>6, <3>7, <3>8
  <2> QED
    BY <1>1, <2>4, <2>5 DEF FollowInv
<1>3. CASE Overrun
  <2>1. missed' > 0
    BY <1>1, <1>3, ChannelCapacityAssumption DEF Forward, Overrun
  <2> QED
    BY <1>1, <2>1 DEF FollowInv
<1> QED
  BY <1>2, <1>3

LEMMA FollowHandle ==
    ASSUME TypeOK, TrayTypeOK, FollowInv, HandleSpeech PROVE FollowInv'
<1>1. /\ UNCHANGED <<events, tray, missed, received>>
      /\ mailbox \in Seq(Events) /\ mailbox # <<>> /\ mailbox' = Tail(mailbox)
      /\ indicator' = Shown(Head(mailbox).kind)
  BY DEF HandleSpeech, TrayTypeOK, vars
<1>2. /\ Len(mailbox) \in Nat \ {0} /\ Len(mailbox') = Len(mailbox) - 1
      /\ Head(mailbox) = mailbox[1]
      /\ \A k \in 1 .. Len(mailbox') : k + 1 \in 1 .. Len(mailbox) /\ mailbox'[k] = mailbox[k + 1]
  BY <1>1
<1>3. ASSUME missed' = 0
      PROVE  /\ Len(mailbox') <= received'
             /\ \A k \in 1 .. Len(mailbox') : mailbox'[k] = events'[Handled' + k]
             /\ indicator' = IF PulsingAfter(Handled', events') THEN "speaking" ELSE "idle"
  <2>1. missed = 0
    BY <1>1, <1>3
  <2>2. Handled + Len(mailbox) = received /\ Handled \in Nat /\ Len(mailbox) <= received
        /\ received \in Nat
    BY <2>1, FollowLengths DEF FollowInv
  <2>3. /\ \A k \in 1 .. Len(mailbox) : mailbox[k] = events[Handled + k]
        /\ indicator = IF PulsingAfter(Handled, events) THEN "speaking" ELSE "idle"
    BY <2>1 DEF FollowInv
  <2>4. Handled' = Handled + 1
    BY <1>1, <1>2, <2>2 DEF Handled
  <2>5. Head(mailbox) = events[Handled + 1]
    BY <1>2, <2>3
  <2>6. indicator' = IF PulsingAfter(Handled + 1, events) THEN "speaking" ELSE "idle"
    <3>1. PulsingAfter(Handled + 1, events) <=>
              \/ events[Handled + 1].kind = "started"
              \/ /\ events[Handled + 1].kind \notin {"finished", "failed", "stopped"}
                 /\ PulsingAfter(Handled, events)
      BY <2>2, PulsingNext
    <3> DEFINE kind == events[Handled + 1].kind
    <3>2. indicator' = Shown(kind)
      BY <1>1, <2>5
    <3>3. Shown(kind) = IF kind = "started" THEN "speaking"
                        ELSE IF kind \in {"finished", "failed", "stopped"} THEN "idle"
                        ELSE indicator
      BY DEF Shown
    <3> QED
      BY <2>3, <3>1, <3>2, <3>3
  <2>7. \A k \in 1 .. Len(mailbox') : mailbox'[k] = events[(Handled + 1) + k]
    <3> TAKE k \in 1 .. Len(mailbox')
    <3>1. mailbox'[k] = mailbox[k + 1] /\ mailbox[k + 1] = events[Handled + (k + 1)]
      BY <1>2, <2>3
    <3>2. Handled + (k + 1) = (Handled + 1) + k
      BY <1>2, <2>2
    <3> QED
      BY <3>1, <3>2
  <2>8. Len(mailbox') <= received'
    BY <1>1, <1>2, <2>2
  <2> QED
    BY <1>1, <2>4, <2>6, <2>7, <2>8
<1>4. ~tray' => missed' = 0 /\ received' = 0
  BY <1>1 DEF FollowInv
<1> QED
  BY <1>3, <1>4 DEF FollowInv

LEMMA FollowInit == TrayInit => FollowInv
  BY DEF TrayInit, Init, FollowInv, Handled, PulsingAfter

LEMMA FollowStep ==
    TypeOK /\ WorkerInv /\ TrayTypeOK /\ FollowInv /\ [TrayNext]_allVars => FollowInv'
<1> SUFFICES ASSUME TypeOK, WorkerInv, TrayTypeOK, FollowInv, [TrayNext]_allVars
             PROVE  FollowInv'
  OBVIOUS
<1>1. CASE UNCHANGED trayVars
  BY <1>1, EngineStep, FollowEngine
<1>2. CASE BuildTray \/ Forward \/ HandleSpeech
  BY <1>2, FollowBuild, FollowForward, FollowHandle
<1> QED
  BY <1>1, <1>2 DEF TrayNext, allVars

LEMMA PulseInit == Init => PulseInv
  BY DEF Init, PulseInv, Pulsing, PulsingAfter, ToldPc

\* A tray that missed nothing, once it has handled everything, pulses while a job
\* runs and is gray between jobs: failed, panicked and unroutable jobs included,
\* and at whatever point of the engine's life the tray subscribed to it, as long
\* as nobody has called stop (runtime_shell.rs, the Speech events).
THEOREM PulseFollowsWorker == TraySpec => []PulsesExactlyWhileSpeaking
<1>1. ASSUME TypeOK, TrayTypeOK, FollowInv, PulseInv PROVE PulsesExactlyWhileSpeaking
  <2> SUFFICES ASSUME SawEverything, NobodyStopped
               PROVE  /\ pc \in {"begin", "run"} => indicator = "speaking"
                      /\ pc \in {"pop", "park"} => indicator = "idle"
    BY DEF PulsesExactlyWhileSpeaking
  <2>1. missed = 0 /\ Handled = Len(events)
    BY <1>1 DEF SawEverything, CaughtUp, Handled, TypeOK
  <2>2. indicator = IF Pulsing THEN "speaking" ELSE "idle"
    BY <1>1, <2>1 DEF FollowInv, Pulsing
  <2> QED
    BY <1>1, <2>2 DEF PulseInv
<1>2. TypeOK /\ WorkerInv /\ CustodyInv /\ CancelInv /\ TrayTypeOK /\ FollowInv /\ PulseInv
        /\ [TrayNext]_allVars => FollowInv' /\ PulseInv'
  BY EngineStep, FollowStep, PulseStep
<1>3. TrayInit => FollowInv /\ PulseInv
  BY FollowInit, PulseInit DEF TrayInit
<1> QED
  BY <1>1, <1>2, <1>3, EngineOfTray, TypeCorrect, WorkerInvariant, Custody, Cancellation,
     TrayTypeCorrect, PTL DEF TraySpec
=============================================================================
