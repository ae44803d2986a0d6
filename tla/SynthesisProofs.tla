-------------------------- MODULE SynthesisProofs ---------------------------
(***************************************************************************)
(* Only the job the worker runs can be heard, a completed job was heard to *)
(* its end, and whatever providers and playback do is a step of the        *)
(* engine, for any jobs, stops, shutdowns and configurations.              *)
(***************************************************************************)
EXTENDS Synthesis, SpeechEngineProofs, WellFoundedInduction

USE DEF confVars, statusVars, callVars, stopVars, workerVars, calls, outside, synthVars

-----------------------------------------------------------------------------
(* Every step is one of the engine, or none *)

\* A provider that returns ends the run as the engine lets it end.
LEMMA EndIsEngineStep ==
    ASSUME NEW r \in Outcomes, End(r), r = "cancelled" => job \in cancelled
    PROVE  Next
<1>1. CASE r = "cancelled"
  <2>1. NoticeCancel
    BY <1>1 DEF End, NoticeCancel
  <2> QED
    BY <2>1 DEF Next, ProviderStep
<1>2. CASE r # "cancelled"
  <2>1. FinishRun
    BY <1>2 DEF End, FinishRun, Outcomes
  <2> QED
    BY <2>1 DEF Next, ProviderStep
<1> QED
  BY <1>1, <1>2

\* A run that goes on is nothing to the engine.
LEMMA StepIsStutter ==
    ASSUME NEW here, NEW next, Step(here, next) PROVE UNCHANGED vars
  BY DEF Step

LEMMA SimulationStep == [SynthesisNext]_synthesisVars => [Next]_vars
<1> SUFFICES ASSUME [SynthesisNext]_synthesisVars PROVE [Next]_vars
  OBVIOUS
<1>1. CASE Elsewhere
  BY <1>1 DEF Elsewhere
<1>2. CASE Choose
  BY <1>2 DEF Choose, Next, WorkerStep
<1>3. CASE Begin
  BY <1>3 DEF Begin, Next, WorkerStep
<1>4. CASE Launch
  BY <1>4, EndIsEngineStep, StepIsStutter DEF Launch, Outcomes
<1>5. CASE CheckChild
  BY <1>5, EndIsEngineStep, StepIsStutter DEF CheckChild, ReturnCancelled, Tripped, Outcomes
<1>6. CASE TryWait
  <2>1. ExitResult \in Outcomes /\ ExitResult # "cancelled"
    BY DEF ExitResult, Outcomes
  <2> QED
    BY <1>6, <2>1, EndIsEngineStep, StepIsStutter DEF TryWait
<1>7. CASE Answer
  BY <1>7, EndIsEngineStep, StepIsStutter DEF Answer, Outcomes
<1>8. CASE CheckBeforePlay
  BY <1>8, EndIsEngineStep, StepIsStutter DEF CheckBeforePlay, ReturnCancelled, Tripped, Outcomes
<1>9. CASE OpenDevice
  BY <1>9, EndIsEngineStep, StepIsStutter DEF OpenDevice, Outcomes
<1>10. CASE CheckClip
  BY <1>10, EndIsEngineStep, StepIsStutter DEF CheckClip, ReturnCancelled, Tripped, Outcomes
<1>11. CASE CheckEmpty
  BY <1>11, EndIsEngineStep, StepIsStutter DEF CheckEmpty, Outcomes
<1>12. CASE SoundEnds
  BY <1>12 DEF SoundEnds
<1>13. CASE Panic
  BY <1>13 DEF Panic, Next, ProviderStep
<1>14. CASE UNCHANGED synthesisVars
  BY <1>14 DEF synthesisVars
<1> QED
  BY <1>1, <1>2, <1>3, <1>4, <1>5, <1>6, <1>7, <1>8, <1>9, <1>10, <1>11, <1>12,
     <1>13, <1>14 DEF SynthesisNext, ProgramStep

\* What the engine assumes of a run holds of all three providers and of the
\* playback, with the token tripped at any moment: a run ends as completed,
\* failed, panicked or, with its token tripped, cancelled, and does nothing else.
THEOREM ProvidersKeepTheEngine == SynthesisSpec => ImplementsEngine
  BY SimulationStep, PTL DEF SynthesisSpec, ImplementsEngine

\* So whatever is proved of the engine is proved with its providers.
LEMMA EngineOfSynthesis == SynthesisSpec => Spec
<1>1. SynthesisInit => Init
  BY DEF SynthesisInit
<1> QED
  BY <1>1, SimulationStep, PTL DEF SynthesisSpec, Spec

-----------------------------------------------------------------------------
(* What can be heard *)

\* How far a step of the engine elsewhere can go: it leaves a run alone and
\* decides nothing, and an outcome it delivers was decided before.
AroundRun ==
    /\ pc = "run" <=> pc' = "run"
    /\ pc = "run" => job' = job
    /\ pc' \in DecidedPc => pc \in DecidedPc /\ result' = result /\ job' = job
    /\ pc' \in ChosenPc => pc \in ChosenPc
    /\ \A j \in Jobs : outcome'[j] = "completed" =>
        \/ outcome[j] = "completed"
        \/ j = job /\ pc \in DecidedPc /\ result = "completed"

\* Calls leave the worker alone, and answer nobody with "completed".
LEMMA CallsAroundRun ==
    ASSUME TypeOK, UNCHANGED workerVars,
           \/ UNCHANGED outcome
           \/ \E s \in Stops : AnswerCleared(s)
    PROVE  AroundRun
<1>1. CASE UNCHANGED outcome
  BY <1>1 DEF AroundRun
<1>2. ASSUME NEW s \in Stops, AnswerCleared(s) PROVE AroundRun
  <2>1. \A j \in Jobs : outcome'[j] \in {outcome[j], "cancelled"}
    BY <1>2 DEF AnswerCleared, SendWaiter, TypeOK
  <2> QED
    BY <2>1 DEF AroundRun
<1> QED
  BY <1>1, <1>2

\* The worker outside of a run.
LEMMA WorkerAroundRun ==
    ASSUME TypeOK, WorkerStep \/ ProviderStep,
           pc \in {"select", "begin", "run"} => pc' = pc
    PROVE  AroundRun
<1> USE DEF AroundRun, TaskPc, PanicPc, DecidedPc, ChosenPc, Goto
<1>1. CASE CheckShutdown
  BY <1>1 DEF CheckShutdown
<1>2. CASE Pop
  BY <1>2 DEF Pop, Take
<1>3. CASE Wake
  BY <1>3 DEF Wake
<1>4. CASE LoadRegistry
  BY <1>4 DEF LoadRegistry
<1>5. CASE SelectProvider
  BY <1>5 DEF SelectProvider
<1>6. CASE SetSpeaking
  BY <1>6 DEF SetSpeaking
<1>7. CASE AnnounceStart
  BY <1>7 DEF AnnounceStart
<1>8. CASE BeginSynthesis
  BY <1>8 DEF BeginSynthesis, EndRun
<1>9. CASE Report
  BY <1>9 DEF Report
<1>10. CASE ClearCurrent
  BY <1>10 DEF ClearCurrent
<1>11. CASE SetIdle
  BY <1>11 DEF SetIdle
<1>12. CASE MarkDegraded
  BY <1>12 DEF MarkDegraded
<1>13. CASE AnnounceDegraded
  BY <1>13 DEF AnnounceDegraded
<1>14. CASE Reply
  <2>1. ASSUME NEW j \in Jobs, outcome'[j] = "completed"
        PROVE  outcome[j] = "completed" \/ (j = job /\ result = "completed")
    BY <1>14, <2>1 DEF Reply, SendWaiter, TypeOK
  <2>2. pc \in DecidedPc /\ pc' = "top"
    BY <1>14 DEF Reply
  <2> QED
    BY <2>1, <2>2
<1>15. CASE FinishRun
  BY <1>15 DEF FinishRun, EndRun
<1>16. CASE NoticeCancel
  BY <1>16 DEF NoticeCancel, EndRun
<1>17. CASE PanicRun
  BY <1>17 DEF PanicRun
<1> QED
  BY <1>1, <1>2, <1>3, <1>4, <1>5, <1>6, <1>7, <1>8, <1>9, <1>10, <1>11, <1>12,
     <1>13, <1>14, <1>15, <1>16, <1>17 DEF WorkerStep, ProviderStep

LEMMA ElsewhereAroundRun == ASSUME TypeOK, Elsewhere PROVE AroundRun
<1>1. ASSUME NEW j \in Jobs, (\E r \in Requests : Resolve(j, r)) \/ EnqueueStep(j)
      PROVE  AroundRun
  BY <1>1, CallsAroundRun DEF Resolve, EnqueueStep, Push, NotifyPushed, Announce
<1>2. ASSUME NEW s \in Stops, Sweep(s) \/ StopStep(s) PROVE AroundRun
  <2>1. UNCHANGED workerVars /\ (UNCHANGED outcome \/ AnswerCleared(s))
    BY <1>2 DEF Sweep, StopStep, AnswerCleared, AnnounceStop
  <2> QED
    BY <2>1, CallsAroundRun
<1>3. ASSUME NEW h \in Halts, RaiseShutdown(h) \/ HaltStep(h) PROVE AroundRun
  BY <1>3, CallsAroundRun DEF RaiseShutdown, HaltStep, CancelCurrent, NotifyShutdown
<1>4. CASE (\E c \in Configs : StoreRegistry(c)) \/ StoreConfig
  BY <1>4, CallsAroundRun DEF StoreRegistry, StoreConfig
<1>5. CASE WorkerStep \/ ProviderStep
  BY <1>5, WorkerAroundRun DEF Elsewhere
<1> QED
  BY <1>1, <1>2, <1>3, <1>4, <1>5 DEF Next, Elsewhere

LEMMA SoundInit == SynthesisInit => SoundInv
  BY DEF SynthesisInit, Init, SoundInv, SoundSteps, DecidedPc, PanicPc,
         CompletedWasHeard, Pending

\* Around a run nothing is heard.
LEMMA SoundElsewhere ==
    ASSUME TypeOK, SoundInv, Elsewhere PROVE SoundInv'
<1>1. AroundRun /\ UNCHANGED synthVars
  BY ElsewhereAroundRun DEF Elsewhere
<1>2. sounding # {} => pc = "run" /\ job' = job
  BY <1>1 DEF SoundInv, SoundSteps, AroundRun
<1>3. phase \in {"playing", "empty"} => job' = job
  BY <1>1 DEF SoundInv, AroundRun
<1>4. CompletedWasHeard'
  BY <1>1 DEF SoundInv, CompletedWasHeard, AroundRun
<1> QED
  BY <1>1, <1>2, <1>3, <1>4 DEF SoundInv, AroundRun

\* The run goes on over the same job.
LEMMA SoundGoesOn ==
    ASSUME SoundInv, UNCHANGED vars, phase # "off", phase' # "off",
           sounding' \subseteq {job}, played \subseteq played',
           phase' \notin SoundSteps => sounding' = {},
           phase' \in {"playing", "empty"} => job \in sounding' \cup played'
    PROVE  SoundInv'
  BY DEF SoundInv, vars, CompletedWasHeard

\* A run that ends is silent by then, and completed only if it was heard.
LEMMA SoundOver ==
    ASSUME SoundInv, NEW r, End(r), UNCHANGED played, sounding' = {},
           r = "completed" => job \in played
    PROVE  SoundInv'
<1>1. phase' = "off" /\ pc' # "run" /\ result' = r /\ UNCHANGED <<job, outcome>>
  BY DEF End, EndRun
<1> QED
  BY <1>1 DEF SoundInv, CompletedWasHeard, SoundSteps

LEMMA SoundStep ==
    TypeOK /\ SoundInv /\ [SynthesisNext]_synthesisVars => SoundInv'
<1> SUFFICES ASSUME TypeOK, SoundInv, [SynthesisNext]_synthesisVars PROVE SoundInv'
  OBVIOUS
<1> USE DEF Quiet, Silence, Sound
<1>1. sounding \subseteq {job} /\ (phase \notin SoundSteps => sounding = {})
  BY DEF SoundInv
<1>2. CASE Elsewhere
  BY <1>2, SoundElsewhere
<1>3. CASE Choose
  <2>1. pc = "select" /\ pc' \in {"speaking", "report"} /\ UNCHANGED <<job, outcome>>
        /\ (pc' = "report" => result' = "failed")
    BY <1>3 DEF Choose, SelectProvider
  <2>2. UNCHANGED <<phase, sounding, played>>
    BY <1>3 DEF Choose
  <2> QED
    BY <2>1, <2>2 DEF SoundInv, CompletedWasHeard, DecidedPc, PanicPc
<1>4. CASE Begin
  <2>1. pc = "begin" /\ pc' \in {"clear", "run"} /\ UNCHANGED <<job, outcome>>
        /\ (pc' = "clear" => result' = "cancelled")
    BY <1>4 DEF Begin, BeginSynthesis, EndRun
  <2>2. phase' = (IF pc' = "run" THEN Entry ELSE "off") /\ UNCHANGED <<sounding, played>>
    BY <1>4 DEF Begin
  <2>3. phase = "off" /\ sounding = {}
    BY <1>1, <2>1 DEF SoundInv, SoundSteps
  <2> QED
    BY <2>1, <2>2, <2>3 DEF SoundInv, CompletedWasHeard, DecidedPc, PanicPc, SoundSteps, Entry
<1>5. CASE Launch
  <2>1. phase = "launch" /\ sounding = {}
    BY <1>1, <1>5 DEF Launch, SoundSteps
  <2> QED
    BY <1>5, <2>1, SoundGoesOn, SoundOver DEF Launch, Step, SoundSteps
<1>6. CASE CheckChild
  BY <1>1, <1>6, SoundGoesOn, SoundOver DEF CheckChild, ReturnCancelled, Step, SoundSteps
<1>7. CASE TryWait
  BY <1>1, <1>7, SoundGoesOn, SoundOver DEF TryWait, ExitResult, Step, SoundSteps
<1>8. CASE Answer
  BY <1>1, <1>8, SoundGoesOn, SoundOver DEF Answer, Step, SoundSteps
<1>9. CASE CheckBeforePlay
  BY <1>1, <1>9, SoundGoesOn, SoundOver DEF CheckBeforePlay, ReturnCancelled, Step, SoundSteps
<1>10. CASE OpenDevice
  <2>1. phase = "open" /\ sounding = {}
    BY <1>1, <1>10 DEF OpenDevice, SoundSteps
  <2> QED
    BY <1>10, <2>1, SoundGoesOn, SoundOver DEF OpenDevice, Step, SoundSteps
<1>11. CASE CheckClip
  <2>1. phase = "playing" /\ job \in sounding \cup played
    BY <1>11 DEF CheckClip, SoundInv
  <2> QED
    BY <1>1, <1>11, <2>1, SoundGoesOn, SoundOver DEF CheckClip, ReturnCancelled, Step, SoundSteps
<1>12. CASE CheckEmpty
  <2>1. phase = "empty" /\ job \in sounding \cup played
    BY <1>12 DEF CheckEmpty, SoundInv
  <2> QED
    BY <1>1, <1>12, <2>1, SoundGoesOn, SoundOver DEF CheckEmpty, Step, SoundSteps
<1>13. CASE SoundEnds
  <2>1. phase \in SoundSteps /\ phase' = phase /\ sounding' = {}
    BY <1>1, <1>13 DEF SoundEnds
  <2>2. played \subseteq played' /\ (phase \in {"playing", "empty"} => job \in played')
    BY <1>13 DEF SoundEnds, AppleSteps
  <2> QED
    BY <1>13, <2>1, <2>2, SoundGoesOn DEF SoundEnds, SoundSteps
<1>14. CASE Panic
  <2>1. pc' = "panic_clear" /\ result' = "failed" /\ UNCHANGED <<job, outcome>>
    BY <1>14 DEF Panic, PanicRun, Goto
  <2>2. phase' = "off" /\ sounding = {} /\ UNCHANGED <<sounding, played>>
    BY <1>1, <1>14 DEF Panic, SoundSteps
  <2> QED
    BY <2>1, <2>2 DEF SoundInv, CompletedWasHeard, SoundSteps
<1>15. CASE UNCHANGED synthesisVars
  BY <1>15 DEF synthesisVars, vars, SoundInv, CompletedWasHeard
<1> QED
  BY <1>2, <1>3, <1>4, <1>5, <1>6, <1>7, <1>8, <1>9, <1>10, <1>11, <1>12, <1>13,
     <1>14, <1>15 DEF SynthesisNext, ProgramStep

LEMMA SoundInvariant == SynthesisSpec => []SoundInv
  BY TypeCorrect, EngineOfSynthesis, SoundInit, SoundStep, PTL DEF SynthesisSpec

\* Only the job the worker runs can be heard, and it is silent before the worker
\* leaves the run, however it ends: no two utterances ever sound together.
THEOREM NothingElseSounds == SynthesisSpec => []OnlyTheRunSounds
<1>1. SoundInv => OnlyTheRunSounds
  BY DEF SoundInv, OnlyTheRunSounds, SoundSteps
<1> QED
  BY <1>1, SoundInvariant, PTL

\* A caller that is told "completed" was not lied to by a stop that came late.
THEOREM CompletedMeansHeard == SynthesisSpec => []CompletedWasHeard
<1>1. SoundInv => CompletedWasHeard
  BY DEF SoundInv
<1> QED
  BY <1>1, SoundInvariant, PTL

-----------------------------------------------------------------------------
(* The provider that runs a job *)

\* Positions have a least one.
LEMMA LeastPosition ==
    ASSUME NEW positions, positions \subseteq Nat, positions # {}
    PROVE  Min(positions) \in positions
<1>1. PICK x \in positions : \A y \in positions : ~(<<y, x>> \in OpToRel(<, Nat))
  BY NatLessThanWellFounded, WFMin, Zenon
<1>2. ASSUME NEW y \in positions PROVE x <= y
  <2>1. <<y, x>> \in Nat \X Nat /\ ~(<<y, x>> \in OpToRel(<, Nat))
    BY <1>1, Zenon
  <2>2. ~(<<y, x>>[1] < <<y, x>>[2])
    BY <2>1, Zenon DEF OpToRel
  <2> QED
    BY <2>2
<1> QED
  BY <1>2 DEF Min

\* Whatever the order says, a job goes to an available provider or to none.
LEMMA SelectedIsAvailable ==
    ASSUME NEW available \in SUBSET Kinds, NEW first, NEW c \in Configs
    PROVE  Select(available, first, c.order) \in available \cup {NoProvider}
<1> DEFINE usable == Fallbacks(available, first, c.order)
<1>1. c.order \in Seq(Kinds)
  BY ConfigsAssumption DEF IsConfig
<1>2. usable \subseteq Nat
  BY <1>1 DEF Fallbacks
<1>3. usable # {} => Min(usable) \in usable
  BY <1>2, LeastPosition
<1>4. usable # {} => c.order[Min(usable)] \in available
  BY <1>3 DEF Fallbacks
<1> QED
  BY <1>4 DEF Select

LEMMA ChosenInit == SynthesisInit => ChosenInv
  BY DEF SynthesisInit, Init, ChosenInv, ChosenPc, SynthesisTypeOK, AppleSteps, CloudSteps

\* A run that goes on goes to another step of the same backend.
LEMMA ChosenGoesOn ==
    ASSUME ChosenInv, WorkerInv, UNCHANGED <<vars, backend>>, pc = "run",
           sounding' \in {sounding, sounding \cup {job}, sounding \ {job}},
           played' \in {played, played \cup {job}},
           \/ phase \in AppleSteps /\ phase' \in AppleSteps
           \/ phase \in CloudSteps /\ phase' \in CloudSteps
    PROVE  ChosenInv'
<1>1. job \in Jobs
  BY DEF WorkerInv, TaskPc
<1>2. sounding' \in SUBSET Jobs /\ played' \in SUBSET Jobs
  BY <1>1 DEF ChosenInv, SynthesisTypeOK
<1>3. phase' # "off" /\ (phase' \in AppleSteps => phase \in AppleSteps)
      /\ (phase' \in CloudSteps => phase \in CloudSteps)
  BY DEF AppleSteps, CloudSteps
<1> QED
  BY <1>2, <1>3 DEF ChosenInv, SynthesisTypeOK, ChosenPc, vars

\* A run that is over leaves only what was heard.
LEMMA ChosenOver ==
    ASSUME ChosenInv, UNCHANGED <<backend, played>>, phase' = "off",
           pc' \notin {"run"} \cup ChosenPc,
           sounding' \in {sounding, sounding \ {job}}
    PROVE  ChosenInv'
  BY DEF ChosenInv, SynthesisTypeOK, AppleSteps, CloudSteps

LEMMA ChosenEnd ==
    ASSUME ChosenInv, NEW r, End(r), UNCHANGED played,
           sounding' \in {sounding, sounding \ {job}}
    PROVE  ChosenInv'
  BY ChosenOver DEF End, EndRun, ChosenPc

LEMMA ChosenStep ==
    TypeOK /\ WorkerInv /\ ChosenInv /\ [SynthesisNext]_synthesisVars => ChosenInv'
<1> SUFFICES ASSUME TypeOK, WorkerInv, ChosenInv, [SynthesisNext]_synthesisVars
             PROVE  ChosenInv'
  OBVIOUS
<1> USE DEF Quiet, Silence, Sound, AppleSteps, CloudSteps
<1>0. phase # "off" => pc = "run"
  BY DEF ChosenInv, SynthesisTypeOK
<1>1. CASE Elsewhere
  <2>1. AroundRun /\ UNCHANGED synthVars
    BY <1>1, ElsewhereAroundRun DEF Elsewhere
  <2> QED
    BY <2>1 DEF ChosenInv, SynthesisTypeOK, AroundRun
<1>2. CASE Choose
  <2>1. backend' \in snapshot \cup {NoProvider}
    BY <1>2, SelectedIsAvailable DEF Choose, Chosen, TypeOK
  <2>2. pc = "select" /\ pc' # "run" /\ (pc' \in ChosenPc => backend' # NoProvider)
    BY <1>2 DEF Choose, SelectProvider, ChosenPc
  <2>3. phase = "off" /\ UNCHANGED <<phase, sounding, played>>
    BY <1>2, <2>2 DEF Choose, ChosenInv, SynthesisTypeOK
  <2> QED
    BY <2>1, <2>2, <2>3 DEF ChosenInv, SynthesisTypeOK, TypeOK
<1>3. CASE Begin
  <2>1. pc = "begin" /\ pc' \in {"clear", "run"}
    BY <1>3 DEF Begin, BeginSynthesis, EndRun
  <2>2. phase' = (IF pc' = "run" THEN Entry ELSE "off") /\ UNCHANGED <<backend, sounding, played>>
    BY <1>3 DEF Begin
  <2>3. backend \in Kinds
    BY <2>1 DEF ChosenInv, ChosenPc, SynthesisTypeOK
  <2> QED
    BY <2>1, <2>2, <2>3 DEF ChosenInv, ChosenPc, SynthesisTypeOK, Entry, Kinds
<1>4. CASE Launch
  BY <1>0, <1>4, ChosenGoesOn, ChosenEnd DEF Launch, Step
<1>5. CASE CheckChild
  BY <1>0, <1>5, ChosenGoesOn, ChosenEnd DEF CheckChild, ReturnCancelled, Step
<1>6. CASE TryWait
  BY <1>0, <1>6, ChosenGoesOn, ChosenEnd DEF TryWait, Step
<1>7. CASE Answer
  BY <1>0, <1>7, ChosenGoesOn, ChosenEnd DEF Answer, Step
<1>8. CASE CheckBeforePlay
  BY <1>0, <1>8, ChosenGoesOn, ChosenEnd DEF CheckBeforePlay, ReturnCancelled, Step
<1>9. CASE OpenDevice
  BY <1>0, <1>9, ChosenGoesOn, ChosenEnd DEF OpenDevice, Step
<1>10. CASE CheckClip
  BY <1>0, <1>10, ChosenGoesOn, ChosenEnd DEF CheckClip, ReturnCancelled, Step
<1>11. CASE CheckEmpty
  BY <1>0, <1>11, ChosenGoesOn, ChosenEnd DEF CheckEmpty, Step
<1>12. CASE SoundEnds
  <2>1. sounding' \in SUBSET Jobs /\ played' \in SUBSET Jobs /\ UNCHANGED <<pc, backend, phase>>
    BY <1>12 DEF SoundEnds, ChosenInv, SynthesisTypeOK, vars
  <2> QED
    BY <2>1 DEF ChosenInv, SynthesisTypeOK
<1>13. CASE Panic
  BY <1>13, ChosenOver DEF Panic, PanicRun, Goto, ChosenPc
<1>14. CASE UNCHANGED synthesisVars
  BY <1>14 DEF synthesisVars, vars, ChosenInv, SynthesisTypeOK
<1> QED
  BY <1>1, <1>2, <1>3, <1>4, <1>5, <1>6, <1>7, <1>8, <1>9, <1>10, <1>11, <1>12,
     <1>13, <1>14 DEF SynthesisNext, ProgramStep

\* A job runs on the backend that was selected for it, through that backend's
\* steps only, and never without one.
THEOREM SynthesisTypeCorrect == SynthesisSpec => []SynthesisTypeOK
<1>1. ChosenInv => SynthesisTypeOK
  BY DEF ChosenInv
<1> QED
  BY <1>1, TypeCorrect, WorkerInvariant, EngineOfSynthesis, ChosenInit, ChosenStep, PTL
     DEF SynthesisSpec
=============================================================================
