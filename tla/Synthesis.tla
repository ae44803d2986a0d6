------------------------------ MODULE Synthesis ------------------------------
(***************************************************************************)
(* What happens while the engine of SpeechEngine runs a job: the Apple     *)
(* provider's child process (src/src/providers/apple.rs), the HTTP request *)
(* of the cloud providers (openai.rs, google.rs) and the clip they return, *)
(* played on a blocking thread (src/src/playback.rs), under a cancel token *)
(* that stop may trip at any moment.  The steps of this module replace the *)
(* engine's BeginSynthesis, FinishRun, NoticeCancel and PanicRun.          *)
(*                                                                         *)
(* Request bodies, response formats and the sleeps of the polls are left   *)
(* out.  `sounding` is the world outside: the job that can be heard.       *)
(***************************************************************************)
EXTENDS SpeechEngine

VARIABLES
    backend,    \* the provider process_job selected
    phase,      \* where synthesize, then play_blocking, is
    sounding,   \* the jobs whose child process or clip can be heard
    played      \* the jobs whose sound came to its own end

synthVars == <<backend, phase, sounding, played>>
synthesisVars == <<vars, synthVars>>

AppleSteps == {"launch", "check", "wait"}
CloudSteps == {"request", "decode", "open", "playing", "empty"}

SynthesisTypeOK ==
    /\ backend \in Kinds \cup {NoProvider}
    /\ phase \in {"off"} \cup AppleSteps \cup CloudSteps
    /\ phase # "off" <=> pc = "run"
    /\ phase \in AppleSteps => backend = "apple"
    /\ phase \in CloudSteps => backend \in {"openai", "google"}
    /\ sounding \in SUBSET Jobs /\ played \in SUBSET Jobs

SynthesisInit ==
    /\ Init
    /\ backend = NoProvider /\ phase = "off"
    /\ sounding = {} /\ played = {}

-----------------------------------------------------------------------------
(* Around the run *)

\* Everybody else, and the worker outside of a run.
Elsewhere ==
    /\ Next
    /\ pc \in {"select", "begin", "run"} => pc' = pc
    /\ UNCHANGED synthVars

Choose ==
    /\ SelectProvider
    /\ backend' = Chosen
    /\ UNCHANGED <<phase, sounding, played>>

Entry == IF backend = "apple" THEN "launch" ELSE "request"

\* synthesize, up to the check of the token it makes first.
Begin ==
    /\ BeginSynthesis
    /\ phase' = IF pc' = "run" THEN Entry ELSE "off"
    /\ UNCHANGED <<backend, sounding, played>>

\* run_job returns r.
End(r) ==
    /\ pc = "run" /\ EndRun(r)
    /\ phase' = "off"
    /\ UNCHANGED <<outside, queue, notify, statusVars, events, outcome, job,
                   snapshot, backend>>

\* The run goes on.
Step(here, next) == phase = here /\ phase' = next /\ UNCHANGED <<vars, backend>>

\* Fault: the token is not looked at.
NeverTripped == FALSE

Tripped == job \in cancelled

\* Faults: the sound goes on; a cancelled run is a completed one.
SilenceLater == UNCHANGED sounding
ReturnCompleted == End("completed")

\* child.kill().await and player.stop().  An error of kill, which is ignored, is
\* taken for a child that is gone already, and one of try_wait likewise.
Silence == sounding' = sounding \ {job}
ReturnCancelled == End("cancelled")

Sound == sounding' = sounding \cup {job}
Quiet == UNCHANGED sounding

-----------------------------------------------------------------------------
(* AppleProvider::synthesize *)

Launch ==
    /\ phase = "launch"
    /\ \/ Step("launch", "check") /\ Sound
       \/ End("failed") /\ Quiet
    /\ UNCHANGED played

\* The top of the loop.
CheckChild ==
    /\ phase = "check"
    /\ \/ Tripped /\ Silence /\ ReturnCancelled
       \/ ~Tripped /\ Step("check", "wait") /\ Quiet
    /\ UNCHANGED played

\* Fault: a child that ends with an error is taken for a killed one.
ExitAsKilled == IF job \in played THEN "completed" ELSE "cancelled"

\* status.success(), or the error of a child that is not there to be waited for.
ExitResult == IF job \in played THEN "completed" ELSE "failed"

\* try_wait, whatever became of the token since it was checked.
TryWait ==
    /\ phase = "wait"
    /\ \/ job \in sounding /\ Step("wait", "check")
       \/ job \notin sounding /\ End(ExitResult)
    /\ UNCHANGED <<sounding, played>>

-----------------------------------------------------------------------------
(* OpenAiProvider::synthesize and GoogleProvider::synthesize, play_blocking *)

\* The awaits of the request and its body: nothing looks at the token meanwhile.
Answer ==
    /\ phase = "request"
    /\ Step("request", "decode") \/ End("failed")
    /\ UNCHANGED <<sounding, played>>

CheckBeforePlay ==
    /\ phase = "decode"
    /\ \/ Tripped /\ ReturnCancelled
       \/ ~Tripped /\ Step("decode", "open")
    /\ UNCHANGED <<sounding, played>>

\* open_default_sink and rodio::play
OpenDevice ==
    /\ phase = "open"
    /\ \/ Step("open", "playing") /\ Sound
       \/ End("failed") /\ Quiet
    /\ UNCHANGED played

CheckClip ==
    /\ phase = "playing"
    /\ \/ Tripped /\ Silence /\ ReturnCancelled
       \/ ~Tripped /\ Step("playing", "empty") /\ Quiet
    /\ UNCHANGED played

\* player.empty()
CheckEmpty ==
    /\ phase = "empty"
    /\ \/ job \in sounding /\ Step("empty", "playing")
       \/ job \notin sounding /\ End("completed")
    /\ UNCHANGED <<sounding, played>>

-----------------------------------------------------------------------------
(* The world outside *)

\* A child exits, in success or not, and a clip comes to its end.
SoundEnds ==
    /\ job \in sounding
    /\ Silence
    /\ \/ played' = played \cup {job}
       \/ phase \in AppleSteps /\ UNCHANGED played
    /\ UNCHANGED <<vars, backend, phase>>

\* A provider panics before there is a sound.
Panic ==
    /\ phase \in {"launch", "request"}
    /\ PanicRun
    /\ phase' = "off"
    /\ UNCHANGED <<backend, sounding, played>>

\* The steps of the program itself: no answer of a server is among them.
ProgramStep ==
    \/ Choose \/ Begin
    \/ Launch \/ CheckChild \/ TryWait
    \/ CheckBeforePlay \/ OpenDevice \/ CheckClip \/ CheckEmpty

SynthesisNext == Elsewhere \/ ProgramStep \/ Answer \/ SoundEnds \/ Panic

SynthesisSpec == SynthesisInit /\ [][SynthesisNext]_synthesisVars

\* The program is scheduled; no server has to answer and no sound to end.
SynthesisFairSpec ==
    /\ SynthesisSpec
    /\ WF_synthesisVars(ProgramStep)
    /\ WF_synthesisVars(WorkerStep /\ Elsewhere)

-----------------------------------------------------------------------------
(* Properties *)

\* README: jobs never overlap.  What can be heard is the job the worker runs,
\* and it is silent before the worker leaves the run, however the run ends.
OnlyTheRunSounds == sounding # {} => pc = "run" /\ sounding = {job}

\* A job that is reported as completed was heard to its end: a stop that cuts
\* it short never reports it so.
CompletedWasHeard == \A j \in Jobs : outcome[j] = "completed" => j \in played

\* A tripped token silences its job, though the sound would have gone on for
\* ever: both polls look at the token again and again.
StopSilences == \A j \in Jobs : j \in cancelled ~> [](j \notin sounding)

\* What the engine assumes of a run holds of the providers and the playback:
\* whatever they do is a step of the engine, or none.
ImplementsEngine == [][Next]_vars

-----------------------------------------------------------------------------
(* The inductive invariant under these properties; see SynthesisProofs. *)

\* The steps in which a child process or a clip may be there.
SoundSteps == {"check", "wait", "playing", "empty"}

\* Nothing sounds outside of the steps that wait for a sound, a clip that is
\* gone came to its end, and a decided "completed" was heard.
SoundInv ==
    /\ phase # "off" <=> pc = "run"
    /\ sounding \subseteq {job}
    /\ phase \notin SoundSteps => sounding = {}
    /\ phase \in {"playing", "empty"} => job \in sounding \cup played
    /\ pc \in DecidedPc /\ result = "completed" => job \in played
    /\ CompletedWasHeard

\* A job is only ever begun on a backend that was chosen for it.
ChosenPc == {"speaking", "started", "begin"}
ChosenInv == SynthesisTypeOK /\ (pc \in ChosenPc => backend # NoProvider)
=============================================================================
