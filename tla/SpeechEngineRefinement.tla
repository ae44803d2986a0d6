----------------------- MODULE SpeechEngineRefinement ------------------------
(***************************************************************************)
(* The engine of SpeechEngine implements the contract of SpeechQueue.      *)
(*                                                                         *)
(* A job ends, for the contract, when the worker takes it out of `current` *)
(* or a stop call drains it; its caller hears of it a few steps later.     *)
(***************************************************************************)
EXTENDS SpeechEngine

\* The steps between a job's removal from `current` and its answer.
EndedPc == {"idle", "reply", "panic_idle", "panic_degrade", "panic_event",
            "panic_report", "panic_reply"}

ending ==
    [j \in Jobs |->
        IF outcome[j] # Pending THEN outcome[j]
        ELSE IF \E s \in Stops : HeldBy(s, j) THEN "cancelled"
        ELSE IF job = j /\ pc \in EndedPc THEN result
        ELSE "open"]

Queue == INSTANCE SpeechQueue WITH
    waiting <- queue, active <- current, doomed <- cancelled, ending <- ending,
    halted <- shutdown

\* The engine's steps are steps of the contract: jobs run one at a time in the
\* order they were pushed, and the sections of stop are one indivisible stop.
ImplementsQueue == Queue!Spec

\* Until a shutdown the worker also keeps taking jobs, whatever panics, fails
\* or is stopped, as long as providers end what they run.
ImplementsLiveQueue == Queue!LiveSpec
=============================================================================
