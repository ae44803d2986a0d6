----------------------------- MODULE SpeechQueue -----------------------------
(***************************************************************************)
(* What the speech engine promises its callers, without tasks, locks,      *)
(* events or providers: accepted jobs are spoken one at a time in the      *)
(* order of their acceptance, each comes to exactly one end, and stop, in  *)
(* one indivisible step, ends every waiting job and asks the active one to *)
(* end.  The header of src/src/worker.rs and the tools of src/src/mcp.rs   *)
(* state this contract; SpeechEngineRefinement shows the engine keeps it.  *)
(***************************************************************************)
EXTENDS Naturals, SequencesExt

CONSTANTS
    Jobs,
    NoJob    \* not in Jobs

VARIABLES
    waiting,   \* accepted jobs, oldest first
    active,    \* the job being spoken, NoJob when there is none
    doomed,    \* jobs asked to end early while they were active
    ending,    \* how each job ended
    halted     \* whether a shutdown was asked for

queueVars == <<waiting, active, doomed, ending, halted>>

Ends == {"completed", "failed", "cancelled"}
Open == "open"

Waits(j) == Contains(waiting, j)

Init ==
    /\ waiting = <<>>
    /\ active = NoJob
    /\ doomed = {}
    /\ ending = [j \in Jobs |-> Open]
    /\ halted = FALSE

\* A job is accepted once, and never after it ended.
Accept(j) ==
    /\ ending[j] = Open /\ ~Waits(j) /\ active # j
    /\ waiting' = Append(waiting, j)
    /\ UNCHANGED <<active, doomed, ending, halted>>

Begin ==
    /\ active = NoJob /\ waiting # <<>>
    /\ active' = Head(waiting)
    /\ waiting' = Tail(waiting)
    /\ UNCHANGED <<doomed, ending, halted>>

\* A job ends cancelled only when it was asked to.
End(how) ==
    /\ active # NoJob
    /\ how = "cancelled" => active \in doomed
    /\ ending' = [ending EXCEPT ![active] = how]
    /\ active' = NoJob
    /\ UNCHANGED <<waiting, doomed, halted>>

Stop ==
    /\ waiting' = <<>>
    /\ ending' = [j \in Jobs |-> IF Waits(j) THEN "cancelled" ELSE ending[j]]
    /\ doomed' = doomed \cup ({active} \ {NoJob})
    /\ UNCHANGED <<active, halted>>

\* shutdown raises its flag, and then asks the active job to end.  It leaves the
\* waiting ones, and the next of them may still begin.
RaiseHalt ==
    /\ halted' = TRUE
    /\ UNCHANGED <<waiting, active, doomed, ending>>

EndActive ==
    /\ halted
    /\ doomed' = doomed \cup ({active} \ {NoJob})
    /\ UNCHANGED <<waiting, active, ending, halted>>

Next ==
    \/ \E j \in Jobs : Accept(j)
    \/ Begin
    \/ \E how \in Ends : End(how)
    \/ Stop
    \/ RaiseHalt
    \/ EndActive

Spec == Init /\ [][Next]_queueVars

\* Active jobs end and, until a shutdown comes, waiting ones are taken.
LiveSpec ==
    /\ Spec
    /\ WF_queueVars(~halted /\ Begin)
    /\ WF_queueVars(\E how \in Ends : End(how))
=============================================================================
