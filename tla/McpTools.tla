------------------------------ MODULE McpTools -------------------------------
(***************************************************************************)
(* The MCP tools of src/src/mcp.rs that look at the engine over several    *)
(* moments: isimud.speak with wait=true, which waits for the outcome or    *)
(* [tts].wait_timeout_secs, and isimud.status, which reads what it reports *)
(* one field at a time.  Every speak call of SpeechEngine is made with     *)
(* wait=true here; isimud.stop is the stop call of SpeechEngine.           *)
(***************************************************************************)
EXTENDS SpeechEngine

CONSTANTS
    Looks,         \* the calls of isimud.status
    WaitTimeout    \* [tts].wait_timeout_secs, 0 waiting for ever

ASSUME WaitTimeoutAssumption == WaitTimeout \in Nat

VARIABLES
    told,     \* what each waiting caller was told
    look,     \* how many fields each status call has read
    view,     \* what it has read
    known     \* the jobs whose callers had their outcome when it began

toolVars == <<told, look, view, known>>
mcpVars == <<vars, toolVars>>

Nothing == "nothing"
Timeout == "timeout"

\* StatusSnapshot at one moment; a queue depth stands for the jobs it counts.
Now == [job |-> state, waiting |-> ToSet(queue), degraded |-> degraded]

ToolsTypeOK ==
    /\ told \in [Jobs -> Outcomes \cup {Nothing, Timeout}]
    /\ \A j \in Jobs : told[j] # Nothing => call[j] = "accepted"
    /\ look \in [Looks -> 0 .. 3]
    /\ view \in [Looks -> [job : Jobs \cup {NoJob}, waiting : SUBSET Jobs,
                           degraded : BOOLEAN]]
    /\ known \in [Looks -> SUBSET Jobs]

McpInit ==
    /\ Init
    /\ told = [j \in Jobs |-> Nothing]
    /\ look = [l \in Looks |-> 0]
    /\ view = [l \in Looks |-> Now]
    /\ known = [l \in Looks |-> {}]

-----------------------------------------------------------------------------
(* isimud.speak, wait = true: once enqueue_and_wait has returned *)

Awaiting(j) == call[j] = "accepted" /\ told[j] = Nothing

\* The receiver has the outcome; timeout() looks at it before the clock.
Outcome(j) ==
    /\ Awaiting(j) /\ outcome[j] # Pending
    /\ told' = [told EXCEPT ![j] = outcome[j]]

\* The call returns; the job stays where it is.
TimeOut(j) ==
    /\ WaitTimeout > 0
    /\ Awaiting(j) /\ outcome[j] = Pending
    /\ told' = [told EXCEPT ![j] = Timeout]

Return(j) == (Outcome(j) \/ TimeOut(j)) /\ UNCHANGED <<vars, look, view, known>>

-----------------------------------------------------------------------------
(* isimud.status *)

\* Fault: the queue is looked at before the state.
DepthFirst == <<"waiting", "job", "degraded">>

\* The order of the reads in SpeechEngine::status.
Fields == <<"job", "waiting", "degraded">>

Look(l) ==
    /\ look[l] < 3
    /\ look' = [look EXCEPT ![l] = @ + 1]
    /\ LET field == Fields[look[l] + 1] IN
       view' = [view EXCEPT ![l] = [@ EXCEPT ![field] = Now[field]]]
    /\ known' = IF look[l] # 0 THEN known
                ELSE [known EXCEPT ![l] = {j \in Jobs : told[j] \in Outcomes}]
    /\ UNCHANGED <<vars, told>>

McpNext ==
    \/ Next /\ UNCHANGED toolVars
    \/ \E j \in Jobs : Return(j)
    \/ \E l \in Looks : Look(l)

McpSpec == McpInit /\ [][McpNext]_mcpVars

-----------------------------------------------------------------------------
(* Properties *)

\* mcp.rs, StatusResult: the depth never counts the job reported as active,
\* though the two are read at different moments.
StatusCountsNoActiveJob == \A l \in Looks : look[l] = 3 => view[l].job \notin view[l].waiting

\* Who asks for the status after a wait=true call returned an outcome is not
\* told that the same job is being spoken or waits.
StatusNotStale ==
    \A l \in Looks : look[l] = 3 =>
        view[l].job \notin known[l] /\ view[l].waiting \cap known[l] = {}

-----------------------------------------------------------------------------
(* The inductive invariant under these properties; see McpToolsProofs. *)

\* A job that was seen active never waits again, one whose caller had its
\* outcome is neither active nor waiting ever after.
SeenActive(j) == Accepted(j) /\ ~InQueue(j)
Answered(j) == outcome[j] # Pending

ViewInv ==
    /\ \A j \in Jobs : told[j] \in Outcomes => Answered(j)
    /\ \A l \in Looks :
        /\ \A j \in known[l] : Answered(j)
        /\ look[l] >= 1 => view[l].job \notin known[l]
        /\ look[l] >= 1 /\ view[l].job # NoJob => SeenActive(view[l].job)
        /\ look[l] >= 2 => view[l].job \notin view[l].waiting
        /\ look[l] >= 2 => view[l].waiting \cap known[l] = {}
=============================================================================
