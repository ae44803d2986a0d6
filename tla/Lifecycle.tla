------------------------------ MODULE Lifecycle ------------------------------
(***************************************************************************)
(* How the program ends (src/src/runtime_shell.rs, src/src/server.rs): the *)
(* main thread, headless or in the tray's event loop, the server task, the *)
(* shutdown broadcast between them, and the supervisor of the worker.      *)
(*                                                                         *)
(* Nothing else in the program stops the speech worker: it is dropped with *)
(* the runtime.  A drop waits for a clip that plays on a blocking thread;  *)
(* the exit of the event loop ends the process without one.                *)
(***************************************************************************)
EXTENDS Naturals

CONSTANTS
    Clients,      \* MCP clients, each with at most one request in flight
    PatientUser   \* whether Ctrl-C is pressed only once the server listens

ASSUME PatienceAssumption == PatientUser \in BOOLEAN

VARIABLES
    headless,     \* no menu bar, by flag or configuration
    main,         \* where the main thread is
    server,       \* where run_server is
    heard,        \* whether its receiver holds a shutdown message
    open,         \* clients with a request, or an event stream, in flight
    quit,         \* whether a client has asked to quit
    interrupted,  \* whether the ctrl_c branch has been taken
    watching,     \* whether a task awaits the server for the event loop
    stopped,      \* whether a ServerStopped event is on its way
    playing,      \* whether a clip plays on a blocking thread
    worker,       \* the speech worker task
    degraded

serverVars == <<server, heard, open>>
trayVars == <<watching, stopped>>
speechVars == <<playing, worker, degraded>>
vars == <<headless, main, serverVars, quit, interrupted, trayVars, speechVars>>

Ended == {"ended", "failed"}

TypeOK ==
    /\ headless \in BOOLEAN
    /\ main \in {"starting", "select", "await", "loop", "drop", "exited"}
    /\ server \in {"new", "binding", "serving", "draining"} \cup Ended
    /\ heard \in BOOLEAN /\ (heard => server # "new")
    /\ open \in SUBSET Clients /\ (open # {} => server \in {"serving", "draining"})
    /\ quit \in BOOLEAN /\ interrupted \in BOOLEAN
    /\ watching \in BOOLEAN /\ stopped \in BOOLEAN
    /\ playing \in BOOLEAN
    /\ worker \in {"running", "lost"}
    /\ degraded \in BOOLEAN

Init ==
    /\ headless \in BOOLEAN
    /\ main = "starting"
    /\ server = "new" /\ heard = FALSE /\ open = {}
    /\ quit = FALSE /\ interrupted = FALSE
    /\ watching = FALSE /\ stopped = FALSE
    /\ playing = FALSE /\ worker = "running" /\ degraded = FALSE

\* The tasks of the runtime run until the main thread drops it or exits.
Alive == main \notin {"drop", "exited"}

\* shutdown_tx.send: reaches the receivers that exist by now.  The one run() keeps
\* until it returns is never read, so only the server's own counts.
SendShutdown == heard' = (heard \/ server # "new")

-----------------------------------------------------------------------------
(* run_server *)

\* resolve_bind_addr, then the subscription.
StartServer ==
    /\ Alive /\ server = "new"
    /\ server' \in {"binding", "failed"}
    /\ UNCHANGED <<headless, main, heard, open, quit, interrupted, trayVars, speechVars>>

Bind ==
    /\ Alive /\ server = "binding"
    /\ server' \in {"serving", "failed"}
    /\ UNCHANGED <<headless, main, heard, open, quit, interrupted, trayVars, speechVars>>

\* The graceful shutdown accepts nobody any more and waits for what is in flight.
BeginDrain ==
    /\ Alive /\ server = "serving" /\ heard
    /\ server' = "draining"
    /\ UNCHANGED <<headless, main, heard, open, quit, interrupted, trayVars, speechVars>>

Drained == open = {}

EndServer ==
    /\ Alive /\ server = "draining" /\ Drained
    /\ server' = "ended"
    /\ UNCHANGED <<headless, main, heard, open, quit, interrupted, trayVars, speechVars>>

ServerStep == StartServer \/ Bind \/ BeginDrain \/ EndServer

-----------------------------------------------------------------------------
(* MCP clients *)

Connect(c) ==
    /\ Alive /\ server = "serving" /\ c \notin open
    /\ open' = open \cup {c}
    /\ UNCHANGED <<headless, main, server, heard, quit, interrupted, trayVars, speechVars>>

Disconnect(c) ==
    /\ Alive /\ c \in open
    /\ open' = open \ {c}
    /\ UNCHANGED <<headless, main, server, heard, quit, interrupted, trayVars, speechVars>>

\* maybe_quit
Quit(c) ==
    /\ Alive /\ c \in open
    /\ quit' = TRUE
    /\ SendShutdown
    /\ UNCHANGED <<headless, main, server, open, interrupted, trayVars, speechVars>>

-----------------------------------------------------------------------------
(* run_headless *)

RunHeadless ==
    /\ headless /\ main = "starting"
    /\ main' = "select"
    /\ UNCHANGED <<headless, serverVars, quit, interrupted, trayVars, speechVars>>

\* Ctrl-C in the select; the handler stays installed and ignores another one.
Interrupt ==
    /\ main = "select"
    /\ PatientUser => server \in {"binding", "serving", "draining"}
    /\ main' = "await"
    /\ interrupted' = TRUE
    /\ SendShutdown
    /\ UNCHANGED <<headless, server, open, quit, trayVars, speechVars>>

\* Faults: the server is not awaited; a server that failed is awaited for ever.
JoinNothing == TRUE
JoinSuccess == server = "ended"

Join == server \in Ended

AwaitServer ==
    /\ main = "await" /\ Join
    /\ main' = "drop"
    /\ UNCHANGED <<headless, serverVars, quit, interrupted, trayVars, speechVars>>

\* The other branch of the select.
ServerGone ==
    /\ main = "select" /\ server \in Ended
    /\ main' = "drop"
    /\ SendShutdown
    /\ UNCHANGED <<headless, server, open, quit, interrupted, trayVars, speechVars>>

\* run returns and the runtime is dropped.
Exit ==
    /\ main = "drop" /\ ~playing
    /\ main' = "exited"
    /\ UNCHANGED <<headless, serverVars, quit, interrupted, trayVars, speechVars>>

-----------------------------------------------------------------------------
(* run_tray *)

\* StartCause::Init: without a tray the loop ends, with one a task awaits the
\* server.
BuildTray ==
    /\ ~headless /\ main = "starting"
    /\ \/ main' = "loop" /\ watching' = TRUE
       \/ main' = "exited" /\ UNCHANGED watching
    /\ UNCHANGED <<headless, serverVars, quit, interrupted, stopped, speechVars>>

\* Fault: an event is sent only for a server that ended with an error.
AnnounceFailure == stopped' = (server = "failed")

AnnounceStopped == stopped' = TRUE

WatchServer ==
    /\ Alive /\ watching /\ server \in Ended
    /\ watching' = FALSE
    /\ AnnounceStopped
    /\ UNCHANGED <<headless, main, serverVars, quit, interrupted, speechVars>>

HandleServerStopped ==
    /\ main = "loop" /\ stopped
    /\ main' = "exited"
    /\ SendShutdown
    /\ UNCHANGED <<headless, server, open, quit, interrupted, trayVars, speechVars>>

MainStep == RunHeadless \/ AwaitServer \/ ServerGone \/ Exit \/ BuildTray \/ HandleServerStopped

-----------------------------------------------------------------------------
(* The worker and its supervisor *)

StartClip ==
    /\ Alive /\ worker = "running" /\ ~playing
    /\ playing' = TRUE
    /\ UNCHANGED <<headless, main, serverVars, quit, interrupted, trayVars, worker, degraded>>

EndClip ==
    /\ playing
    /\ playing' = FALSE
    /\ UNCHANGED <<headless, main, serverVars, quit, interrupted, trayVars, worker, degraded>>

\* The worker task returns or panics outside of a job.
LoseWorker ==
    /\ Alive /\ worker = "running"
    /\ worker' = "lost"
    /\ UNCHANGED <<headless, main, serverVars, quit, interrupted, trayVars, playing, degraded>>

\* Fault: a worker that returns is taken for a shutdown.
MarkAfterPanic == UNCHANGED degraded

Mark == degraded' = TRUE

\* The shutdown flag is never up: nobody calls SpeechEngine::shutdown.
Supervise ==
    /\ Alive /\ worker = "lost" /\ ~degraded
    /\ Mark
    /\ UNCHANGED <<headless, main, serverVars, quit, interrupted, trayVars, playing, worker>>

Next ==
    \/ ServerStep
    \/ \E c \in Clients : Connect(c) \/ Disconnect(c) \/ Quit(c)
    \/ MainStep \/ Interrupt
    \/ WatchServer
    \/ StartClip \/ EndClip
    \/ LoseWorker \/ Supervise

Spec == Init /\ [][Next]_vars

\* Tasks and the main thread are scheduled, clips end, and clients close their
\* requests and streams in the end: a graceful shutdown waits for them.
FairSpec ==
    /\ Spec
    /\ WF_vars(ServerStep) /\ WF_vars(MainStep) /\ WF_vars(WatchServer)
    /\ WF_vars(Supervise) /\ WF_vars(EndClip)
    /\ \A c \in Clients : WF_vars(Disconnect(c))

-----------------------------------------------------------------------------
(* Properties *)

\* README: an MCP quit or exit request shuts the program down, in both modes.
QuitEndsProgram == quit ~> main = "exited"

\* A program without its server does not linger, whenever the server fails.
ServerFailureEndsProgram == server = "failed" ~> main = "exited"

\* run_headless: after Ctrl-C the server is shut down and the program ends.
InterruptEndsProgram == interrupted ~> main = "exited"

\* ... gracefully: it outlives every request the server had accepted.
InterruptIsGraceful == interrupted /\ main \in {"drop", "exited"} => open = {}

\* A worker that is gone does not go unnoticed, however it went: Degraded is
\* what the tray's alarm waits for.
WorkerLossIsReported == worker = "lost" ~> degraded \/ ~Alive

-----------------------------------------------------------------------------
(* The inductive invariant under InterruptIsGraceful; see LifecycleProofs. *)

\* The branch of the select is taken once, and everything after it waits for a
\* server whose requests are over.
GracefulInv ==
    /\ interrupted => main \in {"await", "drop", "exited"}
    /\ InterruptIsGraceful
=============================================================================
