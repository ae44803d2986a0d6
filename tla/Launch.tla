------------------------------- MODULE Launch --------------------------------
(***************************************************************************)
(* How the program comes to run, again and again: from a terminal, or at   *)
(* login through the LaunchAgent that an earlier start has left            *)
(* (src/src/main.rs, src/src/autostart.rs, and the configuration path of   *)
(* src/src/config.rs).  Each start goes on as in ConfigWatch, and the      *)
(* program may end, or be killed, at any step.                             *)
(*                                                                         *)
(* There is one configuration file per directory; a path is its directory, *)
(* or Here, which depends on where the program was started.  The path of   *)
(* the executable, which the LaunchAgent also has, never changes.  Users   *)
(* have one home, edit other files than the one in use only while the      *)
(* program is down, and leave the LaunchAgent alone.                       *)
(***************************************************************************)
EXTENDS ConfigWatch

CONSTANTS
    Dirs,          \* directories
    Root,          \* where launchd starts a program that names no directory
    Home,          \* where the file is that HOME alone gives
    Here, Blank,   \* a relative path, and an empty variable
    Dotenv,        \* the variables that each directory's .env sets
    Terminals,     \* environments of starts by hand
    Autostart,     \* the valid contents with autostart = true
    Torn,          \* a LaunchAgent file that was not written to its end
    NoItem,        \* no such file
    FirstFiles,    \* what the directories may have at first
    MaxStarts      \* bound: how often the program starts

ASSUME PlaceAssumption ==
    /\ {Root, Home} \subseteq Dirs /\ Here \notin Dirs /\ Blank \notin Dirs \cup {Here}
    /\ \A env \in Terminals : env.cwd \in Dirs
    /\ Autostart \subseteq Good /\ MaxStarts \in Nat
    /\ FirstFiles \subseteq [Dirs -> Good \cup Bad \cup {Absent}]
ASSUME VariableAssumption ==
    \A name \in {"config", "xdg", "home"} :
        /\ \A env \in Terminals : env.shell[name] \subseteq Dirs \cup {Here, Blank}
        /\ \A dir \in Dirs : Dotenv[dir][name] \subseteq Dirs \cup {Here, Blank}

VARIABLES
    files,         \* what each directory has
    start,         \* how the program was started: its environment, who did it
    synced,        \* bootstrap is past sync_os_autostart
    item,          \* the LaunchAgent
    lastSync,      \* history: the file of the start that last set item, if any
    starts

itemVars == <<item, lastSync>>
launchVars == <<files, start, synced, itemVars, starts>>
allVars == <<vars, launchVars>>

\* ConfigWatch's "refused" is any end of the program.
Down == pc = "refused"

-----------------------------------------------------------------------------
(* maybe_load_dotenv, resolve_config_path *)

\* Fault: .env replaces what the shell has set.
DotenvFirst(shell, dotenv) == IF dotenv # {} THEN dotenv ELSE shell

\* dotenvy leaves a variable that is set, be it blank, as it is.
Layer(shell, dotenv) == IF shell # {} THEN shell ELSE dotenv

\* An environment variable is a set with at most one value.
Variable(env, name) ==
    IF env.loadDotenv THEN Layer(env.shell[name], Dotenv[env.cwd][name]) ELSE env.shell[name]

\* Only HOME may be blank, and then names the directory of the start.
ConfigPath(env) ==
    LET given(name) == Variable(env, name) \ {Blank} IN
    CASE given("config") # {} -> given("config")
      [] given("config") = {} /\ given("xdg") # {} -> given("xdg")
      [] OTHER -> {IF home = Blank THEN Here ELSE home : home \in Variable(env, "home")}

Locate(path, env) == IF path = Here THEN env.cwd ELSE path

\* Without HOME there may be no path.
Places(env) == {Locate(path, env) : path \in ConfigPath(env)}

InUse == CHOOSE dir \in Places(start.env) : TRUE

-----------------------------------------------------------------------------
(* Starts *)

LaunchInit ==
    /\ pc = "refused" /\ synced = FALSE /\ changes = 0
    /\ content = Absent /\ clock = 1 /\ menubar = FALSE
    /\ applied = Default /\ inbox = <<>>
    /\ lastFingerprint = Missing /\ lastSnapshot = Absent
    /\ fingerprint = Missing /\ snapshot = Absent
    /\ files \in FirstFiles
    /\ start \in [by : {"user"}, env : Terminals]
    /\ item = NoItem /\ lastSync = {}
    /\ starts = 0

\* main, up to AppConfig::load; without a path the program ends at once.
Start(by, env) ==
    /\ Down /\ starts < MaxStarts /\ Places(env) # {}
    /\ starts' = starts + 1
    /\ start' = [by |-> by, env |-> env]
    /\ content' = files[InUse']
    /\ clock' = 1
    /\ menubar' \in BOOLEAN
    /\ pc' = "check"
    /\ UNCHANGED <<changes, applied, pollVars, inbox, files, synced, itemVars>>

StartByHand == \E env \in Terminals : Start("user", env)

\* What launchd does with the LaunchAgent.
LoginEnv ==
    [cwd |-> item.cwd, loadDotenv |-> TRUE,
     shell |-> [config |-> {item.config}, xdg |-> {}, home |-> {Home}]]

Login == item \notin {NoItem, Torn} /\ Start("login", LoginEnv)

\* What was only in memory, and the file's time, which nothing compares any more.
Forget ==
    /\ content' = Absent /\ clock' = 1 /\ menubar' = FALSE
    /\ applied' = Default /\ inbox' = <<>>
    /\ lastFingerprint' = Missing /\ lastSnapshot' = Absent
    /\ fingerprint' = Missing /\ snapshot' = Absent
    /\ synced' = FALSE

\* The program ends or is killed.  A default that was being written then may be
\* cut short, and need not be valid.
End ==
    /\ ~Down
    /\ \/ UNCHANGED files
       \/ /\ pc = "create"
          /\ \E c \in Bad \cup (Good \ Autostart) : files' = [files EXCEPT ![InUse] = c]
    /\ pc' = "refused"
    /\ Forget
    /\ UNCHANGED <<changes, start, itemVars, starts>>

\* An edit while the program is not running.
Edit(dir, c) ==
    /\ Down /\ changes < MaxChanges
    /\ changes' = changes + 1
    /\ files' = [files EXCEPT ![dir] = c]
    /\ UNCHANGED <<content, clock, menubar, pc, applied, pollVars, inbox, start,
                   synced, itemVars, starts>>

-----------------------------------------------------------------------------
(* sync_autostart *)

\* The path as it was given, whose parent may be empty, which launchd takes for
\* none, and the canonical path with its parent.
AsGiven ==
    LET path == CHOOSE path \in ConfigPath(start.env) : TRUE IN
    [config |-> path, cwd |-> IF path = Here THEN Root ELSE path]

Canonical == [config |-> InUse, cwd |-> InUse]

\* render_plist: canonicalize fails when the file has gone since the load.
Render == IF content = Absent THEN AsGiven ELSE Canonical

\* Fault: a file that is there is left as it is.
WriteOnce == IF item = NoItem THEN Render ELSE item

\* write_if_changed
Write == Render

\* The file is elsewhere, or nowhere, without the HOME that launchd looks in.
SeesItem == Variable(start.env, "home") = {Home}

\* Errors are only logged: the old file is still there, or half of the new one.
SyncFails ==
    \/ UNCHANGED itemVars
    \/ /\ SeesItem /\ applied \in Autostart /\ item # Render
       /\ item' = Torn /\ lastSync' = {}

SyncSucceeds ==
    /\ SeesItem
    /\ item' = IF applied \in Autostart THEN Write ELSE NoItem
    /\ lastSync' = IF applied \in Autostart THEN {InUse} ELSE {}

SyncAutostart ==
    /\ pc = "baseline" /\ ~synced
    /\ synced' = TRUE
    /\ SyncFails \/ SyncSucceeds
    /\ UNCHANGED <<vars, files, start, starts>>

-----------------------------------------------------------------------------

\* Startup, watcher, reloads and edits of the file in use; the runtime begins
\* after the sync.
Running(step) ==
    /\ ~Down /\ step
    /\ pc = "baseline" /\ pc' # pc => synced
    /\ files' = [files EXCEPT ![InUse] = content']
    /\ UNCHANGED <<start, synced, itemVars, starts>>

LaunchNext ==
    \/ StartByHand \/ Login \/ End
    \/ \E dir \in Dirs, c \in Contents : Edit(dir, c)
    \/ SyncAutostart
    \/ Running(Next)

\* As in ConfigWatch, with a bootstrap that goes on.
LaunchSpec ==
    /\ LaunchInit /\ [][LaunchNext]_allVars
    /\ WF_allVars(SyncAutostart) /\ WF_allVars(Running(Watch))
    /\ WF_allVars(Running(HandleReload))

-----------------------------------------------------------------------------
(* Properties *)

\* README: the LaunchAgent starts the program with the resolved configuration
\* path.  A login uses the very file of the start whose sync last succeeded,
\* wherever that start was made and whatever .env is near, and there is no login
\* start when that sync has found autostart off.  A sync that fails may leave an
\* older LaunchAgent, which then still counts.
LoginUsesLastSync ==
    [][Down /\ ~Down' /\ start'.by = "login" => lastSync = {InUse'}]_allVars

-----------------------------------------------------------------------------
(* The inductive invariant under LoginUsesLastSync; see LaunchProofs. *)

\* With users who leave the file alone between load and sync, a whole LaunchAgent
\* names one real place twice, that of the last sync.
LaunchInv ==
    /\ ~Down => InUse # Blank
    /\ item \notin {NoItem, Torn} =>
        \E dir : dir # Blank /\ item = [config |-> dir, cwd |-> dir] /\ lastSync = {dir}

\* A start begins with nothing that the run before it has read, in one of the
\* directories, wherever the LaunchAgent leads.
RestartInv ==
    /\ files \in [Dirs -> Contents]
    /\ ~Down => /\ InUse \in Dirs
                /\ ConfigPath(start.env) # {}
                /\ ConfigPath(start.env) \subseteq Dirs \cup {Here}
    /\ item \notin {NoItem, Torn} => item \in [config : Dirs \cup {Here}, cwd : Dirs]
    /\ pc \in StartPc \ {"baseline_snapshot"} =>
        lastFingerprint = Missing /\ fingerprint = Missing
=============================================================================
