----------------------------- MODULE ConfigWatch -----------------------------
(***************************************************************************)
(* Hot reload of the configuration file: AppConfig::load at startup        *)
(* (src/src/main.rs, src/src/config.rs), then the watcher thread of        *)
(* src/src/config_watch.rs, which hands what it reads to the engine, or in *)
(* menu bar mode to the event loop (src/src/runtime_shell.rs).             *)
(*                                                                         *)
(* Users write the file at any moment.  A write in two parts, as an editor *)
(* that truncates first does it, is two saves.  Every save gets a new      *)
(* modification time: the length in the fingerprint, which tells apart two *)
(* saves of one clock tick, is left out, and so is the mode of the file.   *)
(* The poll interval is left out: a poll may come at any moment.           *)
(***************************************************************************)
EXTENDS Naturals, Sequences

CONSTANTS
    Good,         \* contents that parse and validate
    Bad,          \* contents that do not
    Absent,       \* the content of a file that is not there
    Default,      \* what write_default_config writes
    MaxChanges,   \* bound: how often the file is saved or removed
    QuietStart    \* whether users leave the file alone until the watcher polls

ASSUME ContentsAssumption ==
    Default \in Good /\ Good \cap Bad = {} /\ Absent \notin Good \cup Bad
ASSUME BoundAssumption == MaxChanges \in Nat /\ QuietStart \in BOOLEAN

VARIABLES
    content,          \* what the path holds
    clock,            \* modification time of the last change
    changes,          \* how often users changed the file
    menubar,          \* config.app.menubar && !headless
    pc,               \* where startup, then the watcher thread, is
    applied,          \* the engine's configuration
    lastFingerprint,
    lastSnapshot,
    fingerprint,      \* what the poll under way has read
    snapshot,
    inbox             \* reload events on their way to the event loop

fileVars == <<content, clock, changes>>
pollVars == <<lastFingerprint, lastSnapshot, fingerprint, snapshot>>
vars == <<fileVars, menubar, pc, applied, pollVars, inbox>>

Contents == Good \cup Bad \cup {Absent}
StartPc == {"check", "create", "load", "refused", "baseline", "baseline_snapshot"}
PollPc == {"sleep", "look", "deliver"}

\* ConfigFingerprint: Missing, or the modification time.
Missing == 0

\* Fault: only whether the file is there, as if the length never changed.
FingerprintByLength == IF content = Absent THEN Missing ELSE 1

Fingerprint == IF content = Absent THEN Missing ELSE clock

TypeOK ==
    /\ content \in Contents
    /\ clock \in Nat \ {0}
    /\ changes \in Nat
    /\ menubar \in BOOLEAN
    /\ pc \in StartPc \cup PollPc
    /\ applied \in Good
    /\ lastFingerprint \in Nat /\ fingerprint \in Nat
    /\ lastSnapshot \in Contents /\ snapshot \in Contents
    /\ inbox \in Seq(Good)

Init ==
    /\ content \in Contents
    /\ clock = 1 /\ changes = 0
    /\ menubar \in BOOLEAN
    /\ pc = "check"
    /\ applied = Default
    /\ lastFingerprint = Missing /\ fingerprint = Missing
    /\ lastSnapshot = Absent /\ snapshot = Absent
    /\ inbox = <<>>

-----------------------------------------------------------------------------
(* Users *)

Change(c) ==
    /\ QuietStart => pc \in PollPc
    /\ changes < MaxChanges
    /\ changes' = changes + 1
    /\ content' = c
    /\ clock' = clock + 1
    /\ UNCHANGED <<menubar, pc, applied, pollVars, inbox>>

Save == \E c \in Good \cup Bad : Change(c)
Remove == content # Absent /\ Change(Absent)

-----------------------------------------------------------------------------
(* AppConfig::load, in bootstrap *)

Goto(here, next) == pc = here /\ pc' = next

CheckExists ==
    /\ Goto("check", IF content = Absent THEN "create" ELSE "load")
    /\ UNCHANGED <<fileVars, menubar, applied, pollVars, inbox>>

\* write_default_config, over whatever is there by now.
CreateDefault ==
    /\ Goto("create", "load")
    /\ content' = Default
    /\ clock' = clock + 1
    /\ UNCHANGED <<changes, menubar, applied, pollVars, inbox>>

\* load_from_path: a missing or invalid file ends the program.
Load ==
    /\ \/ content \in Good /\ Goto("load", "baseline") /\ applied' = content
       \/ content \notin Good /\ Goto("load", "refused") /\ UNCHANGED applied
    /\ UNCHANGED <<fileVars, menubar, pollVars, inbox>>

-----------------------------------------------------------------------------
(* The watcher thread, started once runtime and engine are up *)

ReadBaseline ==
    /\ Goto("baseline", "baseline_snapshot")
    /\ lastFingerprint' = Fingerprint
    /\ UNCHANGED <<fileVars, menubar, applied, lastSnapshot, fingerprint, snapshot, inbox>>

ReadBaselineSnapshot ==
    /\ Goto("baseline_snapshot", "sleep")
    /\ lastSnapshot' = content
    /\ UNCHANGED <<fileVars, menubar, applied, lastFingerprint, fingerprint, snapshot, inbox>>

\* An unchanged fingerprint ends the poll.
Poll ==
    /\ Fingerprint # lastFingerprint
    /\ Goto("sleep", "look")
    /\ fingerprint' = Fingerprint
    /\ UNCHANGED <<fileVars, menubar, applied, lastFingerprint, lastSnapshot, snapshot, inbox>>

\* So does an unchanged content, once the new fingerprint is noted.
Look ==
    /\ \/ /\ content = lastSnapshot
          /\ Goto("look", "sleep")
          /\ lastFingerprint' = fingerprint
          /\ UNCHANGED snapshot
       \/ /\ content # lastSnapshot
          /\ Goto("look", "deliver")
          /\ snapshot' = content
          /\ UNCHANGED lastFingerprint
    /\ UNCHANGED <<fileVars, menubar, applied, lastSnapshot, fingerprint, inbox>>

\* Fault: contents that do not validate are taken for a configuration.
LoadedUnchecked(c) == c # Absent

\* evaluate_change: everything but a valid file is Failed, and is only logged.
Loaded(c) == c \in Good

\* Fault: the fingerprint is read anew once the change has been delivered.
NoteSeenAnew == lastFingerprint' = Fingerprint /\ lastSnapshot' = snapshot

NoteSeen == lastFingerprint' = fingerprint /\ lastSnapshot' = snapshot

\* on_change: the engine reloads at once, or the event loop gets an event.
Deliver ==
    /\ Goto("deliver", "sleep")
    /\ \/ Loaded(snapshot) /\ ~menubar /\ applied' = snapshot /\ UNCHANGED inbox
       \/ Loaded(snapshot) /\ menubar /\ inbox' = Append(inbox, snapshot) /\ UNCHANGED applied
       \/ ~Loaded(snapshot) /\ UNCHANGED <<applied, inbox>>
    /\ NoteSeen
    /\ UNCHANGED <<fileVars, menubar, fingerprint, snapshot>>

\* UserEvent::ConfigReloaded in the event loop.
HandleReload ==
    /\ inbox # <<>>
    /\ applied' = Head(inbox)
    /\ inbox' = Tail(inbox)
    /\ UNCHANGED <<fileVars, menubar, pc, pollVars>>

Watch ==
    \/ CheckExists \/ CreateDefault \/ Load
    \/ ReadBaseline \/ ReadBaselineSnapshot
    \/ Poll \/ Look \/ Deliver

Next == Save \/ Remove \/ Watch \/ HandleReload

Spec == Init /\ [][Next]_vars

\* The thread keeps polling and the event loop keeps handling its events.
FairSpec == Spec /\ WF_vars(Watch) /\ WF_vars(HandleReload)

-----------------------------------------------------------------------------
(* Properties *)

\* The last configuration the watcher delivered, handled or not.
Latest == IF inbox = <<>> THEN applied ELSE inbox[Len(inbox)]

\* The watcher goes back to sleep only over a file it has delivered: when the
\* fingerprint it remembers is the file's, the engine has, or is about to get,
\* the file's content.  The fingerprint is read before the snapshot for this.
UnchangedMeansApplied ==
    pc = "sleep" /\ content \in Good /\ lastFingerprint = Fingerprint =>
        Latest = content

\* README: saving the file hot-reloads the engine, and an invalid edit leaves
\* the previous configuration active.  Once users leave the file alone, a valid
\* one is what the engine runs with.
EditsAreApplied == <>[](pc \in PollPc /\ content \in Good => applied = content)

-----------------------------------------------------------------------------
(* The inductive invariant under UnchangedMeansApplied. *)

\* No fingerprint read is newer than the file, and a fingerprint that is still
\* the file's was read before the snapshot that goes with it, never after.
Vouches(f, s) == content # Absent /\ f = clock => s = content

WatchInv ==
    /\ lastFingerprint <= clock /\ fingerprint <= clock
    /\ pc \in PollPc => Vouches(lastFingerprint, lastSnapshot)
    /\ pc = "deliver" => Vouches(fingerprint, snapshot)
    /\ pc \in StartPc \/ ~menubar => inbox = <<>>
    /\ QuietStart /\ pc \in {"baseline", "baseline_snapshot"} => applied = content
    /\ QuietStart /\ pc \in PollPc /\ lastSnapshot \in Good => Latest = lastSnapshot
=============================================================================
