---------------------------- MODULE TrayIndicator ----------------------------
(***************************************************************************)
(* The menu-bar indicator (src/src/runtime_shell.rs, run_tray) over the    *)
(* speech engine: the forwarder task takes the engine's events from its    *)
(* broadcast receiver into the event loop, whose handler sets the          *)
(* indicator.  The engine may already be speaking when the tray appears,   *)
(* since the MCP server starts before the event loop does.                 *)
(*                                                                         *)
(* The tray learns of the engine only by these events.  Colors, the pulse  *)
(* phase and the tooltip's wording are left out, as are the clicks and     *)
(* URLs that make the event loop call enqueue: they are calls of Jobs.     *)
(***************************************************************************)
EXTENDS SpeechEngine

CONSTANT ChannelCapacity   \* EVENT_CHANNEL_CAPACITY, 256

ASSUME ChannelCapacityAssumption == ChannelCapacity \in Nat \ {0}

VARIABLES
    tray,        \* whether StartCause::Init has built the tray and subscribed
    missed,      \* how many events came before the subscription or were lost to a lag
    received,    \* how many of the events the receiver is past
    mailbox,     \* Speech events sent to the event loop and not handled yet
    indicator,   \* IndicatorState
    alarmed      \* the event loop's `degraded`

trayVars == <<tray, missed, received, mailbox, indicator, alarmed>>

TrayTypeOK ==
    /\ tray \in BOOLEAN
    /\ missed \in Nat /\ received \in 0 .. Len(events) /\ missed <= received
    /\ mailbox \in Seq(Events)
    /\ indicator \in {"idle", "speaking"}
    /\ alarmed \in BOOLEAN

TrayInit ==
    /\ Init
    /\ tray = FALSE
    /\ missed = 0 /\ received = 0
    /\ mailbox = <<>>
    /\ indicator = "idle"
    /\ alarmed = FALSE

\* A receiver sees what is sent after subscribe().
Subscribe == missed' = Len(events) /\ received' = Len(events)

\* StartCause::Init
BuildTray ==
    /\ ~tray
    /\ tray' = TRUE
    /\ Subscribe
    /\ UNCHANGED <<vars, mailbox, indicator, alarmed>>

\* The forwarder task: recv() and send_event.  A receiver more than the channel's
\* capacity behind gets Lagged instead, and continues with the oldest one kept.
Overrun == Len(events) - received > ChannelCapacity

Forward ==
    /\ tray /\ received < Len(events)
    /\ \/ /\ ~Overrun
          /\ mailbox' = Append(mailbox, events[received + 1])
          /\ received' = received + 1
          /\ UNCHANGED missed
       \/ /\ Overrun
          /\ received' = Len(events) - ChannelCapacity
          /\ missed' = missed + (received' - received)
          /\ UNCHANGED mailbox
    /\ UNCHANGED <<vars, tray, indicator, alarmed>>

\* Fault: a failed job leaves the indicator alone.
ShownAfterSuccessOnly(kind) ==
    CASE kind = "started" -> "speaking"
      [] kind \in {"finished", "stopped"} -> "idle"
      [] OTHER -> indicator

\* What the handler makes of an event; Enqueued and Degraded change no state.
Shown(kind) ==
    CASE kind = "started" -> "speaking"
      [] kind \in {"finished", "failed", "stopped"} -> "idle"
      [] OTHER -> indicator

\* Fault: a later event clears the alarm.
AlarmedByLast(kind) == kind = "degraded"

Alarmed(kind) == alarmed \/ kind = "degraded"

HandleSpeech ==
    /\ mailbox # <<>>
    /\ mailbox' = Tail(mailbox)
    /\ indicator' = Shown(Head(mailbox).kind)
    /\ alarmed' = Alarmed(Head(mailbox).kind)
    /\ UNCHANGED <<vars, tray, missed, received>>

TrayNext ==
    \/ Next /\ UNCHANGED trayVars
    \/ BuildTray
    \/ Forward
    \/ HandleSpeech

allVars == <<vars, trayVars>>

TraySpec == TrayInit /\ [][TrayNext]_allVars

-----------------------------------------------------------------------------
(* Properties *)

\* Everything sent so far has been handled, and nothing was lost on the way.
CaughtUp == tray /\ received = Len(events) /\ mailbox = <<>>
SawEverything == CaughtUp /\ missed = 0

\* As long as nobody stops the engine, a tray that missed nothing pulses while a
\* job runs and is gray while the worker is between jobs (runtime_shell.rs maps
\* Started to Speaking, and Finished and Failed, a panic's included, to Idle).
NobodyStopped == \A s \in Stops : stop[s] = "new"

PulsesExactlyWhileSpeaking ==
    SawEverything /\ NobodyStopped =>
        /\ pc \in {"begin", "run"} => indicator = "speaking"
        /\ pc \in {"pop", "park"} => indicator = "idle"

\* A panic of a job stays visible: no later event takes the alarm away.
AlarmIsNotLost == SawEverything /\ degraded /\ pc # "panic_event" => alarmed

\* README: gray while idle.  A tray that has handled every event shows an engine
\* with nothing queued and nothing running as idle.
QuietEngineIsGray ==
    SawEverything /\ pc = "park" /\ queue = <<>> => indicator = "idle"

-----------------------------------------------------------------------------
(* The inductive invariants under these properties; see TrayIndicatorProofs. *)

\* A degraded engine has said so, once it is past the step that says it.
AlarmSent ==
    degraded /\ pc # "panic_event" => \E i \in 1 .. Len(events) : events[i].kind = "degraded"

\* The receiver hands over what it is past, and the handler takes it for good.
AlarmArrives ==
    missed = 0 =>
        \A i \in 1 .. received : events[i].kind = "degraded" =>
            alarmed \/ \E k \in 1 .. Len(mailbox) : mailbox[k].kind = "degraded"

\* What an indicator that began idle shows after the first n of some events.
PulsingAfter(n, es) ==
    \E i \in 1 .. n :
        /\ es[i].kind = "started"
        /\ \A k \in i + 1 .. n : es[k].kind \notin {"finished", "failed", "stopped"}

Pulsing == PulsingAfter(Len(events), events)

\* A tray that missed nothing has in its mailbox the events between what was
\* handled and what was received, in their order, and shows the handled ones.
Handled == received - Len(mailbox)

FollowInv ==
    /\ ~tray => missed = 0 /\ received = 0
    /\ missed = 0 =>
        /\ Len(mailbox) <= received
        /\ \A k \in 1 .. Len(mailbox) : mailbox[k] = events[Handled + k]
        /\ indicator = IF PulsingAfter(Handled, events) THEN "speaking" ELSE "idle"

\* The stream pulses with the worker.  Only a cancelled job leaves it pulsing, and
\* without a stop call only shutdown cancels, after which no job follows.
PulseInv ==
    NobodyStopped =>
        /\ cancelled # {} => shutdown
        /\ pc \in {"begin", "run"} => Pulsing
        /\ pc \in {"pop", "park", "registry", "select", "speaking", "started"} =>
                ~Pulsing
        /\ pc \in ToldPc \cup {"top"} => ~Pulsing \/ shutdown
=============================================================================
