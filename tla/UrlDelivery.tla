----------------------------- MODULE UrlDelivery -----------------------------
(***************************************************************************)
(* isimud:// URLs on their way to the engine, in menu bar mode, while the  *)
(* program starts and ends as in Lifecycle.  macOS hands a URL to the      *)
(* program as a GetURL Apple Event: the ones that launched it as Cocoa     *)
(* starts, which is before the event loop's StartCause::Init, later ones   *)
(* in the loop.  The handler of src/src/url_scheme.rs parses the URL and   *)
(* sends the request to the event loop, which enqueues it                  *)
(* (src/src/runtime_shell.rs).                                             *)
(*                                                                         *)
(* Cocoa, as it starts, takes the Apple Event handlers for itself and then *)
(* tells the observers of applicationWillFinishLaunching, which may take   *)
(* them back.  The event loop's other events are not ordered against these.*)
(***************************************************************************)
EXTENDS Lifecycle, UrlScheme, SequencesExt

CONSTANTS
    Urls,        \* what users open
    MaxUrls      \* bound: how many they open

ASSUME UrlsAssumption == Urls \subseteq Url
ASSUME MaxUrlsAssumption == MaxUrls \in Nat

VARIABLES
    installed,   \* install_url_scheme_handler has run
    registered,  \* GetURL events come to the program's handler
    launched,    \* Cocoa has started and dispatches events
    opened,      \* how many URLs were opened
    pending,     \* GetURL events not yet dispatched
    mailbox,     \* Speak events on their way to the event loop
    owed         \* history: the requests opened and not yet handed to the engine

setupVars == <<installed, registered, launched>>
urlVars == <<setupVars, opened, pending, mailbox, owed>>
deliveryVars == <<vars, urlVars>>

DeliveryInit ==
    /\ Init
    /\ installed = FALSE /\ registered = FALSE /\ launched = FALSE
    /\ opened = 0 /\ pending = <<>> /\ mailbox = <<>> /\ owed = <<>>

\* The rest of the program; the event loop begins once Cocoa has started.
Elsewhere(step) ==
    /\ step
    /\ ~headless /\ main' # "starting" => launched
    /\ UNCHANGED urlVars

-----------------------------------------------------------------------------

\* Cold, warm, or while the program is on its way out.
Open(url) ==
    /\ ~headless /\ main # "exited" /\ opened < MaxUrls
    /\ opened' = opened + 1
    /\ pending' = Append(pending, url)
    /\ owed' = owed \o Says(url)
    /\ UNCHANGED <<vars, setupVars, mailbox>>

\* install_url_scheme_handler, before the event loop runs.
Install ==
    /\ ~headless /\ main = "starting" /\ ~installed
    /\ installed' = TRUE
    /\ registered' = TRUE
    /\ UNCHANGED <<vars, launched, opened, pending, mailbox, owed>>

\* Fault: nobody listens to applicationWillFinishLaunching.
KeepQuiet == FALSE

\* The observer registers the handler once more.
Observe == installed

CocoaStarts ==
    /\ installed /\ ~launched
    /\ launched' = TRUE
    /\ registered' = Observe
    /\ UNCHANGED <<vars, installed, opened, pending, mailbox, owed>>

\* handle_get_url_event, or nobody.
Dispatch ==
    /\ launched /\ main # "exited" /\ pending # <<>>
    /\ pending' = Tail(pending)
    /\ mailbox' = IF registered THEN mailbox \o Parse(Head(pending)) ELSE mailbox
    /\ UNCHANGED <<vars, setupVars, opened, owed>>

\* UserEvent::Speak: engine.enqueue, which may refuse.
HandleSpeak ==
    /\ main = "loop" /\ mailbox # <<>>
    /\ mailbox' = Tail(mailbox)
    /\ owed' = Tail(owed)
    /\ UNCHANGED <<vars, setupVars, opened, pending>>

MainThread == Install \/ CocoaStarts \/ Dispatch \/ HandleSpeak

DeliveryNext ==
    \/ Elsewhere(Next)
    \/ \E url \in Urls : Open(url)
    \/ MainThread

\* As in Lifecycle.
DeliverySpec ==
    /\ DeliveryInit /\ [][DeliveryNext]_deliveryVars
    /\ WF_deliveryVars(MainThread)
    /\ WF_deliveryVars(Elsewhere(ServerStep)) /\ WF_deliveryVars(Elsewhere(MainStep))
    /\ WF_deliveryVars(Elsewhere(WatchServer)) /\ WF_deliveryVars(Elsewhere(Supervise))
    /\ WF_deliveryVars(Elsewhere(EndClip))
    /\ \A c \in Clients : WF_deliveryVars(Elsewhere(Disconnect(c)))

-----------------------------------------------------------------------------
(* Properties *)

Meaning(urls) == FlattenSeq([i \in DOMAIN urls |-> Says(urls[i])])

\* url_scheme.rs: the handler is there in time for the URL that launched the
\* program.  No request is dropped or overtaken between the click and the engine,
\* and each is what its URL says: the loop of the parser finds what the last
\* pairs of the query give.
UrlsArriveInOrder == owed = mailbox \o Meaning(pending)

\* Every URL that asks for something is handed to the engine, unless the program
\* ends first.
UrlsAreSpoken == owed # <<>> ~> owed = <<>> \/ main = "exited"

-----------------------------------------------------------------------------
(* The inductive invariant under UrlsArriveInOrder; see LifecycleProofs. *)

\* Events are dispatched only to a handler that is back in place.
DeliveryInv ==
    /\ pending \in Seq(Urls)
    /\ mailbox \in Seq(Request)
    /\ launched => registered
    /\ UrlsArriveInOrder
=============================================================================
