----------------------------- MODULE PeerFanout ------------------------------
(***************************************************************************)
(* Speech events on their way to the MCP clients (src/src/mcp.rs): the     *)
(* registry of peers that initialize fills, and the forwarder task, which  *)
(* receives an event, takes a snapshot of the registry and sends to one    *)
(* peer after the other, awaiting each.                                    *)
(*                                                                         *)
(* The engine is a source of numbered events on a broadcast channel whose  *)
(* receiver loses the oldest ones when it falls behind.  A peer is the     *)
(* session of a client; a session may initialize more than once and is     *)
(* then registered, and notified, as often.  What a notification says is   *)
(* left out.                                                               *)
(***************************************************************************)
EXTENDS Naturals, Sequences, FiniteSets, SequencesExt

CONSTANTS
    Clients,      \* sessions
    Cap,          \* MAX_MCP_PEERS
    Capacity,     \* EVENT_CHANNEL_CAPACITY
    MaxEvents,    \* bound: how many events the engine sends
    MaxInits,     \* bound: how often clients initialize, all together
    MaxErrors     \* bound: how often the transport of an open session fails

ASSUME CapAssumption == Cap \in Nat \ {0} /\ Capacity \in Nat \ {0}
ASSUME BoundAssumption == MaxEvents \in Nat /\ MaxInits \in Nat /\ MaxErrors \in Nat

VARIABLES
    peers,      \* the registry, oldest first
    life,       \* where each session is: new, open or closed
    sent,       \* events the engine has sent
    read,       \* events the forwarder's receiver is past
    pc,         \* where the forwarder is
    rest,       \* the snapshot, less the peers it has done
    hadError,
    heard,      \* the events each session was notified of
    inits,      \* history: how often each session initialized
    since,      \* history: the events sent before the session was registered
    failed,     \* history: notifications an open session did not get for an error
    lost        \* history: the events the receiver skipped

clientVars == <<life, inits, since>>
forwarderVars == <<read, pc, rest, hadError, lost>>
heardVars == <<heard, failed>>
vars == <<peers, clientVars, sent, forwarderVars, heardVars>>

Numbers == 1 .. MaxEvents

TypeOK ==
    /\ peers \in Seq(Clients) /\ Len(peers) <= Cap
    /\ life \in [Clients -> {"new", "open", "closed"}]
    /\ sent \in 0 .. MaxEvents /\ read \in 0 .. sent
    /\ pc \in {"recv", "snapshot", "send", "prune"}
    /\ rest \in Seq(Clients) /\ Len(rest) <= Cap
    /\ hadError \in BOOLEAN
    /\ heard \in [Clients -> Seq(Numbers)]
    /\ inits \in [Clients -> Nat]
    /\ since \in [Clients -> 0 .. sent]
    /\ failed \in [Clients -> SUBSET Numbers]
    /\ lost \in SUBSET Numbers

Init ==
    /\ peers = <<>>
    /\ life = [c \in Clients |-> "new"]
    /\ sent = 0 /\ read = 0
    /\ pc = "recv" /\ rest = <<>> /\ hadError = FALSE
    /\ heard = [c \in Clients |-> <<>>]
    /\ inits = [c \in Clients |-> 0]
    /\ since = [c \in Clients |-> 0]
    /\ failed = [c \in Clients |-> {}]
    /\ lost = {}

Registered(c) == c \in Range(peers)

-----------------------------------------------------------------------------
(* The registry *)

\* prune_closed_peers: retain, element by element.
Open(list) ==
    LET kept[n \in 0 .. Len(list)] ==
            IF n = 0 THEN <<>>
            ELSE IF life[list[n]] = "closed" THEN kept[n - 1]
            ELSE Append(kept[n - 1], list[n])
    IN  kept[Len(list)]

\* enforce_peer_cap: the oldest make room.
Newest(list) == IF Len(list) > Cap THEN SubSeq(list, Len(list) - Cap + 1, Len(list)) ELSE list

\* Fault: the cap is enforced over peers that are gone.
CapFirst(c) == Open(Newest(Append(peers, c)))

\* Fault: the cap is not enforced.
Unbounded(c) == Append(Open(peers), c)

\* The critical section of register_peer.
Register(c) == Newest(Append(Open(peers), c))

-----------------------------------------------------------------------------
(* Clients *)

\* initialize, of a new session or again in one that is open.
Initialize(c) ==
    /\ life[c] # "closed"
    /\ FoldFunction(+, 0, inits) < MaxInits
    /\ life' = [life EXCEPT ![c] = "open"]
    /\ inits' = [inits EXCEPT ![c] = @ + 1]
    /\ since' = IF Registered(c) THEN since ELSE [since EXCEPT ![c] = sent]
    /\ peers' = Register(c)
    /\ UNCHANGED <<sent, forwarderVars, heardVars>>

Close(c) ==
    /\ life[c] = "open"
    /\ life' = [life EXCEPT ![c] = "closed"]
    /\ UNCHANGED <<peers, inits, since, sent, forwarderVars, heardVars>>

-----------------------------------------------------------------------------
(* The engine *)

Emit ==
    /\ sent < MaxEvents
    /\ sent' = sent + 1
    /\ UNCHANGED <<peers, clientVars, forwarderVars, heardVars>>

-----------------------------------------------------------------------------
(* start_event_forwarder: the task *)

Receive ==
    /\ pc = "recv" /\ read < sent /\ sent - read <= Capacity
    /\ pc' = "snapshot"
    /\ read' = read + 1
    /\ UNCHANGED <<peers, clientVars, sent, rest, hadError, lost, heardVars>>

\* Faults: the task ends with the first error of its receiver; an event whose
\* round met an error is sent again.
StopForwarding == pc' = "stopped"
Again == pc' = "snapshot"

\* RecvError::Lagged => continue
GoOn == pc' = "recv"

\* The receiver skips to the oldest event the channel still has.
Skip ==
    /\ pc = "recv" /\ sent - read > Capacity
    /\ lost' = lost \cup (read + 1) .. (sent - Capacity)
    /\ read' = sent - Capacity
    /\ GoOn
    /\ UNCHANGED <<peers, clientVars, sent, rest, hadError, heardVars>>

\* broadcast_notification
Snapshot ==
    /\ pc = "snapshot"
    /\ pc' = "send"
    /\ rest' = peers
    /\ UNCHANGED <<peers, clientVars, sent, read, hadError, lost, heardVars>>

\* Fault: the first error ends the round.
GiveUp == <<>>

\* One turn of the loop over the snapshot.
Others == Tail(rest)

\* Fault: only the last peer's result is remembered.
NoteResult(error) == hadError' = error

NoteError(error) == hadError' = (hadError \/ error)

Deliver ==
    /\ pc = "send" /\ rest # <<>>
    /\ life[Head(rest)] = "open"
    /\ heard' = [heard EXCEPT ![Head(rest)] = Append(@, read)]
    /\ NoteError(FALSE)
    /\ rest' = Others
    /\ UNCHANGED <<peers, clientVars, sent, read, pc, lost, failed>>

\* A peer that is gone, or one whose transport takes nothing this time.
FailToDeliver ==
    /\ pc = "send" /\ rest # <<>>
    /\ \/ life[Head(rest)] = "closed" /\ UNCHANGED failed
       \/ /\ life[Head(rest)] = "open"
          /\ Quantify(Clients \X Numbers, LAMBDA p : p[2] \in failed[p[1]]) < MaxErrors
          /\ failed' = [failed EXCEPT ![Head(rest)] = @ \cup {read}]
    /\ NoteError(TRUE)
    /\ rest' = Others
    /\ UNCHANGED <<peers, clientVars, sent, read, pc, lost, heard>>

EndRound ==
    /\ pc = "send" /\ rest = <<>>
    /\ pc' = IF hadError THEN "prune" ELSE "recv"
    /\ hadError' = FALSE
    /\ UNCHANGED <<peers, clientVars, sent, read, rest, lost, heardVars>>

Prune ==
    /\ pc = "prune"
    /\ peers' = Open(peers)
    /\ GoOn
    /\ UNCHANGED <<clientVars, sent, read, rest, hadError, lost, heardVars>>

ForwarderStep == Receive \/ Skip \/ Snapshot \/ Deliver \/ FailToDeliver \/ EndRound \/ Prune

Next ==
    \/ \E c \in Clients : Initialize(c) \/ Close(c)
    \/ Emit
    \/ ForwarderStep

Spec == Init /\ [][Next]_vars

\* The task is scheduled, and every send ends: a peer takes the notification,
\* or its transport gives up.  One that does neither stops them all.
FairSpec == Spec /\ WF_vars(ForwarderStep)

-----------------------------------------------------------------------------
(* Properties *)

\* The events a session that is registered without a break has a claim to.
Due(c) == (since[c] + 1) .. read

\* The round under way has yet to come to this session.
Ahead(c, e) == e = read /\ (pc = "snapshot" \/ (pc = "send" /\ c \in Range(rest)))

\* README: connected peers receive the speech events.  A registered session has
\* got every event sent since it registered, but for those the receiver lost to
\* its lag and those whose transport failed; an error of one peer, or a peer
\* that comes or goes, costs no other peer an event.
RegisteredHearsAll ==
    \A c \in Clients : Registered(c) =>
        \A e \in Due(c) :
            \/ e \in Range(heard[c]) \cup failed[c] \cup lost
            \/ Ahead(c, e) \/ life[c] = "closed"

Count(list, x) == Cardinality({i \in DOMAIN list : list[i] = x})

\* Notifications arrive in the order of the events, and none more often than the
\* session has initialized: a round that met an error is not repeated.
HeardInOrder ==
    \A c \in Clients :
        /\ \A i, k \in DOMAIN heard[c] : i < k => heard[c][i] <= heard[c][k]
        /\ \A e \in Numbers : Count(heard[c], e) <= inits[c]

\* A session that is open is put out of the registry only when as many as it can
\* hold, all open, have registered after it: one that is gone takes no place.
OpenPeersStay ==
    [][\A c \in Clients :
          Registered(c) /\ life[c] = "open" /\ ~Registered(c)' =>
              Len(peers') = Cap /\ \A i \in DOMAIN peers' : life'[peers'[i]] = "open"]_vars

\* A session that is gone is forgotten with the next event at the latest,
\* whatever else goes wrong in that round.
ClosedPeersAreForgotten ==
    \A c \in Clients : life[c] = "closed" /\ read < sent ~> ~Registered(c)

\* Every event is dealt with, however far the forwarder has fallen behind.
EventsAreForwarded == \A e \in Numbers : sent = e ~> read >= e /\ pc = "recv"

-----------------------------------------------------------------------------
(* The inductive invariants under these properties; see PeerFanoutProofs. *)

\* A round is about an event.
RoundInv == pc # "recv" => read > 0

\* The registry knows only sessions that have initialized.
RegistryInv == \A c \in Clients : Registered(c) => life[c] # "new"

\* A session is in the registry, and from there in a snapshot, at most as often as
\* it has initialized, and a round takes each place of its snapshot once.
HeardInv ==
    /\ HeardInOrder
    /\ \A c \in Clients :
        /\ Count(peers, c) <= inits[c]
        /\ pc = "send" => Count(heard[c], read) + Count(rest, c) <= inits[c]
        /\ \A i \in DOMAIN heard[c] :
               heard[c][i] <= read /\ (pc = "snapshot" => heard[c][i] < read)
=============================================================================
