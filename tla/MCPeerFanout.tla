---------------------------- MODULE MCPeerFanout -----------------------------
(* Model values for the runs of PeerFanout. *)
EXTENDS PeerFanout

CONSTANTS c1, c2, c3

\* The sessions differ only in name: let them begin in the order of their names.
Before(c) == CASE c = c1 -> {} [] c = c2 -> {c1} [] c = c3 -> {c1, c2}

InOrder == \A c \in Clients : inits[c] > 0 => \A b \in Before(c) : inits[b] > 0

OrderedSpec == Init /\ [][Next /\ InOrder']_vars /\ WF_vars(ForwarderStep)
=============================================================================
