----------------------------- MODULE MCListeners -----------------------------
(* The two ends of a menu bar program that look at one engine: the tray over  *)
(* its events, the MCP tools over its fields and its outcomes.                *)
(*                                                                            *)
(* Neither changes the engine or the other, so that what one of them can see  *)
(* together with the engine is what it sees while the other is not there: a   *)
(* behavior has the one or the other.                                         *)
EXTENDS TrayIndicator, McpTools, TLC

CONSTANTS j1, j2, l1

\* The generated default configuration.
OneConfig ==
    {[capacity |-> 2, order |-> <<"apple", "openai", "google">>,
      default |-> "default", keys |-> {}, voices |-> [default |-> "apple"]]}

Plain == {[text |-> "words", voice |-> NoVoice]}

JobSymmetry == Permutations(Jobs)

NobodyAsked == (\A j \in Jobs : told[j] = Nothing) /\ (\A l \in Looks : look[l] = 0)

ListenersNext ==
    \/ Next /\ UNCHANGED <<trayVars, toolVars>>
    \/ BuildTray /\ NobodyAsked /\ UNCHANGED toolVars
    \/ (Forward \/ HandleSpeech) /\ UNCHANGED toolVars
    \/ \E j \in Jobs : Return(j) /\ ~tray /\ UNCHANGED trayVars
    \/ \E l \in Looks : Look(l) /\ ~tray /\ UNCHANGED trayVars

ListenersInit == TrayInit /\ McpInit

ListenersSpec == ListenersInit /\ [][ListenersNext]_<<allVars, toolVars>>
=============================================================================
