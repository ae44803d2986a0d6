--------------------------- MODULE MCTrayIndicator ---------------------------
(* Model values for the run of TrayIndicator alone. *)
EXTENDS TrayIndicator

CONSTANTS j1, s1

\* The generated default configuration.
OneConfig ==
    {[capacity |-> 2, order |-> <<"apple", "openai", "google">>,
      default |-> "default", keys |-> {}, voices |-> [default |-> "apple"]]}

Plain == {[text |-> "words", voice |-> NoVoice]}
=============================================================================
