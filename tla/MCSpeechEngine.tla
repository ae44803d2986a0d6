--------------------------- MODULE MCSpeechEngine ----------------------------
(* Model values and configurations for the runs of SpeechEngine. *)
EXTENDS SpeechEngineRefinement, TLC

CONSTANTS j1, j2, s1, h1

Says(v) == [text |-> "words", voice |-> v]

\* The generated default, one Apple voice, with a queue limit of 2.
TwoSlots ==
    {[capacity |-> 2, order |-> <<"apple", "openai", "google">>,
      default |-> "default", keys |-> {}, voices |-> [default |-> "apple"]]}

\* The only voice needs OpenAI, and Google, which has a key, stands in for it.
KeyedConfig ==
    [capacity |-> 1, order |-> <<"google">>, default |-> "default",
     keys |-> {"google"}, voices |-> [default |-> "openai"]]
\* No key at all: Apple stands in for it.
KeylessConfig ==
    [capacity |-> 2, order |-> <<"apple">>, default |-> "default",
     keys |-> {}, voices |-> [default |-> "openai"]]

WithKeyless == {KeyedConfig, KeylessConfig}

Plain == {Says(NoVoice)}
Mixed == {Says(NoVoice), Says("ghost"), [text |-> "blank", voice |-> NoVoice]}

JobSymmetry == Permutations(Jobs)
=============================================================================
