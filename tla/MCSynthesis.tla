----------------------------- MODULE MCSynthesis -----------------------------
(* Model values for the runs of Synthesis. *)
EXTENDS Synthesis

CONSTANTS j1, j2, s1

\* A local and a cloud voice, with the key the latter needs.
TwoBackends ==
    {[capacity |-> 2, order |-> <<"apple", "openai">>, default |-> "local",
      keys |-> {"openai"}, voices |-> [local |-> "apple", cloud |-> "openai"]]}

Voices == {[text |-> "words", voice |-> v] : v \in {"local", "cloud"}}

\* The first of the calls has returned; everything else is as in Init.
FirstAccepted ==
    /\ config \in Configs /\ registry = Registry(config)
    /\ queue = <<j1>> /\ notify = TRUE
    /\ current = NoJob /\ cancelled = {} /\ state = NoJob
    /\ shutdown = FALSE /\ degraded = FALSE
    /\ events = <<Event("enqueued", j1)>>
    /\ outcome = [j \in Jobs |-> Pending]
    /\ call = [j \in Jobs |-> IF j = j1 THEN "accepted" ELSE "new"]
    /\ loaded = [j \in Jobs |-> config]
    /\ \E p \in Kinds \cap registry :
           primary = [j \in Jobs |-> IF j = j1 THEN p ELSE "apple"]
    /\ stop = [s \in Stops |-> "new"] /\ cleared = [s \in Stops |-> <<>>]
    /\ hit = [s \in Stops |-> NoJob] /\ halt = [h \in Halts |-> "new"]
    /\ reload = {} /\ recent = {}
    /\ pc = "top" /\ job = NoJob /\ snapshot = {} /\ result = Pending
    /\ backend = NoProvider /\ phase = "off" /\ sounding = {} /\ played = {}

SpecFromFirst ==
    /\ FirstAccepted /\ [][SynthesisNext]_synthesisVars
    /\ WF_synthesisVars(ProgramStep)
    /\ WF_synthesisVars(WorkerStep /\ Elsewhere)
=============================================================================
