------------------------------- MODULE Routing -------------------------------
(***************************************************************************)
(* How a request finds its backend: voice resolution (src/src/voices.rs)   *)
(* at the time of the call, and provider selection                         *)
(* (src/src/providers/mod.rs) when the worker takes the job.               *)
(*                                                                         *)
(* A configuration is reduced to what routing and the queue read of it:    *)
(*   capacity  [tts].max_queue_depth, 0 disabling the limit                *)
(*   order     [tts].providers                                             *)
(*   default   [tts].default_voice                                         *)
(*   voices    [voices.*]: voice name -> provider                          *)
(*   keys      the cloud providers with a credential (env or config)       *)
(***************************************************************************)
EXTENDS Naturals, Sequences, FiniteSetsExt

\* The backends of ProviderKind, and the None that `select` may return.
Kinds == {"apple", "openai", "google"}
NoProvider == "none"

\* A SpeakRequest that names no voice.
NoVoice == "unset"

\* What an AppConfig must look like for the operators below to make sense.
IsConfig(c) ==
    /\ c.capacity \in Nat
    /\ c.order \in Seq(Kinds)
    /\ c.keys \subseteq {"openai", "google"}
    /\ \A v \in DOMAIN c.voices : c.voices[v] \in Kinds

-----------------------------------------------------------------------------
(* voices.rs: resolve_speech *)

VoiceName(c, request) ==
    IF request.voice = NoVoice THEN c.default ELSE request.voice

\* EmptyText and UnknownVoice are the two errors.
Resolvable(c, request) ==
    /\ request.text # "blank"
    /\ VoiceName(c, request) \in DOMAIN c.voices

ResolvedProvider(c, request) == c.voices[VoiceName(c, request)]

-----------------------------------------------------------------------------
(* providers/mod.rs: ProviderRegistry *)

\* The registry a configuration builds, as the set of its available providers:
\* Apple always answers is_available, a cloud provider when it holds a key.
Registry(c) == {"apple"} \cup c.keys

\* The positions of the fallback order that `select` would stop at.
Fallbacks(registry, primary, order) ==
    {i \in DOMAIN order : order[i] # primary /\ order[i] \in registry}

\* The primary provider when available, else the first available of the order.
Select(registry, primary, order) ==
    LET usable == Fallbacks(registry, primary, order) IN
    IF primary \in registry THEN primary
    ELSE IF usable # {} THEN order[Min(usable)]
    ELSE NoProvider
=============================================================================
