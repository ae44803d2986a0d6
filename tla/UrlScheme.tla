------------------------------ MODULE UrlScheme ------------------------------
(***************************************************************************)
(* What an isimud:// URL asks for (parse_speak_url in                      *)
(* src/src/url_scheme.rs), as operators.                                   *)
(*                                                                         *)
(* A URL is taken apart already: scheme and verb without their case, what  *)
(* follows the verb in the path, and the pairs of the query.  A value is   *)
(* some words, or blanks only, or nothing, with its characters escaped or  *)
(* not: trimming sees only what is not escaped, decoding undoes the        *)
(* escapes.  Blanks around words are left out.                             *)
(***************************************************************************)
EXTENDS Naturals, Sequences

CONSTANTS
    Words,        \* texts and names with something to them
    Rates         \* those of them that are finite numbers

ASSUME RatesAssumption == Rates \subseteq Words /\ Words \cap {"", " "} = {}

Value == [chars : Words \cup {"", " "}, escaped : BOOLEAN]

Url == [scheme : STRING, verb : STRING, path : Value,
        query : Seq([key : STRING, value : Value])]

\* A voice and a rate are options: sets with at most one element.
Request == [text : Words, voice : SUBSET Words, rate : SUBSET Rates]

Nothing == [chars |-> "", escaped |-> FALSE]

\* trim of a text, and of a value that has yet to be decoded.
TrimText(text) == IF text = " " THEN "" ELSE text
TrimValue(value) == IF value.chars = " " /\ ~value.escaped THEN Nothing ELSE value

\* percent_decode
Decode(value) == value.chars

PathText(url) == {Decode(TrimValue(url.path))} \ {""}

NoneFound == [text |-> {}, voice |-> {}, rate |-> {}]

\* One turn of the loop over the pairs.  A blank voice is passed over; a rate
\* that is not a number undoes the one before it.
Take(found, pair) ==
    LET value == Decode(pair.value) IN
    CASE pair.key = "text" -> [found EXCEPT !.text = {value}]
      [] pair.key = "voice" /\ TrimText(value) # "" -> [found EXCEPT !.voice = {value}]
      [] pair.key = "rate" -> [found EXCEPT !.rate = {TrimText(value)} \cap Rates]
      [] OTHER -> found

Found(url) ==
    LET found[n \in 0 .. Len(url.query)] ==
            IF n = 0 THEN NoneFound ELSE Take(found[n - 1], url.query[n])
    IN  found[Len(url.query)]

\* Fault: the query is preferred to the path.
QueryTextFirst(url) ==
    IF Found(url).text # {} THEN Found(url).text ELSE PathText(url)

\* path_text.or(query_text)
ChosenText(url) ==
    IF PathText(url) # {} THEN PathText(url) ELSE Found(url).text

\* parse_speak_url: a sequence of at most one request.
Parse(url) ==
    LET texts == {TrimText(text) : text \in ChosenText(url)} \ {""} IN
    IF url.scheme # "isimud" \/ url.verb # "speak" \/ texts = {}
    THEN <<>>
    ELSE <<[text |-> CHOOSE text \in texts : TRUE,
            voice |-> Found(url).voice, rate |-> Found(url).rate]>>

-----------------------------------------------------------------------------
(* What the URL says, without the loop *)

\* The places of the query a key is given at, and the value at the last of them.
Given(url, key) == {i \in DOMAIN url.query : url.query[i].key = key}

LastOf(url, places) ==
    {url.query[i].value.chars : i \in {i \in places : \A k \in places : k <= i}}

\* A path that is there decides, though it may turn out blank; in the query the
\* last text, the last voice with a name and the last rate count.
Says(url) ==
    LET inPath == url.path.chars # "" /\ url.path # [chars |-> " ", escaped |-> FALSE]
        texts == IF inPath THEN {url.path.chars} ELSE LastOf(url, Given(url, "text"))
        named == {i \in Given(url, "voice") : url.query[i].value.chars \in Words}
    IN  IF url.scheme = "isimud" /\ url.verb = "speak" /\ texts \cap Words # {}
        THEN <<[text |-> CHOOSE text \in texts : TRUE,
                voice |-> LastOf(url, named),
                rate |-> LastOf(url, Given(url, "rate")) \cap Rates]>>
        ELSE <<>>
=============================================================================
