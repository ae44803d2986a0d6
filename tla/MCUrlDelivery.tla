---------------------------- MODULE MCUrlDelivery ----------------------------
(* Model values for the runs of UrlDelivery. *)
EXTENDS UrlDelivery

CONSTANTS c1, c2, hello, bye, fast

Plain(w) == [chars |-> w, escaped |-> FALSE]
Escaped(w) == [chars |-> w, escaped |-> TRUE]
Pair(k, v) == [key |-> k, value |-> v]

Asked(path, query) == [scheme |-> "isimud", verb |-> "speak", path |-> path, query |-> query]

Said == <<Pair("text", Plain(bye))>>
Queries ==
    {<<>>, Said,
     Said \o <<Pair("text", Escaped(" "))>>,
     <<Pair("voice", Escaped(hello))>> \o Said \o <<Pair("voice", Plain(" "))>>,
     <<Pair("rate", Plain(fast)), Pair("rate", Plain(hello))>> \o Said}

\* Text in the query, in both, in neither, a path of blanks, another verb, another
\* scheme.
Samples ==
    {Asked(Nothing, q) : q \in Queries} \cup {Asked(Escaped(hello), <<>>), Asked(Plain(hello), Said)}
        \cup {Asked(Plain(" "), Said), Asked(Escaped(" "), Said)}
        \cup {[Asked(Plain(hello), <<>>) EXCEPT !.verb = "stop"],
              [Asked(Plain(hello), <<>>) EXCEPT !.scheme = "https"]}
=============================================================================
