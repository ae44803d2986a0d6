-------------------------- MODULE LifecycleProofs ---------------------------
(***************************************************************************)
(* After Ctrl-C no request is cut off by the drop of the runtime, for any  *)
(* number of clients and whenever it is pressed.  URLs arrive in order and *)
(* are understood, for any URLs and as many of them, whatever their query  *)
(* repeats.                                                                *)
(***************************************************************************)
EXTENDS UrlDelivery, SequenceTheorems, WellFoundedInduction, TLAPS

USE DEF serverVars, trayVars, speechVars, Ended, SendShutdown

-----------------------------------------------------------------------------
(* Types *)

LEMMA TypeInit == Init => TypeOK
  BY DEF Init, TypeOK

\* What the server task does.
LEMMA TypeServer == ASSUME TypeOK, ServerStep PROVE TypeOK'
<1> USE DEF TypeOK
<1>1. CASE StartServer
  BY <1>1 DEF StartServer
<1>2. CASE Bind
  BY <1>2 DEF Bind
<1>3. CASE BeginDrain
  BY <1>3 DEF BeginDrain
<1>4. CASE EndServer
  BY <1>4 DEF EndServer, Drained
<1> QED
  BY <1>1, <1>2, <1>3, <1>4 DEF ServerStep

\* What a client does.
LEMMA TypeClient ==
    ASSUME TypeOK, NEW c \in Clients, Connect(c) \/ Disconnect(c) \/ Quit(c) PROVE TypeOK'
<1> USE DEF TypeOK
<1>1. CASE Connect(c)
  BY <1>1 DEF Connect
<1>2. CASE Disconnect(c)
  BY <1>2 DEF Disconnect
<1>3. CASE Quit(c)
  BY <1>3 DEF Quit
<1> QED
  BY <1>1, <1>2, <1>3

\* What the main thread does, headless or with a tray.
LEMMA TypeMain == ASSUME TypeOK, MainStep \/ Interrupt PROVE TypeOK'
<1> USE DEF TypeOK
<1>1. CASE RunHeadless
  BY <1>1 DEF RunHeadless
<1>2. CASE AwaitServer
  BY <1>2 DEF AwaitServer, Join
<1>3. CASE ServerGone
  BY <1>3 DEF ServerGone
<1>4. CASE Exit
  BY <1>4 DEF Exit
<1>5. CASE BuildTray
  BY <1>5 DEF BuildTray
<1>6. CASE HandleServerStopped
  BY <1>6 DEF HandleServerStopped
<1>7. CASE Interrupt
  BY <1>7 DEF Interrupt
<1> QED
  BY <1>1, <1>2, <1>3, <1>4, <1>5, <1>6, <1>7 DEF MainStep

LEMMA TypeStep == TypeOK /\ [Next]_vars => TypeOK'
<1> SUFFICES ASSUME TypeOK, [Next]_vars PROVE TypeOK'
  OBVIOUS
<1> USE DEF TypeOK
<1>1. CASE ServerStep
  BY <1>1, TypeServer
<1>2. ASSUME NEW c \in Clients, Connect(c) \/ Disconnect(c) \/ Quit(c) PROVE TypeOK'
  BY <1>2, TypeClient
<1>3. CASE MainStep \/ Interrupt
  BY <1>3, TypeMain
<1>4. CASE WatchServer
  <2>1. watching' = FALSE /\ stopped' = TRUE
        /\ UNCHANGED <<headless, main, serverVars, quit, interrupted, speechVars>>
    BY <1>4 DEF WatchServer, AnnounceStopped
  <2> QED
    BY <2>1
<1>5. CASE StartClip \/ EndClip
  <2>1. playing' \in BOOLEAN
        /\ UNCHANGED <<headless, main, serverVars, quit, interrupted, trayVars, worker, degraded>>
    BY <1>5 DEF StartClip, EndClip
  <2> QED
    BY <2>1
<1>6. CASE LoseWorker \/ Supervise
  <2>1. worker' \in {"running", "lost"} /\ (degraded' = degraded \/ degraded' = TRUE)
        /\ UNCHANGED <<headless, main, serverVars, quit, interrupted, trayVars, playing>>
    BY <1>6 DEF LoseWorker, Supervise, Mark
  <2>2. degraded' \in BOOLEAN
    BY <2>1
  <2> QED
    BY <2>1, <2>2
<1>7. CASE UNCHANGED vars
  BY <1>7 DEF vars
<1> QED
  BY <1>1, <1>2, <1>3, <1>4, <1>5, <1>6, <1>7 DEF Next

\* A server that ended has no request in flight, and a shutdown message is only
\* ever held by a receiver that exists.
THEOREM TypeCorrect == Spec => []TypeOK
  BY TypeInit, TypeStep, PTL DEF Spec

-----------------------------------------------------------------------------
(* The graceful end *)

LEMMA GracefulInit == Init => GracefulInv
  BY DEF Init, GracefulInv, InterruptIsGraceful

\* Steps of others leave the main thread where it is, and open nothing that it
\* has seen closed.
LEMMA GracefulFrame ==
    ASSUME GracefulInv, UNCHANGED <<main, interrupted>>,
           open' \subseteq open \/ Alive
    PROVE  GracefulInv'
  BY DEF GracefulInv, InterruptIsGraceful, Alive

\* Nobody but the ctrl_c branch leads to an end that has to be graceful, and
\* that one waits for the server.
LEMMA GracefulMain ==
    ASSUME TypeOK, GracefulInv, MainStep \/ Interrupt PROVE GracefulInv'
<1> USE DEF GracefulInv, InterruptIsGraceful
<1>1. CASE RunHeadless
  BY <1>1 DEF RunHeadless
<1>2. CASE AwaitServer
  <2>1. open = {}
    BY <1>2 DEF AwaitServer, Join, TypeOK
  <2> QED
    BY <1>2, <2>1 DEF AwaitServer
<1>3. CASE ServerGone
  BY <1>3 DEF ServerGone
<1>4. CASE Exit
  BY <1>4 DEF Exit
<1>5. CASE BuildTray
  BY <1>5 DEF BuildTray
<1>6. CASE HandleServerStopped
  BY <1>6 DEF HandleServerStopped
<1>7. CASE Interrupt
  BY <1>7 DEF Interrupt
<1> QED
  BY <1>1, <1>2, <1>3, <1>4, <1>5, <1>6, <1>7 DEF MainStep

LEMMA GracefulStep == TypeOK /\ GracefulInv /\ [Next]_vars => GracefulInv'
<1> SUFFICES ASSUME TypeOK, GracefulInv, [Next]_vars PROVE GracefulInv'
  OBVIOUS
<1>1. CASE ServerStep
  BY <1>1, GracefulFrame DEF ServerStep, StartServer, Bind, BeginDrain, EndServer
<1>2. ASSUME NEW c \in Clients, Connect(c) \/ Disconnect(c) \/ Quit(c) PROVE GracefulInv'
  BY <1>2, GracefulFrame DEF Connect, Disconnect, Quit
<1>3. CASE MainStep \/ Interrupt
  BY <1>3, GracefulMain
<1>4. CASE WatchServer \/ StartClip \/ EndClip \/ LoseWorker \/ Supervise
  BY <1>4, GracefulFrame DEF WatchServer, StartClip, EndClip, LoseWorker, Supervise
<1>5. CASE UNCHANGED vars
  BY <1>5, GracefulFrame DEF vars
<1> QED
  BY <1>1, <1>2, <1>3, <1>4, <1>5 DEF Next

\* After Ctrl-C the runtime is dropped only once every request the server had
\* accepted is over, however many clients there are.
THEOREM InterruptsAreGraceful == Spec => []InterruptIsGraceful
<1>1. GracefulInv => InterruptIsGraceful
  BY DEF GracefulInv
<1> QED
  BY <1>1, TypeCorrect, GracefulInit, GracefulStep, PTL DEF Spec

-----------------------------------------------------------------------------
(* The parser: its loop finds what the last pairs give *)

\* Going up from zero one by one reaches every number.
LEMMA UpTo ==
    ASSUME NEW good, NEW n \in Nat, 0 \in good, \A m \in 1 .. n : m - 1 \in good => m \in good
    PROVE  n \in good
<1> SUFFICES ASSUME n \notin good PROVE FALSE
  OBVIOUS
<1> DEFINE bad == {m \in 0 .. n : m \notin good}
<1>1. bad \subseteq Nat /\ bad # {}
  OBVIOUS
<1>2. PICK x \in bad : \A y \in bad : ~(<<y, x>> \in OpToRel(<, Nat))
  BY <1>1, NatLessThanWellFounded, WFMin, Zenon
<1>3. ASSUME NEW y \in bad PROVE x <= y
  <2>1. <<y, x>> \in Nat \X Nat /\ ~(<<y, x>> \in OpToRel(<, Nat))
    BY <1>1, <1>2, <1>3, Zenon
  <2>2. ~(<<y, x>>[1] < <<y, x>>[2])
    BY <2>1, Zenon DEF OpToRel
  <2> QED
    BY <1>1, <2>2
<1>4. x \in 1 .. n /\ x - 1 \in 0 .. n
  OBVIOUS
<1>5. x - 1 \notin bad
  BY <1>3, <1>4
<1> QED
  BY <1>4, <1>5

\* The last of some places up to n is n, if it is one, and else the last before it.
LastStepsOn(url, n) ==
    \A places \in SUBSET Nat :
        /\ n \in places => LastOf(url, places \cap 1 .. n) = {url.query[n].value.chars}
        /\ n \notin places =>
             LastOf(url, places \cap 1 .. n) = LastOf(url, places \cap 1 .. n - 1)

\* So it is for every URL and every place.
LEMMA LastUpTo ==
    ASSUME NEW url, NEW n \in Nat \ {0}
    PROVE  LastStepsOn(url, n)
<1> SUFFICES
      ASSUME NEW places \in SUBSET Nat
      PROVE  /\ n \in places => LastOf(url, places \cap 1 .. n) = {url.query[n].value.chars}
             /\ n \notin places =>
                  LastOf(url, places \cap 1 .. n) = LastOf(url, places \cap 1 .. n - 1)
  BY DEF LastStepsOn
<1> DEFINE upTo == places \cap 1 .. n
<1>1. CASE n \in places
  <2>1. {i \in upTo : \A k \in upTo : k <= i} = {n}
    <3>1. n \in upTo /\ \A k \in upTo : k \in Nat /\ k <= n
      BY <1>1
    <3>2. ASSUME NEW i \in upTo, n <= i PROVE i = n
      BY <3>2
    <3> QED
      BY <3>1, <3>2
  <2> HIDE DEF upTo
  <2>2. LastOf(url, upTo) = {url.query[n].value.chars}
    BY <2>1, Zenon DEF LastOf
  <2> QED
    BY <1>1, <2>2 DEF upTo
<1>2. CASE n \notin places
  <2>1. upTo = places \cap 1 .. n - 1
    BY <1>2
  <2> QED
    BY <1>2, <2>1
<1> QED
  BY <1>1, <1>2

LEMMA LastOfNone == ASSUME NEW url PROVE LastOf(url, {}) = {}
  BY DEF LastOf

LEMMA QueryType ==
    ASSUME NEW url \in Url
    PROVE  /\ DOMAIN url.query = 1 .. Len(url.query) /\ Len(url.query) \in Nat
           /\ \A i \in DOMAIN url.query : /\ url.query[i].key \in STRING
                                        /\ url.query[i].value.chars \in Words \cup {"", " "}
<1> DEFINE Pair == [key : STRING, value : Value]
<1>1. \A pair \in Pair : pair.key \in STRING /\ pair.value.chars \in Words \cup {"", " "}
  BY DEF Value
<1>2. url.query \in Seq(Pair)
  BY DEF Url
<1> HIDE DEF Pair
<1>3. /\ DOMAIN url.query = 1 .. Len(url.query) /\ Len(url.query) \in Nat
      /\ \A i \in DOMAIN url.query : url.query[i] \in Pair
  BY <1>2
<1> QED
  BY <1>1, <1>3

\* There is one last place at most.
LEMMA LastOfOne ==
    ASSUME NEW url \in Url, NEW places \in SUBSET (DOMAIN url.query)
    PROVE  /\ LastOf(url, places) \subseteq Words \cup {"", " "}
           /\ \A v, w \in LastOf(url, places) : v = w
<1> DEFINE last == {i \in places : \A k \in places : k <= i}
<1>1. DOMAIN url.query = 1 .. Len(url.query) /\ Len(url.query) \in Nat
  BY QueryType
<1>2. \A i \in last : i \in DOMAIN url.query /\ i \in Nat
  BY <1>1
<1>3. ASSUME NEW i \in last, NEW k \in last PROVE i = k
  <2>1. i <= k /\ k <= i
    OBVIOUS
  <2> QED
    BY <1>2, <2>1
<1>4. \A i \in last : url.query[i].value.chars \in Words \cup {"", " "}
  BY <1>2, QueryType
<1>5. LastOf(url, places) = {url.query[i].value.chars : i \in last}
  BY DEF LastOf
<1> HIDE DEF last
<1> QED
  BY <1>3, <1>4, <1>5

\* What the loop has found after n pairs, said without it.
FoundBy(url, n) ==
    LET named == {i \in Given(url, "voice") : url.query[i].value.chars \in Words}
    IN  [text |-> LastOf(url, Given(url, "text") \cap 1 .. n),
         voice |-> LastOf(url, named \cap 1 .. n),
         rate |-> LastOf(url, Given(url, "rate") \cap 1 .. n) \cap Rates]

LEMMA OneTurn ==
    ASSUME NEW url \in Url, NEW n \in 1 .. Len(url.query)
    PROVE  Take(FoundBy(url, n - 1), url.query[n]) = FoundBy(url, n)
<1> DEFINE v == url.query[n].value.chars
           key == url.query[n].key
           named == {i \in Given(url, "voice") : url.query[i].value.chars \in Words}
           Texts(m) == LastOf(url, Given(url, "text") \cap 1 .. m)
           Voices(m) == LastOf(url, named \cap 1 .. m)
           Valued(m) == LastOf(url, Given(url, "rate") \cap 1 .. m)
<1>1. DOMAIN url.query = 1 .. Len(url.query) /\ Len(url.query) \in Nat
  BY QueryType
<1>2. v \in Words \cup {"", " "}
  BY <1>1, QueryType
<1>3. /\ \A k : Given(url, k) \in SUBSET Nat /\ (n \in Given(url, k) <=> key = k)
      /\ named \in SUBSET Nat /\ (n \in named <=> key = "voice" /\ v \in Words)
      /\ n \in Nat \ {0}
  BY <1>1 DEF Given
<1> HIDE DEF v, key, named
<1>4. /\ Texts(n) = IF key = "text" THEN {url.query[n].value.chars} ELSE Texts(n - 1)
      /\ Voices(n) = IF key = "voice" /\ v \in Words THEN {url.query[n].value.chars} ELSE Voices(n - 1)
      /\ Valued(n) = IF key = "rate" THEN {url.query[n].value.chars} ELSE Valued(n - 1)
  <2>1. LastStepsOn(url, n)
    BY <1>3, LastUpTo
  <2> QED
    BY <1>3, <2>1 DEF LastStepsOn
<1>5. /\ FoundBy(url, n) = [text |-> Texts(n), voice |-> Voices(n), rate |-> Valued(n) \cap Rates]
      /\ FoundBy(url, n - 1) =
           [text |-> Texts(n - 1), voice |-> Voices(n - 1), rate |-> Valued(n - 1) \cap Rates]
  BY DEF FoundBy, named
<1> HIDE DEF Texts, Voices, Valued
<1> DEFINE found == FoundBy(url, n - 1)
<1>6. Take(found, url.query[n]) =
        CASE key = "text" -> [found EXCEPT !.text = {v}]
          [] key = "voice" /\ TrimText(v) # "" -> [found EXCEPT !.voice = {v}]
          [] key = "rate" -> [found EXCEPT !.rate = {TrimText(v)} \cap Rates]
          [] OTHER -> found
  BY DEF Take, Decode, v, key
<1>7. /\ TrimText(v) # "" <=> v \in Words
      /\ {TrimText(v)} \cap Rates = {v} \cap Rates
  BY <1>2, RatesAssumption DEF TrimText
<1>8. url.query[n].value.chars = v
  BY DEF v
<1> HIDE DEF found
<1>9. found = [text |-> Texts(n - 1), voice |-> Voices(n - 1), rate |-> Valued(n - 1) \cap Rates]
  BY <1>5 DEF found
<1>10. Take(found, url.query[n]) = FoundBy(url, n)
  <2>1. CASE key = "text"
    BY <1>4, <1>5, <1>6, <1>8, <1>9, <2>1
  <2>2. CASE key = "voice"
    BY <1>4, <1>5, <1>6, <1>7, <1>8, <1>9, <2>2
  <2>3. CASE key = "rate"
    BY <1>4, <1>5, <1>6, <1>7, <1>8, <1>9, <2>3
  <2>4. CASE key \notin {"text", "voice", "rate"}
    BY <1>4, <1>5, <1>6, <1>9, <2>4
  <2> QED
    BY <2>1, <2>2, <2>3, <2>4
<1> QED
  BY <1>10 DEF found

LEMMA LoopFinds ==
    ASSUME NEW url \in Url PROVE Found(url) = FoundBy(url, Len(url.query))
<1> DEFINE len == Len(url.query)
           f == [n \in 0 .. len |-> FoundBy(url, n)]
           k == CHOOSE g : g = [n \in 0 .. len |->
                   IF n = 0 THEN NoneFound ELSE Take(g[n - 1], url.query[n])]
           good == {n \in Nat : n <= len => k[n] = FoundBy(url, n)}
<1>1. len \in Nat
  BY DEF Url
<1>2. FoundBy(url, 0) = NoneFound
  <2>1. \A places : places \cap 1 .. 0 = {}
    OBVIOUS
  <2> QED
    BY <2>1, LastOfNone DEF FoundBy, NoneFound
<1>3. f = [n \in 0 .. len |-> IF n = 0 THEN NoneFound ELSE Take(f[n - 1], url.query[n])]
  <2>1. ASSUME NEW n \in 0 .. len
        PROVE  FoundBy(url, n) = IF n = 0 THEN NoneFound ELSE Take(f[n - 1], url.query[n])
    <3>1. CASE n = 0
      BY <1>2, <3>1
    <3>2. CASE n # 0
      <4>1. n \in 1 .. Len(url.query) /\ f[n - 1] = FoundBy(url, n - 1)
        BY <1>1, <3>2
      <4> QED
        BY <3>2, <4>1, OneTurn
    <3> QED
      BY <3>1, <3>2
  <2> QED
    BY <2>1
<1>4. k = [n \in 0 .. len |-> IF n = 0 THEN NoneFound ELSE Take(k[n - 1], url.query[n])]
  <2> HIDE DEF f
  <2> QED
    BY <1>3, Zenon
<1>5. Found(url) = k[len]
  BY Zenon DEF Found
<1> HIDE DEF k
<1>6. /\ k[0] = NoneFound
      /\ \A n \in 1 .. len : k[n] = Take(k[n - 1], url.query[n])
  BY <1>1, <1>4
<1>7. 0 \in good
  BY <1>2, <1>6
<1>8. ASSUME NEW n \in 1 .. len, n - 1 \in good PROVE n \in good
  <2>1. k[n - 1] = FoundBy(url, n - 1) /\ n \in Nat
    BY <1>1, <1>8
  <2>2. Take(FoundBy(url, n - 1), url.query[n]) = FoundBy(url, n)
    BY OneTurn
  <2> QED
    BY <1>6, <2>1, <2>2
<1> HIDE DEF good
<1>9. len \in good
  BY <1>1, <1>7, <1>8, UpTo
<1> QED
  BY <1>1, <1>5, <1>9 DEF good

\* What parse_speak_url returns is what the URL says, whatever its query repeats.
THEOREM ParseIsSays ==
    ASSUME NEW url \in Url PROVE Parse(url) = Says(url) /\ Says(url) \in Seq(Request)
<1> DEFINE inPath == url.path.chars # "" /\ url.path # [chars |-> " ", escaped |-> FALSE]
           named == {i \in Given(url, "voice") : url.query[i].value.chars \in Words}
           said == IF inPath THEN {url.path.chars} ELSE LastOf(url, Given(url, "text"))
           texts == {TrimText(text) : text \in ChosenText(url)} \ {""}
           voices == LastOf(url, named)
           rates == LastOf(url, Given(url, "rate")) \cap Rates
<1>1. /\ DOMAIN url.query = 1 .. Len(url.query) /\ Len(url.query) \in Nat
      /\ \A i \in DOMAIN url.query : url.query[i].value.chars \in Words \cup {"", " "}
  BY QueryType
<1>2. /\ \A k : Given(url, k) \cap 1 .. Len(url.query) = Given(url, k)
      /\ named \cap 1 .. Len(url.query) = named
  BY <1>1 DEF Given
<1>3. /\ Found(url).text = LastOf(url, Given(url, "text"))
      /\ Found(url).voice = voices /\ Found(url).rate = rates
  <2>1. FoundBy(url, Len(url.query)) =
          [text |-> LastOf(url, Given(url, "text")), voice |-> voices, rate |-> rates]
    BY <1>2, Zenon DEF FoundBy
  <2> HIDE DEF voices, rates
  <2> QED
    BY <2>1, LoopFinds
<1>4. /\ Given(url, "text") \in SUBSET (DOMAIN url.query)
      /\ named \in SUBSET (DOMAIN url.query)
  BY DEF Given
<1>5. voices \in SUBSET Words
  BY <1>4 DEF LastOf
<1>6. /\ LastOf(url, Given(url, "text")) \subseteq Words \cup {"", " "}
      /\ \A v, w \in LastOf(url, Given(url, "text")) : v = w
  BY <1>4, LastOfOne
<1>7. PathText(url) = IF inPath THEN {url.path.chars} ELSE {}
  <2>1. url.path \in Value
    BY DEF Url
  <2>2. url.path = [chars |-> url.path.chars, escaped |-> url.path.escaped]
        /\ url.path.escaped \in BOOLEAN
    BY <2>1 DEF Value
  <2>3. CASE url.path.chars = " " /\ ~url.path.escaped
    <3>1. ~inPath
      BY <2>2, <2>3
    <3>2. TrimValue(url.path) = Nothing
      BY <2>3 DEF TrimValue
    <3>3. PathText(url) = {}
      <4>1. Nothing.chars = ""
        BY DEF Nothing
      <4>2. Decode(TrimValue(url.path)) = Nothing.chars
        BY <3>2, Zenon DEF Decode
      <4> QED
        BY <4>1, <4>2, Zenon DEF PathText
    <3> HIDE DEF inPath
    <3> QED
      BY <3>1, <3>3
  <2>4. CASE ~(url.path.chars = " " /\ ~url.path.escaped)
    <3>1. inPath <=> url.path.chars # ""
      <4> DEFINE blank == [chars |-> " ", escaped |-> FALSE]
      <4>1. blank.chars = " " /\ blank.escaped = FALSE
        OBVIOUS
      <4> HIDE DEF blank
      <4>2. url.path # blank
        BY <2>4, <4>1
      <4> QED
        BY <4>2 DEF blank
    <3>2. TrimValue(url.path) = url.path
      BY <2>4 DEF TrimValue
    <3>3. PathText(url) = {url.path.chars} \ {""}
      BY <3>2 DEF PathText, Decode
    <3> HIDE DEF inPath
    <3> QED
      BY <3>1, <3>3
  <2> QED
    BY <2>3, <2>4
<1>8. ChosenText(url) = said
  BY <1>3, <1>7 DEF ChosenText
<1>9. said \subseteq Words \cup {"", " "} /\ \A v, w \in said : v = w
  BY <1>6 DEF Url, Value
<1> HIDE DEF said, voices, rates, inPath, named
<1>10. texts = said \cap Words
  BY <1>8, <1>9, RatesAssumption DEF TrimText
<1>11. texts # {} => texts = said
  BY <1>9, <1>10
<1>12. Says(url) = IF url.scheme = "isimud" /\ url.verb = "speak" /\ said \cap Words # {}
                   THEN <<[text |-> CHOOSE text \in said : TRUE, voice |-> voices, rate |-> rates]>>
                   ELSE <<>>
  BY DEF Says, said, voices, rates, inPath, named
<1>13. Parse(url) = IF url.scheme # "isimud" \/ url.verb # "speak" \/ texts = {}
                    THEN <<>>
                    ELSE <<[text |-> CHOOSE text \in texts : TRUE, voice |-> voices, rate |-> rates]>>
  BY <1>3 DEF Parse
<1>14. said \cap Words # {} => (CHOOSE text \in said : TRUE) \in Words
  BY <1>9
<1>15. rates \in SUBSET Rates
  BY DEF rates
<1> HIDE DEF texts
<1>16. Says(url) \in Seq(Request)
  <2>1. CASE url.scheme = "isimud" /\ url.verb = "speak" /\ said \cap Words # {}
    <3>1. [text |-> CHOOSE text \in said : TRUE, voice |-> voices, rate |-> rates] \in Request
      BY <1>5, <1>14, <1>15, <2>1 DEF Request
    <3> QED
      BY <1>12, <2>1, <3>1
  <2>2. CASE ~(url.scheme = "isimud" /\ url.verb = "speak" /\ said \cap Words # {})
    BY <1>12, <2>2
  <2> QED
    BY <2>1, <2>2
<1> QED
  BY <1>10, <1>11, <1>12, <1>13, <1>16

-----------------------------------------------------------------------------
(* Requests one after the other *)

\* Concatenation by a name: the provers cite what is said of it, and do not look
\* into the sequences.
Cat(a, b) == a \o b

LEMMA ThreeInARow ==
    \A S : \A a, b, c \in Seq(S) : Cat(Cat(a, b), c) = Cat(a, Cat(b, c))
  BY ConcatAssociative DEF Cat

\* The recursion of FlattenSeq, up to its place m.
Flat(s, g, i) == IF i = 1 THEN s[i] ELSE g[i - 1] \o s[i]

LEMMA FlattenScan ==
    ASSUME NEW S, NEW s \in Seq(Seq(S)), s # <<>>
    PROVE  \E g : /\ \A i \in 1 .. Len(s) : g[i] = Flat(s, g, i) /\ g[i] \in Seq(S)
                 /\ FlattenSeq(s) = g[Len(s)]
<1> DEFINE IsFlat(m, g) == g = [i \in 1 .. m |-> Flat(s, g, i)]
           k == CHOOSE g : g = [i \in 1 .. Len(s) |-> IF i = 1 THEN s[i] ELSE g[i - 1] \o s[i]]
           good == {m \in Nat : m <= Len(s) => \E g : IsFlat(m, g)}
           typed == {m \in Nat : m \in 1 .. Len(s) => k[m] \in Seq(S)}
<1>1. /\ Len(s) \in Nat /\ Len(s) # 0
      /\ \A i \in 1 .. Len(s) : s[i] \in Seq(S)
  OBVIOUS
<1>2. 0 \in good
  <2> DEFINE g == [i \in 1 .. 0 |-> <<>>]
  <2>1. IsFlat(0, g)
    OBVIOUS
  <2> HIDE DEF IsFlat, g
  <2> QED
    BY <2>1
<1>3. ASSUME NEW m \in 1 .. Len(s), m - 1 \in good PROVE m \in good
  <2>1. PICK g : IsFlat(m - 1, g)
    BY <1>1, <1>3
  <2> DEFINE h == [i \in 1 .. m |-> IF i = m THEN Flat(s, g, m) ELSE g[i]]
  <2>2. \A i \in 1 .. m : i # 1 => h[i - 1] = g[i - 1]
    OBVIOUS
  <2>3. \A i \in 1 .. m - 1 : g[i] = Flat(s, g, i)
    BY <2>1
  <2>4. \A i \in 1 .. m : h[i] = Flat(s, h, i)
    <3> TAKE i \in 1 .. m
    <3>1. Flat(s, h, i) = Flat(s, g, i)
      BY <2>2 DEF Flat
    <3>2. h[i] = Flat(s, g, i)
      BY <2>3
    <3> QED
      BY <3>1, <3>2
  <2>5. h = [i \in 1 .. m |-> h[i]]
    OBVIOUS
  <2>6. IsFlat(m, h)
    <3> HIDE DEF h
    <3> QED
      BY <2>4, <2>5
  <2> HIDE DEF IsFlat
  <2> QED
    BY <1>1, <2>6
<1>4. Len(s) \in good
  <2> HIDE DEF good
  <2> QED
    BY <1>1, <1>2, <1>3, UpTo
<1>5. PICK g : IsFlat(Len(s), g)
  BY <1>1, <1>4
<1>6. g = [i \in 1 .. Len(s) |-> IF i = 1 THEN s[i] ELSE g[i - 1] \o s[i]]
  BY <1>5 DEF Flat
<1>7. k = [i \in 1 .. Len(s) |-> IF i = 1 THEN s[i] ELSE k[i - 1] \o s[i]]
  BY <1>6, Zenon
<1>8. FlattenSeq(s) = k[Len(s)]
  BY <1>1, Zenon DEF FlattenSeq
<1> HIDE DEF k
<1>9. \A i \in 1 .. Len(s) : k[i] = Flat(s, k, i)
  BY <1>7 DEF Flat
<1>10. ASSUME NEW m \in 1 .. Len(s), m - 1 \in typed PROVE m \in typed
  <2>1. CASE m = 1
    BY <1>1, <1>9, <2>1 DEF Flat
  <2>2. CASE m # 1
    <3>1. m - 1 \in 1 .. Len(s) /\ k[m - 1] \in Seq(S)
      BY <1>1, <1>10, <2>2
    <3>2. k[m] = k[m - 1] \o s[m] /\ s[m] \in Seq(S)
      BY <1>1, <1>9, <2>2 DEF Flat
    <3>3. k[m] \in Seq(S)
      BY <3>1, <3>2, ConcatProperties
    <3> QED
      BY <3>3
  <2> QED
    BY <2>1, <2>2
<1>11. 0 \in typed
  OBVIOUS
<1>12. \A m \in 1 .. Len(s) : k[m] \in Seq(S)
  <2> TAKE m \in 1 .. Len(s)
  <2>1. m \in Nat /\ \A i \in 1 .. m : i \in 1 .. Len(s)
    BY <1>1
  <2>2. m \in typed
    <3> HIDE DEF typed
    <3> QED
      BY <1>10, <1>11, <2>1, UpTo
  <2> QED
    BY <2>2
<1> QED
  BY <1>8, <1>9, <1>12

\* A sequence at the end comes out at the end.
LEMMA FlattenAppend ==
    ASSUME NEW S, NEW s \in Seq(Seq(S)), NEW e \in Seq(S)
    PROVE  /\ FlattenSeq(Append(s, e)) = FlattenSeq(s) \o e
           /\ FlattenSeq(s) \in Seq(S)
<1> DEFINE a == Append(s, e)
           n == Len(s)
<1>1. /\ a \in Seq(Seq(S)) /\ a # <<>> /\ Len(a) = n + 1 /\ n \in Nat
      /\ \A i \in 1 .. n : a[i] = s[i]
      /\ a[n + 1] = e
  <2> DEFINE T == Seq(S)
  <2>1. s \in Seq(T) /\ e \in T
    OBVIOUS
  <2> HIDE DEF T
  <2>2. a \in Seq(T)
    BY <2>1
  <2>3. /\ a # <<>> /\ Len(a) = n + 1 /\ n \in Nat
        /\ \A i \in 1 .. n : a[i] = s[i]
        /\ a[n + 1] = e
    BY <2>1
  <2> QED
    BY <2>2, <2>3 DEF T
<1> HIDE DEF a
<1>2. PICK h : /\ \A i \in 1 .. n + 1 : h[i] = Flat(a, h, i)
              /\ FlattenSeq(a) = h[n + 1]
  <2>1. \E h : /\ \A i \in 1 .. Len(a) : h[i] = Flat(a, h, i) /\ h[i] \in Seq(S)
              /\ FlattenSeq(a) = h[Len(a)]
    BY <1>1, FlattenScan, Zenon
  <2> QED
    BY <1>1, <2>1
<1>3. CASE s = <<>>
  <2>1. FlattenSeq(s) = <<>> /\ n = 0
    BY <1>3 DEF FlattenSeq
  <2>2. FlattenSeq(a) = e
    BY <1>1, <1>2, <2>1 DEF Flat
  <2>3. <<>> \o e = e
    BY ConcatEmptySeq
  <2> QED
    BY <2>1, <2>2, <2>3 DEF a
<1>4. CASE s # <<>>
  <2>1. PICK g : /\ \A i \in 1 .. n : g[i] = Flat(s, g, i) /\ g[i] \in Seq(S)
                /\ FlattenSeq(s) = g[n]
    BY <1>4, FlattenScan
  <2> DEFINE same == {m \in Nat : m \in 1 .. n => h[m] = g[m]}
  <2>2. 0 \in same
    OBVIOUS
  <2>3. ASSUME NEW m \in 1 .. n, m - 1 \in same PROVE m \in same
    <3>1. h[m] = Flat(a, h, m) /\ g[m] = Flat(s, g, m) /\ a[m] = s[m]
      BY <1>1, <1>2, <2>1
    <3>2. m # 1 => h[m - 1] = g[m - 1]
      BY <1>1, <2>3
    <3>3. h[m] = g[m]
      BY <3>1, <3>2 DEF Flat
    <3> QED
      BY <3>3
  <2>4. n \in same
    <3> HIDE DEF same
    <3> QED
      BY <1>1, <2>2, <2>3, UpTo
  <2>5. n \in 1 .. n
    BY <1>1, <1>4
  <2>6. h[n] = g[n]
    BY <1>1, <2>4, <2>5
  <2>7. h[n + 1] = h[n] \o e
    <3>1. n + 1 \in 1 .. n + 1 /\ n + 1 # 1 /\ (n + 1) - 1 = n
      BY <1>1, <2>5
    <3> HIDE DEF n
    <3> QED
      BY <1>1, <1>2, <3>1 DEF Flat
  <2> QED
    BY <1>2, <2>1, <2>5, <2>6, <2>7 DEF a
<1> QED
  BY <1>3, <1>4

\* A sequence at the head comes out first.
LEMMA FlattenTail ==
    ASSUME NEW S, NEW s \in Seq(Seq(S)), s # <<>>
    PROVE  FlattenSeq(s) = Head(s) \o FlattenSeq(Tail(s))
<1> DEFINE t == Tail(s)
           n == Len(t)
<1>1. /\ t \in Seq(Seq(S)) /\ Len(s) = n + 1 /\ n \in Nat
      /\ s[1] = Head(s) /\ Head(s) \in Seq(S)
      /\ \A i \in 1 .. n : t[i] = s[i + 1] /\ t[i] \in Seq(S)
  OBVIOUS
<1> HIDE DEF t
<1>2. PICK g : /\ \A i \in 1 .. n + 1 : g[i] = Flat(s, g, i)
              /\ FlattenSeq(s) = g[n + 1]
  <2>1. \E g : /\ \A i \in 1 .. Len(s) : g[i] = Flat(s, g, i) /\ g[i] \in Seq(S)
              /\ FlattenSeq(s) = g[Len(s)]
    BY FlattenScan, Zenon
  <2> QED
    BY <1>1, <2>1
<1>3. CASE t = <<>>
  <2>1. FlattenSeq(t) = <<>> /\ n = 0
    BY <1>3 DEF FlattenSeq
  <2>2. FlattenSeq(s) = Head(s)
    BY <1>1, <1>2, <2>1 DEF Flat
  <2>3. Head(s) \o <<>> = Head(s)
    BY <1>1, ConcatEmptySeq
  <2> QED
    BY <2>1, <2>2, <2>3 DEF t
<1>4. CASE t # <<>>
  <2>1. PICK h : /\ \A i \in 1 .. n : h[i] = Flat(t, h, i) /\ h[i] \in Seq(S)
                /\ FlattenSeq(t) = h[n]
    BY <1>1, <1>4, FlattenScan
  <2> DEFINE shifted == {m \in Nat : m \in 1 .. n => g[m + 1] = Head(s) \o h[m]}
  <2>2. 0 \in shifted
    OBVIOUS
  <2>3. ASSUME NEW m \in 1 .. n, m - 1 \in shifted PROVE m \in shifted
    <3>0. /\ m \in Nat /\ m + 1 \in 1 .. n + 1 /\ m + 1 # 1 /\ (m + 1) - 1 = m
          /\ 1 \in 1 .. n + 1
      BY <1>1
    <3>1. /\ g[m + 1] = g[m] \o t[m] /\ g[1] = Head(s)
      <4> HIDE DEF n
      <4> QED
        BY <1>1, <1>2, <3>0 DEF Flat
    <3>2. h[m] = Flat(t, h, m) /\ t[m] \in Seq(S)
      BY <1>1, <2>1
    <3>3. CASE m = 1
      <4>1. g[m + 1] = Head(s) \o h[m]
        BY <3>1, <3>2, <3>3 DEF Flat
      <4> QED
        BY <3>0, <4>1
    <3>4. CASE m # 1
      <4>1. m - 1 \in 1 .. n /\ (m - 1) + 1 = m
        BY <1>1, <3>4
      <4>2. g[m] = Head(s) \o h[m - 1] /\ h[m - 1] \in Seq(S)
        BY <2>1, <2>3, <4>1
      <4>3. h[m] = h[m - 1] \o t[m]
        BY <3>2, <3>4 DEF Flat
      <4>4. (Head(s) \o h[m - 1]) \o t[m] = Head(s) \o (h[m - 1] \o t[m])
        <5>1. Head(s) \in Seq(S) /\ h[m - 1] \in Seq(S) /\ t[m] \in Seq(S)
          BY <1>1, <3>2, <4>2
        <5>2. Cat(Cat(Head(s), h[m - 1]), t[m]) = Cat(Head(s), Cat(h[m - 1], t[m]))
          BY <5>1, ThreeInARow
        <5> QED
          BY <5>2 DEF Cat
      <4>5. g[m + 1] = Head(s) \o h[m]
        BY <3>1, <4>2, <4>3, <4>4
      <4> QED
        BY <3>0, <4>5
    <3> QED
      BY <3>3, <3>4
  <2>4. n \in shifted
    <3> HIDE DEF shifted
    <3> QED
      BY <1>1, <2>2, <2>3, UpTo
  <2>5. n \in 1 .. n
    BY <1>1, <1>4
  <2>6. g[n + 1] = Head(s) \o h[n]
    BY <1>1, <2>4, <2>5
  <2> QED
    BY <1>2, <2>1, <2>6 DEF t
<1> QED
  BY <1>3, <1>4

EachSays(urls) == [i \in DOMAIN urls |-> Says(urls[i])]

LEMMA EachSaysType ==
    ASSUME NEW urls \in Seq(Urls)
    PROVE  /\ EachSays(urls) \in Seq(Seq(Request)) /\ Len(EachSays(urls)) = Len(urls)
           /\ \A i \in 1 .. Len(urls) : EachSays(urls)[i] = Says(urls[i])
<1> DEFINE T == Seq(Request)
<1>1. /\ DOMAIN urls = 1 .. Len(urls) /\ Len(urls) \in Nat
      /\ \A i \in 1 .. Len(urls) : urls[i] \in Url
  BY UrlsAssumption
<1>2. \A i \in 1 .. Len(urls) : Says(urls[i]) \in T
  BY <1>1, ParseIsSays
<1> HIDE DEF T
<1>3. EachSays(urls) \in Seq(T) /\ Len(EachSays(urls)) = Len(urls)
      /\ \A i \in 1 .. Len(urls) : EachSays(urls)[i] = Says(urls[i])
  BY <1>1, <1>2 DEF EachSays
<1> QED
  BY <1>3 DEF T

LEMMA MeaningAppend ==
    ASSUME NEW urls \in Seq(Urls), NEW url \in Urls
    PROVE  /\ Meaning(Append(urls, url)) = Meaning(urls) \o Says(url)
           /\ Meaning(urls) \in Seq(Request)
<1>1. Says(url) \in Seq(Request)
  BY ParseIsSays, UrlsAssumption
<1> DEFINE T == Seq(Request)
           more == Append(urls, url)
<1>2. /\ more \in Seq(Urls) /\ Len(more) = Len(urls) + 1 /\ Len(urls) \in Nat
      /\ \A i \in 1 .. Len(urls) : more[i] = urls[i]
      /\ more[Len(urls) + 1] = url
  OBVIOUS
<1> HIDE DEF T, more
<1>3. /\ EachSays(urls) \in Seq(T) /\ Len(EachSays(urls)) = Len(urls)
      /\ \A i \in 1 .. Len(urls) : EachSays(urls)[i] = Says(urls[i])
  BY EachSaysType DEF T
<1>4. /\ EachSays(more) \in Seq(T) /\ Len(EachSays(more)) = Len(urls) + 1
      /\ \A i \in 1 .. Len(urls) + 1 : EachSays(more)[i] = Says(more[i])
  BY <1>2, EachSaysType DEF T
<1>5. EachSays(more) = Append(EachSays(urls), Says(url))
  BY <1>1, <1>2, <1>3, <1>4 DEF T
<1>6. /\ FlattenSeq(Append(EachSays(urls), Says(url))) = FlattenSeq(EachSays(urls)) \o Says(url)
      /\ FlattenSeq(EachSays(urls)) \in Seq(Request)
  BY <1>1, <1>3, FlattenAppend DEF T
<1>7. \A s : Meaning(s) = FlattenSeq(EachSays(s))
  BY Zenon DEF Meaning, EachSays
<1> QED
  BY <1>5, <1>6, <1>7 DEF more

LEMMA MeaningNone == Meaning(<<>>) = <<>>
<1>1. EachSays(<<>>) = <<>>
  BY DEF EachSays
<1>2. FlattenSeq(<<>>) = <<>>
  BY DEF FlattenSeq
<1> QED
  BY <1>1, <1>2, Zenon DEF Meaning, EachSays

LEMMA MeaningTail ==
    ASSUME NEW urls \in Seq(Urls), urls # <<>>
    PROVE  Meaning(urls) = Says(Head(urls)) \o Meaning(Tail(urls))
<1> DEFINE T == Seq(Request)
           less == Tail(urls)
<1>1. /\ less \in Seq(Urls) /\ Len(urls) = Len(less) + 1 /\ Len(less) \in Nat
      /\ \A i \in 1 .. Len(less) : less[i] = urls[i + 1]
      /\ Head(urls) = urls[1]
  OBVIOUS
<1> HIDE DEF T, less
<1>2. /\ EachSays(urls) \in Seq(T) /\ Len(EachSays(urls)) = Len(less) + 1
      /\ \A i \in 1 .. Len(less) + 1 : EachSays(urls)[i] = Says(urls[i])
  BY <1>1, EachSaysType DEF T
<1>3. /\ EachSays(less) \in Seq(T) /\ Len(EachSays(less)) = Len(less)
      /\ \A i \in 1 .. Len(less) : EachSays(less)[i] = Says(less[i])
  BY <1>1, EachSaysType DEF T
<1>4. EachSays(urls) # <<>> /\ Head(EachSays(urls)) = Says(Head(urls))
  BY <1>1, <1>2
<1>5. Tail(EachSays(urls)) = EachSays(less)
  BY <1>1, <1>2, <1>3
<1>6. FlattenSeq(EachSays(urls)) =
        Head(EachSays(urls)) \o FlattenSeq(Tail(EachSays(urls)))
  BY <1>2, <1>4, FlattenTail DEF T
<1>7. \A s : Meaning(s) = FlattenSeq(EachSays(s))
  BY Zenon DEF Meaning, EachSays
<1> QED
  BY <1>4, <1>5, <1>6, <1>7 DEF less

-----------------------------------------------------------------------------
(* Delivery *)

LEMMA DeliveryOfLifecycle == DeliverySpec => Spec
<1>1. DeliveryInit => Init
  BY DEF DeliveryInit
<1>2. [DeliveryNext]_deliveryVars => [Next]_vars
  BY DEF DeliveryNext, deliveryVars, Elsewhere, Open, MainThread, Install, CocoaStarts, Dispatch,
     HandleSpeak
<1> QED
  BY <1>1, <1>2, PTL DEF DeliverySpec, Spec

LEMMA DeliveryStep ==
    ASSUME DeliveryInv, [DeliveryNext]_deliveryVars PROVE DeliveryInv'
<1> USE DEF DeliveryInv, UrlsArriveInOrder
<1>1. Meaning(pending) \in Seq(Request)
  <2>1. CASE pending = <<>>
    <3>1. <<>> \in Seq(Request)
      OBVIOUS
    <3>2. Meaning(pending) = <<>>
      BY <2>1, MeaningNone
    <3> QED
      BY <3>1, <3>2
  <2>2. CASE pending # <<>>
    BY <2>2, MeaningAppend
  <2> QED
    BY <2>1, <2>2
<1>2. ASSUME NEW url \in Urls, Open(url) PROVE DeliveryInv'
  <2>1. Says(url) \in Seq(Request) /\ Meaning(pending') = Meaning(pending) \o Says(url)
    BY <1>2, ParseIsSays, UrlsAssumption, MeaningAppend DEF Open
  <2>2. (mailbox \o Meaning(pending)) \o Says(url) = mailbox \o (Meaning(pending) \o Says(url))
    <3>1. Cat(Cat(mailbox, Meaning(pending)), Says(url)) =
            Cat(mailbox, Cat(Meaning(pending), Says(url)))
      BY <1>1, <2>1, ThreeInARow
    <3> QED
      BY <3>1 DEF Cat
  <2> QED
    BY <1>2, <2>1, <2>2 DEF Open, setupVars
<1>3. CASE Install
  BY <1>3 DEF Install
<1>4. CASE CocoaStarts
  BY <1>4 DEF CocoaStarts, Observe
<1>5. CASE Dispatch
  <2>1. /\ pending # <<>> /\ registered /\ pending' = Tail(pending)
        /\ mailbox' = mailbox \o Parse(Head(pending))
        /\ UNCHANGED <<setupVars, owed>>
    BY <1>5 DEF Dispatch
  <2>2. Head(pending) \in Urls /\ Tail(pending) \in Seq(Urls)
    BY <2>1
  <2>3. Parse(Head(pending)) = Says(Head(pending)) /\ Says(Head(pending)) \in Seq(Request)
    BY <2>2, ParseIsSays, UrlsAssumption
  <2>4. /\ Meaning(pending) = Says(Head(pending)) \o Meaning(Tail(pending))
        /\ Meaning(Tail(pending)) \in Seq(Request)
    BY <2>1, <2>2, MeaningTail, MeaningAppend
  <2>5. (mailbox \o Says(Head(pending))) \o Meaning(Tail(pending)) =
          mailbox \o (Says(Head(pending)) \o Meaning(Tail(pending)))
    <3>1. Cat(Cat(mailbox, Says(Head(pending))), Meaning(Tail(pending))) =
            Cat(mailbox, Cat(Says(Head(pending)), Meaning(Tail(pending))))
      BY <2>3, <2>4, ThreeInARow
    <3> QED
      BY <3>1 DEF Cat
  <2>6. mailbox' \in Seq(Request)
    BY <2>1, <2>3, ConcatProperties
  <2> QED
    BY <2>1, <2>2, <2>3, <2>4, <2>5, <2>6 DEF setupVars
<1>6. CASE HandleSpeak
  <2> DEFINE M == Meaning(pending)
  <2>1. /\ mailbox # <<>> /\ mailbox' = Tail(mailbox) /\ owed' = Tail(mailbox \o M)
        /\ UNCHANGED <<setupVars, pending>>
    BY <1>6 DEF HandleSpeak
  <2> HIDE DEF M
  <2>2. Tail(mailbox \o M) = Tail(mailbox) \o M /\ Tail(mailbox) \in Seq(Request)
    BY <1>1, <2>1 DEF M
  <2> QED
    BY <2>1, <2>2 DEF setupVars, M
<1>7. CASE UNCHANGED urlVars
  BY <1>7 DEF urlVars, setupVars
<1> QED
  BY <1>2, <1>3, <1>4, <1>5, <1>6, <1>7 DEF DeliveryNext, MainThread, Elsewhere, deliveryVars

\* No request of a URL is dropped or overtaken between the click and the engine,
\* and each is what its URL says, however the program starts and ends around it.
THEOREM UrlsInOrder == DeliverySpec => []UrlsArriveInOrder
<1>1. DeliveryInit => DeliveryInv
  BY MeaningNone DEF DeliveryInit, DeliveryInv, UrlsArriveInOrder
<1>2. DeliveryInv => UrlsArriveInOrder
  BY DEF DeliveryInv
<1> QED
  BY <1>1, <1>2, DeliveryStep, PTL DEF DeliverySpec
=============================================================================
