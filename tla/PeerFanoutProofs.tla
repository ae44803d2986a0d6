-------------------------- MODULE PeerFanoutProofs ---------------------------
(***************************************************************************)
(* Registered peers miss no event for another's sake, hear what they hear  *)
(* in order, and leave the registry only when they are gone or pushed out, *)
(* for any number of sessions, places and events, and any lag.             *)
(***************************************************************************)
EXTENDS PeerFanout, FiniteSetTheorems, TLAPS

USE DEF clientVars, forwarderVars, heardVars

-----------------------------------------------------------------------------
(* Lists *)

\* Going up from zero one by one reaches every number.
LEMMA UpTo ==
    ASSUME NEW good, NEW n \in Nat, 0 \in good, \A m \in 1 .. n : m - 1 \in good => m \in good
    PROVE  n \in good
<1> SUFFICES ASSUME n \notin good PROVE FALSE
  OBVIOUS
<1> DEFINE bad == {m \in 0 .. n : m \notin good}
<1>1. bad \subseteq Nat /\ bad # {}
  OBVIOUS
<1>2. PICK x \in bad : \A y \in bad : ~(<<y, x>> \in OpToRel(<, Nat))
  BY <1>1, NatLessThanWellFounded, WFMin, Zenon
<1>3. ASSUME NEW y \in bad PROVE x <= y
  <2>1. <<y, x>> \in Nat \X Nat /\ ~(<<y, x>> \in OpToRel(<, Nat))
    BY <1>1, <1>2, <1>3, Zenon
  <2>2. ~(<<y, x>>[1] < <<y, x>>[2])
    BY <2>1, Zenon DEF OpToRel
  <2> QED
    BY <1>1, <2>2
<1>4. x \in 1 .. n /\ x - 1 \in 0 .. n
  OBVIOUS
<1>5. x - 1 \notin bad
  BY <1>3, <1>4
<1> QED
  BY <1>4, <1>5

LEMMA RangeAppend ==
    ASSUME NEW S, NEW list \in Seq(S), NEW e \in S, NEW x
    PROVE  x \in Range(Append(list, e)) <=> x \in Range(list) \/ x = e
<1> DEFINE n == Len(list) + 1
<1>1. /\ DOMAIN list = 1 .. Len(list) /\ Len(list) \in Nat
      /\ DOMAIN Append(list, e) = 1 .. n
      /\ \A i \in 1 .. Len(list) : Append(list, e)[i] = list[i]
      /\ Append(list, e)[n] = e
  OBVIOUS
<1>2. n \in 1 .. n /\ \A i \in 1 .. n : i \in 1 .. Len(list) \/ i = n
  BY <1>1
<1>3. \A i \in 1 .. Len(list) : i \in 1 .. n
  BY <1>1
<1> HIDE DEF n
<1> QED
  BY <1>1, <1>2, <1>3, Zenon DEF Range

LEMMA RangeTail ==
    ASSUME NEW S, NEW list \in Seq(S), list # <<>>, NEW x
    PROVE  x \in Range(list) <=> x \in Range(Tail(list)) \/ x = Head(list)
<1>1. /\ Len(list) \in Nat \ {0} /\ Head(list) = list[1]
      /\ DOMAIN list = 1 .. Len(list) /\ DOMAIN Tail(list) = 1 .. Len(list) - 1
      /\ \A i \in 1 .. Len(list) - 1 : Tail(list)[i] = list[i + 1]
  OBVIOUS
<1>2. 1 \in DOMAIN list
      /\ \A i \in DOMAIN Tail(list) : i + 1 \in DOMAIN list /\ Tail(list)[i] = list[i + 1]
  BY <1>1
<1>3. ASSUME NEW i \in DOMAIN list
      PROVE  i = 1 \/ \E k \in DOMAIN Tail(list) : Tail(list)[k] = list[i]
  <2>1. i # 1 => i - 1 \in DOMAIN Tail(list) /\ Tail(list)[i - 1] = list[i]
    BY <1>1
  <2> QED
    BY <2>1
<1>4. ASSUME x \in Range(list) PROVE x \in Range(Tail(list)) \/ x = Head(list)
  <2>1. PICK i \in DOMAIN list : list[i] = x
    BY <1>4, Zenon DEF Range
  <2>2. CASE i = 1
    BY <1>1, <2>1, <2>2
  <2>3. CASE i # 1
    <3>1. PICK k \in DOMAIN Tail(list) : Tail(list)[k] = list[i]
      BY <1>3, <2>3, Zenon
    <3> QED
      BY <2>1, <3>1, Zenon DEF Range
  <2> QED
    BY <2>2, <2>3
<1>5. ASSUME x \in Range(Tail(list)) PROVE x \in Range(list)
  BY <1>2, <1>5, Zenon DEF Range
<1>6. Head(list) \in Range(list)
  BY <1>1, <1>2, Zenon DEF Range
<1> QED
  BY <1>4, <1>5, <1>6

LEMMA CountType ==
    ASSUME NEW S, NEW list \in Seq(S), NEW x
    PROVE  /\ Count(list, x) \in Nat
           /\ IsFiniteSet({i \in DOMAIN list : list[i] = x})
<1>1. DOMAIN list = 1 .. Len(list) /\ Len(list) \in Nat
  OBVIOUS
<1>2. IsFiniteSet(1 .. Len(list))
  BY <1>1, FS_Interval
<1>3. IsFiniteSet({i \in DOMAIN list : list[i] = x})
  BY <1>1, <1>2, FS_Subset
<1> QED
  BY <1>3, FS_CardinalityType DEF Count

LEMMA CountAppend ==
    ASSUME NEW S, NEW list \in Seq(S), NEW e \in S, NEW x
    PROVE  Count(Append(list, e), x) = Count(list, x) + IF e = x THEN 1 ELSE 0
<1> DEFINE places(l) == {i \in DOMAIN l : l[i] = x}
           n == Len(list) + 1
<1>1. /\ DOMAIN list = 1 .. Len(list) /\ Len(list) \in Nat
      /\ DOMAIN Append(list, e) = 1 .. n
      /\ \A i \in 1 .. Len(list) : Append(list, e)[i] = list[i]
      /\ Append(list, e)[n] = e
  OBVIOUS
<1>2. \A i \in 1 .. n : i \in 1 .. Len(list) \/ i = n
  BY <1>1
<1>3. n \notin DOMAIN list /\ \A i \in 1 .. Len(list) : i \in 1 .. n
  BY <1>1
<1>4. n \in 1 .. n
  BY <1>1
<1>5. /\ Count(list, x) = Cardinality(places(list)) /\ IsFiniteSet(places(list))
      /\ Count(Append(list, e), x) = Cardinality(places(Append(list, e)))
      /\ Cardinality(places(list)) \in Nat /\ n \notin places(list)
  BY <1>3, CountType DEF Count
<1>6. CASE e = x
  <2>1. places(Append(list, e)) = places(list) \cup {n}
    BY <1>1, <1>2, <1>3, <1>4, <1>6, Zenon
  <2> HIDE DEF places, n
  <2>2. Cardinality(places(list) \cup {n}) = Cardinality(places(list)) + 1
    BY <1>5, FS_AddElement
  <2> QED
    BY <1>5, <1>6, <2>1, <2>2
<1>7. CASE e # x
  <2>1. places(Append(list, e)) = places(list)
    BY <1>1, <1>2, <1>3, <1>4, <1>7, Zenon
  <2> HIDE DEF places, n
  <2> QED
    BY <1>5, <1>7, <2>1
<1> QED
  BY <1>6, <1>7

LEMMA CountSame ==
    ASSUME NEW S, NEW list \in Seq(S) PROVE \A x : Count(list, x) <= Count(list, x)
<1> TAKE x
<1>1. Count(list, x) \in Nat
  BY CountType
<1> HIDE DEF Count
<1> QED
  BY <1>1

\* A stretch of a list has no more of anything.
LEMMA CountStretch ==
    ASSUME NEW S, NEW list \in Seq(S), NEW short \in Seq(S), NEW k \in Nat, NEW x,
           \A i \in DOMAIN short : i + k \in DOMAIN list /\ short[i] = list[i + k]
    PROVE  Count(short, x) <= Count(list, x)
<1> DEFINE here == {i \in DOMAIN short : short[i] = x}
           there == {i \in DOMAIN list : list[i] = x}
           f == [i \in here |-> i + k]
<1>1. here \subseteq Int
  OBVIOUS
<1>2. f \in Injection(here, there)
  <2>1. f \in [here -> there]
    OBVIOUS
  <2>2. IsInjective(f)
    BY <1>1 DEF IsInjective
  <2> QED
    BY <2>1, <2>2 DEF Injection
<1>3. IsFiniteSet(there)
  BY CountType
<1>4. Cardinality(here) <= Cardinality(there)
  BY <1>2, <1>3, FS_Injection
<1> QED
  BY <1>4 DEF Count

\* Taking the head of a list takes one place of what it holds.
LEMMA CountTail ==
    ASSUME NEW S, NEW list \in Seq(S), list # <<>>, NEW x
    PROVE  Count(Tail(list), x) + (IF Head(list) = x THEN 1 ELSE 0) <= Count(list, x)
<1> DEFINE here == {i \in DOMAIN Tail(list) : Tail(list)[i] = x}
           there == {i \in DOMAIN list : list[i] = x}
           f == [i \in here |-> i + 1]
<1>1. /\ Tail(list) \in Seq(S) /\ Len(list) \in Nat \ {0} /\ Head(list) = list[1]
      /\ DOMAIN list = 1 .. Len(list) /\ DOMAIN Tail(list) = 1 .. Len(list) - 1
      /\ \A i \in 1 .. Len(list) - 1 : Tail(list)[i] = list[i + 1]
  OBVIOUS
<1>2. here \subseteq Nat \ {0} /\ \A i \in here : i + 1 \in there \ {1}
  BY <1>1
<1>3. f \in Injection(here, there \ {1})
  <2>1. f \in [here -> there \ {1}]
    BY <1>2
  <2>2. IsInjective(f)
    BY <1>2 DEF IsInjective
  <2> QED
    BY <2>1, <2>2 DEF Injection
<1>4. IsFiniteSet(there) /\ Cardinality(there) \in Nat
  BY CountType, FS_CardinalityType
<1>5. IsFiniteSet(there \ {1})
      /\ Cardinality(there \ {1}) = IF 1 \in there THEN Cardinality(there) - 1 ELSE Cardinality(there)
  BY <1>4, FS_RemoveElement
<1>6. Head(list) = x <=> 1 \in there
  BY <1>1
<1>7. Cardinality(here) \in Nat
  BY <1>1, CountType DEF Count
<1> HIDE DEF here, there, f
<1>8. Cardinality(here) <= Cardinality(there \ {1})
  BY <1>3, <1>5, FS_Injection
<1>9. Cardinality(here) + (IF Head(list) = x THEN 1 ELSE 0) <= Cardinality(there)
  BY <1>4, <1>5, <1>6, <1>7, <1>8
<1> QED
  BY <1>9 DEF Count, here, there

-----------------------------------------------------------------------------
(* The registry: what retain and the cap do to a list of peers *)

\* The scan of Open exists: one step of it extends it by one place.
Scan(list, g, n) ==
    IF n = 0 THEN <<>>
    ELSE IF life[list[n]] = "closed" THEN g[n - 1]
    ELSE Append(g[n - 1], list[n])

IsScan(list, m, g) == g = [n \in 0 .. m |-> Scan(list, g, n)]

LEMMA ScanExists ==
    ASSUME NEW list \in Seq(Clients) PROVE \E g : IsScan(list, Len(list), g)
<1> DEFINE good == {m \in Nat : m <= Len(list) => \E g : IsScan(list, m, g)}
<1>0. Len(list) \in Nat /\ \A n \in 1 .. Len(list) : list[n] \in Clients
  OBVIOUS
<1>1. 0 \in good
  <2> DEFINE g == [n \in 0 .. 0 |-> <<>>]
  <2>1. IsScan(list, 0, g)
    BY DEF IsScan, Scan
  <2> QED
    BY <2>1
<1>2. ASSUME NEW m \in 1 .. Len(list), m - 1 \in good PROVE m \in good
  <2>1. PICK g : IsScan(list, m - 1, g)
    BY <1>0, <1>2
  <2> DEFINE h == [n \in 0 .. m |-> IF n = m THEN Scan(list, g, m) ELSE g[n]]
  <2>2. \A n \in 0 .. m : n # 0 => h[n - 1] = g[n - 1]
    OBVIOUS
  <2>3. \A n \in 0 .. m - 1 : g[n] = Scan(list, g, n)
    BY <2>1 DEF IsScan
  <2>4. \A n \in 0 .. m : h[n] = Scan(list, h, n)
    <3> TAKE n \in 0 .. m
    <3>1. Scan(list, h, n) = Scan(list, g, n)
      BY <2>2 DEF Scan
    <3>2. h[n] = Scan(list, g, n)
      BY <2>3
    <3> QED
      BY <3>1, <3>2
  <2>5. h = [n \in 0 .. m |-> h[n]]
    OBVIOUS
  <2>6. IsScan(list, m, h)
    <3> HIDE DEF h
    <3> QED
      BY <2>4, <2>5 DEF IsScan
  <2> QED
    BY <1>0, <2>6
<1>3. Len(list) \in good
  <2> HIDE DEF good
  <2> QED
    BY <1>0, <1>1, <1>2, UpTo
<1> QED
  BY <1>0, <1>3

\* Open is the last step of its scan.
LEMMA OpenIsScan ==
    ASSUME NEW list \in Seq(Clients)
    PROVE  \E g : IsScan(list, Len(list), g) /\ Open(list) = g[Len(list)]
<1> DEFINE k == CHOOSE f : f = [n \in 0 .. Len(list) |->
                   IF n = 0 THEN <<>>
                   ELSE IF life[list[n]] = "closed" THEN f[n - 1]
                   ELSE Append(f[n - 1], list[n])]
<1>1. PICK g : IsScan(list, Len(list), g)
  BY ScanExists
<1>2. g = [n \in 0 .. Len(list) |->
              IF n = 0 THEN <<>>
              ELSE IF life[list[n]] = "closed" THEN g[n - 1]
              ELSE Append(g[n - 1], list[n])]
  BY <1>1 DEF IsScan, Scan
<1>3. k = [n \in 0 .. Len(list) |->
              IF n = 0 THEN <<>>
              ELSE IF life[list[n]] = "closed" THEN k[n - 1]
              ELSE Append(k[n - 1], list[n])]
  BY <1>2, Zenon
<1>4. Open(list) = k[Len(list)]
  BY Zenon DEF Open
<1> HIDE DEF k
<1>5. IsScan(list, Len(list), k)
  BY <1>3 DEF IsScan, Scan
<1> QED
  BY <1>4, <1>5

\* Of a list of peers exactly the closed ones go, and no peer gains a place.
LEMMA OpenFacts ==
    ASSUME NEW list \in Seq(Clients)
    PROVE  /\ Open(list) \in Seq(Clients) /\ Len(Open(list)) <= Len(list)
           /\ \A x \in Clients :
                x \in Range(Open(list)) <=> x \in Range(list) /\ life[x] # "closed"
           /\ \A x \in Clients : Count(Open(list), x) <= Count(list, x)
<1>1. PICK g : IsScan(list, Len(list), g) /\ Open(list) = g[Len(list)]
  BY OpenIsScan
<1>2. \A n \in 0 .. Len(list) : g[n] = Scan(list, g, n)
  BY <1>1 DEF IsScan
<1> DEFINE before(n) == SubSeq(list, 1, n)
           Kept(n) ==
               /\ g[n] \in Seq(Clients) /\ Len(g[n]) <= n
               /\ \A x \in Clients :
                    x \in Range(g[n]) <=> x \in Range(before(n)) /\ life[x] # "closed"
               /\ \A x \in Clients : Count(g[n], x) <= Count(before(n), x)
           good == {m \in Nat : m <= Len(list) => Kept(m)}
<1>3. Len(list) \in Nat
  OBVIOUS
<1>4. 0 \in good
  <2>1. g[0] = <<>> /\ before(0) = <<>>
    BY <1>2, <1>3 DEF Scan
  <2>2. Range(<<>>) = {}
    BY DEF Range
  <2>3. <<>> \in Seq(Clients) /\ Len(<<>>) <= 0
    OBVIOUS
  <2>4. \A x : Count(<<>>, x) <= Count(<<>>, x)
    BY <2>3, CountSame
  <2>5. Kept(0)
    <3> HIDE DEF before
    <3> QED
      BY <2>1, <2>2, <2>3, <2>4
  <2> HIDE DEF Kept
  <2> QED
    BY <2>5
<1>5. ASSUME NEW m \in 1 .. Len(list), m - 1 \in good PROVE m \in good
  <2> DEFINE e == list[m]
  <2>1. Kept(m - 1)
    BY <1>3, <1>5
  <2>2. e \in Clients /\ m - 1 \in Nat /\ m \in Nat
    OBVIOUS
  <2>3. before(m - 1) \in Seq(Clients) /\ before(m) = Append(before(m - 1), e)
    OBVIOUS
  <2>4. g[m] = IF life[e] = "closed" THEN g[m - 1] ELSE Append(g[m - 1], e)
    BY <1>2 DEF Scan
  <2>5. \A x : x \in Range(before(m)) <=> x \in Range(before(m - 1)) \/ x = e
    <3> HIDE DEF before, e
    <3> QED
      BY <2>2, <2>3, RangeAppend
  <2>6. \A x : /\ Count(before(m), x) = Count(before(m - 1), x) + (IF e = x THEN 1 ELSE 0)
               /\ Count(before(m - 1), x) \in Nat
    <3> HIDE DEF before, e
    <3> TAKE x
    <3>1. Count(before(m - 1), x) \in Nat
      BY <2>3, CountType
    <3>2. Count(Append(before(m - 1), e), x) = Count(before(m - 1), x) + (IF e = x THEN 1 ELSE 0)
      BY <2>2, <2>3, CountAppend
    <3> QED
      BY <2>3, <3>1, <3>2
  <2>7. /\ g[m - 1] \in Seq(Clients) /\ Len(g[m - 1]) <= m - 1
        /\ \A x \in Clients :
             x \in Range(g[m - 1]) <=> x \in Range(before(m - 1)) /\ life[x] # "closed"
        /\ \A x \in Clients : Count(g[m - 1], x) <= Count(before(m - 1), x)
    BY <2>1
  <2>8. \A x \in Clients : Count(g[m - 1], x) \in Nat
    BY <2>7, CountType
  <2>9. Kept(m)
    <3>1. CASE life[e] = "closed"
      <4>1. g[m] = g[m - 1] /\ Len(g[m - 1]) \in Nat
        BY <2>4, <2>7, <3>1
      <4> HIDE DEF before, e
      <4>2. g[m] \in Seq(Clients) /\ Len(g[m]) <= m
        BY <2>2, <2>7, <4>1
      <4>3. \A x \in Clients : x \in Range(g[m]) <=> x \in Range(before(m)) /\ life[x] # "closed"
        BY <2>5, <2>7, <3>1, <4>1, Zenon
      <4>4. \A x \in Clients : Count(g[m], x) <= Count(before(m), x)
        <5> TAKE x \in Clients
        <5>1. Count(g[m - 1], x) <= Count(before(m - 1), x)
          BY <2>7
        <5> QED
          BY <2>6, <2>8, <4>1, <5>1
      <4> QED
        BY <4>2, <4>3, <4>4
    <3>2. CASE life[e] # "closed"
      <4>1. g[m] = Append(g[m - 1], e)
        BY <2>4, <3>2
      <4>2. g[m] \in Seq(Clients) /\ Len(g[m]) <= m
        BY <2>2, <2>7, <4>1
      <4> HIDE DEF before, e
      <4>3. \A x : x \in Range(g[m]) <=> x \in Range(g[m - 1]) \/ x = e
        BY <2>2, <2>7, <4>1, RangeAppend
      <4>4. \A x : Count(g[m], x) = Count(g[m - 1], x) + (IF e = x THEN 1 ELSE 0)
        BY <2>2, <2>7, <4>1, CountAppend
      <4>5. \A x \in Clients : Count(g[m], x) <= Count(before(m), x)
        <5> TAKE x \in Clients
        <5>1. Count(g[m - 1], x) <= Count(before(m - 1), x) /\ Count(g[m - 1], x) \in Nat
          BY <2>7, <2>8
        <5>2. Count(g[m], x) = Count(g[m - 1], x) + (IF e = x THEN 1 ELSE 0)
          BY <4>4
        <5>3. /\ Count(before(m), x) = Count(before(m - 1), x) + (IF e = x THEN 1 ELSE 0)
              /\ Count(before(m - 1), x) \in Nat
          BY <2>6
        <5> HIDE DEF Count
        <5> QED
          BY <5>1, <5>2, <5>3
      <4>6. \A x \in Clients : x \in Range(g[m]) <=> x \in Range(before(m)) /\ life[x] # "closed"
        BY <2>5, <2>7, <3>2, <4>3
      <4> QED
        BY <4>2, <4>5, <4>6
    <3> QED
      BY <3>1, <3>2
  <2> HIDE DEF Kept
  <2> QED
    BY <2>2, <2>9
<1>6. Len(list) \in good
  <2> HIDE DEF good
  <2> QED
    BY <1>3, <1>4, <1>5, UpTo
<1>7. before(Len(list)) = list
  OBVIOUS
<1>8. Kept(Len(list))
  <2> HIDE DEF Kept
  <2> QED
    BY <1>3, <1>6
<1> HIDE DEF before
<1> QED
  BY <1>1, <1>7, <1>8

\* The cap keeps the end of a list.
LEMMA NewestFacts ==
    ASSUME NEW list \in Seq(Clients)
    PROVE  /\ Newest(list) \in Seq(Clients) /\ Len(Newest(list)) <= Cap
           /\ IF Len(list) <= Cap THEN Newest(list) = list ELSE Len(Newest(list)) = Cap
           /\ \A i \in DOMAIN Newest(list) : Newest(list)[i] \in Range(list)
           /\ list # <<>> => list[Len(list)] \in Range(Newest(list))
           /\ \A x : Count(Newest(list), x) <= Count(list, x)
<1>0. Cap \in Nat \ {0} /\ Len(list) \in Nat /\ DOMAIN list = 1 .. Len(list)
  BY CapAssumption
<1>1. CASE Len(list) <= Cap
  <2>1. Newest(list) = list
    BY <1>0, <1>1 DEF Newest
  <2>2. \A x : Count(list, x) <= Count(list, x)
    BY CountSame
  <2>3. list # <<>> => Len(list) \in DOMAIN list
    BY <1>0
  <2> QED
    BY <1>0, <1>1, <2>1, <2>2, <2>3 DEF Range
<1>2. CASE Len(list) > Cap
  <2> DEFINE k == Len(list) - Cap
             new == Newest(list)
  <2>1. k \in Nat /\ new = SubSeq(list, k + 1, Len(list))
    BY <1>0, <1>2 DEF Newest
  <2>2. /\ new \in Seq(Clients) /\ Len(new) = Cap /\ DOMAIN new = 1 .. Cap
        /\ \A i \in 1 .. Cap : i + k \in DOMAIN list /\ new[i] = list[i + k]
    BY <1>0, <1>2, <2>1
  <2>3. Cap \in DOMAIN new /\ Cap + k = Len(list)
    BY <1>0, <2>2
  <2> HIDE DEF k, new
  <2>4. \A x : Count(new, x) <= Count(list, x)
    BY <2>1, <2>2, CountStretch
  <2>5. list[Len(list)] \in Range(new)
    BY <2>2, <2>3 DEF Range
  <2>6. \A i \in DOMAIN new : new[i] \in Range(list)
    BY <2>2 DEF Range
  <2> QED
    BY <1>0, <1>2, <2>2, <2>4, <2>5, <2>6 DEF new
<1> QED
  BY <1>0, <1>1, <1>2

\* What a session that initializes does to the registry.
LEMMA RegisterFacts ==
    ASSUME TypeOK, NEW c \in Clients
    PROVE  /\ Register(c) \in Seq(Clients) /\ Len(Register(c)) <= Cap
           /\ \A x \in Range(Register(c)) : x \in Clients
           /\ \A x \in Clients :
                x \in Range(Register(c)) => x = c \/ (Registered(x) /\ life[x] # "closed")
           /\ \A x \in Clients :
                Count(Register(c), x) <= Count(peers, x) + (IF c = x THEN 1 ELSE 0)
           /\ \/ Len(Register(c)) = Cap
              \/ \A x \in Clients :
                    Registered(x) /\ life[x] # "closed" => x \in Range(Register(c))
<1> DEFINE stay == Open(peers)
           all == Append(stay, c)
<1>1. /\ stay \in Seq(Clients)
      /\ \A x \in Clients : x \in Range(stay) <=> Registered(x) /\ life[x] # "closed"
      /\ \A x \in Clients : Count(stay, x) <= Count(peers, x)
  BY OpenFacts DEF TypeOK, Registered
<1>2. Register(c) = Newest(all)
  BY DEF Register
<1> HIDE DEF stay
<1>3. all \in Seq(Clients)
  BY <1>1
<1>4. \A x : x \in Range(all) <=> x \in Range(stay) \/ x = c
  BY <1>1, RangeAppend
<1>5. \A x : Count(all, x) = Count(stay, x) + (IF c = x THEN 1 ELSE 0)
  BY <1>1, CountAppend
<1> HIDE DEF all
<1>6. /\ Newest(all) \in Seq(Clients) /\ Len(Newest(all)) <= Cap
      /\ IF Len(all) <= Cap THEN Newest(all) = all ELSE Len(Newest(all)) = Cap
      /\ \A i \in DOMAIN Newest(all) : Newest(all)[i] \in Range(all)
      /\ \A x : Count(Newest(all), x) <= Count(all, x)
  BY <1>3, NewestFacts
<1>7. \A x \in Range(Newest(all)) : x \in Range(all)
  BY <1>6, Zenon DEF Range
<1>8. \A x \in Range(Register(c)) : x \in Clients
  <2>1. \A i \in DOMAIN Register(c) : Register(c)[i] \in Clients
    BY <1>2, <1>6
  <2> QED
    BY <2>1, Zenon DEF Range
<1>9. \A x \in Clients : Count(Register(c), x) <= Count(peers, x) + (IF c = x THEN 1 ELSE 0)
  <2> TAKE x \in Clients
  <2>1. Count(Newest(all), x) \in Nat /\ Count(all, x) \in Nat /\ Count(stay, x) \in Nat
        /\ Count(peers, x) \in Nat
    BY <1>1, <1>3, <1>6, CountType DEF TypeOK
  <2>2. /\ Count(Newest(all), x) <= Count(all, x) /\ Count(stay, x) <= Count(peers, x)
        /\ Count(all, x) = Count(stay, x) + (IF c = x THEN 1 ELSE 0)
    BY <1>1, <1>5, <1>6
  <2> HIDE DEF Count
  <2> QED
    BY <1>2, <2>1, <2>2
<1>10. \/ Len(Newest(all)) = Cap
       \/ \A x \in Clients : Registered(x) /\ life[x] # "closed" => x \in Range(Newest(all))
  BY <1>1, <1>4, <1>6, Zenon
<1>11. \A x \in Clients :
         x \in Range(Newest(all)) => x = c \/ (Registered(x) /\ life[x] # "closed")
  BY <1>1, <1>4, <1>7, Zenon
<1> QED
  BY <1>2, <1>6, <1>8, <1>9, <1>10, <1>11

-----------------------------------------------------------------------------
(* Types *)

LEMMA TypeStep ==
    ASSUME TypeOK, RoundInv, [Next]_vars PROVE TypeOK' /\ RoundInv'
<1> USE CapAssumption, BoundAssumption DEF TypeOK, RoundInv, Numbers
<1>1. ASSUME NEW c \in Clients, Initialize(c) PROVE TypeOK' /\ RoundInv'
  <2>1. Register(c) \in Seq(Clients) /\ Len(Register(c)) <= Cap
    BY RegisterFacts
  <2>2. /\ life' = [life EXCEPT ![c] = "open"]
        /\ inits' = [inits EXCEPT ![c] = @ + 1]
        /\ since' = IF Registered(c) THEN since ELSE [since EXCEPT ![c] = sent]
        /\ peers' = Register(c)
        /\ UNCHANGED <<sent, forwarderVars, heardVars>>
    BY <1>1 DEF Initialize
  <2>3. life' \in [Clients -> {"new", "open", "closed"}]
    BY <2>2
  <2>4. inits' \in [Clients -> Nat]
    BY <2>2
  <2>5. since' \in [Clients -> 0 .. sent]
    BY <2>2
  <2>6. peers' \in Seq(Clients) /\ Len(peers') <= Cap
    BY <2>1, <2>2
  <2> QED
    BY <2>2, <2>3, <2>4, <2>5, <2>6
<1>2. ASSUME NEW c \in Clients, Close(c) PROVE TypeOK' /\ RoundInv'
  BY <1>2 DEF Close
<1>3. CASE Emit
  BY <1>3 DEF Emit
<1>4. CASE Receive
  BY <1>4 DEF Receive
<1>5. CASE Skip
  <2>1. lost' \in SUBSET Numbers
    BY <1>5 DEF Skip
  <2> QED
    BY <1>5, <2>1 DEF Skip, GoOn
<1>6. CASE Snapshot
  BY <1>6 DEF Snapshot
<1>7. ASSUME rest # <<>> PROVE Head(rest) \in Clients /\ Tail(rest) \in Seq(Clients)
                                /\ Len(Tail(rest)) <= Cap
  BY <1>7
<1>8. CASE Deliver
  <2>1. read \in Numbers /\ heard[Head(rest)] \in Seq(Numbers)
    BY <1>7, <1>8 DEF Deliver
  <2>2. Append(heard[Head(rest)], read) \in Seq(Numbers)
    BY <2>1
  <2> QED
    BY <1>7, <1>8, <2>2 DEF Deliver, NoteError, Others
<1>9. CASE FailToDeliver
  <2>1. read \in Numbers /\ Head(rest) \in Clients
    BY <1>7, <1>9 DEF FailToDeliver
  <2>2. failed' \in [Clients -> SUBSET Numbers]
    <3>1. CASE UNCHANGED failed
      BY <3>1
    <3>2. CASE failed' = [failed EXCEPT ![Head(rest)] = @ \cup {read}]
      BY <2>1, <3>2
    <3> QED
      BY <1>9, <3>1, <3>2 DEF FailToDeliver
  <2> QED
    BY <1>7, <1>9, <2>2 DEF FailToDeliver, NoteError, Others
<1>10. CASE EndRound
  BY <1>10 DEF EndRound
<1>11. CASE Prune
  <2>1. Open(peers) \in Seq(Clients) /\ Len(Open(peers)) <= Len(peers)
    BY OpenFacts
  <2>2. Len(Open(peers)) \in Nat /\ Len(peers) \in Nat
    BY <2>1
  <2> QED
    BY <1>11, <2>1, <2>2 DEF Prune, GoOn
<1>12. CASE UNCHANGED vars
  BY <1>12 DEF vars
<1> QED
  BY <1>1, <1>2, <1>3, <1>4, <1>5, <1>6, <1>8, <1>9, <1>10, <1>11, <1>12 DEF Next, ForwarderStep

LEMMA TypesAndRounds == Spec => [](TypeOK /\ RoundInv)
<1>1. Init => TypeOK /\ RoundInv
  <2>1. <<>> \in Seq(Clients) /\ Len(<<>>) = 0 /\ <<>> \in Seq(Numbers)
    OBVIOUS
  <2> SUFFICES ASSUME Init PROVE TypeOK /\ RoundInv
    OBVIOUS
  <2>2. peers \in Seq(Clients) /\ Len(peers) <= Cap /\ rest \in Seq(Clients) /\ Len(rest) <= Cap
    BY <2>1, CapAssumption DEF Init
  <2>3. heard \in [Clients -> Seq(Numbers)]
    BY <2>1 DEF Init
  <2>4. /\ life \in [Clients -> {"new", "open", "closed"}] /\ inits \in [Clients -> Nat]
        /\ since \in [Clients -> 0 .. sent] /\ sent \in 0 .. MaxEvents /\ read \in 0 .. sent
    BY BoundAssumption DEF Init
  <2>5. failed \in [Clients -> SUBSET Numbers] /\ lost \in SUBSET Numbers
    BY DEF Init
  <2> QED
    BY <2>2, <2>3, <2>4, <2>5 DEF Init, TypeOK, RoundInv
<1> QED
  BY <1>1, TypeStep, PTL DEF Spec

\* Every value stays in its type: the registry and a snapshot are never longer than
\* the cap, and the receiver is never past what the engine has sent.
THEOREM TypeCorrect == Spec => []TypeOK
  BY TypesAndRounds, PTL

-----------------------------------------------------------------------------
(* Open peers stay *)

LEMMA RegistryStep ==
    ASSUME TypeOK, RegistryInv, [Next]_vars PROVE RegistryInv'
<1> USE DEF RegistryInv, Registered
<1>1. ASSUME NEW c \in Clients, Initialize(c) PROVE RegistryInv'
  <2>1. /\ life' = [life EXCEPT ![c] = "open"] /\ peers' = Register(c)
    BY <1>1 DEF Initialize
  <2>2. \A x \in Clients :
          x \in Range(Register(c)) => x = c \/ (x \in Range(peers) /\ life[x] # "closed")
    BY RegisterFacts DEF Registered
  <2> QED
    BY <2>1, <2>2 DEF TypeOK
<1>2. ASSUME NEW c \in Clients, Close(c) PROVE RegistryInv'
  BY <1>2 DEF Close, TypeOK
<1>3. CASE Prune
  <2>1. \A x \in Clients : x \in Range(Open(peers)) => x \in Range(peers)
    BY OpenFacts DEF TypeOK
  <2> QED
    BY <1>3, <2>1 DEF Prune
<1>4. CASE UNCHANGED <<peers, life>>
  BY <1>4
<1> QED
  BY <1>1, <1>2, <1>3, <1>4 DEF Next, vars, ForwarderStep, Emit, Receive, Skip, Snapshot,
     Deliver, FailToDeliver, EndRound

LEMMA KnownPeers == Spec => []RegistryInv
<1>1. Init => RegistryInv
  BY DEF Init, RegistryInv, Registered, Range
<1> QED
  BY <1>1, RegistryStep, TypeCorrect, PTL DEF Spec

LEMMA StayStep ==
    ASSUME TypeOK, RegistryInv, [Next]_vars,
           NEW c \in Clients, Registered(c), life[c] = "open", ~Registered(c)'
    PROVE  Len(peers') = Cap /\ \A i \in DOMAIN peers' : life'[peers'[i]] = "open"
<1>1. ASSUME NEW d \in Clients, Initialize(d)
      PROVE  Len(peers') = Cap /\ \A i \in DOMAIN peers' : life'[peers'[i]] = "open"
  <2>1. life' = [life EXCEPT ![d] = "open"] /\ peers' = Register(d)
    BY <1>1 DEF Initialize
  <2>2. /\ \A x \in Range(peers') : x \in Clients
        /\ \A x \in Clients :
             x \in Range(peers') => x = d \/ (Registered(x) /\ life[x] # "closed")
        /\ \/ Len(peers') = Cap
           \/ \A x \in Clients :
                 Registered(x) /\ life[x] # "closed" => x \in Range(peers')
    BY <2>1, RegisterFacts
  <2>3. \A x \in Range(peers') : life'[x] = "open"
    BY <2>1, <2>2 DEF RegistryInv, TypeOK
  <2>4. \A i \in DOMAIN peers' : peers'[i] \in Range(peers')
    BY Zenon DEF Range
  <2>5. c \notin Range(peers')
    BY DEF Registered
  <2> QED
    BY <2>2, <2>3, <2>4, <2>5
<1>2. CASE Prune
  <2>1. Registered(c)'
    BY <1>2, OpenFacts DEF Prune, TypeOK, Registered
  <2> QED
    BY <2>1
<1>3. CASE UNCHANGED peers
  BY <1>3 DEF Registered
<1> QED
  BY <1>1, <1>2, <1>3 DEF Next, vars, ForwarderStep, Emit, Receive, Skip, Snapshot,
     Deliver, FailToDeliver, EndRound, Close

\* A session that is open leaves the registry only for as many others as it can
\* hold, all open: one that is gone never keeps a place that an open one loses.
THEOREM OpenPeersAreKept == Spec => OpenPeersStay
<1>1. ASSUME TypeOK, RegistryInv, [Next]_vars
      PROVE  [\A c \in Clients :
                Registered(c) /\ life[c] = "open" /\ ~Registered(c)' =>
                  Len(peers') = Cap /\ \A i \in DOMAIN peers' : life'[peers'[i]] = "open"]_vars
  BY <1>1, StayStep
<1> QED
  BY <1>1, TypeCorrect, KnownPeers, PTL DEF Spec, OpenPeersStay

-----------------------------------------------------------------------------
(* Registered peers miss nothing *)

\* What a session has a claim to has reached it, failed, been lost, or is to come.
DealtWith(c, e) ==
    \/ e \in Range(heard[c]) \cup failed[c] \cup lost
    \/ Ahead(c, e) \/ life[c] = "closed"

LEMMA HearsStep ==
    ASSUME TypeOK, RoundInv, TypeOK', RegisteredHearsAll, [Next]_vars PROVE RegisteredHearsAll'
<1>1. \A c \in Clients : Registered(c) => \A e \in Due(c) : DealtWith(c, e)
  BY DEF RegisteredHearsAll, DealtWith
<1> SUFFICES ASSUME NEW c \in Clients, Registered(c)', NEW e \in Due(c)'
             PROVE  DealtWith(c, e)'
  BY DEF RegisteredHearsAll, DealtWith
<1>2. e \in Nat /\ since'[c] < e /\ e <= read'
  BY DEF Due, TypeOK
\* Who is registered by the step has no claim yet.
<1>3. ASSUME UNCHANGED read, UNCHANGED since, Registered(c)
      PROVE  DealtWith(c, e)
  BY <1>1, <1>3 DEF Due
<1>4. CASE UNCHANGED <<read, since, pc, rest, heardVars, lost>> /\ Registered(c) /\
           (life[c] = "closed" => life'[c] = "closed")
  BY <1>3, <1>4 DEF DealtWith, Ahead
<1>5. ASSUME NEW d \in Clients, Initialize(d) PROVE DealtWith(c, e)'
  <2>1. /\ life[d] # "closed" /\ life' = [life EXCEPT ![d] = "open"]
        /\ since' = IF Registered(d) THEN since ELSE [since EXCEPT ![d] = sent]
        /\ peers' = Register(d)
        /\ UNCHANGED <<sent, forwarderVars, heardVars>>
    BY <1>5 DEF Initialize
  <2>2. c = d \/ (Registered(c) /\ life[c] # "closed")
    BY <2>1, RegisterFacts DEF Registered
  <2>3. CASE Registered(d) \/ c # d
    <3>1. Registered(c) /\ since'[c] = since[c]
      BY <2>1, <2>2, <2>3 DEF TypeOK
    <3>2. DealtWith(c, e)
      BY <1>1, <2>1, <3>1 DEF Due
    <3>3. life[c] # "closed"
      BY <2>1, <2>2
    <3> QED
      BY <2>1, <3>2, <3>3 DEF DealtWith, Ahead
  <2>4. CASE ~Registered(d) /\ c = d
    <3>1. since'[c] = sent /\ read' = read
      BY <2>1, <2>4 DEF TypeOK
    <3> QED
      BY <1>2, <3>1 DEF TypeOK
  <2> QED
    BY <2>3, <2>4
<1>6. ASSUME NEW d \in Clients, Close(d) PROVE DealtWith(c, e)'
  <2>1. Registered(c)
    BY <1>6 DEF Close, Registered
  <2> QED
    BY <1>4, <1>6, <2>1 DEF Close, TypeOK
<1>7. CASE Emit \/ UNCHANGED vars
  <2>1. Registered(c)
    BY <1>7 DEF Emit, vars, Registered
  <2> QED
    BY <1>4, <1>7, <2>1 DEF Emit, vars
<1>8. CASE Receive
  <2>1. Registered(c) /\ since' = since /\ read' = read + 1 /\ pc = "recv" /\ pc' = "snapshot"
        /\ UNCHANGED <<life, heard, failed, lost>>
    BY <1>8 DEF Receive, Registered
  <2>2. CASE e = read'
    BY <2>1, <2>2 DEF DealtWith, Ahead
  <2>3. CASE e # read'
    <3>1. e \in Due(c)
      BY <1>2, <2>1, <2>3 DEF Due, TypeOK
    <3>2. e \in Range(heard[c]) \cup failed[c] \cup lost \/ life[c] = "closed"
      BY <1>1, <2>1, <3>1 DEF DealtWith, Ahead
    <3> QED
      BY <2>1, <3>2 DEF DealtWith
  <2> QED
    BY <2>2, <2>3
<1>9. CASE Skip
  <2>1. Registered(c) /\ since' = since /\ read' = sent - Capacity /\ pc = "recv"
        /\ lost' = lost \cup (read + 1) .. (sent - Capacity)
        /\ UNCHANGED <<life, heard, failed>>
    BY <1>9 DEF Skip, Registered
  <2>2. CASE e > read
    <3>1. e \in lost'
      BY <1>2, <2>1, <2>2, CapAssumption DEF TypeOK
    <3> QED
      BY <3>1 DEF DealtWith
  <2>3. CASE e <= read
    <3>1. e \in Due(c)
      BY <1>2, <2>1, <2>3 DEF Due, TypeOK
    <3>2. e \in Range(heard[c]) \cup failed[c] \cup lost \/ life[c] = "closed"
      BY <1>1, <2>1, <3>1 DEF DealtWith, Ahead
    <3> QED
      BY <2>1, <3>2 DEF DealtWith
  <2> QED
    BY <1>2, <2>2, <2>3 DEF TypeOK
<1>10. CASE Snapshot
  <2>1. Registered(c) /\ since' = since /\ read' = read /\ pc' = "send" /\ rest' = peers
        /\ UNCHANGED <<life, heard, failed, lost>>
    BY <1>10 DEF Snapshot, Registered
  <2>2. DealtWith(c, e)
    BY <1>3, <2>1
  <2>3. Ahead(c, e) => Ahead(c, e)'
    BY <2>1 DEF Ahead, Registered
  <2> QED
    BY <2>1, <2>2, <2>3 DEF DealtWith
<1>11. ASSUME pc = "send", rest # <<>>, rest' = Tail(rest), UNCHANGED <<peers, since, read, pc>>,
              \A x \in Clients : Range(heard[x]) \subseteq Range(heard'[x])
                                 /\ failed[x] \subseteq failed'[x],
              UNCHANGED <<lost, life>>,
              read \in Range(heard'[Head(rest)]) \/ read \in failed'[Head(rest)]
                  \/ life[Head(rest)] = "closed"
       PROVE  DealtWith(c, e)'
  <2>1. DealtWith(c, e)
    BY <1>3, <1>11 DEF Registered
  <2>2. CASE Ahead(c, e)
    <3>1. c \in Range(rest) /\ e = read
      BY <1>11, <2>2 DEF Ahead
    <3>2. c \in Range(Tail(rest)) \/ c = Head(rest)
      BY <1>11, <3>1, RangeTail DEF TypeOK
    <3> QED
      BY <1>11, <3>1, <3>2 DEF DealtWith, Ahead
  <2>3. CASE ~Ahead(c, e)
    BY <1>11, <2>1, <2>3 DEF DealtWith
  <2> QED
    BY <2>2, <2>3
<1>12. rest # <<>> => Head(rest) \in Clients
  BY DEF TypeOK
<1>13. CASE Deliver
  <2> DEFINE h == Head(rest)
  <2>1. h \in Clients /\ heard[h] \in Seq(Numbers) /\ read \in Numbers
    BY <1>12, <1>13 DEF Deliver, TypeOK, RoundInv, Numbers
  <2>2. heard' = [heard EXCEPT ![h] = Append(heard[h], read)]
    BY <1>13 DEF Deliver
  <2>3. \A y : y \in Range(Append(heard[h], read)) <=> y \in Range(heard[h]) \/ y = read
    BY <2>1, RangeAppend
  <2> HIDE DEF h
  <2>4. /\ \A x \in Clients : heard'[x] = IF x = h THEN Append(heard[h], read) ELSE heard[x]
        /\ read \in Range(heard'[h])
    BY <2>1, <2>2, <2>3 DEF TypeOK
  <2>5. \A x \in Clients : Range(heard[x]) \subseteq Range(heard'[x])
    BY <2>3, <2>4
  <2> QED
    BY <1>11, <1>13, <2>4, <2>5 DEF Deliver, Others, h
<1>14. CASE FailToDeliver
  <2>1. /\ pc = "send" /\ rest # <<>> /\ rest' = Tail(rest)
        /\ \/ life[Head(rest)] = "closed" /\ UNCHANGED failed
           \/ failed' = [failed EXCEPT ![Head(rest)] = @ \cup {read}]
        /\ UNCHANGED <<peers, clientVars, sent, read, pc, lost, heard>>
    BY <1>14 DEF FailToDeliver, Others
  <2>2. /\ \A x \in Clients : failed[x] \subseteq failed'[x]
        /\ read \in failed'[Head(rest)] \/ life[Head(rest)] = "closed"
    BY <1>12, <2>1 DEF TypeOK
  <2> QED
    BY <1>11, <2>1, <2>2
<1>15. CASE EndRound
  <2>1. Registered(c) /\ since' = since /\ read' = read /\ pc = "send" /\ rest = <<>>
        /\ UNCHANGED <<life, heard, failed, lost>>
    BY <1>15 DEF EndRound, Registered
  <2>2. DealtWith(c, e) /\ ~Ahead(c, e)
    BY <1>3, <2>1 DEF Ahead, Range
  <2> QED
    BY <2>1, <2>2 DEF DealtWith
<1>16. CASE Prune
  <2>1. Registered(c) /\ since' = since /\ read' = read /\ pc = "prune"
        /\ UNCHANGED <<life, heard, failed, lost>>
    BY <1>16, OpenFacts DEF Prune, TypeOK, Registered
  <2>2. DealtWith(c, e) /\ ~Ahead(c, e)
    BY <1>3, <2>1 DEF Ahead
  <2> QED
    BY <2>1, <2>2 DEF DealtWith
<1> QED
  BY <1>5, <1>6, <1>7, <1>8, <1>9, <1>10, <1>13, <1>14, <1>15, <1>16 DEF Next, ForwarderStep

\* A registered session misses no event but for the receiver's lag or an error of
\* its own transport, whatever other sessions do and however their sends end.
THEOREM NoPeerMissesForAnother == Spec => []RegisteredHearsAll
<1>1. Init => RegisteredHearsAll
  BY DEF Init, RegisteredHearsAll, Registered, Range
<1> QED
  BY <1>1, HearsStep, TypesAndRounds, PTL DEF Spec

-----------------------------------------------------------------------------
(* What is heard is in order, and not too often *)

\* The parts of HeardInv, for one session.
OrderOf(c) == \A i, k \in DOMAIN heard[c] : i < k => heard[c][i] <= heard[c][k]
TimesOf(c) == \A e \in Numbers : Count(heard[c], e) <= inits[c]
PlacesOf(c) == Count(peers, c) <= inits[c]
RoundOf(c) == pc = "send" => Count(heard[c], read) + Count(rest, c) <= inits[c]
PastOf(c) == \A i \in DOMAIN heard[c] :
                 heard[c][i] <= read /\ (pc = "snapshot" => heard[c][i] < read)

LEMMA HeardParts ==
    HeardInv <=> \A c \in Clients :
                     OrderOf(c) /\ TimesOf(c) /\ PlacesOf(c) /\ RoundOf(c) /\ PastOf(c)
  BY DEF HeardInv, HeardInOrder, OrderOf, TimesOf, PlacesOf, RoundOf, PastOf

\* What was never heard was heard no time.
LEMMA CountNone ==
    ASSUME NEW list, NEW x, \A i \in DOMAIN list : list[i] # x PROVE Count(list, x) = 0
<1>1. {i \in DOMAIN list : list[i] = x} = {}
  OBVIOUS
<1> QED
  BY <1>1, FS_EmptySet DEF Count

LEMMA HeardStep ==
    ASSUME TypeOK, RoundInv, HeardInv, [Next]_vars, NEW c \in Clients
    PROVE  (OrderOf(c) /\ TimesOf(c) /\ PlacesOf(c) /\ RoundOf(c) /\ PastOf(c))'
<1> DEFINE Goal == OrderOf(c) /\ TimesOf(c) /\ PlacesOf(c) /\ RoundOf(c) /\ PastOf(c)
<1>1. OrderOf(c) /\ TimesOf(c) /\ PlacesOf(c) /\ RoundOf(c) /\ PastOf(c)
  BY HeardParts
<1>2. /\ peers \in Seq(Clients) /\ rest \in Seq(Clients) /\ heard[c] \in Seq(Numbers)
      /\ inits[c] \in Nat /\ read \in Nat /\ sent \in Nat /\ read <= sent
      /\ \A i \in DOMAIN heard[c] : heard[c][i] \in Nat
  BY BoundAssumption DEF TypeOK, Numbers
<1>3. \A x : /\ Count(peers, x) \in Nat /\ Count(rest, x) \in Nat /\ Count(heard[c], x) \in Nat
  BY <1>2, CountType
<1>4. CASE UNCHANGED <<peers, rest, heard, inits, read, pc>>
  BY <1>1, <1>4 DEF OrderOf, TimesOf, PlacesOf, RoundOf, PastOf
<1>5. ASSUME NEW d \in Clients, Initialize(d) PROVE Goal'
  <2>1. /\ inits' = [inits EXCEPT ![d] = inits[d] + 1] /\ peers' = Register(d)
        /\ UNCHANGED <<sent, forwarderVars, heardVars>>
    BY <1>5 DEF Initialize
  <2>2. inits'[c] = inits[c] + (IF d = c THEN 1 ELSE 0)
    BY <1>2, <2>1 DEF TypeOK
  <2>3. Count(peers', c) <= Count(peers, c) + (IF d = c THEN 1 ELSE 0)
    BY <2>1, RegisterFacts
  <2>4. Register(d) \in Seq(Clients)
    BY RegisterFacts
  <2>5. Count(peers', c) \in Nat
    BY <2>1, <2>4, CountType
  <2>6. inits'[c] \in Nat /\ inits[c] <= inits'[c]
    BY <1>2, <2>2
  <2> HIDE DEF Count
  <2>7. PlacesOf(c)'
    BY <1>1, <1>2, <1>3, <2>2, <2>3, <2>5 DEF PlacesOf
  <2>8. TimesOf(c)'
    <3> SUFFICES ASSUME NEW e \in Numbers PROVE Count(heard'[c], e) <= inits'[c]
      BY DEF TimesOf
    <3>1. Count(heard[c], e) <= inits[c] /\ Count(heard[c], e) \in Nat /\ heard' = heard
      BY <1>1, <1>3, <2>1 DEF TimesOf
    <3> QED
      BY <1>2, <2>6, <3>1
  <2>9. RoundOf(c)'
    <3> SUFFICES ASSUME pc = "send" PROVE Count(heard[c], read) + Count(rest, c) <= inits'[c]
      BY <2>1 DEF RoundOf
    <3>1. Count(heard[c], read) + Count(rest, c) <= inits[c]
      BY <1>1 DEF RoundOf
    <3> QED
      BY <1>2, <1>3, <2>6, <3>1
  <2>10. OrderOf(c)' /\ PastOf(c)'
    BY <1>1, <2>1 DEF OrderOf, PastOf
  <2> QED
    BY <2>7, <2>8, <2>9, <2>10
<1>6. CASE Receive
  <2>1. /\ read' = read + 1 /\ pc' = "snapshot" /\ UNCHANGED <<peers, heard, inits>>
    BY <1>6 DEF Receive
  <2>2. PastOf(c)'
    BY <1>1, <1>2, <2>1 DEF PastOf
  <2> QED
    BY <1>1, <2>1, <2>2 DEF OrderOf, TimesOf, PlacesOf, RoundOf
<1>7. CASE Skip
  <2>1. /\ read' = sent - Capacity /\ pc' = "recv" /\ UNCHANGED <<peers, heard, inits>>
        /\ sent - read > Capacity
    BY <1>7 DEF Skip, GoOn
  <2>2. PastOf(c)'
    BY <1>1, <1>2, <2>1, CapAssumption DEF PastOf
  <2> QED
    BY <1>1, <2>1, <2>2 DEF OrderOf, TimesOf, PlacesOf, RoundOf
<1>8. CASE Snapshot
  <2>1. /\ pc = "snapshot" /\ pc' = "send" /\ rest' = peers
        /\ UNCHANGED <<peers, heard, inits, read>>
    BY <1>8 DEF Snapshot
  <2>2. \A i \in DOMAIN heard[c] : heard[c][i] # read
    BY <1>1, <1>2, <2>1 DEF PastOf
  <2>3. Count(heard[c], read) = 0
    BY <2>2, CountNone
  <2> HIDE DEF Count
  <2>4. RoundOf(c)'
    BY <1>1, <1>2, <1>3, <2>1, <2>3 DEF RoundOf, PlacesOf
  <2>5. PastOf(c)'
    BY <1>1, <2>1 DEF PastOf
  <2> QED
    BY <1>1, <2>1, <2>4, <2>5 DEF OrderOf, TimesOf, PlacesOf
<1>9. ASSUME pc = "send", rest # <<>>, rest' = Tail(rest), UNCHANGED <<peers, inits, read, pc>>
      PROVE  /\ PlacesOf(c)'
             /\ Count(rest', c) \in Nat
             /\ Count(rest', c) + (IF Head(rest) = c THEN 1 ELSE 0) <= Count(rest, c)
             /\ Count(heard[c], read) + Count(rest, c) <= inits[c]
  <2>1. Tail(rest) \in Seq(Clients)
    BY <1>2, <1>9
  <2> QED
    BY <1>1, <1>2, <1>9, <2>1, CountTail, CountType DEF PlacesOf, RoundOf
<1>10. ASSUME pc = "send", rest # <<>>, rest' = Tail(rest), UNCHANGED <<peers, inits, read, pc>>,
              heard'[c] = heard[c]
       PROVE  Goal'
  <2>1. RoundOf(c)'
    <3> SUFFICES Count(heard[c], read) + Count(rest', c) <= inits[c]
      BY <1>10 DEF RoundOf
    <3>1. /\ Count(rest', c) \in Nat
          /\ Count(rest', c) + (IF Head(rest) = c THEN 1 ELSE 0) <= Count(rest, c)
          /\ Count(heard[c], read) + Count(rest, c) <= inits[c]
      BY <1>9, <1>10
    <3> HIDE DEF Count
    <3> QED
      BY <1>2, <1>3, <3>1
  <2> QED
    BY <1>1, <1>9, <1>10, <2>1 DEF OrderOf, TimesOf, PastOf
<1>11. CASE Deliver
  <2>1. /\ pc = "send" /\ rest # <<>> /\ rest' = Tail(rest) /\ UNCHANGED <<peers, inits, read, pc>>
        /\ heard' = [heard EXCEPT ![Head(rest)] = Append(heard[Head(rest)], read)]
        /\ Head(rest) \in Clients
    BY <1>11 DEF Deliver, Others, TypeOK
  <2>2. CASE c # Head(rest)
    <3>1. heard'[c] = heard[c]
      BY <2>1, <2>2 DEF TypeOK
    <3> QED
      BY <1>10, <2>1, <3>1
  <2>3. CASE c = Head(rest)
    <3> DEFINE n == Len(heard[c]) + 1
    <3>0. heard'[c] = Append(heard[c], read)
      BY <2>1, <2>3 DEF TypeOK
    <3>1. heard'[c] = Append(heard[c], read) /\ read \in Numbers
      <4>1. pc = "send" => read \in Numbers
        BY BoundAssumption DEF TypeOK, RoundInv, Numbers
      <4> QED
        BY <2>1, <3>0, <4>1
    <3>2. /\ DOMAIN heard[c] = 1 .. Len(heard[c]) /\ Len(heard[c]) \in Nat
          /\ DOMAIN heard'[c] = 1 .. n
          /\ \A i \in 1 .. Len(heard[c]) : heard'[c][i] = heard[c][i]
          /\ heard'[c][n] = read
      BY <1>2, <3>1
    <3>3. \A x : Count(heard'[c], x) = Count(heard[c], x) + (IF read = x THEN 1 ELSE 0)
      BY <1>2, <3>1, CountAppend
    <3>4. \A i \in 1 .. n : i \in 1 .. Len(heard[c]) \/ i = n
      BY <3>2
    <3>5. PastOf(c)'
      BY <1>1, <1>2, <2>1, <3>2, <3>4 DEF PastOf
    <3>6. OrderOf(c)'
      <4> SUFFICES ASSUME NEW i \in 1 .. n, NEW k \in 1 .. n, i < k
                   PROVE  heard'[c][i] <= heard'[c][k]
        BY <3>2 DEF OrderOf
      <4>1. i \in 1 .. Len(heard[c])
        BY <3>2
      <4>2. CASE k = n
        BY <1>1, <1>2, <3>2, <4>1, <4>2 DEF PastOf
      <4>3. CASE k # n
        BY <1>1, <3>2, <3>4, <4>1, <4>3 DEF OrderOf
      <4> QED
        BY <4>2, <4>3
    <3> HIDE DEF Count, n
    <3>7. Count(heard'[c], read) + Count(rest', c) <= inits[c]
      <4>1. Count(heard'[c], read) = Count(heard[c], read) + 1
        BY <3>3
      <4>2. /\ Count(rest', c) \in Nat /\ Count(rest', c) + 1 <= Count(rest, c)
            /\ Count(heard[c], read) + Count(rest, c) <= inits[c]
        BY <1>9, <2>1, <2>3
      <4> QED
        BY <1>2, <1>3, <4>1, <4>2
    <3>8. TimesOf(c)'
      <4> SUFFICES ASSUME NEW e \in Numbers PROVE Count(heard'[c], e) <= inits[c]
        BY <2>1 DEF TimesOf
      <4>1. CASE e = read
        <5>1. Count(rest', c) \in Nat
          BY <1>9, <2>1
        <5>2. Count(heard'[c], read) \in Nat
          BY <1>3, <3>3
        <5> QED
          BY <1>2, <3>7, <4>1, <5>1, <5>2
      <4>2. CASE e # read
        BY <1>1, <1>3, <3>3, <4>2 DEF TimesOf
      <4> QED
        BY <4>1, <4>2
    <3>9. RoundOf(c)'
      BY <2>1, <3>7 DEF RoundOf
    <3> QED
      BY <1>9, <2>1, <3>5, <3>6, <3>8, <3>9
  <2> QED
    BY <2>2, <2>3
<1>12. CASE FailToDeliver
  BY <1>10, <1>12 DEF FailToDeliver, Others
<1>13. CASE EndRound
  BY <1>1, <1>13 DEF EndRound, OrderOf, TimesOf, PlacesOf, RoundOf, PastOf
<1>14. CASE Prune
  <2>1. /\ peers' = Open(peers) /\ pc' = "recv" /\ UNCHANGED <<rest, heard, inits, read>>
    BY <1>14 DEF Prune, GoOn
  <2>2. Open(peers) \in Seq(Clients) /\ Count(Open(peers), c) <= Count(peers, c)
    BY <1>2, OpenFacts
  <2>3. Count(Open(peers), c) \in Nat
    BY <2>2, CountType
  <2> HIDE DEF Count
  <2>4. PlacesOf(c)'
    BY <1>1, <1>2, <1>3, <2>1, <2>2, <2>3 DEF PlacesOf
  <2> QED
    BY <1>1, <2>1, <2>4 DEF OrderOf, TimesOf, RoundOf, PastOf
<1> HIDE DEF Goal
<1>15. Goal'
  BY <1>4, <1>5, <1>6, <1>7, <1>8, <1>11, <1>12, <1>13, <1>14 DEF Goal, Next, ForwarderStep, vars,
     Close, Emit
<1> QED
  BY <1>15 DEF Goal

LEMMA HeardInvariant == Spec => []HeardInv
<1>1. Init => HeardInv
  <2> SUFFICES ASSUME Init, NEW c \in Clients
               PROVE  OrderOf(c) /\ TimesOf(c) /\ PlacesOf(c) /\ RoundOf(c) /\ PastOf(c)
    BY HeardParts
  <2>1. heard[c] = <<>> /\ peers = <<>> /\ inits[c] = 0 /\ pc = "recv"
    BY DEF Init
  <2>2. DOMAIN heard[c] = {}
    BY <2>1
  <2>3. \A x : Count(<<>>, x) = 0
    BY CountNone
  <2> HIDE DEF Count
  <2> QED
    BY <2>1, <2>2, <2>3 DEF OrderOf, TimesOf, PlacesOf, RoundOf, PastOf
<1>2. TypeOK /\ RoundInv /\ HeardInv /\ [Next]_vars => HeardInv'
  <2> SUFFICES ASSUME TypeOK, RoundInv, HeardInv, [Next]_vars PROVE HeardInv'
    OBVIOUS
  <2>1. \A c \in Clients : (OrderOf(c) /\ TimesOf(c) /\ PlacesOf(c) /\ RoundOf(c) /\ PastOf(c))'
    BY HeardStep
  <2> QED
    BY <2>1 DEF HeardInv, HeardInOrder, OrderOf, TimesOf, PlacesOf, RoundOf, PastOf
<1> QED
  BY <1>1, <1>2, TypesAndRounds, PTL DEF Spec

\* A session hears of events in their order, and of none more often than it has
\* initialized: a round that met an error is not sent again.
THEOREM EventsHeardInOrder == Spec => []HeardInOrder
<1>1. HeardInv => HeardInOrder
  BY DEF HeardInv
<1> QED
  BY <1>1, HeardInvariant, PTL
=============================================================================
