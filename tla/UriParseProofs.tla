--------------------------- MODULE UriParseProofs ---------------------------
(***************************************************************************)
(* What the uri parser does with any uri: no part is copied with a         *)
(* negative length, the error tells what is missing, a uri that is put     *)
(* together from parts is cut into these parts, and a query that is put    *)
(* together from names and values into these names and values.             *)
(***************************************************************************)
EXTENDS UriParse, StringProofs

\* Every position that is set is in front of the character that is looked at,
\* unless the loop is over.
Seen ==
  /\ uri \in Seq(UriSymbol)
  /\ i \in Nat
  /\ stage \in FOUND_PROTO..FOUND_FRAGMENT
  /\ doubleslash \in {0, 2}
  /\ pos \in [FOUND_PROTO..FOUND_FRAGMENT -> Int]
  /\ \A k \in FOUND_PROTO..FOUND_FRAGMENT :
       pos[k] # -1 => pos[k] \in 0..Len(uri) /\ (pos[k] < i \/ i >= Len(uri))

\* The parts are found in their order, and behind the slashes.
InOrder ==
  /\ pos[FOUND_PROTO] # -1 => /\ stage >= FOUND_AUTHORITY
                              /\ pos[FOUND_PROTO] + doubleslash + 1 <= Len(uri)
                              /\ pos[FOUND_PROTO] + doubleslash + 1 <= i
  /\ \A k \in FOUND_PATH..FOUND_FRAGMENT :
       pos[k] # -1 => /\ k <= stage
                      /\ pos[FOUND_PROTO] # -1 =>
                           pos[k] >= pos[FOUND_PROTO] + doubleslash + 1
  /\ \A k, n \in FOUND_PATH..FOUND_FRAGMENT :
       pos[k] # -1 /\ pos[n] # -1 /\ k < n => pos[k] < pos[n]

UriInv == Seen /\ InOrder

USE DEF FOUND_PROTO, FOUND_AUTHORITY, FOUND_PATH, FOUND_QUERY, FOUND_FRAGMENT

LEMMA UriInvInit == UriInit => UriInv
<1> SUFFICES ASSUME UriInit PROVE UriInv
  OBVIOUS
<1>1. uri \in Seq(UriSymbol)
  BY UriAssumption DEF UriInit, Unparsed
<1>2. /\ i = 0 /\ stage = 1 /\ doubleslash = 0
      /\ pos = [k \in FOUND_PROTO..FOUND_FRAGMENT |-> -1]
  BY DEF UriInit, Unparsed
<1> QED
  BY <1>1, <1>2 DEF UriInv, Seen, InOrder

\* The colon, and the slashes behind it, are characters of the uri.
LEMMA ColonKeeps == UriInv /\ FoundProto => UriInv'
<1> SUFFICES ASSUME UriInv, FoundProto PROVE UriInv'
  OBVIOUS
<1>1. /\ i \in Nat /\ Len(uri) \in Nat /\ i < Len(uri) /\ stage = 1 /\ stage' = 2
      /\ uri' = uri /\ pos' = [pos EXCEPT ![1] = i]
      /\ pos \in [1..5 -> Int]
  BY DEF UriInv, Seen, FoundProto, Scanning, IsColon
<1>2. doubleslash' \in {0, 2} /\ i' \in Nat /\ i + doubleslash' + 1 <= i' /\ i' > i
  BY <1>1 DEF FoundProto
<1>3. i + doubleslash' + 1 <= Len(uri)
  <2>1. CASE Slashes
    <3>1. i + 2 < Len(uri)
      BY <1>1, <2>1 DEF Slashes, UriChar
    <3> QED
      BY <1>1, <2>1, <3>1 DEF FoundProto
  <2>2. CASE ~Slashes
    BY <1>1, <2>2 DEF FoundProto
  <2> QED
    BY <2>1, <2>2
<1>4. pos[1] = -1 /\ \A k \in 3..5 : pos[k] = -1
  BY <1>1 DEF UriInv, InOrder
<1>5. pos' \in [1..5 -> Int] /\ pos'[1] = i /\ \A k \in 2..5 : pos'[k] = pos[k]
  BY <1>1
<1>6. Seen'
  <2>1. ASSUME NEW k \in 1..5, pos'[k] # -1
        PROVE  pos'[k] \in 0..Len(uri) /\ (pos'[k] < i' \/ i' >= Len(uri))
    <3>1. CASE k = 1
      BY <1>1, <1>2, <1>5, <3>1
    <3>2. CASE k # 1
      <4>1. pos[k] \in 0..Len(uri) /\ (pos[k] < i \/ i >= Len(uri))
        BY <1>5, <2>1, <3>2 DEF UriInv, Seen
      <4> QED
        BY <1>1, <1>2, <1>5, <3>2, <4>1
    <3> QED
      BY <3>1, <3>2
  <2> QED
    BY <1>1, <1>2, <1>5, <2>1 DEF UriInv, Seen
<1>7. InOrder'
  <2>1. \A k \in 3..5 : pos'[k] = -1
    BY <1>4, <1>5
  <2>2. pos'[1] + doubleslash' + 1 <= Len(uri) /\ pos'[1] + doubleslash' + 1 <= i'
    BY <1>2, <1>3, <1>5
  <2> QED
    BY <1>1, <2>1, <2>2 DEF InOrder
<1> QED
  BY <1>6, <1>7 DEF UriInv

\* A delimiter is behind all that was found before it.
LEMMA PartKeeps == UriInv /\ FoundPart => UriInv'
<1> SUFFICES ASSUME UriInv, FoundPart PROVE UriInv'
  OBVIOUS
<1>1. PICK k \in 3..5 : /\ stage < k /\ stage' = k
                        /\ pos' = [pos EXCEPT ![k] = IF Len(uri) = i + 1 THEN i + 1 ELSE i]
  BY DEF FoundPart, Begins
<1>2. /\ i \in Nat /\ Len(uri) \in Nat /\ i < Len(uri) /\ i' = i + 1
      /\ uri' = uri /\ doubleslash' = doubleslash /\ doubleslash \in {0, 2}
      /\ pos \in [1..5 -> Int] /\ stage \in 1..5
  BY DEF UriInv, Seen, FoundPart, Scanning
<1> DEFINE here == IF Len(uri) = i + 1 THEN i + 1 ELSE i
<1>3. here \in i..Len(uri) /\ here # -1 /\ (here < i + 1 \/ i + 1 >= Len(uri))
  BY <1>2
<1>4. pos' = [pos EXCEPT ![k] = here]
  BY <1>1
<1> HIDE DEF here
<1>5. pos' \in [1..5 -> Int] /\ pos'[k] = here /\ \A n \in 1..5 : n # k => pos'[n] = pos[n]
  BY <1>2, <1>3, <1>4
<1>6. \A n \in 1..5 : pos[n] # -1 => pos[n] \in 0..Len(uri) /\ pos[n] < i
  BY <1>2 DEF UriInv, Seen
<1>7. \A n \in 3..5 : pos[n] # -1 => n < k
  BY <1>1, <1>2 DEF UriInv, InOrder
<1>8. Seen'
  <2>1. ASSUME NEW n \in 1..5, pos'[n] # -1
        PROVE  pos'[n] \in 0..Len(uri) /\ (pos'[n] < i + 1 \/ i + 1 >= Len(uri))
    <3>1. CASE n = k
      <4>1. pos'[n] = here
        BY <1>5, <3>1
      <4>2. here \in 0..Len(uri)
        BY <1>2, <1>3
      <4> QED
        BY <1>3, <4>1, <4>2
    <3>2. CASE n # k
      <4>1. pos'[n] = pos[n]
        BY <1>5, <3>2
      <4>2. pos[n] \in 0..Len(uri) /\ pos[n] < i
        BY <1>6, <2>1, <4>1
      <4>3. pos[n] < i + 1
        BY <1>2, <4>2
      <4> QED
        BY <4>1, <4>2, <4>3
    <3> QED
      BY <3>1, <3>2
  <2> QED
    BY <1>1, <1>2, <1>5, <2>1 DEF UriInv, Seen
<1>9. InOrder'
  <2>1. pos'[1] = pos[1]
    BY <1>1, <1>5
  <2>2. pos[1] # -1 => /\ stage >= 2
                       /\ pos[1] + doubleslash + 1 <= Len(uri)
                       /\ pos[1] + doubleslash + 1 <= i
    BY DEF UriInv, InOrder
  <2>3. ASSUME NEW n \in 3..5, pos'[n] # -1
        PROVE  n <= k /\ (pos[1] # -1 => pos'[n] >= pos[1] + doubleslash + 1)
    <3>1. CASE n = k
      <4>1. pos'[n] = here /\ here >= i /\ here \in Int
        BY <1>2, <1>3, <1>5, <3>1
      <4>2. pos[1] # -1 => here >= pos[1] + doubleslash + 1
        BY <1>2, <2>2, <4>1
      <4> QED
        BY <3>1, <4>1, <4>2
    <3>2. CASE n # k
      BY <1>5, <1>7, <2>3, <3>2 DEF UriInv, InOrder
    <3> QED
      BY <3>1, <3>2
  <2>4. ASSUME NEW m \in 3..5, NEW n \in 3..5, pos'[m] # -1, pos'[n] # -1, m < n
        PROVE  pos'[m] < pos'[n]
    <3>1. CASE n = k
      <4>1. pos'[n] = here /\ here >= i /\ here \in Int
        BY <1>2, <1>3, <1>5, <3>1
      <4>2. m # k
        BY <2>4, <3>1
      <4>3. pos'[m] = pos[m]
        BY <1>5, <4>2
      <4>4. pos[m] \in 0..Len(uri) /\ pos[m] < i
        BY <1>6, <2>4, <4>3
      <4> QED
        BY <1>2, <4>1, <4>3, <4>4
    <3>2. CASE n # k
      <4>1. n < k /\ m # k
        BY <1>5, <1>7, <2>4, <3>2
      <4> QED
        BY <1>5, <2>4, <3>2, <4>1 DEF UriInv, InOrder
    <3> QED
      BY <3>1, <3>2
  <2>5. pos[1] \in Int
    BY <1>2
  <2>6. pos'[1] # -1 => /\ k >= 2
                        /\ pos[1] + doubleslash + 1 <= Len(uri)
                        /\ pos[1] + doubleslash + 1 <= i + 1
    BY <1>1, <1>2, <2>1, <2>2, <2>5
  <2> QED
    BY <1>1, <1>2, <2>1, <2>3, <2>4, <2>6 DEF InOrder
<1> QED
  BY <1>8, <1>9 DEF UriInv

LEMMA OthersKeep ==
  UriInv /\ i' \in {i, i + 1} /\ UNCHANGED <<uri, stage, doubleslash, pos>> => UriInv'
<1> SUFFICES ASSUME UriInv, i' \in {i, i + 1}, UNCHANGED <<uri, stage, doubleslash, pos>>
             PROVE  UriInv'
  OBVIOUS
<1>1. i \in Nat /\ Len(uri) \in Nat /\ i' \in Nat /\ i <= i'
  BY DEF UriInv, Seen
<1>2. ASSUME NEW k \in 1..5, pos[k] # -1
      PROVE  pos[k] \in 0..Len(uri) /\ (pos[k] < i' \/ i' >= Len(uri))
  BY <1>1, <1>2 DEF UriInv, Seen
<1>3. Seen'
  BY <1>1, <1>2 DEF UriInv, Seen
<1>4. pos[1] # -1 => pos[1] + doubleslash + 1 <= i'
  BY <1>1 DEF UriInv, Seen, InOrder
<1>5. InOrder'
  BY <1>4 DEF UriInv, InOrder
<1> QED
  BY <1>3, <1>5 DEF UriInv

LEMMA UriInvStep == UriInv /\ [UriNext]_uriVars => UriInv'
<1> SUFFICES ASSUME UriInv, [UriNext]_uriVars PROVE UriInv'
  OBVIOUS
<1>1. CASE FoundProto
  BY <1>1, ColonKeeps
<1>2. CASE FoundPart
  BY <1>2, PartKeeps
<1>3. CASE SkipChar
  BY <1>3, OthersKeep DEF SkipChar
<1>4. CASE MissingPart
  BY <1>4, OthersKeep DEF MissingPart
<1>5. CASE CutParts
  BY <1>5, OthersKeep DEF CutParts
<1>6. CASE UriCrash
  BY <1>6, OthersKeep DEF UriCrash
<1>7. CASE SplitQuery
  BY <1>7, OthersKeep DEF SplitQuery
<1>8. CASE AddParameter
  BY <1>8, OthersKeep DEF AddParameter
<1>9. CASE AllParameters
  BY <1>9, OthersKeep DEF AllParameters
<1>10. CASE UNCHANGED uriVars
  BY <1>10, OthersKeep DEF uriVars
<1> QED
  BY <1>1, <1>2, <1>3, <1>4, <1>5, <1>6, <1>7, <1>8, <1>9, <1>10 DEF UriNext

LEMMA OrderFits == UriInv => CopiesFit
<1> SUFFICES ASSUME UriInv, EndOfScan, pos[FOUND_PROTO] # -1, AuthorityEnd # -1
             PROVE  /\ pos[FOUND_PROTO] + doubleslash + 1 <= Len(uri)
                    /\ AuthorityLen >= 0
                    /\ HasPath => PathLen \in 1..Len(uri)
                    /\ pos[FOUND_QUERY] # -1 => QueryLen \in 0..Len(uri)
                    /\ pos[FOUND_FRAGMENT] # -1 => FragmentLen \in 0..Len(uri)
  BY DEF CopiesFit
<1>1. Len(uri) \in Nat /\ doubleslash \in {0, 2} /\ \A k \in 1..5 : pos[k] \in Int
  BY DEF UriInv, Seen
<1>2. \A k \in 1..5 : pos[k] # -1 => pos[k] \in 0..Len(uri)
  BY DEF UriInv, Seen
<1>3. pos[1] + doubleslash + 1 <= Len(uri)
  BY DEF UriInv, InOrder
<1>4. \A k \in 3..5 : pos[k] # -1 => pos[k] >= pos[1] + doubleslash + 1
  BY DEF UriInv, InOrder
<1>5. /\ pos[3] # -1 /\ pos[4] # -1 => pos[3] < pos[4]
      /\ pos[3] # -1 /\ pos[5] # -1 => pos[3] < pos[5]
      /\ pos[4] # -1 /\ pos[5] # -1 => pos[4] < pos[5]
  BY DEF UriInv, InOrder
<1>6. AuthorityLen >= 0
  <2>1. AuthorityEnd >= pos[1] + doubleslash + 1 /\ AuthorityEnd \in Int
    BY <1>1, <1>3, <1>4 DEF AuthorityEnd
  <2> QED
    BY <1>1, <2>1 DEF AuthorityLen
<1>7. HasPath => PathLen \in 1..Len(uri)
  BY <1>1, <1>2, <1>5 DEF HasPath, PathLen
<1>8. pos[4] # -1 => QueryLen \in 0..Len(uri)
  BY <1>1, <1>2, <1>5 DEF QueryLen
<1>9. pos[5] # -1 => FragmentLen \in 0..Len(uri)
  BY <1>1, <1>2 DEF FragmentLen
<1> QED
  BY <1>3, <1>6, <1>7, <1>8, <1>9

\* No part of a uri is copied with a negative length or from behind the end of
\* the uri, whatever the uri is (uriparse.c:94-233).
THEOREM EveryCopyFits == UriSpec => []CopiesFit
BY UriInvInit, UriInvStep, OrderFits, PTL DEF UriSpec

-----------------------------------------------------------------------------
(* Strings: the first delimiter, what is decoded and the pieces *)

\* Find() gives the first of the delimiters.
LEMMA FindFirst ==
  ASSUME NEW T, NEW s \in Seq(T), NEW delim
  PROVE  \/ Find(s, delim) = 0 /\ \A k \in 1..Len(s) : s[k] # delim
         \/ /\ Find(s, delim) \in 1..Len(s)
            /\ s[Find(s, delim)] = delim
            /\ \A k \in 1..Len(s) : k < Find(s, delim) => s[k] # delim
<1> DEFINE I == {n \in 1..Len(s) : s[n] = delim}
<1>1. Find(s, delim) = IF I # {} THEN Min(I) ELSE 0
  BY DEF Find, SelectInSeq
<1>2. CASE I = {}
  BY <1>1, <1>2
<1>3. CASE I # {}
  <2>1. I \subseteq Nat
    OBVIOUS
  <2> DEFINE f == Min(I)
  <2>2. f \in I /\ \A k \in I : f <= k
    <3> HIDE DEF I
    <3> QED
      BY <1>3, <2>1, MinIsElement
  <2>3. Find(s, delim) = f
    BY <1>1, <1>3
  <2> HIDE DEF f
  <2>4. \A k \in 1..Len(s) : k < f => s[k] # delim
    <3> TAKE k \in 1..Len(s)
    <3>1. f \in 1..Len(s) /\ (s[k] = delim => f <= k)
      BY <2>2
    <3> QED
      BY <3>1
  <2> QED
    BY <2>2, <2>3, <2>4
<1> QED
  BY <1>2, <1>3

\* urldecode2() decodes the symbols in front of the first that is decoded to NUL.
LEMMA DecodedPrefix ==
  ASSUME NEW s \in Seq(UriSymbol)
  PROVE  /\ urldecode2(s) \in Seq({Decoded[c] : c \in UriSymbol} \cup {"NUL"})
         /\ \E n \in 0..Len(s) :
              /\ Len(urldecode2(s)) = n
              /\ \A k \in 1..n : urldecode2(s)[k] = Decoded[s[k]] /\ Decoded[s[k]] # "NUL"
              /\ n < Len(s) => Decoded[s[n + 1]] = "NUL"
<1> DEFINE V == {Decoded[c] : c \in UriSymbol} \cup {"NUL"}
           t == [k \in DOMAIN s |-> Decoded[s[k]]]
           u == t \o <<"NUL">>
           f == Find(u, "NUL")
<1>1. t \in Seq(V) /\ Len(t) = Len(s) /\ \A k \in 1..Len(s) : t[k] = Decoded[s[k]]
  OBVIOUS
<1>2. /\ u \in Seq(V) /\ Len(u) = Len(s) + 1 /\ u[Len(s) + 1] = "NUL"
      /\ \A k \in 1..Len(s) : u[k] = Decoded[s[k]]
  <2>1. <<"NUL">> \in Seq(V) /\ Len(<<"NUL">>) = 1
    OBVIOUS
  <2> HIDE DEF t, V
  <2> QED
    BY <1>1, <2>1
<1>3. Len(s) \in Nat
  OBVIOUS
<1>4. urldecode2(s) = SubSeq(t, 1, f - 1)
  BY DEF urldecode2, AsString
<1> HIDE DEF u, V
<1>5. /\ f \in 1..Len(s) + 1
      /\ u[f] = "NUL"
      /\ \A k \in 1..Len(s) : k < f => u[k] # "NUL"
  <2>1. Len(s) + 1 \in 1..Len(u)
    BY <1>2, <1>3
  <2>2. f # 0
    BY <1>2, <2>1, FindFirst
  <2>3. /\ f \in 1..Len(u) /\ u[f] = "NUL"
        /\ \A k \in 1..Len(u) : k < f => u[k] # "NUL"
    BY <1>2, <2>2, FindFirst
  <2> HIDE DEF f
  <2> QED
    BY <1>2, <1>3, <2>3
<1> HIDE DEF t, f
<1> DEFINE n == f - 1
<1>6. n \in 0..Len(s) /\ n \in Int
  BY <1>3, <1>5
<1>7. SubSeq(t, 1, n) \in Seq(V) /\ Len(SubSeq(t, 1, n)) = n
      /\ \A k \in 1..n : SubSeq(t, 1, n)[k] = t[k]
  BY <1>1, <1>3, <1>6
<1>8. \A k \in 1..n : t[k] = Decoded[s[k]] /\ Decoded[s[k]] # "NUL"
  <2> TAKE k \in 1..n
  <2>1. k \in 1..Len(s) /\ k < f
    BY <1>3, <1>5, <1>6
  <2> QED
    BY <1>1, <1>2, <1>5, <2>1
<1>9. n < Len(s) => Decoded[s[n + 1]] = "NUL"
  <2> SUFFICES ASSUME n < Len(s) PROVE Decoded[s[n + 1]] = "NUL"
    OBVIOUS
  <2>1. n + 1 = f /\ f \in 1..Len(s)
    BY <1>3, <1>5, <1>6
  <2> QED
    BY <1>2, <1>5, <2>1
<1> HIDE DEF n
<1>10. urldecode2(s) = SubSeq(t, 1, n)
  BY <1>4 DEF n
<1> QED
  BY <1>6, <1>7, <1>8, <1>9, <1>10 DEF V

\* The "=" of a piece is lost when its decoded text has none.
LEMMA LostEqual ==
  ASSUME NEW s \in Seq(UriSymbol)
  PROVE  EqualIsLost(s) <=> Find(s, "=") # 0 /\ Find(urldecode2(s), "=") = 0
<1> DEFINE text == urldecode2(s)
           V == {Decoded[c] : c \in UriSymbol} \cup {"NUL"}
<1>0. Len(s) \in Nat /\ DOMAIN s = 1..Len(s) /\ \A k \in 1..Len(s) : s[k] \in UriSymbol
  OBVIOUS
<1>1. PICK n \in 0..Len(s) :
           /\ Len(text) = n
           /\ \A k \in 1..n : text[k] = Decoded[s[k]] /\ Decoded[s[k]] # "NUL"
           /\ n < Len(s) => Decoded[s[n + 1]] = "NUL"
  BY DecodedPrefix
<1>2. text \in Seq(V)
  BY DecodedPrefix
<1> HIDE DEF text
<1>3. Find(text, "=") = 0 <=> \A k \in 1..n : Decoded[s[k]] # "="
  <2>1. Find(text, "=") = 0 <=> \A k \in 1..n : text[k] # "="
    BY <1>1, <1>2, FindFirst
  <2> QED
    BY <1>1, <2>1
<1>4. Find(s, "=") # 0 <=> \E e \in 1..Len(s) : s[e] = "="
  BY FindFirst
<1>5. ASSUME EqualIsLost(s)
      PROVE  Find(s, "=") # 0 /\ \A k \in 1..n : Decoded[s[k]] # "="
  <2>1. PICK e \in 1..Len(s) :
          s[e] = "=" /\ \E k \in 1..e - 1 :
             Decoded[s[k]] = "NUL" /\ \A m \in 1..k : Decoded[s[m]] # "="
    BY <1>0, <1>5 DEF EqualIsLost
  <2>2. PICK k \in 1..e - 1 :
          Decoded[s[k]] = "NUL" /\ \A m \in 1..k : Decoded[s[m]] # "="
    BY <2>1
  <2>3. n < k
    <3> SUFFICES ASSUME k <= n PROVE FALSE
      BY <1>0
    <3>1. k \in 1..n
      BY <1>0
    <3> QED
      BY <1>1, <2>2, <3>1
  <2>4. \A m \in 1..n : m \in 1..k
    BY <1>0, <2>3
  <2> QED
    BY <1>4, <2>1, <2>2, <2>4
<1>6. ASSUME Find(s, "=") # 0, \A k \in 1..n : Decoded[s[k]] # "="
      PROVE  EqualIsLost(s)
  <2>1. PICK e \in 1..Len(s) : s[e] = "="
    BY <1>4, <1>6
  <2>2. Decoded[s[e]] = "="
    BY <1>0, <2>1, UriAssumption
  <2>3. n < e
    <3> SUFFICES ASSUME e <= n PROVE FALSE
      BY <1>0
    <3>1. e \in 1..n
      BY <1>0
    <3> QED
      BY <1>6, <2>2, <3>1
  <2>4. n + 1 \in 1..Len(s) /\ n < Len(s)
    BY <1>0, <2>3
  <2>5. Decoded[s[n + 1]] = "NUL"
    BY <1>1, <2>4
  <2>6. n + 1 # e
    <3> SUFFICES ASSUME n + 1 = e PROVE FALSE
      OBVIOUS
    <3>1. Decoded[s[e]] = "NUL"
      BY <2>5
    <3> QED
      BY <2>2, <3>1
  <2>7. n + 1 \in 1..e - 1
    BY <1>0, <2>3, <2>6
  <2>8. \A m \in 1..n + 1 : Decoded[s[m]] # "="
    <3> TAKE m \in 1..n + 1
    <3>1. m \in 1..n \/ m = n + 1
      OBVIOUS
    <3> QED
      BY <1>6, <2>5, <3>1
  <2> QED
    BY <1>0, <2>1, <2>5, <2>7, <2>8 DEF EqualIsLost
<1> QED
  BY <1>3, <1>5, <1>6 DEF text

\* The pieces of a string are strings.
LEMMA PiecesType ==
  ASSUME NEW T, NEW s \in Seq(T), NEW delim
  PROVE  Pieces(s, delim) \in Seq(Seq(T))
<1> DEFINE B == PieceBegins(s, delim)
<1>1. Len(s) \in Nat /\ DOMAIN s = 1..Len(s) /\ \A k \in 1..Len(s) : s[k] \in T
  OBVIOUS
<1>2. B \subseteq 1..Len(s)
  BY <1>1 DEF PieceBegins
<1> HIDE DEF B
<1>3. Cardinality(B) \in Nat
  <2>1. IsFiniteSet(1..Len(s))
    BY <1>1, FS_Interval
  <2>2. IsFiniteSet(B)
    BY <1>2, <2>1, FS_Subset
  <2> QED
    BY <2>2, FS_CardinalityType
<1>4. ASSUME NEW n \in 1..Cardinality(B)
      PROVE  LET b == PieceBegin(s, delim, n)
             IN  SubSeq(s, b, PieceEnd(s, delim, b)) \in Seq(T)
  <2> DEFINE b == PieceBegin(s, delim, n)
             E == {e \in b..Len(s) : e = Len(s) \/ s[e + 1] = delim}
  <2>1. \E k \in B : Cardinality(AtMost(B, k)) = n
    BY <1>1, <1>2, RankExists
  <2>2. b \in B
    BY <2>1 DEF PieceBegin, AtMost, B
  <2> HIDE DEF b
  <2>3. b \in 1..Len(s)
    BY <1>2, <2>2
  <2>4. E \subseteq Nat /\ Len(s) \in E
    BY <1>1, <2>3
  <2>5. E \subseteq 1..Len(s)
    BY <1>1, <2>3
  <2>6. Min(E) \in E
    <3> HIDE DEF E
    <3> QED
      BY <2>4, MinIsElement
  <2>7. PieceEnd(s, delim, b) \in 1..Len(s)
    <3> HIDE DEF E
    <3>1. PieceEnd(s, delim, b) = Min(E)
      BY DEF PieceEnd, E
    <3> QED
      BY <2>5, <2>6, <3>1
  <2>8. SubSeq(s, b, PieceEnd(s, delim, b)) \in Seq(T)
    BY <1>1, <2>3, <2>7, SubSeqProperties
  <2> QED
    BY <2>8 DEF b
<1>5. Pieces(s, delim) \in [1..Cardinality(B) -> Seq(T)]
  BY <1>4 DEF Pieces, B
<1> QED
  BY <1>3, <1>5, SeqDef

-----------------------------------------------------------------------------
(* The errors *)

\* What the loop found out about the first delimiter, and the last symbol of a
\* uri when a position is behind it.
Told ==
  /\ pos[FOUND_PROTO] = -1 /\ stage = FOUND_PROTO =>
       \A k \in 1..Len(uri) : k <= i => uri[k] \notin {":", "/", "?", "#"}
  /\ pos[FOUND_PROTO] = -1 /\ stage # FOUND_PROTO => ~FirstIsColon(uri)
  /\ pos[FOUND_PROTO] # -1 =>
       /\ uri[pos[FOUND_PROTO] + 1] = ":"
       /\ \A k \in 1..Len(uri) :
            k <= pos[FOUND_PROTO] => uri[k] \notin {":", "/", "?", "#"}
  /\ \A k \in FOUND_PATH..FOUND_FRAGMENT :
       pos[k] = Len(uri) => uri[Len(uri)] = Delimiter[k]

LEMMA ToldInit == UriInit => Told
<1> SUFFICES ASSUME UriInit PROVE Told
  OBVIOUS
<1>1. uri \in Seq(UriSymbol) /\ Len(uri) \in Nat
  BY UriAssumption DEF UriInit, Unparsed
<1>2. i = 0 /\ stage = 1 /\ pos = [k \in 1..5 |-> -1]
  BY DEF UriInit, Unparsed
<1> QED
  BY <1>1, <1>2 DEF Told

LEMMA ToldStep == UriInv /\ Told /\ [UriNext]_uriVars => Told'
<1> SUFFICES ASSUME UriInv, Told, [UriNext]_uriVars PROVE Told'
  OBVIOUS
<1>1. /\ uri \in Seq(UriSymbol) /\ Len(uri) \in Nat /\ i \in Nat /\ stage \in 1..5
      /\ pos \in [1..5 -> Int]
  BY DEF UriInv, Seen
<1>2. CASE FoundProto
  <2>1. /\ i < Len(uri) /\ stage = 1 /\ uri' = uri /\ pos' = [pos EXCEPT ![1] = i]
        /\ uri[i + 1] = ":"
    BY <1>1, <1>2 DEF FoundProto, Scanning, IsColon, UriChar
  <2>2. pos[1] = -1
    BY <2>1 DEF UriInv, InOrder
  <2>3. pos'[1] = i /\ i # -1 /\ \A k \in 3..5 : pos'[k] = pos[k]
    BY <1>1, <2>1
  <2>4. \A k \in 1..Len(uri) : k <= i => uri[k] \notin {":", "/", "?", "#"}
    BY <2>1, <2>2 DEF Told
  <2>5. \A k \in 3..5 : pos[k] = Len(uri) => uri[Len(uri)] = Delimiter[k]
    BY DEF Told
  <2> QED
    BY <2>1, <2>3, <2>4, <2>5 DEF Told, Delimiter
<1>3. CASE FoundPart
  <2>1. PICK k \in 3..5 :
          /\ stage' = k /\ uri[i + 1] = Delimiter[k]
          /\ pos' = [pos EXCEPT ![k] = IF Len(uri) = i + 1 THEN i + 1 ELSE i]
    BY <1>1, <1>3 DEF FoundPart, Begins, UriChar, Scanning
  <2>2. i < Len(uri) /\ uri' = uri /\ stage' # 1 /\ i + 1 \in 1..Len(uri)
    BY <1>1, <1>3, <2>1 DEF FoundPart, Scanning
  <2>3. pos'[1] = pos[1] /\ \A n \in 3..5 : n # k => pos'[n] = pos[n]
    BY <1>1, <2>1
  <2>4. uri[i + 1] \in {"/", "?", "#"}
    BY <2>1 DEF Delimiter
  <2>5. ASSUME pos[1] = -1
        PROVE  ~FirstIsColon(uri)
    <3>1. CASE stage # 1
      BY <2>5, <3>1 DEF Told
    <3>2. CASE stage = 1
      <4>1. \A n \in 1..Len(uri) : n <= i => uri[n] # ":"
        BY <2>5, <3>2 DEF Told
      <4> SUFFICES ASSUME NEW c \in DOMAIN uri, uri[c] = ":",
                          \A n \in 1..c : uri[n] \notin {"/", "?", "#"}
                   PROVE  FALSE
        BY DEF FirstIsColon
      <4>2. c \in 1..Len(uri)
        BY <1>1
      <4>3. ~(c <= i)
        BY <4>1, <4>2
      <4>4. i + 1 \in 1..c
        BY <1>1, <4>2, <4>3
      <4> QED
        BY <2>4, <4>4
    <3> QED
      BY <3>1, <3>2
  <2>6. \A n \in 3..5 : pos'[n] = Len(uri) => uri[Len(uri)] = Delimiter[n]
    <3> TAKE n \in 3..5
    <3>1. CASE n = k
      <4>1. pos'[n] = IF Len(uri) = i + 1 THEN i + 1 ELSE i
        BY <1>1, <2>1, <3>1
      <4>2. pos'[n] = Len(uri) => Len(uri) = i + 1
        BY <1>1, <2>2, <4>1
      <4> QED
        BY <2>1, <3>1, <4>2
    <3>2. CASE n # k
      BY <2>3, <3>2 DEF Told
    <3> QED
      BY <3>1, <3>2
  <2>7. pos[1] # -1 =>
          /\ uri[pos[1] + 1] = ":"
          /\ \A n \in 1..Len(uri) : n <= pos[1] => uri[n] \notin {":", "/", "?", "#"}
    BY DEF Told
  <2>8. FirstIsColon(uri)' = FirstIsColon(uri)
    BY <2>2 DEF FirstIsColon
  <2> QED
    BY <2>2, <2>3, <2>5, <2>6, <2>7, <2>8 DEF Told, Delimiter
<1>4. CASE SkipChar
  <2>1. i < Len(uri) /\ i' = i + 1 /\ UNCHANGED <<uri, stage, pos>>
    BY <1>4 DEF SkipChar, Scanning
  <2>2. ASSUME stage = 1
        PROVE  uri[i + 1] \notin {":", "/", "?", "#"}
    <3>1. UriChar(i) = uri[i + 1]
      BY <2>1 DEF UriChar
    <3>2. uri[i + 1] # ":"
      BY <1>4, <2>2, <3>1 DEF SkipChar, IsColon
    <3>3. \A k \in 3..5 : ~(stage < k /\ UriChar(i) = Delimiter[k])
      BY <1>4 DEF SkipChar, Begins
    <3>4. \A k \in 3..5 : uri[i + 1] # Delimiter[k]
      BY <2>2, <3>1, <3>3
    <3>5. Delimiter[3] = "/" /\ Delimiter[4] = "?" /\ Delimiter[5] = "#"
      BY DEF Delimiter
    <3> QED
      BY <3>2, <3>4, <3>5
  <2>3. ASSUME pos[1] = -1, stage = 1, NEW k \in 1..Len(uri), k <= i + 1
        PROVE  uri[k] \notin {":", "/", "?", "#"}
    <3>1. CASE k = i + 1
      BY <2>2, <2>3, <3>1
    <3>2. CASE k # i + 1
      <4>1. k <= i
        BY <1>1, <2>3, <3>2
      <4> QED
        BY <2>3, <4>1 DEF Told
    <3> QED
      BY <3>1, <3>2
  <2>4. FirstIsColon(uri)' = FirstIsColon(uri) /\ Len(uri)' = Len(uri)
    BY <2>1 DEF FirstIsColon
  <2> QED
    BY <2>1, <2>3, <2>4 DEF Told, Delimiter
<1>5. CASE UNCHANGED <<uri, i, stage, pos>>
  <2>1. FirstIsColon(uri)' = FirstIsColon(uri)
    BY <1>5 DEF FirstIsColon
  <2> QED
    BY <1>5, <2>1 DEF Told, Delimiter
<1> QED
  BY <1>2, <1>3, <1>4, <1>5
     DEF UriNext, MissingPart, CutParts, UriCrash, SplitQuery, AddParameter,
         AllParameters, uriVars

\* What is known of the first delimiter when the loop is over.
LEMMA ToldAtTheEnd ==
  ASSUME UriInv, Told, EndOfScan
  PROVE  /\ pos[FOUND_PROTO] = -1 <=> ~FirstIsColon(uri)
         /\ pos[FOUND_PROTO] # -1 =>
              (AuthorityEnd = -1 <=> Find(uri, ":") = Len(uri))
<1>1. /\ uri \in Seq(UriSymbol) /\ Len(uri) \in Nat /\ DOMAIN uri = 1..Len(uri)
      /\ i \in Nat /\ i >= Len(uri) /\ pos \in [1..5 -> Int] /\ doubleslash \in {0, 2}
  BY DEF UriInv, Seen, EndOfScan
<1>2. ASSUME pos[1] = -1
      PROVE  ~FirstIsColon(uri)
  <2>1. CASE stage = 1
    <3>1. \A k \in 1..Len(uri) : k <= i
      BY <1>1
    <3>2. \A k \in 1..Len(uri) : uri[k] # ":"
      BY <1>2, <2>1, <3>1 DEF Told
    <3> QED
      BY <1>1, <3>2 DEF FirstIsColon
  <2>2. CASE stage # 1
    BY <1>2, <2>2 DEF Told
  <2> QED
    BY <2>1, <2>2
<1>3. ASSUME pos[1] # -1
      PROVE  FirstIsColon(uri) /\ (AuthorityEnd = -1 <=> Find(uri, ":") = Len(uri))
  <2>1. pos[1] \in 0..Len(uri) /\ pos[1] + doubleslash + 1 <= Len(uri)
    BY <1>3 DEF UriInv, Seen, InOrder
  <2> DEFINE c == pos[1] + 1
  <2>2. c \in 1..Len(uri) /\ pos[1] \in Nat
    BY <1>1, <2>1
  <2>3. uri[c] = ":" /\ \A k \in 1..Len(uri) : k <= pos[1] => uri[k] \notin {":", "/", "?", "#"}
    BY <1>3 DEF Told
  <2>4. FirstIsColon(uri)
    <3>1. \A k \in 1..c : k = c \/ (k \in 1..Len(uri) /\ k <= pos[1])
      BY <1>1, <2>2
    <3>2. \A k \in 1..c : uri[k] \notin {"/", "?", "#"}
      BY <2>3, <3>1
    <3> QED
      BY <1>1, <2>2, <2>3, <3>2 DEF FirstIsColon
  <2>5. Find(uri, ":") = c
    <3>1. Find(uri, ":") # 0
      BY <1>1, <2>2, <2>3, FindFirst
    <3> DEFINE f == Find(uri, ":")
    <3>2. /\ f \in 1..Len(uri) /\ uri[f] = ":"
          /\ \A k \in 1..Len(uri) : k < f => uri[k] # ":"
      BY <1>1, <3>1, FindFirst
    <3> HIDE DEF f
    <3>3. ~(c < f)
      BY <2>2, <2>3, <3>2
    <3>4. ~(f <= pos[1])
      BY <2>3, <3>2
    <3>5. f = c
      BY <1>1, <2>2, <3>2, <3>3, <3>4
    <3> QED
      BY <3>5 DEF f
  <2>6. \A k \in 3..5 : pos[k] # -1 => pos[k] >= c /\ pos[k] \in 0..Len(uri)
    <3> TAKE k \in 3..5
    <3>1. pos[k] # -1 => pos[k] >= pos[1] + doubleslash + 1 /\ pos[k] \in 0..Len(uri)
      BY <1>3 DEF UriInv, Seen, InOrder
    <3>2. pos[k] \in Int /\ pos[1] \in Int /\ doubleslash \in {0, 2}
      BY <1>1 DEF UriInv, Seen
    <3>3. pos[k] # -1 => pos[k] >= pos[1] + 1
      BY <3>1, <3>2
    <3> QED
      BY <3>1, <3>3
  <2>7. ASSUME c = Len(uri), NEW k \in 3..5
        PROVE  pos[k] = -1
    <3> SUFFICES ASSUME pos[k] # -1 PROVE FALSE
      OBVIOUS
    <3>1. pos[k] = Len(uri)
      BY <1>1, <2>2, <2>6, <2>7
    <3>2. uri[Len(uri)] = Delimiter[k]
      BY <3>1 DEF Told
    <3>3. uri[Len(uri)] = ":"
      BY <2>3, <2>7
    <3> QED
      BY <3>2, <3>3 DEF Delimiter
  <2>8. AuthorityEnd = -1 <=> c = Len(uri)
    <3>1. ASSUME c = Len(uri) PROVE AuthorityEnd = -1
      <4>1. pos[3] = -1 /\ pos[4] = -1 /\ pos[5] = -1
        BY <2>7, <3>1
      <4>2. ~(pos[1] + 1 < Len(uri))
        BY <1>1, <3>1
      <4> QED
        BY <4>1, <4>2 DEF AuthorityEnd
    <3>2. ASSUME c # Len(uri) PROVE AuthorityEnd # -1
      <4>1. pos[1] + 1 < Len(uri)
        BY <1>1, <2>2, <3>2
      <4>2. Len(uri) # -1
        BY <1>1
      <4> QED
        BY <4>1, <4>2 DEF AuthorityEnd
    <3> QED
      BY <3>1, <3>2
  <2> QED
    BY <2>4, <2>5, <2>8
<1> QED
  BY <1>2, <1>3

\* The pieces that are in the list have kept their "=".
ListedPieces ==
  \E n \in 0..Len(Pieces(part.query, "&")) :
    /\ unread = SubSeq(Pieces(part.query, "&"), n + 1, Len(Pieces(part.query, "&")))
    /\ \A m \in 1..n : ~EqualIsLost(Pieces(part.query, "&")[m])

\* A uri that is cut has all that is required, and so far nothing was wrong.
Reported ==
  /\ part.query \in Seq(UriSymbol)
  /\ place \in {"scan", "split", "pairs"} => res = 0
  /\ place \in {"split", "pairs"} => FirstIsColon(uri) /\ Find(uri, ":") # Len(uri)
  /\ place = "pairs" => ListedPieces
  /\ UriErrors

ErrorInv == UriInv /\ Told /\ Reported

LEMMA ErrorInit == UriInit => ErrorInv
<1> SUFFICES ASSUME UriInit PROVE Reported
  BY UriInvInit, ToldInit DEF ErrorInv
<1>1. part.query = <<>> /\ place = "scan" /\ res = 0
  BY DEF UriInit, Unparsed, NoParts
<1> QED
  BY <1>1 DEF Reported, UriErrors

\* A copy of a part of the uri is a string.
LEMMA CopiedType ==
  ASSUME uri \in Seq(UriSymbol), NEW k \in Nat, NEW n \in Int
  PROVE  Copied(k, n) \in Seq(UriSymbol)
<1> DEFINE m == IF k + n < Len(uri) THEN k + n ELSE Len(uri)
<1>1. Len(uri) \in Nat /\ m \in Int /\ m <= Len(uri)
  OBVIOUS
<1>2. \A a \in k + 1..m : uri[a] \in UriSymbol
  BY <1>1
<1> HIDE DEF m
<1>3. SubSeq(uri, k + 1, m) \in Seq(UriSymbol)
  BY <1>1, <1>2, SubSeqProperties
<1> QED
  BY <1>3 DEF Copied, m

LEMMA MissingReported == ErrorInv /\ MissingPart => Reported'
<1> SUFFICES ASSUME ErrorInv, MissingPart PROVE Reported'
  OBVIOUS
<1>1. /\ EndOfScan /\ uri' = uri /\ part' = part /\ place' = "done"
      /\ pos[1] = -1 \/ AuthorityEnd = -1
      /\ res' = IF pos[1] = -1 THEN 1 ELSE 2
  BY DEF MissingPart
<1>2. /\ pos[1] = -1 <=> ~FirstIsColon(uri)
      /\ pos[1] # -1 => (AuthorityEnd = -1 <=> Find(uri, ":") = Len(uri))
  BY <1>1, ToldAtTheEnd DEF ErrorInv
<1>3. FirstIsColon(uri)' = FirstIsColon(uri) /\ Find(uri, ":")' = Find(uri, ":")
      /\ Len(uri)' = Len(uri)
  BY <1>1 DEF FirstIsColon, Find, SelectInSeq, Min
<1>4. UriErrors'
  BY <1>1, <1>2, <1>3 DEF UriErrors
<1> QED
  BY <1>1, <1>4 DEF ErrorInv, Reported

LEMMA CutReported == ErrorInv /\ CutParts => Reported'
<1> SUFFICES ASSUME ErrorInv, CutParts PROVE Reported'
  OBVIOUS
<1>1. /\ EndOfScan /\ uri' = uri /\ place' = "split" /\ res' = res /\ place = "scan"
      /\ pos[1] # -1 /\ AuthorityEnd # -1
  BY DEF CutParts, EndOfScan
<1>2. FirstIsColon(uri) /\ Find(uri, ":") # Len(uri)
  BY <1>1, ToldAtTheEnd DEF ErrorInv
<1>3. part'.query \in Seq(UriSymbol)
  <2>1. PICK query \in IF pos[4] # -1 THEN Cut(pos[4], QueryLen) ELSE {<<>>} :
          part'.query = query
    BY DEF CutParts
  <2>2. CASE pos[4] # -1
    <3>1. uri \in Seq(UriSymbol) /\ pos[4] + 1 \in Nat /\ Len(uri) \in Nat
      BY <2>2 DEF ErrorInv, UriInv, Seen
    <3>2. QueryLen - 1 \in Int
      BY <3>1 DEF ErrorInv, UriInv, Seen, QueryLen
    <3>3. query \in Garbage \/ query = Copied(pos[4] + 1, QueryLen - 1)
      BY <2>1, <2>2 DEF Cut
    <3>4. Copied(pos[4] + 1, QueryLen - 1) \in Seq(UriSymbol)
      BY <3>1, <3>2, CopiedType
    <3> QED
      BY <2>1, <3>3, <3>4, UriAssumption
  <2>3. CASE pos[4] = -1
    BY <2>1, <2>3
  <2> QED
    BY <2>2, <2>3
<1>4. FirstIsColon(uri)' = FirstIsColon(uri) /\ Find(uri, ":")' = Find(uri, ":")
      /\ Len(uri)' = Len(uri)
  BY <1>1 DEF FirstIsColon, Find, SelectInSeq, Min
<1> QED
  BY <1>1, <1>2, <1>3, <1>4 DEF ErrorInv, Reported, UriErrors

LEMMA SplitReported == ErrorInv /\ SplitQuery => Reported'
<1> SUFFICES ASSUME ErrorInv, SplitQuery PROVE Reported'
  OBVIOUS
<1> DEFINE P == Pieces(part.query, "&")
<1>1. /\ uri' = uri /\ part' = part /\ res' = res /\ place = "split"
      /\ unread' = P /\ place' \in {"pairs", "crashed"}
  BY DEF SplitQuery
<1>2. P \in Seq(Seq(UriSymbol))
  BY PiecesType DEF ErrorInv, Reported
<1>3. Pieces(part.query, "&")' = P
  BY <1>1 DEF Pieces, PieceBegins, PieceBegin, PieceEnd
<1>4. FirstIsColon(uri)' = FirstIsColon(uri) /\ Find(uri, ":")' = Find(uri, ":")
      /\ Len(uri)' = Len(uri)
  BY <1>1 DEF FirstIsColon, Find, SelectInSeq, Min
<1>5. ListedPieces'
  <2> HIDE DEF P
  <2>1. SubSeq(P, 0 + 1, Len(P)) = P /\ 0 \in 0..Len(P)
    BY <1>2, SubSeqFull
  <2> QED
    BY <1>1, <1>3, <2>1 DEF ListedPieces
<1> QED
  BY <1>1, <1>4, <1>5 DEF ErrorInv, Reported, UriErrors

LEMMA AddReported == ErrorInv /\ AddParameter => Reported'
<1> SUFFICES ASSUME ErrorInv, AddParameter PROVE Reported'
  OBVIOUS
<1> DEFINE P == Pieces(part.query, "&")
           L == Len(P)
           piece == Head(unread)
<1>1. /\ uri' = uri /\ part' = part /\ place = "pairs" /\ unread # <<>>
      /\ unread' = Tail(unread)
  BY DEF AddParameter
<1>2. P \in Seq(Seq(UriSymbol)) /\ L \in Nat
  BY PiecesType DEF ErrorInv, Reported
<1>3. PICK n \in 0..L : unread = SubSeq(P, n + 1, L) /\ \A m \in 1..n : ~EqualIsLost(P[m])
  BY <1>1 DEF ErrorInv, Reported, ListedPieces
<1>4. Pieces(part.query, "&")' = P
  BY <1>1 DEF Pieces, PieceBegins, PieceBegin, PieceEnd
<1>5. FirstIsColon(uri)' = FirstIsColon(uri) /\ Find(uri, ":")' = Find(uri, ":")
      /\ Len(uri)' = Len(uri)
  BY <1>1 DEF FirstIsColon, Find, SelectInSeq, Min
<1>6. FirstIsColon(uri) /\ Find(uri, ":") # Len(uri) /\ res = 0
  BY <1>1 DEF ErrorInv, Reported
<1> HIDE DEF P, L
<1>7. n + 1 \in 1..L /\ L \in Int
  <2>1. n # L
    <3> SUFFICES ASSUME n = L PROVE FALSE
      OBVIOUS
    <3>1. SubSeq(P, n + 1, L) = <<>>
      BY <1>2, SubSeqEmpty
    <3> QED
      BY <1>1, <1>3, <3>1
  <2> QED
    BY <1>2, <2>1
<1>8. piece = P[n + 1] /\ unread' = SubSeq(P, (n + 1) + 1, L)
  <2>1. n + 1 \in 1..Len(P) /\ L \in n + 1..Len(P)
    BY <1>2, <1>7 DEF L
  <2>2. /\ Head(SubSeq(P, n + 1, L)) = P[n + 1]
        /\ Tail(SubSeq(P, n + 1, L)) = SubSeq(P, (n + 1) + 1, L)
    BY <1>2, <2>1, HeadTailOfSubSeq
  <2> QED
    BY <1>1, <1>3, <2>2
<1>9. piece \in Seq(UriSymbol)
  BY <1>2, <1>7, <1>8, ElementOfSeq DEF L
<1> HIDE DEF piece
<1>10. EqualIsLost(piece) <=> Find(piece, "=") # 0 /\ Find(urldecode2(piece), "=") = 0
  BY <1>9, LostEqual
<1>11. \/ ~EqualIsLost(piece) /\ UNCHANGED <<res, place>>
       \/ EqualIsLost(piece) /\ res' = 4 /\ place' = "done"
  BY <1>10 DEF AddParameter, piece
<1>12. \A s : EqualIsLost(s)' = EqualIsLost(s)
  BY DEF EqualIsLost
<1>13. CASE ~EqualIsLost(piece) /\ UNCHANGED <<res, place>>
  <2>1. \A m \in 1..n + 1 : ~EqualIsLost(P[m])
    <3> TAKE m \in 1..n + 1
    <3>1. m \in 1..n \/ m = n + 1
      BY <1>7
    <3> QED
      BY <1>3, <1>8, <1>13, <3>1
  <2>2. n + 1 \in 0..L
    BY <1>7
  <2>3. ListedPieces'
    BY <1>4, <1>8, <2>1, <2>2 DEF ListedPieces, L
  <2> QED
    BY <1>1, <1>5, <1>6, <1>13, <2>3 DEF ErrorInv, Reported, UriErrors
<1>14. CASE EqualIsLost(piece) /\ res' = 4 /\ place' = "done"
  <2>1. n + 1 \in DOMAIN P /\ EqualIsLost(P[n + 1])
    BY <1>2, <1>7, <1>8, <1>14 DEF L
  <2>2. \E m \in DOMAIN Pieces(part.query, "&")' : EqualIsLost(Pieces(part.query, "&")[m])'
    BY <1>4, <2>1
  <2>3. UriErrors'
    BY <1>5, <1>6, <1>14, <2>2 DEF UriErrors
  <2> QED
    BY <1>1, <1>14, <2>3 DEF ErrorInv, Reported
<1> QED
  BY <1>11, <1>13, <1>14

LEMMA AllReported == ErrorInv /\ AllParameters => Reported'
<1> SUFFICES ASSUME ErrorInv, AllParameters PROVE Reported'
  OBVIOUS
<1> DEFINE P == Pieces(part.query, "&")
           L == Len(P)
<1>1. /\ uri' = uri /\ part' = part /\ place = "pairs" /\ unread = <<>>
      /\ place' = "done" /\ res' = res
  BY DEF AllParameters
<1>2. P \in Seq(Seq(UriSymbol)) /\ L \in Nat /\ DOMAIN P = 1..L
  BY PiecesType DEF ErrorInv, Reported
<1>3. PICK n \in 0..L : unread = SubSeq(P, n + 1, L) /\ \A m \in 1..n : ~EqualIsLost(P[m])
  BY <1>1 DEF ErrorInv, Reported, ListedPieces
<1>4. Pieces(part.query, "&")' = P
  BY <1>1 DEF Pieces, PieceBegins, PieceBegin, PieceEnd
<1>5. FirstIsColon(uri)' = FirstIsColon(uri) /\ Find(uri, ":")' = Find(uri, ":")
      /\ Len(uri)' = Len(uri)
  BY <1>1 DEF FirstIsColon, Find, SelectInSeq, Min
<1>6. FirstIsColon(uri) /\ Find(uri, ":") # Len(uri) /\ res = 0
  BY <1>1 DEF ErrorInv, Reported
<1> HIDE DEF P, L
<1>7. n = L
  <2> SUFFICES ASSUME n # L PROVE FALSE
    OBVIOUS
  <2>1. n + 1 \in 1..L /\ L \in n + 1..L
    BY <1>2
  <2>2. n + 1 \in 1..Len(P) /\ L \in n + 1..Len(P)
    BY <2>1 DEF L
  <2>3. SubSeq(P, n + 1, L) = <<P[n + 1]>> \o SubSeq(P, (n + 1) + 1, L)
    BY <1>2, <2>2, SubSeqRecursiveFirst
  <2>4. SubSeq(P, (n + 1) + 1, L) \in Seq(Seq(UriSymbol)) /\ P[n + 1] \in Seq(UriSymbol)
    BY <1>2, <2>2
  <2>5. Len(SubSeq(P, n + 1, L)) # 0
    BY <2>3, <2>4
  <2>6. SubSeq(P, n + 1, L) = <<>>
    BY <1>1, <1>3
  <2> QED
    BY <2>5, <2>6, EmptySeq
<1>8. \A m \in DOMAIN P : ~EqualIsLost(P[m])
  BY <1>2, <1>3, <1>7
<1>9. ~\E m \in DOMAIN Pieces(part.query, "&")' : EqualIsLost(Pieces(part.query, "&")[m])'
  <2>1. \A s : EqualIsLost(s)' = EqualIsLost(s)
    BY DEF EqualIsLost
  <2> QED
    BY <1>4, <1>8, <2>1
<1>10. UriErrors'
  BY <1>1, <1>5, <1>6, <1>9 DEF UriErrors
<1> QED
  BY <1>1, <1>10 DEF ErrorInv, Reported

\* The other steps report nothing.
LEMMA NothingReported ==
  ASSUME ErrorInv, UNCHANGED <<uri, part, unread, res>>,
         place' = place \/ place' = "crashed"
  PROVE  Reported'
<1>1. FirstIsColon(uri)' = FirstIsColon(uri) /\ Find(uri, ":")' = Find(uri, ":")
      /\ Len(uri)' = Len(uri)
  BY DEF FirstIsColon, Find, SelectInSeq, Min
<1>2. Pieces(part.query, "&")' = Pieces(part.query, "&")
  BY DEF Pieces, PieceBegins, PieceBegin, PieceEnd
<1>3. ListedPieces => ListedPieces'
  BY <1>2 DEF ListedPieces, EqualIsLost
<1>4. UriErrors'
  BY <1>1, <1>2 DEF ErrorInv, Reported, UriErrors, EqualIsLost
<1> QED
  BY <1>1, <1>3, <1>4 DEF ErrorInv, Reported

LEMMA ErrorStep == ErrorInv /\ [UriNext]_uriVars => ErrorInv'
<1> SUFFICES ASSUME ErrorInv, [UriNext]_uriVars PROVE Reported'
  BY UriInvStep, ToldStep DEF ErrorInv
<1>1. CASE MissingPart
  BY <1>1, MissingReported
<1>2. CASE CutParts
  BY <1>2, CutReported
<1>3. CASE SplitQuery
  BY <1>3, SplitReported
<1>4. CASE AddParameter
  BY <1>4, AddReported
<1>5. CASE AllParameters
  BY <1>5, AllReported
<1>6. CASE FoundProto \/ FoundPart \/ SkipChar \/ UriCrash \/ UNCHANGED uriVars
  BY <1>6, NothingReported DEF FoundProto, FoundPart, SkipChar, UriCrash, uriVars
<1> QED
  BY <1>1, <1>2, <1>3, <1>4, <1>5, <1>6 DEF UriNext

\* The error of uriparse_parse() tells what is missing, whatever the uri is and
\* whatever its symbols are decoded to (uriparse.c:172-176, 70-75).
THEOREM ErrorsTellWhatIsMissing == UriSpec => []UriErrors
<1>1. ErrorInv => UriErrors
  BY DEF ErrorInv, Reported
<1> QED
  BY <1>1, ErrorInit, ErrorStep, PTL DEF UriSpec

-----------------------------------------------------------------------------
(* A uri as it is documented *)

\* Where the authority begins, and where the later parts begin, if they are
\* there, in a uri that is put together from d.
AuthorityStart(d) == Len(d.proto) + 1 + Len(d.slashes)

PartOf(d, k) == IF k = FOUND_PATH THEN d.path ELSE IF k = FOUND_QUERY THEN d.query ELSE d.fragment

Bound(d, k) ==
  AuthorityStart(d) + Len(d.authority)
    + (IF k > FOUND_PATH THEN Len(d.path) ELSE 0)
    + (IF k > FOUND_QUERY THEN Len(d.query) ELSE 0)
    + (IF k > FOUND_FRAGMENT THEN Len(d.fragment) ELSE 0)

\* The text p is in the uri behind the first o symbols.
IsAt(p, o) ==
  /\ o + Len(p) <= Len(uri)
  /\ \A k \in 1..Len(p) : uri[o + k] = p[k]

LEMMA PartsType ==
  ASSUME NEW d \in UriParts
  PROVE  /\ d.proto \in Seq(UriSymbol) /\ \A k \in 1..Len(d.proto) : d.proto[k] \notin {":", "/", "?", "#"}
         /\ d.slashes \in {<<>>, <<"/", "/">>}
         /\ d.authority \in Seq(UriSymbol) /\ Len(d.authority) >= 1
         /\ \A k \in 1..Len(d.authority) : d.authority[k] \notin {"/", "?", "#"}
         /\ d.path \in Seq(UriSymbol) /\ d.query \in Seq(UriSymbol) /\ d.fragment \in Seq(UriSymbol)
         /\ Len(d.path) >= 1 => d.path[1] = "/"
         /\ Len(d.query) >= 1 => d.query[1] = "?" /\ Len(d.query) >= 2
         /\ Len(d.fragment) >= 1 => d.fragment[1] = "#" /\ Len(d.fragment) >= 2
         /\ \A k \in 2..Len(d.path) : d.path[k] \notin {"?", "#"}
         /\ \A k \in 2..Len(d.query) : d.query[k] # "#"
<1>1. d \in [proto : Without({":", "/", "?", "#"}),
             slashes : {<<>>, <<"/", "/">>},
             authority : Without({"/", "?", "#"}) \ {<<>>},
             path : Optional("/", {"?", "#"}),
             query : Optional("?", {"#"}) \ {<<"?">>},
             fragment : Optional("#", {}) \ {<<"#">>}]
  BY UriPartsAssumption
<1>2. ASSUME NEW s, NEW delim, NEW symbols, s \in Optional(delim, symbols)
      PROVE  /\ s \in Seq(UriSymbol)
             /\ Len(s) >= 1 => s[1] = delim
             /\ \A k \in 2..Len(s) : s[k] \notin symbols
             /\ s # <<delim>> => Len(s) # 1
  <2>1. s \in Seq(UriSymbol) /\ (s # <<>> => s[1] = delim /\ Tail(s) \in Without(symbols))
    BY <1>2 DEF Optional
  <2>2. CASE s = <<>>
    <3>1. Len(s) = 0
      BY <2>2
    <3> QED
      BY <2>1, <3>1
  <2>3. CASE s # <<>>
    <3>1. /\ Len(Tail(s)) = Len(s) - 1 /\ \A k \in 1..Len(s) - 1 : Tail(s)[k] = s[k + 1]
          /\ DOMAIN Tail(s) = 1..Len(s) - 1
      BY <2>1, <2>3
    <3>2. \A k \in 1..Len(s) - 1 : s[k + 1] \notin symbols
      BY <2>1, <2>3, <3>1 DEF Without
    <3>3. \A k \in 2..Len(s) : k - 1 \in 1..Len(s) - 1 /\ (k - 1) + 1 = k
      BY <2>1
    <3>4. \A k \in 2..Len(s) : s[k] \notin symbols
      BY <3>2, <3>3
    <3>5. Len(s) = 1 => s = <<delim>>
      BY <2>1, <2>3
    <3> QED
      BY <2>1, <2>3, <3>4, <3>5
  <2> QED
    BY <2>2, <2>3
<1>3. ASSUME NEW s, NEW symbols, s \in Without(symbols)
      PROVE  s \in Seq(UriSymbol) /\ \A k \in 1..Len(s) : s[k] \notin symbols
  BY <1>3 DEF Without
<1>4. d.authority \in Without({"/", "?", "#"}) /\ d.authority # <<>>
      /\ d.proto \in Without({":", "/", "?", "#"}) /\ d.slashes \in {<<>>, <<"/", "/">>}
  BY <1>1
<1>5. /\ d.path \in Optional("/", {"?", "#"})
      /\ d.query \in Optional("?", {"#"}) /\ d.query # <<"?">>
      /\ d.fragment \in Optional("#", {}) /\ d.fragment # <<"#">>
  BY <1>1
<1>6. d.authority \in Seq(UriSymbol) /\ Len(d.authority) >= 1
      /\ \A k \in 1..Len(d.authority) : d.authority[k] \notin {"/", "?", "#"}
  <2>1. d.authority \in Seq(UriSymbol)
        /\ \A k \in 1..Len(d.authority) : d.authority[k] \notin {"/", "?", "#"}
    BY <1>3, <1>4
  <2>2. Len(d.authority) \in Nat \ {0}
    BY <1>4, <2>1, EmptySeq
  <2> QED
    BY <2>1, <2>2
<1>7. d.proto \in Seq(UriSymbol)
      /\ \A k \in 1..Len(d.proto) : d.proto[k] \notin {":", "/", "?", "#"}
  BY <1>3, <1>4
<1>8. /\ d.path \in Seq(UriSymbol)
      /\ Len(d.path) >= 1 => d.path[1] = "/"
      /\ \A k \in 2..Len(d.path) : d.path[k] \notin {"?", "#"}
  BY <1>2, <1>5
<1>9. /\ d.query \in Seq(UriSymbol)
      /\ Len(d.query) >= 1 => d.query[1] = "?"
      /\ \A k \in 2..Len(d.query) : d.query[k] # "#"
      /\ Len(d.query) # 1
  BY <1>2, <1>5
<1>10. /\ d.fragment \in Seq(UriSymbol)
       /\ Len(d.fragment) >= 1 => d.fragment[1] = "#"
       /\ Len(d.fragment) # 1
  BY <1>2, <1>5
<1>11. (Len(d.query) >= 1 => Len(d.query) >= 2) /\ (Len(d.fragment) >= 1 => Len(d.fragment) >= 2)
  <2>1. Len(d.query) \in Nat /\ Len(d.fragment) \in Nat
    <3>1. d.query \in Seq(UriSymbol) /\ d.fragment \in Seq(UriSymbol)
      BY <1>9, <1>10
    <3> QED
      BY <3>1, LenProperties
  <2>2. Len(d.query) # 1 /\ Len(d.fragment) # 1
    BY <1>9, <1>10
  <2>3. \A n \in Nat : n # 1 => (n >= 1 => n >= 2)
    OBVIOUS
  <2> QED
    BY <2>1, <2>2, <2>3, Zenon
<1> QED
  BY <1>4, <1>6, <1>7, <1>8, <1>9, <1>10, <1>11

\* Two texts that follow each other in the uri.
LEMMA ConcatAt ==
  ASSUME uri \in Seq(UriSymbol), NEW T, NEW x \in Seq(T), NEW y \in Seq(T),
         IsAt(x \o y, 0)
  PROVE  /\ x \o y \in Seq(T) /\ Len(x \o y) = Len(x) + Len(y)
         /\ IsAt(x, 0) /\ IsAt(y, Len(x))
<1>1. /\ Len(x \o y) = Len(x) + Len(y)
      /\ \A k \in 1..Len(x) : (x \o y)[k] = x[k]
      /\ \A k \in 1..Len(y) : (x \o y)[Len(x) + k] = y[k]
      /\ x \o y \in Seq(T)
  OBVIOUS
<1>2. Len(x) \in Nat /\ Len(y) \in Nat /\ Len(uri) \in Nat
  OBVIOUS
<1>3. Len(x) + Len(y) <= Len(uri) /\ \A k \in 1..Len(x) + Len(y) : uri[0 + k] = (x \o y)[k]
  BY <1>1, <1>2 DEF IsAt
<1>4. \A k \in 1..Len(x) : k \in 1..Len(x) + Len(y) /\ uri[0 + k] = x[k]
  BY <1>1, <1>2, <1>3
<1>5. \A k \in 1..Len(y) : uri[Len(x) + k] = y[k]
  <2> TAKE k \in 1..Len(y)
  <2>1. Len(x) + k \in 1..Len(x) + Len(y) /\ 0 + (Len(x) + k) = Len(x) + k
    BY <1>2
  <2> QED
    BY <1>1, <1>3, <2>1
<1> QED
  BY <1>1, <1>2, <1>3, <1>4, <1>5 DEF IsAt

\* Every part of a uri that is put together is where it should be.
LEMMA PartsAreAt ==
  ASSUME uri \in Seq(UriSymbol), NEW d \in UriParts, WrittenUri[d] = uri
  PROVE  /\ IsAt(d.proto, 0) /\ IsAt(<<":">>, Len(d.proto))
         /\ IsAt(d.slashes, Len(d.proto) + 1)
         /\ IsAt(d.authority, AuthorityStart(d))
         /\ \A k \in 3..5 : IsAt(PartOf(d, k), Bound(d, k))
         /\ Len(uri) = Bound(d, 6)
<1> DEFINE T == UriSymbol \cup {":", "/"}
           w1 == d.proto \o <<":">>
           w2 == w1 \o d.slashes
           w3 == w2 \o d.authority
           w4 == w3 \o d.path
           w5 == w4 \o d.query
           w6 == w5 \o d.fragment
<1>1. ASSUME NEW s \in Seq(UriSymbol) PROVE s \in Seq(T)
  OBVIOUS
<1>2. /\ d.proto \in Seq(T) /\ d.authority \in Seq(T) /\ d.path \in Seq(T)
      /\ d.query \in Seq(T) /\ d.fragment \in Seq(T)
  BY <1>1, PartsType
<1>3. <<":">> \in Seq(T) /\ Len(<<":">>) = 1
  OBVIOUS
<1>4. d.slashes \in Seq(T)
  <2>1. d.slashes \in {<<>>, <<"/", "/">>}
    BY PartsType
  <2>2. <<>> \in Seq(T) /\ <<"/", "/">> \in Seq(T)
    OBVIOUS
  <2> QED
    BY <2>1, <2>2
<1> HIDE DEF T
<1>5. w1 \in Seq(T) /\ w2 \in Seq(T) /\ w3 \in Seq(T) /\ w4 \in Seq(T) /\ w5 \in Seq(T)
  BY <1>2, <1>3, <1>4
<1>6. w6 = uri
  BY DEF WrittenUri
<1> HIDE DEF w6
<1>7. IsAt(w6, 0)
  BY <1>6 DEF IsAt
<1>8. Len(uri) = Len(w5) + Len(d.fragment) /\ IsAt(w5, 0) /\ IsAt(d.fragment, Len(w5))
  <2>1. IsAt(w5 \o d.fragment, 0)
    BY <1>7 DEF w6
  <2> HIDE DEF w5
  <2>2. Len(w5 \o d.fragment) = Len(w5) + Len(d.fragment)
        /\ IsAt(w5, 0) /\ IsAt(d.fragment, Len(w5))
    BY <1>2, <1>5, <2>1, ConcatAt
  <2> QED
    BY <1>6, <2>2 DEF w6
<1> HIDE DEF w5
<1>9. Len(w5) = Len(w4) + Len(d.query) /\ IsAt(w4, 0) /\ IsAt(d.query, Len(w4))
  <2>1. IsAt(w4 \o d.query, 0) /\ w5 = w4 \o d.query
    BY <1>8 DEF w5
  <2> HIDE DEF w4
  <2> QED
    BY <1>2, <1>5, <2>1, ConcatAt
<1> HIDE DEF w4
<1>10. Len(w4) = Len(w3) + Len(d.path) /\ IsAt(w3, 0) /\ IsAt(d.path, Len(w3))
  <2>1. IsAt(w3 \o d.path, 0) /\ w4 = w3 \o d.path
    BY <1>9 DEF w4
  <2> HIDE DEF w3
  <2> QED
    BY <1>2, <1>5, <2>1, ConcatAt
<1> HIDE DEF w3
<1>11. Len(w3) = Len(w2) + Len(d.authority) /\ IsAt(w2, 0) /\ IsAt(d.authority, Len(w2))
  <2>1. IsAt(w2 \o d.authority, 0) /\ w3 = w2 \o d.authority
    BY <1>10 DEF w3
  <2> HIDE DEF w2
  <2> QED
    BY <1>2, <1>5, <2>1, ConcatAt
<1> HIDE DEF w2
<1>12. Len(w2) = Len(w1) + Len(d.slashes) /\ IsAt(w1, 0) /\ IsAt(d.slashes, Len(w1))
  <2>1. IsAt(w1 \o d.slashes, 0) /\ w2 = w1 \o d.slashes
    BY <1>11 DEF w2
  <2> HIDE DEF w1
  <2> QED
    BY <1>4, <1>5, <2>1, ConcatAt
<1> HIDE DEF w1
<1>13. Len(w1) = Len(d.proto) + 1 /\ IsAt(d.proto, 0) /\ IsAt(<<":">>, Len(d.proto))
  <2>1. IsAt(d.proto \o <<":">>, 0) /\ w1 = d.proto \o <<":">>
    BY <1>12 DEF w1
  <2> QED
    BY <1>2, <1>3, <2>1, ConcatAt
<1>14. Len(w2) = AuthorityStart(d)
  BY <1>12, <1>13 DEF AuthorityStart
<1>15. Bound(d, 3) = Len(w3) /\ Bound(d, 4) = Len(w4) /\ Bound(d, 5) = Len(w5)
       /\ Bound(d, 6) = Len(uri)
  <2>1. /\ Len(d.path) \in Nat /\ Len(d.query) \in Nat /\ Len(d.fragment) \in Nat
        /\ Len(d.authority) \in Nat /\ AuthorityStart(d) \in Nat
    <3>1. ASSUME NEW s \in Seq(T) PROVE Len(s) \in Nat
      BY <3>1, LenProperties
    <3>2. /\ Len(d.path) \in Nat /\ Len(d.query) \in Nat /\ Len(d.fragment) \in Nat
          /\ Len(d.authority) \in Nat /\ Len(d.proto) \in Nat /\ Len(d.slashes) \in Nat
      BY <1>2, <1>4, <3>1
    <3>3. \A m, n \in Nat : m + 1 + n \in Nat
      OBVIOUS
    <3> QED
      BY <3>2, <3>3, Zenon DEF AuthorityStart
  <2>2. Len(w3) = AuthorityStart(d) + Len(d.authority)
    BY <1>11, <1>14
  <2> QED
    BY <1>8, <1>9, <1>10, <2>1, <2>2 DEF Bound
<1>16. ASSUME NEW k \in 3..5 PROVE IsAt(PartOf(d, k), Bound(d, k))
  <2>1. CASE k = 3
    BY <2>1, <1>10, <1>15 DEF PartOf
  <2>2. CASE k = 4
    BY <2>2, <1>9, <1>15 DEF PartOf
  <2>3. CASE k = 5
    BY <2>3, <1>8, <1>15 DEF PartOf
  <2> QED
    BY <2>1, <2>2, <2>3
<1> QED
  BY <1>11, <1>12, <1>13, <1>14, <1>15, <1>16

\* What is cut out where a part is.
LEMMA PartIsCut ==
  ASSUME uri \in Seq(UriSymbol), NEW T, NEW p \in Seq(T), NEW o \in Nat, IsAt(p, o)
  PROVE  /\ SubSeq(uri, o + 1, o + Len(p)) = p
         /\ p # <<>> => SubSeq(uri, o + 2, o + Len(p)) = Tail(p)
<1>1. Len(p) \in Nat /\ Len(uri) \in Nat /\ o + Len(p) <= Len(uri)
      /\ \A k \in 1..Len(p) : uri[o + k] = p[k]
  BY DEF IsAt
<1>2. ASSUME NEW f \in 1..2, NEW q, q \in Seq(T), Len(q) = Len(p) - f + 1,
             \A k \in 1..Len(q) : q[k] = p[k + f - 1]
      PROVE  SubSeq(uri, o + f, o + Len(p)) = q
  <2> DEFINE r == SubSeq(uri, o + f, o + Len(p))
  <2>1. r \in Seq(UriSymbol) /\ Len(r) = Len(p) - f + 1
        /\ \A k \in 1..Len(r) : r[k] = uri[o + f + k - 1]
    BY <1>1, <1>2
  <2> HIDE DEF r
  <2>2. ASSUME NEW k \in 1..Len(q) PROVE r[k] = q[k]
    <3>1. k + f - 1 \in 1..Len(p) /\ o + f + k - 1 = o + (k + f - 1) /\ k \in 1..Len(r)
      BY <1>1, <1>2, <2>1
    <3> QED
      BY <1>1, <1>2, <2>1, <2>2, <3>1
  <2>3. r = q
    <3>1. Len(r) = Len(q) /\ DOMAIN r = 1..Len(r) /\ DOMAIN q = 1..Len(q)
      BY <1>2, <2>1
    <3>2. r = [k \in DOMAIN r |-> r[k]] /\ q = [k \in DOMAIN q |-> q[k]]
      BY <1>2, <2>1
    <3> QED
      BY <2>2, <3>1, <3>2
  <2> QED
    BY <2>3 DEF r
<1>3. SubSeq(uri, o + 1, o + Len(p)) = p
  BY <1>1, <1>2
<1>4. ASSUME p # <<>> PROVE SubSeq(uri, o + 2, o + Len(p)) = Tail(p)
  <2>1. Tail(p) \in Seq(T) /\ Len(Tail(p)) = Len(p) - 1
        /\ \A k \in 1..Len(p) - 1 : Tail(p)[k] = p[k + 1]
    BY <1>4
  <2> QED
    BY <1>1, <1>2, <2>1
<1> QED
  BY <1>3, <1>4

\* The bounds of the parts that are put together, and the symbols they have.
Layout(d) ==
  /\ Len(d.proto) \in Nat /\ AuthorityStart(d) \in Nat
  /\ AuthorityStart(d) \in {Len(d.proto) + 1, Len(d.proto) + 3}
  /\ Bound(d, 3) \in Nat /\ Bound(d, 4) \in Nat /\ Bound(d, 5) \in Nat /\ Bound(d, 6) \in Nat
  /\ AuthorityStart(d) < Bound(d, 3) /\ Bound(d, 3) <= Bound(d, 4)
  /\ Bound(d, 4) <= Bound(d, 5) /\ Bound(d, 5) <= Bound(d, 6) /\ Bound(d, 6) = Len(uri)
  /\ Bound(d, 5) # Bound(d, 4) + 1 /\ Bound(d, 6) # Bound(d, 5) + 1
  /\ \A j \in 1..Len(d.proto) : uri[j] \notin {":", "/", "?", "#"}
  /\ uri[Len(d.proto) + 1] = ":"
  /\ AuthorityStart(d) = Len(d.proto) + 3 =>
       uri[Len(d.proto) + 2] = "/" /\ uri[Len(d.proto) + 3] = "/"
  /\ \A j \in AuthorityStart(d) + 1..Bound(d, 3) : uri[j] \notin {"/", "?", "#"}
  /\ \A k \in 3..5 :
       Bound(d, k) < Bound(d, k + 1) =>
         /\ uri[Bound(d, k) + 1] = Delimiter[k]
         /\ \A j \in Bound(d, k) + 2..Bound(d, k + 1), n \in k + 1..5 : uri[j] # Delimiter[n]

\* Lengths that are added up one after the other.
LEMMA BoundsInOrder ==
  ASSUME NEW P \in Nat, NEW S \in {0, 2}, NEW A \in Nat, NEW H \in Nat, NEW Q \in Nat,
         NEW F \in Nat, A >= 1, Q = 0 \/ Q >= 2, F = 0 \/ F >= 2,
         NEW A0, A0 = P + 1 + S, NEW B3, B3 = A0 + A + 0 + 0 + 0,
         NEW B4, B4 = A0 + A + H + 0 + 0, NEW B5, B5 = A0 + A + H + Q + 0,
         NEW B6, B6 = A0 + A + H + Q + F
  PROVE  /\ A0 \in {P + 1, P + 3} /\ (A0 = P + 3 => S = 2)
         /\ A0 \in Nat /\ B3 \in Nat /\ B4 \in Nat /\ B5 \in Nat /\ B6 \in Nat
         /\ A0 < B3 /\ B3 <= B4 /\ B4 <= B5 /\ B5 <= B6 /\ B5 # B4 + 1 /\ B6 # B5 + 1
         /\ B3 = A0 + A /\ B4 = B3 + H /\ B5 = B4 + Q /\ B6 = B5 + F
OBVIOUS

LEMMA LayoutHolds ==
  ASSUME uri \in Seq(UriSymbol), NEW d \in UriParts, WrittenUri[d] = uri
  PROVE  Layout(d)
<1> DEFINE P == Len(d.proto)
           S == Len(d.slashes)
           A == Len(d.authority)
           H == Len(d.path)
           Q == Len(d.query)
           F == Len(d.fragment)
           A0 == AuthorityStart(d)
           B3 == Bound(d, 3)
           B4 == Bound(d, 4)
           B5 == Bound(d, 5)
           B6 == Bound(d, 6)
<1>1. /\ d.proto \in Seq(UriSymbol) /\ \A k \in 1..P : d.proto[k] \notin {":", "/", "?", "#"}
      /\ d.slashes \in {<<>>, <<"/", "/">>}
      /\ d.authority \in Seq(UriSymbol) /\ A >= 1
      /\ \A k \in 1..A : d.authority[k] \notin {"/", "?", "#"}
      /\ d.path \in Seq(UriSymbol) /\ d.query \in Seq(UriSymbol) /\ d.fragment \in Seq(UriSymbol)
      /\ H >= 1 => d.path[1] = "/"
      /\ Q >= 1 => d.query[1] = "?" /\ Q >= 2
      /\ F >= 1 => d.fragment[1] = "#" /\ F >= 2
      /\ \A k \in 2..H : d.path[k] \notin {"?", "#"}
      /\ \A k \in 2..Q : d.query[k] # "#"
  BY PartsType
<1>2. P \in Nat /\ A \in Nat /\ H \in Nat /\ Q \in Nat /\ F \in Nat
  <2>1. \A s \in Seq(UriSymbol) : Len(s) \in Nat
    BY LenProperties
  <2> QED
    BY <1>1, <2>1
<1>3. S = 0 \/ (S = 2 /\ d.slashes = <<"/", "/">>)
  <2>1. d.slashes = <<>> => S = 0
    OBVIOUS
  <2>2. d.slashes = <<"/", "/">> => S = 2
    OBVIOUS
  <2> QED
    BY <1>1, <2>1, <2>2
<1>4. /\ IsAt(d.proto, 0) /\ IsAt(<<":">>, P) /\ IsAt(d.slashes, P + 1)
      /\ IsAt(d.authority, A0)
      /\ \A k \in 3..5 : IsAt(PartOf(d, k), Bound(d, k))
      /\ Len(uri) = B6
  BY PartsAreAt
<1>5. IsAt(d.path, B3) /\ IsAt(d.query, B4) /\ IsAt(d.fragment, B5)
  <2>1. IsAt(PartOf(d, 3), B3) /\ IsAt(PartOf(d, 4), B4) /\ IsAt(PartOf(d, 5), B5)
    BY <1>4
  <2> QED
    BY <2>1 DEF PartOf
<1>6. A0 = P + 1 + S /\ B3 = A0 + A + 0 + 0 + 0 /\ B4 = A0 + A + H + 0 + 0
      /\ B5 = A0 + A + H + Q + 0 /\ B6 = A0 + A + H + Q + F
  BY DEF AuthorityStart, Bound
<1>7. /\ \A j \in 1..P : uri[0 + j] = d.proto[j]
      /\ \A j \in 1..1 : uri[P + j] = <<":">>[j]
      /\ \A j \in 1..S : uri[P + 1 + j] = d.slashes[j]
      /\ \A j \in 1..A : uri[A0 + j] = d.authority[j]
      /\ \A j \in 1..H : uri[B3 + j] = d.path[j]
      /\ \A j \in 1..Q : uri[B4 + j] = d.query[j]
      /\ \A j \in 1..F : uri[B5 + j] = d.fragment[j]
  <2>1. Len(<<":">>) = 1
    OBVIOUS
  <2> QED
    BY <1>4, <1>5, <2>1 DEF IsAt
<1>8. /\ \A j \in 1..P : uri[0 + j] \notin {":", "/", "?", "#"}
      /\ uri[P + 1] = ":"
      /\ S = 2 => uri[P + 2] = "/" /\ uri[P + 3] = "/"
      /\ \A j \in 1..A : uri[A0 + j] \notin {"/", "?", "#"}
      /\ H >= 1 => uri[B3 + 1] = "/"
      /\ Q >= 1 => uri[B4 + 1] = "?"
      /\ F >= 1 => uri[B5 + 1] = "#"
      /\ \A j \in 2..H : uri[B3 + j] \notin {"?", "#"}
      /\ \A j \in 2..Q : uri[B4 + j] # "#"
  <2>1. ASSUME S = 2 PROVE uri[P + 2] = "/" /\ uri[P + 3] = "/"
    <3>1. d.slashes = <<"/", "/">>
      BY <1>3, <2>1
    <3>2. uri[P + 1 + 1] = d.slashes[1] /\ uri[P + 1 + 2] = d.slashes[2]
      BY <1>7, <2>1
    <3>3. P + 1 + 1 = P + 2 /\ P + 1 + 2 = P + 3
      BY <1>2
    <3> QED
      BY <3>1, <3>2, <3>3
  <2>2. uri[P + 1] = ":"
    BY <1>7
  <2> HIDE DEF P, S, A, H, Q, F, A0, B3, B4, B5, B6
  <2>3. /\ H >= 1 => uri[B3 + 1] = "/"
        /\ Q >= 1 => uri[B4 + 1] = "?"
        /\ F >= 1 => uri[B5 + 1] = "#"
    <3>1. (H >= 1 => 1 \in 1..H) /\ (Q >= 1 => 1 \in 1..Q) /\ (F >= 1 => 1 \in 1..F)
      BY <1>2
    <3> QED
      BY <1>1, <1>7, <3>1
  <2>4. /\ \A j \in 2..H : uri[B3 + j] \notin {"?", "#"}
        /\ \A j \in 2..Q : uri[B4 + j] # "#"
    <3>1. (\A j \in 2..H : j \in 1..H) /\ (\A j \in 2..Q : j \in 1..Q)
      BY <1>2
    <3> QED
      BY <1>1, <1>7, <3>1
  <2>5. /\ \A j \in 1..P : uri[0 + j] \notin {":", "/", "?", "#"}
        /\ \A j \in 1..A : uri[A0 + j] \notin {"/", "?", "#"}
    BY <1>1, <1>7
  <2> QED
    BY <2>1, <2>2, <2>3, <2>4, <2>5
<1>9. (Q >= 1 => Q >= 2) /\ (F >= 1 => F >= 2) /\ A >= 1
  BY <1>1
<1> HIDE DEF P, S, A, H, Q, F, A0, B3, B4, B5, B6
<1>10. /\ A0 \in {P + 1, P + 3} /\ (A0 = P + 3 => S = 2)
       /\ A0 \in Nat /\ B3 \in Nat /\ B4 \in Nat /\ B5 \in Nat /\ B6 \in Nat
       /\ A0 < B3 /\ B3 <= B4 /\ B4 <= B5 /\ B5 <= B6 /\ B5 # B4 + 1 /\ B6 # B5 + 1
       /\ B3 = A0 + A /\ B4 = B3 + H /\ B5 = B4 + Q /\ B6 = B5 + F
  <2>1. S \in {0, 2}
    BY <1>3
  <2>2. (Q = 0 \/ Q >= 2) /\ (F = 0 \/ F >= 2)
    BY <1>2, <1>9
  <2> QED
    BY <1>2, <1>6, <1>9, <2>1, <2>2, BoundsInOrder
<1>11. ASSUME NEW b \in Nat, NEW f \in Nat, NEW n \in Nat, NEW j \in b + f..b + n
       PROVE  \E m \in f..n : b + m = j
  <2>1. j - b \in f..n /\ b + (j - b) = j
    OBVIOUS
  <2> QED
    BY <2>1
<1>12. \A j \in 1..P : uri[j] \notin {":", "/", "?", "#"}
  <2>1. \A j \in 1..P : 0 + j = j
    BY <1>2
  <2> QED
    BY <1>8, <2>1
<1>13. \A j \in A0 + 1..B3 : uri[j] \notin {"/", "?", "#"}
  <2> TAKE j \in A0 + 1..B3
  <2>1. PICK m \in 1..A : A0 + m = j
    BY <1>2, <1>10, <1>11
  <2> QED
    BY <1>8, <2>1
<1>14. \A j \in B3 + 2..B4 : uri[j] \notin {"?", "#"}
  <2> TAKE j \in B3 + 2..B4
  <2>1. PICK m \in 2..H : B3 + m = j
    BY <1>2, <1>10, <1>11
  <2> QED
    BY <1>8, <2>1
<1>15. \A j \in B4 + 2..B5 : uri[j] # "#"
  <2> TAKE j \in B4 + 2..B5
  <2>1. PICK m \in 2..Q : B4 + m = j
    BY <1>2, <1>10, <1>11
  <2> QED
    BY <1>8, <2>1
<1>16. Delimiter[3] = "/" /\ Delimiter[4] = "?" /\ Delimiter[5] = "#"
  BY DEF Delimiter
<1>17. /\ B3 < B4 => uri[B3 + 1] = "/"
       /\ B4 < B5 => uri[B4 + 1] = "?"
       /\ B5 < B6 => uri[B5 + 1] = "#"
  <2>1. (B3 < B4 => H >= 1) /\ (B4 < B5 => Q >= 1) /\ (B5 < B6 => F >= 1)
    BY <1>2, <1>10
  <2> QED
    BY <1>8, <2>1
<1>18. ASSUME NEW k \in 3..5, Bound(d, k) < Bound(d, k + 1)
       PROVE  /\ uri[Bound(d, k) + 1] = Delimiter[k]
              /\ \A j \in Bound(d, k) + 2..Bound(d, k + 1), n \in k + 1..5 :
                   uri[j] # Delimiter[n]
  <2>1. CASE k = 3
    <3>1. Bound(d, k) = B3 /\ Bound(d, k + 1) = B4
      BY <2>1 DEF B3, B4
    <3>2. ASSUME NEW n \in k + 1..5 PROVE Delimiter[n] \in {"?", "#"}
      BY <1>16, <2>1
    <3>3. \A j \in B3 + 2..B4, n \in k + 1..5 : uri[j] # Delimiter[n]
      BY <1>14, <3>2
    <3> QED
      BY <1>16, <1>17, <1>18, <2>1, <3>1, <3>3
  <2>2. CASE k = 4
    <3>1. Bound(d, k) = B4 /\ Bound(d, k + 1) = B5
      BY <2>2 DEF B4, B5
    <3>2. ASSUME NEW n \in k + 1..5 PROVE Delimiter[n] = "#"
      BY <1>16, <2>2
    <3>3. \A j \in B4 + 2..B5, n \in k + 1..5 : uri[j] # Delimiter[n]
      BY <1>15, <3>2
    <3> QED
      BY <1>16, <1>17, <1>18, <2>2, <3>1, <3>3
  <2>3. CASE k = 5
    <3>1. Bound(d, k) = B5 /\ Bound(d, k + 1) = B6
      BY <2>3 DEF B5, B6
    <3>2. ~\E n \in Int : n \in k + 1..5
      BY <2>3
    <3> QED
      BY <1>16, <1>17, <1>18, <2>3, <3>1, <3>2
  <2> QED
    BY <2>1, <2>2, <2>3
<1> QED
  BY <1>2, <1>4, <1>8, <1>10, <1>12, <1>13, <1>18 DEF Layout, P, A0, B3, B4, B5, B6

\* The loop is behind the delimiter of part k, which is there.
Reached(d, k) == Bound(d, k) < Bound(d, k + 1) /\ Bound(d, k) < i

\* What the loop has found in the first i symbols of a uri put together from d.
Placed(d) ==
  /\ i <= Len(uri)
  /\ i <= Len(d.proto) => stage = 1 /\ \A k \in 3..5 : pos[k] = -1
  /\ i > Len(d.proto) =>
       /\ i >= AuthorityStart(d) /\ stage \in 2..5
       /\ pos[1] = Len(d.proto) /\ doubleslash = AuthorityStart(d) - Len(d.proto) - 1
       /\ \A k \in 3..5 :
            /\ stage >= k <=> \E n \in k..5 : Reached(d, n)
            /\ pos[k] = IF Reached(d, k)
                        THEN IF Bound(d, k) + 1 = Len(uri) THEN Len(uri) ELSE Bound(d, k)
                        ELSE -1

\* The loop over a uri that is put together, and its parts when they are cut.
MeantInv ==
  /\ place \in {"scan", "split", "pairs", "done", "crashed"}
  /\ \A d \in UriParts :
       WrittenUri[d] = uri =>
         /\ place = "scan" => Placed(d)
         /\ place \in {"split", "pairs", "done"} => part = Meant(d)

LEMMA MeantInit == UriInit => MeantInv
<1> SUFFICES ASSUME UriInit PROVE MeantInv
  OBVIOUS
<1>1. /\ uri \in Seq(UriSymbol) /\ Len(uri) \in Nat
      /\ i = 0 /\ stage = 1 /\ place = "scan" /\ pos = [k \in 1..5 |-> -1]
  BY UriAssumption DEF UriInit, Unparsed
<1>2. ASSUME NEW d \in UriParts, WrittenUri[d] = uri PROVE Placed(d)
  <2>1. Len(d.proto) \in Nat
    BY <1>1, <1>2, LayoutHolds DEF Layout
  <2>2. ~(0 > Len(d.proto))
    BY <2>1
  <2> QED
    BY <1>1, <2>2 DEF Placed
<1> QED
  BY <1>1, <1>2 DEF MeantInv

\* The colon of a uri that is put together is the one behind its protocol.
LEMMA ColonPlaces ==
  ASSUME UriInv, NEW d \in UriParts, WrittenUri[d] = uri, Placed(d), FoundProto
  PROVE  Placed(d)'
<1> DEFINE P == Len(d.proto)
           A == AuthorityStart(d)
           B(k) == Bound(d, k)
<1>1. Layout(d)
  BY LayoutHolds DEF UriInv, Seen
<1>2. /\ P \in Nat /\ A \in Nat /\ A \in {P + 1, P + 3} /\ \A k \in 3..6 : B(k) \in Nat
      /\ A < B(3) /\ B(3) <= B(4) /\ B(4) <= B(5) /\ B(5) <= B(6) /\ B(6) = Len(uri)
      /\ \A j \in 1..P : uri[j] \notin {":", "/", "?", "#"}
      /\ A = P + 3 => uri[P + 2] = "/" /\ uri[P + 3] = "/"
      /\ \A j \in A + 1..B(3) : uri[j] \notin {"/", "?", "#"}
  BY <1>1 DEF Layout
<1>3. /\ i \in Nat /\ i < Len(uri) /\ stage = 1 /\ uri[i + 1] = ":" /\ Len(uri) \in Nat
      /\ uri' = uri /\ stage' = 2 /\ pos' = [pos EXCEPT ![1] = i]
      /\ doubleslash' = (IF Slashes THEN 2 ELSE 0) /\ i' = (IF Slashes THEN i + 4 ELSE i + 1)
      /\ pos \in [1..5 -> Int]
  BY DEF FoundProto, Scanning, IsColon, UriChar, UriInv, Seen
<1>4. i <= P /\ \A k \in 3..5 : pos[k] = -1
  <2>1. i <= P
    BY <1>2, <1>3 DEF Placed
  <2> QED
    BY <2>1 DEF Placed
<1>5. i = P
  <2> HIDE DEF P, A, B
  <2> SUFFICES ASSUME i # P PROVE FALSE
    OBVIOUS
  <2>1. i + 1 \in 1..P
    BY <1>2, <1>3, <1>4
  <2> QED
    BY <1>2, <1>3, <2>1
<1> HIDE DEF P, A, B
<1>6. Slashes <=> A = P + 3
  <2>1. CASE A = P + 3
    <3>1. P + 1 < Len(uri) /\ P + 2 < Len(uri) /\ (P + 1) + 1 = P + 2 /\ (P + 2) + 1 = P + 3
      BY <1>2, <2>1
    <3> QED
      BY <1>2, <1>5, <2>1, <3>1 DEF Slashes, UriChar
  <2>2. CASE A = P + 1
    <3>1. P + 1 < Len(uri) /\ (P + 1) + 1 = P + 2 /\ P + 2 \in A + 1..B(3) /\ A # P + 3
      BY <1>2, <2>2
    <3>2. uri[P + 2] # "/"
      BY <1>2, <3>1
    <3> QED
      BY <1>5, <3>1, <3>2 DEF Slashes, UriChar
  <2> QED
    BY <1>2, <2>1, <2>2
<1>7. /\ i' \in Nat /\ i' <= Len(uri) /\ i' > P /\ i' >= A /\ doubleslash' = A - P - 1
      /\ \A k \in 3..5 : ~(B(k) < i')
  <2>1. ASSUME NEW k \in 3..5 PROVE B(3) <= B(k) /\ B(k) \in Nat
    <3>1. k = 3 \/ k = 4 \/ k = 5
      OBVIOUS
    <3> QED
      BY <1>2, <3>1
  <2>2. i' <= A + 1 /\ i' > P /\ i' >= A /\ doubleslash' = A - P - 1 /\ i' \in Nat
    <3>1. CASE A = P + 3
      <4>1. i' = P + 4 /\ doubleslash' = 2
        BY <1>3, <1>5, <1>6, <3>1
      <4> QED
        BY <1>2, <3>1, <4>1
    <3>2. CASE A = P + 1
      <4>1. A # P + 3
        BY <1>2, <3>2
      <4>2. i' = P + 1 /\ doubleslash' = 0
        BY <1>3, <1>5, <1>6, <4>1
      <4> QED
        BY <1>2, <3>2, <4>2
    <3> QED
      BY <1>2, <3>1, <3>2
  <2>3. A + 1 <= B(3) /\ B(3) <= Len(uri) /\ B(3) \in Nat
    BY <1>2
  <2>4. ASSUME NEW k \in 3..5 PROVE ~(B(k) < i')
    <3>1. i' <= B(3) /\ B(3) <= B(k) /\ i' \in Nat /\ B(3) \in Nat /\ B(k) \in Nat
      BY <1>2, <2>1, <2>2, <2>3
    <3> QED
      BY <3>1
  <2>5. i' <= Len(uri)
    BY <1>2, <1>3, <2>2, <2>3
  <2> QED
    BY <2>2, <2>4, <2>5
<1>8. stage' \in 2..5 /\ pos'[1] = P /\ \A k \in 3..5 : pos'[k] = -1 /\ ~(stage' >= k)
  BY <1>3, <1>4, <1>5
<1>9. \A k \in 3..5 : ~Reached(d, k)'
  BY <1>3, <1>7 DEF Reached, B
<1>10. \A k \in 3..5 : ~\E n \in k..5 : Reached(d, n)'
  <2> SUFFICES ASSUME NEW k \in 3..5, NEW n \in k..5, Reached(d, n)' PROVE FALSE
    OBVIOUS
  <2>1. n \in 3..5
    OBVIOUS
  <2> QED
    BY <1>9, <2>1
<1>11. ~(i' <= P)
  BY <1>2, <1>7
<1> QED
  BY <1>3, <1>7, <1>8, <1>9, <1>10, <1>11 DEF Placed, P, A, Bound, AuthorityStart

\* The bounds are in the order of the parts.
LEMMA BoundsAscend ==
  ASSUME NEW d, Layout(d), NEW k \in 3..6, NEW n \in k..6
  PROVE  Bound(d, k) \in Nat /\ Bound(d, n) \in Nat /\ Bound(d, k) <= Bound(d, n)
<1>1. /\ Bound(d, 3) \in Nat /\ Bound(d, 4) \in Nat /\ Bound(d, 5) \in Nat /\ Bound(d, 6) \in Nat
      /\ Bound(d, 3) <= Bound(d, 4) /\ Bound(d, 4) <= Bound(d, 5) /\ Bound(d, 5) <= Bound(d, 6)
  BY DEF Layout
<1>2. /\ k = 3 \/ k = 4 \/ k = 5 \/ k = 6
      /\ n = 3 \/ n = 4 \/ n = 5 \/ n = 6
      /\ k <= n
  OBVIOUS
<1> QED
  BY <1>1, <1>2

\* Behind the colon the loop finds a part exactly where one begins.
LEMMA WhatBegins ==
  ASSUME UriInv, NEW d, Layout(d), Placed(d), i < Len(uri), i > Len(d.proto), NEW k \in 3..5
  PROVE  Bound(d, k) < Bound(d, k + 1) /\ i = Bound(d, k)
           <=> stage < k /\ uri[i + 1] = Delimiter[k]
<1> DEFINE A == AuthorityStart(d)
           B(n) == Bound(d, n)
<1>1. i \in Nat /\ Len(uri) \in Nat /\ stage \in Int
  BY DEF UriInv, Seen
<1>2. i >= A /\ A \in Nat /\ B(6) = Len(uri)
      /\ \A j \in A + 1..B(3) : uri[j] \notin {"/", "?", "#"}
  BY DEF Placed, Layout
<1>3. \A n \in 3..5 : stage >= n <=> \E m \in n..5 : Reached(d, m)
  BY DEF Placed
<1>4. \A n \in 3..5 :
        B(n) < B(n + 1) =>
          /\ uri[B(n) + 1] = Delimiter[n]
          /\ \A j \in B(n) + 2..B(n + 1), m \in n + 1..5 : uri[j] # Delimiter[m]
  BY DEF Layout
<1>5. \A n \in 3..5 : B(n) \in Nat /\ B(n + 1) \in Nat /\ B(n) <= B(n + 1)
  <2> TAKE n \in 3..5
  <2>1. n \in 3..6 /\ n + 1 \in n..6
    OBVIOUS
  <2> QED
    BY <2>1, BoundsAscend
<1>6. Delimiter[3] = "/" /\ Delimiter[4] = "?" /\ Delimiter[5] = "#"
  BY DEF Delimiter
<1>7. ASSUME B(k) < B(k + 1), i = B(k)
      PROVE  stage < k /\ uri[i + 1] = Delimiter[k]
  <2>1. ~(stage >= k)
    <3> SUFFICES ASSUME NEW m \in k..5, Reached(d, m) PROVE FALSE
      BY <1>3
    <3>1. B(m) < i
      BY DEF Reached
    <3>2. k \in 3..6 /\ m \in k..6
      OBVIOUS
    <3>3. B(k) <= B(m) /\ B(k) \in Nat /\ B(m) \in Nat
      BY <3>2, BoundsAscend
    <3> HIDE DEF B
    <3> QED
      BY <1>7, <3>1, <3>3
  <2> QED
    BY <1>1, <1>4, <1>7, <2>1
<1>8. ASSUME stage < k, uri[i + 1] = Delimiter[k]
      PROVE  B(k) < B(k + 1) /\ i = B(k)
  <2>1. Delimiter[k] \in {"/", "?", "#"}
    BY <1>6
  <2>2. i >= B(3)
    <3> SUFFICES ASSUME ~(i >= B(3)) PROVE FALSE
      OBVIOUS
    <3>1. i + 1 \in A + 1..B(3)
      <4>1. B(3) \in Nat
        BY <1>5
      <4> HIDE DEF A, B
      <4> QED
        BY <1>1, <1>2, <4>1
    <3> QED
      BY <1>2, <1>8, <2>1, <3>1
  <2>3. PICK n \in 3..5 : B(n) <= i /\ i < B(n + 1)
    <3>1. B(3) \in Nat /\ B(4) \in Nat /\ B(5) \in Nat /\ B(6) = Len(uri)
          /\ 3 + 1 = 4 /\ 4 + 1 = 5 /\ 5 + 1 = 6
      BY <1>2, <1>5
    <3> HIDE DEF B
    <3>2. (B(3) <= i /\ i < B(3 + 1)) \/ (B(4) <= i /\ i < B(4 + 1)) \/ (B(5) <= i /\ i < B(5 + 1))
      BY <1>1, <2>2, <3>1
    <3> QED
      BY <3>2
  <2>4. B(n) \in Nat /\ B(n + 1) \in Nat
    BY <1>5
  <2> HIDE DEF B
  <2>5. B(n) < B(n + 1)
    BY <1>1, <2>3, <2>4
  <2>6. CASE i = B(n)
    <3>1. Delimiter[n] = Delimiter[k]
      BY <1>4, <1>8, <2>5, <2>6
    <3>2. n = k
      <4>1. (n = 3 \/ n = 4 \/ n = 5) /\ (k = 3 \/ k = 4 \/ k = 5)
        OBVIOUS
      <4> QED
        BY <1>6, <3>1, <4>1
    <3> QED
      BY <2>5, <2>6, <3>2
  <2>7. CASE i # B(n)
    <3>1. B(n) < i
      BY <1>1, <2>3, <2>4, <2>7
    <3>2. Reached(d, n)
      BY <2>5, <3>1 DEF Reached, B
    <3>3. stage >= n
      BY <1>3, <3>2
    <3>4. k \in n + 1..5
      BY <1>1, <1>8, <3>3
    <3>5. i + 1 \in B(n) + 2..B(n + 1)
      BY <1>1, <2>3, <2>4, <3>1
    <3>6. uri[i + 1] # Delimiter[k]
      BY <1>4, <2>5, <3>4, <3>5
    <3> QED
      BY <1>8, <3>6
  <2> QED
    BY <2>6, <2>7
<1> QED
  BY <1>7, <1>8

\* Where the next symbol is not part of the protocol, its parts are reached one
\* symbol later when none begins there.
LEMMA ReachedNext ==
  ASSUME UriInv, NEW d, Layout(d), UNCHANGED uri, i' = i + 1, NEW k \in 3..5
  PROVE  Reached(d, k)'
           <=> Reached(d, k) \/ (Bound(d, k) < Bound(d, k + 1) /\ i = Bound(d, k))
<1>1. i \in Nat
  BY DEF UriInv, Seen
<1>2. k \in 3..6 /\ k + 1 \in k..6
  OBVIOUS
<1>3. Bound(d, k) \in Nat
  BY <1>2, BoundsAscend
<1>4. Bound(d, k)' = Bound(d, k) /\ Bound(d, k + 1)' = Bound(d, k + 1)
  BY DEF Bound, AuthorityStart
<1> DEFINE b == Bound(d, k)
<1>5. b \in Nat
  BY <1>3
<1> HIDE DEF b
<1>6. b < i + 1 <=> b < i \/ i = b
  BY <1>1, <1>5
<1> QED
  BY <1>4, <1>6 DEF Reached, b

LEMMA PartPlaces ==
  ASSUME UriInv, NEW d \in UriParts, WrittenUri[d] = uri, Placed(d), FoundPart
  PROVE  Placed(d)'
<1> DEFINE P == Len(d.proto)
           There(n) == Bound(d, n) < Bound(d, n + 1)
<1>1. Layout(d)
  BY LayoutHolds DEF UriInv, Seen
<1>2. PICK k \in 3..5 :
        /\ stage < k /\ stage' = k /\ uri[i + 1] = Delimiter[k]
        /\ pos' = [pos EXCEPT ![k] = IF Len(uri) = i + 1 THEN i + 1 ELSE i]
  BY DEF FoundPart, Begins, UriChar, Scanning
<1>3. /\ i \in Nat /\ Len(uri) \in Nat /\ i < Len(uri) /\ i' = i + 1
      /\ uri' = uri /\ doubleslash' = doubleslash
      /\ pos \in [1..5 -> Int] /\ stage \in 1..5
  BY DEF UriInv, Seen, FoundPart, Scanning
<1>4. Delimiter[3] = "/" /\ Delimiter[4] = "?" /\ Delimiter[5] = "#"
  BY DEF Delimiter
<1>5. i > P
  <2>1. /\ P \in Nat /\ uri[P + 1] = ":"
        /\ \A j \in 1..P : uri[j] \notin {":", "/", "?", "#"}
    BY <1>1 DEF Layout
  <2>2. uri[i + 1] \in {"/", "?", "#"}
    BY <1>2, <1>4
  <2> HIDE DEF P
  <2> SUFFICES ASSUME ~(i > P) PROVE FALSE
    OBVIOUS
  <2>3. i = P \/ i + 1 \in 1..P
    BY <1>3, <2>1
  <2> QED
    BY <2>1, <2>2, <2>3
<1>6. \A n \in 3..5 : There(n) /\ i = Bound(d, n) <=> stage < n /\ uri[i + 1] = Delimiter[n]
  BY <1>1, <1>3, <1>5, WhatBegins
<1>7. \A n \in 3..5 : uri[i + 1] = Delimiter[n] => n = k
  <2> TAKE n \in 3..5
  <2>1. (n = 3 \/ n = 4 \/ n = 5) /\ (k = 3 \/ k = 4 \/ k = 5)
    OBVIOUS
  <2> QED
    BY <1>2, <1>4, <2>1
<1>8. \A n \in 3..5 : Reached(d, n)' <=> Reached(d, n) \/ n = k
  <2> TAKE n \in 3..5
  <2>1. Reached(d, n)' <=> Reached(d, n) \/ (There(n) /\ i = Bound(d, n))
    BY <1>1, <1>3, ReachedNext
  <2>2. There(n) /\ i = Bound(d, n) <=> n = k
    BY <1>2, <1>6, <1>7
  <2> QED
    BY <2>1, <2>2
<1> HIDE DEF P
<1>9. /\ i >= AuthorityStart(d) /\ pos[1] = P /\ doubleslash = AuthorityStart(d) - P - 1
      /\ AuthorityStart(d) \in Nat /\ P \in Nat
      /\ \A n \in 3..5 :
           /\ stage >= n <=> \E m \in n..5 : Reached(d, m)
           /\ pos[n] = IF Reached(d, n)
                       THEN IF Bound(d, n) + 1 = Len(uri) THEN Len(uri) ELSE Bound(d, n)
                       ELSE -1
  BY <1>1, <1>5 DEF Placed, Layout, P
<1>10. ASSUME NEW n \in 3..5 PROVE k >= n <=> \E m \in n..5 : Reached(d, m)'
  <2>1. ASSUME k >= n PROVE \E m \in n..5 : Reached(d, m)'
    <3>1. k \in n..5
      BY <2>1
    <3> QED
      BY <1>8, <3>1
  <2>2. ASSUME NEW m \in n..5, Reached(d, m)' PROVE k >= n
    <3>1. m \in 3..5 /\ n <= m
      OBVIOUS
    <3>2. CASE m = k
      BY <3>1, <3>2
    <3>3. CASE m # k
      <4>1. Reached(d, m)
        BY <1>8, <2>2, <3>1, <3>3
      <4>2. m \in m..5
        BY <3>1
      <4>3. stage >= m
        BY <1>9, <3>1, <4>1, <4>2
      <4> QED
        BY <1>2, <1>3, <3>1, <4>3
    <3> QED
      BY <3>2, <3>3
  <2> QED
    BY <2>1, <2>2
<1>11. ASSUME NEW n \in 3..5
       PROVE  pos'[n] = IF Reached(d, n)'
                        THEN IF Bound(d, n) + 1 = Len(uri) THEN Len(uri) ELSE Bound(d, n)
                        ELSE -1
  <2>1. CASE n = k
    <3>1. i = Bound(d, n) /\ Reached(d, n)'
      BY <1>2, <1>6, <1>8, <2>1
    <3>2. pos'[n] = IF Len(uri) = i + 1 THEN i + 1 ELSE i
      BY <1>2, <1>3, <2>1
    <3> QED
      BY <3>1, <3>2
  <2>2. CASE n # k
    <3>1. pos'[n] = pos[n] /\ (Reached(d, n)' <=> Reached(d, n))
      BY <1>2, <1>3, <1>8, <2>2
    <3> QED
      BY <1>9, <3>1
  <2> QED
    BY <2>1, <2>2
<1>12. /\ i' <= Len(uri) /\ ~(i' <= P) /\ i' >= AuthorityStart(d) /\ stage' \in 2..5
       /\ pos'[1] = P /\ doubleslash' = AuthorityStart(d) - P - 1
  <2>1. pos'[1] = P
    BY <1>2, <1>3, <1>9
  <2>2. i >= AuthorityStart(d) /\ AuthorityStart(d) \in Nat /\ P \in Nat
        /\ doubleslash' = AuthorityStart(d) - P - 1
    BY <1>3, <1>9
  <2>3. stage' \in 2..5
    BY <1>2
  <2> HIDE DEF P
  <2> QED
    BY <1>3, <1>5, <2>1, <2>2, <2>3
<1>13. /\ \A n : Bound(d, n)' = Bound(d, n)
       /\ AuthorityStart(d)' = AuthorityStart(d)
  BY DEF Bound, AuthorityStart
<1>14. \A n \in 3..5 :
         /\ stage' >= n <=> \E m \in n..5 : Reached(d, m)'
         /\ pos'[n] = IF Reached(d, n)'
                      THEN IF Bound(d, n)' + 1 = Len(uri)' THEN Len(uri)' ELSE Bound(d, n)'
                      ELSE -1
  <2> TAKE n \in 3..5
  <2>1. stage' >= n <=> \E m \in n..5 : Reached(d, m)'
    BY <1>2, <1>10
  <2>2. pos'[n] = IF Reached(d, n)'
                  THEN IF Bound(d, n)' + 1 = Len(uri)' THEN Len(uri)' ELSE Bound(d, n)'
                  ELSE -1
    BY <1>3, <1>11, <1>13
  <2> QED
    BY <2>1, <2>2
<1> QED
  BY <1>3, <1>12, <1>13, <1>14 DEF Placed, P

LEMMA SkipPlaces ==
  ASSUME UriInv, NEW d \in UriParts, WrittenUri[d] = uri, Placed(d), SkipChar
  PROVE  Placed(d)'
<1> DEFINE P == Len(d.proto)
<1>1. Layout(d)
  BY LayoutHolds DEF UriInv, Seen
<1>2. /\ i \in Nat /\ Len(uri) \in Nat /\ i < Len(uri) /\ i' = i + 1
      /\ UNCHANGED <<uri, stage, doubleslash, pos>>
  BY DEF UriInv, Seen, SkipChar, Scanning
<1>3. stage < 2 => uri[i + 1] # ":"
  BY <1>2 DEF SkipChar, IsColon, UriChar
<1>4. \A k \in 3..5 : ~(stage < k /\ uri[i + 1] = Delimiter[k])
  BY <1>2 DEF SkipChar, Begins, UriChar
<1>5. /\ \A n : Bound(d, n)' = Bound(d, n)
      /\ AuthorityStart(d)' = AuthorityStart(d)
  BY DEF Bound, AuthorityStart
<1>6. P \in Nat /\ uri[P + 1] = ":" /\ AuthorityStart(d) \in Nat
  BY <1>1 DEF Layout
<1>7. CASE i <= P
  <2>1. stage = 1 /\ \A k \in 3..5 : pos[k] = -1
    BY <1>7 DEF Placed
  <2>2. i # P
    BY <1>3, <1>6, <2>1
  <2> HIDE DEF P
  <2>3. i' <= P /\ ~(i' > P) /\ i' <= Len(uri)
    BY <1>2, <1>6, <1>7, <2>2
  <2> QED
    BY <1>2, <2>1, <2>3 DEF Placed, P
<1>8. CASE i > P
  <2>1. \A k \in 3..5 : ~(Bound(d, k) < Bound(d, k + 1) /\ i = Bound(d, k))
    BY <1>1, <1>2, <1>4, <1>8, WhatBegins
  <2>2. \A k \in 3..5 : Reached(d, k)' <=> Reached(d, k)
    BY <1>1, <1>2, <2>1, ReachedNext
  <2> HIDE DEF P
  <2>3. /\ i >= AuthorityStart(d) /\ stage \in 2..5
        /\ pos[1] = P /\ doubleslash = AuthorityStart(d) - P - 1
        /\ \A k \in 3..5 :
             /\ stage >= k <=> \E n \in k..5 : Reached(d, n)
             /\ pos[k] = IF Reached(d, k)
                         THEN IF Bound(d, k) + 1 = Len(uri) THEN Len(uri) ELSE Bound(d, k)
                         ELSE -1
    BY <1>8 DEF Placed, P
  <2>4. i' >= AuthorityStart(d) /\ i' <= Len(uri) /\ ~(i' <= P)
    BY <1>2, <1>6, <1>8, <2>3
  <2>5. \A k \in 3..5 : (\E n \in k..5 : Reached(d, n)) <=> \E n \in k..5 : Reached(d, n)'
    <3>1. \A k \in 3..5 : \A n \in k..5 : n \in 3..5
      OBVIOUS
    <3> QED
      BY <2>2, <3>1
  <2>6. \A k \in 3..5 :
          /\ stage' >= k <=> \E n \in k..5 : Reached(d, n)'
          /\ pos'[k] = IF Reached(d, k)'
                       THEN IF Bound(d, k)' + 1 = Len(uri)' THEN Len(uri)' ELSE Bound(d, k)'
                       ELSE -1
    BY <1>2, <1>5, <2>2, <2>3, <2>5
  <2> QED
    BY <1>2, <1>5, <2>3, <2>4, <2>6 DEF Placed, P
<1> HIDE DEF P
<1> QED
  BY <1>2, <1>6, <1>7, <1>8

\* The authority is cut up to the next part, and loses the slash of a path that
\* is nothing else.
LEMMA AuthorityIsCut ==
  ASSUME UriInv, NEW d \in UriParts, WrittenUri[d] = uri, NEW a,
         \/ a = SubSeq(uri, AuthorityStart(d) + 1, Bound(d, 3))
         \/ /\ Bound(d, 3) + 1 = Len(uri) /\ uri[Len(uri)] = "/"
            /\ a = SubSeq(uri, AuthorityStart(d) + 1, Len(uri))
  PROVE  (IF a # <<>> /\ Last(a) = "/" THEN Front(a) ELSE a) = d.authority
<1> DEFINE A == AuthorityStart(d)
           B == Bound(d, 3)
           w == d.authority
<1>1. Layout(d) /\ uri \in Seq(UriSymbol) /\ Len(uri) \in Nat
  BY LayoutHolds DEF UriInv, Seen
<1>2. /\ w \in Seq(UriSymbol) /\ Len(w) \in Nat /\ Len(w) >= 1
      /\ \A k \in 1..Len(w) : w[k] \notin {"/", "?", "#"}
  BY PartsType, LenProperties
<1>3. A \in Nat /\ B \in Nat /\ A < B /\ B <= Len(uri)
  <2>1. Bound(d, 3) <= Bound(d, 6)
    BY <1>1, BoundsAscend
  <2> QED
    BY <1>1, <2>1 DEF Layout
<1>4. B = A + Len(w) + 0 + 0 + 0
  BY DEF Bound
<1>5. IsAt(w, A)
  BY <1>1, PartsAreAt
<1>6. SubSeq(uri, A + 1, A + Len(w)) = w
  BY <1>1, <1>2, <1>3, <1>5, PartIsCut
<1> HIDE DEF A, B, w
<1>7. SubSeq(uri, A + 1, B) = w
  <2>1. B = A + Len(w)
    BY <1>2, <1>3, <1>4
  <2> QED
    BY <1>6, <2>1
<1>8. CASE a = SubSeq(uri, A + 1, B)
  <2>1. a = w
    BY <1>7, <1>8
  <2>2. Last(a) # "/"
    <3>1. Len(w) \in 1..Len(w)
      BY <1>2
    <3> QED
      BY <1>2, <2>1, <3>1 DEF Last
  <2> QED
    BY <2>1, <2>2 DEF w
<1>9. CASE /\ B + 1 = Len(uri) /\ uri[Len(uri)] = "/"
           /\ a = SubSeq(uri, A + 1, Len(uri))
  <2>1. a \in Seq(UriSymbol) /\ Len(a) = Len(uri) - A /\ a[Len(a)] = "/" /\ a # <<>>
    <3>1. /\ a \in Seq(UriSymbol) /\ Len(a) = Len(uri) - A
          /\ \A k \in 1..Len(uri) - A : a[k] = uri[A + k]
      <4>1. A <= Len(uri)
        BY <1>1, <1>3
      <4> QED
        BY <1>1, <1>3, <1>9, <4>1, PartOfString
    <3>2. Len(a) >= 1
      BY <1>1, <1>3, <1>9, <3>1
    <3>3. Len(a) \in 1..Len(a) /\ A + Len(a) = Len(uri)
      BY <1>1, <1>3, <3>1, <3>2
    <3>4. Len(a) \in 1..Len(uri) - A
      BY <3>1, <3>3
    <3>5. a[Len(a)] = uri[Len(uri)]
      BY <3>1, <3>3, <3>4
    <3>6. a # <<>>
      BY <3>2, EmptySeq
    <3> QED
      BY <1>9, <3>1, <3>5, <3>6
  <2>2. Front(a) = SubSeq(uri, A + 1, B)
    <3>1. Front(a) = SubSeq(a, 1, Len(a) - 1)
      BY DEF Front
    <3> DEFINE b == SubSeq(uri, A + 1, B)
               f == SubSeq(a, 1, Len(a) - 1)
    <3>2. Len(b) = B - A /\ \A k \in 1..B - A : b[k] = uri[A + k]
      <4>1. A <= B
        BY <1>3
      <4> QED
        BY <1>1, <1>3, <4>1, PartOfString
    <3>3. \A k \in 1..Len(a) : a[k] = uri[A + k]
      <4>1. A <= Len(uri)
        BY <1>1, <1>3
      <4> QED
        BY <1>1, <1>3, <1>9, <2>1, <4>1, PartOfString
    <3>4. b \in Seq(UriSymbol) /\ f \in Seq(UriSymbol)
      BY <1>1, <1>3, <2>1, SubSeqProperties
    <3>5. Len(f) = Len(a) - 1 /\ \A k \in 1..Len(f) : f[k] = a[k]
      BY <1>1, <1>3, <1>9, <2>1
    <3> HIDE DEF b, f
    <3>6. Len(f) = Len(b)
      BY <1>1, <1>3, <1>9, <2>1, <3>2, <3>5
    <3>7. ASSUME NEW k \in 1..Len(b) PROVE f[k] = b[k]
      <4>1. k \in 1..Len(f) /\ k \in 1..Len(a)
        BY <1>3, <2>1, <3>2, <3>5, <3>6
      <4> QED
        BY <3>2, <3>3, <3>5, <4>1
    <3>8. f = b
      BY <3>4, <3>6, <3>7, SeqEqual
    <3> QED
      BY <3>1, <3>8 DEF b, f
  <2>3. Last(a) = "/"
    BY <2>1 DEF Last
  <2> QED
    BY <1>7, <2>1, <2>2, <2>3 DEF w
<1> QED
  BY <1>8, <1>9 DEF A, B

\* What the loop has found when it is over.
LEMMA PlacedAtTheEnd ==
  ASSUME UriInv, NEW d \in UriParts, WrittenUri[d] = uri, Placed(d), EndOfScan
  PROVE  /\ pos[1] = Len(d.proto) /\ pos[1] + doubleslash + 1 = AuthorityStart(d)
         /\ pos[3] = IF Bound(d, 3) < Bound(d, 4)
                     THEN IF Bound(d, 3) + 1 = Len(uri) THEN Len(uri) ELSE Bound(d, 3)
                     ELSE -1
         /\ pos[4] = IF Bound(d, 4) < Bound(d, 5) THEN Bound(d, 4) ELSE -1
         /\ pos[5] = IF Bound(d, 5) < Bound(d, 6) THEN Bound(d, 5) ELSE -1
<1> DEFINE P == Len(d.proto)
           A == AuthorityStart(d)
           B(k) == Bound(d, k)
<1>1. /\ Layout(d) /\ uri \in Seq(UriSymbol) /\ Len(uri) \in Nat /\ i \in Nat /\ i >= Len(uri)
  BY LayoutHolds DEF UriInv, Seen, EndOfScan
<1>2. /\ P \in Nat /\ A \in Nat /\ A \in {P + 1, P + 3}
      /\ B(3) \in Nat /\ B(4) \in Nat /\ B(5) \in Nat /\ B(6) \in Nat
      /\ A < B(3) /\ B(3) <= B(4) /\ B(4) <= B(5) /\ B(5) <= B(6) /\ B(6) = Len(uri)
      /\ B(5) # B(4) + 1 /\ B(6) # B(5) + 1
  BY <1>1 DEF Layout
<1>3. i <= Len(uri)
  BY DEF Placed
<1> HIDE DEF P, A, B
<1>4. i = Len(uri) /\ i > P
  BY <1>1, <1>2, <1>3
<1>5. /\ pos[1] = P /\ doubleslash = A - P - 1
      /\ \A k \in 3..5 :
           pos[k] = IF Reached(d, k)
                    THEN IF B(k) + 1 = Len(uri) THEN Len(uri) ELSE B(k)
                    ELSE -1
  BY <1>4 DEF Placed, P, A, B
<1>6. /\ Reached(d, 3) <=> B(3) < B(4)
      /\ Reached(d, 4) <=> B(4) < B(5)
      /\ Reached(d, 5) <=> B(5) < B(6)
  <2>1. /\ B(3) < B(4) => B(3) < i
        /\ B(4) < B(5) => B(4) < i
        /\ B(5) < B(6) => B(5) < i
    BY <1>2, <1>4
  <2>2. 3 + 1 = 4 /\ 4 + 1 = 5 /\ 5 + 1 = 6
    OBVIOUS
  <2> QED
    BY <2>1, <2>2 DEF Reached, B
<1>7. P + doubleslash + 1 = A
  BY <1>2, <1>5
<1>8. /\ B(4) < B(5) => B(4) + 1 # Len(uri)
      /\ B(5) < B(6) => B(5) + 1 # Len(uri)
  BY <1>1, <1>2
<1>9. 3 \in 3..5 /\ 4 \in 3..5 /\ 5 \in 3..5
  OBVIOUS
<1>10. pos[3] = IF B(3) < B(4) THEN IF B(3) + 1 = Len(uri) THEN Len(uri) ELSE B(3) ELSE -1
  BY <1>5, <1>6, <1>9
<1>11. pos[4] = IF B(4) < B(5) THEN B(4) ELSE -1
  BY <1>5, <1>6, <1>8, <1>9
<1>12. pos[5] = IF B(5) < B(6) THEN B(5) ELSE -1
  BY <1>5, <1>6, <1>8, <1>9
<1> QED
  BY <1>5, <1>7, <1>10, <1>11, <1>12 DEF P, A, B

LEMMA BoundsFollow ==
  ASSUME NEW A0 \in Nat, NEW A \in Nat, NEW H \in Nat, NEW Q \in Nat, NEW F \in Nat,
         NEW B3, B3 = A0 + A + 0 + 0 + 0, NEW B4, B4 = A0 + A + H + 0 + 0,
         NEW B5, B5 = A0 + A + H + Q + 0, NEW B6, B6 = A0 + A + H + Q + F
  PROVE  B4 = B3 + H /\ B5 = B4 + Q /\ B6 = B5 + F
OBVIOUS

\* A uri that is put together from parts is cut into them.
LEMMA CutMeant ==
  ASSUME UriInv, NEW d \in UriParts, WrittenUri[d] = uri, Placed(d), CutParts
  PROVE  part' = Meant(d)
<1> DEFINE P == Len(d.proto)
           A == AuthorityStart(d)
           B3 == Bound(d, 3)
           B4 == Bound(d, 4)
           B5 == Bound(d, 5)
           L == Len(uri)
<1>1. /\ Layout(d) /\ uri \in Seq(UriSymbol) /\ EndOfScan
  BY LayoutHolds DEF UriInv, Seen, CutParts
<1>2. /\ P \in Nat /\ A \in Nat /\ A \in {P + 1, P + 3}
      /\ B3 \in Nat /\ B4 \in Nat /\ B5 \in Nat /\ L \in Nat
      /\ A < B3 /\ B3 <= B4 /\ B4 <= B5 /\ B5 <= L
      /\ B5 # B4 + 1 /\ L # B5 + 1
  BY <1>1 DEF Layout
<1>3. /\ pos[1] = P /\ pos[1] + doubleslash + 1 = A
      /\ pos[3] = IF B3 < B4 THEN IF B3 + 1 = L THEN L ELSE B3 ELSE -1
      /\ pos[4] = IF B4 < B5 THEN B4 ELSE -1
      /\ pos[5] = IF B5 < L THEN B5 ELSE -1
      /\ L = Bound(d, 6) /\ doubleslash \in Int
  <2>1. L = Bound(d, 6)
    BY <1>1 DEF Layout
  <2>2. doubleslash \in Int
    BY DEF UriInv, Seen
  <2>3. /\ pos[1] = Len(d.proto) /\ pos[1] + doubleslash + 1 = AuthorityStart(d)
        /\ pos[3] = IF Bound(d, 3) < Bound(d, 4)
                    THEN IF Bound(d, 3) + 1 = Len(uri) THEN Len(uri) ELSE Bound(d, 3)
                    ELSE -1
        /\ pos[4] = IF Bound(d, 4) < Bound(d, 5) THEN Bound(d, 4) ELSE -1
        /\ pos[5] = IF Bound(d, 5) < Bound(d, 6) THEN Bound(d, 5) ELSE -1
    BY <1>1, PlacedAtTheEnd
  <2> QED
    BY <2>1, <2>2, <2>3
<1>4. /\ d.proto \in Seq(UriSymbol) /\ d.authority \in Seq(UriSymbol)
      /\ d.path \in Seq(UriSymbol) /\ d.query \in Seq(UriSymbol)
      /\ d.fragment \in Seq(UriSymbol)
      /\ \A s \in Seq(UriSymbol) : Len(s) \in Nat /\ (s = <<>> <=> Len(s) = 0)
  BY PartsType, LenProperties, EmptySeq
<1>5. /\ IsAt(d.proto, 0) /\ IsAt(d.path, B3) /\ IsAt(d.query, B4) /\ IsAt(d.fragment, B5)
  <2>1. /\ IsAt(d.proto, 0)
        /\ IsAt(PartOf(d, 3), B3) /\ IsAt(PartOf(d, 4), B4) /\ IsAt(PartOf(d, 5), B5)
    BY <1>1, PartsAreAt
  <2> QED
    BY <2>1 DEF PartOf
<1>6. /\ B4 = B3 + Len(d.path) /\ B5 = B4 + Len(d.query) /\ L = B5 + Len(d.fragment)
  <2> DEFINE M == Len(d.authority)
             H == Len(d.path)
             Q == Len(d.query)
             F == Len(d.fragment)
             B6 == Bound(d, 6)
  <2>1. /\ B3 = A + M + 0 + 0 + 0 /\ B4 = A + M + H + 0 + 0
        /\ B5 = A + M + H + Q + 0 /\ B6 = A + M + H + Q + F
    BY DEF Bound
  <2>2. A \in Nat /\ M \in Nat /\ H \in Nat /\ Q \in Nat /\ F \in Nat
    BY <1>2, <1>4
  <2>3. L = B6
    BY <1>3
  <2> HIDE DEF A, B3, B4, B5, B6, M, H, Q, F, L
  <2>4. B4 = B3 + H /\ B5 = B4 + Q /\ B6 = B5 + F
    BY <2>1, <2>2, BoundsFollow
  <2> QED
    BY <2>3, <2>4 DEF H, Q, F
<1>7. /\ SubSeq(uri, 1, P) = d.proto
      /\ d.path # <<>> => SubSeq(uri, B3 + 2, B4) = Tail(d.path)
      /\ d.query # <<>> => SubSeq(uri, B4 + 2, B5) = Tail(d.query)
      /\ d.fragment # <<>> => SubSeq(uri, B5 + 2, L) = Tail(d.fragment)
  <2>1. SubSeq(uri, 0 + 1, 0 + P) = d.proto
    BY <1>1, <1>4, <1>5, PartIsCut
  <2>2. /\ d.path # <<>> => SubSeq(uri, B3 + 2, B3 + Len(d.path)) = Tail(d.path)
        /\ d.query # <<>> => SubSeq(uri, B4 + 2, B4 + Len(d.query)) = Tail(d.query)
        /\ d.fragment # <<>> => SubSeq(uri, B5 + 2, B5 + Len(d.fragment)) = Tail(d.fragment)
    BY <1>1, <1>2, <1>4, <1>5, PartIsCut
  <2>3. 0 + 1 = 1 /\ 0 + P = P
    BY <1>2
  <2> QED
    BY <1>6, <2>1, <2>2, <2>3
<1>8. /\ d.path = <<>> <=> ~(B3 < B4)
      /\ d.query = <<>> <=> ~(B4 < B5)
      /\ d.fragment = <<>> <=> ~(B5 < L)
  <2> HIDE DEF P, A, B3, B4, B5, L
  <2>1. ASSUME NEW s \in Seq(UriSymbol), NEW b \in Nat, NEW c \in Nat, c = b + Len(s)
        PROVE  s = <<>> <=> ~(b < c)
    <3>1. Len(s) \in Nat /\ (s = <<>> <=> Len(s) = 0)
      BY <1>4
    <3> QED
      BY <2>1, <3>1
  <2>2. d.path = <<>> <=> ~(B3 < B4)
    BY <1>2, <1>4, <1>6, <2>1
  <2>3. d.query = <<>> <=> ~(B4 < B5)
    <3>1. d.query \in Seq(UriSymbol) /\ B5 = B4 + Len(d.query) /\ B4 \in Nat /\ B5 \in Nat
      BY <1>2, <1>4, <1>6
    <3> QED
      BY <2>1, <3>1, Zenon
  <2>4. d.fragment = <<>> <=> ~(B5 < L)
    <3>1. d.fragment \in Seq(UriSymbol) /\ L = B5 + Len(d.fragment) /\ B5 \in Nat /\ L \in Nat
      BY <1>2, <1>4, <1>6
    <3> QED
      BY <2>1, <3>1, Zenon
  <2> QED
    BY <2>2, <2>3, <2>4
<1>9. /\ B3 < B4 => uri[B3 + 1] = "/"
  BY <1>1 DEF Layout, Delimiter
<1>10. d.path # <<>> /\ B3 + 1 = L => Tail(d.path) = <<>>
  <2> SUFFICES ASSUME d.path # <<>>, B3 + 1 = L PROVE Tail(d.path) = <<>>
    OBVIOUS
  <2> HIDE DEF P, A, B3, B4, B5, L
  <2>1. B4 < B3 + 2
    BY <1>2
  <2>2. SubSeq(uri, B3 + 2, B4) = <<>>
    BY <1>2, <2>1, SubSeqEmpty
  <2> QED
    BY <1>7, <2>2
<1>11. PICK query \in IF pos[4] # -1 THEN Cut(pos[4], QueryLen) ELSE {<<>>} :
       \E fragment \in IF pos[5] # -1 THEN Cut(pos[5], FragmentLen) ELSE {<<>>} :
         part' = [proto |-> Copied(0, pos[1]),
                  authority |-> Authority,
                  path |-> IF HasPath THEN Copied(pos[3] + 1, PathLen - 1) ELSE <<>>,
                  query |-> query,
                  fragment |-> fragment]
  BY DEF CutParts
<1>12. PICK fragment \in IF pos[5] # -1 THEN Cut(pos[5], FragmentLen) ELSE {<<>>} :
         part' = [proto |-> Copied(0, pos[1]),
                  authority |-> Authority,
                  path |-> IF HasPath THEN Copied(pos[3] + 1, PathLen - 1) ELSE <<>>,
                  query |-> query,
                  fragment |-> fragment]
  BY <1>11
<1> HIDE DEF P, A, B3, B4, B5
\* What a copy is when it ends inside the uri.
<1>13. ASSUME NEW k \in Nat, NEW n \in Int, k + n <= L
       PROVE  Copied(k, n) = SubSeq(uri, k + 1, k + n)
  <2>1. (IF k + n < L THEN k + n ELSE L) = k + n
    BY <1>2, <1>13
  <2> QED
    BY <2>1 DEF Copied
<1> HIDE DEF L
<1>14. Copied(0, pos[1]) = d.proto
  <2>1. 0 + P <= L /\ 0 + 1 = 1 /\ 0 + P = P /\ P \in Int
    BY <1>2
  <2> QED
    BY <1>3, <1>7, <1>13, <2>1
<1>15. query = Behind(d.query)
  <2>1. CASE B4 < B5
    <3>1. pos[4] = B4 /\ pos[4] # -1
      BY <1>2, <1>3, <2>1
    <3>2. QueryLen = B5 - B4
      BY <1>2, <1>3, <3>1 DEF QueryLen, L
    <3>3. QueryLen # 0 /\ B4 + 1 \in Nat /\ QueryLen - 1 \in Int
          /\ (B4 + 1) + (QueryLen - 1) = B5 /\ (B4 + 1) + 1 = B4 + 2
      BY <1>2, <2>1, <3>2
    <3>4. query = Copied(B4 + 1, QueryLen - 1)
      BY <1>11, <3>1, <3>3 DEF Cut
    <3>5. query = SubSeq(uri, B4 + 2, B5)
      BY <1>2, <1>13, <3>3, <3>4
    <3> QED
      BY <1>7, <1>8, <2>1, <3>5 DEF Behind
  <2>2. CASE ~(B4 < B5)
    BY <1>3, <1>8, <1>11, <2>2 DEF Behind
  <2> QED
    BY <2>1, <2>2
<1>16. fragment = Behind(d.fragment)
  <2>1. CASE B5 < L
    <3>1. pos[5] = B5 /\ pos[5] # -1
      BY <1>2, <1>3, <2>1
    <3>2. FragmentLen = L - B5
      BY <1>2, <1>3, <3>1 DEF FragmentLen, L
    <3>3. FragmentLen # 0 /\ B5 + 1 \in Nat /\ FragmentLen - 1 \in Int
          /\ (B5 + 1) + (FragmentLen - 1) = L /\ (B5 + 1) + 1 = B5 + 2
      BY <1>2, <2>1, <3>2
    <3>4. fragment = Copied(B5 + 1, FragmentLen - 1)
      BY <1>12, <3>1, <3>3 DEF Cut
    <3>5. fragment = SubSeq(uri, B5 + 2, L)
      <4>1. (B5 + 1) + (FragmentLen - 1) <= L
        BY <1>2, <3>3
      <4> QED
        BY <1>13, <3>3, <3>4, <4>1
    <3> QED
      BY <1>7, <1>8, <2>1, <3>5 DEF Behind
  <2>2. CASE ~(B5 < L)
    BY <1>3, <1>8, <1>12, <2>2 DEF Behind
  <2> QED
    BY <2>1, <2>2
<1>17. (IF HasPath THEN Copied(pos[3] + 1, PathLen - 1) ELSE <<>>) = Behind(d.path)
  <2>1. CASE B3 < B4 /\ B3 + 1 # L
    <3>1. pos[3] = B3 /\ pos[3] # -1 /\ pos[3] # L
      BY <1>2, <1>3, <2>1
    <3>2. PathLen = B4 - B3
      BY <1>2, <1>3, <3>1 DEF PathLen, L
    <3>3. B3 + 1 \in Nat /\ PathLen - 1 \in Int
          /\ (B3 + 1) + (PathLen - 1) = B4 /\ (B3 + 1) + 1 = B3 + 2 /\ B4 <= L
      BY <1>2, <2>1, <3>2
    <3>4. Copied(pos[3] + 1, PathLen - 1) = SubSeq(uri, B3 + 2, B4)
      BY <1>13, <3>1, <3>3
    <3> QED
      BY <1>7, <1>8, <2>1, <3>1, <3>4 DEF Behind, HasPath, L
  <2>2. CASE B3 < B4 /\ B3 + 1 = L
    <3>1. ~HasPath
      BY <1>3, <2>2 DEF HasPath, L
    <3> QED
      BY <1>8, <1>10, <2>2, <3>1 DEF Behind
  <2>3. CASE ~(B3 < B4)
    <3>1. ~HasPath
      BY <1>3, <2>3 DEF HasPath
    <3> QED
      BY <1>8, <2>3, <3>1 DEF Behind
  <2> QED
    BY <2>1, <2>2, <2>3
<1>18. Authority = d.authority
  <2> DEFINE a == Copied(pos[1] + doubleslash + 1, AuthorityLen)
  <2>1. AuthorityEnd = IF B3 < B4 /\ B3 + 1 = L THEN L ELSE B3
    <3>1. CASE B3 < B4
      BY <1>2, <1>3, <3>1 DEF AuthorityEnd
    <3>2. CASE ~(B3 < B4) /\ B4 < B5
      BY <1>2, <1>3, <3>2 DEF AuthorityEnd
    <3>3. CASE ~(B3 < B4) /\ ~(B4 < B5) /\ B5 < L
      BY <1>2, <1>3, <3>3 DEF AuthorityEnd
    <3>4. CASE ~(B3 < B4) /\ ~(B4 < B5) /\ ~(B5 < L)
      <4>1. B3 = L /\ P + 1 < L
        BY <1>2, <3>4
      <4> QED
        BY <1>2, <1>3, <3>4, <4>1 DEF AuthorityEnd, L
    <3> QED
      BY <3>1, <3>2, <3>3, <3>4
  <2>2. AuthorityEnd \in Nat /\ AuthorityEnd <= L
    BY <1>2, <2>1
  <2>3. AuthorityLen = AuthorityEnd - A
    BY <1>2, <1>3, <2>2 DEF AuthorityLen
  <2>4. A + AuthorityLen = AuthorityEnd /\ AuthorityLen \in Int
    BY <1>2, <2>2, <2>3
  <2>5. a = SubSeq(uri, A + 1, AuthorityEnd)
    BY <1>2, <1>3, <1>13, <2>2, <2>4
  <2> HIDE DEF a
  <2>6. \/ a = SubSeq(uri, A + 1, B3)
        \/ B3 + 1 = L /\ uri[L] = "/" /\ a = SubSeq(uri, A + 1, L)
    BY <1>9, <2>1, <2>5
  <2>7. (IF a # <<>> /\ Last(a) = "/" THEN Front(a) ELSE a) = d.authority
    BY <2>6, AuthorityIsCut DEF A, B3, L
  <2> QED
    BY <2>7 DEF Authority, a
<1> QED
  BY <1>12, <1>14, <1>15, <1>16, <1>17, <1>18 DEF Meant

LEMMA MeantStep == UriInv /\ MeantInv /\ [UriNext]_uriVars => MeantInv'
<1> SUFFICES ASSUME UriInv, MeantInv, [UriNext]_uriVars PROVE MeantInv'
  OBVIOUS
<1>1. place' \in {"scan", "split", "pairs", "done", "crashed"} /\ uri' = uri
  BY DEF MeantInv, UriNext, FoundProto, FoundPart, SkipChar, MissingPart, CutParts, UriCrash,
         SplitQuery, AddParameter, AllParameters, uriVars
<1> SUFFICES ASSUME NEW d \in UriParts, WrittenUri[d] = uri
             PROVE  /\ place' = "scan" => Placed(d)'
                    /\ place' \in {"split", "pairs", "done"} => part' = Meant(d)
  BY <1>1 DEF MeantInv, Meant, Behind, WrittenUri
<1>2. /\ place = "scan" => Placed(d)
      /\ place \in {"split", "pairs", "done"} => part = Meant(d)
  BY DEF MeantInv
<1>3. CASE FoundProto
  <2>1. place = "scan" /\ place' = "scan"
    BY <1>3 DEF FoundProto, Scanning
  <2> QED
    BY <1>2, <1>3, <2>1, ColonPlaces
<1>4. CASE FoundPart
  <2>1. place = "scan" /\ place' = "scan"
    BY <1>4 DEF FoundPart, Scanning
  <2> QED
    BY <1>2, <1>4, <2>1, PartPlaces
<1>5. CASE SkipChar
  <2>1. place = "scan" /\ place' = "scan"
    BY <1>5 DEF SkipChar, Scanning
  <2> QED
    BY <1>2, <1>5, <2>1, SkipPlaces
<1>6. CASE MissingPart
  <2>1. EndOfScan /\ place = "scan" /\ (pos[1] = -1 \/ AuthorityEnd = -1)
    BY <1>6 DEF MissingPart, EndOfScan
  <2>2. Placed(d) /\ Layout(d)
    BY <1>2, <2>1, LayoutHolds DEF UriInv, Seen
  <2>3. FALSE
    <3> DEFINE P == Len(d.proto)
               A == AuthorityStart(d)
               B3 == Bound(d, 3)
               B4 == Bound(d, 4)
               B5 == Bound(d, 5)
               L == Len(uri)
    <3>1. /\ pos[1] = P
          /\ pos[3] = IF B3 < B4 THEN IF B3 + 1 = L THEN L ELSE B3 ELSE -1
          /\ pos[4] = IF B4 < B5 THEN B4 ELSE -1
          /\ pos[5] = IF B5 < Bound(d, 6) THEN B5 ELSE -1
      BY <2>1, <2>2, PlacedAtTheEnd
    <3>2. /\ P \in Nat /\ A \in Nat /\ A \in {P + 1, P + 3} /\ Bound(d, 6) = L
          /\ B3 \in Nat /\ B4 \in Nat /\ B5 \in Nat /\ L \in Nat
          /\ A < B3 /\ B3 <= B4 /\ B4 <= B5 /\ B5 <= L
      BY <2>2 DEF Layout
    <3> HIDE DEF P, A, B3, B4, B5, L
    <3>3. pos[1] # -1 /\ AuthorityEnd = -1
      BY <2>1, <3>1, <3>2
    <3>4. ~(B3 < B4) /\ ~(B4 < B5) /\ ~(B5 < L)
      BY <3>1, <3>2, <3>3 DEF AuthorityEnd
    <3>5. P + 1 < L
      BY <3>2, <3>4
    <3> QED
      BY <3>1, <3>2, <3>3, <3>4, <3>5 DEF AuthorityEnd, L
  <2> QED
    BY <2>3
<1>7. CASE CutParts
  <2>1. place = "scan" /\ place' = "split"
    BY <1>7 DEF CutParts, EndOfScan
  <2> QED
    BY <1>2, <1>7, <2>1, CutMeant
<1>8. CASE UriCrash
  BY <1>8 DEF UriCrash
<1>9. CASE SplitQuery
  BY <1>2, <1>9 DEF SplitQuery
<1>10. CASE AddParameter
  BY <1>2, <1>10 DEF AddParameter
<1>11. CASE AllParameters
  BY <1>2, <1>11 DEF AllParameters
<1>12. CASE UNCHANGED uriVars
  <2>1. Placed(d) => Placed(d)'
    BY <1>12 DEF uriVars, Placed, Reached, Bound, AuthorityStart
  <2> QED
    BY <1>2, <1>12, <2>1 DEF uriVars
<1> QED
  BY <1>3, <1>4, <1>5, <1>6, <1>7, <1>8, <1>9, <1>10, <1>11, <1>12 DEF UriNext

\* A uri as it is documented is cut into the parts it was put together from,
\* whatever the parts are (doc/README.txt; uriparse.c:94-233).
THEOREM UrisAreCutAsMeant == UriSpec => []PartsAreMeant
<1>1. UriInv /\ MeantInv => PartsAreMeant
  BY DEF MeantInv, PartsAreMeant
<1> QED
  BY <1>1, UriInvInit, MeantInit, UriInvStep, MeantStep, PTL DEF UriSpec

-----------------------------------------------------------------------------
(* A query that is put together from names and values *)

\* The texts put together, with delimiters between them.
Joined(texts, delim) ==
  FlattenSeq([n \in DOMAIN texts |-> (IF n = 1 THEN <<>> ELSE <<delim>>) \o texts[n]])

\* Where the texts are in it.
LEMMA JoinedTexts ==
  ASSUME NEW T, NEW delim \in T, NEW texts \in Seq(Seq(T)),
         \A n \in 1..Len(texts) : texts[n] # <<>>
  PROVE  /\ Joined(texts, delim) \in Seq(T)
         /\ \E b \in [1..Len(texts) -> Nat] :
              /\ Len(texts) >= 1 => b[1] = 0
              /\ \A n \in 1..Len(texts) :
                   /\ b[n] + Len(texts[n]) <= Len(Joined(texts, delim))
                   /\ \A k \in 1..Len(texts[n]) : Joined(texts, delim)[b[n] + k] = texts[n][k]
                   /\ n > 1 => b[n] >= 1 /\ Joined(texts, delim)[b[n]] = delim
                   /\ \/ n = Len(texts) /\ b[n] + Len(texts[n]) = Len(Joined(texts, delim))
                      \/ n < Len(texts) /\ b[n + 1] = b[n] + Len(texts[n]) + 1
              /\ \A m, n \in 1..Len(texts) : m < n => b[m] + Len(texts[m]) < b[n]
              /\ \A k \in 1..Len(Joined(texts, delim)) :
                   \E n \in 1..Len(texts) :
                     (n > 1 /\ k = b[n]) \/ (b[n] < k /\ k <= b[n] + Len(texts[n]))
<1> DEFINE N == Len(texts)
           gap(n) == IF n = 1 THEN 0 ELSE 1
           seqs == [n \in DOMAIN texts |-> (IF n = 1 THEN <<>> ELSE <<delim>>) \o texts[n]]
           q == Joined(texts, delim)
<1>1. /\ N \in Nat /\ DOMAIN texts = 1..N
      /\ \A n \in 1..N : texts[n] \in Seq(T)
  OBVIOUS
<1>2. ASSUME NEW n \in 1..N PROVE Len(texts[n]) \in Nat /\ Len(texts[n]) >= 1
  <2>1. texts[n] \in Seq(T) /\ texts[n] # <<>>
    BY <1>1
  <2>2. Len(texts[n]) \in Nat /\ Len(texts[n]) # 0
    BY <2>1, LenProperties, EmptySeq
  <2> QED
    BY <2>2
<1>3. ASSUME NEW n \in 1..N
      PROVE  /\ seqs[n] \in Seq(T) /\ Len(seqs[n]) = gap(n) + Len(texts[n])
             /\ n > 1 => seqs[n][1] = delim
             /\ \A k \in 1..Len(texts[n]) : seqs[n][gap(n) + k] = texts[n][k]
  <2> DEFINE y == texts[n]
             z == seqs[n]
  <2>1. y \in Seq(T) /\ Len(y) \in Nat
    BY <1>1, <1>2
  <2>2. CASE n = 1
    <3>1. z = <<>> \o y
      BY <1>1, <2>2
    <3>2. z = y
      BY <2>1, <3>1, ConcatEmptySeq
    <3>3. \A k \in 1..Len(y) : 0 + k = k
      BY <2>1
    <3> QED
      BY <2>1, <2>2, <3>2, <3>3
  <2>3. CASE n # 1
    <3>1. z = <<delim>> \o y
      BY <1>1, <2>3
    <3> HIDE DEF y, z
    <3>2. <<delim>> \in Seq(T) /\ Len(<<delim>>) = 1 /\ <<delim>>[1] = delim
      OBVIOUS
    <3>3. z \in Seq(T)
      BY <2>1, <3>1, <3>2, FollowedBy
    <3>4. Len(z) = 1 + Len(y)
      BY <2>1, <3>1, <3>2, FollowedBy
    <3>5. z[1] = delim
      <4>1. \A k \in 1..Len(<<delim>>) : z[k] = <<delim>>[k]
        BY <2>1, <3>1, <3>2, FollowedBy
      <4> QED
        BY <3>2, <4>1
    <3>6. \A k \in 1..Len(y) : z[1 + k] = y[k]
      <4>1. \A k \in 1..Len(y) : z[Len(<<delim>>) + k] = y[k]
        BY <2>1, <3>1, <3>2, FollowedBy
      <4> QED
        BY <3>2, <4>1
    <3> QED
      BY <2>3, <3>3, <3>4, <3>5, <3>6 DEF y, z
  <2> QED
    BY <2>2, <2>3
<1>4. seqs \in Seq(Seq(T)) /\ Len(seqs) = N /\ FlattenSeq(seqs) = q
  <2>1. FlattenSeq(seqs) = q
    BY DEF Joined
  <2>2. seqs \in [1..N -> Seq(T)]
    <3> DEFINE s == [n \in DOMAIN texts |-> seqs[n]]
    <3>1. seqs = [n \in 1..N |-> seqs[n]]
      BY <1>1
    <3> HIDE DEF seqs
    <3> QED
      BY <1>3, <3>1
  <2> HIDE DEF seqs
  <2>3. seqs \in Seq(Seq(T)) /\ Len(seqs) = N
    <3> HIDE DEF N
    <3> QED
      BY <1>1, <2>2, IsSequence
  <2> QED
    BY <2>1, <2>3
<1> HIDE DEF seqs, N
<1>0. /\ gap(1) = 0 /\ \A n \in 1..N : gap(n) \in {0, 1} /\ (n > 1 => gap(n) = 1)
  BY <1>1
<1> HIDE DEF gap
<1>5. /\ q \in Seq(T)
      /\ \E e \in [0..N -> Nat] :
           /\ e[0] = 0 /\ e[N] = Len(q)
           /\ \A n \in 1..N :
                /\ e[n] = e[n - 1] + Len(seqs[n])
                /\ \A k \in 1..Len(seqs[n]) : q[e[n - 1] + k] = seqs[n][k]
           /\ \A m, n \in 0..N : m <= n => e[m] <= e[n]
           /\ \A k \in 1..e[N] : \E n \in 1..N : e[n - 1] < k /\ k <= e[n]
  <2>1. /\ FlattenSeq(seqs) \in Seq(T)
        /\ \E e \in [0..Len(seqs) -> Nat] :
             /\ e[0] = 0 /\ e[Len(seqs)] = Len(FlattenSeq(seqs))
             /\ \A n \in 1..Len(seqs) :
                  /\ e[n] = e[n - 1] + Len(seqs[n])
                  /\ \A k \in 1..Len(seqs[n]) : FlattenSeq(seqs)[e[n - 1] + k] = seqs[n][k]
             /\ \A m, n \in 0..Len(seqs) : m <= n => e[m] <= e[n]
             /\ \A k \in 1..e[Len(seqs)] :
                  \E n \in 1..Len(seqs) : e[n - 1] < k /\ k <= e[n]
    BY <1>4, FlattenedElements
  <2> HIDE DEF q
  <2> QED
    BY <1>4, <2>1
<1> HIDE DEF q
<1>6. PICK e \in [0..N -> Nat] :
        /\ e[0] = 0 /\ e[N] = Len(q)
        /\ \A n \in 1..N :
             /\ e[n] = e[n - 1] + Len(seqs[n])
             /\ \A k \in 1..Len(seqs[n]) : q[e[n - 1] + k] = seqs[n][k]
        /\ \A m, n \in 0..N : m <= n => e[m] <= e[n]
        /\ \A k \in 1..e[N] : \E n \in 1..N : e[n - 1] < k /\ k <= e[n]
  BY <1>5
<1> DEFINE b == [n \in 1..N |-> e[n - 1] + gap(n)]
<1>7. ASSUME NEW n \in 1..N
      PROVE  /\ n - 1 \in 0..N /\ n \in 0..N /\ e[n - 1] \in Nat /\ e[n] \in Nat /\ n \in Nat
             /\ b[n] = e[n - 1] + gap(n)
             /\ e[n] = b[n] + Len(texts[n])
             /\ e[n] <= Len(q)
  <2>1. /\ n - 1 \in 0..N /\ n \in 0..N /\ N \in 0..N /\ n <= N
    BY <1>1
  <2>2. e[n - 1] \in Nat /\ e[n] \in Nat /\ e[n] <= e[N]
    BY <1>6, <2>1
  <2>3. e[n] = e[n - 1] + (gap(n) + Len(texts[n]))
    BY <1>3, <1>6
  <2>4. gap(n) \in Nat /\ Len(texts[n]) \in Nat
    BY <1>0, <1>2
  <2>5. b[n] = e[n - 1] + gap(n)
    OBVIOUS
  <2> HIDE DEF b
  <2>6. e[n] = b[n] + Len(texts[n])
    BY <2>2, <2>3, <2>4, <2>5
  <2> QED
    BY <1>6, <2>1, <2>2, <2>5, <2>6
<1>8. b \in [1..N -> Nat]
  BY <1>0, <1>7
<1> HIDE DEF b
<1>9. ASSUME NEW n \in 1..N, NEW k \in 1..Len(texts[n])
      PROVE  q[b[n] + k] = texts[n][k]
  <2>1. seqs[n][gap(n) + k] = texts[n][k]
    BY <1>3
  <2>2. gap(n) + k \in 1..Len(seqs[n])
    <3>1. Len(seqs[n]) = gap(n) + Len(texts[n]) /\ gap(n) \in Nat /\ Len(texts[n]) \in Nat
      BY <1>0, <1>2, <1>3
    <3> QED
      BY <3>1
  <2>3. e[n - 1] + (gap(n) + k) = b[n] + k
    <3>1. b[n] = e[n - 1] + gap(n) /\ gap(n) \in Nat /\ e[n - 1] \in Nat
      BY <1>0, <1>7
    <3> QED
      BY <3>1
  <2> QED
    BY <1>6, <2>1, <2>2, <2>3
<1>10. ASSUME NEW n \in 1..N, n > 1
       PROVE  b[n] = e[n - 1] + 1 /\ b[n] >= 1 /\ q[b[n]] = delim
  <2>1. b[n] = e[n - 1] + 1 /\ b[n] >= 1
    BY <1>0, <1>7, <1>10
  <2>2. 1 \in 1..Len(seqs[n])
    <3>1. Len(seqs[n]) = 1 + Len(texts[n]) /\ Len(texts[n]) \in Nat
      BY <1>0, <1>2, <1>3, <1>10
    <3> QED
      BY <3>1
  <2>3. q[e[n - 1] + 1] = seqs[n][1]
    BY <1>6, <2>2
  <2> QED
    BY <1>3, <1>10, <2>1, <2>3
<1>11. ASSUME NEW n \in 1..N
       PROVE  \/ n = N /\ b[n] + Len(texts[n]) = Len(q)
              \/ n < N /\ b[n + 1] = b[n] + Len(texts[n]) + 1
  <2>1. CASE n = N
    BY <1>6, <1>7, <2>1
  <2>2. CASE n # N
    <3>1. n < N /\ n + 1 \in 1..N /\ n + 1 > 1 /\ (n + 1) - 1 = n
      BY <1>1, <2>2
    <3> QED
      BY <1>7, <1>10, <3>1
  <2> QED
    BY <2>1, <2>2
<1>12. ASSUME NEW m \in 1..N, NEW n \in 1..N, m < n
       PROVE  b[m] + Len(texts[m]) < b[n]
  <2>1. n > 1 /\ m <= n - 1 /\ m \in 0..N /\ n - 1 \in 0..N
    BY <1>1, <1>12
  <2>2. e[m] <= e[n - 1] /\ b[n] = e[n - 1] + 1
    BY <1>6, <1>10, <2>1
  <2> QED
    BY <1>7, <2>2
<1>13. ASSUME NEW k \in 1..Len(q)
       PROVE  \E n \in 1..N : (n > 1 /\ k = b[n]) \/ (b[n] < k /\ k <= b[n] + Len(texts[n]))
  <2>1. PICK n \in 1..N : e[n - 1] < k /\ k <= e[n]
    BY <1>6
  <2>2. CASE n = 1
    <3>1. b[n] = e[n - 1]
      BY <1>0, <1>7, <2>2
    <3> QED
      BY <1>7, <2>1, <3>1
  <2>3. CASE n # 1
    <3>1. n > 1
      BY <2>3
    <3>2. b[n] = e[n - 1] + 1 /\ e[n - 1] \in Nat
      BY <1>7, <1>10, <3>1
    <3>3. k = b[n] \/ b[n] < k
      BY <2>1, <3>2
    <3> QED
      BY <1>7, <2>1, <3>1, <3>3
  <2> QED
    BY <2>2, <2>3
<1>14. N >= 1 => b[1] = 0
  <2> SUFFICES ASSUME N >= 1 PROVE b[1] = 0
    OBVIOUS
  <2>1. 1 \in 1..N /\ 1 - 1 = 0
    BY <1>1
  <2>2. b[1] = e[0] + 0
    BY <1>0, <1>7, <2>1
  <2> QED
    BY <1>6, <2>2
<1>15. \A n \in 1..N :
         /\ b[n] + Len(texts[n]) <= Len(q)
         /\ \A k \in 1..Len(texts[n]) : q[b[n] + k] = texts[n][k]
         /\ n > 1 => b[n] >= 1 /\ q[b[n]] = delim
         /\ \/ n = N /\ b[n] + Len(texts[n]) = Len(q)
            \/ n < N /\ b[n + 1] = b[n] + Len(texts[n]) + 1
  BY <1>7, <1>9, <1>10, <1>11
<1> QED
  BY <1>5, <1>8, <1>12, <1>13, <1>14, <1>15 DEF N, q

\* No text is empty or has the delimiter.
Unbroken(texts, delim) ==
  \A n \in 1..Len(texts) :
    texts[n] # <<>> /\ \A k \in 1..Len(texts[n]) : texts[n][k] # delim

\* strtok() gives the texts back that were put together with the delimiter.
LEMMA PiecesOfJoined ==
  ASSUME NEW T, NEW delim \in T, NEW texts \in Seq(Seq(T)), Unbroken(texts, delim)
  PROVE  Pieces(Joined(texts, delim), delim) = texts
<1> DEFINE N == Len(texts)
           q == Joined(texts, delim)
           B == PieceBegins(q, delim)
           len(n) == Len(texts[n])
<1>1. /\ N \in Nat /\ DOMAIN texts = 1..N
      /\ \A n \in 1..N : texts[n] \in Seq(T) /\ texts[n] # <<>>
      /\ \A n \in 1..N : \A k \in 1..len(n) : texts[n][k] # delim
  <2>1. N \in Nat /\ DOMAIN texts = 1..N /\ \A n \in 1..N : texts[n] \in Seq(T)
    OBVIOUS
  <2>2. \A n \in 1..N : texts[n] # <<>> /\ \A k \in 1..len(n) : texts[n][k] # delim
    BY Zenon DEF Unbroken
  <2> QED
    BY <2>1, <2>2
<1>2. ASSUME NEW n \in 1..N PROVE len(n) \in Nat /\ len(n) >= 1
  <2>1. texts[n] \in Seq(T) /\ texts[n] # <<>>
    BY <1>1
  <2>2. Len(texts[n]) \in Nat /\ Len(texts[n]) # 0
    BY <2>1, LenProperties, EmptySeq
  <2> QED
    BY <2>2
<1>3. q \in Seq(T) /\ Len(q) \in Nat /\ DOMAIN q = 1..Len(q)
  <2>1. \A n \in 1..Len(texts) : texts[n] # <<>>
    BY <1>1
  <2>2. q \in Seq(T)
    BY <2>1, JoinedTexts
  <2> QED
    BY <2>2, LenProperties
<1>4. PICK b \in [1..N -> Nat] :
        /\ N >= 1 => b[1] = 0
        /\ \A n \in 1..N :
             /\ b[n] + len(n) <= Len(q)
             /\ \A k \in 1..len(n) : q[b[n] + k] = texts[n][k]
             /\ n > 1 => b[n] >= 1 /\ q[b[n]] = delim
             /\ \/ n = N /\ b[n] + len(n) = Len(q)
                \/ n < N /\ b[n + 1] = b[n] + len(n) + 1
        /\ \A m, n \in 1..N : m < n => b[m] + len(m) < b[n]
        /\ \A k \in 1..Len(q) :
             \E n \in 1..N : (n > 1 /\ k = b[n]) \/ (b[n] < k /\ k <= b[n] + len(n))
  <2>1. \A n \in 1..Len(texts) : texts[n] # <<>>
    BY <1>1
  <2> QED
    BY <2>1, JoinedTexts
<1> HIDE DEF N, q, len
<1>5. ASSUME NEW n \in 1..N
      PROVE  /\ b[n] \in Nat /\ n \in Nat /\ n >= 1 /\ N >= 1
             /\ \A k \in b[n] + 1..b[n] + len(n) : q[k] # delim
  <2>1. b[n] \in Nat /\ n \in Nat /\ n >= 1 /\ N >= 1
    <3>1. N \in Nat
      BY <1>1
    <3>2. n \in Nat /\ n >= 1 /\ N >= 1
      BY <3>1
    <3> QED
      BY <3>2
  <2>2. ASSUME NEW k \in b[n] + 1..b[n] + len(n) PROVE q[k] # delim
    <3>1. k - b[n] \in 1..len(n) /\ b[n] + (k - b[n]) = k
      BY <1>2, <2>1
    <3>2. q[k] = texts[n][k - b[n]]
      BY <1>4, <3>1
    <3> QED
      BY <1>1, <3>1, <3>2
  <2> QED
    BY <2>1, <2>2
<1> DEFINE st == [n \in 1..N |-> b[n] + 1]
<1>6. st \in [1..N -> Int] /\ \A n \in 1..N : st[n] = b[n] + 1
  BY <1>5
<1> HIDE DEF st
<1>7. ASSUME NEW m \in 1..N, NEW n \in 1..N, m < n PROVE st[m] < st[n]
  <2>1. b[m] + len(m) < b[n] /\ b[m] \in Nat /\ b[n] \in Nat /\ len(m) \in Nat
    BY <1>2, <1>4, <1>5, <1>7
  <2> QED
    BY <1>6, <2>1
<1> DEFINE S == {st[n] : n \in 1..N}
\* The pieces begin where the texts do.
<1>8. ASSUME NEW n \in 1..N PROVE st[n] \in B
  <2>1. /\ st[n] = b[n] + 1 /\ b[n] \in Nat /\ len(n) \in Nat /\ len(n) >= 1
        /\ b[n] + len(n) <= Len(q)
    BY <1>2, <1>4, <1>5, <1>6
  <2>2. st[n] \in 1..Len(q) /\ st[n] \in b[n] + 1..b[n] + len(n)
    BY <1>3, <2>1
  <2>3. q[st[n]] # delim
    BY <1>5, <2>2
  <2>4. st[n] = 1 \/ q[st[n] - 1] = delim
    <3>1. CASE n = 1
      BY <1>4, <1>5, <2>1, <3>1
    <3>2. CASE n # 1
      <4>1. n > 1 /\ st[n] - 1 = b[n]
        BY <1>5, <2>1, <3>2
      <4> QED
        BY <1>4, <4>1
    <3> QED
      BY <3>1, <3>2
  <2> QED
    BY <1>3, <2>2, <2>3, <2>4 DEF PieceBegins
<1>9. ASSUME NEW k \in B PROVE \E n \in 1..N : k = st[n]
  <2>1. k \in 1..Len(q) /\ q[k] # delim /\ (k = 1 \/ q[k - 1] = delim)
    BY <1>3 DEF PieceBegins
  <2>2. PICK n \in 1..N : (n > 1 /\ k = b[n]) \/ (b[n] < k /\ k <= b[n] + len(n))
    BY <1>4, <2>1
  <2>3. b[n] < k /\ k <= b[n] + len(n)
    BY <1>4, <2>1, <2>2
  <2>4. k = b[n] + 1
    <3> SUFFICES ASSUME k # b[n] + 1 PROVE FALSE
      OBVIOUS
    <3>1. k - 1 \in b[n] + 1..b[n] + len(n) /\ k # 1
      <4>1. \A x, y, z \in Nat :
              x < y /\ y <= x + z /\ y # x + 1 => y - 1 \in x + 1..x + z /\ y # 1
        OBVIOUS
      <4>2. b[n] \in Nat /\ len(n) \in Nat
        BY <1>2, <1>5
      <4>3. k \in Nat
        BY <2>1
      <4> QED
        BY <2>3, <4>1, <4>2, <4>3, Zenon
    <3> QED
      BY <1>5, <2>1, <3>1
  <2> QED
    BY <1>6, <2>4
<1>10. B = S
  <2>1. \A k \in B : k \in S
    BY <1>9
  <2>2. \A k \in S : k \in B
    BY <1>8
  <2> HIDE DEF B, S
  <2> QED
    BY <2>1, <2>2
<1>11. Cardinality(B) = N /\ \A n \in 1..N : Cardinality(AtMost(B, st[n])) = n
  <2>1. \A m, n \in 1..N : m < n => st[m] < st[n]
    BY <1>7
  <2>2. Cardinality(S) = N /\ \A n \in 1..N : Cardinality(AtMost(S, st[n])) = n
    BY <1>1, <1>6, <2>1, RankOfIncreasing
  <2> HIDE DEF S, B
  <2> QED
    BY <1>10, <2>2
<1>12. B \subseteq 1..Len(q)
  BY <1>3 DEF PieceBegins
<1> HIDE DEF B, S
<1>13. ASSUME NEW n \in 1..N PROVE PieceBegin(q, delim, n) = st[n]
  <2> DEFINE c == PieceBegin(q, delim, n)
  <2>1. \E k \in B : Cardinality(AtMost(B, k)) = n
    BY <1>8, <1>11
  <2>2. c \in B /\ Cardinality(AtMost(B, c)) = n
    BY <2>1 DEF PieceBegin, AtMost, B
  <2> HIDE DEF c
  <2>3. st[n] \in B /\ Cardinality(AtMost(B, st[n])) = Cardinality(AtMost(B, c))
    BY <1>8, <1>11, <2>2
  <2>4. c = st[n]
    BY <1>3, <1>12, <2>2, <2>3, RankIsUnique
  <2> QED
    BY <2>4 DEF c
\* They end where the texts do.
<1>14. ASSUME NEW n \in 1..N PROVE PieceEnd(q, delim, st[n]) = b[n] + len(n)
  <2> DEFINE E == {e \in st[n]..Len(q) : e = Len(q) \/ q[e + 1] = delim}
             last == b[n] + len(n)
             m == Min(E)
  <2>1. /\ st[n] = b[n] + 1 /\ b[n] \in Nat /\ len(n) \in Nat /\ len(n) >= 1
        /\ last <= Len(q) /\ last \in Nat
    <3>1. \A x, y \in Nat : x + y \in Nat
      OBVIOUS
    <3>2. b[n] \in Nat /\ len(n) \in Nat /\ len(n) >= 1
      BY <1>2, <1>5, Zenon
    <3>3. b[n] + len(n) <= Len(q)
      BY <1>4, Zenon
    <3>4. st[n] = b[n] + 1
      BY <1>6, Zenon
    <3> QED
      BY <3>1, <3>2, <3>3, <3>4, Zenon
  <2>2. last \in E
    <3>1. last \in st[n]..Len(q)
      BY <1>3, <2>1
    <3>2. last = Len(q) \/ q[last + 1] = delim
      <4>1. CASE n = N
        BY <1>1, <1>4, <4>1
      <4>2. CASE n # N
        <5>1. n + 1 \in 1..N /\ n + 1 > 1
          BY <1>1, <4>2
        <5>2. b[n + 1] = last + 1
          BY <1>1, <1>4, <4>2
        <5> QED
          BY <1>4, <5>1, <5>2
      <4> QED
        BY <4>1, <4>2
    <3> QED
      BY <3>1, <3>2
  <2>3. E \subseteq Nat
    BY <1>3, <2>1
  <2>4. m \in E /\ \A e \in E : m <= e
    <3> HIDE DEF E
    <3> QED
      BY <2>2, <2>3, MinIsElement
  <2>5. m = Min(E)
    OBVIOUS
  <2> HIDE DEF m
  <2>6. m \in st[n]..Len(q) /\ (m = Len(q) \/ q[m + 1] = delim) /\ m <= last /\ m \in Nat
    BY <2>2, <2>3, <2>4
  <2> HIDE DEF E
  <2>7. m = last
    <3> SUFFICES ASSUME m # last PROVE FALSE
      OBVIOUS
    <3>1. m \in Nat /\ last \in Nat /\ b[n] \in Nat /\ b[n] + 1 <= m /\ m <= last
          /\ last <= Len(q)
      <4> HIDE DEF last
      <4>1. st[n] \in Int /\ Len(q) \in Int
        BY <1>3, <2>1
      <4>2. st[n] <= m
        BY <2>6, <4>1
      <4> QED
        BY <2>1, <2>6, <4>2
    <3>2. m # Len(q)
      <4> HIDE DEF last
      <4>1. \A x, y, z \in Nat : x <= y /\ y <= z /\ x # y => x # z
        OBVIOUS
      <4>2. Len(q) \in Nat
        BY <1>3
      <4> QED
        BY <3>1, <4>1, <4>2, Zenon
    <3>3. m + 1 \in b[n] + 1..last
      <4> HIDE DEF last
      <4> QED
        BY <3>1
    <3> QED
      BY <1>5, <2>6, <3>2, <3>3
  <2> QED
    BY <2>5, <2>7 DEF PieceEnd, E
<1>15. ASSUME NEW n \in 1..N PROVE SubSeq(q, st[n], b[n] + len(n)) = texts[n]
  <2> DEFINE s == SubSeq(q, b[n] + 1, b[n] + len(n))
  <2>1. /\ st[n] = b[n] + 1 /\ b[n] \in Nat /\ len(n) \in Nat /\ len(n) >= 1
        /\ b[n] + len(n) <= Len(q) /\ b[n] + len(n) \in Nat /\ b[n] <= b[n] + len(n)
        /\ (b[n] + len(n)) - b[n] = len(n)
    <3>1. \A x, y \in Nat : x + y \in Nat /\ x <= x + y /\ (x + y) - x = y
      OBVIOUS
    <3>2. b[n] \in Nat /\ len(n) \in Nat /\ len(n) >= 1
      BY <1>2, <1>5, Zenon
    <3>3. b[n] + len(n) <= Len(q)
      BY <1>4, Zenon
    <3>4. st[n] = b[n] + 1
      BY <1>6, Zenon
    <3> QED
      BY <3>1, <3>2, <3>3, <3>4, Zenon
  <2>2. /\ s \in Seq(T) /\ Len(s) = (b[n] + len(n)) - b[n]
        /\ \A k \in 1..(b[n] + len(n)) - b[n] : s[k] = q[b[n] + k]
    <3> DEFINE o == b[n]
               h == b[n] + len(n)
    <3>1. o \in Nat /\ h \in Nat /\ o <= h /\ h <= Len(q)
      BY <2>1
    <3> HIDE DEF o, h
    <3>2. LET v == SubSeq(q, o + 1, h)
          IN  v \in Seq(T) /\ Len(v) = h - o /\ \A k \in 1..h - o : v[k] = q[o + k]
      BY <1>3, <3>1, PartOfString
    <3> QED
      BY <3>2 DEF o, h
  <2> HIDE DEF s
  <2>3. Len(s) = len(n) /\ \A k \in 1..len(n) : s[k] = q[b[n] + k]
    BY <2>1, <2>2
  <2>4. Len(s) = Len(texts[n]) /\ \A k \in 1..Len(s) : s[k] = texts[n][k]
    BY <1>4, <2>3 DEF len
  <2>5. s = texts[n]
    BY <1>1, <2>2, <2>4, SeqEqual
  <2> QED
    BY <2>1, <2>5 DEF s
<1>16. Pieces(q, delim)
         = [n \in 1..Cardinality(B) |->
              SubSeq(q, PieceBegin(q, delim, n), PieceEnd(q, delim, PieceBegin(q, delim, n)))]
  BY DEF Pieces, B
<1>17. Pieces(q, delim) = [n \in 1..N |-> texts[n]]
  BY <1>11, <1>13, <1>14, <1>15, <1>16
<1>18. texts = [n \in 1..N |-> texts[n]]
  BY <1>1
<1> QED
  BY <1>17, <1>18 DEF q

\* The first part of a text, up to a delimiter that it does not have.
LEMMA FirstDelimiter ==
  ASSUME NEW T, NEW s \in Seq(T), NEW delim, NEW n \in 1..Len(s), s[n] = delim,
         \A k \in 1..n - 1 : s[k] # delim
  PROVE  Find(s, delim) = n
<1> DEFINE f == Find(s, delim)
<1>1. \/ f = 0 /\ \A k \in 1..Len(s) : s[k] # delim
      \/ /\ f \in 1..Len(s)
         /\ s[f] = delim
         /\ \A k \in 1..Len(s) : k < f => s[k] # delim
  BY FindFirst
<1> HIDE DEF f
<1>2. f \in 1..Len(s) /\ s[f] = delim /\ ~(n < f)
  BY <1>1
<1>3. f = n
  <2> SUFFICES ASSUME f # n PROVE FALSE
    OBVIOUS
  <2>1. f \in 1..n - 1
    BY <1>2
  <2> QED
    BY <1>2, <2>1
<1> QED
  BY <1>3 DEF f

\* A name and a value with an "=" between them, decoded as one text, are cut
\* into the name and the value as they are decoded on their own.
LEMMA ItemIsCut ==
  ASSUME NEW key \in Seq(UriSymbol), NEW value \in Seq(UriSymbol), "=" \in UriSymbol,
         \A k \in 1..Len(key) : Decoded[key[k]] # "=" /\ Decoded[key[k]] # "NUL",
         NEW s, s = (key \o <<"=">>) \o value
  PROVE  /\ Find(s, "=") # 0 /\ Find(urldecode2(s), "=") # 0
         /\ AddPair(urldecode2(s)) = Pair(urldecode2(key), urldecode2(value))
<1> DEFINE K == Len(key)
           V == Len(value)
           D == {Decoded[c] : c \in UriSymbol} \cup {"NUL"}
           text == urldecode2(s)
           name == urldecode2(key)
           val == urldecode2(value)
<1>1. K \in Nat /\ V \in Nat
  BY LenProperties
<1>2. /\ s \in Seq(UriSymbol) /\ Len(s) = K + 1 + V
      /\ \A k \in 1..K : s[k] = key[k]
      /\ s[K + 1] = "="
      /\ \A k \in 1..V : s[K + 1 + k] = value[k]
  <2> DEFINE front == key \o <<"=">>
  <2>1. <<"=">> \in Seq(UriSymbol) /\ Len(<<"=">>) = 1 /\ <<"=">>[1] = "="
    OBVIOUS
  <2>2. /\ front \in Seq(UriSymbol) /\ Len(front) = K + 1
        /\ \A k \in 1..K : front[k] = key[k]
        /\ \A k \in 1..1 : front[K + k] = <<"=">>[k]
    BY <2>1, FollowedBy, SMT
  <2>3. front[K + 1] = "="
    BY <2>1, <2>2
  <2>4. s = front \o value
    OBVIOUS
  <2> HIDE DEF front
  <2>5. s \in Seq(UriSymbol) /\ Len(s) = Len(front) + V
    BY <2>2, <2>4, FollowedBy, SMT
  <2>6. \A k \in 1..Len(front) : s[k] = front[k]
    BY <2>2, <2>4, FollowedBy, SMT
  <2>7. \A k \in 1..V : s[Len(front) + k] = value[k]
    BY <2>2, <2>4, FollowedBy, SMT
  <2> HIDE DEF K, V
  <2>8. \A k \in 1..K : k \in 1..K + 1
    BY <1>1
  <2>9. K + 1 \in 1..K + 1
    BY <1>1
  <2> QED
    BY <1>1, <2>2, <2>3, <2>5, <2>6, <2>7, <2>8, <2>9
<1> HIDE DEF K, V
<1>3. Decoded["="] = "="
  BY UriAssumption
<1>4. PICK n \in 0..Len(s) :
        /\ Len(text) = n
        /\ \A k \in 1..n : text[k] = Decoded[s[k]] /\ Decoded[s[k]] # "NUL"
        /\ n < Len(s) => Decoded[s[n + 1]] = "NUL"
  BY <1>2, DecodedPrefix
<1>5. PICK m \in 0..V :
        /\ Len(val) = m
        /\ \A k \in 1..m : val[k] = Decoded[value[k]] /\ Decoded[value[k]] # "NUL"
        /\ m < V => Decoded[value[m + 1]] = "NUL"
  BY DecodedPrefix DEF V
<1>6. PICK l \in 0..K :
        /\ Len(name) = l
        /\ \A k \in 1..l : name[k] = Decoded[key[k]] /\ Decoded[key[k]] # "NUL"
        /\ l < K => Decoded[key[l + 1]] = "NUL"
  BY DecodedPrefix DEF K
<1>7. text \in Seq(D) /\ name \in Seq(D) /\ val \in Seq(D)
  BY <1>2, DecodedPrefix
<1> HIDE DEF D, text, name, val
<1>8. l = K
  <2> SUFFICES ASSUME l # K PROVE FALSE
    OBVIOUS
  <2>1. l < K /\ l + 1 \in 1..K
    BY <1>1
  <2> QED
    BY <1>6, <2>1 DEF K
<1>9. n >= K + 1
  <2> SUFFICES ASSUME ~(n >= K + 1) PROVE FALSE
    OBVIOUS
  <2>1. n < Len(s) /\ (n + 1 \in 1..K \/ n + 1 = K + 1)
    BY <1>1, <1>2
  <2>2. Decoded[s[n + 1]] = "NUL"
    BY <1>4, <2>1
  <2>3. CASE n + 1 = K + 1
    BY <1>2, <1>3, <2>2, <2>3
  <2>4. CASE n + 1 \in 1..K
    BY <1>2, <2>2, <2>4 DEF K
  <2> QED
    BY <2>1, <2>3, <2>4
<1>10. n = K + 1 + m
  <2>0. /\ n \in Nat /\ m \in Nat /\ m <= V /\ n <= K + 1 + V
        /\ Len(s) = K + 1 + V
    <3>1. n \in 0..K + 1 + V
      BY <1>2
    <3> QED
      BY <1>1, <1>2, <3>1
  <2>1. ASSUME n < K + 1 + m PROVE FALSE
    <3>1. n < Len(s) /\ n - K \in 1..m /\ n - K \in 1..V /\ K + 1 + (n - K) = n + 1
      <4>1. n < K + 1 + V /\ n - K \in Int /\ 1 <= n - K /\ n - K <= m
        BY <1>1, <1>9, <2>0, <2>1
      <4> QED
        BY <1>1, <2>0, <4>1
    <3>2. s[n + 1] = value[n - K] /\ Decoded[s[n + 1]] = "NUL"
      BY <1>2, <1>4, <3>1
    <3> QED
      BY <1>5, <3>1, <3>2
  <2>2. ASSUME n > K + 1 + m PROVE FALSE
    <3>1. m < V /\ m + 1 \in 1..V /\ K + 1 + (m + 1) \in 1..n
      BY <1>1, <2>0, <2>2
    <3>2. s[K + 1 + (m + 1)] = value[m + 1] /\ Decoded[value[m + 1]] = "NUL"
      BY <1>2, <1>5, <3>1
    <3> QED
      BY <1>4, <3>1, <3>2
  <2> QED
    BY <1>1, <2>0, <2>1, <2>2
<1>11. /\ \A k \in 1..K : text[k] = name[k] /\ text[k] # "="
       /\ text[K + 1] = "="
       /\ \A k \in 1..m : text[K + 1 + k] = val[k]
  <2>1. ASSUME NEW k \in 1..K PROVE text[k] = name[k] /\ text[k] # "="
    <3>1. k \in 1..n /\ k \in 1..l
      BY <1>1, <1>8, <1>9
    <3>2. text[k] = Decoded[key[k]] /\ name[k] = Decoded[key[k]]
      BY <1>2, <1>4, <1>6, <3>1
    <3> QED
      BY <3>2 DEF K
  <2>2. text[K + 1] = "="
    <3>1. K + 1 \in 1..n
      BY <1>1, <1>9
    <3> QED
      BY <1>2, <1>3, <1>4, <3>1
  <2>3. ASSUME NEW k \in 1..m PROVE text[K + 1 + k] = val[k]
    <3>1. K + 1 + k \in 1..n /\ k \in 1..V
      BY <1>1, <1>10
    <3>2. text[K + 1 + k] = Decoded[s[K + 1 + k]]
      BY <1>4, <3>1, Zenon
    <3>3. s[K + 1 + k] = value[k]
      BY <1>2, <3>1, Zenon
    <3>4. val[k] = Decoded[value[k]]
      BY <1>5, Zenon
    <3> QED
      BY <3>2, <3>3, <3>4, Zenon
  <2> QED
    BY <2>1, <2>2, <2>3
<1>12. Find(text, "=") = K + 1
  <2>1. K + 1 \in 1..Len(text) /\ \A k \in 1..(K + 1) - 1 : k \in 1..K
    BY <1>1, <1>4, <1>9
  <2>2. \A k \in 1..(K + 1) - 1 : text[k] # "="
    BY <1>11, <2>1, Zenon
  <2>3. text[K + 1] = "="
    BY <1>11
  <2> QED
    BY <1>7, <2>1, <2>2, <2>3, FirstDelimiter, Zenon
<1>13. Find(s, "=") # 0
  <2>1. K + 1 \in 1..Len(s)
    BY <1>1, <1>2
  <2>2. \/ Find(s, "=") = 0 /\ \A k \in 1..Len(s) : s[k] # "="
        \/ Find(s, "=") \in 1..Len(s)
    BY <1>2, FindFirst, Zenon
  <2>3. s[K + 1] = "="
    BY <1>2
  <2>4. \A x : x \in 1..Len(s) => x # 0
    OBVIOUS
  <2> QED
    BY <2>1, <2>2, <2>3, <2>4, Zenon
<1>14. SubSeq(text, 1, K) = name
  <2> DEFINE a == SubSeq(text, 0 + 1, K)
  <2>1. a \in Seq(D) /\ Len(a) = K - 0 /\ \A k \in 1..K - 0 : a[k] = text[0 + k]
    <3>1. 0 \in Nat /\ K \in Nat /\ 0 <= K /\ K <= Len(text)
      BY <1>1, <1>4, <1>9
    <3> QED
      BY <1>7, <3>1, PartOfString
  <2> HIDE DEF a
  <2>2. Len(a) = Len(name) /\ \A k \in 1..Len(a) : a[k] = name[k]
    <3>1. K - 0 = K /\ \A k \in 1..K : 0 + k = k
      BY <1>1
    <3>2. Len(a) = K /\ \A k \in 1..K : a[k] = text[k]
      BY <2>1, <3>1, Zenon
    <3>3. Len(name) = K /\ \A k \in 1..K : text[k] = name[k]
      BY <1>6, <1>8, <1>11, Zenon
    <3> QED
      BY <3>2, <3>3, Zenon
  <2>3. a = name
    BY <1>7, <2>1, <2>2, SeqEqual
  <2> QED
    BY <2>3 DEF a
<1>15. SubSeq(text, (K + 1) + 1, Len(text)) = val
  <2> DEFINE a == SubSeq(text, (K + 1) + 1, Len(text))
  <2>1. /\ a \in Seq(D) /\ Len(a) = Len(text) - (K + 1)
        /\ \A k \in 1..Len(text) - (K + 1) : a[k] = text[(K + 1) + k]
    <3>1. K + 1 \in Nat /\ Len(text) \in Nat /\ K + 1 <= Len(text) /\ Len(text) <= Len(text)
      BY <1>1, <1>4, <1>9
    <3> QED
      BY <1>7, <3>1, PartOfString
  <2> HIDE DEF a
  <2>2. Len(text) - (K + 1) = m
    BY <1>1, <1>4, <1>10
  <2>3. Len(a) = Len(val) /\ \A k \in 1..Len(a) : a[k] = val[k]
    BY <1>5, <1>11, <2>1, <2>2
  <2>4. a = val
    BY <1>7, <2>1, <2>3, SeqEqual
  <2> QED
    BY <2>4 DEF a
<1>16. AddPair(text) = Pair(name, val)
  <2>1. (K + 1) - 1 = K
    BY <1>1
  <2>2. AddPair(text) = Pair(SubSeq(text, 1, K), SubSeq(text, (K + 1) + 1, Len(text)))
    BY <1>12, <2>1 DEF AddPair
  <2> QED
    BY <1>14, <1>15, <2>2
<1> QED
  BY <1>1, <1>12, <1>13, <1>16 DEF text, name, val

LEMMA PairsType ==
  ASSUME NEW p \in QueryPairs
  PROVE  /\ Len(p) \in Nat /\ DOMAIN p = 1..Len(p)
         /\ \A n \in 1..Len(p) :
              /\ p[n].key \in Seq(UriSymbol) /\ p[n].value \in Seq(UriSymbol)
              /\ \A k \in 1..Len(p[n].key) :
                   /\ p[n].key[k] # "&"
                   /\ Decoded[p[n].key[k]] # "=" /\ Decoded[p[n].key[k]] # "NUL"
              /\ \A k \in 1..Len(p[n].value) : p[n].value[k] # "&"
<1> DEFINE Keys == {s \in Without({"&", "="}) :
                      \A k \in DOMAIN s : Decoded[s[k]] \notin {"=", "NUL"}}
           Values == Without({"&"})
<1>1. p \in Seq([key : Keys, value : Values])
  BY QueryPairsAssumption
<1> HIDE DEF Keys, Values
<1>2. Len(p) \in Nat /\ DOMAIN p = 1..Len(p)
  BY <1>1, LenProperties
<1>3. \A n \in 1..Len(p) : p[n] \in [key : Keys, value : Values]
  <2> DEFINE R == [key : Keys, value : Values]
  <2>1. p \in Seq(R)
    BY <1>1
  <2> HIDE DEF R
  <2>2. p \in [1..Len(p) -> R]
    BY <2>1, LenProperties
  <2> QED
    BY <2>2 DEF R
<1>4. ASSUME NEW n \in 1..Len(p) PROVE p[n].key \in Keys /\ p[n].value \in Values
  <2>1. \A r \in [key : Keys, value : Values] : r.key \in Keys /\ r.value \in Values
    OBVIOUS
  <2> QED
    BY <1>3, <2>1, Zenon
<1>5. ASSUME NEW s \in Keys
      PROVE  /\ s \in Seq(UriSymbol)
             /\ \A k \in 1..Len(s) :
                  s[k] # "&" /\ Decoded[s[k]] # "=" /\ Decoded[s[k]] # "NUL"
  BY DEF Keys, Without
<1>6. ASSUME NEW s \in Values
      PROVE  s \in Seq(UriSymbol) /\ \A k \in 1..Len(s) : s[k] # "&"
  BY DEF Values, Without
<1> QED
  BY <1>2, <1>4, <1>5, <1>6, Zenon

\* The parameters as they are written, and as they should reach the list.
Item(p, n) == (p[n].key \o <<"=">>) \o p[n].value

Expected(p) ==
  [n \in DOMAIN p |-> Pair(urldecode2(p[n].key), urldecode2(p[n].value))]

\* The pieces of a query are the parameters it was put together from.
LEMMA PiecesAreItems ==
  ASSUME NEW p \in QueryPairs
  PROVE  Pieces(WrittenQuery[p], "&") = [n \in DOMAIN p |-> Item(p, n)]
<1> DEFINE T == UriSymbol \cup {"&", "="}
           items == [n \in DOMAIN p |-> Item(p, n)]
           N == Len(p)
<1>1. N \in Nat /\ DOMAIN p = 1..N
  BY PairsType
<1>2. ASSUME NEW n \in 1..N
      PROVE  /\ Item(p, n) \in Seq(T) /\ Item(p, n) # <<>>
             /\ \A k \in 1..Len(Item(p, n)) : Item(p, n)[k] # "&"
             /\ (IF n = 1 THEN <<>> ELSE <<"&">>) \o p[n].key \o <<"=">> \o p[n].value
                  = (IF n = 1 THEN <<>> ELSE <<"&">>) \o Item(p, n)
  <2> DEFINE key == p[n].key
             value == p[n].value
             front == key \o <<"=">>
             z == front \o value
             sep == IF n = 1 THEN <<>> ELSE <<"&">>
  <2>1. /\ key \in Seq(T) /\ value \in Seq(T)
        /\ \A k \in 1..Len(key) : key[k] # "&"
        /\ \A k \in 1..Len(value) : value[k] # "&"
    <3>1. key \in Seq(UriSymbol) /\ value \in Seq(UriSymbol)
      BY PairsType
    <3>2. key \in Seq(T) /\ value \in Seq(T)
      <4> HIDE DEF key, value
      <4>1. UriSymbol \subseteq T
        OBVIOUS
      <4> HIDE DEF T
      <4> QED
        BY <3>1, <4>1
    <3> QED
      BY <3>2, PairsType, Zenon
  <2>2. sep \in Seq(T) /\ <<"=">> \in Seq(T) /\ Len(<<"=">>) = 1 /\ <<"=">>[1] = "="
    <3>1. "=" \in T /\ "&" \in T
      OBVIOUS
    <3> HIDE DEF T
    <3>2. <<"=">> \in Seq(T) /\ <<"&">> \in Seq(T) /\ <<>> \in Seq(T)
      BY <3>1
    <3> QED
      BY <3>2
  <2>3. z = Item(p, n)
    BY DEF Item
  <2> HIDE DEF key, value, sep, T
  <2>0. front = key \o <<"=">> /\ z = front \o value
    OBVIOUS
  <2>7. (sep \o key) \o <<"=">> = sep \o front
    BY <2>1, <2>2, ConcatAssociative
  <2> HIDE DEF front, z
  <2>4. /\ front \in Seq(T) /\ Len(front) = Len(key) + 1
        /\ \A k \in 1..Len(key) : front[k] = key[k]
        /\ front[Len(key) + 1] = "="
    <3>1. front \in Seq(T) /\ Len(front) = Len(key) + 1
      BY <2>0, <2>1, <2>2, FollowedBy, SMT
    <3>2. \A k \in 1..Len(key) : front[k] = key[k]
      BY <2>0, <2>1, <2>2, FollowedBy, SMT
    <3>3. \A k \in 1..Len(<<"=">>) : front[Len(key) + k] = <<"=">>[k]
      BY <2>0, <2>1, <2>2, FollowedBy, SMT
    <3>4. front[Len(key) + 1] = "="
      BY <2>2, <3>3
    <3> QED
      BY <3>1, <3>2, <3>4
  <2>5. Len(key) \in Nat /\ Len(value) \in Nat
    BY <2>1, LenProperties
  <2>6. \A k \in 1..Len(front) : front[k] # "&"
    <3> SUFFICES ASSUME NEW k \in 1..Len(front) PROVE front[k] # "&"
      OBVIOUS
    <3>1. k \in 1..Len(key) \/ k = Len(key) + 1
      BY <2>4, <2>5
    <3> QED
      BY <2>1, <2>4, <3>1
  <2>8. (sep \o front) \o value = sep \o z
    <3>1. (sep \o front) \o value = sep \o (front \o value)
      <4>1. sep \in Seq(T) /\ front \in Seq(T) /\ value \in Seq(T)
        BY <2>1, <2>2, <2>4, Zenon
      <4> QED
        <5>1. \A a, b, c \in Seq(T) : (a \o b) \o c = a \o (b \o c)
          BY ConcatAssociative
        <5> QED
          BY <4>1, <5>1, Zenon
    <3> QED
      BY <2>0, <3>1, Zenon
  <2>9. /\ z \in Seq(T) /\ Len(z) = Len(front) + Len(value)
        /\ \A k \in 1..Len(front) : z[k] = front[k]
        /\ \A k \in 1..Len(value) : z[Len(front) + k] = value[k]
    <3>1. z \in Seq(T) /\ Len(z) = Len(front) + Len(value)
      BY <2>0, <2>1, <2>4, FollowedBy, SMT
    <3>2. \A k \in 1..Len(front) : z[k] = front[k]
      BY <2>0, <2>1, <2>4, FollowedBy, SMT
    <3>3. \A k \in 1..Len(value) : z[Len(front) + k] = value[k]
      BY <2>0, <2>1, <2>4, FollowedBy, SMT
    <3> QED
      BY <3>1, <3>2, <3>3
  <2>10. z # <<>>
    <3>1. Len(z) # 0
      BY <2>4, <2>5, <2>9
    <3> QED
      BY <3>1
  <2>11. \A k \in 1..Len(z) : z[k] # "&"
    <3> SUFFICES ASSUME NEW k \in 1..Len(z) PROVE z[k] # "&"
      OBVIOUS
    <3>1. k \in 1..Len(front) \/ k - Len(front) \in 1..Len(value)
      BY <2>4, <2>5, <2>9
    <3>2. CASE k \in 1..Len(front)
      BY <2>6, <2>9, <3>2
    <3>3. CASE k - Len(front) \in 1..Len(value)
      <4>1. Len(front) + (k - Len(front)) = k
        BY <2>4, <2>5
      <4> QED
        BY <2>1, <2>9, <3>3, <4>1
    <3> QED
      BY <3>1, <3>2, <3>3
  <2>12. sep \o p[n].key \o <<"=">> \o p[n].value = sep \o z
    BY <2>0, <2>7, <2>8 DEF key, value
  <2> QED
    BY <2>3, <2>9, <2>10, <2>11, <2>12 DEF sep, T
<1>3. items \in Seq(Seq(T)) /\ Len(items) = N /\ DOMAIN items = 1..N
      /\ \A n \in 1..N : items[n] = Item(p, n)
  <2>1. items \in [1..N -> Seq(T)] /\ \A n \in 1..N : items[n] = Item(p, n)
    BY <1>1, <1>2
  <2> HIDE DEF items, N, T
  <2> QED
    BY <1>1, <2>1, IsSequence
<1>4. WrittenQuery[p] = Joined(items, "&")
  <2>1. WrittenQuery[p]
          = FlattenSeq([n \in DOMAIN p |->
              (IF n = 1 THEN <<>> ELSE <<"&">>) \o p[n].key \o <<"=">> \o p[n].value])
    BY DEF WrittenQuery
  <2>2. [n \in DOMAIN p |->
              (IF n = 1 THEN <<>> ELSE <<"&">>) \o p[n].key \o <<"=">> \o p[n].value]
          = [n \in DOMAIN items |-> (IF n = 1 THEN <<>> ELSE <<"&">>) \o items[n]]
    <3> HIDE DEF items
    <3> QED
      BY <1>1, <1>2, <1>3, Zenon
  <2> QED
    BY <2>1, <2>2 DEF Joined
<1>5. Unbroken(items, "&")
  <2> HIDE DEF items
  <2> QED
    BY <1>2, <1>3 DEF Unbroken
<1>6. "&" \in T
  OBVIOUS
<1> HIDE DEF items, T
<1>7. Pieces(Joined(items, "&"), "&") = items
  BY <1>3, <1>5, <1>6, PiecesOfJoined
<1> QED
  BY <1>4, <1>7 DEF items

\* Every piece of such a query is added with its name and its value.
LEMMA ItemsAreAdded ==
  ASSUME NEW p \in QueryPairs, WrittenQuery[p] \in Seq(UriSymbol)
  PROVE  /\ Pieces(WrittenQuery[p], "&") \in Seq(Seq(UriSymbol))
         /\ Len(Pieces(WrittenQuery[p], "&")) = Len(p)
         /\ \A n \in 1..Len(p) :
              LET piece == Pieces(WrittenQuery[p], "&")[n]
                  text == urldecode2(piece)
              IN  Find(piece, "=") # 0 /\ Find(text, "=") # 0 /\ AddPair(text) = Expected(p)[n]
<1> DEFINE P == Pieces(WrittenQuery[p], "&")
<1>1. Len(p) \in Nat /\ DOMAIN p = 1..Len(p)
  BY PairsType
<1>2. P = [n \in 1..Len(p) |-> Item(p, n)]
  BY <1>1, PiecesAreItems
<1>3. P \in Seq(Seq(UriSymbol))
  BY PiecesType
<1> HIDE DEF P
<1>4. Len(P) = Len(p)
  <2> DEFINE S == Seq(UriSymbol)
             N == Len(p)
  <2>1. P \in [1..Len(P) -> S] /\ DOMAIN P = 1..Len(P) /\ DOMAIN P = 1..N
    BY <1>2, <1>3, LenProperties
  <2>2. \A n \in DOMAIN P : P[n] \in S
    BY <2>1
  <2>3. P = [n \in 1..N |-> P[n]]
    BY <1>2
  <2>4. P \in [1..N -> S]
    <3> HIDE DEF S, N
    <3> QED
      BY <2>1, <2>2, <2>3
  <2> HIDE DEF S, N
  <2>5. N \in Nat
    BY <1>1 DEF N
  <2>6. Len(P) = N
    BY <2>4, <2>5, IsSequence
  <2> QED
    BY <2>6 DEF N
<1>5. ASSUME NEW n \in 1..Len(p)
      PROVE  /\ Find(P[n], "=") # 0 /\ Find(urldecode2(P[n]), "=") # 0
             /\ AddPair(urldecode2(P[n])) = Expected(p)[n]
  <2> DEFINE key == p[n].key
             value == p[n].value
             s == P[n]
  <2>1. /\ key \in Seq(UriSymbol) /\ value \in Seq(UriSymbol)
        /\ \A k \in 1..Len(key) : Decoded[key[k]] # "=" /\ Decoded[key[k]] # "NUL"
    BY PairsType, Zenon
  <2>2. s = (key \o <<"=">>) \o value /\ s \in Seq(UriSymbol)
    <3>1. s = Item(p, n)
      BY <1>2
    <3>2. s \in Seq(UriSymbol)
      <4> DEFINE S == Seq(UriSymbol)
      <4>1. P \in [1..Len(P) -> S]
        BY <1>3, LenProperties
      <4> HIDE DEF S
      <4>2. P[n] \in S
        BY <1>4, <4>1
      <4> QED
        BY <4>2 DEF S
    <3> QED
      BY <3>1, <3>2 DEF Item
  <2>3. Expected(p)[n] = Pair(urldecode2(key), urldecode2(value))
    BY <1>1 DEF Expected
  <2> HIDE DEF key, value, s
  <2>4. "=" \in UriSymbol
    <3> DEFINE front == key \o <<"=">>
               K == Len(key)
               T == UriSymbol \cup {"="}
    <3>1. key \in Seq(T) /\ value \in Seq(T) /\ <<"=">> \in Seq(T)
          /\ Len(<<"=">>) = 1 /\ <<"=">>[1] = "="
      <4>1. UriSymbol \subseteq T /\ "=" \in T
        OBVIOUS
      <4> HIDE DEF T
      <4>2. key \in Seq(T) /\ value \in Seq(T)
        BY <2>1, <4>1
      <4>3. <<"=">> \in Seq(T)
        BY <4>1
      <4> QED
        BY <4>2, <4>3
    <3> HIDE DEF T
    <3>2. s = front \o value /\ front = key \o <<"=">>
      BY <2>2
    <3> HIDE DEF front
    <3>3. front \in Seq(T) /\ Len(front) = K + 1
      BY <3>1, <3>2, FollowedBy, SMT
    <3>4. \A k \in 1..Len(<<"=">>) : front[K + k] = <<"=">>[k]
      BY <3>1, <3>2, FollowedBy, SMT
    <3>5. \A k \in 1..Len(front) : s[k] = front[k]
      BY <3>1, <3>2, <3>3, FollowedBy, SMT
    <3>6. Len(s) = Len(front) + Len(value)
      BY <3>1, <3>2, <3>3, FollowedBy, SMT
    <3>7. K \in Nat /\ Len(value) \in Nat
      BY <2>1, LenProperties
    <3> HIDE DEF K
    <3>8. front[K + 1] = "="
      BY <3>1, <3>4
    <3>9. K + 1 \in 1..Len(front) /\ K + 1 \in 1..Len(s)
      BY <3>3, <3>6, <3>7
    <3>10. s[K + 1] = "="
      BY <3>5, <3>8, <3>9, Zenon
    <3>11. \A k \in 1..Len(s) : s[k] \in UriSymbol
      BY <2>2
    <3> QED
      BY <3>9, <3>10, <3>11, Zenon
  <2>5. /\ Find(s, "=") # 0 /\ Find(urldecode2(s), "=") # 0
        /\ AddPair(urldecode2(s)) = Pair(urldecode2(key), urldecode2(value))
    BY <2>1, <2>2, <2>4, ItemIsCut, Zenon
  <2> QED
    BY <2>3, <2>5 DEF s
<1> QED
  BY <1>3, <1>4, <1>5 DEF P

LEMMA AppendNext ==
  ASSUME NEW e, NEW n \in Nat
  PROVE  Append([m \in 1..n |-> e[m]], e[n + 1]) = [m \in 1..n + 1 |-> e[m]]
<1> DEFINE S == {e[m] : m \in 1..n + 1}
           f == [m \in 1..n |-> e[m]]
           g == [m \in 1..n + 1 |-> e[m]]
<1>1. f \in [1..n -> S] /\ \A m \in 1..n : f[m] = e[m]
  OBVIOUS
<1>2. g \in [1..n + 1 -> S] /\ \A m \in 1..n + 1 : g[m] = e[m]
  OBVIOUS
<1>3. e[n + 1] \in S
  OBVIOUS
<1> HIDE DEF S, f, g
<1>4. f \in Seq(S) /\ Len(f) = n
  BY <1>1, IsSequence
<1>5. g \in Seq(S) /\ Len(g) = n + 1
  BY <1>2, IsSequence
<1> DEFINE h == Append(f, e[n + 1])
<1>6. /\ h \in Seq(S) /\ Len(h) = n + 1
      /\ \A k \in 1..n : h[k] = f[k]
      /\ h[n + 1] = e[n + 1]
  BY <1>3, <1>4, AppendProperties
<1> HIDE DEF h
<1>7. ASSUME NEW k \in 1..Len(h) PROVE h[k] = g[k]
  <2>1. k \in 1..n \/ k = n + 1
    BY <1>6
  <2>2. k \in 1..n + 1
    BY <1>6
  <2> QED
    BY <1>1, <1>2, <1>6, <2>1, <2>2
<1>8. h = g
  BY <1>5, <1>6, <1>7, SeqEqual
<1> QED
  BY <1>8 DEF f, g, h

\* The first parameters are in the list, and the others are still to be added.
AddedSoFar(p) ==
  \E n \in 0..Len(p) :
    /\ unread = SubSeq(Pieces(part.query, "&"), n + 1, Len(Pieces(part.query, "&")))
    /\ nvquery = [m \in 1..n |-> Expected(p)[m]]

Named ==
  /\ place \in {"scan", "split"} => nvquery = <<>>
  /\ place = "scan" => part.query = <<>>
  /\ place = "pairs" =>
       \A p \in QueryPairs : WrittenQuery[p] = part.query => AddedSoFar(p)
  /\ place = "done" =>
       \A p \in QueryPairs : WrittenQuery[p] = part.query => nvquery = Expected(p)

NameInv == ErrorInv /\ Named

LEMMA NameInit == UriInit => NameInv
<1> SUFFICES ASSUME UriInit PROVE Named
  BY ErrorInit DEF NameInv
<1> QED
  BY DEF UriInit, Unparsed, NoParts, Named

LEMMA EmptyQuery ==
  ASSUME NEW p \in QueryPairs, WrittenQuery[p] = <<>>
  PROVE  Expected(p) = <<>>
<1>1. WrittenQuery[p] \in Seq(UriSymbol)
  OBVIOUS
<1>2. Len(p) = Len(Pieces(<<>>, "&"))
  BY <1>1, ItemsAreAdded
<1>3. PieceBegins(<<>>, "&") = {}
  BY DEF PieceBegins
<1>4. Pieces(<<>>, "&") = <<>>
  <2>1. Cardinality(PieceBegins(<<>>, "&")) = 0
    BY <1>3, FS_EmptySet
  <2>2. 1..0 = {}
    OBVIOUS
  <2> QED
    BY <2>1, <2>2 DEF Pieces
<1>5. Len(p) = 0 /\ DOMAIN p = 1..0
  BY <1>2, <1>4, PairsType
<1> QED
  BY <1>5 DEF Expected

LEMMA SplitNames == NameInv /\ SplitQuery => Named'
<1> SUFFICES ASSUME NameInv, SplitQuery PROVE Named'
  OBVIOUS
<1> DEFINE P == Pieces(part.query, "&")
<1>1. /\ place = "split" /\ place' \in {"pairs", "crashed"} /\ unread' = P
      /\ part' = part /\ nvquery' = nvquery /\ nvquery = <<>>
  BY DEF SplitQuery, NameInv, Named
<1>2. P' = P
  BY <1>1 DEF Pieces, PieceBegins, PieceBegin, PieceEnd
<1>3. P \in Seq(Seq(UriSymbol))
  BY PiecesType DEF NameInv, ErrorInv, Reported
<1> HIDE DEF P
<1>4. ASSUME NEW p \in QueryPairs PROVE AddedSoFar(p)'
  <2>1. SubSeq(P, 0 + 1, Len(P)) = P
    BY <1>3, SubSeqFull
  <2>2. nvquery' = [m \in 1..0 |-> Expected(p)[m]]
    BY <1>1
  <2>3. 0 \in 0..Len(p)
    BY PairsType
  <2>4. Expected(p)' = Expected(p) /\ Len(p)' = Len(p)
    BY DEF Expected
  <2> QED
    BY <1>1, <1>2, <2>1, <2>2, <2>3, <2>4 DEF AddedSoFar, P
<1> QED
  BY <1>1, <1>4 DEF Named

LEMMA AddNames == NameInv /\ AddParameter => Named'
<1> SUFFICES ASSUME NameInv, AddParameter PROVE Named'
  OBVIOUS
<1> DEFINE P == Pieces(part.query, "&")
           L == Len(P)
<1>1. /\ place = "pairs" /\ place' \in {"pairs", "done"} /\ unread # <<>>
      /\ unread' = Tail(unread) /\ part' = part
  BY DEF AddParameter
<1>2. P' = P
  BY <1>1 DEF Pieces, PieceBegins, PieceBegin, PieceEnd
<1>3. part.query \in Seq(UriSymbol)
  BY DEF NameInv, ErrorInv, Reported
<1>4. ASSUME NEW p \in QueryPairs, WrittenQuery[p] = part.query
      PROVE  AddedSoFar(p)' /\ place' = "pairs"
  <2>1. PICK n \in 0..Len(p) : /\ unread = SubSeq(P, n + 1, L)
                               /\ nvquery = [m \in 1..n |-> Expected(p)[m]]
    BY <1>1, <1>4 DEF NameInv, Named, AddedSoFar
  <2>2. P \in Seq(Seq(UriSymbol)) /\ L = Len(p) /\ L \in Nat
    BY <1>3, <1>4, ItemsAreAdded, PairsType
  <2>3. \A m \in 1..Len(p) : /\ Find(P[m], "=") # 0
                             /\ Find(urldecode2(P[m]), "=") # 0
                             /\ AddPair(urldecode2(P[m])) = Expected(p)[m]
    BY <1>3, <1>4, ItemsAreAdded
  <2> HIDE DEF P, L
  <2>4. n + 1 \in 1..L
    <3>1. n # L
      <4> SUFFICES ASSUME n = L PROVE FALSE
        OBVIOUS
      <4>1. L + 1 \in Int /\ L \in Int /\ L < L + 1
        BY <2>2
      <4>2. SubSeq(P, L + 1, L) = <<>>
        BY <4>1, SubSeqEmpty
      <4> QED
        BY <1>1, <2>1, <4>2
    <3> QED
      BY <2>2, <3>1
  <2>5. Head(unread) = P[n + 1] /\ Tail(unread) = SubSeq(P, (n + 1) + 1, L)
    <3>1. L \in n + 1..Len(P)
      BY <2>2, <2>4 DEF L
    <3>2. n + 1 \in 1..Len(P)
      BY <2>4 DEF L
    <3> QED
      BY <2>1, <2>2, <3>1, <3>2, HeadTailOfSubSeq
  <2>6. /\ Find(Head(unread), "=") # 0 /\ Find(urldecode2(Head(unread)), "=") # 0
        /\ AddPair(urldecode2(Head(unread))) = Expected(p)[n + 1]
    BY <2>2, <2>3, <2>4, <2>5
  <2>7. nvquery' = Append(nvquery, Expected(p)[n + 1]) /\ place' = place
    BY <2>6 DEF AddParameter
  <2>8. nvquery' = [m \in 1..n + 1 |-> Expected(p)[m]]
    <3>1. n \in Nat
      OBVIOUS
    <3> QED
      BY <2>1, <2>7, <3>1, AppendNext
  <2>9. unread' = SubSeq(P, (n + 1) + 1, L) /\ n + 1 \in 0..Len(p)
    BY <1>1, <2>2, <2>4, <2>5
  <2>10. Expected(p)' = Expected(p) /\ Len(p)' = Len(p)
    BY DEF Expected
  <2>11. AddedSoFar(p)'
    BY <1>2, <2>8, <2>9, <2>10 DEF AddedSoFar, P, L
  <2> QED
    BY <1>1, <2>7, <2>11
<1> QED
  BY <1>1, <1>4 DEF Named

LEMMA AllNames == NameInv /\ AllParameters => Named'
<1> SUFFICES ASSUME NameInv, AllParameters PROVE Named'
  OBVIOUS
<1> DEFINE P == Pieces(part.query, "&")
           L == Len(P)
<1>1. /\ place = "pairs" /\ place' = "done" /\ unread = <<>>
      /\ nvquery' = nvquery /\ part' = part
  BY DEF AllParameters
<1>2. part.query \in Seq(UriSymbol)
  BY DEF NameInv, ErrorInv, Reported
<1>3. ASSUME NEW p \in QueryPairs, WrittenQuery[p] = part.query
      PROVE  nvquery = Expected(p)
  <2>1. PICK n \in 0..Len(p) : /\ unread = SubSeq(P, n + 1, L)
                               /\ nvquery = [m \in 1..n |-> Expected(p)[m]]
    BY <1>1, <1>3 DEF NameInv, Named, AddedSoFar
  <2>2. P \in Seq(Seq(UriSymbol)) /\ L = Len(p) /\ L \in Nat /\ DOMAIN p = 1..Len(p)
    BY <1>2, <1>3, ItemsAreAdded, PairsType
  <2> HIDE DEF P
  <2>3. n = L
    <3> SUFFICES ASSUME n # L PROVE FALSE
      OBVIOUS
    <3>1. n + 1 \in 1..L /\ L \in n + 1..L
      BY <2>2
    <3>2. L = Len(P)
      OBVIOUS
    <3> HIDE DEF L
    <3>3. SubSeq(P, n + 1, L) = <<P[n + 1]>> \o SubSeq(P, (n + 1) + 1, L)
      BY <2>2, <3>1, <3>2, SubSeqRecursiveFirst
    <3>4. SubSeq(P, n + 1, L) \in Seq(Seq(UriSymbol)) /\ Len(SubSeq(P, n + 1, L)) = L - n
      <4>1. n \in Nat /\ L \in Nat /\ n <= L /\ L <= Len(P)
        BY <2>2, <3>1, <3>2
      <4> QED
        BY <2>2, <4>1, PartOfString
    <3>5. Len(unread) = L - n /\ L - n # 0
      BY <2>1, <2>2, <3>1, <3>4
    <3> QED
      BY <1>1, <3>5
  <2>4. nvquery = [m \in 1..Len(p) |-> Expected(p)[m]]
    BY <2>1, <2>2, <2>3
  <2> QED
    BY <2>2, <2>4 DEF Expected
<1>4. \A p \in QueryPairs : Expected(p)' = Expected(p)
  BY DEF Expected
<1> QED
  BY <1>1, <1>3, <1>4 DEF Named

LEMMA NameStep == NameInv /\ [UriNext]_uriVars => NameInv'
<1> SUFFICES ASSUME NameInv, [UriNext]_uriVars PROVE Named'
  BY ErrorStep DEF NameInv
<1>1. ASSUME UNCHANGED <<part, nvquery, unread>>,
             place' = place \/ place' = "crashed"
      PROVE  Named'
  <2>1. Pieces(part.query, "&")' = Pieces(part.query, "&")
    BY <1>1 DEF Pieces, PieceBegins, PieceBegin, PieceEnd
  <2>2. \A p \in QueryPairs : AddedSoFar(p) => AddedSoFar(p)'
    BY <1>1, <2>1 DEF AddedSoFar, Expected
  <2>3. \A p \in QueryPairs : Expected(p)' = Expected(p)
    BY DEF Expected
  <2> QED
    BY <1>1, <2>2, <2>3 DEF NameInv, Named
<1>2. CASE FoundProto
  BY <1>1, <1>2 DEF FoundProto
<1>3. CASE FoundPart
  BY <1>1, <1>3 DEF FoundPart
<1>4. CASE SkipChar
  BY <1>1, <1>4 DEF SkipChar
<1>5. CASE MissingPart
  <2>1. /\ part' = part /\ nvquery' = nvquery /\ place' = "done"
        /\ part.query = <<>> /\ nvquery = <<>>
    BY <1>5 DEF MissingPart, EndOfScan, NameInv, Named
  <2>2. ASSUME NEW p \in QueryPairs, WrittenQuery[p] = part.query
        PROVE  nvquery = Expected(p)
    BY <2>1, <2>2, EmptyQuery
  <2>3. \A p \in QueryPairs : Expected(p)' = Expected(p)
    BY DEF Expected
  <2> QED
    BY <2>1, <2>2, <2>3 DEF Named
<1>6. CASE CutParts
  <2>1. place = "scan" /\ place' = "split" /\ nvquery' = nvquery
    BY <1>6 DEF CutParts, EndOfScan
  <2> QED
    BY <2>1 DEF NameInv, Named
<1>7. CASE UriCrash
  BY <1>1, <1>7 DEF UriCrash
<1>8. CASE SplitQuery
  BY <1>8, SplitNames
<1>9. CASE AddParameter
  BY <1>9, AddNames
<1>10. CASE AllParameters
  BY <1>10, AllNames
<1>11. CASE UNCHANGED uriVars
  BY <1>1, <1>11 DEF uriVars
<1> QED
  BY <1>2, <1>3, <1>4, <1>5, <1>6, <1>7, <1>8, <1>9, <1>10, <1>11 DEF UriNext

\* Every parameter of a query reaches the list with its decoded name and value,
\* whatever the names and values are (uriparse.c:21-82, nvlist.c:27-45).
THEOREM NamesReachTheList == UriSpec => []NamesAreMeant
<1>1. NameInv => NamesAreMeant
  BY DEF NameInv, Named, NamesAreMeant, Expected
<1> QED
  BY <1>1, NameInit, NameStep, PTL DEF UriSpec

=============================================================================
