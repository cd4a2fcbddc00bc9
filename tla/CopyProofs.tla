---------------------------- MODULE CopyProofs -----------------------------
(***************************************************************************)
(* The loops that copy a string character by character into other ones:    *)
(* the parts of a regular expression are what it was written for, and an   *)
(* encoded file reads as what was encoded, whatever their lengths.         *)
(***************************************************************************)
EXTENDS RegReplace, XorCode, StringProofs

-----------------------------------------------------------------------------
(* Regular expressions: the bounds of the loop *)

\* The part that is written is as long as the loop takes it to be, the parts
\* behind it are empty, and as many delimiters were seen as parts were begun.
RegInv ==
  /\ areg \in Seq(Character)
  /\ ri \in 0..Len(areg)
  /\ rl \in 0..ri
  /\ rpos \in Nat
  /\ parts \in [PRE..MODIFIER -> Seq(Character)]
  /\ rpos \in PRE..MODIFIER => rl = Len(parts[rpos])
  /\ \A p \in PRE..MODIFIER : p > rpos => parts[p] = <<>>
  /\ rpos = Cardinality(DelimitersBefore(ri))
  /\ split = "crashed" => rpos > MODIFIER

LEMMA Unread == IsFiniteSet({}) /\ Cardinality({}) = 0
BY FS_EmptySet

LEMMA RegInvInit == RegInit => RegInv
<1> SUFFICES ASSUME RegInit PROVE RegInv
  OBVIOUS
<1>1. areg \in Seq(Character)
  BY ExpressionAssumption DEF RegInit, Unsplit
<1>2. DelimitersBefore(ri) = {}
  BY DEF RegInit, Unsplit, DelimitersBefore
<1> DEFINE none == <<>>
<1>3. none \in Seq(Character) /\ Len(none) = 0
  OBVIOUS
<1>4. ri = 0 /\ rl = 0 /\ rpos = 0 /\ split = "loop" /\ parts = [p \in 0..3 |-> none]
  BY DEF RegInit, Unsplit, PRE, MODIFIER
<1>5. rpos = Cardinality(DelimitersBefore(ri)) /\ Len(areg) \in Nat
  BY <1>1, <1>2, <1>4, Unread
<1> HIDE DEF none
<1>6. parts \in [0..3 -> Seq(Character)] /\ \A p \in 0..3 : parts[p] = none
  BY <1>3, <1>4
<1>7. ri \in 0..Len(areg) /\ rl \in 0..ri /\ rpos \in Nat
  BY <1>4, <1>5
<1>8. rl = Len(parts[rpos])
  BY <1>3, <1>4, <1>6
<1>9. \A p \in 0..3 : parts[p] = <<>>
  BY <1>6 DEF none
<1> QED
  BY <1>1, <1>4, <1>5, <1>6, <1>7, <1>8, <1>9 DEF RegInv, PRE, MODIFIER

LEMMA DelimitersFinite ==
  ASSUME NEW k \in Nat
  PROVE  IsFiniteSet(DelimitersBefore(k))
<1>1. IsFiniteSet(0..k - 1)
  BY FS_Interval
<1>2. DelimitersBefore(k) \subseteq 0..k - 1
  BY DEF DelimitersBefore
<1> QED
  BY <1>1, <1>2, FS_Subset

\* One character more.
LEMMA OneMore ==
  ASSUME ri \in Nat
  PROVE  /\ IsDelimiter => Cardinality(DelimitersBefore(ri + 1))
                             = Cardinality(DelimitersBefore(ri)) + 1
         /\ ~IsDelimiter => DelimitersBefore(ri + 1) = DelimitersBefore(ri)
<1>1. DelimitersBefore(ri + 1)
        = DelimitersBefore(ri) \cup (IF IsDelimiter THEN {ri} ELSE {})
  BY DEF DelimitersBefore, IsDelimiter
<1>2. ri \notin DelimitersBefore(ri)
  BY DEF DelimitersBefore
<1>3. IsFiniteSet(DelimitersBefore(ri))
  BY DelimitersFinite
<1>4. Cardinality(DelimitersBefore(ri) \cup {ri}) = Cardinality(DelimitersBefore(ri)) + 1
  BY <1>2, <1>3, FS_AddElement
<1> QED
  BY <1>1, <1>4

\* What the expression is does not change, so neither do its delimiters.
LEMMA SameDelimiters ==
  ASSUME areg' = areg, NEW k \in Nat
  PROVE  DelimitersBefore(k)' = DelimitersBefore(k)
BY DEF DelimitersBefore, RegChar

LEMMA RegInvStep == RegInv /\ [RegNext]_regVars => RegInv'
<1> SUFFICES ASSUME RegInv, [RegNext]_regVars
             PROVE  RegInv'
  OBVIOUS
<1>0. areg' = areg
  BY DEF RegNext, Delimit, Escape, CopyChar, CopyToNull, EndOfExpression, regVars
<1>1. ri \in Nat /\ Len(areg) \in Nat /\ PRE = 0 /\ MODIFIER = 3
  BY DEF RegInv, PRE, MODIFIER
<1>2. ASSUME ri' = ri PROVE Cardinality(DelimitersBefore(ri))' = Cardinality(DelimitersBefore(ri))
  BY <1>0, <1>2 DEF DelimitersBefore, RegChar
<1>3. ASSUME ri' = ri + 1
      PROVE  Cardinality(DelimitersBefore(ri))' = Cardinality(DelimitersBefore(ri + 1))
  BY <1>0, <1>3 DEF DelimitersBefore, RegChar
<1>4. CASE Delimit
  <2>1. ri' = ri + 1 /\ ri < Len(areg) /\ rpos' = rpos + 1 /\ rl' = 0
        /\ parts' = parts /\ split' = split /\ split = "loop"
    BY <1>4 DEF Delimit, NextChar, Splitting
  <2>2. rpos' = Cardinality(DelimitersBefore(ri))'
    BY <1>1, <1>3, <1>4, <2>1, OneMore DEF Delimit, RegInv
  <2>3. rpos' \in PRE..MODIFIER => rl' = Len(parts'[rpos'])
    <3>1. rpos' \in PRE..MODIFIER => parts'[rpos'] = <<>>
      BY <1>1, <2>1 DEF RegInv
    <3> QED
      BY <2>1, <3>1
  <2> QED
    BY <1>0, <1>1, <2>1, <2>2, <2>3 DEF RegInv
<1>5. CASE Escape
  <2>1. ri' = ri + 1 /\ ri < Len(areg) /\ UNCHANGED <<areg, rl, rpos, parts, split>>
    BY <1>5 DEF Escape, NextChar, Splitting
  <2>2. ~IsDelimiter
    BY <1>5 DEF Escape, IsEscape, IsDelimiter
  <2>3. rpos' = Cardinality(DelimitersBefore(ri))'
    BY <1>1, <1>3, <2>1, <2>2, OneMore DEF RegInv
  <2> QED
    BY <1>1, <2>1, <2>3 DEF RegInv
<1>6. CASE CopyChar
  <2>1. ri' = ri + 1 /\ ri < Len(areg) /\ rl' = rl + 1 /\ rpos \in PRE..MODIFIER
        /\ UNCHANGED <<areg, rpos, split>> /\ split = "loop"
    BY <1>1, <1>6 DEF CopyChar, NextChar, Splitting, RegInv
  <2>2. rpos' = Cardinality(DelimitersBefore(ri))'
    BY <1>1, <1>3, <1>6, <2>1, OneMore DEF CopyChar, RegInv
  <2>3. RegChar(ri) \in Character
    BY <1>1, <2>1 DEF RegChar, RegInv
  <2> DEFINE old == parts[rpos]
             new == SubSeq(old, 1, rl) \o <<RegChar(ri)>>
  <2>4. old \in Seq(Character) /\ rl = Len(old)
    BY <2>1 DEF RegInv
  <2>5. parts' = [parts EXCEPT ![rpos] = new]
    BY <1>6, <2>4 DEF CopyChar
  <2>6. new \in Seq(Character) /\ Len(new) = rl + 1
    <3>1. SubSeq(old, 1, rl) = old
      BY <2>4
    <3> HIDE DEF old
    <3> QED
      BY <2>3, <2>4, <3>1
  <2> HIDE DEF new, old
  <2>7. /\ parts' \in [PRE..MODIFIER -> Seq(Character)]
        /\ rl' = Len(parts'[rpos'])
        /\ \A p \in PRE..MODIFIER : p > rpos' => parts'[p] = <<>>
    <3>1. parts \in [PRE..MODIFIER -> Seq(Character)]
      BY DEF RegInv
    <3>2. parts' \in [PRE..MODIFIER -> Seq(Character)] /\ parts'[rpos] = new
      BY <2>1, <2>5, <2>6, <3>1
    <3>3. ASSUME NEW p \in PRE..MODIFIER, p > rpos'
          PROVE  parts'[p] = <<>>
      <4>1. p # rpos /\ p > rpos
        BY <1>1, <2>1, <3>3
      <4>2. parts'[p] = parts[p]
        BY <2>5, <3>1, <4>1
      <4> QED
        BY <4>1, <4>2 DEF RegInv
    <3> QED
      BY <2>1, <2>6, <3>2, <3>3
  <2> QED
    BY <1>1, <2>1, <2>2, <2>7 DEF RegInv
<1>7. CASE CopyToNull
  BY <1>1, <1>2, <1>7 DEF CopyToNull, RegInv
<1>8. CASE EndOfExpression
  BY <1>1, <1>2, <1>8 DEF EndOfExpression, RegInv
<1>9. CASE UNCHANGED regVars
  BY <1>1, <1>2, <1>9 DEF regVars, RegInv
<1> QED
  BY <1>4, <1>5, <1>6, <1>7, <1>8, <1>9 DEF RegNext

\* The writes of the loop stay within len + 1 characters, whatever the
\* expression is, except for those to NULL, which only text behind a fourth
\* delimiter causes (reg.cpp:63-113).
THEOREM CutsWithinBounds == RegSpec => []WritesFit
<1>1. ASSUME RegInv PROVE WritesFit
  <2>1. DOMAIN parts = PRE..MODIFIER
    BY <1>1 DEF RegInv
  <2>2. ri \in 0..Len(areg) /\ rl \in 0..ri /\ Len(areg) \in Nat
    BY <1>1 DEF RegInv
  <2>3. rl <= ri /\ ri <= Len(areg)
    BY <2>2
  <2>4. rpos \in DOMAIN parts => rl = Len(parts[rpos])
    BY <1>1, <2>1 DEF RegInv
  <2>5. split = "crashed" => Cardinality(DelimitersBefore(ri)) > MODIFIER
    BY <1>1 DEF RegInv
  <2> QED
    BY <2>3, <2>4, <2>5 DEF WritesFit
<1> QED
  BY <1>1, RegInvInit, RegInvStep, PTL DEF RegSpec

USE DEF PRE, SEARCH, REPLACE, MODIFIER

-----------------------------------------------------------------------------
(* An expression that is written for a replacement *)

\* The text p is in the expression behind the first o characters.
IsThere(p, o) ==
  /\ o + Len(p) <= Len(areg)
  /\ \A k \in 1..Len(p) : areg[o + k] = p[k]

\* Texts that follow each other.
LEMMA ThereConcat ==
  ASSUME NEW T, NEW x \in Seq(T), NEW y \in Seq(T), areg \in Seq(Character),
         IsThere(x \o y, 0)
  PROVE  IsThere(x, 0) /\ IsThere(y, Len(x)) /\ Len(x \o y) = Len(x) + Len(y)
<1> DEFINE z == x \o y
<1>1. z \in Seq(T) /\ Len(z) = Len(x) + Len(y)
  BY FollowedBy, SMT
<1>2. \A k \in 1..Len(x) : z[k] = x[k]
  BY FollowedBy, SMT
<1>3. \A k \in 1..Len(y) : z[Len(x) + k] = y[k]
  BY FollowedBy, SMT
<1> HIDE DEF z
<1>4. Len(x) \in Nat /\ Len(y) \in Nat /\ Len(areg) \in Nat
  BY LenProperties
<1>5. 0 + Len(z) <= Len(areg) /\ \A k \in 1..Len(z) : areg[0 + k] = z[k]
  BY DEF IsThere, z
<1>6. ASSUME NEW k \in 1..Len(x) PROVE areg[0 + k] = x[k]
  <2>1. k \in 1..Len(z)
    BY <1>1, <1>4
  <2> QED
    BY <1>2, <1>5, <2>1
<1>7. ASSUME NEW k \in 1..Len(y) PROVE areg[Len(x) + k] = y[k]
  <2>1. Len(x) + k \in 1..Len(z) /\ 0 + (Len(x) + k) = Len(x) + k
    BY <1>1, <1>4
  <2> QED
    BY <1>3, <1>5, <2>1
<1>8. 0 + Len(x) <= Len(areg) /\ Len(x) + Len(y) <= Len(areg)
  BY <1>1, <1>4, <1>5
<1> QED
  BY <1>1, <1>6, <1>7, <1>8 DEF IsThere, z

\* How the text w is written for s: e[k] characters for the first k of s, a
\* slash with a backslash in front of it and any other character as it is.
WrittenAs(s, w, e) ==
  /\ e[0] = 0 /\ e[Len(s)] = Len(w)
  /\ \A k \in 0..Len(s) : e[k] \in Nat /\ e[k] <= Len(w)
  /\ \A k \in 1..Len(s) :
       \/ /\ s[k] # "/" /\ e[k] = e[k - 1] + 1 /\ w[e[k]] = s[k]
       \/ /\ s[k] = "/" /\ e[k] = e[k - 1] + 2
          /\ w[e[k - 1] + 1] = "\\" /\ w[e[k]] = "/"

LEMMA PlainIsWritten ==
  ASSUME NEW T, NEW s \in Seq(T), \A k \in 1..Len(s) : s[k] # "/"
  PROVE  WrittenAs(s, s, [k \in 0..Len(s) |-> k])
<1> DEFINE e == [k \in 0..Len(s) |-> k]
<1>1. Len(s) \in Nat
  BY LenProperties
<1>2. \A k \in 0..Len(s) : e[k] = k
  OBVIOUS
<1> HIDE DEF e
<1>3. ASSUME NEW k \in 1..Len(s) PROVE e[k] = e[k - 1] + 1 /\ s[e[k]] = s[k]
  <2>1. k \in 0..Len(s) /\ k - 1 \in 0..Len(s) /\ (k - 1) + 1 = k
    BY <1>1
  <2> QED
    BY <1>2, <2>1
<1>4. e[0] = 0 /\ e[Len(s)] = Len(s)
  BY <1>1, <1>2
<1>5. \A k \in 0..Len(s) : e[k] \in Nat /\ e[k] <= Len(s)
  BY <1>1, <1>2
<1> QED
  BY <1>3, <1>4, <1>5 DEF WrittenAs, e

LEMMA EscapedIsWritten ==
  ASSUME NEW T, NEW s \in Seq(T)
  PROVE  /\ Escaped(s) \in Seq(T \cup {"/", "\\"})
         /\ \E e : WrittenAs(s, Escaped(s), e)
<1> DEFINE C == T \cup {"/", "\\"}
           N == Len(s)
           seqs == [n \in DOMAIN s |-> IF s[n] = "/" THEN <<"\\", "/">> ELSE <<s[n]>>]
           w == Escaped(s)
<1>1. N \in Nat /\ DOMAIN s = 1..N /\ \A n \in 1..N : s[n] \in C
  BY LenProperties
<1>2. "/" \in C /\ "\\" \in C
  OBVIOUS
<1> HIDE DEF C
<1>3. ASSUME NEW n \in 1..N
      PROVE  /\ seqs[n] \in Seq(C)
             /\ s[n] = "/" => Len(seqs[n]) = 2 /\ seqs[n][1] = "\\" /\ seqs[n][2] = "/"
             /\ s[n] # "/" => Len(seqs[n]) = 1 /\ seqs[n][1] = s[n]
  <2>1. s[n] \in C
    BY <1>1
  <2>2. seqs[n] = IF s[n] = "/" THEN <<"\\", "/">> ELSE <<s[n]>>
    BY <1>1
  <2> HIDE DEF seqs
  <2> QED
    BY <1>2, <2>1, <2>2
<1>4. seqs = [n \in 1..N |-> seqs[n]]
  BY <1>1
<1>5. w = FlattenSeq(seqs)
  BY DEF Escaped
<1> HIDE DEF seqs, w, N
<1>6. seqs \in Seq(Seq(C)) /\ Len(seqs) = N
  <2>1. seqs \in [1..N -> Seq(C)]
    BY <1>3, <1>4
  <2> QED
    BY <1>1, <2>1, IsSequence
<1>7. /\ w \in Seq(C)
      /\ \E e \in [0..N -> Nat] :
           /\ e[0] = 0 /\ e[N] = Len(w)
           /\ \A n \in 1..N :
                /\ e[n] = e[n - 1] + Len(seqs[n])
                /\ \A k \in 1..Len(seqs[n]) : w[e[n - 1] + k] = seqs[n][k]
           /\ \A m, n \in 0..N : m <= n => e[m] <= e[n]
  <2>1. /\ FlattenSeq(seqs) \in Seq(C)
        /\ \E e \in [0..Len(seqs) -> Nat] :
             /\ e[0] = 0 /\ e[Len(seqs)] = Len(FlattenSeq(seqs))
             /\ \A n \in 1..Len(seqs) :
                  /\ e[n] = e[n - 1] + Len(seqs[n])
                  /\ \A k \in 1..Len(seqs[n]) : FlattenSeq(seqs)[e[n - 1] + k] = seqs[n][k]
             /\ \A m, n \in 0..Len(seqs) : m <= n => e[m] <= e[n]
             /\ \A k \in 1..e[Len(seqs)] :
                  \E n \in 1..Len(seqs) : e[n - 1] < k /\ k <= e[n]
    BY <1>6, FlattenedElements
  <2> QED
    BY <1>5, <1>6, <2>1
<1>8. PICK e \in [0..N -> Nat] :
           /\ e[0] = 0 /\ e[N] = Len(w)
           /\ \A n \in 1..N :
                /\ e[n] = e[n - 1] + Len(seqs[n])
                /\ \A k \in 1..Len(seqs[n]) : w[e[n - 1] + k] = seqs[n][k]
           /\ \A m, n \in 0..N : m <= n => e[m] <= e[n]
  BY <1>7
<1>9. ASSUME NEW k \in 0..N PROVE e[k] \in Nat /\ e[k] <= Len(w)
  <2>1. N \in 0..N /\ k <= N
    BY <1>1
  <2>2. e[k] \in Nat
    OBVIOUS
  <2> QED
    BY <1>8, <2>1, <2>2
<1>10. ASSUME NEW k \in 1..N
       PROVE  \/ /\ s[k] # "/" /\ e[k] = e[k - 1] + 1 /\ w[e[k]] = s[k]
              \/ /\ s[k] = "/" /\ e[k] = e[k - 1] + 2
                 /\ w[e[k - 1] + 1] = "\\" /\ w[e[k]] = "/"
  <2>1. CASE s[k] = "/"
    <3>1. Len(seqs[k]) = 2 /\ seqs[k][1] = "\\" /\ seqs[k][2] = "/"
      BY <1>3, <2>1, Zenon
    <3>2. 1 \in 1..2 /\ 2 \in 1..2
      OBVIOUS
    <3>3. e[k] = e[k - 1] + 2 /\ w[e[k - 1] + 1] = "\\" /\ w[e[k - 1] + 2] = "/"
      BY <1>8, <3>1, <3>2, Zenon
    <3> QED
      BY <2>1, <3>3, Zenon
  <2>2. CASE s[k] # "/"
    <3>1. Len(seqs[k]) = 1 /\ seqs[k][1] = s[k]
      BY <1>3, <2>2, Zenon
    <3>2. 1 \in 1..1
      OBVIOUS
    <3>3. e[k] = e[k - 1] + 1 /\ w[e[k - 1] + 1] = s[k]
      BY <1>8, <3>1, <3>2, Zenon
    <3> QED
      BY <2>2, <3>3, Zenon
  <2> QED
    BY <2>1, <2>2
<1>11. WrittenAs(s, w, e)
  BY <1>8, <1>9, <1>10 DEF WrittenAs, N
<1> QED
  BY <1>7, <1>11 DEF w, C

\* The texts of the parts, and which is the last of them.
TextOf(r, p) ==
  IF p = PRE THEN r.pre ELSE IF p = SEARCH THEN r.search ELSE IF p = REPLACE THEN r.replace
  ELSE IF r.modifiers = <<>> THEN <<>> ELSE Tail(r.modifiers)

LastPart(r) == IF r.modifiers = <<>> THEN REPLACE ELSE MODIFIER

\* A backslash is in front of a character that needs none.
LoneBackslashes(s) ==
  \A k \in 1..Len(s) : s[k] = "\\" => k < Len(s) /\ s[k + 1] # "/" /\ s[k + 1] # "\\"

LEMMA TextsType ==
  ASSUME NEW r \in Replacements
  PROVE  /\ \A p \in 0..3 : TextOf(r, p) \in Seq(Character) /\ LoneBackslashes(TextOf(r, p))
         /\ \A k \in 1..Len(TextOf(r, 0)) : TextOf(r, 0)[k] # "/"
         /\ \A k \in 1..Len(TextOf(r, 3)) : TextOf(r, 3)[k] # "/"
         /\ r.modifiers \in Seq(Character) /\ (r.modifiers # <<>> => r.modifiers[1] = "/")
<1> DEFINE Plainly(s) == s \in Seq(Character) /\ \A k \in DOMAIN s : s[k] \notin {"/", "\\"}
<1>1. /\ r \in [pre : Seq(Character), search : Escapable, replace : Escapable,
                modifiers : Seq(Character)]
      /\ Plainly(r.pre)
      /\ r.modifiers # <<>> => r.modifiers[1] = "/" /\ Plainly(Tail(r.modifiers))
  BY ReplacementAssumption
<1>2. ASSUME NEW s, Plainly(s)
      PROVE  s \in Seq(Character) /\ LoneBackslashes(s) /\ \A k \in 1..Len(s) : s[k] # "/"
  <2>1. s \in Seq(Character) /\ DOMAIN s = 1..Len(s)
    BY <1>2, LenProperties
  <2> QED
    BY <1>2, <2>1 DEF LoneBackslashes
<1> HIDE DEF Plainly
<1>3. ASSUME NEW s \in Escapable PROVE s \in Seq(Character) /\ LoneBackslashes(s)
  <2>1. s \in Seq(Character) /\ DOMAIN s = 1..Len(s)
    BY LenProperties DEF Escapable
  <2> QED
    BY <2>1 DEF Escapable, LoneBackslashes
<1>4. LoneBackslashes(<<>>) /\ <<>> \in Seq(Character) /\ \A k \in 1..Len(<<>>) : <<>>[k] # "/"
  BY DEF LoneBackslashes
<1>5. r.search \in Escapable /\ r.replace \in Escapable /\ r.modifiers \in Seq(Character)
  BY <1>1
<1>6. /\ r.pre \in Seq(Character) /\ LoneBackslashes(r.pre)
      /\ \A k \in 1..Len(r.pre) : r.pre[k] # "/"
  BY <1>1, <1>2, Zenon
<1>7. /\ TextOf(r, 3) \in Seq(Character) /\ LoneBackslashes(TextOf(r, 3))
      /\ \A k \in 1..Len(TextOf(r, 3)) : TextOf(r, 3)[k] # "/"
  <2>1. TextOf(r, 3) = IF r.modifiers = <<>> THEN <<>> ELSE Tail(r.modifiers)
    BY DEF TextOf
  <2>2. CASE r.modifiers = <<>>
    BY <1>4, <2>1, <2>2, Zenon
  <2>3. CASE r.modifiers # <<>>
    BY <1>1, <1>2, <2>1, <2>3, Zenon
  <2> QED
    BY <2>2, <2>3
<1>8. TextOf(r, 0) = r.pre /\ TextOf(r, 1) = r.search /\ TextOf(r, 2) = r.replace
  BY DEF TextOf
<1>9. ASSUME NEW p \in 0..3
      PROVE  TextOf(r, p) \in Seq(Character) /\ LoneBackslashes(TextOf(r, p))
  <2>1. p = 0 \/ p = 1 \/ p = 2 \/ p = 3
    OBVIOUS
  <2> QED
    BY <1>3, <1>5, <1>6, <1>7, <1>8, <2>1, Zenon
<1> QED
  BY <1>1, <1>5, <1>6, <1>7, <1>8, <1>9, Zenon

\* The expression has the text s: its first k characters are in front of a[k].
Spelled(s, a) ==
  /\ \A k \in 0..Len(s) : a[k] \in 0..Len(areg)
  /\ \A k \in 1..Len(s) :
       \/ /\ s[k] # "/" /\ a[k] = a[k - 1] + 1 /\ areg[a[k]] = s[k]
       \/ /\ s[k] = "/" /\ a[k] = a[k - 1] + 2
          /\ areg[a[k - 1] + 1] = "\\" /\ areg[a[k]] = "/"

LEMMA WrittenIsSpelled ==
  ASSUME areg \in Seq(Character), NEW T, NEW s \in Seq(T), NEW C, NEW w \in Seq(C), NEW e,
         WrittenAs(s, w, e), NEW o \in Nat, IsThere(w, o)
  PROVE  LET a == [k \in 0..Len(s) |-> o + e[k]]
         IN  Spelled(s, a) /\ a[0] = o /\ a[Len(s)] = o + Len(w)
<1> DEFINE a == [k \in 0..Len(s) |-> o + e[k]]
           N == Len(s)
           W == Len(w)
<1>1. N \in Nat /\ W \in Nat /\ Len(areg) \in Nat
  BY LenProperties
<1>2. /\ e[0] = 0 /\ e[N] = W
      /\ \A k \in 0..N : e[k] \in Nat /\ e[k] <= W
      /\ \A k \in 1..N :
           \/ /\ s[k] # "/" /\ e[k] = e[k - 1] + 1 /\ w[e[k]] = s[k]
           \/ /\ s[k] = "/" /\ e[k] = e[k - 1] + 2
              /\ w[e[k - 1] + 1] = "\\" /\ w[e[k]] = "/"
  BY DEF WrittenAs
<1>3. o + W <= Len(areg) /\ \A k \in 1..W : areg[o + k] = w[k]
  BY DEF IsThere
<1>4. \A k \in 0..N : a[k] = o + e[k]
  OBVIOUS
<1> HIDE DEF a, N, W
<1>5. a[0] = o /\ a[N] = o + W
  <2>1. 0 \in 0..N /\ N \in 0..N /\ o + 0 = o
    BY <1>1
  <2> QED
    BY <1>2, <1>4, <2>1, Zenon
<1>6. ASSUME NEW k \in 0..N PROVE a[k] \in 0..Len(areg)
  <2>1. a[k] = o + e[k] /\ e[k] \in Nat /\ e[k] <= W
    BY <1>2, <1>4, Zenon
  <2> QED
    BY <1>1, <1>3, <2>1
<1>7. ASSUME NEW k \in 1..N
      PROVE  \/ /\ s[k] # "/" /\ a[k] = a[k - 1] + 1 /\ areg[a[k]] = s[k]
             \/ /\ s[k] = "/" /\ a[k] = a[k - 1] + 2
                /\ areg[a[k - 1] + 1] = "\\" /\ areg[a[k]] = "/"
  <2>1. k \in 0..N /\ k - 1 \in 0..N
    BY <1>1
  <2> DEFINE x == e[k - 1]
             y == e[k]
  <2>2. x \in Nat /\ y \in Nat /\ y <= W /\ a[k] = o + y /\ a[k - 1] = o + x
    BY <1>2, <1>4, <2>1, Zenon
  <2>3. \/ /\ s[k] # "/" /\ y = x + 1 /\ w[y] = s[k]
        \/ /\ s[k] = "/" /\ y = x + 2 /\ w[x + 1] = "\\" /\ w[y] = "/"
    BY <1>2, Zenon
  <2> HIDE DEF x, y
  <2>4. y \in 1..W /\ x + 1 \in 1..W /\ o + (x + 1) = (o + x) + 1
    <3>1. y = x + 1 \/ y = x + 2
      BY <2>3, Zenon
    <3>2. \A m, n, l \in Nat : n <= l /\ (n = m + 1 \/ n = m + 2) =>
            n \in 1..l /\ m + 1 \in 1..l /\ o + (m + 1) = (o + m) + 1
      OBVIOUS
    <3> QED
      BY <1>1, <2>2, <3>1, <3>2, Zenon
  <2>5. areg[o + y] = w[y] /\ areg[(o + x) + 1] = w[x + 1]
    <3>1. areg[o + y] = w[y] /\ areg[o + (x + 1)] = w[x + 1]
      BY <1>3, <2>4, Zenon
    <3> QED
      BY <2>2, <3>1
  <2>6. /\ y = x + 1 => o + y = (o + x) + 1
        /\ y = x + 2 => o + y = (o + x) + 2
    BY <2>2
  <2> QED
    BY <2>2, <2>3, <2>5, <2>6, Zenon
<1>8. Spelled(s, a)
  BY <1>6, <1>7 DEF Spelled, N
<1> QED
  BY <1>5, <1>8 DEF a, N, W

\* The parts of the expression, with slashes between them, up to its end.
Plan(r, at) ==
  /\ at[0][0] = 0
  /\ \A p \in 0..LastPart(r) : Spelled(TextOf(r, p), at[p])
  /\ \A p \in 1..LastPart(r) :
       /\ at[p][0] = at[p - 1][Len(TextOf(r, p - 1))] + 1
       /\ areg[at[p][0]] = "/"
  /\ at[LastPart(r)][Len(TextOf(r, LastPart(r)))] = Len(areg)

LEMMA PlanExists ==
  ASSUME areg \in Seq(Character), NEW r \in Replacements, WrittenReplacement[r] = areg
  PROVE  \E at : Plan(r, at)
<1> DEFINE C == Character \cup {"/", "\\"}
           sl == <<"/">>
           w0 == r.pre
           w1 == Escaped(r.search)
           w2 == Escaped(r.replace)
           w3 == r.modifiers
           x1 == w0 \o sl
           x2 == x1 \o w1
           x3 == x2 \o sl
           x4 == x3 \o w2
           x5 == x4 \o w3
           L(p) == Len(TextOf(r, p))
<1>1. /\ \A p \in 0..3 : TextOf(r, p) \in Seq(Character)
      /\ \A k \in 1..Len(TextOf(r, 0)) : TextOf(r, 0)[k] # "/"
      /\ \A k \in 1..Len(TextOf(r, 3)) : TextOf(r, 3)[k] # "/"
      /\ w3 \in Seq(Character) /\ (w3 # <<>> => w3[1] = "/")
  BY TextsType, Zenon
<1>2. w0 = TextOf(r, 0) /\ w1 = Escaped(TextOf(r, 1)) /\ w2 = Escaped(TextOf(r, 2))
  BY DEF TextOf
<1>3. /\ w0 \in Seq(C) /\ w3 \in Seq(C) /\ sl \in Seq(C) /\ Len(sl) = 1 /\ sl[1] = "/"
  <2>1. w0 \in Seq(Character)
    BY <1>1, <1>2
  <2>2. Character \subseteq C /\ "/" \in C
    OBVIOUS
  <2> HIDE DEF C, w0, w1, w2, w3
  <2>3. sl \in Seq(C) /\ Len(sl) = 1 /\ sl[1] = "/"
    BY <2>2
  <2> HIDE DEF sl
  <2>4. \A s \in Seq(Character) : s \in Seq(C)
    BY <2>2
  <2> QED
    BY <1>1, <2>1, <2>3, <2>4
<1>4. w1 \in Seq(C) /\ w2 \in Seq(C)
  <2>1. TextOf(r, 1) \in Seq(Character) /\ TextOf(r, 2) \in Seq(Character)
    BY <1>1
  <2> QED
    BY <1>2, <2>1, EscapedIsWritten
<1>5. areg = x5
  BY DEF WrittenReplacement
<1>6. IsThere(x5, 0)
  <2>1. Len(areg) \in Nat
    BY LenProperties
  <2> HIDE DEF x5
  <2>2. \A k \in 1..Len(x5) : 0 + k = k
    BY <1>5, <2>1
  <2>3. 0 + Len(x5) <= Len(areg)
    BY <1>5, <2>1
  <2> QED
    BY <1>5, <2>2, <2>3 DEF IsThere
<1> HIDE DEF C, sl, w0, w1, w2, w3
<1>7. x1 \in Seq(C) /\ x2 \in Seq(C) /\ x3 \in Seq(C) /\ x4 \in Seq(C)
  BY <1>3, <1>4
<1>8. IsThere(x4, 0) /\ IsThere(w3, Len(x4)) /\ Len(areg) = Len(x4) + Len(w3)
  BY <1>3, <1>5, <1>6, <1>7, ThereConcat
<1> HIDE DEF x5
<1>9. IsThere(x3, 0) /\ IsThere(w2, Len(x3)) /\ Len(x4) = Len(x3) + Len(w2)
  BY <1>4, <1>7, <1>8, ThereConcat
<1> HIDE DEF x4
<1>10. IsThere(x2, 0) /\ IsThere(sl, Len(x2)) /\ Len(x3) = Len(x2) + Len(sl)
  BY <1>3, <1>7, <1>9, ThereConcat
<1> HIDE DEF x3
<1>11. IsThere(x1, 0) /\ IsThere(w1, Len(x1)) /\ Len(x2) = Len(x1) + Len(w1)
  BY <1>4, <1>7, <1>10, ThereConcat
<1> HIDE DEF x2
<1>12. IsThere(w0, 0) /\ IsThere(sl, Len(w0)) /\ Len(x1) = Len(w0) + Len(sl)
  BY <1>3, <1>11, ThereConcat
<1> HIDE DEF x1
<1> DEFINE o1 == Len(x1)
           o2 == Len(x3)
           o3 == Len(x4) + 1
<1>13. /\ Len(w0) \in Nat /\ Len(w1) \in Nat /\ Len(w2) \in Nat /\ Len(w3) \in Nat
       /\ Len(x2) \in Nat /\ Len(x4) \in Nat
       /\ o1 \in Nat /\ o2 \in Nat /\ o3 \in Nat /\ Len(areg) \in Nat
  BY <1>3, <1>4, <1>7, LenProperties
<1>14. o1 = Len(w0) + 1 /\ o2 = (o1 + Len(w1)) + 1 /\ o3 = (o2 + Len(w2)) + 1
  BY <1>3, <1>9, <1>10, <1>11, <1>12
<1>15. areg[Len(w0) + 1] = "/" /\ areg[Len(x2) + 1] = "/"
  <2>1. 1 \in 1..Len(sl)
    BY <1>3
  <2> QED
    BY <1>3, <1>10, <1>12, <2>1, Zenon DEF IsThere
\* The text in front of the first slash.
<1>16. PICK a0 : Spelled(TextOf(r, 0), a0) /\ a0[0] = 0 /\ a0[L(0)] = Len(w0)
  <2> DEFINE e == [k \in 0..Len(w0) |-> k]
  <2>1. WrittenAs(w0, w0, e)
    BY <1>1, <1>2, <1>3, PlainIsWritten
  <2> HIDE DEF e
  <2>2. LET a == [k \in 0..Len(w0) |-> 0 + e[k]]
        IN  Spelled(w0, a) /\ a[0] = 0 /\ a[Len(w0)] = 0 + Len(w0)
    BY <1>3, <1>12, <2>1, WrittenIsSpelled
  <2>3. 0 + Len(w0) = Len(w0)
    BY <1>13
  <2> QED
    BY <1>2, <2>2, <2>3
<1>17. PICK a1 : Spelled(TextOf(r, 1), a1) /\ a1[0] = o1 /\ a1[L(1)] = o1 + Len(w1)
  <2>1. TextOf(r, 1) \in Seq(Character)
    BY <1>1
  <2>2. PICK e : WrittenAs(TextOf(r, 1), w1, e)
    BY <1>2, <2>1, EscapedIsWritten
  <2>3. LET a == [k \in 0..L(1) |-> o1 + e[k]]
        IN  Spelled(TextOf(r, 1), a) /\ a[0] = o1 /\ a[L(1)] = o1 + Len(w1)
    BY <1>4, <1>11, <1>13, <2>1, <2>2, WrittenIsSpelled
  <2> QED
    BY <2>3
<1>18. PICK a2 : Spelled(TextOf(r, 2), a2) /\ a2[0] = o2 /\ a2[L(2)] = o2 + Len(w2)
  <2>1. TextOf(r, 2) \in Seq(Character)
    BY <1>1
  <2>2. PICK e : WrittenAs(TextOf(r, 2), w2, e)
    BY <1>2, <2>1, EscapedIsWritten
  <2>3. LET a == [k \in 0..L(2) |-> o2 + e[k]]
        IN  Spelled(TextOf(r, 2), a) /\ a[0] = o2 /\ a[L(2)] = o2 + Len(w2)
    BY <1>4, <1>9, <1>13, <2>1, <2>2, WrittenIsSpelled
  <2> QED
    BY <2>3
<1> DEFINE at(a3) == [p \in 0..3 |-> IF p = 0 THEN a0 ELSE IF p = 1 THEN a1
                                   ELSE IF p = 2 THEN a2 ELSE a3]
<1>19. ASSUME NEW a3
       PROVE  at(a3)[0] = a0 /\ at(a3)[1] = a1 /\ at(a3)[2] = a2 /\ at(a3)[3] = a3
  OBVIOUS
<1> HIDE DEF at
<1>20. Len(x2) = o1 + Len(w1) /\ Len(x4) = o2 + Len(w2)
  BY <1>9, <1>11
<1> HIDE DEF o1, o2, o3, L
<1>21. CASE w3 = <<>>
  <2> DEFINE b == at(<<>>)
  <2>1. LastPart(r) = 2
    BY <1>21 DEF LastPart, w3
  <2>2. b[0] = a0 /\ b[1] = a1 /\ b[2] = a2
    BY <1>19
  <2> HIDE DEF b
  <2>3. a2[L(2)] = Len(areg)
    <3>1. Len(w3) = 0
      BY <1>21
    <3> QED
      BY <1>8, <1>13, <1>18, <1>20, <3>1
  <2>4. ASSUME NEW p \in 0..2 PROVE Spelled(TextOf(r, p), b[p])
    <3>1. p = 0 \/ p = 1 \/ p = 2
      OBVIOUS
    <3> QED
      BY <1>16, <1>17, <1>18, <2>2, <3>1, Zenon
  <2>5. ASSUME NEW p \in 1..2
        PROVE  b[p][0] = b[p - 1][L(p - 1)] + 1 /\ areg[b[p][0]] = "/"
    <3>1. CASE p = 1
      <4>1. b[1][0] = b[0][L(0)] + 1 /\ areg[b[1][0]] = "/" /\ 1 - 1 = 0
        BY <1>14, <1>15, <1>16, <1>17, <2>2
      <4> QED
        BY <3>1, <4>1
    <3>2. CASE p = 2
      <4>1. b[2][0] = b[1][L(1)] + 1 /\ areg[b[2][0]] = "/" /\ 2 - 1 = 1
        BY <1>14, <1>15, <1>17, <1>18, <1>20, <2>2
      <4> QED
        BY <3>2, <4>1
    <3> QED
      BY <3>1, <3>2
  <2>6. Plan(r, b)
    BY <1>16, <2>1, <2>2, <2>3, <2>4, <2>5 DEF Plan, L
  <2> QED
    BY <2>6
<1>22. CASE w3 # <<>>
  <2> DEFINE m == TextOf(r, 3)
             a3 == [k \in 0..Len(m) |-> o3 + k]
             b == at(a3)
  <2>1. LastPart(r) = 3 /\ m = Tail(w3)
    BY <1>22 DEF LastPart, TextOf, w3
  <2>2. Len(m) = Len(w3) - 1 /\ Len(w3) >= 1 /\ \A k \in 1..Len(m) : m[k] = w3[k + 1]
    <3>1. w3 \in Seq(C) /\ w3 # <<>>
      BY <1>3, <1>22
    <3>2. Len(Tail(w3)) = Len(w3) - 1 /\ \A k \in 1..Len(Tail(w3)) : Tail(w3)[k] = w3[k + 1]
      BY <3>1, HeadTailProperties
    <3>3. Len(w3) # 0
      BY <3>1, EmptySeq
    <3>4. Len(w3) >= 1
      BY <1>13, <3>3
    <3> QED
      BY <2>1, <3>2, <3>4, Zenon
  <2>3. m \in Seq(Character) /\ \A k \in 1..Len(m) : m[k] # "/"
    BY <1>1
  <2> HIDE DEF m
  <2>4. areg[o3] = "/"
    <3>1. areg[Len(x4) + 1] = w3[1]
      <4>1. 1 \in 1..Len(w3)
        BY <1>13, <2>2
      <4> QED
        BY <1>8, <4>1, Zenon DEF IsThere
    <3> QED
      BY <1>1, <1>22, <3>1 DEF o3
  <2>5. IsThere(m, o3)
    <3>1. ASSUME NEW k \in 1..Len(m) PROVE areg[o3 + k] = m[k]
      <4>1. k + 1 \in 1..Len(w3) /\ Len(x4) + (k + 1) = o3 + k
        BY <1>13, <2>2 DEF o3
      <4>2. areg[Len(x4) + (k + 1)] = w3[k + 1]
        BY <1>8, <4>1, Zenon DEF IsThere
      <4> QED
        BY <2>2, <4>1, <4>2
    <3>2. o3 + Len(m) <= Len(areg)
      BY <1>8, <1>13, <2>2 DEF o3
    <3> QED
      BY <3>1, <3>2 DEF IsThere
  <2>6. Spelled(m, a3) /\ a3[0] = o3 /\ a3[Len(m)] = o3 + Len(m)
    <3> DEFINE e == [k \in 0..Len(m) |-> k]
    <3>1. WrittenAs(m, m, e)
      BY <2>3, PlainIsWritten
    <3>2. \A k \in 0..Len(m) : e[k] = k
      OBVIOUS
    <3> HIDE DEF e
    <3>3. LET a == [k \in 0..Len(m) |-> o3 + e[k]]
          IN  Spelled(m, a) /\ a[0] = o3 /\ a[Len(m)] = o3 + Len(m)
      BY <1>13, <2>3, <2>5, <3>1, WrittenIsSpelled
    <3>4. [k \in 0..Len(m) |-> o3 + e[k]] = a3
      BY <3>2
    <3> QED
      BY <3>3, <3>4
  <2>7. o3 + Len(m) = Len(areg)
    BY <1>8, <1>13, <2>2 DEF o3
  <2>8. b[0] = a0 /\ b[1] = a1 /\ b[2] = a2 /\ b[3] = a3
    BY <1>19
  <2> HIDE DEF b, a3
  <2>9. ASSUME NEW p \in 0..3 PROVE Spelled(TextOf(r, p), b[p])
    <3>1. p = 0 \/ p = 1 \/ p = 2 \/ p = 3
      OBVIOUS
    <3> QED
      BY <1>16, <1>17, <1>18, <2>6, <2>8, <3>1, Zenon DEF m
  <2>10. ASSUME NEW p \in 1..3
         PROVE  b[p][0] = b[p - 1][L(p - 1)] + 1 /\ areg[b[p][0]] = "/"
    <3>1. CASE p = 1
      <4>1. b[1][0] = b[0][L(0)] + 1 /\ areg[b[1][0]] = "/" /\ 1 - 1 = 0
        BY <1>14, <1>15, <1>16, <1>17, <2>8
      <4> QED
        BY <3>1, <4>1
    <3>2. CASE p = 2
      <4>1. b[2][0] = b[1][L(1)] + 1 /\ areg[b[2][0]] = "/" /\ 2 - 1 = 1
        BY <1>14, <1>15, <1>17, <1>18, <1>20, <2>8
      <4> QED
        BY <3>2, <4>1
    <3>3. CASE p = 3
      <4>1. b[3][0] = b[2][L(2)] + 1 /\ areg[b[3][0]] = "/" /\ 3 - 1 = 2
        BY <1>14, <1>18, <2>4, <2>6, <2>8
      <4> QED
        BY <3>3, <4>1
    <3> QED
      BY <3>1, <3>2, <3>3
  <2>11. b[3][L(3)] = Len(areg)
    BY <2>6, <2>7, <2>8 DEF m, L
  <2>12. Plan(r, b)
    BY <1>16, <2>1, <2>8, <2>9, <2>10, <2>11 DEF Plan, L
  <2> QED
    BY <2>12
<1> QED
  BY <1>21, <1>22

\* The loop has copied k characters of part p; with mid 1 it is behind the
\* backslash of the next one.
CopiedSoFar(r, at, p, k, mid) ==
  /\ p \in 0..LastPart(r) /\ k \in 0..Len(TextOf(r, p)) /\ mid \in {0, 1}
  /\ mid = 1 => k < Len(TextOf(r, p)) /\ TextOf(r, p)[k + 1] = "/"
  /\ rpos = p /\ rl = k /\ ri = at[p][k] + mid
  /\ \A q \in 0..3 : parts[q] = IF q < p THEN TextOf(r, q)
                                ELSE IF q = p THEN SubSeq(TextOf(r, p), 1, k) ELSE <<>>

\* Where the next character of a part is, and what the loop takes it for.
LEMMA NextInPart ==
  ASSUME RegInv, NEW r \in Replacements, NEW at, Plan(r, at),
         NEW p \in 0..LastPart(r), NEW k \in 0..Len(TextOf(r, p)), k < Len(TextOf(r, p))
  PROVE  LET s == TextOf(r, p)
             a == at[p]
         IN  /\ a[k] \in Nat /\ a[k + 1] \in Nat /\ a[k] < a[k + 1] /\ a[k + 1] <= Len(areg)
             /\ s[k + 1] # "/" /\ ri = a[k] =>
                  ri + 1 = a[k + 1] /\ RegChar(ri) = s[k + 1] /\ ~IsDelimiter /\ ~IsEscape
             /\ s[k + 1] = "/" => a[k] + 2 = a[k + 1]
             /\ s[k + 1] = "/" /\ ri = a[k] => ~IsDelimiter /\ IsEscape
             /\ s[k + 1] = "/" /\ ri = a[k] + 1 =>
                  RegChar(ri) = "/" /\ ~IsDelimiter /\ ~IsEscape
<1> DEFINE s == TextOf(r, p)
           a == at[p]
           N == Len(s)
           L == Len(areg)
<1>0. p \in 0..3
  BY DEF LastPart
<1>1. /\ s \in Seq(Character) /\ N \in Nat /\ L \in Nat /\ areg \in Seq(Character) /\ ri \in Nat
      /\ \A j \in 1..N : s[j] = "\\" => j < N /\ s[j + 1] # "/" /\ s[j + 1] # "\\"
  <2>1. s \in Seq(Character) /\ LoneBackslashes(s)
    BY <1>0, TextsType
  <2>2. areg \in Seq(Character) /\ ri \in 0..L /\ L \in Nat
    BY LenProperties DEF RegInv
  <2> QED
    BY <2>1, <2>2, LenProperties DEF LoneBackslashes
<1>2. /\ \A j \in 0..N : a[j] \in 0..L
      /\ \A j \in 1..N :
           \/ /\ s[j] # "/" /\ a[j] = a[j - 1] + 1 /\ areg[a[j]] = s[j]
           \/ /\ s[j] = "/" /\ a[j] = a[j - 1] + 2
              /\ areg[a[j - 1] + 1] = "\\" /\ areg[a[j]] = "/"
  BY Zenon DEF Plan, Spelled
<1>3. k + 1 \in 1..N /\ k \in 0..N /\ k + 1 \in 0..N /\ (k + 1) - 1 = k /\ k \in Nat /\ k < N
  BY <1>1
<1> HIDE DEF s, a, N, L
<1>4. a[k] \in Nat /\ a[k + 1] \in Nat /\ a[k + 1] <= L
  BY <1>1, <1>2, <1>3
<1>5. \/ /\ s[k + 1] # "/" /\ a[k + 1] = a[k] + 1 /\ areg[a[k + 1]] = s[k + 1]
      \/ /\ s[k + 1] = "/" /\ a[k + 1] = a[k] + 2
         /\ areg[a[k] + 1] = "\\" /\ areg[a[k + 1]] = "/"
  BY <1>2, <1>3
<1>6. \A n \in Nat : n < L => RegChar(n) = areg[n + 1]
  BY DEF RegChar, L
<1>7. ASSUME s[k + 1] # "/", ri = a[k]
      PROVE  ri + 1 = a[k + 1] /\ RegChar(ri) = s[k + 1] /\ ~IsDelimiter /\ ~IsEscape
  <2>1. a[k + 1] = a[k] + 1 /\ areg[a[k] + 1] = s[k + 1]
    BY <1>5, <1>7
  <2>2. RegChar(ri) = s[k + 1]
    <3>1. a[k] < L
      BY <1>1, <1>4, <2>1
    <3>2. RegChar(a[k]) = areg[a[k] + 1]
      BY <1>4, <1>6, <3>1, Zenon
    <3> QED
      BY <1>7, <2>1, <3>2, Zenon
  <2>3. ~IsDelimiter
    BY <1>7, <2>2 DEF IsDelimiter
  <2>4. ASSUME s[k + 1] = "\\" PROVE RegChar(ri + 1) # "/" /\ RegChar(ri + 1) # "\\"
    <3>1. k + 1 < N /\ s[(k + 1) + 1] # "/" /\ s[(k + 1) + 1] # "\\"
      BY <1>1, <1>3, <2>4
    <3>2. (k + 1) + 1 \in 1..N /\ ((k + 1) + 1) - 1 = k + 1 /\ (k + 1) + 1 \in 0..N
      BY <1>1, <1>3, <3>1
    <3>3. /\ a[(k + 1) + 1] = a[k + 1] + 1 /\ areg[a[(k + 1) + 1]] = s[(k + 1) + 1]
          /\ a[(k + 1) + 1] \in 0..L
      BY <1>2, <3>1, <3>2
    <3>4. RegChar(a[k + 1]) = areg[a[k + 1] + 1]
      BY <1>1, <1>4, <1>6, <3>3
    <3>5. ri + 1 = a[k + 1]
      BY <1>7, <2>1
    <3> QED
      BY <3>1, <3>3, <3>4, <3>5
  <2>5. ~IsEscape
    BY <2>2, <2>4 DEF IsEscape
  <2> QED
    BY <1>7, <2>1, <2>2, <2>3, <2>5
<1>8. ASSUME s[k + 1] = "/"
      PROVE  a[k] + 2 = a[k + 1] /\ RegChar(a[k]) = "\\" /\ RegChar(a[k] + 1) = "/"
  <2>1. a[k + 1] = a[k] + 2 /\ areg[a[k] + 1] = "\\" /\ areg[a[k] + 2] = "/"
    BY <1>5, <1>8
  <2>2. a[k] < L /\ a[k] + 1 < L /\ a[k] + 1 \in Nat /\ (a[k] + 1) + 1 = a[k] + 2
    BY <1>1, <1>4, <2>1
  <2> QED
    BY <1>4, <1>6, <2>1, <2>2
<1>9. ASSUME s[k + 1] = "/", ri = a[k] PROVE ~IsDelimiter /\ IsEscape
  BY <1>8, <1>9 DEF IsDelimiter, IsEscape
<1>10. ASSUME s[k + 1] = "/", ri = a[k] + 1
       PROVE  RegChar(ri) = "/" /\ ~IsDelimiter /\ ~IsEscape
  <2>1. ri > 0 /\ ri - 1 = a[k]
    BY <1>4, <1>10
  <2> QED
    BY <1>8, <1>10, <2>1 DEF IsDelimiter, IsEscape
<1>11. a[k] < a[k + 1]
  BY <1>4, <1>5
<1> QED
  BY <1>4, <1>7, <1>8, <1>9, <1>10, <1>11 DEF s, a, L

\* Behind a part that is not the last there is a slash, which delimits it.
LEMMA NextBehindPart ==
  ASSUME RegInv, NEW r \in Replacements, NEW at, Plan(r, at),
         NEW p \in 0..LastPart(r), p < LastPart(r), ri = at[p][Len(TextOf(r, p))]
  PROVE  ri < Len(areg) /\ ri + 1 = at[p + 1][0] /\ IsDelimiter
<1> DEFINE s == TextOf(r, p)
           a == at[p]
           N == Len(s)
           L == Len(areg)
<1>0. p \in 0..3 /\ p + 1 \in 1..LastPart(r) /\ p + 1 \in 0..LastPart(r) /\ (p + 1) - 1 = p
  BY DEF LastPart
<1>1. /\ s \in Seq(Character) /\ N \in Nat /\ L \in Nat /\ ri \in Nat
      /\ \A j \in 1..N : s[j] = "\\" => j < N
  <2>1. s \in Seq(Character) /\ LoneBackslashes(s)
    BY <1>0, TextsType
  <2>2. areg \in Seq(Character) /\ ri \in 0..L /\ L \in Nat
    BY LenProperties DEF RegInv
  <2> QED
    BY <2>1, <2>2, LenProperties DEF LoneBackslashes
<1>2. /\ \A j \in 0..N : a[j] \in 0..L
      /\ \A j \in 1..N :
           \/ /\ s[j] # "/" /\ a[j] = a[j - 1] + 1 /\ areg[a[j]] = s[j]
           \/ /\ s[j] = "/" /\ a[j] = a[j - 1] + 2
              /\ areg[a[j - 1] + 1] = "\\" /\ areg[a[j]] = "/"
  BY Zenon DEF Plan, Spelled
<1> DEFINE here == at[p + 1][0]
<1>3. /\ here = a[N] + 1 /\ areg[here] = "/"
      /\ here \in 0..L
  <2>1. Spelled(TextOf(r, p + 1), at[p + 1])
    BY <1>0 DEF Plan
  <2>2. 0 \in 0..Len(TextOf(r, p + 1))
    <3>1. p + 1 \in 0..3
      BY <1>0 DEF LastPart
    <3>2. TextOf(r, p + 1) \in Seq(Character)
      BY <3>1, TextsType
    <3>3. Len(TextOf(r, p + 1)) \in Nat
      BY <3>2, LenProperties
    <3> QED
      BY <3>3
  <2>3. here \in 0..L
    BY <2>1, <2>2 DEF Spelled
  <2>4. here = at[(p + 1) - 1][Len(TextOf(r, (p + 1) - 1))] + 1 /\ areg[here] = "/"
    BY <1>0, Zenon DEF Plan
  <2> QED
    BY <1>0, <2>3, <2>4
\* The first part begins at 0, any other part behind a slash.
<1>4. a[0] = 0 \/ (areg[a[0]] = "/" /\ a[0] \in Nat)
  <2>1. CASE p = 0
    BY <2>1 DEF Plan
  <2>2. CASE p # 0
    <3>1. p \in 1..LastPart(r)
      BY <2>2
    <3>2. areg[a[0]] = "/"
      BY <3>1 DEF Plan
    <3> QED
      BY <1>1, <1>2, <3>2
  <2> QED
    BY <2>1, <2>2
<1>5. ri = a[N]
  OBVIOUS
<1> HIDE DEF s, a, N, L, here
<1>6. ri + 1 = here /\ ri < L
  BY <1>1, <1>3, <1>5
<1>7. \A n \in Nat : n < L => RegChar(n) = areg[n + 1]
  BY DEF RegChar, L
<1>8. RegChar(ri) = "/"
  BY <1>1, <1>3, <1>6, <1>7
<1>9. ASSUME ri > 0 PROVE RegChar(ri - 1) # "\\"
  <2>1. ri - 1 \in Nat /\ ri - 1 < L /\ (ri - 1) + 1 = ri
    BY <1>1, <1>6, <1>9
  <2>2. RegChar(ri - 1) = areg[ri]
    BY <1>7, <2>1
  <2>3. CASE N = 0
    <3>1. areg[ri] = "/"
      BY <1>1, <1>4, <1>5, <1>9, <2>3
    <3> QED
      BY <2>2, <3>1
  <2>4. CASE N # 0
    <3>1. N \in 1..N /\ ~(N < N)
      BY <1>1, <2>4
    <3>2. (areg[a[N]] = s[N] /\ s[N] # "\\") \/ areg[a[N]] = "/"
      BY <1>1, <1>2, <3>1
    <3> QED
      BY <1>5, <2>2, <3>2
  <2> QED
    BY <2>3, <2>4
<1> QED
  BY <1>6, <1>8, <1>9 DEF IsDelimiter, here, L

MeantParts(r) == \A p \in 0..3 : parts[p] = TextOf(r, p)

SplitInv ==
  /\ RegInv
  /\ \A r \in Replacements :
       WrittenReplacement[r] = areg =>
         /\ split = "loop" =>
              \E at, p, k, mid : Plan(r, at) /\ CopiedSoFar(r, at, p, k, mid)
         /\ split = "done" => MeantParts(r)

LEMMA SplitInit == RegInit => SplitInv
<1> SUFFICES ASSUME RegInit, NEW r \in Replacements, WrittenReplacement[r] = areg
             PROVE  /\ split = "loop"
                    /\ \E at, p, k, mid : Plan(r, at) /\ CopiedSoFar(r, at, p, k, mid)
  BY RegInvInit DEF SplitInv
<1>1. /\ areg \in Seq(Character) /\ ri = 0 /\ rl = 0 /\ rpos = 0 /\ split = "loop"
      /\ parts = [p \in 0..3 |-> <<>>]
  BY ExpressionAssumption DEF RegInit, Unsplit
<1>2. PICK at : Plan(r, at)
  BY <1>1, PlanExists
<1>3. Len(TextOf(r, 0)) \in Nat
  <2>1. TextOf(r, 0) \in Seq(Character)
    BY TextsType
  <2> QED
    BY <2>1, LenProperties
<1>4. at[0][0] = 0
  BY <1>2 DEF Plan
<1>5. SubSeq(TextOf(r, 0), 1, 0) = <<>>
  BY SubSeqEmpty
<1>6. 0 \in 0..LastPart(r)
  BY DEF LastPart
<1>7. \A q \in 0..3 : parts[q] = IF q < 0 THEN TextOf(r, q)
                                 ELSE IF q = 0 THEN SubSeq(TextOf(r, 0), 1, 0) ELSE <<>>
  <2> DEFINE none == <<>>
             nothing == SubSeq(TextOf(r, 0), 1, 0)
  <2>1. parts = [p \in 0..3 |-> none] /\ nothing = none
    BY <1>1, <1>5
  <2> HIDE DEF none, nothing
  <2>2. \A q \in 0..3 : parts[q] = IF q < 0 THEN TextOf(r, q) ELSE IF q = 0 THEN nothing ELSE none
    BY <2>1
  <2> QED
    BY <2>2 DEF none, nothing
<1>8. CopiedSoFar(r, at, 0, 0, 0)
  BY <1>1, <1>3, <1>4, <1>6, <1>7 DEF CopiedSoFar
<1> QED
  BY <1>1, <1>2, <1>8

\* What is known of the place where the loop is.
LEMMA WhereItIs ==
  ASSUME RegInv, NEW r \in Replacements, NEW at, Plan(r, at), NEW p, NEW k, NEW mid,
         CopiedSoFar(r, at, p, k, mid)
  PROVE  /\ p \in 0..3 /\ p \in 0..LastPart(r) /\ LastPart(r) \in 0..3
         /\ TextOf(r, p) \in Seq(Character) /\ Len(TextOf(r, p)) \in Nat
         /\ k \in Nat /\ k <= Len(TextOf(r, p)) /\ (mid = 0 \/ mid = 1)
         /\ ri \in Nat /\ Len(areg) \in Nat /\ at[p][k] \in Nat
         /\ ~(ri < Len(areg)) => p = LastPart(r) /\ k = Len(TextOf(r, p))
         /\ p = LastPart(r) /\ k = Len(TextOf(r, p)) => ~(ri < Len(areg))
<1> DEFINE s == TextOf(r, p)
           N == Len(s)
<1>1. p \in 0..LastPart(r) /\ LastPart(r) \in 0..3 /\ p \in 0..3
  BY DEF CopiedSoFar, LastPart
<1>2. s \in Seq(Character) /\ N \in Nat
  <2>1. s \in Seq(Character)
    BY <1>1, TextsType
  <2> QED
    BY <2>1, LenProperties
<1>3. k \in 0..N /\ mid \in {0, 1} /\ ri = at[p][k] + mid
      /\ (mid = 1 => k < N /\ s[k + 1] = "/")
  BY DEF CopiedSoFar
<1>4. at[p][k] \in 0..Len(areg)
  BY <1>1, <1>3 DEF Plan, Spelled
<1>5. ri \in Nat /\ Len(areg) \in Nat
  BY LenProperties DEF RegInv
<1>6. ASSUME k < N PROVE ri < Len(areg)
  <2>1. /\ at[p][k + 1] \in Nat /\ at[p][k] < at[p][k + 1] /\ at[p][k + 1] <= Len(areg)
        /\ s[k + 1] = "/" => at[p][k] + 2 = at[p][k + 1]
    BY <1>1, <1>3, <1>6, NextInPart
  <2> QED
    BY <1>3, <1>4, <1>5, <2>1
<1>7. ASSUME k = N, p < LastPart(r) PROVE ri < Len(areg)
  <2>1. ri = at[p][N]
    BY <1>2, <1>3, <1>4, <1>7
  <2> QED
    BY <1>1, <1>7, <2>1, NextBehindPart
<1>8. ASSUME k = N, p = LastPart(r) PROVE ~(ri < Len(areg))
  <2>1. ri = at[p][N]
    BY <1>2, <1>3, <1>4, <1>8
  <2>2. at[p][N] = Len(areg)
    BY <1>8 DEF Plan
  <2> QED
    BY <1>5, <2>1, <2>2
<1>9. k \in Nat /\ k <= N /\ (k < N \/ k = N) /\ (p < LastPart(r) \/ p = LastPart(r))
  BY <1>1, <1>2, <1>3
<1> HIDE DEF s, N
<1>10. at[p][k] \in Nat
  BY <1>4, <1>5
<1> QED
  BY <1>1, <1>2, <1>3, <1>5, <1>6, <1>7, <1>8, <1>9, <1>10, Zenon DEF s, N

LEMMA DelimitSplits ==
  ASSUME RegInv, NEW r \in Replacements, NEW at, Plan(r, at), NEW p, NEW k, NEW mid,
         CopiedSoFar(r, at, p, k, mid), Delimit
  PROVE  CopiedSoFar(r, at, p + 1, 0, 0)'
<1> DEFINE s == TextOf(r, p)
           N == Len(s)
           m == LastPart(r)
<1>1. /\ p \in 0..3 /\ p \in 0..m /\ m \in 0..3 /\ s \in Seq(Character) /\ N \in Nat
      /\ k \in Nat /\ k <= N /\ (mid = 0 \/ mid = 1)
      /\ p = m /\ k = N => ~(ri < Len(areg))
  BY WhereItIs
<1>2. /\ rpos' = rpos + 1 /\ rl' = 0 /\ ri' = ri + 1 /\ parts' = parts /\ ri < Len(areg)
      /\ IsDelimiter
  BY DEF Delimit, NextChar, Splitting
<1>3. /\ rpos = p /\ ri = at[p][k] + mid /\ (mid = 1 => k < N /\ s[k + 1] = "/")
      /\ \A q \in 0..3 : parts[q] = IF q < p THEN TextOf(r, q)
                                    ELSE IF q = p THEN SubSeq(s, 1, k) ELSE <<>>
  BY DEF CopiedSoFar
<1>4. at[p][k] \in Nat
  BY WhereItIs
\* No character of a part is taken for a delimiter.
<1>5. k = N
  <2> SUFFICES ASSUME k # N PROVE FALSE
    OBVIOUS
  <2>1. k < N /\ k \in 0..N
    BY <1>1
  <2>2. ri = at[p][k] => ~IsDelimiter
    BY <1>1, <2>1, NextInPart
  <2>3. s[k + 1] = "/" /\ ri = at[p][k] + 1 => ~IsDelimiter
    BY <1>1, <2>1, NextInPart
  <2> QED
    BY <1>1, <1>2, <1>3, <1>4, <2>2, <2>3
<1>6. mid = 0 /\ ri = at[p][N]
  BY <1>1, <1>3, <1>4, <1>5
<1>7. p < m
  BY <1>1, <1>2, <1>5
<1>8. ri + 1 = at[p + 1][0]
  BY <1>1, <1>6, <1>7, NextBehindPart
<1>9. SubSeq(s, 1, k) = s
  BY <1>1, <1>5, SubSeqFull
<1>10. SubSeq(TextOf(r, p + 1), 1, 0) = <<>>
  BY SubSeqEmpty
<1>11. p + 1 \in 0..m
  BY <1>1, <1>7
<1>12. ASSUME NEW q \in 0..3
       PROVE  parts'[q] = IF q < p + 1 THEN TextOf(r, q)
                          ELSE IF q = p + 1 THEN SubSeq(TextOf(r, p + 1), 1, 0) ELSE <<>>
  <2>1. CASE q < p
    BY <1>1, <1>2, <1>3, <2>1
  <2>2. CASE q = p
    <3>1. parts'[q] = TextOf(r, q)
      BY <1>2, <1>3, <1>9, <2>2
    <3> QED
      BY <1>1, <2>2, <3>1
  <2>3. CASE q > p
    <3>1. parts'[q] = <<>>
      BY <1>1, <1>2, <1>3, <2>3
    <3> QED
      BY <1>1, <1>10, <2>3, <3>1
  <2> QED
    BY <1>1, <2>1, <2>2, <2>3
<1>13. Len(TextOf(r, p + 1)) \in Nat
  <2>1. p + 1 \in 0..3
    BY <1>1, <1>11
  <2>2. TextOf(r, p + 1) \in Seq(Character)
    BY <2>1, TextsType
  <2> QED
    BY <2>2, LenProperties
<1>14. 0 \in 0..Len(TextOf(r, p + 1))
  BY <1>13
<1>15. ri' = at[p + 1][0] + 0
  BY <1>1, <1>2, <1>4, <1>6, <1>8
<1> QED
  BY <1>2, <1>3, <1>11, <1>12, <1>14, <1>15 DEF CopiedSoFar, TextOf, LastPart

LEMMA EscapeSplits ==
  ASSUME RegInv, NEW r \in Replacements, NEW at, Plan(r, at), NEW p, NEW k, NEW mid,
         CopiedSoFar(r, at, p, k, mid), Escape
  PROVE  CopiedSoFar(r, at, p, k, 1)'
<1> DEFINE s == TextOf(r, p)
           N == Len(s)
           m == LastPart(r)
<1>1. /\ p \in 0..3 /\ p \in 0..m /\ m \in 0..3 /\ s \in Seq(Character) /\ N \in Nat
      /\ k \in Nat /\ k <= N /\ (mid = 0 \/ mid = 1)
      /\ p = m /\ k = N => ~(ri < Len(areg))
  BY WhereItIs
<1>2. /\ rpos' = rpos /\ rl' = rl /\ ri' = ri + 1 /\ parts' = parts /\ ri < Len(areg)
      /\ IsEscape
  BY DEF Escape, NextChar, Splitting
<1>3. /\ rpos = p /\ rl = k /\ ri = at[p][k] + mid /\ (mid = 1 => k < N /\ s[k + 1] = "/")
      /\ \A q \in 0..3 : parts[q] = IF q < p THEN TextOf(r, q)
                                    ELSE IF q = p THEN SubSeq(s, 1, k) ELSE <<>>
  BY DEF CopiedSoFar
<1>4. at[p][k] \in Nat
  BY WhereItIs
\* A delimiter is no escape.
<1>5. k # N
  <2> SUFFICES ASSUME k = N PROVE FALSE
    OBVIOUS
  <2>1. p < m /\ ri = at[p][N]
    BY <1>1, <1>2, <1>3, <1>4
  <2>2. IsDelimiter
    BY <1>1, <2>1, NextBehindPart
  <2> QED
    BY <1>2, <2>2 DEF IsDelimiter, IsEscape
<1>6. k < N /\ k \in 0..N
  BY <1>1, <1>5
<1>7. s[k + 1] = "/" /\ ri = at[p][k]
  <2>1. s[k + 1] # "/" /\ ri = at[p][k] => ~IsEscape
    BY <1>1, <1>6, NextInPart
  <2>2. s[k + 1] = "/" /\ ri = at[p][k] + 1 => ~IsEscape
    BY <1>1, <1>6, NextInPart
  <2>3. ri = at[p][k] \/ (ri = at[p][k] + 1 /\ s[k + 1] = "/")
    BY <1>1, <1>3, <1>4
  <2> QED
    BY <1>2, <2>1, <2>2, <2>3
<1> QED
  BY <1>1, <1>2, <1>3, <1>6, <1>7 DEF CopiedSoFar, TextOf, LastPart

LEMMA CopySplits ==
  ASSUME RegInv, NEW r \in Replacements, NEW at, Plan(r, at), NEW p, NEW k, NEW mid,
         CopiedSoFar(r, at, p, k, mid), CopyChar
  PROVE  CopiedSoFar(r, at, p, k + 1, 0)'
<1> DEFINE s == TextOf(r, p)
           N == Len(s)
           m == LastPart(r)
<1>1. /\ p \in 0..3 /\ p \in 0..m /\ m \in 0..3 /\ s \in Seq(Character) /\ N \in Nat
      /\ k \in Nat /\ k <= N /\ (mid = 0 \/ mid = 1)
      /\ p = m /\ k = N => ~(ri < Len(areg))
  BY WhereItIs
<1>2. /\ rpos' = rpos /\ rl' = rl + 1 /\ ri' = ri + 1 /\ ri < Len(areg)
      /\ ~IsDelimiter /\ ~IsEscape
      /\ parts' = [parts EXCEPT ![rpos] =
                     IF rl <= Len(@) THEN SubSeq(@, 1, rl) \o <<RegChar(ri)>> ELSE @]
  BY DEF CopyChar, NextChar, Splitting
<1>3. /\ rpos = p /\ rl = k /\ ri = at[p][k] + mid /\ (mid = 1 => k < N /\ s[k + 1] = "/")
      /\ \A q \in 0..3 : parts[q] = IF q < p THEN TextOf(r, q)
                                    ELSE IF q = p THEN SubSeq(s, 1, k) ELSE <<>>
  BY DEF CopiedSoFar
<1>4. at[p][k] \in Nat
  BY WhereItIs
\* A delimiter is not copied.
<1>5. k # N
  <2> SUFFICES ASSUME k = N PROVE FALSE
    OBVIOUS
  <2>1. p < m /\ ri = at[p][N]
    BY <1>1, <1>2, <1>3, <1>4
  <2>2. IsDelimiter
    BY <1>1, <2>1, NextBehindPart
  <2> QED
    BY <1>2, <2>2
<1>6. k < N /\ k \in 0..N
  BY <1>1, <1>5
\* The character that is copied is the next one of the part.
<1>7. RegChar(ri) = s[k + 1] /\ ri + 1 = at[p][k + 1]
  <2>1. at[p][k + 1] \in Nat
    BY <1>1, <1>6, NextInPart
  <2>2. s[k + 1] # "/" /\ ri = at[p][k] => ri + 1 = at[p][k + 1] /\ RegChar(ri) = s[k + 1]
    BY <1>1, <1>6, NextInPart
  <2>3. s[k + 1] = "/" /\ ri = at[p][k] => IsEscape
    BY <1>1, <1>6, NextInPart
  <2>4. s[k + 1] = "/" /\ ri = at[p][k] + 1 => RegChar(ri) = "/"
    BY <1>1, <1>6, NextInPart
  <2>5. s[k + 1] = "/" => at[p][k] + 2 = at[p][k + 1]
    BY <1>1, <1>6, NextInPart
  <2>6. ri = at[p][k] \/ (ri = at[p][k] + 1 /\ s[k + 1] = "/")
    BY <1>1, <1>3, <1>4
  <2>7. ri = at[p][k] + 1 => ri + 1 = at[p][k] + 2
    BY <1>4
  <2> QED
    BY <1>2, <2>2, <2>3, <2>4, <2>5, <2>6, <2>7, Zenon
<1> DEFINE old == parts[p]
           new == SubSeq(s, 1, k + 1)
<1>8. old = SubSeq(s, 1, k)
  <2> DEFINE front == SubSeq(s, 1, k)
  <2>1. parts[p] = IF p < p THEN TextOf(r, p) ELSE IF p = p THEN front ELSE <<>>
    BY <1>1, <1>3, Zenon
  <2>2. ~(p < p)
    BY <1>1
  <2> HIDE DEF front
  <2>3. parts[p] = front
    BY <2>1, <2>2, Zenon
  <2> QED
    BY <2>3 DEF front
<1>9. new = old \o <<s[k + 1]>>
  <2>1. k + 1 \in 1..Len(s) /\ 1 \in 1..Len(s) /\ k + 1 \in 1..Len(s) /\ (k + 1) - 1 = k
    BY <1>1, <1>6
  <2>2. SubSeq(s, 1, k + 1) = SubSeq(s, 1, (k + 1) - 1) \o <<s[k + 1]>>
    BY <1>1, <2>1, SubSeqRecursiveSecond
  <2> QED
    BY <1>8, <2>1, <2>2
<1>10. old \in Seq(Character) /\ Len(old) = k
  <2>1. /\ parts \in [0..3 -> Seq(Character)]
        /\ rpos \in 0..3 => rl = Len(parts[rpos])
    BY DEF RegInv
  <2>2. rpos = p /\ rl = k
    BY <1>3
  <2> QED
    BY <1>1, <2>1, <2>2
<1>11. SubSeq(old, 1, k) = old
  BY <1>10, SubSeqFull
<1>12. parts' = [parts EXCEPT ![p] = new]
  <2>1. parts' = [parts EXCEPT ![p] =
                    IF k <= Len(old) THEN SubSeq(old, 1, k) \o <<RegChar(ri)>> ELSE old]
    BY <1>2, <1>3
  <2> HIDE DEF old, new
  <2>2. k <= Len(old)
    BY <1>1, <1>10
  <2> QED
    BY <1>7, <1>9, <1>11, <2>1, <2>2
<1> HIDE DEF old, new
<1>13. ASSUME NEW q \in 0..3
       PROVE  parts'[q] = IF q < p THEN TextOf(r, q) ELSE IF q = p THEN new ELSE <<>>
  <2>1. parts \in [0..3 -> Seq(Character)]
    BY DEF RegInv
  <2>2. CASE q = p
    BY <1>1, <1>12, <2>1, <2>2
  <2>3. CASE q # p
    <3>1. parts'[q] = parts[q]
      BY <1>12, <2>1, <2>3
    <3> QED
      BY <1>3, <2>3, <3>1
  <2> QED
    BY <2>2, <2>3
<1>14. k + 1 \in 0..N /\ ri' = at[p][k + 1] + 0
  <2>1. at[p][k + 1] \in Nat
    BY <1>1, <1>6, NextInPart
  <2> QED
    BY <1>1, <1>2, <1>6, <1>7, <2>1
<1> QED
  BY <1>1, <1>2, <1>3, <1>13, <1>14 DEF CopiedSoFar, TextOf, LastPart, new

LEMMA EndIsMeant ==
  ASSUME RegInv, NEW r \in Replacements, NEW at, Plan(r, at), NEW p, NEW k, NEW mid,
         CopiedSoFar(r, at, p, k, mid), EndOfExpression
  PROVE  MeantParts(r)'
<1> DEFINE s == TextOf(r, p)
           N == Len(s)
           m == LastPart(r)
<1>1. /\ p \in 0..3 /\ p \in 0..m /\ m \in 0..3 /\ s \in Seq(Character) /\ N \in Nat
      /\ ri \in Nat /\ Len(areg) \in Nat
      /\ ~(ri < Len(areg)) => p = m /\ k = N
  BY WhereItIs
<1>2. /\ rpos = p
      /\ \A q \in 0..3 : parts[q] = IF q < p THEN TextOf(r, q)
                                    ELSE IF q = p THEN SubSeq(s, 1, k) ELSE <<>>
  BY DEF CopiedSoFar
<1>3. parts' = parts /\ (ri >= Len(areg) \/ rpos >= 5)
  BY DEF EndOfExpression
<1>4. p = m /\ k = N
  BY <1>1, <1>2, <1>3
<1>5. SubSeq(s, 1, k) = s
  BY <1>1, <1>4, SubSeqFull
<1>6. ASSUME NEW q \in 0..3 PROVE parts'[q] = TextOf(r, q)
  <2>1. CASE q < p
    BY <1>2, <1>3, <2>1
  <2>2. CASE q = p
    BY <1>1, <1>2, <1>3, <1>5, <2>2
  <2>3. CASE q > p
    <3>1. parts'[q] = <<>>
      BY <1>1, <1>2, <1>3, <2>3
    <3>2. q = 3 /\ r.modifiers = <<>>
      BY <1>1, <1>4, <2>3 DEF LastPart
    <3>3. TextOf(r, q) = <<>>
      BY <3>2 DEF TextOf
    <3> QED
      BY <3>1, <3>3
  <2> QED
    BY <1>1, <2>1, <2>2, <2>3
<1> QED
  BY <1>6 DEF MeantParts, TextOf

LEMMA SplitStep == SplitInv /\ [RegNext]_regVars => SplitInv'
<1> SUFFICES ASSUME SplitInv, [RegNext]_regVars PROVE SplitInv'
  OBVIOUS
<1>1. RegInv /\ RegInv' /\ areg' = areg
  <2>1. RegInv /\ RegInv'
    BY RegInvStep DEF SplitInv
  <2> QED
    BY <2>1 DEF RegNext, Delimit, Escape, CopyChar, CopyToNull, EndOfExpression, regVars
<1>2. SUFFICES ASSUME NEW r \in Replacements, WrittenReplacement[r] = areg
      PROVE  /\ split' = "loop" =>
                  \E at, p, k, mid : Plan(r, at)' /\ CopiedSoFar(r, at, p, k, mid)'
             /\ split' = "done" => MeantParts(r)'
  <2>1. \A r \in Replacements : WrittenReplacement[r]' = WrittenReplacement[r]
    BY DEF WrittenReplacement
  <2> QED
    BY <1>1, <1>2, <2>1 DEF SplitInv
<1>3. \A at : Plan(r, at) => Plan(r, at)'
  BY <1>1 DEF Plan, Spelled, LastPart, TextOf
<1>4. /\ split = "loop" =>
           \E at, p, k, mid : Plan(r, at) /\ CopiedSoFar(r, at, p, k, mid)
      /\ split = "done" => MeantParts(r)
  BY <1>2 DEF SplitInv
<1>5. CASE Delimit
  <2>1. split = "loop" /\ split' = "loop"
    BY <1>5 DEF Delimit, Splitting
  <2>2. PICK at, p, k, mid : Plan(r, at) /\ CopiedSoFar(r, at, p, k, mid)
    BY <1>4, <2>1
  <2>3. CopiedSoFar(r, at, p + 1, 0, 0)'
    BY <1>1, <1>5, <2>2, DelimitSplits
  <2> QED
    BY <1>3, <2>1, <2>2, <2>3
<1>6. CASE Escape
  <2>1. split = "loop" /\ split' = "loop"
    BY <1>6 DEF Escape, Splitting
  <2>2. PICK at, p, k, mid : Plan(r, at) /\ CopiedSoFar(r, at, p, k, mid)
    BY <1>4, <2>1
  <2>3. CopiedSoFar(r, at, p, k, 1)'
    BY <1>1, <1>6, <2>2, EscapeSplits
  <2> QED
    BY <1>3, <2>1, <2>2, <2>3
<1>7. CASE CopyChar
  <2>1. split = "loop" /\ split' = "loop"
    BY <1>7 DEF CopyChar, Splitting
  <2>2. PICK at, p, k, mid : Plan(r, at) /\ CopiedSoFar(r, at, p, k, mid)
    BY <1>4, <2>1
  <2>3. CopiedSoFar(r, at, p, k + 1, 0)'
    BY <1>1, <1>7, <2>2, CopySplits
  <2> QED
    BY <1>3, <2>1, <2>2, <2>3
<1>8. CASE CopyToNull
  BY <1>8 DEF CopyToNull
<1>9. CASE EndOfExpression
  <2>1. split = "loop" /\ split' = "done"
    BY <1>9 DEF EndOfExpression
  <2>2. PICK at, p, k, mid : Plan(r, at) /\ CopiedSoFar(r, at, p, k, mid)
    BY <1>4, <2>1
  <2>3. MeantParts(r)'
    BY <1>1, <1>9, <2>2, EndIsMeant
  <2> QED
    BY <2>1, <2>3
<1>10. CASE UNCHANGED regVars
  <2>1. UNCHANGED <<areg, ri, rl, rpos, parts, split>>
    BY <1>10 DEF regVars
  <2>2. \A at, p, k, mid : CopiedSoFar(r, at, p, k, mid) => CopiedSoFar(r, at, p, k, mid)'
    BY <2>1 DEF CopiedSoFar, TextOf, LastPart
  <2>3. MeantParts(r) => MeantParts(r)'
    BY <2>1 DEF MeantParts, TextOf
  <2> QED
    BY <1>3, <1>4, <2>1, <2>2, <2>3, Zenon
<1> QED
  BY <1>5, <1>6, <1>7, <1>8, <1>9, <1>10 DEF RegNext

\* An expression as it is described is cut into the parts that it was written
\* for, with the escapes of its slashes removed, whatever the parts are
\* (reg.cpp:45-51, 76-113).
THEOREM CutsAsWritten == RegSpec => []SplitsAsWritten
<1>1. SplitInv => SplitsAsWritten
  BY DEF SplitInv, MeantParts, SplitsAsWritten, TextOf
<1> QED
  BY <1>1, SplitInit, SplitStep, PTL DEF RegSpec

-----------------------------------------------------------------------------
(* Encoding *)

\* The key has a byte for every position (xor.c:13).
LEMMA KeyByte ==
  ASSUME NEW k \in Nat \ {0}
  PROVE  Key[((k - 1) % Len(Key)) + 1] \in Byte
<1>1. Len(Key) \in Nat \ {0}
  BY XorAssumption
<1>2. ((k - 1) % Len(Key)) + 1 \in 1..Len(Key)
  BY <1>1
<1> QED
  BY <1>2, XorAssumption

\* _xor() keeps the length and gives bytes.
LEMMA XorType ==
  ASSUME NEW s \in Seq(Byte)
  PROVE  /\ _xor(s) \in Seq(Byte)
         /\ Len(_xor(s)) = Len(s)
         /\ \A k \in 1..Len(s) : _xor(s)[k] = Xor[s[k]][Key[((k - 1) % Len(Key)) + 1]]
<1>0. \A a, b \in Byte : Xor[a][b] \in Byte
  BY XorAssumption
<1>1. ASSUME NEW k \in 1..Len(s)
      PROVE  Xor[s[k]][Key[((k - 1) % Len(Key)) + 1]] \in Byte
  <2>1. s[k] \in Byte
    OBVIOUS
  <2>2. Key[((k - 1) % Len(Key)) + 1] \in Byte
    BY KeyByte
  <2> QED
    BY <1>0, <2>1, <2>2
<1> QED
  BY <1>1 DEF _xor

\* _xor() undoes itself.
LEMMA XorTwice ==
  ASSUME NEW s \in Seq(Byte)
  PROVE  _xor(_xor(s)) = s
<1> DEFINE once == _xor(s)
           twice == _xor(once)
<1>1. once \in Seq(Byte) /\ Len(once) = Len(s)
  BY XorType
<1>2. twice \in Seq(Byte) /\ Len(twice) = Len(s)
  BY <1>1, XorType
<1>3. ASSUME NEW k \in 1..Len(s)
      PROVE  twice[k] = s[k]
  <2> DEFINE key == Key[((k - 1) % Len(Key)) + 1]
  <2>1. s[k] \in Byte
    OBVIOUS
  <2>4. key \in Byte
    BY KeyByte
  <2>2. once[k] = Xor[s[k]][key]
    BY XorType
  <2>3. twice[k] = Xor[once[k]][key]
    BY <1>1, XorType
  <2> HIDE DEF once, twice, key
  <2> QED
    BY <2>1, <2>2, <2>3, <2>4, XorAssumption
<1> QED
  BY <1>1, <1>2, <1>3

\* An encoded file is taken for one, and decoding it gives what was encoded.
LEMMA DecodeEncode ==
  ASSUME NEW s \in Seq(Byte)
  PROVE  /\ is_encoded(Encode(s)) = {TRUE}
         /\ Len(Encode(s)) >= Len(Magic)
         /\ Decode(Encode(s)) = s
<1> DEFINE x == _xor(s)
           e == Magic \o x
<1>1. x \in Seq(Byte) /\ _xor(x) = s /\ Magic \in Seq(Byte)
  BY XorType, XorTwice, XorAssumption
<1>2. Encode(s) = e
  BY DEF Encode
<1> HIDE DEF x
<1>3. e \in Seq(Byte) /\ Len(e) = Len(Magic) + Len(x)
  BY <1>1
<1>4. SubSeq(e, 1, Len(Magic)) = Magic
  BY <1>1
<1>5. SubSeq(e, Len(Magic) + 1, Len(e)) = x
  BY <1>1
<1>6. Len(Magic) \in Nat /\ Len(x) \in Nat
  BY <1>1
<1> HIDE DEF e
<1>7. BeginsWithMagic(e) /\ ~EndsInMagic(e)
  BY <1>3, <1>4, <1>6 DEF BeginsWithMagic, EndsInMagic
<1>8. is_encoded(e) = {TRUE}
  BY <1>7 DEF is_encoded
<1>9. Decode(e) = s
  BY <1>1, <1>5 DEF Decode
<1> QED
  BY <1>2, <1>3, <1>6, <1>8, <1>9

\* A file that does not begin with the magic is only taken for an encoded one
\* if it is too short to be one.
LEMMA NotEncoded ==
  ASSUME NEW s \in Seq(Byte), ~BeginsWithMagic(s), NEW encoded \in is_encoded(s), encoded
  PROVE  Len(s) < Len(Magic)
BY DEF is_encoded, EndsInMagic

ReadInv == original \in Seq(Byte) /\ ReadsBack

LEMMA ReadInit == XorInit => ReadInv
BY XorAssumption DEF XorInit, Written, ReadInv, ReadsBack

LEMMA ReadStep == ReadInv /\ [XorNext]_xorVars => ReadInv'
<1> SUFFICES ASSUME ReadInv, [XorNext]_xorVars, ~BeginsWithMagic(original)
             PROVE  ReadInv'
  BY DEF ReadInv, ReadsBack, XorNext, Transcode, ReadConfig, xorVars
<1> USE DEF ReadInv, ReadsBack
<1>1. ASSUME NEW encoded \in is_encoded(file), ~TooShort(encoded)
      PROVE  /\ encoded => file = Encode(original) /\ Decode(file) = original
             /\ ~encoded => file = original
  <2>1. CASE file = original
    BY <1>1, <2>1, NotEncoded DEF TooShort
  <2>2. CASE file = Encode(original)
    <3>1. original \in Seq(Byte)
      OBVIOUS
    <3>2. is_encoded(file) = {TRUE} /\ Decode(file) = original
      BY <2>2, <3>1, DecodeEncode
    <3>3. encoded = TRUE
      BY <1>1, <3>2
    <3> QED
      BY <2>2, <3>2, <3>3
  <2> QED
    BY <2>1, <2>2
<1>2. CASE Transcode
  BY <1>1, <1>2 DEF Transcode
<1>3. CASE ReadConfig
  BY <1>1, <1>3 DEF ReadConfig
<1>4. CASE UNCHANGED xorVars
  BY <1>4 DEF xorVars
<1> QED
  BY <1>2, <1>3, <1>4 DEF XorNext

\* However often a file is encoded and decoded again, what is read from it is
\* what was written, and it is never encoded twice (xor.c:78-122).
THEOREM EncodingIsUndone == XorSpec => []ReadsBack
<1>1. ReadInv => ReadsBack
  BY DEF ReadInv
<1> QED
  BY <1>1, ReadInit, ReadStep, PTL DEF XorSpec

=============================================================================
