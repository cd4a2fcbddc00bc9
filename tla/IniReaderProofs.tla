-------------------------- MODULE IniReaderProofs ---------------------------
(***************************************************************************)
(* The loop of ini_parse_stream() computes what IniFile defines by looking *)
(* back, on texts of any length: the invariants of IniReader are           *)
(* theorems.                                                               *)
(***************************************************************************)
EXTENDS IniReader, IniFileProofs

LOCAL INSTANCE SequenceTheorems

\* What the loop carries along: the section and the name a continuation line
\* belongs to are those of the last such lines.
Carried ==
  /\ (prev_name # "") <=> Named(lines, lineno + 1)
  /\ section = (IF HeadersUpTo(lines, lineno) = {} THEN ""
                ELSE Chop[lines[LastOf(HeadersUpTo(lines, lineno))].name])
  /\ prev_name # "" =>
       /\ PairsUpTo(lines, lineno) # {}
       /\ prev_name = Chop[lines[LastOf(PairsUpTo(lines, lineno))].name]

\* Line i is not acceptable to the loop or to its handler.
Unacceptable(i) ==
  \/ SyntaxError(lines, i)
  \/ /\ InSection(lines, i, Wanted)
     /\ Lower[CallName(lines, i)] \notin SectionDirectives

\* The lines read so far that assign directive d.
AssignedBy(d, n) ==
  {i \in 1..n : InSection(lines, i, Wanted) /\ Lower[CallName(lines, i)] = d}

\* The configuration, in terms of the lines read so far.
Collected ==
  /\ \A d \in SectionDirectives :
       config[d] = IF AssignedBy(d, lineno) = {} THEN <<>>
                   ELSE CallValue(lines, LastOf(AssignedBy(d, lineno)))
  /\ found = (\E d \in SectionDirectives : AssignedBy(d, lineno) # {})

\* The reported error is the first unacceptable line.
FirstError ==
  /\ error = 0 => \A i \in 1..lineno : ~Unacceptable(i)
  /\ error # 0 => Unacceptable(error) /\ \A i \in 1..(error - 1) : ~Unacceptable(i)

ReaderInv == ReaderTypeOK /\ Carried /\ Collected /\ FirstError

-----------------------------------------------------------------------------
(* Lines and their prefixes *)

\* What ReaderTypeOK says of the lines.
LEMMA LinesType ==
  ASSUME ReaderTypeOK
  PROVE  /\ lines \in Lines /\ Len(lines) \in Nat /\ DOMAIN lines = 1..Len(lines)
         /\ lineno \in Nat /\ lineno <= Len(lines)
         /\ \A i \in 1..Len(lines) :
              /\ lines[i].kind \in LineKind
              /\ lines[i].name \in Word
              /\ lines[i].value \in Template
              /\ lines[i].kind = "pair" => lines[i].name # ""
<1>1. lines \in Lines
  BY ReaderAssumption DEF ReaderTypeOK
<1>2. Len(lines) \in Nat /\ DOMAIN lines = 1..Len(lines)
  BY <1>1, LenProperties DEF Lines
<1>3. \A i \in 1..Len(lines) : lines[i] \in Line
  BY <1>1, <1>2, ElementOfSeq DEF Lines
<1>4. lineno \in Nat /\ lineno <= Len(lines)
  BY <1>2 DEF ReaderTypeOK
<1>5. QED
  BY <1>1, <1>2, <1>3, <1>4 DEF Line

\* A line that calls the handler has a pair before it, or is one: the first pair
\* of a text continues nothing.
LEMMA CallsForPair ==
  ASSUME NEW L \in Lines, NEW i \in 1..Len(L), CallsHandler(L, i)
  PROVE  PairsUpTo(L, i) # {}
<1> DEFINE pairs == {j \in 1..i : L[j].kind = "pair"}
<1>0. Len(L) \in Nat
  BY LenProperties DEF Lines
<1>1. pairs # {}
  BY <1>0 DEF CallsHandler, Continues, Named
<1>2. FirstOf(pairs) \in pairs /\ \A j \in pairs : FirstOf(pairs) <= j
  <2>1. pairs \subseteq Nat
    BY <1>0
  <2>2. QED
    BY <1>1, <2>1, FirstOfIsElement
<1> DEFINE first == FirstOf(pairs)
<1>3. ~Named(L, first)
  BY <1>0, <1>2 DEF Named
<1>4. first \in PairsUpTo(L, i)
  BY <1>2, <1>3 DEF PairsUpTo, Continues
<1>5. QED
  BY <1>4

\* What the definitions say of a line depends on the lines up to it only.
LEMMA PrefixAgrees ==
  ASSUME NEW L \in Lines, NEW n \in 0..Len(L), NEW i \in 1..n
  PROVE  LET S == SubSeq(L, 1, n)
         IN  /\ SyntaxError(S, i) = SyntaxError(L, i)
             /\ InSection(S, i, Wanted) = InSection(L, i, Wanted)
             /\ CallValue(S, i) = CallValue(L, i)
             /\ InSection(L, i, Wanted) => CallName(S, i) = CallName(L, i)
<1> DEFINE S == SubSeq(L, 1, n)
<1>0. Len(L) \in Nat /\ n \in Nat /\ n <= Len(L)
  BY LenProperties DEF Lines
<1>1. \A k \in 1..n : S[k] = L[k]
  BY <1>0 DEF Lines
<1> HIDE DEF S
<1>2. \A k \in 1..n : Named(S, k) = Named(L, k)
  BY <1>0, <1>1 DEF Named
<1>3. \A k \in 1..n : Continues(S, k) = Continues(L, k)
  BY <1>1, <1>2 DEF Continues
<1>4. PairsUpTo(S, i) = PairsUpTo(L, i)
  BY <1>0, <1>1, <1>3 DEF PairsUpTo
<1>5. HeadersUpTo(S, i) = HeadersUpTo(L, i)
  BY <1>0, <1>1, <1>3 DEF HeadersUpTo
<1>6. SyntaxError(S, i) = SyntaxError(L, i)
  BY <1>1, <1>3 DEF SyntaxError
<1>7. CallSection(S, i) = CallSection(L, i)
  <2>1. CASE HeadersUpTo(L, i) = {}
    BY <1>5, <2>1 DEF CallSection
  <2>2. CASE HeadersUpTo(L, i) # {}
    <3>1. i \in Nat /\ HeadersUpTo(L, i) \subseteq 1..i
      BY <1>0 DEF HeadersUpTo
    <3>2. LastOf(HeadersUpTo(L, i)) \in 1..i
      BY <2>2, <3>1, LastOfIsElement
    <3>3. LastOf(HeadersUpTo(L, i)) \in 1..n
      BY <1>0, <3>2
    <3>4. QED
      BY <1>1, <1>5, <2>2, <3>3 DEF CallSection
  <2>3. QED
    BY <2>1, <2>2
<1>8. CallsHandler(S, i) = CallsHandler(L, i)
  BY <1>1, <1>3 DEF CallsHandler
<1>9. InSection(S, i, Wanted) = InSection(L, i, Wanted)
  BY <1>7, <1>8 DEF InSection
<1>10. CallValue(S, i) = CallValue(L, i)
  BY <1>1, <1>3 DEF CallValue
<1>11. ASSUME CallsHandler(L, i)
       PROVE  CallName(S, i) = CallName(L, i)
  <2>1. PairsUpTo(L, i) # {} /\ PairsUpTo(L, i) \subseteq 1..i
    BY <1>0, <1>11, CallsForPair DEF PairsUpTo
  <2>2. LastOf(PairsUpTo(L, i)) \in 1..i
    BY <1>0, <2>1, LastOfIsElement
  <2>3. S[LastOf(PairsUpTo(L, i))] = L[LastOf(PairsUpTo(L, i))]
    BY <1>0, <1>1, <2>2
  <2>4. Continues(S, i) = Continues(L, i)
    BY <1>3
  <2>5. QED
    BY <1>4, <2>3, <2>4, Zenon DEF CallName
<1>12. QED
  BY <1>6, <1>9, <1>10, <1>11 DEF S, InSection

-----------------------------------------------------------------------------
(* One more line *)

\* What line lineno + 1 adds to the definitions.
LEMMA OneMoreLine ==
  ASSUME ReaderTypeOK, lineno < Len(lines)
  PROVE  LET m == lineno + 1
         IN  /\ HeadersUpTo(lines, m) =
                  IF Current.kind = "header" /\ ~Continues(lines, m)
                  THEN HeadersUpTo(lines, lineno) \cup {m}
                  ELSE HeadersUpTo(lines, lineno)
             /\ PairsUpTo(lines, m) =
                  IF Current.kind = "pair" /\ ~Continues(lines, m)
                  THEN PairsUpTo(lines, lineno) \cup {m}
                  ELSE PairsUpTo(lines, lineno)
             /\ Named(lines, m + 1) <=>
                  (~(Current.kind = "header" /\ ~Current.indent)
                   /\ (Current.kind = "pair" \/ Named(lines, m)))
             /\ \A d : AssignedBy(d, m) =
                  IF InSection(lines, m, Wanted) /\ Lower[CallName(lines, m)] = d
                  THEN AssignedBy(d, lineno) \cup {m}
                  ELSE AssignedBy(d, lineno)
<1> DEFINE m == lineno + 1
<1>0. lineno \in Nat /\ Len(lines) \in Nat /\ Current = lines[m]
  BY LinesType DEF Current
<1>1. 1..m = (1..lineno) \cup {m} /\ m \notin 1..lineno
  BY <1>0
<1>2. HeadersUpTo(lines, m) =
        IF Current.kind = "header" /\ ~Continues(lines, m)
        THEN HeadersUpTo(lines, lineno) \cup {m} ELSE HeadersUpTo(lines, lineno)
  BY <1>0, <1>1 DEF HeadersUpTo
<1>3. PairsUpTo(lines, m) =
        IF Current.kind = "pair" /\ ~Continues(lines, m)
        THEN PairsUpTo(lines, lineno) \cup {m} ELSE PairsUpTo(lines, lineno)
  BY <1>0, <1>1 DEF PairsUpTo
<1>4. Named(lines, m + 1) <=>
        (~(Current.kind = "header" /\ ~Current.indent)
         /\ (Current.kind = "pair" \/ Named(lines, m)))
  <2>1. ASSUME Named(lines, m + 1)
        PROVE  /\ ~(Current.kind = "header" /\ ~Current.indent)
               /\ Current.kind = "pair" \/ Named(lines, m)
    <3>1. PICK j \in 1..m : /\ lines[j].kind = "pair"
                            /\ \A k \in (j+1)..m : ~(lines[k].kind = "header" /\ ~lines[k].indent)
      BY <1>0, <2>1 DEF Named
    <3>2. CASE j = m
      BY <1>0, <3>1, <3>2
    <3>3. CASE j # m
      <4>1. j \in 1..(m - 1) /\ m \in (j+1)..m /\ \A k \in (j+1)..(m-1) : k \in (j+1)..m
        BY <1>0, <3>1, <3>3
      <4>2. Named(lines, m)
        BY <3>1, <4>1 DEF Named
      <4>3. QED
        BY <1>0, <3>1, <4>1, <4>2
    <3>4. QED
      BY <3>2, <3>3
  <2>2. ASSUME ~(Current.kind = "header" /\ ~Current.indent), Current.kind = "pair"
        PROVE  Named(lines, m + 1)
    <3>1. m \in 1..(m + 1 - 1) /\ \A k \in (m+1)..(m + 1 - 1) : FALSE
      BY <1>0
    <3>2. QED
      BY <1>0, <2>2, <3>1 DEF Named
  <2>3. ASSUME ~(Current.kind = "header" /\ ~Current.indent), Named(lines, m)
        PROVE  Named(lines, m + 1)
    <3>1. PICK j \in 1..(m-1) : /\ lines[j].kind = "pair"
                                /\ \A k \in (j+1)..(m-1) : ~(lines[k].kind = "header" /\ ~lines[k].indent)
      BY <1>0, <2>3 DEF Named
    <3>2. j \in 1..(m + 1 - 1) /\ \A k \in (j+1)..(m + 1 - 1) : k = m \/ k \in (j+1)..(m-1)
      BY <1>0, <3>1
    <3>3. \A k \in (j+1)..(m + 1 - 1) : ~(lines[k].kind = "header" /\ ~lines[k].indent)
      BY <1>0, <2>3, <3>1, <3>2
    <3>4. \E i \in 1..(m + 1 - 1) :
            /\ lines[i].kind = "pair"
            /\ \A k \in (i+1)..(m + 1 - 1) : ~(lines[k].kind = "header" /\ ~lines[k].indent)
      BY <3>1, <3>2, <3>3
    <3>5. QED
      BY <1>0, <3>4 DEF Named
  <2>4. QED
    BY <2>1, <2>2, <2>3
<1>5. \A d : AssignedBy(d, m) =
        IF InSection(lines, m, Wanted) /\ Lower[CallName(lines, m)] = d
        THEN AssignedBy(d, lineno) \cup {m} ELSE AssignedBy(d, lineno)
  BY <1>1 DEF AssignedBy
<1>6. QED
  BY <1>2, <1>3, <1>4, <1>5

\* The last of some lines, when a line behind all of them is added.
LEMMA LastIsNew ==
  ASSUME NEW n \in Nat, NEW S, S \subseteq 1..n
  PROVE  LastOf(S \cup {n + 1}) = n + 1
<1>1. LastOf(S \cup {n + 1}) \in S \cup {n + 1} /\ \A j \in S \cup {n + 1} : j <= LastOf(S \cup {n + 1})
  <2>1. S \cup {n + 1} \subseteq 1..(n + 1) /\ S \cup {n + 1} # {} /\ n + 1 \in Nat
    OBVIOUS
  <2>2. QED
    BY <2>1, LastOfIsElement
<1> DEFINE x == LastOf(S \cup {n + 1})
<1>2. x \in S \cup {n + 1} /\ n + 1 <= x
  BY <1>1
<1> HIDE DEF x
<1>3. x \in 1..(n + 1)
  BY <1>2
<1>4. x = n + 1
  BY <1>2, <1>3
<1>5. QED
  BY <1>4 DEF x

\* The test of the loop for a continuation line is the one of IniFile.
LEMMA SameContinuation ==
  ASSUME ReaderTypeOK, Carried
  PROVE  IsContinuation <=> Continues(lines, lineno + 1)
BY Zenon DEF IsContinuation, Continues, Current, Carried

-----------------------------------------------------------------------------
(* What the loop carries along *)

LEMMA CarriedStep ==
  ASSUME ReaderInv, [ReaderNext]_readerVars
  PROVE  Carried'
<1> DEFINE m == lineno + 1
<1>0. ReaderTypeOK /\ Carried
  BY DEF ReaderInv
<1>1. /\ lineno \in Nat
      /\ HeadersUpTo(lines, lineno) \subseteq 1..lineno
      /\ PairsUpTo(lines, lineno) \subseteq 1..lineno
  <2>1. lineno \in Nat
    BY <1>0, LinesType
  <2>2. QED
    BY <2>1, Zenon DEF HeadersUpTo, PairsUpTo
<1>2. /\ LastOf(HeadersUpTo(lines, lineno) \cup {m}) = m
      /\ LastOf(PairsUpTo(lines, lineno) \cup {m}) = m
  BY <1>1, LastIsNew
<1>3. IsContinuation <=> Continues(lines, m)
  BY <1>0, SameContinuation
<1>4. ASSUME NextLine
      PROVE  lines' = lines /\ lineno' = m /\ lineno < Len(lines) /\ Current = lines[m]
  BY <1>4 DEF NextLine, Current
<1>5. CASE CommentLine
  <2>1. lines' = lines /\ lineno' = m /\ lineno < Len(lines)
    BY <1>4, <1>5 DEF CommentLine
  <2>2. Current.kind = "comment" /\ UNCHANGED <<section, prev_name>>
    BY <1>5 DEF CommentLine
  <2>3. /\ HeadersUpTo(lines, m) = HeadersUpTo(lines, lineno)
        /\ PairsUpTo(lines, m) = PairsUpTo(lines, lineno)
        /\ (Named(lines, m + 1) <=> Named(lines, m))
    BY <1>0, <2>1, <2>2, OneMoreLine
  <2>4. QED
    BY <1>0, <2>1, <2>2, <2>3 DEF Carried
<1>6. CASE Continuation
  <2>1. lines' = lines /\ lineno' = m /\ lineno < Len(lines)
    BY <1>4, <1>6 DEF Continuation
  <2>2. IsContinuation /\ prev_name # "" /\ Current.indent /\ UNCHANGED <<section, prev_name>>
    BY <1>6 DEF Continuation, IsContinuation
  <2>3. Named(lines, m)
    BY <1>0, <2>2 DEF Carried
  <2>4. /\ HeadersUpTo(lines, m) = HeadersUpTo(lines, lineno)
        /\ PairsUpTo(lines, m) = PairsUpTo(lines, lineno)
        /\ (Named(lines, m + 1) <=> Named(lines, m))
    BY <1>0, <1>3, <2>1, <2>2, <2>3, OneMoreLine
  <2>5. QED
    BY <1>0, <2>1, <2>2, <2>4 DEF Carried
<1>7. CASE SectionLine
  <2>1. lines' = lines /\ lineno' = m /\ lineno < Len(lines) /\ Current = lines[m]
    BY <1>4, <1>7 DEF SectionLine
  <2>2. /\ ~IsContinuation /\ Current.kind = "header"
        /\ section' = Chop[lines[m].name] /\ prev_name' = ""
    BY <1>7, <2>1 DEF SectionLine
  <2>3. HeadersUpTo(lines, m) = HeadersUpTo(lines, lineno) \cup {m}
    BY <1>0, <1>3, <2>1, <2>2, OneMoreLine
  <2>4. ~Named(lines, m + 1)
    <3>1. Current.indent => ~Named(lines, m)
      BY <1>0, <2>2 DEF IsContinuation, Carried
    <3>2. Named(lines, m + 1) <=>
            (~(Current.kind = "header" /\ ~Current.indent)
             /\ (Current.kind = "pair" \/ Named(lines, m)))
      BY <1>0, <2>1, OneMoreLine
    <3>3. QED
      BY <2>2, <3>1, <3>2
  <2>5. QED
    BY <1>2, <2>1, <2>2, <2>3, <2>4 DEF Carried
<1>8. CASE PairLine
  <2>1. lines' = lines /\ lineno' = m /\ lineno < Len(lines) /\ Current = lines[m]
    BY <1>4, <1>8 DEF PairLine
  <2>2. /\ ~IsContinuation /\ Current.kind = "pair"
        /\ section' = section /\ prev_name' = Chop[lines[m].name]
    BY <1>8, <2>1 DEF PairLine
  <2>3. /\ HeadersUpTo(lines, m) = HeadersUpTo(lines, lineno)
        /\ PairsUpTo(lines, m) = PairsUpTo(lines, lineno) \cup {m}
        /\ Named(lines, m + 1)
    BY <1>0, <1>3, <2>1, <2>2, OneMoreLine
  <2>4. prev_name' # ""
    <3>0. Len(lines) \in Nat
      BY <1>0, LinesType
    <3>1. m \in 1..Len(lines)
      BY <1>1, <2>1, <3>0
    <3>2. lines[m].name \in Word /\ lines[m].name # ""
      BY <1>0, <2>1, <2>2, <3>1, LinesType
    <3>3. QED
      BY <2>2, <3>2, ChopAssumption
  <2>5. QED
    BY <1>0, <1>2, <2>1, <2>2, <2>3, <2>4 DEF Carried
<1>9. CASE NoSectionNoPair
  <2>1. lines' = lines /\ lineno' = m /\ lineno < Len(lines)
    BY <1>4, <1>9 DEF NoSectionNoPair
  <2>2. Current.kind \in {"badheader", "junk"} /\ UNCHANGED <<section, prev_name>>
    BY <1>9 DEF NoSectionNoPair
  <2>3. /\ HeadersUpTo(lines, m) = HeadersUpTo(lines, lineno)
        /\ PairsUpTo(lines, m) = PairsUpTo(lines, lineno)
        /\ (Named(lines, m + 1) <=> Named(lines, m))
    BY <1>0, <2>1, <2>2, OneMoreLine DEF Named
  <2>4. QED
    BY <1>0, <2>1, <2>2, <2>3 DEF Carried
<1>10. CASE UNCHANGED readerVars
  BY <1>0, <1>10 DEF readerVars, Carried
<1>11. QED
  BY <1>5, <1>6, <1>7, <1>8, <1>9, <1>10 DEF ReaderNext, EndOfText

-----------------------------------------------------------------------------
(* What it collects and reports *)

LEMMA TypeStep ==
  ASSUME ReaderTypeOK, [ReaderNext]_readerVars
  PROVE  ReaderTypeOK'
<1>0. /\ lines \in Lines /\ lineno \in 0..Len(lines) /\ section \in Word /\ prev_name \in Word
      /\ error \in 0..lineno /\ found \in BOOLEAN
      /\ config \in [SectionDirectives -> Template]
  BY DEF ReaderTypeOK
<1>1. Len(lines) \in Nat
  BY LinesType
<1>2. CASE UNCHANGED readerVars
  BY <1>0, <1>2 DEF readerVars, ReaderTypeOK
<1>3. CASE NextLine /\ ~UNCHANGED readerVars
  <2>1. lines' = lines /\ lineno' = lineno + 1 /\ lineno' \in 0..Len(lines)
    BY <1>0, <1>1, <1>3 DEF NextLine
  <2>2. lineno + 1 \in 1..Len(lines)
    BY <1>0, <1>1, <2>1
  <2>3. Current.name \in Word /\ Current.value \in Template /\ RawText(Current) \in Template
    <3>1. lines[lineno + 1].name \in Word /\ lines[lineno + 1].value \in Template
      BY <2>2, LinesType
    <3>2. <<Plain(Lit(lines[lineno + 1].name))>> \in Template
      BY <3>1, PlainType DEF Lit, Text, Template
    <3>3. RawText(lines[lineno + 1]) \in Template
      BY <3>1, <3>2, ConcatProperties DEF RawText, Template
    <3>4. QED
      BY <3>1, <3>3 DEF Current
  <2>4. error \in 0..(lineno + 1)
    BY <1>0
  <2>5. ASSUME FailLine PROVE error' \in 0..(lineno + 1)
    BY <1>0, <2>5 DEF FailLine
  <2>6. ASSUME NEW name, NEW value \in Template, Handler(name, value)
        PROVE  /\ error' \in 0..(lineno + 1) /\ found' \in BOOLEAN
               /\ config' \in [SectionDirectives -> Template]
    BY <1>0, <2>4, <2>5, <2>6 DEF Handler
  <2>7. Chop[Current.name] \in Word
    BY <2>3, ChopAssumption
  <2>8. CASE CommentLine
    BY <1>0, <2>1, <2>4, <2>8 DEF CommentLine, ReaderTypeOK
  <2>9. CASE Continuation
    <3>1. Handler(prev_name, RawText(Current)) /\ UNCHANGED <<section, prev_name>>
      BY <2>9 DEF Continuation
    <3>2. QED
      BY <1>0, <2>1, <2>3, <2>6, <3>1 DEF ReaderTypeOK
  <2>10. CASE SectionLine
    <3>1. /\ section' = Chop[Current.name] /\ prev_name' = ""
          /\ UNCHANGED <<error, found, config>>
      BY <2>10 DEF SectionLine
    <3>2. QED
      BY <1>0, <2>1, <2>4, <2>7, <3>1, WordAssumption DEF ReaderTypeOK
  <2>11. CASE PairLine
    <3>1. /\ Handler(Current.name, Current.value)
          /\ section' = section /\ prev_name' = Chop[Current.name]
      BY <2>11 DEF PairLine
    <3>2. QED
      BY <1>0, <2>1, <2>3, <2>6, <2>7, <3>1 DEF ReaderTypeOK
  <2>12. CASE NoSectionNoPair
    <3>1. FailLine /\ UNCHANGED <<section, prev_name, found, config>>
      BY <2>12 DEF NoSectionNoPair
    <3>2. QED
      BY <1>0, <2>1, <2>5, <3>1 DEF ReaderTypeOK
  <2>13. QED
    BY <1>3, <2>8, <2>9, <2>10, <2>11, <2>12 DEF ReaderNext, EndOfText
<1>4. QED
  BY <1>2, <1>3 DEF ReaderNext, CommentLine, Continuation, SectionLine, PairLine, NoSectionNoPair, EndOfText

\* The reported error stays the first one, whether line lineno + 1 is one or not.
LEMMA ErrorStep ==
  ASSUME ReaderInv, lineno < Len(lines), lines' = lines, lineno' = lineno + 1,
         \/ Unacceptable(lineno + 1) /\ FailLine
         \/ ~Unacceptable(lineno + 1) /\ error' = error
  PROVE  FirstError'
<1>1. lineno \in Nat /\ error \in 0..lineno
  BY LinesType DEF ReaderInv, ReaderTypeOK
<1>2. \A i : Unacceptable(i)' <=> Unacceptable(i)
  BY DEF Unacceptable
<1>3. /\ error = 0 => \A i \in 1..lineno : ~Unacceptable(i)
      /\ error # 0 => Unacceptable(error) /\ \A i \in 1..(error - 1) : ~Unacceptable(i)
  BY DEF ReaderInv, FirstError
<1>4. CASE error # 0
  <2>1. error' = error
    BY <1>4 DEF FailLine
  <2>2. QED
    BY <1>2, <1>3, <1>4, <2>1 DEF FirstError
<1>5. CASE error = 0 /\ Unacceptable(lineno + 1)
  <2>1. error' = lineno + 1 /\ error' # 0 /\ error' - 1 = lineno
    BY <1>1, <1>5 DEF FailLine
  <2>2. QED
    BY <1>2, <1>3, <1>5, <2>1 DEF FirstError
<1>6. CASE error = 0 /\ ~Unacceptable(lineno + 1)
  <2>1. error' = 0
    BY <1>6
  <2>2. \A i \in 1..(lineno + 1) : i = lineno + 1 \/ i \in 1..lineno
    BY <1>1
  <2>3. QED
    BY <1>2, <1>3, <1>6, <2>1, <2>2 DEF FirstError
<1>7. QED
  BY <1>4, <1>5, <1>6

\* A line that calls no handler for the section assigns nothing.
LEMMA NothingCollected ==
  ASSUME ReaderInv, lineno < Len(lines), lines' = lines, lineno' = lineno + 1,
         \/ ~InSection(lines, lineno + 1, Wanted)
         \/ Lower[CallName(lines, lineno + 1)] \notin SectionDirectives,
         UNCHANGED <<found, config>>
  PROVE  Collected'
<1>1. \A d \in SectionDirectives : AssignedBy(d, lineno + 1) = AssignedBy(d, lineno)
  BY OneMoreLine DEF ReaderInv
<1>2. \A d \in SectionDirectives : AssignedBy(d, lineno)' = AssignedBy(d, lineno + 1)
  BY DEF AssignedBy
<1>3. QED
  BY <1>1, <1>2 DEF ReaderInv, Collected

\* A line that assigns a directive: it is the last one to do so.
LEMMA OneCollected ==
  ASSUME ReaderInv, lineno < Len(lines), lines' = lines, lineno' = lineno + 1,
         InSection(lines, lineno + 1, Wanted),
         NEW c \in SectionDirectives, c = Lower[CallName(lines, lineno + 1)],
         config' = [config EXCEPT ![c] = CallValue(lines, lineno + 1)],
         found' = TRUE
  PROVE  Collected'
<1>1. \A d \in SectionDirectives :
        AssignedBy(d, lineno)' = IF d = c THEN AssignedBy(d, lineno) \cup {lineno + 1}
                                 ELSE AssignedBy(d, lineno)
  <2>1. \A d \in SectionDirectives : AssignedBy(d, lineno)' = AssignedBy(d, lineno + 1)
    BY DEF AssignedBy
  <2>2. QED
    BY <2>1, OneMoreLine DEF ReaderInv
<1>2. LastOf(AssignedBy(c, lineno) \cup {lineno + 1}) = lineno + 1
  <2>1. lineno \in Nat /\ AssignedBy(c, lineno) \subseteq 1..lineno
    BY LinesType, Zenon DEF ReaderInv, AssignedBy
  <2>2. QED
    BY <2>1, LastIsNew
<1>3. config \in [SectionDirectives -> Template]
  BY DEF ReaderInv, ReaderTypeOK
<1>4. \A d \in SectionDirectives :
        config'[d] = IF AssignedBy(d, lineno)' = {} THEN <<>>
                     ELSE CallValue(lines, LastOf(AssignedBy(d, lineno)'))
  BY <1>1, <1>2, <1>3 DEF ReaderInv, Collected
<1>5. AssignedBy(c, lineno)' # {}
  BY <1>1
<1>6. QED
  BY <1>4, <1>5 DEF Collected

\* The call of the handler, for a continuation line and for a pair.
LEMMA HandlerStep ==
  ASSUME ReaderInv, lineno < Len(lines), lines' = lines, lineno' = lineno + 1,
         CallsHandler(lines, lineno + 1), ~SyntaxError(lines, lineno + 1),
         section = CallSection(lines, lineno + 1),
         Handler(CallName(lines, lineno + 1), CallValue(lines, lineno + 1))
  PROVE  Collected' /\ FirstError'
<1> DEFINE name == CallName(lines, lineno + 1)
<1>1. InSection(lines, lineno + 1, Wanted) <=> Lower[section] = Lower[Wanted]
  BY DEF InSection
<1>2. CASE Lower[section] # Lower[Wanted]
  <2>1. UNCHANGED <<error, found, config>>
    BY <1>2 DEF Handler
  <2>2. ~Unacceptable(lineno + 1)
    BY <1>1, <1>2 DEF Unacceptable
  <2>3. QED
    BY <1>1, <1>2, <2>1, <2>2, ErrorStep, NothingCollected
<1>3. CASE Lower[section] = Lower[Wanted] /\ Lower[name] \in SectionDirectives
  <2>1. /\ config' = [config EXCEPT ![Lower[name]] = CallValue(lines, lineno + 1)]
        /\ found' = TRUE /\ error' = error
    BY <1>3 DEF Handler
  <2>2. ~Unacceptable(lineno + 1)
    BY <1>3 DEF Unacceptable
  <2>3. QED
    BY <1>1, <1>3, <2>1, <2>2, ErrorStep, OneCollected
<1>4. CASE Lower[section] = Lower[Wanted] /\ Lower[name] \notin SectionDirectives
  <2>1. FailLine /\ UNCHANGED <<found, config>>
    BY <1>4 DEF Handler
  <2>2. Unacceptable(lineno + 1)
    BY <1>1, <1>4 DEF Unacceptable
  <2>3. QED
    BY <1>1, <1>4, <2>1, <2>2, ErrorStep, NothingCollected
<1>5. QED
  BY <1>2, <1>3, <1>4

LEMMA CollectStep ==
  ASSUME ReaderInv, [ReaderNext]_readerVars
  PROVE  Collected' /\ FirstError'
<1> DEFINE m == lineno + 1
<1>0. ReaderTypeOK /\ Carried /\ Collected /\ FirstError
  BY DEF ReaderInv
<1>1. /\ lineno \in Nat
      /\ PairsUpTo(lines, lineno) \subseteq 1..lineno
  <2>1. lineno \in Nat
    BY <1>0, LinesType
  <2>2. QED
    BY <2>1, Zenon DEF PairsUpTo
<1>2. IsContinuation <=> Continues(lines, m)
  BY <1>0, SameContinuation
<1>3. ASSUME NextLine
      PROVE  lines' = lines /\ lineno' = m /\ lineno < Len(lines) /\ Current = lines[m]
  BY <1>3 DEF NextLine, Current
<1>4. ASSUME lineno < Len(lines), HeadersUpTo(lines, m) = HeadersUpTo(lines, lineno)
      PROVE  section = CallSection(lines, m)
  BY <1>0, <1>4, Zenon DEF Carried, CallSection
<1>5. CASE CommentLine
  <2>1. lines' = lines /\ lineno' = m /\ lineno < Len(lines) /\ Current = lines[m]
    BY <1>3, <1>5 DEF CommentLine
  <2>2. Current.kind = "comment" /\ UNCHANGED <<error, found, config>>
    BY <1>5 DEF CommentLine
  <2>3. ~InSection(lines, m, Wanted) /\ ~Unacceptable(m)
    BY <2>1, <2>2 DEF InSection, CallsHandler, Continues, Unacceptable, SyntaxError
  <2>4. QED
    BY <2>1, <2>2, <2>3, ErrorStep, NothingCollected
<1>6. CASE Continuation
  <2>1. lines' = lines /\ lineno' = m /\ lineno < Len(lines) /\ Current = lines[m]
    BY <1>3, <1>6 DEF Continuation
  <2>2. IsContinuation /\ prev_name # "" /\ Handler(prev_name, RawText(lines[m]))
    BY <1>6, <2>1 DEF Continuation, IsContinuation
  <2>3. Continues(lines, m)
    BY <1>2, <2>2
  <2>4. /\ HeadersUpTo(lines, m) = HeadersUpTo(lines, lineno)
        /\ PairsUpTo(lines, m) = PairsUpTo(lines, lineno)
    BY <1>0, <2>1, <2>3, OneMoreLine
  <2>5. prev_name = CallName(lines, m) /\ RawText(lines[m]) = CallValue(lines, m)
    BY <1>0, <2>2, <2>3, <2>4 DEF Carried, CallName, CallValue
  <2>6. CallsHandler(lines, m) /\ ~SyntaxError(lines, m)
    BY <2>3 DEF CallsHandler, SyntaxError
  <2>7. section = CallSection(lines, m)
    BY <1>4, <2>1, <2>4
  <2>8. Handler(CallName(lines, m), CallValue(lines, m))
    BY <2>2, <2>5
  <2>9. QED
    BY <2>1, <2>6, <2>7, <2>8, HandlerStep
<1>7. CASE SectionLine
  <2>1. lines' = lines /\ lineno' = m /\ lineno < Len(lines) /\ Current = lines[m]
    BY <1>3, <1>7 DEF SectionLine
  <2>2. ~IsContinuation /\ Current.kind = "header" /\ UNCHANGED <<error, found, config>>
    BY <1>7 DEF SectionLine
  <2>3. ~InSection(lines, m, Wanted) /\ ~Unacceptable(m)
    BY <1>2, <2>1, <2>2 DEF InSection, CallsHandler, Unacceptable, SyntaxError
  <2>4. QED
    BY <2>1, <2>2, <2>3, ErrorStep, NothingCollected
<1>8. CASE PairLine
  <2>1. lines' = lines /\ lineno' = m /\ lineno < Len(lines) /\ Current = lines[m]
    BY <1>3, <1>8 DEF PairLine
  <2>2. /\ ~IsContinuation /\ Current.kind = "pair"
        /\ Handler(lines[m].name, lines[m].value)
    BY <1>8, <2>1 DEF PairLine
  <2>3. ~Continues(lines, m)
    BY <1>2, <2>2
  <2>4. /\ HeadersUpTo(lines, m) = HeadersUpTo(lines, lineno)
        /\ PairsUpTo(lines, m) = PairsUpTo(lines, lineno) \cup {m}
    BY <1>0, <2>1, <2>2, <2>3, OneMoreLine
  <2>5. LastOf(PairsUpTo(lines, m)) = m
    BY <1>1, <2>4, LastIsNew
  <2>6. lines[m].name = CallName(lines, m) /\ lines[m].value = CallValue(lines, m)
    BY <2>3, <2>5 DEF CallName, CallValue
  <2>7. CallsHandler(lines, m) /\ ~SyntaxError(lines, m)
    BY <2>1, <2>2 DEF CallsHandler, SyntaxError
  <2>8. section = CallSection(lines, m)
    BY <1>4, <2>1, <2>4
  <2>9. Handler(CallName(lines, m), CallValue(lines, m))
    BY <2>2, <2>6
  <2>10. QED
    BY <2>1, <2>7, <2>8, <2>9, HandlerStep
<1>9. CASE NoSectionNoPair
  <2>1. lines' = lines /\ lineno' = m /\ lineno < Len(lines) /\ Current = lines[m]
    BY <1>3, <1>9 DEF NoSectionNoPair
  <2>2. /\ ~IsContinuation /\ Current.kind \in {"badheader", "junk"}
        /\ FailLine /\ UNCHANGED <<found, config>>
    BY <1>9 DEF NoSectionNoPair
  <2>3. ~InSection(lines, m, Wanted) /\ Unacceptable(m)
    BY <1>2, <2>1, <2>2 DEF InSection, CallsHandler, Unacceptable, SyntaxError
  <2>4. QED
    BY <2>1, <2>2, <2>3, ErrorStep, NothingCollected
<1>10. CASE UNCHANGED readerVars
  <2>1. lines' = lines /\ lineno' = lineno /\ UNCHANGED <<error, found, config>>
    BY <1>10 DEF readerVars
  <2>2. \A i : Unacceptable(i)' <=> Unacceptable(i)
    BY <2>1 DEF Unacceptable
  <2>3. \A d : AssignedBy(d, lineno)' = AssignedBy(d, lineno)
    BY <2>1 DEF AssignedBy
  <2>4. FirstError'
    BY <1>0, <2>1, <2>2 DEF FirstError
  <2>5. Collected'
    BY <1>0, <2>1, <2>3 DEF Collected
  <2>6. QED
    BY <2>4, <2>5
<1>11. QED
  BY <1>5, <1>6, <1>7, <1>8, <1>9, <1>10 DEF ReaderNext, EndOfText

-----------------------------------------------------------------------------
(* The theorems *)

LEMMA ReaderStart ==
  ASSUME ReaderInit
  PROVE  ReaderInv
<1>1. lines \in Seq(Line) /\ Len(lines) \in Nat
  BY ReaderAssumption, LenProperties DEF ReaderInit, Unread, Lines
<1>2. <<>> \in Template
  BY DEF Template
<1>3. ReaderTypeOK
  <2>0. lineno = 0 /\ error = 0
    BY DEF ReaderInit, Unread
  <2>1. lineno \in 0..Len(lines) /\ error \in 0..lineno
    BY <1>1, <2>0
  <2>2. config \in [SectionDirectives -> Template]
    BY <1>2 DEF ReaderInit, Unread
  <2>3. lines \in Lines /\ section \in Word /\ prev_name \in Word /\ found \in BOOLEAN
    BY <1>1, WordAssumption DEF ReaderInit, Unread, Lines
  <2>4. QED
    BY <2>1, <2>2, <2>3 DEF ReaderTypeOK
<1>4. \A j \in 1..0 : FALSE
  OBVIOUS
<1>5. lineno = 0 /\ prev_name = "" /\ section = "" /\ error = 0 /\ found = FALSE
      /\ config = [d \in SectionDirectives |-> <<>>]
  BY DEF ReaderInit, Unread
<1>6. ~Named(lines, lineno + 1)
  <2>1. lineno + 1 = 1
    <3>1. lineno = 0
      BY <1>5, Zenon
    <3>2. 0 + 1 = 1
      OBVIOUS
    <3>3. QED
      BY ONLY <3>1, <3>2, Zenon
  <2>2. ~Named(lines, 1)
    <3>1. 1 - 1 = 0
      OBVIOUS
    <3>2. \A j \in 1..(1-1) : FALSE
      BY <1>4, <3>1
    <3>3. QED
      BY ONLY <3>2, Zenon DEF Named
  <2>3. QED
    BY ONLY <2>1, <2>2, Zenon
<1>7. HeadersUpTo(lines, lineno) = {}
  BY <1>4, <1>5 DEF HeadersUpTo
<1>8. \A d : AssignedBy(d, lineno) = {}
  BY <1>4, <1>5 DEF AssignedBy
<1>9. Carried
  BY <1>5, <1>6, <1>7 DEF Carried
<1>10. Collected
  BY <1>5, <1>8 DEF Collected
<1>11. FirstError
  BY <1>4, <1>5 DEF FirstError
<1>12. QED
  BY <1>3, <1>9, <1>10, <1>11 DEF ReaderInv

LEMMA ReaderInvariant == ReaderSpec => []ReaderInv
<1>1. ReaderInit => ReaderInv
  BY ReaderStart
<1>2. ReaderInv /\ [ReaderNext]_readerVars => ReaderInv'
  BY TypeStep, CarriedStep, CollectStep DEF ReaderInv
<1>3. QED
  BY <1>1, <1>2, PTL DEF ReaderSpec

\* The invariant gives the look-back definitions on the lines read so far.
LEMMA InvariantAgrees ==
  ASSUME ReaderInv
  PROVE  ConfigAgrees /\ ErrorAgrees /\ ContextAgrees
<1>0. ReaderTypeOK /\ Carried /\ Collected /\ FirstError
  BY DEF ReaderInv
<1>1. /\ lines \in Lines /\ Len(lines) \in Nat /\ lineno \in 0..Len(lines) /\ lineno \in Nat
      /\ error \in 0..lineno /\ config \in [SectionDirectives -> Template]
  BY <1>0, LinesType DEF ReaderTypeOK
<1>2. ASSUME NEW n \in 0..Len(lines)
      PROVE  DOMAIN SubSeq(lines, 1, n) = 1..n
  BY <1>1 DEF Lines
<1>3. ASSUME NEW n \in 0..Len(lines)
      PROVE  Parses(SubSeq(lines, 1, n), Wanted, SectionDirectives)
               <=> \A i \in 1..n : ~Unacceptable(i)
  <2> DEFINE S == SubSeq(lines, 1, n)
  <2>1. DOMAIN S = 1..n
    BY <1>2
  <2>2. \A i \in 1..n : /\ SyntaxError(S, i) = SyntaxError(lines, i)
                        /\ InSection(S, i, Wanted) = InSection(lines, i, Wanted)
                        /\ InSection(lines, i, Wanted) => CallName(S, i) = CallName(lines, i)
    BY <1>1, PrefixAgrees
  <2> HIDE DEF S
  <2>3. Parses(S, Wanted, SectionDirectives) <=> \A i \in 1..n : ~Unacceptable(i)
    BY <2>1, <2>2 DEF Parses, Unacceptable
  <2>4. QED
    BY <2>3 DEF S
<1>4. ErrorAgrees
  <2>1. (error = 0) <=> Parses(Sofar, Wanted, SectionDirectives)
    <3>1. Parses(Sofar, Wanted, SectionDirectives) <=> \A i \in 1..lineno : ~Unacceptable(i)
      BY <1>1, <1>3 DEF Sofar
    <3>2. error # 0 => error \in 1..lineno
      BY <1>1
    <3>3. QED
      BY <1>0, <3>1, <3>2 DEF FirstError
  <2>2. ASSUME error # 0
        PROVE  /\ Parses(SubSeq(lines, 1, error - 1), Wanted, SectionDirectives)
               /\ ~Parses(SubSeq(lines, 1, error), Wanted, SectionDirectives)
    <3>1. error - 1 \in 0..Len(lines) /\ error \in 0..Len(lines) /\ error \in 1..error
      BY <1>1, <2>2
    <3>2. QED
      BY <1>0, <1>3, <2>2, <3>1 DEF FirstError
  <2>3. (error = 0) = Parses(Sofar, Wanted, SectionDirectives)
    BY <2>1 DEF Parses
  <2>4. QED
    BY <2>2, <2>3 DEF ErrorAgrees
<1>5. ConfigAgrees
  <2>1. DOMAIN Sofar = 1..lineno
    BY <1>1, <1>2 DEF Sofar
  <2>2. \A i \in 1..lineno :
          /\ InSection(Sofar, i, Wanted) = InSection(lines, i, Wanted)
          /\ CallValue(Sofar, i) = CallValue(lines, i)
          /\ InSection(lines, i, Wanted) => CallName(Sofar, i) = CallName(lines, i)
    BY <1>1, PrefixAgrees DEF Sofar
  <2>3. \A d : Assigns(Sofar, Wanted, d) = AssignedBy(d, lineno)
    BY <2>1, <2>2 DEF Assigns, AssignedBy
  <2>4. ASSUME NEW d \in SectionDirectives
        PROVE  config[d] = Directive(Sofar, Wanted, d, <<>>)
    <3>1. CASE AssignedBy(d, lineno) = {}
      BY <1>0, <2>3, <3>1 DEF Collected, Directive
    <3>2. CASE AssignedBy(d, lineno) # {}
      <4>1. LastOf(AssignedBy(d, lineno)) \in 1..lineno
        BY <1>1, <3>2, LastOfIsElement DEF AssignedBy
      <4>2. QED
        BY <1>0, <2>2, <2>3, <3>2, <4>1 DEF Collected, Directive
    <3>3. QED
      BY <3>1, <3>2
  <2>5. config = [d \in SectionDirectives |-> Directive(Sofar, Wanted, d, <<>>)]
    BY <1>1, <2>4
  <2>6. found = Found(Sofar, Wanted, SectionDirectives)
    BY <1>0, <2>3 DEF Collected, Found
  <2>7. QED
    BY <2>5, <2>6 DEF ConfigAgrees
<1>6. ContextAgrees
  <2>1. (prev_name # "") = Named(lines, lineno + 1)
    BY <1>0 DEF Carried, Named
  <2>2. QED
    BY <1>0, <2>1 DEF Carried, ContextAgrees
<1>7. QED
  BY <1>4, <1>5, <1>6

\* Every variable of the reader keeps its type; the reported error is a line
\* that was read (lib/ini.c:79-187).
THEOREM TypeCorrect == ReaderSpec => []ReaderTypeOK
<1>1. ReaderInv => ReaderTypeOK
  BY DEF ReaderInv
<1>2. QED
  BY <1>1, ReaderInvariant, PTL

\* For texts of any length the loop collects what the last assignments say
\* (lib/ini.c:112-187, ph.c:1355-1445).
THEOREM CollectsTheLast == ReaderSpec => []ConfigAgrees
<1>1. ReaderInv => ConfigAgrees
  BY InvariantAgrees
<1>2. QED
  BY <1>1, ReaderInvariant, PTL

\* For texts of any length the reported error is the first line that is not
\* acceptable (lib/ini.c:96-186).
THEOREM ReportsTheFirst == ReaderSpec => []ErrorAgrees
<1>1. ReaderInv => ErrorAgrees
  BY InvariantAgrees
<1>2. QED
  BY <1>1, ReaderInvariant, PTL

\* The section and the name that the loop carries from line to line are those
\* found by looking back (lib/ini.c:89-166).
THEOREM CarriesTheContext == ReaderSpec => []ContextAgrees
<1>1. ReaderInv => ContextAgrees
  BY InvariantAgrees
<1>2. QED
  BY <1>1, ReaderInvariant, PTL

=============================================================================
