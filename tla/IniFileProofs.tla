--------------------------- MODULE IniFileProofs ----------------------------
(***************************************************************************)
(* Lemmas about the operators Dispatch is built from: they return what     *)
(* they should for every configuration, template and query.                *)
(***************************************************************************)
EXTENDS IniFile, TLAPS

LOCAL INSTANCE WellFoundedInduction
LOCAL INSTANCE NaturalsInduction
LOCAL INSTANCE SequenceTheorems

Less == {ss \in Nat \X Nat : ss[1] < ss[2]}

\* A non-empty set of natural numbers has a first element, and FirstOf is it.
LEMMA FirstOfIsElement ==
  ASSUME NEW S, S \subseteq Nat, S # {}
  PROVE  FirstOf(S) \in S /\ \A j \in S : FirstOf(S) <= j
<1>1. IsWellFoundedOn(Less, Nat)
  BY NatLessThanWellFounded DEF OpToRel, Less
<1>2. \E x \in S : \A y \in S : <<y, x>> \notin Less
  BY <1>1, WFMin
<1>3. PICK x \in S : \A y \in S : <<y, x>> \notin Less
  BY <1>2
<1>4. ASSUME NEW y \in S PROVE x <= y
  <2>1. <<y, x>> \in Nat \X Nat /\ <<y, x>>[1] = y /\ <<y, x>>[2] = x
    OBVIOUS
  <2>2. ~(y < x)
    BY <2>1, <1>3 DEF Less
  <2>3. QED
    BY <2>2
<1>5. QED
  BY <1>4 DEF FirstOf

\* A non-empty set of line numbers has a last element, and LastOf is it.
LEMMA LastOfIsElement ==
  ASSUME NEW n \in Nat, NEW S, S \subseteq 1..n, S # {}
  PROVE  LastOf(S) \in S /\ \A j \in S : j <= LastOf(S)
<1> DEFINE T == {i \in 0..n : n - i \in S}
<1>1. PICK s \in S : TRUE
  OBVIOUS
<1>2. s \in 1..n /\ n - s \in 0..n /\ n - (n - s) = s
  BY <1>1
<1>3. T \subseteq Nat /\ T # {}
  <2>1. 0..n \subseteq Nat
    OBVIOUS
  <2>2. T \subseteq 0..n
    BY DEF T
  <2>3. n - s \in T
    BY <1>2, <1>1 DEF T
  <2>4. QED
    BY <2>1, <2>2, <2>3, Zenon
<1>4. FirstOf(T) \in T /\ \A j \in T : FirstOf(T) <= j
  BY <1>3, FirstOfIsElement
<1>5. n - FirstOf(T) \in S
  BY <1>4 DEF T
<1>6. \A j \in S : j <= n - FirstOf(T)
  <2> TAKE j \in S
  <2>0. j \in 1..n /\ n - j \in 0..n /\ n - (n - j) = j
    OBVIOUS
  <2>1. n - j \in T
    BY <2>0 DEF T
  <2>2. FirstOf(T) <= n - j
    BY <2>1, <1>4
  <2>3. QED BY <2>0, <2>2, <1>4 DEF T
<1>7. QED BY <1>5, <1>6 DEF LastOf

-----------------------------------------------------------------------------
(* The configuration reader *)

LEMMA PlainType ==
  ASSUME NEW t \in Text
  PROVE  Plain(t) \in Token
BY WordAssumption DEF Plain, Token, TokenKind, Ref

\* What a line hands to the handler is a template.
LEMMA CallValueType ==
  ASSUME NEW lines \in Lines, NEW i \in DOMAIN lines
  PROVE  CallValue(lines, i) \in Template
<1>1. lines[i] \in Line
  BY ElementOfSeq, LenProperties DEF Lines
<1>2. lines[i].name \in Word /\ lines[i].value \in Template
  BY <1>1 DEF Line
<1>3. <<Plain(Lit(lines[i].name))>> \in Template
  BY <1>2, PlainType DEF Lit, Text, Template
<1>4. RawText(lines[i]) \in Template
  BY <1>2, <1>3, ConcatProperties DEF RawText, Template
<1>5. QED
  BY <1>2, <1>4 DEF CallValue

\* A directive has the default value or a value some line gave it.
LEMMA DirectiveType ==
  ASSUME NEW lines \in Lines, NEW section, NEW d, NEW default \in Template
  PROVE  Directive(lines, section, d, default) \in Template
<1> DEFINE A == Assigns(lines, section, d)
<1>1. Len(lines) \in Nat /\ DOMAIN lines = 1..Len(lines)
  BY LenProperties DEF Lines
<1>2. A \subseteq 1..Len(lines)
  BY <1>1 DEF Assigns
<1>3. CASE A = {}
  BY <1>3 DEF Directive
<1>4. CASE A # {}
  <2>1. LastOf(A) \in DOMAIN lines
    BY <1>1, <1>2, <1>4, LastOfIsElement
  <2>2. CallValue(lines, LastOf(A)) \in Template
    BY <2>1, CallValueType
  <2>3. QED
    BY <2>2, <1>4 DEF Directive
<1>5. QED
  BY <1>3, <1>4

-----------------------------------------------------------------------------
(* Variable substitution *)

\* A bound variable has a text for its value.
LEMMA find_var_valueType ==
  ASSUME NEW ref \in Ref, NEW query \in Query, Bound(ref, query)
  PROVE  find_var_value(ref, query) \in Text
<1>1. CASE ref.env
  BY <1>1, EnvAssumption DEF Bound, find_var_value, Environ
<1>2. CASE ~ref.env
  <2> DEFINE H == Hits(ref.name, query)
  <2>1. DOMAIN query = 1..Len(query) /\ Len(query) \in Nat
    BY LenProperties DEF Query
  <2>2. H \subseteq Nat /\ H # {}
    BY <1>2, <2>1 DEF Hits, Bound
  <2>3. FirstOf(H) \in 1..Len(query)
    BY <2>1, <2>2, FirstOfIsElement DEF Hits
  <2>4. query[FirstOf(H)] \in Param
    BY <2>3, ElementOfSeq DEF Query
  <2>5. QED
    BY <1>2, <2>4 DEF find_var_value, Param
<1>3. QED
  BY <1>1, <1>2

\* A template whose variables are all bound expands to a sequence of texts.
LEMMA expand_varsType ==
  ASSUME NEW template \in Template, NEW query \in Query,
         ~Unbound(template, query)
  PROVE  expand_vars(template, query) \in Seq(Text)
<1>1. DOMAIN template = 1..Len(template) /\ Len(template) \in Nat
  BY LenProperties DEF Template
<1>2. ASSUME NEW i \in 1..Len(template)
      PROVE  Piece(template[i], query) \in Text
  <2>1. template[i] \in Token
    BY ElementOfSeq DEF Template
  <2>2. template[i].left \in Ref /\ template[i].lit \in Text
    BY <2>1 DEF Token
  <2>3. EmptyText \in Text
    BY WordAssumption DEF EmptyText, Lit, Text
  <2>4. template[i].kind = "var" => Bound(template[i].left, query)
    BY <1>1 DEF Unbound
  <2>5. CASE template[i].kind = "lit"
    BY <2>2, <2>5 DEF Piece
  <2>6. CASE template[i].kind = "var"
    BY <2>2, <2>4, <2>6, find_var_valueType DEF Piece
  <2>7. CASE template[i].kind \notin {"lit", "var"}
    BY <2>2, <2>3, <2>7 DEF Piece
  <2>8. QED
    BY <2>5, <2>6, <2>7
<1>3. expand_vars(template, query) \in [1..Len(template) -> Text]
  BY <1>2 DEF expand_vars
<1>4. QED
  BY <1>1, <1>3, SeqDef

-----------------------------------------------------------------------------
(* The number transforms *)

LEMMA StrLenType ==
  ASSUME NEW t \in Text
  PROVE  StrLen(t) \in Nat
<1>1. Size[t.rest] \in Nat /\ t.zeros \in Nat
  BY WordAssumption DEF Text
<1>2. QED
  BY <1>1 DEF StrLen

\* lpadzero makes a text of at most maxlen characters exactly maxlen long and
\* adds nothing but zeros in front.
LEMMA transform_lpadzeroPads ==
  ASSUME NEW t \in Text, NEW maxlen \in Nat, StrLen(t) <= maxlen
  PROVE  /\ transform_lpadzero(t, maxlen) \in Text
         /\ StrLen(transform_lpadzero(t, maxlen)) = maxlen
         /\ transform_lpadzero(t, maxlen).rest = t.rest
<1>1. Size[t.rest] \in Nat /\ t.zeros \in Nat /\ t.rest \in Word
  BY WordAssumption DEF Text
<1>2. StrLen(t) \in Nat /\ StrLen(t) = t.zeros + Size[t.rest]
  BY <1>1 DEF StrLen
<1>3. transform_lpadzero(t, maxlen)
        = [zeros |-> t.zeros + (maxlen - StrLen(t)), rest |-> t.rest]
  BY DEF transform_lpadzero, Text
<1>4. t.zeros + (maxlen - StrLen(t)) \in Nat
  BY <1>1, <1>2
<1>5. QED
  BY <1>1, <1>2, <1>3, <1>4 DEF Text, StrLen

\* ltrimzero never makes a text longer and keeps what is not a leading zero.
LEMMA transform_ltrimzeroTrims ==
  ASSUME NEW t \in Text
  PROVE  /\ transform_ltrimzero(t) \in Text
         /\ StrLen(transform_ltrimzero(t)) <= StrLen(t)
         /\ transform_ltrimzero(t).rest = t.rest
<1>1. Size[t.rest] \in Nat /\ t.zeros \in Nat /\ t.rest \in Word
  BY WordAssumption DEF Text
<1> DEFINE z == IF t.rest = "" /\ t.zeros > 1 THEN 1 ELSE 0
<1>2. transform_ltrimzero(t) = [t EXCEPT !.zeros = z]
  BY DEF transform_ltrimzero
<1>3. z \in Nat /\ z <= t.zeros
  <2>1. CASE t.rest = "" /\ t.zeros > 1
    <3>1. z = 1
      BY <2>1, Zenon DEF z
    <3> HIDE DEF z
    <3>2. t.zeros > 1
      BY <2>1, Zenon
    <3>3. t.zeros \in Nat
      BY <1>1
    <3>4. QED
      BY <3>1, <3>2, <3>3
  <2>2. CASE ~(t.rest = "" /\ t.zeros > 1)
    <3>1. z = 0
      BY <2>2, Zenon DEF z
    <3> HIDE DEF z
    <3>2. QED
      BY <1>1, <3>1
  <2>3. QED
    BY <2>1, <2>2
<1> HIDE DEF z
<1>4. transform_ltrimzero(t) = [zeros |-> z, rest |-> t.rest]
  BY <1>2 DEF Text
<1>5. StrLen(transform_ltrimzero(t)) = z + Size[t.rest]
  BY <1>4 DEF StrLen
<1>6. QED
  BY <1>1, <1>3, <1>4, <1>5 DEF Text, StrLen

=============================================================================
