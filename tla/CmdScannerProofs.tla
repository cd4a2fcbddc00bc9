-------------------------- MODULE CmdScannerProofs --------------------------
(***************************************************************************)
(* The loop of expand_vars(), for every string, every query and every      *)
(* block size.  Its buffer is long enough while nothing that is appended   *)
(* at once is as long as a block, and a template that is written out is    *)
(* expanded token by token to what CmdParser says the tokens mean.         *)
(* Between the two: the program of a command and the quotes of a file name *)
(* (CommandLine).                                                          *)
(***************************************************************************)
EXTENDS CmdScanner, CommandLine, IniFileProofs, StringProofs

-----------------------------------------------------------------------------
(* What is appended *)

LEMMA CharsType ==
  ASSUME NEW t \in Text
  PROVE  Chars(t) \in Seq(TemplateSymbol) /\ Len(Chars(t)) = StrLen(t)
<1>1. StrLen(t) \in Nat
  BY StrLenType
<1>2. t.rest \in TemplateSymbol /\ "0" \in TemplateSymbol
  BY DEF Text, TemplateSymbol
<1> QED
  BY <1>1, <1>2 DEF Chars

\* The value of a name is a parameter or a variable of the environment.
LEMMA ValueIsThere ==
  ASSUME query \in Query, NEW name, Resolves(name)
  PROVE  /\ ValueOf(name) \in Text
         /\ \/ \E v \in DOMAIN Environ : ValueOf(name) = Environ[v]
            \/ \E n \in DOMAIN query : ValueOf(name) = query[n].value
<1> DEFINE r == CHOOSE r \in Refs(name) : Bound(r, query)
<1>1. r \in Refs(name) /\ Bound(r, query) /\ ValueOf(name) = find_var_value(r, query)
  BY DEF Resolves, ValueOf
<1>2. r \in Ref
  BY <1>1 DEF Refs
<1> HIDE DEF r
<1>3. ValueOf(name) \in Text
  BY <1>1, <1>2, find_var_valueType
<1>4. CASE r.env
  BY <1>1, <1>3, <1>4 DEF Bound, find_var_value
<1>5. CASE ~r.env
  <2> DEFINE hits == Hits(r.name, query)
  <2>1. DOMAIN query = 1..Len(query) /\ Len(query) \in Nat
    BY LenProperties DEF Query
  <2>2. hits \subseteq DOMAIN query /\ hits \subseteq Nat
    BY <2>1 DEF Hits
  <2>3. hits # {}
    BY <1>1, <1>5 DEF Bound
  <2> HIDE DEF hits
  <2>4. FirstOf(hits) \in DOMAIN query
    BY <2>2, <2>3, FirstOfIsElement
  <2>5. ValueOf(name) = query[FirstOf(hits)].value
    BY <1>1, <1>5 DEF find_var_value, hits
  <2> QED
    BY <1>3, <2>4, <2>5
<1> QED
  BY <1>4, <1>5

\* A part of a string is a string.
LEMMA CutString ==
  ASSUME NEW s \in Seq(TemplateSymbol), NEW m \in Nat \ {0}, NEW n \in Nat, n <= Len(s)
  PROVE  /\ SubSeq(s, m, n) \in Seq(TemplateSymbol)
         /\ Len(SubSeq(s, m, n)) = IF m <= n THEN n - m + 1 ELSE 0
<1>1. DOMAIN s = 1..Len(s) /\ Len(s) \in Nat
  BY LenProperties
<1>2. \A k \in m..n : s[k] \in TemplateSymbol
  BY <1>1, ElementOfSeq
<1> QED
  BY <1>2, SubSeqProperties

LEMMA TrimmedType ==
  ASSUME NEW s \in Seq(TemplateSymbol)
  PROVE  Trimmed(s) \in Seq(TemplateSymbol) /\ Len(Trimmed(s)) <= Len(s)
<1> DEFINE ink == {k \in DOMAIN s : s[k] # " "}
<1>0. DOMAIN s = 1..Len(s) /\ Len(s) \in Nat
  BY LenProperties
<1>1. ink \subseteq 1..Len(s) /\ ink \subseteq Nat
  <2>1. ink \subseteq DOMAIN s
    OBVIOUS
  <2> HIDE DEF ink
  <2>2. 1..Len(s) \subseteq Nat
    BY <1>0
  <2> QED
    BY <1>0, <2>1, <2>2
<1>2. CASE ink = {}
  <2>1. Trimmed(s) = <<>>
    BY <1>2 DEF Trimmed
  <2>2. Trimmed(s) \in Seq(TemplateSymbol) /\ Len(Trimmed(s)) = 0
    BY <2>1
  <2> QED
    BY <1>0, <2>2
<1>3. CASE ink # {}
  <2> HIDE DEF ink
  <2> DEFINE a == FirstOf(ink)
             z == Greatest(ink)
  <2>1. a \in ink
    BY <1>1, <1>3, FirstOfIsElement
  <2>2. z = LastOf(ink)
    BY DEF Greatest, LastOf
  <2>3. z \in ink
    BY <1>0, <1>1, <1>3, <2>2, LastOfIsElement
  <2>4. Trimmed(s) = SubSeq(s, a, z)
    BY <1>3 DEF Trimmed, ink
  <2> HIDE DEF a, z
  <2>5. a \in 1..Len(s) /\ z \in 1..Len(s)
    BY <1>1, <2>1, <2>3
  <2>6. /\ SubSeq(s, a, z) \in Seq(TemplateSymbol)
        /\ Len(SubSeq(s, a, z)) = IF a <= z THEN z - a + 1 ELSE 0
    BY <1>0, <2>5, CutString
  <2>7. (IF a <= z THEN z - a + 1 ELSE 0) <= Len(s)
    BY <1>0, <2>5
  <2> QED
    BY <2>4, <2>6, <2>7
<1> QED
  BY <1>2, <1>3

\* The text of a conditional is a part of it.
LEMMA ReplaceType ==
  ASSUME NEW expr \in Seq(TemplateSymbol), HasColonBehind(expr)
  PROVE  /\ Conditional(expr).replace \in Seq(TemplateSymbol)
         /\ Len(Conditional(expr).replace) <= Len(expr)
<1> DEFINE first == FirstOf(Places("=", expr, 1))
           double == first < Len(expr) /\ expr[first + 1] = "="
           mid == IF double THEN first + 1 ELSE first
           stop == FirstOf(Places(":", expr, mid + 1))
           rest == SubSeq(expr, stop + 1, Len(expr))
<1>1. Len(expr) \in Nat /\ DOMAIN expr = 1..Len(expr)
  OBVIOUS
<1>2. PICK k \in Places("=", expr, 1) : Places(":", expr, k + 1) # {}
  BY DEF HasColonBehind
<1>3. PICK n \in DOMAIN expr : n >= k + 1 /\ expr[n] = ":"
  BY <1>2 DEF Places
<1>4. k \in 1..Len(expr) /\ Places("=", expr, 1) \subseteq Nat /\ Places("=", expr, 1) # {}
  BY <1>1, <1>2 DEF Places
<1>5. first \in Places("=", expr, 1) /\ first <= k
  BY <1>2, <1>4, FirstOfIsElement
<1>6. first \in 1..Len(expr)
  BY <1>1, <1>5 DEF Places
<1>7. mid \in Nat /\ n >= mid + 1
  <2>1. CASE double
    <3>1. n # first + 1
      BY <1>3, <2>1
    <3> QED
      BY <1>1, <1>3, <1>4, <1>5, <1>6, <2>1, <3>1
  <2>2. CASE ~double
    BY <1>1, <1>3, <1>4, <1>5, <1>6, <2>2
  <2> QED
    BY <2>1, <2>2
<1> HIDE DEF first, mid
<1>8. n \in Places(":", expr, mid + 1) /\ Places(":", expr, mid + 1) \subseteq 1..Len(expr)
  BY <1>1, <1>3, <1>7 DEF Places
<1>9. stop \in 1..Len(expr)
  <2>1. Places(":", expr, mid + 1) \subseteq Nat /\ Places(":", expr, mid + 1) # {}
    BY <1>8
  <2> QED
    BY <1>8, <2>1, FirstOfIsElement
<1> HIDE DEF stop
<1>10. rest \in Seq(TemplateSymbol) /\ Len(rest) <= Len(expr)
  <2>1. stop + 1 \in Nat \ {0}
    BY <1>1, <1>9
  <2>2. /\ rest \in Seq(TemplateSymbol)
        /\ Len(rest) = IF stop + 1 <= Len(expr) THEN Len(expr) - (stop + 1) + 1 ELSE 0
    BY <1>1, <2>1, CutString
  <2> QED
    BY <1>1, <1>9, <2>2
<1>11. Conditional(expr).replace = Trimmed(rest)
  BY DEF Conditional, first, mid, stop
<1> HIDE DEF rest
<1>12. Trimmed(rest) \in Seq(TemplateSymbol) /\ Len(Trimmed(rest)) <= Len(rest)
  BY <1>10, TrimmedType
<1>13. Len(rest) \in Nat /\ Len(Trimmed(rest)) \in Nat
  BY <1>10, <1>12
<1> QED
  BY <1>1, <1>10, <1>11, <1>12, <1>13

-----------------------------------------------------------------------------
(* The loop *)

ScanType ==
  /\ str \in Seq(TemplateSymbol)
  /\ query \in Query
  /\ at \in 0..Len(str)
  /\ start \in 0..at
  /\ at > 0 => start < at
  /\ out \in Seq(TemplateSymbol)
  /\ buffer \in Nat
  /\ capacity \in Nat

\* The memory has not been moved away under the text yet.
InPlace == scan = "undefined" => at = 0 \/ out = <<>> \/ buffer > 2 * BLOCKSIZE

Room ==
  /\ Len(out) < buffer /\ buffer <= capacity /\ ret # EXP_ERR_REALLOC
  /\ BLOCKSIZE <= buffer /\ 2 * BLOCKSIZE <= capacity
  /\ InPlace

\* The memory is as long as the code takes it to be, and longer than the text.
ScanInv == ScanType /\ (ShortPieces => Room)

LEMMA Blocks == BLOCKSIZE \in Nat \ {0} /\ PointerSize \in Nat \ {0, 1}
BY ScannerAssumption

LEMMA ScanInvInit == CmdInit => ScanInv
<1> SUFFICES ASSUME CmdInit PROVE ScanInv
  OBVIOUS
<1>1. str \in Seq(TemplateSymbol) /\ query \in Query
  BY ScannerAssumption DEF CmdInit, Before
<1> DEFINE none == <<>>
<1>2. none \in Seq(TemplateSymbol) /\ Len(none) = 0
  OBVIOUS
<1> HIDE DEF none
<1>3. /\ at = 0 /\ start = 0 /\ out = none /\ ret = 0
      /\ buffer = BLOCKSIZE /\ capacity = PointerSize * BLOCKSIZE
  BY DEF CmdInit, Before, none
<1>4. /\ PointerSize * BLOCKSIZE \in Nat /\ BLOCKSIZE <= PointerSize * BLOCKSIZE
      /\ 2 * BLOCKSIZE <= PointerSize * BLOCKSIZE
  BY Blocks
<1>5. Len(str) \in Nat
  BY <1>1, LenProperties
<1>6. ScanType
  BY <1>1, <1>2, <1>3, <1>4, <1>5, Blocks DEF ScanType
<1>7. Room
  BY <1>2, <1>3, <1>4, Blocks DEF Room, InPlace, EXP_ERR_REALLOC
<1> QED
  BY <1>6, <1>7 DEF ScanInv

\* A piece shorter than a block is appended within the buffer.
LEMMA AppendKeepsRoom ==
  ASSUME ScanInv, NEW text \in Seq(TemplateSymbol), Append_resize(text),
         ShortPieces => Len(text) < BLOCKSIZE, scan = "loop"
  PROVE  /\ out' \in Seq(TemplateSymbol) /\ buffer' \in Nat /\ capacity' \in Nat
         /\ ShortPieces => Room'
<1> DEFINE need == Len(out) + Len(text) + 1
           missing == need - buffer
           grown == Grown(missing)
<1>1. /\ out \in Seq(TemplateSymbol) /\ buffer \in Nat /\ capacity \in Nat
      /\ Len(out) \in Nat /\ Len(text) \in Nat
  BY LenProperties DEF ScanInv, ScanType
<1>2. out \o text \in Seq(TemplateSymbol) /\ Len(out \o text) = Len(out) + Len(text)
  BY <1>1
<1>3. need \in Nat /\ missing \in Int
  BY <1>1
<1>4. grown \in Int
  BY <1>1, <1>3, Blocks DEF Grown
<1>5. ASSUME ShortPieces, need > buffer
      PROVE  grown = buffer + BLOCKSIZE /\ need < grown
  <2>1. Len(out) < buffer /\ Len(text) < BLOCKSIZE
    BY <1>5 DEF ScanInv, Room
  <2>2. missing \in 1..BLOCKSIZE - 1
    BY <1>1, <1>5, <2>1, Blocks
  <2> HIDE DEF missing
  <2>3. missing \div BLOCKSIZE = 0
    BY <2>2, Blocks
  <2>4. grown = buffer + BLOCKSIZE
    BY <1>1, <2>3, Blocks DEF Grown
  <2> QED
    BY <1>1, <1>5, <2>1, <2>4, Blocks
<1>6. CASE need <= buffer /\ out' = out \o text /\ UNCHANGED <<buffer, capacity, scan, ret>>
  <2>1. ShortPieces => Room
    BY DEF ScanInv
  <2>2. Len(out') < buffer
    BY <1>1, <1>2, <1>6
  <2>3. InPlace'
    BY <1>6 DEF InPlace
  <2> QED
    BY <1>1, <1>2, <1>6, <2>1, <2>2, <2>3 DEF Room
<1> HIDE DEF grown
<1>7. CASE /\ need > buffer /\ grown > 0 /\ out' = out \o text
           /\ buffer' = grown /\ capacity' = grown /\ UNCHANGED ret
           /\ scan' \in IF grown > capacity THEN {"loop", "undefined"}
                        ELSE IF need > grown THEN {"undefined"} ELSE {"loop"}
  <2>1. ShortPieces => /\ ret # EXP_ERR_REALLOC
                       /\ BLOCKSIZE <= buffer /\ 2 * BLOCKSIZE <= capacity
    BY DEF ScanInv, Room
  <2>2. ShortPieces => Len(out') < grown
    BY <1>1, <1>2, <1>3, <1>4, <1>5, <1>7
  <2>3. grown \in Nat /\ grown <= grown
    BY <1>4, <1>7
  <2>4. ShortPieces => BLOCKSIZE <= grown /\ 2 * BLOCKSIZE <= grown
    BY <1>1, <1>5, <1>7, <2>1, Blocks
  <2>5. ShortPieces /\ scan' = "undefined" => grown > 2 * BLOCKSIZE
    <3>1. ShortPieces => ~(need > grown)
      BY <1>1, <1>3, <1>4, <1>5, <1>7
    <3>2. ShortPieces /\ scan' = "undefined" => grown > capacity
      BY <1>7, <3>1
    <3> QED
      BY <1>1, <1>4, <2>1, <3>2, Blocks
  <2>6. ShortPieces => InPlace'
    BY <1>7, <2>5 DEF InPlace
  <2> QED
    BY <1>2, <1>7, <2>1, <2>2, <2>3, <2>4, <2>6 DEF Room
<1>8. CASE need > buffer /\ grown <= 0 /\ UNCHANGED <<out, buffer, capacity>>
  <2>1. ~ShortPieces
    BY <1>1, <1>3, <1>4, <1>5, <1>8
  <2> QED
    BY <1>1, <1>8, <2>1
<1> QED
  BY <1>6, <1>7, <1>8 DEF Append_resize, grown

LEMMA NothingKeepsRoom ==
  ASSUME ScanInv, UNCHANGED <<out, buffer, capacity>>, ret' # EXP_ERR_REALLOC \/ ret' = ret,
         scan' # "undefined" \/ at' = 0 \/ UNCHANGED <<scan, at>>
  PROVE  /\ out' \in Seq(TemplateSymbol) /\ buffer' \in Nat /\ capacity' \in Nat
         /\ ShortPieces => Room'
<1>1. ShortPieces => InPlace'
  BY DEF ScanInv, Room, InPlace
<1> QED
  BY <1>1 DEF ScanInv, ScanType, Room

\* What is short stays short: the string and the query do not change.
LEMMA ShortStays == UNCHANGED <<str, query>> => ShortPieces' = ShortPieces
BY DEF ShortPieces

LEMMA ScanInvStep == ScanInv /\ [CmdNext]_cmdVars => ScanInv'
<1> SUFFICES ASSUME ScanInv, [CmdNext]_cmdVars PROVE ScanInv'
  OBVIOUS
<1>1. /\ str \in Seq(TemplateSymbol) /\ query \in Query /\ Len(str) \in Nat
      /\ at \in 0..Len(str) /\ start \in 0..at /\ (at > 0 => start < at)
  BY LenProperties DEF ScanInv, ScanType
<1>2. UNCHANGED <<str, query>>
  BY DEF CmdNext, Opening, EmptyName, CloseVariable, CloseConditional, Closing, OtherChar,
         EndOfString, cmdVars
\* What remains to be shown of a step that appends something or nothing.
<1>3. SUFFICES /\ at' \in 0..Len(str) /\ start' \in 0..at' /\ (at' > 0 => start' < at')
               /\ out' \in Seq(TemplateSymbol) /\ buffer' \in Nat /\ capacity' \in Nat
               /\ ShortPieces => Room'
  BY <1>1, <1>2, ShortStays DEF ScanInv, ScanType
<1>4. ASSUME at < Len(str), at' = at + 1, start' \in {start, at}
      PROVE  at' \in 0..Len(str) /\ start' \in 0..at' /\ (at' > 0 => start' < at')
  BY <1>1, <1>4
<1>5. CASE Opening
  <2>1. at < Len(str) /\ at' = at + 1 /\ start' = at /\ UNCHANGED <<buffer, capacity, ret>>
    BY <1>5 DEF Opening, Looking, Advance
  <2>2. out \in Seq(TemplateSymbol) /\ Len(out) \in Nat
    BY LenProperties DEF ScanInv, ScanType
  <2>3. out' \in Seq(TemplateSymbol) /\ Len(out') <= Len(out)
    <3>1. CASE out = <<>>
      BY <1>5, <2>2, <3>1 DEF Opening
    <3>2. CASE out # <<>>
      <4>1. Len(out) - 1 \in Nat
        BY <2>2, <3>2
      <4>2. out' = SubSeq(out, 1, Len(out) - 1)
        BY <1>5, <3>2 DEF Opening
      <4>3. /\ out' \in Seq(TemplateSymbol)
            /\ Len(out') = IF 1 <= Len(out) - 1 THEN Len(out) - 1 - 1 + 1 ELSE 0
        BY <2>2, <4>1, <4>2, CutString
      <4> QED
        BY <2>2, <4>1, <4>3
    <3> QED
      BY <3>1, <3>2
  <2>4. Len(out') \in Nat
    BY <2>3, LenProperties
  <2>5. buffer \in Nat /\ capacity \in Nat /\ (ShortPieces => Room)
    BY DEF ScanInv, ScanType
  <2>6. InPlace'
    BY <1>5 DEF Opening, Looking, InPlace
  <2>7. ShortPieces => Room'
    BY <2>1, <2>2, <2>3, <2>4, <2>5, <2>6 DEF Room
  <2> QED
    BY <1>4, <2>1, <2>3, <2>5, <2>7
<1>6. CASE EmptyName
  BY <1>1, <1>6, NothingKeepsRoom DEF EmptyName
<1>7. CASE CloseVariable
  <2>1. at < Len(str) /\ at' = at + 1 /\ start' = start /\ scan = "loop"
    BY <1>7 DEF CloseVariable, Closing, Looking, Advance
  <2>2. CASE ~Resolves(Between)
    <3>1. /\ UNCHANGED <<out, buffer, capacity>> /\ ret' = EXP_ERR_QUERYNVVAR_NOT_FOUND
          /\ scan' = "done"
      BY <1>7, <2>2 DEF CloseVariable
    <3>2. ret' # EXP_ERR_REALLOC
      BY <3>1 DEF EXP_ERR_QUERYNVVAR_NOT_FOUND, EXP_ERR_REALLOC
    <3> QED
      BY <1>4, <2>1, <3>1, <3>2, NothingKeepsRoom
  <2>3. CASE Resolves(Between)
    <3> DEFINE v == ValueOf(Between)
    <3>1. /\ v \in Text
          /\ \/ \E e \in DOMAIN Environ : v = Environ[e]
             \/ \E n \in DOMAIN query : v = query[n].value
      BY <1>1, <2>3, ValueIsThere
    <3>2. Append_resize(Chars(v))
      BY <1>7, <2>3 DEF CloseVariable
    <3> HIDE DEF v
    <3>3. ShortPieces => StrLen(v) < BLOCKSIZE
      BY <3>1 DEF ShortPieces
    <3>4. Chars(v) \in Seq(TemplateSymbol) /\ (ShortPieces => Len(Chars(v)) < BLOCKSIZE)
      BY <3>1, <3>3, CharsType
    <3> QED
      BY <1>4, <2>1, <3>2, <3>4, AppendKeepsRoom
  <2> QED
    BY <2>2, <2>3
<1>8. CASE CloseConditional
  <2>1. at < Len(str) /\ at > 0 /\ at' = at + 1 /\ start' = start /\ scan = "loop"
    BY <1>1, <1>8 DEF CloseConditional, Closing, Looking, Advance
  <2>2. CASE HasColonBehind(Between) /\ Matches(Conditional(Between))
    <3> DEFINE r == Conditional(Between).replace
    <3>1. Append_resize(r)
      BY <1>8, <2>2 DEF CloseConditional
    <3>2. /\ Between \in Seq(TemplateSymbol)
          /\ Len(Between) = IF start + 2 <= at THEN at - (start + 2) + 1 ELSE 0
      BY <1>1, <2>1, CutString DEF Between
    <3>3. Len(Between) <= Len(str) /\ Len(Between) \in Nat
      BY <1>1, <3>2
    <3>4. r \in Seq(TemplateSymbol) /\ Len(r) <= Len(Between)
      BY <2>2, <3>2, ReplaceType
    <3> HIDE DEF r
    <3>5. Len(r) \in Nat
      BY <3>4, LenProperties
    <3>6. ShortPieces => Len(r) < BLOCKSIZE
      BY <1>1, <3>3, <3>4, <3>5, Blocks DEF ShortPieces
    <3> QED
      BY <1>4, <2>1, <3>1, <3>4, <3>6, AppendKeepsRoom
  <2>3. CASE ~(HasColonBehind(Between) /\ Matches(Conditional(Between)))
    <3>1. UNCHANGED <<out, buffer, capacity, scan, ret>>
      BY <1>8, <2>3 DEF CloseConditional, NothingAppended
    <3> QED
      BY <1>4, <2>1, <3>1, NothingKeepsRoom
  <2> QED
    BY <2>2, <2>3
<1>9. CASE OtherChar
  <2>1. at < Len(str) /\ at' = at + 1 /\ start' = start /\ scan = "loop"
    BY <1>9 DEF OtherChar, Looking, Advance
  <2>2. CASE open
    <3>1. UNCHANGED <<out, buffer, capacity, scan, ret>>
      BY <1>9, <2>2 DEF OtherChar, NothingAppended
    <3> QED
      BY <1>4, <2>1, <3>1, NothingKeepsRoom
  <2>3. CASE ~open
    <3> DEFINE c == <<Char>>
    <3>1. Append_resize(c)
      BY <1>9, <2>3 DEF OtherChar
    <3>2. Char \in TemplateSymbol
      BY <1>1, <2>1, LenProperties, ElementOfSeq DEF Char
    <3>3. c \in Seq(TemplateSymbol) /\ Len(c) = 1
      BY <3>2
    <3> HIDE DEF c
    <3>4. ShortPieces => Len(c) < BLOCKSIZE
      BY <1>1, <2>1, <3>3, Blocks DEF ShortPieces
    <3> QED
      BY <1>4, <2>1, <3>1, <3>3, <3>4, AppendKeepsRoom
  <2> QED
    BY <2>2, <2>3
<1>10. CASE EndOfString
  BY <1>1, <1>10, NothingKeepsRoom DEF EndOfString
<1>11. CASE UNCHANGED cmdVars
  BY <1>1, <1>11, NothingKeepsRoom DEF cmdVars
<1> QED
  BY <1>5, <1>6, <1>7, <1>8, <1>9, <1>10, <1>11 DEF CmdNext

\* The text and its terminator are always in the buffer, growing it never fails,
\* and it is not moved before it outgrows two blocks, for every block size, if no
\* piece is as long as a block (cmd_parser.c:141-156).
THEOREM ShortPiecesFit == CmdSpec => []AlwaysRoom
<1>1. ScanInv => AlwaysRoom
  BY DEF ScanInv, Room, InPlace, AlwaysRoom
<1> QED
  BY <1>1, ScanInvInit, ScanInvStep, PTL DEF CmdSpec

-----------------------------------------------------------------------------
(***************************************************************************)
(* The program of a command and the quotes of a file name.                 *)
(***************************************************************************)
LEMMA PartOfCommand ==
  ASSUME NEW s \in Seq(Glyph), NEW m \in Nat \ {0}, NEW n \in Nat, n <= Len(s)
  PROVE  /\ SubSeq(s, m, n) \in Seq(Glyph)
         /\ Len(SubSeq(s, m, n)) = IF m <= n THEN n - m + 1 ELSE 0
         /\ \A k \in 1..n - m + 1 : SubSeq(s, m, n)[k] = s[m + k - 1]
<1>1. DOMAIN s = 1..Len(s) /\ Len(s) \in Nat
  BY LenProperties
<1>2. \A k \in m..n : s[k] \in Glyph
  BY <1>1, ElementOfSeq
<1> QED
  BY <1>2, SubSeqProperties

LEMMA PutInQuotes ==
  ASSUME NEW s \in Seq(Glyph), NEW t \in Seq(Glyph), Len(s) > 1, Len(t) = Len(s) - 2,
         s[1] = Quote, s[Len(s)] = Quote, \A n \in 1..Len(s) - 2 : t[n] = s[n + 1]
  PROVE  <<Quote>> \o t \o <<Quote>> = s
<1> DEFINE q == <<Quote>>
           A == Glyph \cup {Quote}
<1>1. q \in Seq(A) /\ s \in Seq(A) /\ t \in Seq(A) /\ Len(q) = 1 /\ q[1] = Quote
  <2>1. \A n \in 1..Len(s) : s[n] \in A
    BY ElementOfSeq, LenProperties
  <2>2. \A n \in 1..Len(t) : t[n] \in A
    BY ElementOfSeq, LenProperties
  <2> QED
    BY <2>1, <2>2, SeqDef
<1>2. Len(s) \in Nat /\ Len(t) \in Nat
  BY LenProperties
<1> HIDE DEF q, A
<1>3. /\ q \o t \in Seq(A) /\ Len(q \o t) = Len(s) - 1
      /\ \A n \in 1..Len(s) - 1 : (q \o t)[n] = IF n = 1 THEN Quote ELSE t[n - 1]
  <2>1. /\ q \o t \in Seq(A) /\ Len(q \o t) = 1 + Len(t)
        /\ \A n \in 1..1 + Len(t) : (q \o t)[n] = IF n <= 1 THEN q[n] ELSE t[n - 1]
    <3>1. /\ q \o t \in Seq(A) /\ Len(q \o t) = Len(q) + Len(t)
          /\ \A n \in 1..Len(q) + Len(t) :
               (q \o t)[n] = IF n <= Len(q) THEN q[n] ELSE t[n - Len(q)]
      <4>1. q \in Seq(A) /\ t \in Seq(A)
        BY <1>1
      <4> QED
        BY <4>1, ConcatProperties, Zenon
    <3> QED
      BY <1>1, <3>1
  <2>2. 1 + Len(t) = Len(s) - 1
    BY <1>2
  <2>3. \A n \in 1..Len(s) - 1 : (q \o t)[n] = IF n = 1 THEN Quote ELSE t[n - 1]
    BY <1>1, <1>2, <2>1, <2>2
  <2> QED
    BY <2>1, <2>2, <2>3
<1>4. /\ q \o t \o q \in Seq(A) /\ Len(q \o t \o q) = Len(s)
      /\ \A n \in 1..Len(s) : (q \o t \o q)[n] = IF n <= Len(s) - 1 THEN (q \o t)[n] ELSE Quote
  BY <1>1, <1>2, <1>3, ConcatProperties
<1>5. \A n \in 1..Len(s) : (q \o t \o q)[n] = s[n]
  <2> TAKE n \in 1..Len(s)
  <2>1. CASE n = 1
    BY <1>2, <1>3, <1>4, <2>1
  <2>2. CASE n = Len(s)
    BY <1>2, <1>4, <2>2
  <2>3. CASE n # 1 /\ n # Len(s)
    <3>1. n - 1 \in 1..Len(s) - 2 /\ n \in 1..Len(s) - 1 /\ (n - 1) + 1 = n
      BY <1>2, <2>3
    <3> QED
      BY <1>2, <1>3, <1>4, <2>3, <3>1
  <2> QED
    BY <2>1, <2>2, <2>3
<1>6. q \o t \o q = s
  BY <1>1, <1>4, <1>5, SeqEqual
<1> QED
  BY <1>6 DEF q

\* trim() takes away the blanks on both sides.
LEMMA StrippedEnds ==
  ASSUME NEW s \in Seq(Glyph), NEW a \in 1..Len(s),
         s[a] \notin Blank, \A n \in 1..a - 1 : s[n] \in Blank
  PROVE  \E z \in a..Len(s) :
           /\ Stripped(s) = SubSeq(s, a, z)
           /\ \A n \in z + 1..Len(s) : s[n] \in Blank
<1>0. DOMAIN s = 1..Len(s) /\ Len(s) \in Nat
  BY LenProperties
<1> DEFINE ink == Ink(s)
<1>1. ink \subseteq 1..Len(s) /\ a \in ink /\ \A n \in 1..Len(s) : n \notin ink => s[n] \in Blank
  BY <1>0 DEF Ink
<1>2. \A n \in ink : a <= n
  <2> TAKE n \in ink
  <2>1. n \in 1..Len(s) /\ s[n] \notin Blank
    BY <1>0 DEF Ink
  <2> QED
    BY <2>1, <1>0
<1>3. Stripped(s) = SubSeq(s, CHOOSE n \in ink : \A m \in ink : n <= m,
                             CHOOSE n \in ink : \A m \in ink : n >= m)
  BY <1>1 DEF Stripped
<1> HIDE DEF ink
<1>4. FirstOf(ink) = a
  <2>1. ink \subseteq Nat /\ ink # {}
    BY <1>0, <1>1
  <2>2. FirstOf(ink) \in ink /\ \A n \in ink : FirstOf(ink) <= n
    BY <2>1, FirstOfIsElement
  <2>3. FirstOf(ink) <= a /\ a <= FirstOf(ink)
    BY <1>1, <1>2, <2>2
  <2>4. FirstOf(ink) \in Nat
    BY <2>1, <2>2
  <2> QED
    BY <1>0, <2>3, <2>4
<1> DEFINE z == LastOf(ink)
<1>5. z \in ink /\ \A n \in ink : n <= z
  BY <1>0, <1>1, LastOfIsElement
<1>6. (CHOOSE n \in ink : \A m \in ink : n <= m) = FirstOf(ink)
  BY DEF FirstOf
<1>7. (CHOOSE n \in ink : \A m \in ink : n >= m) = z
  <2>1. \A n, m \in ink : n >= m <=> m <= n
    BY <1>0, <1>1
  <2> QED
    BY <2>1 DEF LastOf
<1>8. Stripped(s) = SubSeq(s, a, z)
  BY <1>3, <1>4, <1>6, <1>7
<1> HIDE DEF z
<1>9. z \in a..Len(s)
  BY <1>0, <1>1, <1>2, <1>5
<1>10. \A n \in z + 1..Len(s) : s[n] \in Blank
  <2> TAKE n \in z + 1..Len(s)
  <2>1. n \in 1..Len(s) /\ ~(n <= z)
    BY <1>0, <1>9
  <2> QED
    BY <1>1, <1>5, <2>1
<1> QED
  BY <1>8, <1>9, <1>10

LEMMA StrippedType ==
  ASSUME NEW s \in Seq(Glyph)
  PROVE  Stripped(s) \in Seq(Glyph)
<1>0. DOMAIN s = 1..Len(s) /\ Len(s) \in Nat
  BY LenProperties
<1>1. CASE Ink(s) = {}
  BY <1>1 DEF Stripped
<1>2. CASE Ink(s) # {}
  <2>1. Ink(s) \subseteq 1..Len(s) /\ Ink(s) \subseteq Nat
    BY <1>0 DEF Ink
  <2>2. FirstOf(Ink(s)) \in Ink(s) /\ \A n \in Ink(s) : FirstOf(Ink(s)) <= n
    BY <1>2, <2>1, FirstOfIsElement
  <2> DEFINE a == FirstOf(Ink(s))
  <2>3. a \in 1..Len(s) /\ s[a] \notin Blank
    BY <1>0, <2>1, <2>2 DEF Ink
  <2>4. \A n \in 1..a - 1 : s[n] \in Blank
    <3> TAKE n \in 1..a - 1
    <3>1. n \in DOMAIN s /\ ~(a <= n)
      BY <1>0, <2>3
    <3>2. n \notin Ink(s)
      BY <2>2, <3>1
    <3> QED
      BY <3>1, <3>2 DEF Ink
  <2> HIDE DEF a
  <2>5. PICK z \in a..Len(s) : Stripped(s) = SubSeq(s, a, z)
    BY <2>3, <2>4, StrippedEnds
  <2> QED
    BY <1>0, <2>3, <2>5, PartOfCommand
<1> QED
  BY <1>1, <1>2

\* What the loop of getexe() looks at, and for what.
Command == IF BeginsQuoted(Stripped(given)) THEN Tail(Stripped(given)) ELSE Stripped(given)

Ending == IF BeginsQuoted(Stripped(given)) THEN Quote ELSE " "

\* The loop of getexe() has passed no character that ends the program.
GetexeInv ==
  call = "getexe" =>
    /\ phase \in {"start", "loop", "done"}
    /\ phase = "start" => ci = 0
    /\ phase = "loop" => /\ tmp = Command /\ quote = Ending
                        /\ ci \in 0..Len(tmp)
                        /\ \A n \in 1..ci : tmp[n] # quote
    /\ phase = "done" => \E e \in 0..Len(Command) :
                          /\ tmp = SubSeq(Command, 1, e)
                          /\ \A n \in 1..e : Command[n] # Ending
                          /\ e < Len(Command) => Command[e + 1] = Ending

\* cmdunquote() has shifted ci characters, and the rest is as it was.
UnquoteInv ==
  call = "cmdunquote" =>
    /\ phase \in {"start", "loop"} =>
         /\ tmp \in Seq(Glyph) /\ Len(tmp) = Len(given)
         /\ ci \in 0..Len(given) - 1 \/ ci = 0
         /\ \A n \in 1..Len(given) :
              tmp[n] = IF n <= ci THEN given[n + 1] ELSE given[n]
    /\ phase = "start" => ci = 0
    /\ phase = "loop" => isquoted(given)
    /\ UnquotesOnce

LineInv == given \in Seq(Glyph) /\ GetexeInv /\ UnquoteInv

LEMMA LineInvInit == LineInit => LineInv
<1> SUFFICES ASSUME LineInit PROVE LineInv
  OBVIOUS
<1>0. PICK f \in {"getexe", "cmdunquote"}, s \in Commands : Called(f, s)
  BY DEF LineInit
<1>1. /\ given \in Seq(Glyph) /\ tmp = given /\ ci = 0 /\ phase = "start"
      /\ Len(given) \in Nat
  <2>1. s \in Seq(Glyph) /\ Len(s) \in Nat
    BY CommandAssumption, LenProperties
  <2> QED
    BY <1>0, <2>1 DEF Called
<1>2. GetexeInv
  BY <1>1 DEF GetexeInv
<1>3. UnquoteInv
  <2>1. UnquotesOnce
    BY <1>1 DEF UnquotesOnce
  <2>2. \A n \in 1..Len(given) : tmp[n] = IF n <= ci THEN given[n + 1] ELSE given[n]
    BY <1>1
  <2> QED
    BY <1>1, <2>1, <2>2 DEF UnquoteInv
<1> QED
  BY <1>1, <1>2, <1>3 DEF LineInv

LEMMA CommandType ==
  ASSUME given \in Seq(Glyph)
  PROVE  Command \in Seq(Glyph)
<1>1. Stripped(given) \in Seq(Glyph)
  BY StrippedType
<1>2. BeginsQuoted(Stripped(given)) => Tail(Stripped(given)) \in Seq(Glyph)
  BY <1>1, HeadTailProperties DEF BeginsQuoted
<1> QED
  BY <1>1, <1>2 DEF Command

LEMMA GetexeStep ==
  ASSUME LineInv, LineNext, call = "getexe"
  PROVE  GetexeInv'
<1>0. /\ given' = given /\ call' = call /\ Command' = Command /\ Ending' = Ending
      /\ Command \in Seq(Glyph) /\ Len(Command) \in Nat
  <2>1. given' = given /\ call' = call
    BY DEF LineNext, TakeCommand, KeepChar, CutProgram, WholeCommand, LeaveUnquoted,
           BeginShift, Shift, Terminate, TerminateInFront
  <2> QED
    BY <2>1, CommandType DEF LineInv, Command, Ending
<1>1. CASE TakeCommand
  <2>1. tmp' = Command /\ quote' = Ending /\ phase' = "loop" /\ ci' = 0
    BY <1>1 DEF TakeCommand, Command, Ending, LineInv, GetexeInv
  <2> QED
    BY <1>0, <2>1 DEF GetexeInv
<1>2. CASE KeepChar
  <2>1. /\ tmp = Command /\ quote = Ending /\ ci \in 0..Len(tmp)
        /\ \A n \in 1..ci : tmp[n] # quote
        /\ ci < Len(tmp) /\ tmp[ci + 1] # quote
        /\ tmp' = tmp /\ quote' = quote /\ ci' = ci + 1 /\ phase' = "loop"
    BY <1>2 DEF KeepChar, Searching, LineInv, GetexeInv
  <2>2. \A n \in 1..ci + 1 : n \in 1..ci \/ n = ci + 1
    BY <1>0, <2>1
  <2> QED
    BY <1>0, <2>1, <2>2 DEF GetexeInv
<1>3. CASE CutProgram
  <2>1. /\ tmp = Command /\ quote = Ending /\ ci \in 0..Len(Command)
        /\ \A n \in 1..ci : Command[n] # Ending
        /\ Command[ci + 1] = Ending
        /\ tmp' = SubSeq(Command, 1, ci) /\ phase' = "done"
    BY <1>3 DEF CutProgram, Searching, LineInv, GetexeInv
  <2> QED
    BY <1>0, <2>1 DEF GetexeInv
<1>4. CASE WholeCommand
  <2>1. /\ tmp = Command /\ ci = Len(Command)
        /\ \A n \in 1..ci : Command[n] # Ending
        /\ tmp' = tmp /\ phase' = "done"
    BY <1>4 DEF WholeCommand, Searching, LineInv, GetexeInv
  <2>2. SubSeq(Command, 1, Len(Command)) = Command
    BY <1>0
  <2> QED
    BY <1>0, <2>1, <2>2 DEF GetexeInv
<1> QED
  BY <1>1, <1>2, <1>3, <1>4
  DEF LineNext, LeaveUnquoted, BeginShift, Shift, Terminate, TerminateInFront

LEMMA UnquoteStep ==
  ASSUME LineInv, LineNext, call = "cmdunquote"
  PROVE  UnquoteInv'
<1>0. /\ given' = given /\ call' = call
      /\ given \in Seq(Glyph) /\ Len(given) \in Nat /\ DOMAIN given = 1..Len(given)
  <2>1. given' = given /\ call' = call
    BY DEF LineNext, TakeCommand, KeepChar, CutProgram, WholeCommand, LeaveUnquoted,
           BeginShift, Shift, Terminate, TerminateInFront
  <2> QED
    BY <2>1, LenProperties DEF LineInv
<1>i. phase \in {"start", "loop"} =>
        /\ tmp \in Seq(Glyph) /\ Len(tmp) = Len(given) /\ DOMAIN tmp = 1..Len(given)
        /\ ci \in 0..Len(given) - 1 \/ ci = 0
        /\ \A n \in 1..Len(given) :
             tmp[n] = IF n <= ci THEN given[n + 1] ELSE given[n]
  BY LenProperties DEF LineInv, UnquoteInv
<1>j. phase = "loop" => isquoted(given)
  BY DEF LineInv, UnquoteInv
<1>k. isquoted(given) => Len(given) > 0 /\ given[1] = Quote /\ given[Len(given)] = Quote
  BY <1>0 DEF isquoted, BeginsQuoted
<1>1. CASE LeaveUnquoted
  <2>1. ~isquoted(given) /\ phase = "start" /\ ci = 0 /\ tmp' = tmp /\ phase' = "done"
    BY <1>1 DEF LeaveUnquoted, LineInv, UnquoteInv
  <2>2. tmp = given
    BY <1>0, <1>i, <2>1, SeqEqual
  <2>3. UnquotesOnce'
    BY <1>0, <2>1, <2>2 DEF UnquotesOnce, isquoted, BeginsQuoted
  <2> QED
    BY <2>1, <2>3 DEF UnquoteInv
<1>2. CASE BeginShift
  <2>1. isquoted(given) /\ phase = "start" /\ ci' = ci /\ tmp' = tmp /\ phase' = "loop"
    BY <1>2 DEF BeginShift
  <2>2. UnquotesOnce'
    BY <2>1 DEF UnquotesOnce
  <2> QED
    BY <1>0, <1>i, <2>1, <2>2 DEF UnquoteInv, isquoted, BeginsQuoted
<1>3. CASE Shift
  <2>1. /\ phase = "loop" /\ phase' = "loop" /\ ci < Len(given) - 1 /\ ci' = ci + 1
        /\ tmp' = [tmp EXCEPT ![ci + 1] = tmp[ci + 2]]
    BY <1>3 DEF Shift
  <2>2. ci + 1 \in 1..Len(given) /\ ci + 2 \in 1..Len(given) /\ ~(ci + 2 <= ci)
        /\ ci \in Nat
    BY <1>0, <1>i, <2>1
  <2>3. tmp[ci + 2] = given[ci + 2] /\ tmp[ci + 2] \in Glyph
    BY <1>i, <2>1, <2>2, ElementOfSeq
  <2>4. tmp' \in Seq(Glyph) /\ Len(tmp') = Len(given)
    BY <1>i, <2>1, <2>2, <2>3, ExceptSeq
  <2>5. \A n \in 1..Len(given) : tmp'[n] = IF n = ci + 1 THEN given[ci + 2] ELSE tmp[n]
    BY <1>i, <2>1, <2>2, <2>3
  <2>6. \A n \in 1..Len(given) : tmp'[n] = IF n <= ci + 1 THEN given[n + 1] ELSE given[n]
    <3> TAKE n \in 1..Len(given)
    <3>1. tmp'[n] = IF n = ci + 1 THEN given[ci + 2] ELSE tmp[n]
      BY <2>5
    <3>2. tmp[n] = IF n <= ci THEN given[n + 1] ELSE given[n]
      BY <1>i, <2>1
    <3> QED
      BY <2>2, <3>1, <3>2
  <2>7. ci' \in 0..Len(given) - 1
    BY <1>0, <2>1, <2>2
  <2>8. UnquotesOnce'
    BY <2>1 DEF UnquotesOnce
  <2> QED
    BY <1>0, <1>j, <2>1, <2>4, <2>6, <2>7, <2>8 DEF UnquoteInv, isquoted, BeginsQuoted
<1>4. CASE Terminate
  <2>1. /\ phase = "loop" /\ phase' = "done" /\ ci >= Len(given) - 1 /\ Len(given) > 1
        /\ tmp' = SubSeq(tmp, 1, Len(given) - 2)
    BY <1>4 DEF Terminate
  <2>2. ci = Len(given) - 1
    BY <1>0, <1>i, <2>1
  <2>3. /\ tmp' \in Seq(Glyph) /\ Len(tmp') = Len(given) - 2
        /\ \A n \in 1..Len(given) - 2 : tmp'[n] = tmp[n]
    BY <1>0, <1>i, <2>1, PartOfCommand
  <2>4. \A n \in 1..Len(given) - 2 : tmp'[n] = given[n + 1]
    <3> TAKE n \in 1..Len(given) - 2
    <3>1. n \in 1..Len(given) /\ n <= ci
      BY <1>0, <2>2
    <3> QED
      BY <1>i, <2>1, <2>3, <3>1
  <2>5. given[1] = Quote /\ given[Len(given)] = Quote
    BY <1>j, <1>k, <2>1
  <2>6. <<Quote>> \o tmp' \o <<Quote>> = given
    BY <1>0, <2>1, <2>3, <2>4, <2>5, PutInQuotes
  <2>7. UnquotesOnce'
    BY <1>0, <1>j, <2>1, <2>6 DEF UnquotesOnce, isquoted, BeginsQuoted
  <2> QED
    BY <2>1, <2>7 DEF UnquoteInv
<1>5. CASE TerminateInFront
  <2>1. /\ phase = "loop" /\ phase' \in {"done", "crashed"} /\ Len(given) = 1 /\ tmp' = tmp
    BY <1>5 DEF TerminateInFront
  <2>2. ci = 0
    BY <1>i, <2>1
  <2>3. tmp = given
    BY <1>0, <1>i, <2>1, <2>2, SeqEqual
  <2>4. given = <<Quote>>
    BY <1>0, <1>j, <1>k, <2>1
  <2>5. UnquotesOnce'
    BY <1>0, <2>1, <2>3, <2>4 DEF UnquotesOnce, isquoted, BeginsQuoted
  <2> QED
    BY <2>1, <2>5 DEF UnquoteInv
<1> QED
  BY <1>1, <1>2, <1>3, <1>4, <1>5
  DEF LineNext, TakeCommand, KeepChar, CutProgram, WholeCommand, Searching

LEMMA LineInvStep == LineInv /\ [LineNext]_lineVars => LineInv'
<1> SUFFICES ASSUME LineInv, [LineNext]_lineVars PROVE LineInv'
  OBVIOUS
<1>1. CASE UNCHANGED lineVars
  BY <1>1 DEF lineVars, LineInv, GetexeInv, UnquoteInv, UnquotesOnce, Command, Ending,
              isquoted, BeginsQuoted
<1>2. CASE LineNext
  <2>1. given' = given /\ call' = call
    BY <1>2 DEF LineNext, TakeCommand, KeepChar, CutProgram, WholeCommand, LeaveUnquoted,
                BeginShift, Shift, Terminate, TerminateInFront
  <2>2. GetexeInv'
    <3>1. CASE call = "getexe"
      BY <1>2, <3>1, GetexeStep
    <3>2. CASE call # "getexe"
      BY <2>1, <3>2 DEF GetexeInv
    <3> QED
      BY <3>1, <3>2
  <2>3. UnquoteInv'
    <3>1. CASE call = "cmdunquote"
      BY <1>2, <3>1, UnquoteStep
    <3>2. CASE call # "cmdunquote"
      BY <2>1, <3>2 DEF UnquoteInv
    <3> QED
      BY <3>1, <3>2
  <2> QED
    BY <2>1, <2>2, <2>3 DEF LineInv
<1> QED
  BY <1>1, <1>2

\* Between the two quotes of a file name there is all of it, however often it
\* was moved: the loop of cmdunquote() ends with the shifted name
\* (stringlib.c:398-411, 488-501).
THEOREM UnquotingIsExact == LineSpec => []UnquotesOnce
<1>1. LineInv => UnquotesOnce
  BY DEF LineInv, UnquoteInv, UnquotesOnce
<1>2. QED
  BY <1>1, LineInvInit, LineInvStep, PTL DEF LineSpec

\* The text the loop of getexe() looks at, behind a quote or not.
LEMMA QuotedCommand ==
  ASSUME given \in Seq(Glyph), NEW a \in 1..Len(given), given[a] = Quote,
         \A n \in 1..a - 1 : given[n] \in Blank,
         NEW l \in a + 1..Len(given), given[l] \notin Blank
  PROVE  \E z \in l..Len(given) :
           /\ Len(Command) = z - a
           /\ \A k \in 1..z - a : Command[k] = given[a + k]
           /\ Ending = Quote
<1>0. Len(given) \in Nat
  BY LenProperties
<1>1. given[a] \notin Blank
  BY DEF Quote, Blank
<1>2. PICK z \in a..Len(given) :
        /\ Stripped(given) = SubSeq(given, a, z)
        /\ \A n \in z + 1..Len(given) : given[n] \in Blank
  BY <1>1, StrippedEnds
<1>3. l <= z
  BY <1>0, <1>2
<1> DEFINE t == Stripped(given)
<1>4. /\ t \in Seq(Glyph) /\ Len(t) = z - a + 1
      /\ \A k \in 1..z - a + 1 : t[k] = given[a + k - 1]
  BY <1>0, <1>2, PartOfCommand
<1> HIDE DEF t
<1>5. t # <<>> /\ Head(t) = Quote
  <2>1. Len(t) > 0 /\ Len(t) \in Nat
    BY <1>0, <1>3, <1>4
  <2>2. Head(t) = t[1] /\ t[1] = given[a]
    BY <1>0, <1>4, <2>1, HeadTailProperties
  <2> QED
    BY <2>1, <2>2
<1>6. Command = Tail(t) /\ Ending = Quote
  BY <1>5 DEF Command, Ending, BeginsQuoted, t
<1>7. Len(Tail(t)) = z - a /\ \A k \in 1..z - a : Tail(t)[k] = t[k + 1]
  BY <1>0, <1>4, <1>5, HeadTailProperties
<1>8. \A k \in 1..z - a : Command[k] = given[a + k]
  <2> TAKE k \in 1..z - a
  <2>1. k + 1 \in 1..z - a + 1 /\ a + (k + 1) - 1 = a + k
    BY <1>0
  <2> QED
    BY <1>4, <1>6, <1>7, <2>1
<1> QED
  BY <1>0, <1>3, <1>6, <1>7, <1>8

LEMMA PlainCommand ==
  ASSUME given \in Seq(Glyph), NEW a \in 1..Len(given), given[a] \notin Blank \cup {Quote},
         \A n \in 1..a - 1 : given[n] \in Blank,
         NEW l \in a..Len(given), given[l] \notin Blank
  PROVE  \E z \in l..Len(given) :
           /\ Len(Command) = z - a + 1
           /\ \A k \in 1..z - a + 1 : Command[k] = given[a + k - 1]
           /\ Ending = " "
<1>0. Len(given) \in Nat
  BY LenProperties
<1>2. PICK z \in a..Len(given) :
        /\ Stripped(given) = SubSeq(given, a, z)
        /\ \A n \in z + 1..Len(given) : given[n] \in Blank
  BY StrippedEnds
<1>3. l <= z
  BY <1>0, <1>2
<1> DEFINE t == Stripped(given)
<1>4. /\ t \in Seq(Glyph) /\ Len(t) = z - a + 1
      /\ \A k \in 1..z - a + 1 : t[k] = given[a + k - 1]
  BY <1>0, <1>2, PartOfCommand
<1> HIDE DEF t
<1>5. t # <<>> /\ Head(t) # Quote
  <2>1. Len(t) > 0 /\ Len(t) \in Nat
    BY <1>0, <1>3, <1>4
  <2>2. Head(t) = t[1] /\ t[1] = given[a]
    BY <1>0, <1>4, <2>1, HeadTailProperties
  <2> QED
    BY <2>1, <2>2
<1>6. Command = t /\ Ending = " "
  BY <1>5 DEF Command, Ending, BeginsQuoted, t
<1>7. z \in l..Len(given)
  BY <1>0, <1>2, <1>3
<1> QED
  BY <1>4, <1>6, <1>7

LEMMA ProgramFound == LineInv => ProgramIsFirst
<1> SUFFICES ASSUME LineInv, call = "getexe", phase = "done"
             PROVE  ProgramIsFirst
  BY DEF ProgramIsFirst
<1>0. given \in Seq(Glyph) /\ Len(given) \in Nat /\ Command \in Seq(Glyph)
  BY LenProperties, CommandType DEF LineInv
<1>1. PICK e \in 0..Len(Command) :
        /\ tmp = SubSeq(Command, 1, e)
        /\ \A n \in 1..e : Command[n] # Ending
        /\ e < Len(Command) => Command[e + 1] = Ending
  BY DEF LineInv, GetexeInv
<1>2. /\ tmp \in Seq(Glyph) /\ Len(tmp) = e
      /\ \A k \in 1..e : tmp[k] = Command[k]
  <2>1. Len(Command) \in Nat /\ e \in Nat /\ e <= Len(Command)
    BY <1>0, LenProperties
  <2>2. /\ SubSeq(Command, 1, e) \in Seq(Glyph)
        /\ Len(SubSeq(Command, 1, e)) = IF 1 <= e THEN e - 1 + 1 ELSE 0
        /\ \A k \in 1..e - 1 + 1 : SubSeq(Command, 1, e)[k] = Command[1 + k - 1]
    BY <1>0, <2>1, PartOfCommand
  <2> QED
    BY <1>1, <2>1, <2>2
<1>3. ASSUME NEW first \in 1..Len(given), NEW last \in first - 1..Len(given) - 1,
             first > 1, QuotedProgram(first, last)
      PROVE  tmp = SubSeq(given, first, last)
  <2> DEFINE a == first - 1
             d == last - first + 1
  <2>0. a \in 1..Len(given) /\ d \in Nat /\ last + 1 \in a + 1..Len(given) /\ a - 1 = first - 2
    BY <1>0, <1>3
  <2>1. /\ given[a] = Quote /\ given[last + 1] = Quote
        /\ \A n \in 1..a - 1 : given[n] \in Blank
        /\ \A n \in first..last : given[n] # Quote
    BY <1>3, <2>0 DEF QuotedProgram
  <2>2. given[last + 1] \notin Blank
    BY <2>1 DEF Quote, Blank
  <2> HIDE DEF a
  <2>3. PICK z \in last + 1..Len(given) :
           /\ Len(Command) = z - a
           /\ \A k \in 1..z - a : Command[k] = given[a + k]
           /\ Ending = Quote
    BY <1>0, <2>0, <2>1, <2>2, QuotedCommand
  <2> USE DEF a
  <2>4. e <= d
    <3>1. d + 1 \in 1..z - a /\ a + (d + 1) = last + 1
      BY <1>0, <2>0, <2>3
    <3>2. Command[d + 1] = Ending
      BY <2>1, <2>3, <3>1
    <3>3. d + 1 \notin 1..e
      BY <1>1, <3>2
    <3> QED
      BY <2>0, <3>3, <1>1
  <2>5. e >= d
    <3> SUFFICES ASSUME e < d PROVE FALSE
      BY <2>0, <1>1
    <3>1. e + 1 \in 1..z - a /\ a + (e + 1) \in first..last /\ e < Len(Command)
      BY <1>0, <1>1, <2>0, <2>3
    <3>2. given[a + (e + 1)] = Quote
      BY <1>1, <2>3, <3>1
    <3> QED
      BY <2>1, <3>1, <3>2
  <2>6. e = d
    BY <1>1, <2>0, <2>4, <2>5
  <2>7. /\ SubSeq(given, first, last) \in Seq(Glyph)
        /\ Len(SubSeq(given, first, last)) = d
        /\ \A k \in 1..d : SubSeq(given, first, last)[k] = given[first + k - 1]
    BY <1>0, <2>0, PartOfCommand
  <2>8. \A k \in 1..e : tmp[k] = SubSeq(given, first, last)[k]
    <3> TAKE k \in 1..e
    <3>1. k \in 1..d /\ k \in 1..z - a /\ a + k = first + k - 1
      BY <1>0, <1>1, <2>0, <2>3, <2>6
    <3> QED
      BY <1>2, <2>3, <2>7, <3>1
  <2> QED
    BY <1>2, <2>6, <2>7, <2>8, SeqEqual
<1>4. ASSUME NEW first \in 1..Len(given), NEW last \in first..Len(given),
             PlainProgram(first, last)
      PROVE  tmp = SubSeq(given, first, last)
  <2> DEFINE d == last - first + 1
  <2>1. /\ given[first] \notin Blank \cup {Quote} /\ given[last] \notin Blank
        /\ \A n \in 1..first - 1 : given[n] \in Blank
        /\ \A n \in first..last : given[n] # " "
        /\ last < Len(given) => given[last + 1] = " "
    BY <1>4 DEF PlainProgram
  <2>3. PICK z \in last..Len(given) :
           /\ Len(Command) = z - first + 1
           /\ \A k \in 1..z - first + 1 : Command[k] = given[first + k - 1]
           /\ Ending = " "
    BY <1>0, <2>1, PlainCommand
  <2>z. z \in last..Len(given) /\ e \in 0..z - first + 1 /\ first \in Nat /\ last \in Nat
    <3>1. Len(Command) = z - first + 1
      BY <2>3
    <3>2. e \in 0..z - first + 1
      BY <3>1, Zenon
    <3> QED
      BY <1>0, <3>2
  <2>4. e <= d
    <3> SUFFICES ASSUME e > d PROVE FALSE
      BY <1>0, <1>1
    <3>1. /\ d + 1 \in 1..e /\ d + 1 \in 1..z - first + 1
          /\ first + (d + 1) - 1 = last + 1 /\ last < Len(given)
      BY <1>0, <2>z
    <3>2. Command[d + 1] = Ending
      BY <2>1, <2>3, <3>1
    <3> QED
      BY <1>1, <3>1, <3>2
  <2>5. e >= d
    <3> SUFFICES ASSUME e < d PROVE FALSE
      BY <1>0, <1>1
    <3>1. /\ e + 1 \in 1..z - first + 1 /\ first + (e + 1) - 1 \in first..last
          /\ e < Len(Command)
      <4>1. e < z - first + 1 /\ e + 1 \in 1..z - first + 1
        BY <1>0, <2>z
      <4>2. first + (e + 1) - 1 \in first..last
        BY <1>0, <2>z
      <4>3. e < Len(Command)
        BY <2>3, <4>1
      <4> QED
        BY <4>1, <4>2, <4>3
    <3>2. given[first + (e + 1) - 1] = " "
      BY <1>1, <2>3, <3>1
    <3> QED
      BY <2>1, <3>1, <3>2
  <2>6. e = d /\ d \in Nat
    BY <1>0, <1>1, <2>4, <2>5
  <2>7. /\ SubSeq(given, first, last) \in Seq(Glyph)
        /\ Len(SubSeq(given, first, last)) = d
        /\ \A k \in 1..d : SubSeq(given, first, last)[k] = given[first + k - 1]
    BY <1>0, <2>6, PartOfCommand
  <2>8. \A k \in 1..e : tmp[k] = SubSeq(given, first, last)[k]
    <3> TAKE k \in 1..e
    <3>1. k \in 1..d /\ k \in 1..z - first + 1
      BY <1>0, <2>z, <2>6
    <3> QED
      BY <1>2, <2>3, <2>7, <3>1
  <2> QED
    BY <1>2, <2>6, <2>7, <2>8, SeqEqual
<1> QED
  BY <1>3, <1>4 DEF ProgramIsFirst

\* The program that is looked for on disk is the one a command names first, for
\* commands of any length: nothing a parameter of the url adds behind it makes
\* it another one (getexe.c:3-30).
THEOREM CheckedIsFirst == LineSpec => []ProgramIsFirst
BY ProgramFound, LineInvInit, LineInvStep, PTL DEF LineSpec

-----------------------------------------------------------------------------
(***************************************************************************)
(* The expansion of a template.  First what is in the braces of a token:   *)
(* the scanner finds in the expression what the token was written from.    *)
(***************************************************************************)

\* A name is written for itself only.
LEMMA WrittenRefType ==
  ASSUME NEW r \in Ref
  PROVE  /\ WrittenRef(r) \in Seq(TemplateSymbol)
         /\ Refs(WrittenRef(r)) = {r}
<1>1. r = [env |-> r.env, name |-> r.name] /\ r.env \in BOOLEAN /\ r.name \in Word
  BY DEF Ref
<1>2. r.name \in TemplateSymbol /\ "env." \in TemplateSymbol
  BY <1>1 DEF TemplateSymbol
<1>3. WrittenRef(r) \in Seq(TemplateSymbol)
  BY <1>2 DEF WrittenRef
<1>4. ASSUME NEW q \in Ref, WrittenRef(r) = IF q.env THEN <<"env.", q.name>> ELSE <<q.name>>
      PROVE  q = r
  <2>1. q = [env |-> q.env, name |-> q.name] /\ q.env \in BOOLEAN /\ q.name \in Word
    BY DEF Ref
  <2>2. \A a, b, c : <<a>> # <<b, c>> /\ <<b, c>> # <<a>>
    OBVIOUS
  <2>3. \A a, b : (<<a>> = <<b>> => a = b)
    OBVIOUS
  <2>4. \A a, b, c : (<<a, b>> = <<a, c>> => b = c)
    OBVIOUS
  <2>5. q.env = r.env /\ q.name = r.name
    BY <1>1, <1>4, <2>1, <2>2, <2>3, <2>4 DEF WrittenRef
  <2> QED
    BY <1>1, <2>1, <2>5
<1> QED
  BY <1>3, <1>4 DEF Refs, WrittenRef

\* A written name has the value of what it refers to.
LEMMA WrittenRefResolves ==
  ASSUME NEW r \in Ref
  PROVE  /\ Resolves(WrittenRef(r)) <=> Bound(r, query)
         /\ Bound(r, query) => ValueOf(WrittenRef(r)) = find_var_value(r, query)
<1>1. Refs(WrittenRef(r)) = {r}
  BY WrittenRefType
<1>2. Bound(r, query) => (CHOOSE q \in {r} : Bound(q, query)) = r
  OBVIOUS
<1> QED
  BY <1>1, <1>2 DEF Resolves, ValueOf

\* No name is written with three symbols, or with two of which the first is not
\* the prefix.
LEMMA NoRefs ==
  ASSUME NEW s \in Seq(TemplateSymbol), Len(s) >= 2, s[1] # "env." \/ Len(s) >= 3
  PROVE  ~Resolves(s)
<1>1. ASSUME NEW r \in Ref, s = WrittenRef(r) PROVE FALSE
  <2>1. CASE r.env
    <3>1. s = <<"env.", r.name>>
      BY <1>1, <2>1 DEF WrittenRef
    <3>2. Len(s) = 2 /\ s[1] = "env."
      BY <3>1
    <3> QED
      BY <3>2
  <2>2. CASE ~r.env
    <3>1. s = <<r.name>>
      BY <1>1, <2>2 DEF WrittenRef
    <3>2. Len(s) = 1
      BY <3>1
    <3> QED
      BY <3>2
  <2> QED
    BY <2>1, <2>2
<1> QED
  BY <1>1 DEF Resolves, Refs, WrittenRef

\* Nothing but blanks, and a text that begins and ends with something else.
OnlyBlanks(b) == b \in Seq({" "})

InkAtEnds(s) == s = <<>> \/ (s[1] # " " /\ s[Len(s)] # " ")

\* Blanks are symbols, and have no ink.
LEMMA BlanksType ==
  ASSUME NEW b, OnlyBlanks(b)
  PROVE  b \in Seq(TemplateSymbol) /\ \A k \in 1..Len(b) : b[k] = " "
<1> DEFINE blank == {" "}
<1>1. b \in Seq(blank) /\ blank \subseteq TemplateSymbol /\ \A x \in blank : x = " "
  BY DEF OnlyBlanks, TemplateSymbol
<1> HIDE DEF blank
<1>2. b \in Seq(TemplateSymbol)
  BY <1>1, SeqMonotonic
<1>3. \A k \in 1..Len(b) : b[k] \in blank
  BY <1>1, ElementOfSeq
<1> QED
  BY <1>1, <1>2, <1>3

\* Blanks around a text are trimmed.
LEMMA TrimsBlanks ==
  ASSUME NEW b, NEW c, OnlyBlanks(b), OnlyBlanks(c), NEW s \in Seq(TemplateSymbol), InkAtEnds(s)
  PROVE  Trimmed((b \o s) \o c) = s
<1> DEFINE e == (b \o s) \o c
           B == Len(b)
           N == Len(s)
           C == Len(c)
           bs == b \o s
           ink == {k \in DOMAIN e : e[k] # " "}
<1>1. B \in Nat /\ N \in Nat /\ C \in Nat
  BY BlanksType, LenProperties
<1>2. b \in Seq(TemplateSymbol) /\ c \in Seq(TemplateSymbol)
  BY BlanksType
<1>3. bs \in Seq(TemplateSymbol) /\ Len(bs) = B + N
  BY <1>2, FollowedBy, SMT
<1>4. \A k \in 1..B : bs[k] = b[k]
  BY <1>2, FollowedBy, SMT
<1>5. \A k \in 1..N : bs[B + k] = s[k]
  BY <1>2, FollowedBy, SMT
<1>6. e = bs \o c
  OBVIOUS
<1> HIDE DEF bs
<1>7. e \in Seq(TemplateSymbol) /\ Len(e) = (B + N) + C
  BY <1>2, <1>3, <1>6, FollowedBy, SMT
<1>8. \A k \in 1..B + N : e[k] = bs[k]
  BY <1>2, <1>3, <1>6, FollowedBy, SMT
<1>9. \A k \in 1..C : e[(B + N) + k] = c[k]
  BY <1>2, <1>3, <1>6, FollowedBy, SMT
<1>10. DOMAIN e = 1..(B + N) + C /\ (\A k \in 1..B : b[k] = " ") /\ (\A k \in 1..C : c[k] = " ")
  BY <1>6, <1>7, <1>2, <1>3, BlanksType, LenProperties
<1> DEFINE M == (B + N) + C
<1> HIDE DEF B, C, N, e
<1>11. \A k : k \in ink <=> k \in 1..M /\ e[k] # " "
  BY <1>10, Zenon
<1>12. \A k \in 1..N : e[B + k] = s[k]
  <2> SUFFICES ASSUME NEW k \in 1..N PROVE e[B + k] = s[k]
    OBVIOUS
  <2>1. B + k \in 1..B + N
    BY <1>1
  <2> QED
    BY <1>5, <1>8, <2>1, Zenon
<1> HIDE DEF ink
<1>13. ASSUME NEW k \in 1..M, e[k] # " " PROVE k \in B + 1..B + N
  <2>1. k \notin 1..B
    <3> SUFFICES ASSUME k \in 1..B PROVE FALSE
      OBVIOUS
    <3>1. k \in 1..B + N
      BY <1>1
    <3> QED
      BY <1>4, <1>8, <1>10, <1>13, <3>1
  <2>2. k - (B + N) \notin 1..C
    <3> SUFFICES ASSUME k - (B + N) \in 1..C PROVE FALSE
      OBVIOUS
    <3>1. (B + N) + (k - (B + N)) = k
      BY <1>1
    <3> QED
      BY <1>9, <1>10, <1>13, <3>1
  <2> QED
    BY <1>1, <2>1, <2>2
<1>14. \A k \in ink : k \in B + 1..B + N
  BY <1>11, <1>13, Zenon
<1>15. CASE s = <<>>
  <2>1. N = 0
    BY <1>15 DEF N
  <2>2. ink = {}
    BY <1>1, <1>14, <2>1
  <2>3. Trimmed(e) = <<>>
    BY <2>2, Zenon DEF Trimmed, ink
  <2> QED
    BY <1>15, <2>3, Zenon DEF e, bs
<1>16. CASE s # <<>>
  <2>1. N \in 1..N /\ 1 \in 1..N
    BY <1>1, <1>16, EmptySeq DEF N
  <2>2. s[1] # " " /\ s[N] # " "
    BY <1>16 DEF N, InkAtEnds
  <2>3. B + 1 \in ink /\ B + N \in ink
    <3>1. B + 1 \in 1..M /\ B + N \in 1..M
      BY <1>1, <2>1
    <3>2. e[B + 1] # " " /\ e[B + N] # " "
      BY <1>12, <2>1, <2>2
    <3> QED
      BY <1>11, <3>1, <3>2
  <2>4. ink \subseteq Nat /\ ink # {}
    <3>1. \A k \in ink : k \in Nat
      BY <1>1, <1>14
    <3> QED
      BY <2>3, <3>1
  <2>5. Trimmed(e) = SubSeq(e, FirstOf(ink), Greatest(ink))
    BY <2>4, Zenon DEF Trimmed, ink
  <2>6. FirstOf(ink) = B + 1
    <3>1. FirstOf(ink) \in ink /\ FirstOf(ink) <= B + 1
      BY <2>3, <2>4, FirstOfIsElement
    <3> QED
      BY <1>1, <1>14, <3>1
  <2>7. Greatest(ink) = B + N
    <3>1. \A n \in ink : n <= B + N
      BY <1>1, <1>14
    <3>2. \A g \in ink : (\A n \in ink : n <= g) => g = B + N
      BY <1>1, <1>14, <2>3
    <3> QED
      BY <2>3, <3>1, <3>2, Zenon DEF Greatest
  <2>8. SubSeq(e, B + 1, B + Len(s)) = s
    <3>1. B + Len(s) <= Len(e) /\ \A k \in 1..Len(s) : e[B + k] = s[k]
      BY <1>1, <1>7, <1>12 DEF N
    <3> QED
      BY <1>1, <1>7, <3>1, PartIs
  <2>9. Trimmed(e) = s
    BY <2>5, <2>6, <2>7, <2>8, Zenon DEF N
  <2> QED
    BY <2>9, Zenon DEF e, bs
<1> QED
  BY <1>15, <1>16, Zenon

\* The first place of a symbol from m on.
LEMMA FirstPlace ==
  ASSUME NEW s \in Seq(TemplateSymbol), NEW c, NEW m \in Nat, NEW f \in 1..Len(s), m <= f,
         s[f] = c, \A k \in 1..Len(s) : m <= k /\ k < f => s[k] # c
  PROVE  FirstOf(Places(c, s, m)) = f /\ f \in Places(c, s, m)
<1> DEFINE P == Places(c, s, m)
<1>1. DOMAIN s = 1..Len(s) /\ Len(s) \in Nat
  BY LenProperties
<1>2. \A k : k \in P <=> k \in 1..Len(s) /\ k >= m /\ s[k] = c
  BY <1>1, Zenon DEF Places
<1> HIDE DEF P
<1>0. f \in P
  BY <1>1, <1>2
<1>3. ASSUME NEW k \in P PROVE k \in Nat /\ f <= k
  <2>1. k \in 1..Len(s) /\ m <= k /\ s[k] = c
    BY <1>2
  <2>2. ~(k < f)
    BY <2>1
  <2> QED
    BY <1>1, <2>1, <2>2
<1>4. P \subseteq Nat /\ P # {}
  BY <1>0, <1>3
<1>5. FirstOf(P) \in P /\ FirstOf(P) <= f
  BY <1>0, <1>4, FirstOfIsElement
<1>6. FirstOf(P) = f
  BY <1>1, <1>3, <1>5
<1> QED
  BY <1>0, <1>6 DEF P

\* A name that is no symbol of an expression.
PlainlyNamed(r) == r.name \notin {"$", "{", "}", ":", "=", "!", " ", "env.", ""}

Marks == {"$", "{", "}", ":", "=", "!", " "}

\* A plain name has none of the marks of an expression.
LEMMA WrittenRefSymbols ==
  ASSUME NEW r \in Ref, PlainlyNamed(r)
  PROVE  /\ WrittenRef(r) \in Seq(TemplateSymbol) /\ Len(WrittenRef(r)) \in 1..2
         /\ \A c \in Marks : NoneOf(WrittenRef(r), c)
         /\ InkAtEnds(WrittenRef(r))
         /\ Len(WrittenRef(r)) = 1 => WrittenRef(r)[1] # "env."
<1> DEFINE w == WrittenRef(r)
           a == r.name
<1>0. w \in Seq(TemplateSymbol)
  BY WrittenRefType
<1>1. a \notin Marks /\ a # "env." /\ "env." \notin Marks
  BY DEF PlainlyNamed, Marks
<1>2. w = IF r.env THEN <<"env.", a>> ELSE <<a>>
  BY DEF WrittenRef
<1> HIDE DEF a
<1>3. /\ \/ Len(w) = 2 /\ w[1] = "env." /\ w[2] = a
         \/ Len(w) = 1 /\ w[1] = a
  BY <1>2
<1> HIDE DEF w
<1>4. ASSUME NEW k \in 1..Len(w) PROVE w[k] \in {"env.", a}
  <2>1. k = 1 \/ (k = 2 /\ Len(w) = 2)
    <3>1. Len(w) = 1 \/ Len(w) = 2
      BY <1>3, Zenon
    <3>2. (k \in 1..1 => k = 1) /\ (k \in 1..2 => k = 1 \/ k = 2)
      OBVIOUS
    <3> QED
      BY <3>1, <3>2, Zenon
  <2>2. Len(w) = 2 => Len(w) # 1
    OBVIOUS
  <2> QED
    BY <1>3, <2>1, <2>2, Zenon
<1>5. \A c \in Marks : NoneOf(w, c)
  BY <1>1, <1>4 DEF NoneOf
<1>6. " " \in Marks /\ 1 \in 1..Len(w) /\ Len(w) \in 1..Len(w)
  BY <1>3 DEF Marks
<1>7. InkAtEnds(w)
  <2>1. \A k \in 1..Len(w) : w[k] # " "
    BY <1>5, <1>6 DEF NoneOf
  <2>2. w[1] # " " /\ w[Len(w)] # " "
    BY <1>6, <2>1
  <2> QED
    BY <2>2, Zenon DEF InkAtEnds
<1>8. Len(w) \in 1..2 /\ (Len(w) = 1 => w[1] # "env.")
  BY <1>1, <1>3
<1> QED
  BY <1>0, <1>5, <1>7, <1>8 DEF w

\* A text has no symbols but its zeros and its word.
LEMMA CharsSymbols ==
  ASSUME NEW t \in Text, NEW c, c # "0", c # t.rest
  PROVE  NoneOf(Chars(t), c)
<1>1. StrLen(t) \in Nat
  BY StrLenType
<1>2. Len(Chars(t)) = StrLen(t) /\ \A k \in 1..StrLen(t) : Chars(t)[k] = IF k <= t.zeros THEN "0" ELSE t.rest
  BY <1>1 DEF Chars
<1> QED
  BY <1>2 DEF NoneOf

\* A text without blanks has none at its ends.
LEMMA NoBlankAtEnds ==
  ASSUME NEW s \in Seq(TemplateSymbol), NEW c, c = " ", NoneOf(s, c)
  PROVE  InkAtEnds(s)
<1>1. \A k \in 1..Len(s) : s[k] # c
  BY Zenon DEF NoneOf
<1>2. s # <<>> => (1 \in 1..Len(s) /\ Len(s) \in 1..Len(s))
  BY EndsOfString, Zenon
<1>3. s # <<>> => (s[1] # c /\ s[Len(s)] # c)
  BY <1>1, <1>2, Zenon
<1> QED
  BY <1>3, Zenon DEF InkAtEnds

\* A text with blanks around it.
Padded(b, s) == (b \o s) \o b

\* What trim() takes from a text is the blanks around it.
LEMMA PaddedType ==
  ASSUME NEW b, OnlyBlanks(b), NEW s \in Seq(TemplateSymbol)
  PROVE  /\ Padded(b, s) \in Seq(TemplateSymbol)
         /\ Len(Padded(b, s)) = Len(b) + Len(s) + Len(b)
         /\ \A c : c # " " => (NoneOf(Padded(b, s), c) <=> NoneOf(s, c))
         /\ InkAtEnds(s) => Trimmed(Padded(b, s)) = s
<1>1. b \in Seq(TemplateSymbol) /\ \A c : c # " " => NoneOf(b, c)
  BY BlanksType DEF NoneOf
<1>2. b \o s \in Seq(TemplateSymbol) /\ Len(b \o s) = Len(b) + Len(s)
  BY <1>1, NoneOfConcat
<1>3. /\ (b \o s) \o b \in Seq(TemplateSymbol)
      /\ Len((b \o s) \o b) = Len(b \o s) + Len(b)
  BY <1>1, <1>2, NoneOfConcat
<1>4. ASSUME NEW c, c # " " PROVE NoneOf((b \o s) \o b, c) <=> NoneOf(s, c)
  <2>1. NoneOf(b \o s, c) <=> NoneOf(b, c) /\ NoneOf(s, c)
    BY <1>1, NoneOfConcat
  <2>2. NoneOf((b \o s) \o b, c) <=> NoneOf(b \o s, c) /\ NoneOf(b, c)
    BY <1>1, <1>2, NoneOfConcat
  <2> QED
    BY <1>1, <1>4, <2>1, <2>2
<1>5. InkAtEnds(s) => Trimmed((b \o s) \o b) = s
  BY TrimsBlanks
<1> QED
  BY <1>2, <1>3, <1>4, <1>5 DEF Padded

\* An expression with a sign between two names and a colon behind them.
Signed(x, s, y, z) == ((x \o s) \o y) \o (<<":">> \o z)

\* What is written on the two sides of a sign.
OnLeft(x) == NoneOf(x, "=") /\ NoneOf(x, "!")

OnRight(y) == NoneOf(y, ":") /\ NoneOf(y, "=")

\* What is in front of a sign has no sign, in symbols.
LEMMA OnLeftSymbols ==
  ASSUME NEW x, OnLeft(x), NEW k \in 1..Len(x)
  PROVE  x[k] # "=" /\ x[k] # "!"
BY Zenon DEF OnLeft, NoneOf

\* What is behind a sign has none and no colon, in symbols.
LEMMA OnRightSymbols ==
  ASSUME NEW y, OnRight(y), NEW k \in 1..Len(y)
  PROVE  y[k] # ":" /\ y[k] # "="
BY Zenon DEF OnRight, NoneOf

\* Strings of one symbol and of two.
LEMMA OneSymbol ==
  ASSUME NEW c \in TemplateSymbol
  PROVE  <<c>> \in Seq(TemplateSymbol) /\ Len(<<c>>) = 1 /\ <<c>>[1] = c
OBVIOUS

LEMMA TwoSymbols ==
  ASSUME NEW c \in TemplateSymbol, NEW d \in TemplateSymbol
  PROVE  <<c, d>> \in Seq(TemplateSymbol) /\ Len(<<c, d>>) = 2 /\ <<c, d>>[1] = c /\ <<c, d>>[2] = d
OBVIOUS

\* The marks are symbols of a template.
LEMMA MarksAreSymbols == Marks \subseteq TemplateSymbol /\ "env." \in TemplateSymbol
BY DEF Marks, TemplateSymbol

\* Where a text stands, its symbols are.
LEMMA StandsSymbols ==
  ASSUME NEW p, NEW e, NEW o, StandsAt(p, e, o), NEW k \in 1..Len(p)
  PROVE  e[o + k] = p[k]
BY Zenon DEF StandsAt

\* The symbols of a text that stands at the start.
LEMMA StandsAtStart ==
  ASSUME NEW p, NEW e, StandsAt(p, e, 0), Len(p) \in Nat
  PROVE  \A k \in 1..Len(p) : e[k] = p[k]
<1>1. \A k \in 1..Len(p) : e[0 + k] = p[k]
  BY Zenon DEF StandsAt
<1>2. \A k \in 1..Len(p) : 0 + k = k
  OBVIOUS
<1> QED
  BY <1>1, <1>2, Zenon

\* The text e is put together so, with the sign up to m.
PutTogether(e, x, s, y, z, m) ==
  /\ e \in Seq(TemplateSymbol) /\ Len(e) = m + Len(y) + 1 + Len(z)
  /\ StandsAt(x, e, 0) /\ StandsAt(s, e, Len(x)) /\ StandsAt(x \o s, e, 0)
  /\ StandsAt(y, e, m) /\ StandsAt(<<":">>, e, m + Len(y))
  /\ StandsAt(z, e, m + Len(y) + 1)

\* The four parts of a conditional stand one behind the other.
LEMMA SignedParts ==
  ASSUME NEW x \in Seq(TemplateSymbol), NEW s \in Seq(TemplateSymbol),
         NEW y \in Seq(TemplateSymbol), NEW z \in Seq(TemplateSymbol),
         NEW m, m = Len(x) + Len(s)
  PROVE  PutTogether(Signed(x, s, y, z), x, s, y, z, m)
<1> DEFINE colonText == <<":">>
           t == colonText \o z
<1>1. colonText \in Seq(TemplateSymbol) /\ Len(colonText) = 1
  <2>1. ":" \in Marks
    BY DEF Marks
  <2> QED
    BY <2>1, MarksAreSymbols, OneSymbol
<1> HIDE DEF colonText
<1>2. t \in Seq(TemplateSymbol) /\ Len(t) = 1 + Len(z)
  BY <1>1, NoneOfConcat
<1>3. StandsAt(colonText, t, 0) /\ StandsAt(z, t, 1)
  <2>1. StandsAt(colonText, t, 0) /\ StandsAt(z, t, Len(colonText))
    BY <1>1, StandsInConcat
  <2> QED
    BY <1>1, <2>1
<1> HIDE DEF t
<1> DEFINE e == ((x \o s) \o y) \o t
<1>4. /\ e \in Seq(TemplateSymbol)
      /\ Len(e) = Len(x) + Len(s) + Len(y) + Len(t)
      /\ StandsAt(x, e, 0) /\ StandsAt(s, e, Len(x)) /\ StandsAt(x \o s, e, 0)
      /\ StandsAt(y, e, Len(x) + Len(s))
      /\ StandsAt(t, e, Len(x) + Len(s) + Len(y))
  BY <1>2, FourTexts, Zenon
<1> HIDE DEF e
<1>5. Len(x) \in Nat /\ Len(s) \in Nat /\ Len(y) \in Nat /\ Len(z) \in Nat
  BY LenProperties
<1>6. m \in Nat /\ m + Len(y) \in Nat /\ (m + Len(y)) + 0 = m + Len(y)
  BY <1>5
<1>7. StandsAt(colonText, e, m + Len(y)) /\ StandsAt(z, e, m + Len(y) + 1)
  BY <1>1, <1>2, <1>3, <1>4, <1>6, StandsWithin
<1>8. Len(e) = m + Len(y) + 1 + Len(z)
  BY <1>2, <1>4, <1>5
<1> QED
  BY <1>4, <1>7, <1>8 DEF e, t, colonText, Signed, PutTogether

\* Which symbols are where.
SymbolsAt(e, x, s, m) ==
  /\ \A k \in 1..Len(x) : e[k] # "=" /\ e[k] # "!"
  /\ \A k \in 1..Len(s) : e[Len(x) + k] = s[k]
  /\ e[m + 1] # "="

\* The symbols of a conditional up to its sign.
LEMMA SignedSymbols ==
  ASSUME NEW x \in Seq(TemplateSymbol), NEW s \in Seq(TemplateSymbol),
         NEW y \in Seq(TemplateSymbol), NEW z \in Seq(TemplateSymbol),
         NEW e, NEW m \in Nat, PutTogether(e, x, s, y, z, m), OnLeft(x), OnRight(y)
  PROVE  SymbolsAt(e, x, s, m)
<1>1. Len(x) \in Nat /\ Len(y) \in Nat
  BY LenProperties
<1>2. StandsAt(x, e, 0) /\ StandsAt(s, e, Len(x))
  BY Zenon DEF PutTogether
<1>c. \A k \in 1..Len(y) : e[m + k] = y[k]
  BY Zenon DEF PutTogether, StandsAt
<1>d. \A k \in 1..Len(<<":">>) : e[m + Len(y) + k] = <<":">>[k]
  BY Zenon DEF PutTogether, StandsAt
<1>3. \A k \in 1..Len(x) : e[k] # "=" /\ e[k] # "!"
  <2>1. \A k \in 1..Len(x) : e[k] = x[k]
    BY <1>1, <1>2, StandsAtStart
  <2>2. \A k \in 1..Len(x) : x[k] # "=" /\ x[k] # "!"
    BY Zenon DEF OnLeft, NoneOf
  <2> QED
    BY <2>1, <2>2, Zenon
<1>4. \A k \in 1..Len(s) : e[Len(x) + k] = s[k]
  BY <1>2, Zenon DEF StandsAt
<1>5. CASE Len(y) = 0
  <2>1. 1 \in 1..Len(<<":">>) /\ <<":">>[1] # "="
    OBVIOUS
  <2>2. e[m + Len(y) + 1] = <<":">>[1]
    BY <1>d, <2>1, Zenon
  <2>3. m + 0 + 1 = m + 1
    OBVIOUS
  <2>4. e[m + Len(y) + 1] = e[m + 1]
    BY <1>5, <2>3, Zenon
  <2>5. e[m + 1] # "="
    BY <2>1, <2>2, <2>4, Zenon
  <2> QED
    BY <1>3, <1>4, <2>5, Zenon DEF SymbolsAt
<1>6. CASE Len(y) # 0
  <2>1. 1 \in 1..Len(y)
    <3>1. \A n \in Nat : n # 0 => 1 \in 1..n
      OBVIOUS
    <3> QED
      BY <1>1, <1>6, <3>1, Zenon
  <2>2. y[1] # "="
    BY <2>1, Zenon DEF OnRight, NoneOf
  <2>3. e[m + 1] # "="
    BY <1>c, <2>1, <2>2, Zenon
  <2> QED
    BY <1>3, <1>4, <2>3, Zenon DEF SymbolsAt
<1> QED
  BY <1>5, <1>6, Zenon

\* The first equal sign is at f, and there is another one up to m or not.
SignAt(e, x, f, m) ==
  /\ m \in Nat /\ f \in Nat
  /\ f = m \/ (f + 1 = m)
  /\ Len(x) < f
  /\ e[f] = "="
  /\ \A k \in 1..f - 1 : e[k] # "="
  /\ f < m <=> e[f + 1] = "="

CutSo(e, negative, left, y, z) ==
  /\ HasColonBehind(e)
  /\ Conditional(e).negative = negative
  /\ Conditional(e).var1 = Trimmed(left)
  /\ Conditional(e).var2 = Trimmed(y)
  /\ Conditional(e).replace = Trimmed(z)

\* With the equal sign and the colon found, a conditional is cut into its parts.
LEMMA CutAtSign ==
  ASSUME NEW x \in Seq(TemplateSymbol), NEW s \in Seq(TemplateSymbol),
         NEW y \in Seq(TemplateSymbol), NEW z \in Seq(TemplateSymbol),
         NEW e, NEW m, NEW f, PutTogether(e, x, s, y, z, m),
         OnRight(y), SignAt(e, x, f, m)
  PROVE  LET negative == f > 1 /\ e[f - 1] = "!"
         IN  CutSo(e, negative, SubSeq(e, 1, IF negative THEN m - 2 ELSE m - 1), y, z)
<1> \A k \in 1..Len(y) : y[k] # ":"
  BY Zenon DEF OnRight, NoneOf
<1> /\ e \in Seq(TemplateSymbol) /\ Len(e) = m + Len(y) + 1 + Len(z)
    /\ StandsAt(x, e, 0)
    /\ StandsAt(y, e, m) /\ StandsAt(<<":">>, e, m + Len(y))
    /\ StandsAt(z, e, m + Len(y) + 1)
  BY Zenon DEF PutTogether
<1> /\ m \in Nat /\ f \in Nat
    /\ f = m \/ (f + 1 = m)
    /\ Len(x) < f
    /\ e[f] = "="
    /\ \A k \in 1..f - 1 : e[k] # "="
    /\ f < m <=> e[f + 1] = "="
  BY Zenon DEF SignAt
<1> DEFINE L == Len(e)
           Y == Len(y)
           Z == Len(z)
           stop == m + Y + 1
           negative == f > 1 /\ e[f - 1] = "!"
           c == Conditional(e)
<1>1. L \in Nat /\ Y \in Nat /\ Z \in Nat /\ Len(x) \in Nat
  BY LenProperties
<1>2. L = stop + Z /\ f \in 1..L /\ stop \in 1..L /\ f < L /\ m < stop /\ f < stop /\ 1 <= f
  BY <1>1
<1>3. e[stop] = ":"
  <2>1. \A k \in 1..1 : e[(m + Y) + k] = <<":">>[k]
    BY DEF StandsAt
  <2>2. <<":">>[1] = ":"
    OBVIOUS
  <2> QED
    BY <1>1, <2>1, <2>2
<1>4. \A k \in 1..Y : e[m + k] # ":"
  BY DEF StandsAt
<1> HIDE DEF L, Y, Z, stop
<1>5. FirstOf(Places("=", e, 1)) = f /\ f \in Places("=", e, 1)
  <2>1. \A k \in 1..L : 1 <= k /\ k < f => e[k] # "="
    BY <1>1
  <2> QED
    BY <1>2, <2>1, FirstPlace DEF L
<1>6. (IF f < L /\ e[f + 1] = "=" THEN f + 1 ELSE f) = m
  BY <1>1, <1>2
<1>7. FirstOf(Places(":", e, m + 1)) = stop /\ stop \in Places(":", e, m + 1)
  <2>1. \A k \in 1..L : m + 1 <= k /\ k < stop => e[k] # ":"
    <3> SUFFICES ASSUME NEW k \in 1..L, m + 1 <= k, k < stop PROVE e[k] # ":"
      OBVIOUS
    <3>1. k - m \in 1..Y /\ m + (k - m) = k
      BY <1>1 DEF stop
    <3> QED
      BY <1>4, <3>1
  <2>2. m + 1 \in Nat /\ m + 1 <= stop
    BY <1>1 DEF stop
  <2> QED
    BY <1>2, <1>3, <2>1, <2>2, FirstPlace DEF L
<1>8. HasColonBehind(e)
  <2>1. stop \in Places(":", e, f + 1)
    <3>1. stop \in DOMAIN e /\ e[stop] = ":"
      BY <1>7 DEF Places
    <3>2. stop >= f + 1
      BY <1>1, <1>2
    <3> QED
      BY <3>1, <3>2 DEF Places
  <2> QED
    BY <1>5, <2>1 DEF HasColonBehind
<1>9. SubSeq(e, m + 1, stop - 1) = y
  <2>1. SubSeq(e, m + 1, m + Len(y)) = y
    BY StandingPart
  <2>2. stop - 1 = m + Len(y)
    BY <1>1 DEF stop, Y
  <2> QED
    BY <2>1, <2>2
<1>10. SubSeq(e, stop + 1, Len(e)) = z
  <2>1. StandsAt(z, e, stop) /\ stop \in Nat
    BY <1>1 DEF stop, Y
  <2>2. SubSeq(e, stop + 1, stop + Len(z)) = z
    BY <2>1, StandingPart
  <2>3. Len(e) = stop + Len(z)
    BY <1>2 DEF L, Z
  <2> QED
    BY <2>2, <2>3
<1>11. c = [negative |-> negative,
            var1 |-> Trimmed(SubSeq(e, 1, IF negative THEN m - 2 ELSE m - 1)),
            var2 |-> Trimmed(SubSeq(e, m + 1, stop - 1)),
            replace |-> Trimmed(SubSeq(e, stop + 1, Len(e)))]
  BY <1>5, <1>6, <1>7, Zenon DEF Conditional, L
<1> HIDE DEF c, negative
<1>12. /\ c.negative = negative /\ c.var2 = Trimmed(y) /\ c.replace = Trimmed(z)
       /\ c.var1 = Trimmed(SubSeq(e, 1, IF negative THEN m - 2 ELSE m - 1))
  BY <1>9, <1>10, <1>11
<1> QED
  BY <1>8, <1>12, Zenon DEF c, negative, CutSo

\* The three signs.
LEMMA EqualParts ==
  ASSUME NEW x \in Seq(TemplateSymbol), NEW y \in Seq(TemplateSymbol),
         NEW z \in Seq(TemplateSymbol), OnLeft(x), OnRight(y)
  PROVE  CutSo(Signed(x, <<"=">>, y, z), FALSE, x, y, z)
<1> DEFINE s == <<"=">>
           e == Signed(x, s, y, z)
           n == Len(x)
           m == n + 1
<1>1. s \in Seq(TemplateSymbol) /\ Len(s) = 1 /\ s[1] = "="
  <2>1. "=" \in Marks
    BY DEF Marks
  <2> QED
    BY <2>1, MarksAreSymbols, OneSymbol
<1> HIDE DEF s
<1>2. n \in Nat
  BY LenProperties
<1>3. PutTogether(e, x, s, y, z, m)
  <2>1. m = Len(x) + Len(s)
    BY <1>1, Zenon
  <2> HIDE DEF m, n
  <2> QED
    BY <1>1, <2>1, SignedParts, Zenon
<1> HIDE DEF e
<1>m. m \in Nat /\ n < m /\ ~(m < m) /\ m - 1 = n /\ (m > 1 => n \in 1..n) /\ 1 \in 1..1
  BY <1>2
<1>4. /\ \A k \in 1..n : e[k] # "=" /\ e[k] # "!"
      /\ \A k \in 1..Len(s) : e[n + k] = s[k]
      /\ e[m + 1] # "="
  <2>1. SymbolsAt(e, x, s, m)
    <3> HIDE DEF m, n
    <3> QED
      BY <1>1, <1>3, <1>m, SignedSymbols
  <2> QED
    BY <2>1, Zenon DEF SymbolsAt
<1>5. e[m] = "="
  BY <1>1, <1>4, <1>m, Zenon
<1> HIDE DEF m
<1>6. ~(m > 1 /\ e[m - 1] = "!")
  BY <1>4, <1>m, Zenon
<1>7. \A k \in 1..m - 1 : e[k] # "="
  BY <1>4, <1>m, Zenon
<1>8. CutSo(e, FALSE, SubSeq(e, 1, m - 1), y, z)
  <2>1. SignAt(e, x, m, m)
    BY <1>4, <1>5, <1>7, <1>m, Zenon DEF SignAt
  <2>2. LET negative == m > 1 /\ e[m - 1] = "!"
        IN  CutSo(e, negative, SubSeq(e, 1, IF negative THEN m - 2 ELSE m - 1), y, z)
    <3> HIDE DEF n
    <3> QED
      BY <1>1, <1>3, <2>1, CutAtSign
  <2> QED
    BY <1>6, <2>2, Zenon
<1>10. SubSeq(e, 1, m - 1) = x
  <2>0. e \in Seq(TemplateSymbol) /\ StandsAt(x, e, 0)
    BY <1>3, Zenon DEF PutTogether
  <2>1. SubSeq(e, 0 + 1, 0 + n) = x
    BY <2>0, StandingPart
  <2>2. 0 + 1 = 1 /\ 0 + n = n
    BY <1>2
  <2> QED
    BY <1>m, <2>1, <2>2, Zenon
<1> QED
  BY <1>8, <1>10, Zenon DEF e, s

\* A conditional with "!=" is cut in front of both of its signs.
LEMMA UnequalParts ==
  ASSUME NEW x \in Seq(TemplateSymbol), NEW y \in Seq(TemplateSymbol),
         NEW z \in Seq(TemplateSymbol), OnLeft(x), OnRight(y)
  PROVE  CutSo(Signed(x, <<"!", "=">>, y, z), TRUE, x, y, z)
<1> DEFINE s == <<"!", "=">>
           e == Signed(x, s, y, z)
           n == Len(x)
           m == n + 2
<1>1. s \in Seq(TemplateSymbol) /\ Len(s) = 2 /\ s[1] = "!" /\ s[2] = "="
  <2>1. "=" \in Marks /\ "!" \in Marks
    BY DEF Marks
  <2> QED
    BY <2>1, MarksAreSymbols, TwoSymbols
<1> HIDE DEF s
<1>2. n \in Nat
  BY LenProperties
<1>3. PutTogether(e, x, s, y, z, m)
  <2>1. m = Len(x) + Len(s)
    BY <1>1, Zenon
  <2> HIDE DEF m, n
  <2> QED
    BY <1>1, <2>1, SignedParts, Zenon
<1> HIDE DEF e
<1>m. /\ m \in Nat /\ n < m /\ ~(m < m) /\ m - 2 = n /\ m > 1 /\ m - 1 = n + 1
      /\ 1 \in 1..2 /\ 2 \in 1..2 /\ \A k \in 1..m - 1 : k \in 1..n \/ k = n + 1
  BY <1>2
<1>4. /\ \A k \in 1..n : e[k] # "=" /\ e[k] # "!"
      /\ \A k \in 1..Len(s) : e[n + k] = s[k]
      /\ e[m + 1] # "="
  <2>1. SymbolsAt(e, x, s, m)
    <3> HIDE DEF m, n
    <3> QED
      BY <1>1, <1>3, <1>m, SignedSymbols
  <2> QED
    BY <2>1, Zenon DEF SymbolsAt
<1>5. e[m] = "=" /\ e[n + 1] = "!"
  BY <1>1, <1>4, <1>m, Zenon
<1> HIDE DEF m
<1>6. m > 1 /\ e[m - 1] = "!"
  BY <1>5, <1>m, Zenon
<1>7. \A k \in 1..m - 1 : e[k] # "="
  <2>1. "!" # "="
    OBVIOUS
  <2> QED
    BY <1>4, <1>5, <1>m, <2>1, Zenon
<1>8. CutSo(e, TRUE, SubSeq(e, 1, m - 2), y, z)
  <2>1. SignAt(e, x, m, m)
    BY <1>4, <1>5, <1>7, <1>m, Zenon DEF SignAt
  <2>2. LET negative == m > 1 /\ e[m - 1] = "!"
        IN  CutSo(e, negative, SubSeq(e, 1, IF negative THEN m - 2 ELSE m - 1), y, z)
    <3> HIDE DEF n
    <3> QED
      BY <1>1, <1>3, <2>1, CutAtSign
  <2> QED
    BY <1>6, <2>2, Zenon
<1>10. SubSeq(e, 1, m - 2) = x
  <2>0. e \in Seq(TemplateSymbol) /\ StandsAt(x, e, 0)
    BY <1>3, Zenon DEF PutTogether
  <2>1. SubSeq(e, 0 + 1, 0 + n) = x
    BY <2>0, StandingPart
  <2>2. 0 + 1 = 1 /\ 0 + n = n
    BY <1>2
  <2> QED
    BY <1>m, <2>1, <2>2, Zenon
<1> QED
  BY <1>8, <1>10, Zenon DEF e, s

\* The second equal sign stays at the end of the first name.
LEMMA TwiceEqualParts ==
  ASSUME NEW x \in Seq(TemplateSymbol), NEW y \in Seq(TemplateSymbol),
         NEW z \in Seq(TemplateSymbol), OnLeft(x), OnRight(y)
  PROVE  CutSo(Signed(x, <<"=", "=">>, y, z), FALSE, x \o <<"=">>, y, z)
<1> DEFINE s == <<"=", "=">>
           e == Signed(x, s, y, z)
           n == Len(x)
           f == n + 1
           m == n + 2
           one == <<"=">>
<1>1. s \in Seq(TemplateSymbol) /\ Len(s) = 2 /\ s[1] = "=" /\ s[2] = "="
  <2>1. "=" \in Marks
    BY DEF Marks
  <2> QED
    BY <2>1, MarksAreSymbols, TwoSymbols
<1>o. one \in Seq(TemplateSymbol) /\ Len(one) = 1 /\ one[1] = "="
  <2>1. "=" \in Marks
    BY DEF Marks
  <2> QED
    BY <2>1, MarksAreSymbols, OneSymbol
<1> HIDE DEF s, one
<1>2. n \in Nat
  BY LenProperties
<1>3. PutTogether(e, x, s, y, z, m)
  <2>1. m = Len(x) + Len(s)
    BY <1>1, Zenon
  <2> HIDE DEF m, n
  <2> QED
    BY <1>1, <2>1, SignedParts, Zenon
<1> HIDE DEF e
<1>m. /\ m \in Nat /\ f \in Nat /\ n < f /\ f < m /\ f + 1 = m /\ f - 1 = n /\ (f > 1 => n \in 1..n)
      /\ m - 1 = n + 1 /\ 1 \in 1..2 /\ 2 \in 1..2 /\ \A k \in 1..n + 1 : k \in 1..n \/ k = n + 1
  BY <1>2
<1>4. /\ \A k \in 1..n : e[k] # "=" /\ e[k] # "!"
      /\ \A k \in 1..Len(s) : e[n + k] = s[k]
  <2>1. SymbolsAt(e, x, s, m)
    <3> HIDE DEF m, n
    <3> QED
      BY <1>1, <1>3, <1>m, SignedSymbols
  <2> QED
    BY <2>1, Zenon DEF SymbolsAt
<1>5. e[f] = "=" /\ e[m] = "="
  BY <1>1, <1>4, <1>m, Zenon
<1>9. StandsAt(x, e, 0) /\ StandsAt(s, e, n) /\ e \in Seq(TemplateSymbol)
  BY <1>3, Zenon DEF PutTogether
<1>10. SubSeq(e, 1, m - 1) = x \o one
  <2> DEFINE p == x \o one
  <2>1. p \in Seq(TemplateSymbol) /\ Len(p) = n + 1
    BY <1>o, NoneOfConcat
  <2>2. \A k \in 1..n : p[k] = x[k]
    BY <1>o, FollowedBy, SMT
  <2>3. \A k \in 1..1 : p[n + k] = one[k]
    <3>1. StandsAt(one, p, Len(x))
      BY <1>o, StandsInConcat
    <3> QED
      BY <1>o, <3>1, Zenon DEF StandsAt
  <2> HIDE DEF p
  <2>4. \A k \in 1..n + 1 : e[k] = p[k]
    <3>1. p[n + 1] = e[n + 1]
      <4>1. 1 \in 1..1
        OBVIOUS
      <4> QED
        BY <1>o, <1>5, <2>3, <4>1, Zenon
    <3>2. \A k \in 1..n : e[k] = x[k]
      BY <1>2, <1>9, StandsAtStart, Zenon
    <3> QED
      BY <1>m, <2>2, <3>1, <3>2, Zenon
  <2>5. StandsAt(p, e, 0)
    <3>1. n + 2 <= Len(e)
      <4>1. n + Len(s) <= Len(e)
        BY <1>9, Zenon DEF StandsAt
      <4> QED
        BY <1>1, <4>1, Zenon
    <3>2. Len(e) \in Nat
      BY <1>9, LenProperties
    <3> HIDE DEF n
    <3>3. 0 + (n + 1) <= Len(e) /\ \A k \in 1..n + 1 : 0 + k = k
      BY <1>2, <3>1, <3>2
    <3>4. \A k \in 1..n + 1 : e[0 + k] = p[k]
      BY <2>4, <3>3, Zenon
    <3> QED
      BY <2>1, <3>3, <3>4, Zenon DEF StandsAt
  <2>6. SubSeq(e, 0 + 1, 0 + Len(p)) = p
    BY <1>9, <2>1, <2>5, StandingPart
  <2>7. 0 + 1 = 1 /\ 0 + (n + 1) = m - 1
    BY <1>2
  <2> QED
    BY <2>1, <2>6, <2>7, Zenon DEF p
<1> HIDE DEF m, f
<1>6. ~(f > 1 /\ e[f - 1] = "!")
  BY <1>4, <1>m, Zenon
<1>7. \A k \in 1..f - 1 : e[k] # "="
  BY <1>4, <1>m, Zenon
<1>8. CutSo(e, FALSE, SubSeq(e, 1, m - 1), y, z)
  <2>1. SignAt(e, x, f, m)
    BY <1>4, <1>5, <1>7, <1>m, Zenon DEF SignAt
  <2>2. LET negative == f > 1 /\ e[f - 1] = "!"
        IN  CutSo(e, negative, SubSeq(e, 1, IF negative THEN m - 2 ELSE m - 1), y, z)
    <3> HIDE DEF n
    <3> QED
      BY <1>1, <1>3, <2>1, CutAtSign
  <2> QED
    BY <1>6, <2>2, Zenon
<1> QED
  BY <1>8, <1>10, Zenon DEF e, s, one

\* The symbols that are not in a conditional.
LEMMA SignedNone ==
  ASSUME NEW x \in Seq(TemplateSymbol), NEW s \in Seq(TemplateSymbol),
         NEW y \in Seq(TemplateSymbol), NEW z \in Seq(TemplateSymbol), NEW c
  PROVE  NoneOf(Signed(x, s, y, z), c) <=>
           NoneOf(x, c) /\ NoneOf(s, c) /\ NoneOf(y, c) /\ c # ":" /\ NoneOf(z, c)
<1> DEFINE colonText == <<":">>
<1>1. colonText \in Seq(TemplateSymbol)
  <2>1. ":" \in Marks
    BY DEF Marks
  <2> QED
    BY <2>1, MarksAreSymbols, OneSymbol
<1>2. NoneOf(colonText, c) <=> c # ":"
  BY SymbolNone, Zenon
<1> HIDE DEF colonText
<1>3. /\ colonText \o z \in Seq(TemplateSymbol)
      /\ NoneOf(colonText \o z, c) <=> NoneOf(colonText, c) /\ NoneOf(z, c)
  BY <1>1, NoneOfConcat
<1>4. x \o s \in Seq(TemplateSymbol) /\ (NoneOf(x \o s, c) <=> NoneOf(x, c) /\ NoneOf(s, c))
  BY NoneOfConcat
<1>5. /\ (x \o s) \o y \in Seq(TemplateSymbol)
      /\ NoneOf((x \o s) \o y, c) <=> NoneOf(x \o s, c) /\ NoneOf(y, c)
  BY <1>4, NoneOfConcat
<1>6. NoneOf(((x \o s) \o y) \o (colonText \o z), c) <=>
        NoneOf((x \o s) \o y, c) /\ NoneOf(colonText \o z, c)
  BY <1>3, <1>5, NoneOfConcat
<1> QED
  BY <1>2, <1>3, <1>4, <1>5, <1>6, Zenon DEF Signed, colonText

-----------------------------------------------------------------------------
(* The parts of an expression *)

\* A well-written token that is no literal.
InBraces(tok) == WellWritten(tok) /\ tok.kind # "lit"

\* The parts of a well-written token.
LEMMA TokenParts ==
  ASSUME NEW tok, InBraces(tok)
  PROVE  /\ tok \in Token /\ tok.kind \in {"var", "cond", "malformed"}
         /\ tok.left \in Ref /\ tok.right \in Ref /\ tok.negate \in BOOLEAN /\ tok.lit \in Text
         /\ PlainlyNamed(tok.left)
         /\ tok.lit.rest \notin {"{", "}"}
         /\ tok.kind # "var" => PlainlyNamed(tok.right) /\ tok.lit.rest # " "
<1>1. tok \in Token /\ tok.kind # "lit"
  BY Zenon DEF InBraces, WellWritten
<1>2. tok.kind \in {"var", "cond", "malformed"}
  BY <1>1 DEF Token, TokenKind
<1>3. tok.left \in Ref /\ tok.right \in Ref /\ tok.negate \in BOOLEAN /\ tok.lit \in Text
  BY <1>1 DEF Token
<1>4. PlainlyNamed(tok.left) /\ tok.lit.rest \notin {"{", "}"}
  BY <1>1, Zenon DEF InBraces, WellWritten, PlainlyNamed
<1>5. tok.kind \in {"cond", "malformed"} => PlainlyNamed(tok.right) /\ tok.lit.rest # " "
  BY Zenon DEF InBraces, WellWritten, PlainlyNamed
<1>6. tok.kind # "var" => tok.kind \in {"cond", "malformed"}
  BY <1>2
<1> QED
  BY <1>1, <1>2, <1>3, <1>4, <1>5, <1>6, Zenon

\* The name, or the text, of an expression with blanks around it.
Side(ref, blank) == Padded(blank, WrittenRef(ref))

\* A name with blanks around it has no mark but blanks.
LEMMA SideSymbols ==
  ASSUME NEW ref \in Ref, PlainlyNamed(ref), NEW blank, OnlyBlanks(blank)
  PROVE  /\ Side(ref, blank) \in Seq(TemplateSymbol)
         /\ OnLeft(Side(ref, blank)) /\ OnRight(Side(ref, blank))
         /\ NoneOf(Side(ref, blank), "{") /\ NoneOf(Side(ref, blank), "}")
         /\ Trimmed(Side(ref, blank)) = WrittenRef(ref)
<1> DEFINE w == WrittenRef(ref)
           p == Padded(blank, w)
<1>1. w \in Seq(TemplateSymbol) /\ InkAtEnds(w)
  BY WrittenRefSymbols
<1>2. \A c \in Marks : NoneOf(w, c)
  BY WrittenRefSymbols
<1> HIDE DEF w
<1>3. p \in Seq(TemplateSymbol) /\ Trimmed(p) = w
  BY <1>1, PaddedType
<1>4. \A c : c # " " => (NoneOf(p, c) <=> NoneOf(w, c))
  BY <1>1, PaddedType
<1> HIDE DEF p
<1>5. \A c \in Marks : c # " " => NoneOf(p, c)
  BY <1>2, <1>4, Zenon
<1>6. /\ "=" \in Marks /\ "!" \in Marks /\ ":" \in Marks /\ "{" \in Marks /\ "}" \in Marks
      /\ "=" # " " /\ "!" # " " /\ ":" # " " /\ "{" # " " /\ "}" # " "
  BY DEF Marks
<1>7. OnLeft(p) /\ OnRight(p) /\ NoneOf(p, "{") /\ NoneOf(p, "}")
  BY <1>5, <1>6, Zenon DEF OnLeft, OnRight
<1> QED
  BY <1>3, <1>7, Zenon DEF Side, p, w

\* A text with blanks around it has no braces.
LEMMA TextSymbols ==
  ASSUME NEW t \in Text, t.rest \notin {"{", "}"}, t.rest # " ", NEW blank, OnlyBlanks(blank)
  PROVE  /\ Padded(blank, Chars(t)) \in Seq(TemplateSymbol)
         /\ NoneOf(Padded(blank, Chars(t)), "{") /\ NoneOf(Padded(blank, Chars(t)), "}")
         /\ Trimmed(Padded(blank, Chars(t))) = Chars(t)
<1> DEFINE w == Chars(t)
           p == Padded(blank, w)
<1>0. w \in Seq(TemplateSymbol)
  BY CharsType
<1>1. \A c : c # "0" /\ c # t.rest => NoneOf(w, c)
  BY CharsSymbols
<1> HIDE DEF w
<1>2. /\ "{" # "0" /\ "}" # "0" /\ " " # "0" /\ "{" # " " /\ "}" # " "
      /\ "{" # t.rest /\ "}" # t.rest /\ " " # t.rest
  OBVIOUS
<1>3. NoneOf(w, "{") /\ NoneOf(w, "}") /\ NoneOf(w, " ")
  BY <1>1, <1>2, Zenon
<1>4. InkAtEnds(w)
  BY <1>0, <1>3, NoBlankAtEnds
<1>5. p \in Seq(TemplateSymbol) /\ Trimmed(p) = w
  BY <1>0, <1>4, PaddedType
<1>6. \A c : c # " " => (NoneOf(p, c) <=> NoneOf(w, c))
  BY <1>0, PaddedType
<1>7. NoneOf(p, "{") /\ NoneOf(p, "}")
  BY <1>2, <1>3, <1>6, Zenon
<1> QED
  BY <1>5, <1>7, Zenon DEF p, w

\* How an expression is put together.
Sign(tok) == IF tok.negate THEN <<"!", "=">> ELSE <<"=">>

\* The expressions of the three kinds of tokens, put together from their parts.
LEMMA ExpressionParts ==
  ASSUME NEW tok, InBraces(tok), NEW blank, OnlyBlanks(blank)
  PROVE  LET x == Side(tok.left, blank)
             y == Side(tok.right, blank)
             z == Padded(blank, Chars(tok.lit))
             e == Expression(tok, blank)
         IN  /\ tok.kind = "var" => e = WrittenRef(tok.left)
             /\ tok.kind = "cond" => e = Signed(x, Sign(tok), y, z)
             /\ tok.kind = "malformed" /\ tok.negate => e = (x \o <<":", "=">>) \o y
             /\ tok.kind = "malformed" /\ ~tok.negate => e = Signed(x, <<"=", "=">>, y, z)
<1> DEFINE x == Side(tok.left, blank)
           y == Side(tok.right, blank)
           chars == Chars(tok.lit)
           z == Padded(blank, chars)
           one == <<":">>
<1>1. chars \in Seq(TemplateSymbol) /\ blank \in Seq(TemplateSymbol)
  BY TokenParts, CharsType, BlanksType
<1>2. one \in Seq(TemplateSymbol)
  <2>1. ":" \in Marks
    BY DEF Marks
  <2> QED
    BY <2>1, MarksAreSymbols, OneSymbol
<1> HIDE DEF chars, one
<1>3. ((one \o blank) \o chars) \o blank = one \o z
  <2>1. \A a, b, c \in Seq(TemplateSymbol) : (a \o b) \o c = a \o (b \o c)
    BY ConcatAssociative
  <2>2. one \o blank \in Seq(TemplateSymbol) /\ blank \o chars \in Seq(TemplateSymbol)
    BY <1>1, <1>2, NoneOfConcat
  <2>3. (one \o blank) \o chars = one \o (blank \o chars)
    BY <1>1, <1>2, <2>1, Zenon
  <2>4. (one \o (blank \o chars)) \o blank = one \o ((blank \o chars) \o blank)
    BY <1>1, <1>2, <2>1, <2>2, Zenon
  <2> QED
    BY <2>3, <2>4, Zenon DEF Padded
<1>4. x = (blank \o WrittenRef(tok.left)) \o blank /\ y = (blank \o WrittenRef(tok.right)) \o blank
  BY Zenon DEF Side, Padded
<1>5. tok.kind = "var" => Expression(tok, blank) = WrittenRef(tok.left)
  BY Zenon DEF Expression
<1>6. tok.kind = "cond" =>
        Expression(tok, blank) =
          ((x \o (IF tok.negate THEN <<"!", "=">> ELSE <<"=">>)) \o y) \o
          (((one \o blank) \o chars) \o blank)
  <2>1. "cond" # "var"
    OBVIOUS
  <2> QED
    BY <1>4, <2>1, Zenon DEF Expression, one, chars
<1>7. tok.kind = "malformed" =>
        Expression(tok, blank) =
          IF tok.negate THEN (x \o <<":", "=">>) \o y
          ELSE ((x \o <<"=", "=">>) \o y) \o (((one \o blank) \o chars) \o blank)
  <2>1. "malformed" # "var" /\ "malformed" # "cond"
    OBVIOUS
  <2> QED
    BY <1>4, <2>1, Zenon DEF Expression, one, chars
<1> QED
  BY <1>3, <1>5, <1>6, <1>7, Zenon DEF Signed, Sign, one, chars

\* A conditional is cut into the names and the text it is written with.
LEMMA ConditionalIsCut ==
  ASSUME NEW tok, InBraces(tok), tok.kind = "cond", NEW blank, OnlyBlanks(blank)
  PROVE  LET e == Expression(tok, blank)
         IN  /\ HasColonBehind(e)
             /\ Conditional(e).negative = tok.negate
             /\ Conditional(e).var1 = WrittenRef(tok.left)
             /\ Conditional(e).var2 = WrittenRef(tok.right)
             /\ Conditional(e).replace = Chars(tok.lit)
<1> DEFINE x == Side(tok.left, blank)
           y == Side(tok.right, blank)
           chars == Chars(tok.lit)
           z == Padded(blank, chars)
           e == Expression(tok, blank)
<1>0. "cond" # "var"
  OBVIOUS
<1>1. /\ tok.left \in Ref /\ tok.right \in Ref /\ tok.negate \in BOOLEAN /\ tok.lit \in Text
      /\ PlainlyNamed(tok.left) /\ PlainlyNamed(tok.right)
      /\ tok.lit.rest \notin {"{", "}"} /\ tok.lit.rest # " "
  BY <1>0, TokenParts, Zenon
<1>2. x \in Seq(TemplateSymbol) /\ OnLeft(x) /\ Trimmed(x) = WrittenRef(tok.left)
  BY <1>1, SideSymbols, Zenon
<1>3. y \in Seq(TemplateSymbol) /\ OnRight(y) /\ Trimmed(y) = WrittenRef(tok.right)
  BY <1>1, SideSymbols, Zenon
<1>4. z \in Seq(TemplateSymbol) /\ Trimmed(z) = chars
  BY <1>1, TextSymbols, Zenon
<1>5. e = Signed(x, Sign(tok), y, z)
  BY ExpressionParts, Zenon
<1> HIDE DEF x, y, z, chars, e
<1>6. CutSo(e, tok.negate, x, y, z)
  <2>1. CASE tok.negate = TRUE
    <3>1. e = Signed(x, <<"!", "=">>, y, z)
      BY <1>5, <2>1, Zenon DEF Sign
    <3>2. CutSo(Signed(x, <<"!", "=">>, y, z), TRUE, x, y, z)
      BY <1>2, <1>3, <1>4, UnequalParts, Zenon
    <3> QED
      BY <2>1, <3>1, <3>2, Zenon
  <2>2. CASE tok.negate = FALSE
    <3>1. e = Signed(x, <<"=">>, y, z)
      BY <1>5, <2>2, Zenon DEF Sign
    <3>2. CutSo(Signed(x, <<"=">>, y, z), FALSE, x, y, z)
      BY <1>2, <1>3, <1>4, EqualParts, Zenon
    <3> QED
      BY <2>2, <3>1, <3>2, Zenon
  <2> QED
    BY <1>1, <2>1, <2>2, Zenon
<1> QED
  BY <1>2, <1>3, <1>4, <1>6, Zenon DEF CutSo, e, chars

\* A conditional matches when parse_conditional() of its token says so.
LEMMA ConditionalMeaning ==
  ASSUME NEW tok, InBraces(tok), tok.kind = "cond", NEW blank, OnlyBlanks(blank)
  PROVE  Matches(Conditional(Expression(tok, blank))) <=> parse_conditional(tok, query)
<1> DEFINE c == Conditional(Expression(tok, blank))
           l == tok.left
           r == tok.right
<1>0. l \in Ref /\ r \in Ref
  BY TokenParts, Zenon
<1>1. c.negative = tok.negate /\ c.var1 = WrittenRef(l) /\ c.var2 = WrittenRef(r)
  BY ConditionalIsCut, Zenon
<1> HIDE DEF c, l, r
<1>2. /\ Resolves(c.var1) <=> Bound(l, query)
      /\ Bound(l, query) => ValueOf(c.var1) = find_var_value(l, query)
  BY <1>0, <1>1, WrittenRefResolves, Zenon
<1>3. /\ Resolves(c.var2) <=> Bound(r, query)
      /\ Bound(r, query) => ValueOf(c.var2) = find_var_value(r, query)
  BY <1>0, <1>1, WrittenRefResolves, Zenon
<1>4. Refs(c.var2) \cap Spoiled = {} <=> r \notin Spoiled
  <2>1. Refs(c.var2) = {r}
    BY <1>0, <1>1, WrittenRefType, Zenon
  <2>2. {r} \cap Spoiled = {} <=> r \notin Spoiled
    OBVIOUS
  <2> QED
    BY <2>1, <2>2, Zenon
<1>5. Matches(c) <=>
        /\ Bound(l, query) /\ Bound(r, query) /\ r \notin Spoiled
        /\ EqualNoCase(find_var_value(l, query), find_var_value(r, query)) = ~tok.negate
  BY <1>1, <1>2, <1>3, <1>4, Zenon DEF Matches
<1>6. parse_conditional(tok, query) <=>
        /\ Bound(l, query) /\ Bound(r, query) /\ r \notin Spoiled
        /\ EqualNoCase(find_var_value(l, query), find_var_value(r, query)) = ~tok.negate
  BY Zenon DEF parse_conditional, l, r
<1> QED
  BY <1>5, <1>6, Zenon DEF c

\* With the colon in front there is none behind the equal sign.
LEMMA ColonInFront ==
  ASSUME NEW x \in Seq(TemplateSymbol), NEW y \in Seq(TemplateSymbol),
         OnLeft(x), OnRight(x), OnRight(y)
  PROVE  ~HasColonBehind((x \o <<":", "=">>) \o y)
<1> DEFINE s == <<":", "=">>
           u == x \o s
           e == u \o y
           n == Len(x)
<1>1. s \in Seq(TemplateSymbol) /\ Len(s) = 2 /\ s[1] = ":" /\ s[2] = "="
  <2>1. "=" \in Marks /\ ":" \in Marks
    BY DEF Marks
  <2> QED
    BY <2>1, MarksAreSymbols, TwoSymbols
<1> HIDE DEF s
<1>2. n \in Nat /\ Len(y) \in Nat
  BY LenProperties
<1>3. u \in Seq(TemplateSymbol) /\ Len(u) = n + 2 /\ StandsAt(x, u, 0) /\ StandsAt(s, u, n)
  BY <1>1, NoneOfConcat, StandsInConcat
<1> HIDE DEF u
<1>4. /\ e \in Seq(TemplateSymbol) /\ Len(e) = (n + 2) + Len(y)
      /\ StandsAt(u, e, 0) /\ StandsAt(y, e, n + 2)
  <2>1. e \in Seq(TemplateSymbol) /\ Len(e) = Len(u) + Len(y)
    BY <1>3, NoneOfConcat
  <2>2. StandsAt(u, e, 0) /\ StandsAt(y, e, Len(u))
    BY <1>3, StandsInConcat
  <2> QED
    BY <1>3, <2>1, <2>2, Zenon
<1> HIDE DEF e
<1>5. \A k \in 1..n + 2 : e[k] = u[k]
  <2>1. Len(u) \in Nat
    BY <1>2, <1>3
  <2> QED
    BY <1>3, <1>4, <2>1, StandsAtStart, Zenon
<1>6. \A k \in 1..n : u[k] = x[k]
  BY <1>2, <1>3, StandsAtStart, Zenon
<1>7. u[n + 1] = ":" /\ u[n + 2] = "="
  <2>1. 1 \in 1..2 /\ 2 \in 1..2
    OBVIOUS
  <2> QED
    BY <1>1, <1>3, <2>1, Zenon DEF StandsAt
<1>8. \A k \in 1..Len(y) : e[(n + 2) + k] = y[k] /\ y[k] # ":" /\ y[k] # "="
  BY <1>4, Zenon DEF StandsAt, OnRight, NoneOf
<1>9. \A k \in 1..n : x[k] # ":" /\ x[k] # "="
  BY Zenon DEF OnRight, NoneOf
<1>10. \A k \in 1..n : e[k] # ":" /\ e[k] # "="
  <2>1. \A k \in 1..n : k \in 1..n + 2
    BY <1>2
  <2> QED
    BY <1>5, <1>6, <1>9, <2>1, Zenon
<1>11. e[n + 1] = ":" /\ e[n + 2] = "="
  <2>1. n + 1 \in 1..n + 2 /\ n + 2 \in 1..n + 2
    BY <1>2
  <2> QED
    BY <1>5, <1>7, <2>1, Zenon
<1>12. ASSUME NEW k \in 1..Len(e)
       PROVE  \/ k \in 1..n \/ k = n + 1 \/ k = n + 2
              \/ (k - (n + 2) \in 1..Len(y) /\ (n + 2) + (k - (n + 2)) = k)
  BY <1>2, <1>4
<1>13. "=" # ":"
  OBVIOUS
<1>14. ASSUME NEW k \in 1..Len(e), e[k] = "=" PROVE k = n + 2
  BY <1>8, <1>10, <1>11, <1>12, <1>13, <1>14, Zenon
<1>15. ASSUME NEW k \in 1..Len(e), e[k] = ":" PROVE k = n + 1
  BY <1>8, <1>10, <1>11, <1>12, <1>13, <1>15, Zenon
<1>16. ~HasColonBehind(e)
  <2> SUFFICES ASSUME HasColonBehind(e) PROVE FALSE
    OBVIOUS
  <2>1. DOMAIN e = 1..Len(e)
    BY <1>4, LenProperties
  <2>2. PICK k \in 1..Len(e) : e[k] = "=" /\ Places(":", e, k + 1) # {}
    BY <2>1, Zenon DEF HasColonBehind, Places
  <2>3. PICK l \in 1..Len(e) : l >= k + 1 /\ e[l] = ":"
    BY <2>1, <2>2, Zenon DEF Places
  <2>4. k = n + 2 /\ l = n + 1
    BY <1>14, <1>15, <2>2, <2>3, Zenon
  <2> HIDE DEF n
  <2>5. ~(n + 1 >= (n + 2) + 1)
    BY <1>2
  <2> QED
    BY <2>3, <2>4, <2>5, Zenon
<1> QED
  BY <1>16, Zenon DEF e, u, s

\* The name in front of the second equal sign is no name.
LEMMA SignIsNoName ==
  ASSUME NEW ref \in Ref, PlainlyNamed(ref), NEW blank, OnlyBlanks(blank)
  PROVE  ~Resolves(Trimmed(Side(ref, blank) \o <<"=">>))
<1> DEFINE w == WrittenRef(ref)
           one == <<"=">>
           wb == w \o blank
           s == wb \o one
           none == <<>>
<1>1. /\ w \in Seq(TemplateSymbol) /\ Len(w) \in 1..2
      /\ InkAtEnds(w) /\ (Len(w) = 1 => w[1] # "env.")
  BY WrittenRefSymbols
<1>2. one \in Seq(TemplateSymbol) /\ Len(one) = 1 /\ one[1] = "="
  <2>1. "=" \in Marks
    BY DEF Marks
  <2> QED
    BY <2>1, MarksAreSymbols, OneSymbol
<1>3. blank \in Seq(TemplateSymbol) /\ Len(blank) \in Nat
  BY BlanksType, LenProperties
<1>n. none \in Seq(TemplateSymbol) /\ OnlyBlanks(none)
  <2>1. \A S : <<>> \in Seq(S)
    OBVIOUS
  <2> QED
    BY <2>1, Zenon DEF OnlyBlanks
<1>e. w # none
  <2>1. Len(<<>>) \notin 1..2
    OBVIOUS
  <2> QED
    BY <1>1, <2>1, Zenon
<1>i. w[1] # " "
  BY <1>1, <1>e, Zenon DEF InkAtEnds
<1>h. "env." # "="
  OBVIOUS
<1> HIDE DEF w, one
<1>l. Len(w) \in Nat /\ 1 \in 1..Len(w)
  <2>1. \A n \in 1..2 : n \in Nat /\ 1 \in 1..n
    OBVIOUS
  <2> QED
    BY <1>1, <2>1, Zenon
<1>4. wb \in Seq(TemplateSymbol) /\ Len(wb) = Len(w) + Len(blank) /\ StandsAt(w, wb, 0)
  BY <1>1, <1>3, NoneOfConcat, StandsInConcat
<1> HIDE DEF wb
<1>5. /\ s \in Seq(TemplateSymbol) /\ Len(s) = Len(wb) + 1
      /\ StandsAt(wb, s, 0) /\ StandsAt(one, s, Len(wb))
  <2>1. s \in Seq(TemplateSymbol) /\ Len(s) = Len(wb) + Len(one)
    BY <1>2, <1>4, NoneOfConcat
  <2>2. StandsAt(wb, s, 0) /\ StandsAt(one, s, Len(wb))
    BY <1>2, <1>4, StandsInConcat
  <2> QED
    BY <1>2, <2>1, <2>2, Zenon
<1>f. s[1] = w[1]
  <2>1. Len(wb) \in Nat /\ 1 \in 1..Len(wb)
    <3>1. \A m, n \in Nat : 1 \in 1..m => m + n \in Nat /\ 1 \in 1..m + n
      OBVIOUS
    <3> QED
      BY <1>3, <1>4, <1>l, <3>1, Zenon
  <2>2. wb[1] = w[1]
    <3>1. \A k \in 1..Len(w) : wb[k] = w[k]
      BY <1>4, <1>l, StandsAtStart
    <3> QED
      BY <1>l, <3>1, Zenon
  <2>3. s[1] = wb[1]
    <3>1. \A k \in 1..Len(wb) : s[k] = wb[k]
      BY <1>5, <2>1, StandsAtStart
    <3> QED
      BY <2>1, <3>1, Zenon
  <2> QED
    BY <2>2, <2>3, Zenon
<1>7. Trimmed(Side(ref, blank) \o one) = s
  <2>2. Side(ref, blank) = blank \o wb
    <3>1. (blank \o w) \o blank = blank \o (w \o blank)
      BY <1>1, <1>3, Regrouped
    <3> QED
      BY <3>1, Zenon DEF Side, Padded, wb, w
  <2>3. Side(ref, blank) \o one = blank \o s
    <3>1. (blank \o wb) \o one = blank \o (wb \o one)
      BY <1>2, <1>3, <1>4, Regrouped
    <3> QED
      BY <2>2, <3>1, Zenon
  <2>4. (blank \o s) \o none = blank \o s
    <3>1. blank \o s \in Seq(TemplateSymbol)
      BY <1>3, <1>5, NoneOfConcat
    <3> QED
      BY <3>1, ConcatEmptySeq, Zenon
  <2>5. InkAtEnds(s)
    <3>1. s[1] = w[1]
      BY <1>f, Zenon
    <3>2. s[Len(s)] = "="
      <4>1. 1 \in 1..1
        OBVIOUS
      <4> QED
        BY <1>2, <1>5, <4>1, Zenon DEF StandsAt
    <3>3. "=" # " "
      OBVIOUS
    <3> QED
      BY <1>i, <3>1, <3>2, <3>3, Zenon DEF InkAtEnds
  <2> HIDE DEF s, none
  <2>6. Trimmed((blank \o s) \o none) = s
    BY <1>5, <1>n, <2>5, TrimsBlanks
  <2> QED
    BY <2>3, <2>4, <2>6, Zenon
<1>8. Len(s) >= 2 /\ (s[1] # "env." \/ Len(s) >= 3)
  <2>1. Len(s) = Len(w) + Len(blank) + 1
    BY <1>4, <1>5, Zenon
  <2>2. Len(w) = 1 => s[1] = w[1]
    BY <1>f, Zenon
  <2>3. Len(s) >= 2 /\ (Len(w) # 1 => Len(s) >= 3)
    <3>1. \A m \in 1..2, n \in Nat : m + n + 1 >= 2 /\ (m # 1 => m + n + 1 >= 3)
      OBVIOUS
    <3> QED
      BY <1>1, <1>3, <2>1, <3>1, Zenon
  <2> QED
    BY <1>1, <2>2, <2>3, Zenon
<1> HIDE DEF s
<1>9. ~Resolves(s)
  BY <1>5, <1>8, NoRefs
<1> QED
  BY <1>7, <1>9, Zenon DEF one

\* A malformed conditional never appends anything.
LEMMA MalformedMeaning ==
  ASSUME NEW tok, InBraces(tok), tok.kind = "malformed", NEW blank, OnlyBlanks(blank)
  PROVE  LET e == Expression(tok, blank)
         IN  ~(HasColonBehind(e) /\ Matches(Conditional(e)))
<1> DEFINE x == Side(tok.left, blank)
           y == Side(tok.right, blank)
           z == Padded(blank, Chars(tok.lit))
           e == Expression(tok, blank)
<1>0. "malformed" # "var"
  OBVIOUS
<1>1. /\ tok.left \in Ref /\ tok.right \in Ref /\ tok.negate \in BOOLEAN /\ tok.lit \in Text
      /\ PlainlyNamed(tok.left) /\ PlainlyNamed(tok.right)
      /\ tok.lit.rest \notin {"{", "}"} /\ tok.lit.rest # " "
  BY <1>0, TokenParts, Zenon
<1>2. x \in Seq(TemplateSymbol) /\ OnLeft(x) /\ OnRight(x)
  BY <1>1, SideSymbols, Zenon
<1>3. y \in Seq(TemplateSymbol) /\ OnRight(y)
  BY <1>1, SideSymbols, Zenon
<1>4. z \in Seq(TemplateSymbol)
  BY <1>1, TextSymbols, Zenon
<1>5. tok.negate => e = (x \o <<":", "=">>) \o y
  BY ExpressionParts, Zenon
<1>6. ~tok.negate => e = Signed(x, <<"=", "=">>, y, z)
  BY ExpressionParts, Zenon
<1>7. ~Resolves(Trimmed(x \o <<"=">>))
  BY <1>1, SignIsNoName, Zenon
<1> HIDE DEF x, y, z, e
<1>8. CASE tok.negate
  <2>1. ~HasColonBehind((x \o <<":", "=">>) \o y)
    BY <1>2, <1>3, ColonInFront, Zenon
  <2>2. ~HasColonBehind(e)
    BY <1>5, <1>8, <2>1, Zenon
  <2> QED
    BY <2>2, Zenon DEF e
<1>9. CASE ~tok.negate
  <2>1. CutSo(Signed(x, <<"=", "=">>, y, z), FALSE, x \o <<"=">>, y, z)
    BY <1>2, <1>3, <1>4, TwiceEqualParts, Zenon
  <2>2. Conditional(e).var1 = Trimmed(x \o <<"=">>)
    BY <1>6, <1>9, <2>1, Zenon DEF CutSo
  <2>3. ~Matches(Conditional(e))
    BY <1>7, <2>2, Zenon DEF Matches
  <2> QED
    BY <2>3, Zenon DEF e
<1> QED
  BY <1>8, <1>9, Zenon

\* What the loop makes of an expression is what its token means.
Means(tok, e) ==
  /\ e \in Seq(TemplateSymbol) /\ NoneOf(e, "{") /\ NoneOf(e, "}")
  /\ tok.kind = "var" => e = WrittenRef(tok.left) /\ NoneOf(e, ":")
  /\ tok.kind # "var" =>
       /\ ~NoneOf(e, ":") /\ ~NoneOf(e, "=")
       /\ HasColonBehind(e) /\ Matches(Conditional(e)) <=> parse_conditional(tok, query)
       /\ parse_conditional(tok, query) => Conditional(e).replace = Chars(tok.lit)

\* No sign has a brace, and all have an equal sign.
LEMMA BracesAreNoSigns ==
  /\ NoneOf(<<"=">>, "{") /\ NoneOf(<<"=">>, "}") /\ ~NoneOf(<<"=">>, "=")
  /\ NoneOf(<<"!", "=">>, "{") /\ NoneOf(<<"!", "=">>, "}") /\ ~NoneOf(<<"!", "=">>, "=")
  /\ NoneOf(<<"=", "=">>, "{") /\ NoneOf(<<"=", "=">>, "}") /\ ~NoneOf(<<"=", "=">>, "=")
  /\ NoneOf(<<":", "=">>, "{") /\ NoneOf(<<":", "=">>, "}") /\ ~NoneOf(<<":", "=">>, "=")
  /\ ~NoneOf(<<":", "=">>, ":")
<1>1. /\ "=" # "{" /\ "=" # "}" /\ "!" # "{" /\ "!" # "}" /\ ":" # "{" /\ ":" # "}"
  OBVIOUS
<1> QED
  BY <1>1, SymbolNone, Zenon

\* The symbols of an expression that is put together with a sign.
LEMMA SignedIsExpression ==
  ASSUME NEW x \in Seq(TemplateSymbol), NEW s \in Seq(TemplateSymbol),
         NEW y \in Seq(TemplateSymbol), NEW z \in Seq(TemplateSymbol),
         \A t \in {x, s, y, z} : NoneOf(t, "{") /\ NoneOf(t, "}"),
         ~NoneOf(s, "=")
  PROVE  LET e == Signed(x, s, y, z)
         IN  /\ e \in Seq(TemplateSymbol) /\ NoneOf(e, "{") /\ NoneOf(e, "}")
             /\ ~NoneOf(e, ":") /\ ~NoneOf(e, "=")
<1> DEFINE e == Signed(x, s, y, z)
<1>1. NoneOf(x, "{") /\ NoneOf(s, "{") /\ NoneOf(y, "{") /\ NoneOf(z, "{")
  OBVIOUS
<1>2. NoneOf(x, "}") /\ NoneOf(s, "}") /\ NoneOf(y, "}") /\ NoneOf(z, "}")
  OBVIOUS
<1>3. "{" # ":" /\ "}" # ":"
  OBVIOUS
<1>4. \A c : NoneOf(e, c) <=>
           NoneOf(x, c) /\ NoneOf(s, c) /\ NoneOf(y, c) /\ c # ":" /\ NoneOf(z, c)
  BY SignedNone
<1>5. e \in Seq(TemplateSymbol)
  <2>1. PutTogether(e, x, s, y, z, Len(x) + Len(s))
    BY SignedParts
  <2> QED
    BY <2>1, Zenon DEF PutTogether
<1> HIDE DEF e
<1>6. NoneOf(e, "{") /\ NoneOf(e, "}") /\ ~NoneOf(e, ":") /\ ~NoneOf(e, "=")
  BY <1>1, <1>2, <1>3, <1>4, Zenon
<1> QED
  BY <1>5, <1>6, Zenon DEF e

\* The signs are strings of a template.
LEMMA SignsAreSymbols ==
  /\ <<"=">> \in Seq(TemplateSymbol) /\ <<"!", "=">> \in Seq(TemplateSymbol)
  /\ <<"=", "=">> \in Seq(TemplateSymbol) /\ <<":", "=">> \in Seq(TemplateSymbol)
<1>1. "=" \in TemplateSymbol /\ "!" \in TemplateSymbol /\ ":" \in TemplateSymbol
  <2>1. "=" \in Marks /\ "!" \in Marks /\ ":" \in Marks
    BY DEF Marks
  <2> QED
    BY <2>1, MarksAreSymbols, Zenon
<1> QED
  BY <1>1, OneSymbol, TwoSymbols

\* Every expression in braces means what its token means.
LEMMA ExpressionMeaning ==
  ASSUME NEW tok, InBraces(tok), NEW blank, OnlyBlanks(blank)
  PROVE  Means(tok, Expression(tok, blank))
<1> DEFINE x == Side(tok.left, blank)
           y == Side(tok.right, blank)
           z == Padded(blank, Chars(tok.lit))
           e == Expression(tok, blank)
<1>0. "malformed" # "var" /\ "cond" # "var" /\ "malformed" # "cond"
  OBVIOUS
<1>1. /\ tok.left \in Ref /\ tok.right \in Ref /\ tok.negate \in BOOLEAN /\ tok.lit \in Text
      /\ PlainlyNamed(tok.left) /\ tok.kind \in {"var", "cond", "malformed"}
      /\ tok.kind # "var" => PlainlyNamed(tok.right)
      /\ tok.lit.rest \notin {"{", "}"} /\ (tok.kind # "var" => tok.lit.rest # " ")
  BY TokenParts, Zenon
<1>2. CASE tok.kind = "var"
  <2>1. e = WrittenRef(tok.left)
    BY <1>2, ExpressionParts, Zenon
  <2>2. /\ WrittenRef(tok.left) \in Seq(TemplateSymbol)
        /\ \A c \in Marks : NoneOf(WrittenRef(tok.left), c)
    BY <1>1, WrittenRefSymbols, Zenon
  <2>3. "{" \in Marks /\ "}" \in Marks /\ ":" \in Marks
    BY DEF Marks
  <2> HIDE DEF e
  <2> QED
    BY <1>2, <2>1, <2>2, <2>3, Zenon DEF Means, e
<1>3. CASE tok.kind # "var"
  <2>2. x \in Seq(TemplateSymbol) /\ NoneOf(x, "{") /\ NoneOf(x, "}")
    BY <1>1, SideSymbols, Zenon
  <2>3. y \in Seq(TemplateSymbol) /\ NoneOf(y, "{") /\ NoneOf(y, "}")
    BY <1>1, <1>3, SideSymbols, Zenon
  <2>4. z \in Seq(TemplateSymbol) /\ NoneOf(z, "{") /\ NoneOf(z, "}")
    BY <1>1, <1>3, TextSymbols, Zenon
  <2>5. tok.kind = "cond" => e = Signed(x, Sign(tok), y, z)
    BY ExpressionParts, Zenon
  <2>6. tok.kind = "malformed" /\ tok.negate => e = (x \o <<":", "=">>) \o y
    BY ExpressionParts, Zenon
  <2>7. tok.kind = "malformed" /\ ~tok.negate => e = Signed(x, <<"=", "=">>, y, z)
    BY ExpressionParts, Zenon
  <2>8. tok.kind = "cond" \/ tok.kind = "malformed"
    BY <1>1, <1>3
  <2> HIDE DEF x, y, z, e
  <2> DEFINE Symbols == /\ e \in Seq(TemplateSymbol) /\ NoneOf(e, "{") /\ NoneOf(e, "}")
                        /\ ~NoneOf(e, ":") /\ ~NoneOf(e, "=")
  <2>9. ASSUME NEW s, s \in {<<"=">>, <<"!", "=">>, <<"=", "=">>}, e = Signed(x, s, y, z)
        PROVE  Symbols
    <3>1. s \in Seq(TemplateSymbol) /\ NoneOf(s, "{") /\ NoneOf(s, "}") /\ ~NoneOf(s, "=")
      BY <2>9, SignsAreSymbols, BracesAreNoSigns, Zenon
    <3> HIDE DEF Symbols
    <3>2. \A t \in {x, s, y, z} : NoneOf(t, "{") /\ NoneOf(t, "}")
      BY <2>2, <2>3, <2>4, <3>1, Zenon
    <3> USE DEF Symbols
    <3> QED
      BY <2>2, <2>3, <2>4, <2>9, <3>1, <3>2, SignedIsExpression, Zenon
  <2>10. CASE tok.kind = "cond"
    <3>1. Sign(tok) \in {<<"=">>, <<"!", "=">>, <<"=", "=">>}
      BY Zenon DEF Sign
    <3>2. Symbols
      BY <2>5, <2>9, <2>10, <3>1, Zenon
    <3>3. HasColonBehind(e) /\ Conditional(e).replace = Chars(tok.lit)
      BY <2>10, ConditionalIsCut, Zenon DEF e
    <3>4. Matches(Conditional(e)) <=> parse_conditional(tok, query)
      BY <2>10, ConditionalMeaning, Zenon DEF e
    <3>5. Means(tok, e)
      BY <1>3, <3>2, <3>3, <3>4, Zenon DEF Means
    <3> QED
      BY <3>5, Zenon DEF e
  <2>11. CASE tok.kind = "malformed"
    <3>1. Symbols
      <4>1. CASE tok.negate
        <5> DEFINE s == <<":", "=">>
                   u == x \o s
        <5>1. s \in Seq(TemplateSymbol)
          BY SignsAreSymbols, Zenon
        <5>2. NoneOf(s, "{") /\ NoneOf(s, "}") /\ ~NoneOf(s, ":") /\ ~NoneOf(s, "=")
          BY BracesAreNoSigns, Zenon
        <5>3. e = u \o y
          BY <2>6, <2>11, <4>1, Zenon
        <5> HIDE DEF s, Symbols
        <5>4. u \in Seq(TemplateSymbol) /\ \A c : NoneOf(u, c) <=> NoneOf(x, c) /\ NoneOf(s, c)
          BY <2>2, <5>1, NoneOfConcat
        <5> HIDE DEF u
        <5>5. e \in Seq(TemplateSymbol) /\ \A c : NoneOf(e, c) <=> NoneOf(u, c) /\ NoneOf(y, c)
          BY <2>3, <5>3, <5>4, NoneOfConcat
        <5> QED
          BY <2>2, <2>3, <5>2, <5>4, <5>5, Zenon DEF Symbols
      <4>2. CASE ~tok.negate
        <5>1. e = Signed(x, <<"=", "=">>, y, z)
          BY <2>7, <2>11, <4>2, Zenon
        <5> HIDE DEF Symbols
        <5> QED
          BY <2>9, <5>1, Zenon
      <4> QED
        BY <4>1, <4>2, Zenon
    <3>2. ~(HasColonBehind(e) /\ Matches(Conditional(e)))
      BY <2>11, MalformedMeaning, Zenon DEF e
    <3>3. ~parse_conditional(tok, query)
      BY <1>0, <2>11, Zenon DEF parse_conditional
    <3>4. Means(tok, e)
      BY <1>3, <3>1, <3>2, <3>3, Zenon DEF Means
    <3> QED
      BY <3>4, Zenon DEF e
  <2> QED
    BY <2>8, <2>10, <2>11, Zenon
<1> QED
  BY <1>2, <1>3, Zenon

-----------------------------------------------------------------------------
(* Where the tokens of a template are, and what they mean *)

\* A literal is written with its characters.
LEMMA WrittenLiteral ==
  ASSUME NEW tok, WellWritten(tok), tok.kind = "lit", NEW blank
  PROVE  LET w == WrittenToken(tok, blank)
         IN  /\ w \in Seq(TemplateSymbol) /\ Len(w) >= 1
             /\ NoneOf(w, "{") /\ NoneOf(w, "}")
             /\ w = Chars(tok.lit) /\ tok.lit \in Text
<1> DEFINE t == tok.lit
           w == Chars(t)
<1>1. tok \in Token /\ t.rest \notin {"{", "}"} /\ t # EmptyText
  BY Zenon DEF WellWritten
<1>2. t \in Text
  BY <1>1 DEF Token
<1> HIDE DEF t
<1>3. w \in Seq(TemplateSymbol) /\ Len(w) = StrLen(t)
  BY <1>2, CharsType
<1>4. \A c : c # "0" /\ c # t.rest => NoneOf(w, c)
  BY <1>2, CharsSymbols
<1>5. "{" # "0" /\ "}" # "0" /\ "{" # t.rest /\ "}" # t.rest
  BY <1>1
<1>6. NoneOf(w, "{") /\ NoneOf(w, "}")
  BY <1>4, <1>5, Zenon
<1>7. StrLen(t) >= 1
  <2>1. t.zeros \in Nat /\ t.rest \in Word /\ t = [zeros |-> t.zeros, rest |-> t.rest]
    BY <1>2 DEF Text
  <2>2. Size[t.rest] \in Nat /\ (Size[t.rest] = 0 <=> t.rest = "")
    BY <2>1, WordAssumption
  <2>3. t.zeros # 0 \/ t.rest # ""
    BY <1>1, <2>1, Zenon DEF EmptyText, Lit
  <2>4. \A m, n \in Nat : m # 0 \/ n # 0 => m + n >= 1
    OBVIOUS
  <2> QED
    BY <2>1, <2>2, <2>3, <2>4, Zenon DEF StrLen
<1>8. WrittenToken(tok, blank) = w
  BY Zenon DEF WrittenToken, t
<1> QED
  BY <1>2, <1>3, <1>6, <1>7, <1>8, Zenon DEF t

\* Any other token has an expression in braces.
LEMMA WrittenBraces ==
  ASSUME NEW tok, InBraces(tok), NEW blank, OnlyBlanks(blank)
  PROVE  LET w == WrittenToken(tok, blank)
             e == Expression(tok, blank)
         IN  /\ w \in Seq(TemplateSymbol) /\ Len(w) = Len(e) + 3
             /\ w[1] = "$" /\ w[2] = "{" /\ w[Len(e) + 3] = "}"
             /\ StandsAt(e, w, 2)
<1> DEFINE e == Expression(tok, blank)
           before == <<"$", "{">>
           after == <<"}">>
           u == before \o e
           w == u \o after
<1>1. before \in Seq(TemplateSymbol) /\ Len(before) = 2 /\ before[1] = "$" /\ before[2] = "{"
  <2>1. "$" \in Marks /\ "{" \in Marks
    BY DEF Marks
  <2> QED
    BY <2>1, MarksAreSymbols, TwoSymbols
<1>2. after \in Seq(TemplateSymbol) /\ Len(after) = 1 /\ after[1] = "}"
  <2>1. "}" \in Marks
    BY DEF Marks
  <2> QED
    BY <2>1, MarksAreSymbols, OneSymbol
<1>3. e \in Seq(TemplateSymbol) /\ Len(e) \in Nat
  <2>1. e \in Seq(TemplateSymbol)
    BY ExpressionMeaning, Zenon DEF Means
  <2> QED
    BY <2>1, LenProperties
<1>4. WrittenToken(tok, blank) = w
  BY Zenon DEF WrittenToken, InBraces
<1> HIDE DEF before, after, e
<1>5. u \in Seq(TemplateSymbol) /\ Len(u) = 2 + Len(e) /\ StandsAt(before, u, 0) /\ StandsAt(e, u, 2)
  <2>1. u \in Seq(TemplateSymbol) /\ Len(u) = Len(before) + Len(e)
    BY <1>1, <1>3, NoneOfConcat
  <2>2. StandsAt(before, u, 0) /\ StandsAt(e, u, Len(before))
    BY <1>1, <1>3, StandsInConcat
  <2> QED
    BY <1>1, <2>1, <2>2, Zenon
<1> HIDE DEF u
<1>6. w \in Seq(TemplateSymbol) /\ Len(w) = Len(u) + 1 /\ StandsAt(u, w, 0) /\ StandsAt(after, w, Len(u))
  <2>1. w \in Seq(TemplateSymbol) /\ Len(w) = Len(u) + Len(after)
    BY <1>2, <1>5, NoneOfConcat
  <2>2. StandsAt(u, w, 0) /\ StandsAt(after, w, Len(u))
    BY <1>2, <1>5, StandsInConcat
  <2> QED
    BY <1>2, <2>1, <2>2, Zenon
<1> HIDE DEF w
<1>7. Len(w) = Len(e) + 3 /\ Len(u) + 1 = Len(e) + 3
  <2>1. \A n \in Nat : (2 + n) + 1 = n + 3
    OBVIOUS
  <2> QED
    BY <1>3, <1>5, <1>6, <2>1, Zenon
<1>8. StandsAt(e, w, 2)
  <2>1. 2 \in Nat
    OBVIOUS
  <2>2. e \in Seq(TemplateSymbol) /\ u \in Seq(TemplateSymbol) /\ w \in Seq(TemplateSymbol)
    BY <1>3, <1>5, <1>6, Zenon
  <2>3. StandsAt(e, u, 2) /\ StandsAt(u, w, 0)
    BY <1>5, <1>6, Zenon
  <2> QED
    BY <2>1, <2>2, <2>3, StandsFromStart
<1>9. StandsAt(before, w, 0)
  <2>1. 0 \in Nat
    OBVIOUS
  <2> QED
    BY <1>1, <1>5, <1>6, <2>1, StandsFromStart, Zenon
<1>10. w[1] = "$" /\ w[2] = "{"
  <2>0. 1 \in 1..2 /\ 2 \in 1..2 /\ 2 \in Nat
    OBVIOUS
  <2>1. Len(before) \in Nat /\ 1 \in 1..2 /\ 2 \in 1..2
    BY <1>1, <2>0, Zenon
  <2>2. \A k \in 1..Len(before) : w[k] = before[k]
    BY <1>9, <2>1, StandsAtStart
  <2> QED
    BY <1>1, <2>1, <2>2, Zenon
<1>11. w[Len(e) + 3] = "}"
  <2>1. 1 \in 1..1
    OBVIOUS
  <2> QED
    BY <1>2, <1>6, <1>7, <2>1, Zenon DEF StandsAt
<1> QED
  BY <1>4, <1>6, <1>7, <1>8, <1>10, <1>11, Zenon DEF e

\* A template that strings are put together from, and its blanks.
IsTemplate(t, b) == t \in Seq({tok \in Token : WellWritten(tok)}) /\ OnlyBlanks(b)

\* The tokens of a template are well written.
LEMMA TemplateTokens ==
  ASSUME NEW t, NEW b, IsTemplate(t, b)
  PROVE  /\ Len(t) \in Nat /\ DOMAIN t = 1..Len(t)
         /\ \A n \in 1..Len(t) : WellWritten(t[n]) /\ t[n] \in Token
<1> DEFINE S == {tok \in Token : WellWritten(tok)}
<1>1. t \in Seq(S) /\ \A tok \in S : WellWritten(tok) /\ tok \in Token
  BY Zenon DEF IsTemplate
<1> HIDE DEF S
<1>2. Len(t) \in Nat /\ DOMAIN t = 1..Len(t) /\ \A n \in 1..Len(t) : t[n] \in S
  BY <1>1, LenProperties, ElementOfSeq
<1> QED
  BY <1>1, <1>2, Zenon

\* What strings are put together from are templates.
LEMMA KeysAreTemplates ==
  ASSUME NEW key \in DOMAIN WrittenTemplate
  PROVE  /\ IsTemplate(key[1], key[2])
         /\ WrittenTemplate[key] =
              FlattenSeq([n \in DOMAIN key[1] |-> WrittenToken(key[1][n], key[2])])
<1>1. key \in Templates \X Blanks
  BY Zenon DEF WrittenTemplate
<1>2. key[1] \in Templates /\ key[2] \in Blanks
  BY <1>1
<1>3. IsTemplate(key[1], key[2])
  BY <1>2, TemplateAssumption, Zenon DEF IsTemplate, OnlyBlanks
<1> QED
  BY <1>1, <1>3, Zenon DEF WrittenTemplate

\* A written token is never empty.
LEMMA WrittenTokenType ==
  ASSUME NEW t, NEW b, IsTemplate(t, b), NEW n \in 1..Len(t)
  PROVE  WrittenToken(t[n], b) \in Seq(TemplateSymbol) /\ Len(WrittenToken(t[n], b)) \in Nat \ {0}
<1> DEFINE w == WrittenToken(t[n], b)
<1>1. WellWritten(t[n]) /\ OnlyBlanks(b)
  BY TemplateTokens, Zenon DEF IsTemplate
<1>2. CASE t[n].kind = "lit"
  <2>1. w \in Seq(TemplateSymbol) /\ Len(w) >= 1
    BY <1>1, <1>2, WrittenLiteral, Zenon
  <2> HIDE DEF w
  <2>2. Len(w) \in Nat \ {0}
    BY <2>1, LenProperties
  <2> QED
    BY <2>1, <2>2, Zenon DEF w
<1>3. CASE t[n].kind # "lit"
  <2>1. InBraces(t[n])
    BY <1>1, <1>3, Zenon DEF InBraces
  <2>2. w \in Seq(TemplateSymbol) /\ Len(w) = Len(Expression(t[n], b)) + 3
    BY <1>1, <2>1, WrittenBraces, Zenon
  <2>3. Expression(t[n], b) \in Seq(TemplateSymbol)
    BY <1>1, <2>1, ExpressionMeaning, Zenon DEF Means
  <2>4. Len(Expression(t[n], b)) \in Nat
    BY <2>3, LenProperties
  <2>5. \A m \in Nat : m + 3 \in Nat \ {0}
    OBVIOUS
  <2>6. Len(w) \in Nat \ {0}
    BY <2>2, <2>4, <2>5, Zenon
  <2> QED
    BY <2>2, <2>6, Zenon
<1> QED
  BY <1>2, <1>3, Zenon

\* Token n of a template is behind symbol st[n - 1] of the string.
Layout(t, b, st) ==
  /\ st \in [0..Len(t) -> Nat] /\ st[0] = 0 /\ st[Len(t)] = Len(str)
  /\ \A n \in 1..Len(t) :
       /\ st[n] = st[n - 1] + Len(WrittenToken(t[n], b))
       /\ StandsAt(WrittenToken(t[n], b), str, st[n - 1])

\* Every string that is a written template has a place for each of its tokens.
LEMMA LayoutExists ==
  ASSUME NEW t, NEW b, IsTemplate(t, b),
         str = FlattenSeq([n \in DOMAIN t |-> WrittenToken(t[n], b)])
  PROVE  \E st : Layout(t, b, st)
<1> DEFINE N == Len(t)
           W(n) == WrittenToken(t[n], b)
           seqs == [n \in 1..N |-> W(n)]
<1>1. N \in Nat /\ DOMAIN t = 1..N
  BY TemplateTokens, Zenon
<1>2. \A n \in 1..N : W(n) \in Seq(TemplateSymbol) /\ Len(W(n)) \in Nat \ {0}
  BY WrittenTokenType, Zenon
<1> HIDE DEF N, W
<1>3. seqs \in Seq(Seq(TemplateSymbol)) /\ Len(seqs) = N
  <2>1. seqs \in [1..N -> Seq(TemplateSymbol)]
    BY <1>2, Zenon
  <2> HIDE DEF seqs
  <2> QED
    BY <1>1, <2>1, IsSequence
<1>4. \A n \in 1..N : seqs[n] = W(n)
  BY Zenon
<1>5. str = FlattenSeq(seqs)
  BY <1>1, Zenon DEF W
<1> HIDE DEF seqs
<1>6. PICK e \in [0..Len(seqs) -> Nat] :
        /\ e[0] = 0 /\ e[Len(seqs)] = Len(FlattenSeq(seqs))
        /\ \A n \in 1..Len(seqs) :
             /\ e[n] = e[n - 1] + Len(seqs[n])
             /\ \A k \in 1..Len(seqs[n]) : FlattenSeq(seqs)[e[n - 1] + k] = seqs[n][k]
        /\ \A m, n \in 0..Len(seqs) : m <= n => e[m] <= e[n]
  BY <1>3, FlattenedElements
<1>7. e \in [0..N -> Nat] /\ e[0] = 0 /\ e[N] = Len(str)
  BY <1>3, <1>5, <1>6, Zenon
<1>8. \A n \in 1..N :
        /\ e[n] = e[n - 1] + Len(W(n))
        /\ \A k \in 1..Len(W(n)) : str[e[n - 1] + k] = W(n)[k]
  <2>1. \A n \in 1..N :
          /\ e[n] = e[n - 1] + Len(seqs[n])
          /\ \A k \in 1..Len(seqs[n]) : str[e[n - 1] + k] = seqs[n][k]
    BY <1>3, <1>5, <1>6, Zenon
  <2> QED
    BY <1>4, <2>1
<1>9. \A n \in 1..N : e[n - 1] + Len(W(n)) <= Len(str)
  <2> SUFFICES ASSUME NEW n \in 1..N PROVE e[n - 1] + Len(W(n)) <= Len(str)
    OBVIOUS
  <2>1. n \in 0..N /\ N \in 0..N /\ n <= N
    BY <1>1
  <2>2. e[n] <= e[N]
    BY <1>3, <1>6, <2>1, Zenon
  <2> QED
    BY <1>7, <1>8, <2>2, Zenon
<1>10. \A n \in 1..N : StandsAt(W(n), str, e[n - 1])
  BY <1>8, <1>9, Zenon DEF StandsAt
<1> QED
  BY <1>7, <1>8, <1>10, Zenon DEF Layout, N, W

\* What a token becomes; O[n] is what the first n become.
Out(tok, q) ==
  IF tok.kind = "var" /\ ~Bound(tok.left, q) THEN <<>> ELSE Chars(Piece(tok, q))

Outputs(t, q, O) ==
  /\ O \in [0..Len(t) -> Seq(TemplateSymbol)] /\ O[0] = <<>>
  /\ \A n \in 1..Len(t) : O[n] = O[n - 1] \o Out(t[n], q)
  /\ O[Len(t)] = FlattenSeq([n \in 1..Len(t) |-> Out(t[n], q)])

\* What a token becomes is a string.
LEMMA OutType ==
  ASSUME NEW tok \in Token, NEW q \in Query
  PROVE  Out(tok, q) \in Seq(TemplateSymbol)
<1>1. tok.lit \in Text /\ tok.left \in Ref
  BY DEF Token
<1>2. CASE tok.kind = "var" /\ ~Bound(tok.left, q)
  <2>1. <<>> \in Seq(TemplateSymbol)
    OBVIOUS
  <2> QED
    BY <1>2, <2>1, Zenon DEF Out
<1>3. CASE ~(tok.kind = "var" /\ ~Bound(tok.left, q))
  <2>1. Piece(tok, q) \in Text
    <3>1. EmptyText \in Text
      BY WordAssumption DEF EmptyText, Lit, Text
    <3>2. tok.kind = "var" => find_var_value(tok.left, q) \in Text
      BY <1>1, <1>3, find_var_valueType
    <3>3. "var" # "lit"
      OBVIOUS
    <3>4. CASE tok.kind = "lit"
      BY <1>1, <3>4, Zenon DEF Piece
    <3>5. CASE tok.kind = "var"
      BY <3>2, <3>3, <3>5, Zenon DEF Piece
    <3>6. CASE tok.kind # "lit" /\ tok.kind # "var"
      <4>1. Piece(tok, q) = IF parse_conditional(tok, q) THEN tok.lit ELSE EmptyText
        BY <3>6, Zenon DEF Piece
      <4> QED
        BY <1>1, <3>1, <4>1, Zenon
    <3> QED
      BY <3>4, <3>5, <3>6, Zenon
  <2>2. Chars(Piece(tok, q)) \in Seq(TemplateSymbol)
    BY <2>1, CharsType
  <2> QED
    BY <1>3, <2>2, Zenon DEF Out
<1> QED
  BY <1>2, <1>3, Zenon

\* What the first n tokens become, for each n.
LEMMA OutputsExist ==
  ASSUME NEW t, NEW b, IsTemplate(t, b), NEW q \in Query
  PROVE  \E O : Outputs(t, q, O)
<1> DEFINE N == Len(t)
           seqs == [n \in 1..N |-> Out(t[n], q)]
<1>1. N \in Nat
  BY TemplateTokens, Zenon
<1>2. \A n \in 1..N : Out(t[n], q) \in Seq(TemplateSymbol)
  BY TemplateTokens, OutType, Zenon
<1> HIDE DEF N
<1>3. seqs \in Seq(Seq(TemplateSymbol)) /\ Len(seqs) = N
  <2>1. seqs \in [1..N -> Seq(TemplateSymbol)]
    BY <1>2, Zenon
  <2> HIDE DEF seqs
  <2> QED
    BY <1>1, <2>1, IsSequence
<1>4. \A n \in 1..N : seqs[n] = Out(t[n], q)
  BY Zenon
<1> HIDE DEF seqs
<1>5. PICK f \in [0..Len(seqs) -> Seq(TemplateSymbol)] :
        /\ f[0] = <<>>
        /\ \A n \in 1..Len(seqs) : f[n] = f[n - 1] \o seqs[n]
        /\ FlattenSeq(seqs) = f[Len(seqs)]
  BY <1>3, FlattenedPrefixes
<1>6. /\ f \in [0..N -> Seq(TemplateSymbol)] /\ f[0] = <<>>
      /\ \A n \in 1..N : f[n] = f[n - 1] \o Out(t[n], q)
      /\ f[N] = FlattenSeq(seqs)
  BY <1>3, <1>4, <1>5, Zenon
<1> QED
  BY <1>6, Zenon DEF Outputs, N, seqs

\* When every variable has a value, that is what the template means.
LEMMA OutputsExpand ==
  ASSUME NEW t, NEW b, IsTemplate(t, b), NEW O, Outputs(t, query, O), ~Unbound(t, query)
  PROVE  O[Len(t)] = Expansion(t)
<1>1. DOMAIN t = 1..Len(t)
  BY TemplateTokens, Zenon
<1>2. ASSUME NEW n \in 1..Len(t) PROVE Out(t[n], query) = Chars(expand_vars(t, query)[n])
  <2>1. ~(t[n].kind = "var" /\ ~Bound(t[n].left, query))
    BY <1>1, Zenon DEF Unbound
  <2>2. expand_vars(t, query)[n] = Piece(t[n], query)
    BY Zenon DEF expand_vars
  <2> QED
    BY <2>1, <2>2, Zenon DEF Out
<1>3. [n \in 1..Len(t) |-> Out(t[n], query)] =
        [n \in DOMAIN t |-> Chars(expand_vars(t, query)[n])]
  BY <1>1, <1>2, Zenon
<1>4. O[Len(t)] = FlattenSeq([n \in 1..Len(t) |-> Out(t[n], query)])
  BY Zenon DEF Outputs
<1> QED
  BY <1>3, <1>4, Zenon DEF Expansion

-----------------------------------------------------------------------------
(* The loop over a token *)

\* What the invariant says nothing of: after an invalid access, and when the
\* memory could not be grown.
Off == scan = "undefined" \/ (scan = "done" /\ ret = EXP_ERR_REALLOC)

\* The loop goes on.
GoesOn == scan = "loop" /\ ret = 0

\* o characters of the literal w, which is behind s, were appended to p.
InLiteral(w, s, p, o) ==
  /\ at = s + o /\ open = FALSE
  /\ out = p \o SubSeq(w, 1, o)

\* Of the expression e in braces behind s, o characters were looked at.
InExpression(e, s, p, o) ==
  /\ at = (s + 2) + o /\ open = TRUE /\ start = s + 1
  /\ out = p
  /\ colon = ~NoneOf(SubSeq(e, 1, o), ":")
  /\ equal = ~NoneOf(SubSeq(e, 1, o), "=")

\* Concatenation of templates is associative.
LEMMA GroupedSymbols ==
  \A a, b, c \in Seq(TemplateSymbol) : (a \o b) \o c = a \o (b \o c)
BY Regrouped

\* Appending goes on, fails, or is an invalid access.
LEMMA AppendGoesOn ==
  ASSUME GoesOn, NEW text, Append_resize(text)
  PROVE  Off' \/ (GoesOn' /\ out' = out \o text)
<1>1. scan = "loop" /\ ret = 0
  BY Zenon DEF GoesOn
<1>2. CASE /\ out' = out \o text /\ UNCHANGED <<buffer, capacity, scan, ret>>
  <2>1. scan' = scan /\ ret' = ret
    BY <1>2
  <2> QED
    BY <1>1, <1>2, <2>1, Zenon DEF GoesOn
<1>3. CASE /\ out' = out \o text /\ scan' \in {"loop", "undefined"} /\ UNCHANGED ret
  <2>1. scan' = "loop" \/ scan' = "undefined"
    BY <1>3
  <2> QED
    BY <1>1, <1>3, <2>1, Zenon DEF GoesOn, Off
<1>4. CASE ret' = EXP_ERR_REALLOC /\ scan' = "done"
  BY <1>4, Zenon DEF Off
<1>5. ASSUME NEW grown, NEW need,
             scan' \in IF grown > capacity THEN {"loop", "undefined"}
                       ELSE IF need > grown THEN {"undefined"} ELSE {"loop"}
      PROVE  scan' \in {"loop", "undefined"}
  <2>1. /\ {"undefined"} \subseteq {"loop", "undefined"}
        /\ {"loop"} \subseteq {"loop", "undefined"}
    OBVIOUS
  <2> QED
    BY <1>5, <2>1, Zenon
<1> QED
  BY <1>2, <1>3, <1>4, <1>5, Zenon DEF Append_resize

\* A text without braces; a character that is none; a token in braces.
NoBraces(w) == NoneOf(w, "{") /\ NoneOf(w, "}")

PlainChar == Char # "{" /\ Char # "}"

IsBraced(w) ==
  /\ 1 \in 1..Len(w) /\ 2 \in 1..Len(w)
  /\ w[1] = "$" /\ w[2] = "{"

\* A character that is no brace is copied, or skipped within braces.
LEMMA PlainStep ==
  ASSUME CmdNext, GoesOn, at < Len(str), at \in Nat, Len(str) \in Nat,
         PlainChar
  PROVE  OtherChar
<1>1. scan = "loop" /\ ~(at = Len(str))
  BY DEF GoesOn
<1>2. ~IsOpening /\ ~IsClosing
  BY Zenon DEF IsOpening, IsClosing, PlainChar
<1> QED
  BY <1>1, <1>2, Zenon
  DEF CmdNext, Opening, EmptyName, CloseVariable, CloseConditional, Closing, EndOfString

\* Outside of braces it is copied.
LEMMA CopyStep ==
  ASSUME CmdNext, GoesOn, at < Len(str), at \in Nat, Len(str) \in Nat,
         PlainChar, open = FALSE
  PROVE  /\ at' = at + 1 /\ open' = FALSE
         /\ Off' \/ (GoesOn' /\ out' = out \o <<str[at + 1]>>)
<1>1. OtherChar
  BY PlainStep
<1>2. Append_resize(<<str[at + 1]>>) /\ at' = at + 1 /\ open' = open
  BY <1>1 DEF OtherChar, Char, Advance
<1> QED
  BY <1>2, AppendGoesOn, Zenon

\* One more character of a literal.
LEMMA LiteralStep ==
  ASSUME CmdNext, GoesOn, str \in Seq(TemplateSymbol),
         NEW w \in Seq(TemplateSymbol), NEW p \in Seq(TemplateSymbol), NEW s \in Nat,
         StandsAt(w, str, s), NoBraces(w),
         NEW o \in 0..Len(w) - 1, InLiteral(w, s, p, o)
  PROVE  Off' \/ (GoesOn' /\ InLiteral(w, s, p, o + 1)')
<1>1. Len(w) \in Nat /\ Len(str) \in Nat
  BY LenProperties
<1>2. at = s + o /\ open = FALSE /\ out = p \o SubSeq(w, 1, o)
  BY Zenon DEF InLiteral
<1>3. s + Len(w) <= Len(str) /\ \A k \in 1..Len(w) : str[s + k] = w[k]
  BY Zenon DEF StandsAt
<1>4. \A k \in 1..Len(w) : w[k] # "{" /\ w[k] # "}"
  BY Zenon DEF NoneOf, NoBraces
<1>5. /\ o \in Nat /\ o + 1 \in 1..Len(w) /\ s + (o + 1) = at + 1 /\ s + (o + 1) = (s + o) + 1
      /\ at \in Nat /\ at < Len(str) /\ 1 \in 1..Len(w) /\ o + 1 \in 1..Len(w) /\ (o + 1) - 1 = o
  <2>1. o + 1 \in 1..Len(w) /\ 1 \in 1..Len(w) /\ (o + 1) - 1 = o /\ o \in Nat /\ o < Len(w)
    BY <1>1
  <2>3. s + (o + 1) = (s + o) + 1 /\ s + o \in Nat /\ s + o < s + Len(w)
    BY <1>1, <2>1
  <2>4. \A a, b, c \in Nat : a < b /\ b <= c => a < c
    OBVIOUS
  <2>5. s + Len(w) \in Nat
    BY <1>1
  <2>6. s + o < Len(str)
    BY <1>1, <1>3, <2>3, <2>4, <2>5, Zenon
  <2>7. at = s + o
    BY <1>2, Zenon
  <2>8. s + (o + 1) = at + 1 /\ at \in Nat /\ at < Len(str)
    BY <2>3, <2>6, <2>7
  <2> QED
    BY <2>1, <2>3, <2>8, Zenon
<1>6. str[at + 1] = w[o + 1]
  <2>1. str[s + (o + 1)] = w[o + 1]
    BY <1>3, <1>5, Zenon
  <2> QED
    BY <1>5, <2>1, Zenon
<1>7. /\ at' = at + 1 /\ open' = FALSE
      /\ Off' \/ (GoesOn' /\ out' = out \o <<w[o + 1]>>)
  <2>1. PlainChar
    BY <1>4, <1>5, <1>6, Zenon DEF PlainChar, Char
  <2> QED
    BY <1>1, <1>2, <1>5, <1>6, <2>1, CopyStep, Zenon
<1>8. SubSeq(w, 1, o + 1) = SubSeq(w, 1, o) \o <<w[o + 1]>>
  <2>1. SubSeq(w, 1, o + 1) = SubSeq(w, 1, (o + 1) - 1) \o <<w[o + 1]>>
    BY <1>5, SubSeqRecursiveSecond
  <2> QED
    BY <1>5, <2>1, Zenon
<1>9. out \o <<w[o + 1]>> = p \o SubSeq(w, 1, o + 1)
  <2>1. w[o + 1] \in TemplateSymbol
    BY <1>5, ElementOfSeq
  <2>2. <<w[o + 1]>> \in Seq(TemplateSymbol)
    BY <2>1, OneSymbol
  <2>3. SubSeq(w, 1, o) \in Seq(TemplateSymbol)
    <3>1. 0 \in Nat /\ 0 <= o /\ o <= Len(w) /\ 0 + 1 = 1
      BY <1>1
    <3>2. SubSeq(w, 0 + 1, o) \in Seq(TemplateSymbol)
      BY <1>5, <3>1, PartOfString, Zenon
    <3> QED
      BY <3>1, <3>2, Zenon
  <2>4. (p \o SubSeq(w, 1, o)) \o <<w[o + 1]>> = p \o (SubSeq(w, 1, o) \o <<w[o + 1]>>)
    <3> DEFINE q == SubSeq(w, 1, o)
               r == <<w[o + 1]>>
    <3>1. q \in Seq(TemplateSymbol) /\ r \in Seq(TemplateSymbol)
      BY <2>2, <2>3
    <3> HIDE DEF q, r
    <3>p. p \in Seq(TemplateSymbol)
      OBVIOUS
    <3>2. (p \o q) \o r = p \o (q \o r)
      BY <3>1, <3>p, GroupedSymbols, Zenon
    <3> QED
      BY <3>2, Zenon DEF q, r
  <2> QED
    BY <1>2, <1>8, <2>4, Zenon
<1>10. at' = s + (o + 1)
  BY <1>5, <1>7, Zenon
<1>11. w' = w /\ s' = s /\ p' = p /\ o' = o
  OBVIOUS
<1> QED
  BY <1>7, <1>9, <1>10, Zenon DEF InLiteral

\* The "$" of a token is copied,
LEMMA DollarStep ==
  ASSUME CmdNext, GoesOn, str \in Seq(TemplateSymbol),
         NEW w \in Seq(TemplateSymbol), NEW p, NEW s \in Nat, StandsAt(w, str, s),
         NEW dollar, dollar = <<"$">>, IsBraced(w), at = s, open = FALSE, out = p
  PROVE  Off' \/ (GoesOn' /\ at' = s + 1 /\ open' = FALSE /\ out' = p \o dollar)
<1>1. Len(w) \in Nat /\ Len(str) \in Nat
  BY LenProperties
<1>2. s + Len(w) <= Len(str) /\ str[s + 1] = w[1]
  BY Zenon DEF StandsAt, IsBraced
<1>3. s < Len(str)
  <2>1. \A a, c, l \in Nat : 1 \in 1..c /\ a + c <= l => a < l
    OBVIOUS
  <2> QED
    BY <1>1, <1>2, <2>1, Zenon DEF IsBraced
<1>4. "$" # "{" /\ "$" # "}"
  OBVIOUS
<1>5. PlainChar /\ str[at + 1] = "$"
  BY <1>2, <1>4, Zenon DEF PlainChar, Char, IsBraced
<1> QED
  BY <1>1, <1>2, <1>3, <1>5, CopyStep, Zenon

\* and taken away at the "{".
LEMMA BraceStep ==
  ASSUME CmdNext, GoesOn, str \in Seq(TemplateSymbol),
         NEW w \in Seq(TemplateSymbol), NEW p \in Seq(TemplateSymbol), NEW s \in Nat,
         StandsAt(w, str, s), NEW e,
         IsBraced(w), at = s + 1, NEW dollar, dollar = <<"$">>, out = p \o dollar
  PROVE  GoesOn' /\ InExpression(e, s, p, 0)'
<1>1. Len(w) \in Nat /\ Len(str) \in Nat
  BY LenProperties
<1>2. s + Len(w) <= Len(str) /\ str[s + 1] = "$" /\ str[s + 2] = "{"
  BY Zenon DEF StandsAt, IsBraced
<1>3. at \in Nat /\ at > 0 /\ at < Len(str) /\ at + 1 = s + 2 /\ (s + 2) + 0 = s + 2
  <2>1. \A a, c, l \in Nat : 2 \in 1..c /\ a + c <= l =>
          a + 1 \in Nat /\ a + 1 > 0 /\ a + 1 < l /\ (a + 1) + 1 = a + 2 /\ (a + 2) + 0 = a + 2
    OBVIOUS
  <2> QED
    BY <1>1, <1>2, <2>1, Zenon DEF IsBraced
<1>4. IsOpening
  BY <1>2, <1>3, Zenon DEF IsOpening, Char
<1>5. ~(at = Len(str))
  BY <1>1, <1>3
<1>6. Opening
  BY <1>4, <1>5, Zenon
  DEF CmdNext, EmptyName, CloseVariable, CloseConditional, Closing, OtherChar, EndOfString,
      IsClosing
<1>7. out # <<>> /\ SubSeq(out, 1, Len(out) - 1) = p
  <2>1. dollar \in Seq(TemplateSymbol) /\ Len(dollar) = 1
    <3>1. "$" \in Marks
      BY DEF Marks
    <3> QED
      BY <3>1, MarksAreSymbols, OneSymbol
  <2>3. out \in Seq(TemplateSymbol) /\ Len(out) = Len(p) + 1 /\ StandsAt(p, out, 0)
    <3>1. Len(p \o dollar) = Len(p) + Len(dollar) /\ p \o dollar \in Seq(TemplateSymbol)
      BY <2>1, NoneOfConcat
    <3>2. StandsAt(p, p \o dollar, 0)
      BY <2>1, StandsInConcat
    <3> QED
      BY <2>1, <3>1, <3>2, Zenon
  <2>4. Len(p) \in Nat
    BY LenProperties
  <2>5. SubSeq(out, 0 + 1, 0 + Len(p)) = p
    <3>1. 0 \in Nat
      OBVIOUS
    <3> QED
      BY <2>3, <3>1, StandingPart
  <2>6. \A n \in Nat : 0 + 1 = 1 /\ 0 + n = n /\ (n + 1) - 1 = n /\ n + 1 # 0
    OBVIOUS
  <2>7. Len(<<>>) = 0
    OBVIOUS
  <2> QED
    BY <2>3, <2>4, <2>5, <2>6, <2>7, Zenon
<1>8. /\ open' = TRUE /\ start' = at /\ colon' = FALSE /\ equal' = FALSE
      /\ scan' = scan /\ out' = SubSeq(out, 1, Len(out) - 1) /\ at' = at + 1 /\ ret' = ret
  BY <1>6, <1>7 DEF Opening, Advance
<1>9. GoesOn'
  BY <1>8, Zenon DEF GoesOn
<1>10. NoneOf(SubSeq(e, 1, 0), ":") /\ NoneOf(SubSeq(e, 1, 0), "=")
  <2>1. Len(SubSeq(e, 1, 0)) = 0 /\ \A k \in 1..0 : FALSE
    OBVIOUS
  <2> QED
    BY <2>1, Zenon DEF NoneOf
<1>11. at' = (s + 2) + 0 /\ start' = s + 1
  BY <1>3, <1>8, Zenon
<1> QED
  BY <1>7, <1>8, <1>9, <1>10, <1>11, Zenon DEF InExpression

\* One character more that is looked at.
LEMMA OneMore ==
  ASSUME NEW e \in Seq(TemplateSymbol), NEW o \in 0..Len(e) - 1
  PROVE  /\ SubSeq(e, 1, o) \in Seq(TemplateSymbol) /\ e[o + 1] \in TemplateSymbol
         /\ SubSeq(e, 1, o + 1) = SubSeq(e, 1, o) \o <<e[o + 1]>>
         /\ \A c : NoneOf(SubSeq(e, 1, o + 1), c) <=> NoneOf(SubSeq(e, 1, o), c) /\ e[o + 1] # c
<1> DEFINE q == SubSeq(e, 1, o)
           r == <<e[o + 1]>>
<1>1. Len(e) \in Nat
  BY LenProperties
<1>2. o + 1 \in 1..Len(e) /\ 1 \in 1..Len(e) /\ (o + 1) - 1 = o /\ o \in Nat /\ 0 \in Nat
      /\ 0 <= o /\ o <= Len(e) /\ 0 + 1 = 1
  BY <1>1
<1>3. e[o + 1] \in TemplateSymbol
  BY <1>2, ElementOfSeq
<1>4. r \in Seq(TemplateSymbol)
  BY <1>3, OneSymbol
<1>5. q \in Seq(TemplateSymbol)
  <2>1. SubSeq(e, 0 + 1, o) \in Seq(TemplateSymbol)
    BY <1>2, PartOfString, Zenon
  <2> QED
    BY <1>2, <2>1, Zenon
<1>6. SubSeq(e, 1, o + 1) = q \o r
  <2>1. SubSeq(e, 1, o + 1) = SubSeq(e, 1, (o + 1) - 1) \o <<e[o + 1]>>
    BY <1>2, SubSeqRecursiveSecond
  <2> QED
    BY <1>2, <2>1, Zenon
<1>7. ASSUME NEW c PROVE NoneOf(q \o r, c) <=> NoneOf(q, c) /\ e[o + 1] # c
  <2>1. NoneOf(r, c) <=> e[o + 1] # c
    BY SymbolNone, Zenon
  <2> HIDE DEF q, r
  <2>2. NoneOf(q \o r, c) <=> NoneOf(q, c) /\ NoneOf(r, c)
    BY <1>4, <1>5, NoneOfConcat
  <2> QED
    BY <2>1, <2>2, Zenon
<1> QED
  BY <1>3, <1>5, <1>6, <1>7, Zenon

\* The sums that come up.
LEMMA BehindToken ==
  \A a, c, l \in Nat : \A n \in 0..c - 1 : (a + 2) + c <= l =>
    /\ n \in Nat /\ n + 1 \in 1..c
    /\ (a + 2) + n \in Nat /\ (a + 2) + n < l
    /\ ((a + 2) + n) + 1 = (a + 2) + (n + 1)
OBVIOUS

\* One more character of an expression.
LEMMA ExpressionStep ==
  ASSUME CmdNext, GoesOn, str \in Seq(TemplateSymbol),
         NEW e \in Seq(TemplateSymbol), NEW p, NEW s \in Nat,
         StandsAt(e, str, s + 2), NoBraces(e),
         NEW o \in 0..Len(e) - 1, InExpression(e, s, p, o)
  PROVE  GoesOn' /\ InExpression(e, s, p, o + 1)'
<1>1. Len(e) \in Nat /\ Len(str) \in Nat
  BY LenProperties
<1>2. /\ at = (s + 2) + o /\ open = TRUE /\ start = s + 1 /\ out = p
      /\ colon = ~NoneOf(SubSeq(e, 1, o), ":")
      /\ equal = ~NoneOf(SubSeq(e, 1, o), "=")
  BY Zenon DEF InExpression
<1>3. (s + 2) + Len(e) <= Len(str) /\ \A k \in 1..Len(e) : str[(s + 2) + k] = e[k]
  BY Zenon DEF StandsAt
<1>4. /\ o + 1 \in 1..Len(e) /\ (s + 2) + o \in Nat /\ (s + 2) + o < Len(str)
      /\ ((s + 2) + o) + 1 = (s + 2) + (o + 1)
  <2>1. \A n \in 0..Len(e) - 1 : (s + 2) + Len(e) <= Len(str) =>
          /\ n \in Nat /\ n + 1 \in 1..Len(e)
          /\ (s + 2) + n \in Nat /\ (s + 2) + n < Len(str)
          /\ ((s + 2) + n) + 1 = (s + 2) + (n + 1)
    BY <1>1, BehindToken, Zenon
  <2>2. o \in 0..Len(e) - 1
    OBVIOUS
  <2> QED
    BY <1>3, <2>1, <2>2, Zenon
<1>5. str[at + 1] = e[o + 1]
  BY <1>2, <1>3, <1>4, Zenon
<1>6. PlainChar
  <2>1. e[o + 1] # "{" /\ e[o + 1] # "}"
    BY <1>4, Zenon DEF NoBraces, NoneOf
  <2> QED
    BY <1>5, <2>1, Zenon DEF PlainChar, Char
<1>7. OtherChar
  BY <1>1, <1>2, <1>4, <1>6, PlainStep, Zenon
<1>8. /\ colon' = (colon \/ e[o + 1] = ":") /\ equal' = (equal \/ e[o + 1] = "=")
      /\ NothingAppended /\ at' = at + 1 /\ UNCHANGED <<str, query, open, start>>
  BY <1>2, <1>5, <1>7, Zenon DEF OtherChar, Char, Advance
<1>9. out' = out /\ scan' = scan /\ ret' = ret /\ open' = open /\ start' = start
  BY <1>8 DEF NothingAppended
<1>10. \A c : NoneOf(SubSeq(e, 1, o + 1), c) <=> NoneOf(SubSeq(e, 1, o), c) /\ e[o + 1] # c
  BY OneMore
<1>11. /\ colon' = ~NoneOf(SubSeq(e, 1, o + 1), ":")
       /\ equal' = ~NoneOf(SubSeq(e, 1, o + 1), "=")
  <2>1. colon' = ~NoneOf(SubSeq(e, 1, o + 1), ":")
    <3>1. colon' = (~NoneOf(SubSeq(e, 1, o), ":") \/ e[o + 1] = ":")
      BY <1>2, <1>8, Zenon
    <3> QED
      BY <1>10, <3>1, Zenon
  <2>2. equal' = ~NoneOf(SubSeq(e, 1, o + 1), "=")
    <3>1. equal' = (~NoneOf(SubSeq(e, 1, o), "=") \/ e[o + 1] = "=")
      BY <1>2, <1>8, Zenon
    <3> QED
      BY <1>10, <3>1, Zenon
  <2> QED
    BY <2>1, <2>2, Zenon
<1>12. at' = (s + 2) + (o + 1)
  BY <1>2, <1>4, <1>8, Zenon
<1>13. GoesOn'
  BY <1>9, Zenon DEF GoesOn
<1> QED
  BY <1>2, <1>9, <1>11, <1>12, <1>13, Zenon DEF InExpression

\* The end of the string.
LEMMA EndStep ==
  ASSUME CmdNext, GoesOn, at = Len(str), Len(str) \in Nat
  PROVE  scan' = "done" /\ ret' = 0 /\ out' = out
<1>1. ~(at < Len(str)) /\ ret = 0
  BY Zenon, SMT DEF GoesOn
<1>2. EndOfString
  BY <1>1, Zenon
  DEF CmdNext, Opening, EmptyName, CloseVariable, CloseConditional, Closing, OtherChar, Looking
<1> QED
  BY <1>1, <1>2 DEF EndOfString

\* A variable without a value.
Fails(tok) == tok.kind = "var" /\ ~Bound(tok.left, query)

\* The empty text has no characters.
LEMMA EmptyTextIsEmpty == EmptyText \in Text /\ StrLen(EmptyText) = 0
<1>1. EmptyText \in Text /\ EmptyText.zeros = 0 /\ EmptyText.rest = ""
  BY WordAssumption DEF EmptyText, Lit, Text
<1>2. Size[""] = 0
  BY WordAssumption, Zenon
<1>3. 0 + 0 = 0
  OBVIOUS
<1> QED
  BY <1>1, <1>2, <1>3, Zenon DEF StrLen

\* A "}" that closes an expression is neither the first character nor the end.
LEMMA Inside ==
  \A a, m, n \in Nat :
    /\ (a + 2) + m \in Nat
    /\ m > 0 => ~(m = 0)
    /\ m < n => ~(m = n)
OBVIOUS

\* What is between the braces.
LEMMA ExpressionIsBetween ==
  ASSUME str \in Seq(TemplateSymbol), NEW e \in Seq(TemplateSymbol), NEW p, NEW s \in Nat,
         StandsAt(e, str, s + 2), InExpression(e, s, p, Len(e))
  PROVE  /\ Between = e /\ at > 0 /\ out = p
         /\ colon = ~NoneOf(e, ":") /\ equal = ~NoneOf(e, "=")
<1>1. /\ at = (s + 2) + Len(e) /\ start = s + 1 /\ out = p
      /\ colon = ~NoneOf(SubSeq(e, 1, Len(e)), ":")
      /\ equal = ~NoneOf(SubSeq(e, 1, Len(e)), "=")
  BY Zenon DEF InExpression
<1>2. SubSeq(e, 1, Len(e)) = e
  OBVIOUS
<1>3. Len(e) \in Nat
  BY LenProperties
<1>4. s + 2 \in Nat /\ (s + 1) + 2 = (s + 2) + 1 /\ (s + 2) + Len(e) > 0
  BY <1>3
<1>5. SubSeq(str, (s + 2) + 1, (s + 2) + Len(e)) = e
  BY <1>4, StandingPart
<1>6. Between = e
  BY <1>1, <1>4, <1>5, Zenon DEF Between
<1> QED
  BY <1>1, <1>2, <1>4, <1>6, Zenon

\* The "}" behind a variable.
LEMMA VariableStep ==
  ASSUME CloseVariable, GoesOn, NEW tok, InBraces(tok), tok.kind = "var",
         Between = WrittenRef(tok.left)
  PROVE  \/ Off'
         \/ scan' = "done" /\ ret' = EXP_ERR_QUERYNVVAR_NOT_FOUND /\ Fails(tok)
         \/ GoesOn' /\ out' = out \o Out(tok, query) /\ ~Fails(tok)
<1>1. tok.left \in Ref
  BY TokenParts, Zenon
<1>2. /\ Resolves(Between) <=> Bound(tok.left, query)
      /\ Bound(tok.left, query) => ValueOf(Between) = find_var_value(tok.left, query)
  BY <1>1, WrittenRefResolves, Zenon
<1>3. CASE ~Resolves(Between) /\ ret' = EXP_ERR_QUERYNVVAR_NOT_FOUND /\ scan' = "done"
  BY <1>2, <1>3, Zenon DEF Fails
<1>4. CASE Resolves(Between) /\ Append_resize(Chars(ValueOf(Between)))
  <2>1. Off' \/ (GoesOn' /\ out' = out \o Chars(ValueOf(Between)))
    BY <1>4, AppendGoesOn, Zenon
  <2>2. "var" # "lit"
    OBVIOUS
  <2>3. Piece(tok, query) = find_var_value(tok.left, query)
    BY <2>2, Zenon DEF Piece
  <2>4. Out(tok, query) = Chars(ValueOf(Between))
    BY <1>2, <1>4, <2>3, Zenon DEF Out
  <2> QED
    BY <1>2, <1>4, <2>1, <2>4, Zenon DEF Fails
<1> QED
  BY <1>3, <1>4, Zenon DEF CloseVariable

\* The "}" behind a conditional.
LEMMA ConditionalStep ==
  ASSUME CloseConditional, GoesOn, NEW tok, NEW e, InBraces(tok), tok.kind # "var",
         Between = e, Means(tok, e), out \in Seq(TemplateSymbol)
  PROVE  Off' \/ (GoesOn' /\ out' = out \o Out(tok, query))
<1>1. Piece(tok, query) = IF parse_conditional(tok, query) THEN tok.lit ELSE EmptyText
  <2>1. tok.kind # "lit"
    BY Zenon DEF InBraces
  <2> QED
    BY <2>1, Zenon DEF Piece
<1>2. Out(tok, query) = Chars(Piece(tok, query))
  BY Zenon DEF Out
<1>3. CASE parse_conditional(tok, query)
  <2>1. Append_resize(Conditional(e).replace) /\ Conditional(e).replace = Chars(tok.lit)
    BY <1>3, Zenon DEF CloseConditional, Means
  <2> QED
    BY <1>1, <1>2, <1>3, <2>1, AppendGoesOn, Zenon
<1>4. CASE ~parse_conditional(tok, query)
  <2>1. NothingAppended
    BY <1>4, Zenon DEF CloseConditional, Means
  <2>2. out' = out /\ scan' = scan /\ ret' = ret
    BY <2>1 DEF NothingAppended
  <2>3. StrLen(EmptyText) = 0 /\ EmptyText \in Text
    BY EmptyTextIsEmpty, Zenon
  <2>4. Chars(EmptyText) \in Seq(TemplateSymbol) /\ Len(Chars(EmptyText)) = 0
    BY <2>3, CharsType
  <2>5. out \o Chars(EmptyText) = out
    <3> DEFINE n == Chars(EmptyText)
    <3>1. n \in Seq(TemplateSymbol) /\ Len(n) = 0
      BY <2>4, Zenon
    <3> HIDE DEF n
    <3>2. n = <<>>
      BY <3>1
    <3> QED
      BY <3>2 DEF n
  <2>6. Out(tok, query) = Chars(EmptyText)
    BY <1>1, <1>2, <1>4, Zenon
  <2> QED
    BY <2>2, <2>5, <2>6, Zenon DEF GoesOn
<1> QED
  BY <1>3, <1>4, Zenon

\* The "}" of a token.
LEMMA CloseStep ==
  ASSUME CmdNext, GoesOn, str \in Seq(TemplateSymbol), query \in Query,
         NEW tok, InBraces(tok), NEW e, Means(tok, e),
         NEW p \in Seq(TemplateSymbol), NEW s \in Nat, StandsAt(e, str, s + 2),
         InExpression(e, s, p, Len(e)), at < Len(str), Char = "}"
  PROVE  \/ Off'
         \/ scan' = "done" /\ ret' = EXP_ERR_QUERYNVVAR_NOT_FOUND /\ Fails(tok)
         \/ /\ GoesOn' /\ at' = at + 1 /\ open' = FALSE
            /\ out' = p \o Out(tok, query) /\ ~Fails(tok)
<1>1. e \in Seq(TemplateSymbol)
  BY Zenon DEF Means
<1>2. /\ Between = e /\ at > 0 /\ out = p
      /\ colon = ~NoneOf(e, ":") /\ equal = ~NoneOf(e, "=")
  BY <1>1, ExpressionIsBetween, Zenon
<1>3. Len(str) \in Nat /\ at \in Nat
  <2>1. Len(str) \in Nat /\ Len(e) \in Nat
    BY <1>1, LenProperties
  <2>2. (s + 2) + Len(e) \in Nat
    BY <2>1, Inside, Zenon
  <2> QED
    BY <2>1, <2>2, Zenon DEF InExpression
<1>4. scan = "loop" /\ ~(at = Len(str)) /\ ~(at = 0)
  BY <1>2, <1>3, Inside, Zenon DEF GoesOn
<1>5. "}" # "{"
  OBVIOUS
<1>6. IsClosing /\ ~IsOpening
  BY <1>5, Zenon DEF IsClosing, IsOpening
<1>7. CloseVariable \/ CloseConditional
  BY <1>4, <1>6, Zenon DEF CmdNext, Opening, EmptyName, OtherChar, EndOfString
<1>8. Closing
  BY <1>7, Zenon DEF CloseVariable, CloseConditional
<1>9. at' = at + 1 /\ open' = FALSE
  BY <1>8, Zenon DEF Closing, Advance
<1>10. CASE tok.kind = "var"
  <2>1. e = WrittenRef(tok.left) /\ NoneOf(e, ":")
    BY <1>10, Zenon DEF Means
  <2>2. CloseVariable
    BY <1>2, <1>7, <2>1, Zenon DEF CloseConditional
  <2> QED
    BY <1>2, <1>9, <1>10, <2>1, <2>2, VariableStep, Zenon
<1>11. CASE tok.kind # "var"
  <2>1. ~NoneOf(e, ":") /\ ~NoneOf(e, "=")
    BY <1>11, Zenon DEF Means
  <2>2. CloseConditional
    BY <1>2, <1>7, <2>1, Zenon DEF CloseVariable
  <2>3. out \in Seq(TemplateSymbol)
    BY <1>2, Zenon
  <2>4. Off' \/ (GoesOn' /\ out' = out \o Out(tok, query))
    BY <1>2, <1>11, <2>2, <2>3, ConditionalStep, Zenon
  <2> QED
    BY <1>2, <1>9, <1>11, <2>4, Zenon DEF Fails
<1> QED
  BY <1>10, <1>11, Zenon

-----------------------------------------------------------------------------
(* The loop over a template *)

\* The first n tokens have their values.
AllBound(t, n) == \A m \in 1..n : ~Fails(t[m])

\* The loop is behind token n.
AtToken(t, st, O, n) ==
  /\ AllBound(t, n)
  /\ at = st[n] /\ open = FALSE
  /\ out = O[n]

\* The loop is in token n.
InToken(t, b, st, O, n) ==
  /\ AllBound(t, n - 1)
  /\ t[n].kind = "lit" =>
       \E o \in 1..Len(WrittenToken(t[n], b)) - 1 :
         InLiteral(WrittenToken(t[n], b), st[n - 1], O[n - 1], o)
  /\ t[n].kind # "lit" =>
       \/ at = st[n - 1] + 1 /\ open = FALSE /\ out = O[n - 1] \o <<"$">>
       \/ \E o \in 0..Len(Expression(t[n], b)) :
            InExpression(Expression(t[n], b), st[n - 1], O[n - 1], o)

Running(t, b, st, O) ==
  /\ GoesOn
  /\ \/ \E n \in 0..Len(t) : AtToken(t, st, O, n)
     \/ \E n \in 1..Len(t) : InToken(t, b, st, O, n)

Failed(t) ==
  /\ scan = "done" /\ ret = EXP_ERR_QUERYNVVAR_NOT_FOUND
  /\ \E n \in 1..Len(t) : Fails(t[n])

Finished(t, O) ==
  /\ scan = "done" /\ ret = 0
  /\ AllBound(t, Len(t))
  /\ out = O[Len(t)]

Progress(t, b, st, O) == Off \/ Failed(t) \/ Finished(t, O) \/ Running(t, b, st, O)

\* The string is a template, written out.
Setting(t, b, st, O) ==
  /\ str \in Seq(TemplateSymbol) /\ query \in Query
  /\ IsTemplate(t, b) /\ Layout(t, b, st) /\ Outputs(t, query, O)

\* The bounds of token n.
LEMMA Neighbours ==
  \A m \in Nat : \A n \in 1..m : n \in 0..m /\ n - 1 \in 0..m
OBVIOUS

\* Where token n is, and what is in front of it in the output.
LEMMA TokenFacts ==
  ASSUME NEW t, NEW b, NEW st, NEW O, Setting(t, b, st, O)
  PROVE  \A n \in 1..Len(t) :
           /\ WrittenToken(t[n], b) \in Seq(TemplateSymbol)
           /\ Len(WrittenToken(t[n], b)) \in Nat \ {0}
           /\ st[n - 1] \in Nat /\ O[n - 1] \in Seq(TemplateSymbol)
           /\ StandsAt(WrittenToken(t[n], b), str, st[n - 1])
<1> TAKE n \in 1..Len(t)
<1>1. /\ str \in Seq(TemplateSymbol) /\ query \in Query
      /\ IsTemplate(t, b) /\ Layout(t, b, st) /\ Outputs(t, query, O)
  BY Zenon DEF Setting
<1>2. /\ st \in [0..Len(t) -> Nat]
      /\ StandsAt(WrittenToken(t[n], b), str, st[n - 1])
  BY <1>1, Zenon DEF Layout
<1>3. O \in [0..Len(t) -> Seq(TemplateSymbol)]
  BY <1>1, Zenon DEF Outputs
<1>4. n - 1 \in 0..Len(t)
  BY <1>1, TemplateTokens, Neighbours, Zenon
<1>5. st[n - 1] \in Nat /\ O[n - 1] \in Seq(TemplateSymbol)
  BY <1>2, <1>3, <1>4, Zenon
<1> QED
  BY <1>1, <1>2, <1>3, <1>5, WrittenTokenType, Zenon

\* Where token n ends.
LEMMA TokenSum ==
  ASSUME NEW t, NEW b, NEW st, NEW O, Setting(t, b, st, O)
  PROVE  \A n \in 1..Len(t) : st[n] = st[n - 1] + Len(WrittenToken(t[n], b))
BY Zenon DEF Setting, Layout

\* The output behind token n.
LEMMA TokenOutput ==
  ASSUME NEW t, NEW b, NEW st, NEW O, Setting(t, b, st, O)
  PROVE  \A n \in 1..Len(t) : O[n] = O[n - 1] \o Out(t[n], query)
BY Zenon DEF Setting, Outputs

\* A literal has no braces and is its own output.
LEMMA LiteralFacts ==
  ASSUME NEW t, NEW b, NEW st, NEW O, Setting(t, b, st, O), NEW n \in 1..Len(t),
         t[n].kind = "lit"
  PROVE  NoBraces(WrittenToken(t[n], b)) /\ Out(t[n], query) = WrittenToken(t[n], b) /\ ~Fails(t[n])
<1>1. WellWritten(t[n])
  BY TemplateTokens, Zenon DEF Setting
<1>2. NoBraces(WrittenToken(t[n], b)) /\ WrittenToken(t[n], b) = Chars(t[n].lit)
  BY <1>1, WrittenLiteral, Zenon DEF NoBraces
<1>3. "lit" # "var"
  OBVIOUS
<1>4. ~Fails(t[n])
  BY <1>3, Zenon DEF Fails
<1>5. Piece(t[n], query) = t[n].lit
  BY Zenon DEF Piece
<1>6. Out(t[n], query) = Chars(t[n].lit)
  BY <1>3, <1>5, Zenon DEF Out
<1> QED
  BY <1>2, <1>4, <1>6, Zenon

\* The sums in a token with braces.
LEMMA BracesSums ==
  \A s, m, l \in Nat : s + (m + 3) <= l =>
    /\ s + 2 \in Nat /\ (s + 2) + m < l
    /\ ((s + 2) + m) + 1 = s + (m + 3)
    /\ m + 3 \in 1..m + 3 /\ 1 \in 1..m + 3 /\ 2 \in 1..m + 3
OBVIOUS

\* The expression e behind the "${" at s ends with the "}" in front of m.
ClosesAt(e, s, m) ==
  /\ (s + 2) + Len(e) < Len(str)
  /\ ((s + 2) + Len(e)) + 1 = m
  /\ str[((s + 2) + Len(e)) + 1] = "}"

\* A token in braces, its expression and its "}" in the string.
LEMMA BracesFacts ==
  ASSUME NEW t, NEW b, NEW st, NEW O, Setting(t, b, st, O), NEW n \in 1..Len(t),
         t[n].kind # "lit"
  PROVE  LET w == WrittenToken(t[n], b)
             e == Expression(t[n], b)
             s == st[n - 1]
         IN
         /\ InBraces(t[n]) /\ e \in Seq(TemplateSymbol) /\ Means(t[n], e) /\ NoBraces(e)
         /\ IsBraced(w) /\ StandsAt(e, str, s + 2) /\ ClosesAt(e, s, st[n])
<1> DEFINE w == WrittenToken(t[n], b)
           e == Expression(t[n], b)
           s == st[n - 1]
<1>1. InBraces(t[n]) /\ OnlyBlanks(b)
  BY TemplateTokens, Zenon DEF Setting, IsTemplate, InBraces
<1>2. Means(t[n], e)
  BY <1>1, ExpressionMeaning, Zenon
<1>3. e \in Seq(TemplateSymbol) /\ NoBraces(e)
  BY <1>2, Zenon DEF Means, NoBraces
<1>4. /\ w \in Seq(TemplateSymbol) /\ Len(w) = Len(e) + 3
      /\ w[1] = "$" /\ w[2] = "{" /\ w[Len(e) + 3] = "}"
      /\ StandsAt(e, w, 2)
  BY <1>1, WrittenBraces, Zenon
<1>5. s \in Nat /\ StandsAt(w, str, s) /\ st[n] = s + Len(w)
  BY TokenFacts, TokenSum, Zenon
<1> HIDE DEF w, e, s
<1>6. Len(e) \in Nat /\ Len(str) \in Nat /\ str \in Seq(TemplateSymbol)
  <2>1. str \in Seq(TemplateSymbol)
    BY Zenon DEF Setting
  <2> QED
    BY <1>3, <2>1, LenProperties
<1>7. s + Len(w) <= Len(str) /\ \A k \in 1..Len(w) : str[s + k] = w[k]
  BY <1>5, Zenon DEF StandsAt
<1>8. /\ s + 2 \in Nat /\ (s + 2) + Len(e) < Len(str)
      /\ ((s + 2) + Len(e)) + 1 = s + (Len(e) + 3)
      /\ Len(e) + 3 \in 1..Len(w) /\ 1 \in 1..Len(w) /\ 2 \in 1..Len(w)
  <2>1. s + (Len(e) + 3) <= Len(str)
    BY <1>4, <1>7, Zenon
  <2>2. /\ s + 2 \in Nat /\ (s + 2) + Len(e) < Len(str)
        /\ ((s + 2) + Len(e)) + 1 = s + (Len(e) + 3)
        /\ Len(e) + 3 \in 1..Len(e) + 3 /\ 1 \in 1..Len(e) + 3 /\ 2 \in 1..Len(e) + 3
    BY <1>5, <1>6, <2>1, BracesSums, Zenon
  <2> QED
    BY <1>4, <2>2, Zenon
<1>9. StandsAt(e, str, s + 2)
  <2>1. 2 \in Nat
    OBVIOUS
  <2> QED
    BY <1>3, <1>4, <1>5, <1>6, <2>1, StandsWithin, Zenon
<1>10. IsBraced(w)
  BY <1>4, <1>8, Zenon DEF IsBraced
<1>11. str[s + (Len(e) + 3)] = "}"
  BY <1>4, <1>7, <1>8, Zenon
<1>12. ClosesAt(e, s, st[n])
  BY <1>4, <1>5, <1>8, <1>11, Zenon DEF ClosesAt
<1> QED
  BY <1>1, <1>2, <1>3, <1>9, <1>10, <1>12, Zenon DEF w, e, s

\* The string and the query never change.
LEMMA StringStays == [CmdNext]_cmdVars => str' = str /\ query' = query
BY DEF CmdNext, Opening, EmptyName, CloseVariable, CloseConditional, Closing, OtherChar,
       EndOfString, cmdVars

\* Nor does which variables have values.
LEMMA FailsStays ==
  ASSUME query' = query
  PROVE  /\ \A tok : Fails(tok)' <=> Fails(tok)
         /\ \A t, n : AllBound(t, n)' <=> AllBound(t, n)
BY Zenon DEF AllBound, Fails

\* One token more has its value.
LEMMA OneMoreBound ==
  ASSUME NEW t, NEW m \in Nat, NEW n \in 1..m, AllBound(t, n - 1), ~Fails(t[n])
  PROVE  AllBound(t, n)
<1>1. \A k \in 1..n : k \in 1..n - 1 \/ k = n
  OBVIOUS
<1> QED
  BY <1>1, Zenon DEF AllBound

\* The next character of a literal is in it or behind it.
LEMMA NextPlace ==
  \A m \in Nat : \A o \in 0..m - 1 : o + 1 \in 1..m - 1 \/ o + 1 = m
OBVIOUS

\* One more character of a literal: the loop stays in it or is behind it.
LEMMA LiteralAdvances ==
  ASSUME NEW t, NEW b, NEW st, NEW O, Setting(t, b, st, O), NEW n \in 1..Len(t),
         CmdNext, GoesOn, t[n].kind = "lit", AllBound(t, n - 1),
         NEW o \in 0..Len(WrittenToken(t[n], b)) - 1,
         InLiteral(WrittenToken(t[n], b), st[n - 1], O[n - 1], o)
  PROVE  Off' \/ (GoesOn' /\ (AtToken(t, st, O, n)' \/ InToken(t, b, st, O, n)'))
<1> DEFINE w == WrittenToken(t[n], b)
           s == st[n - 1]
           p == O[n - 1]
<1>1. /\ w \in Seq(TemplateSymbol) /\ Len(w) \in Nat \ {0} /\ s \in Nat
      /\ p \in Seq(TemplateSymbol) /\ StandsAt(w, str, s)
  BY TokenFacts, Zenon
<1>2. st[n] = s + Len(w)
  BY TokenSum, Zenon
<1>3. NoBraces(w) /\ Out(t[n], query) = w /\ ~Fails(t[n])
  BY LiteralFacts, Zenon
<1>4. O[n] = p \o Out(t[n], query)
  BY TokenOutput, Zenon
<1>5. str \in Seq(TemplateSymbol) /\ Len(t) \in Nat
  BY TemplateTokens, Zenon DEF Setting
<1>6. AllBound(t, n)
  BY <1>3, <1>5, OneMoreBound, Zenon
<1>7. AllBound(t, n)' /\ AllBound(t, n - 1)'
  BY <1>6, StringStays, FailsStays, Zenon
<1>8. o \in 0..Len(w) - 1 /\ InLiteral(w, s, p, o)
  OBVIOUS
<1>11. InToken(t, b, st, O, n)' <=>
         /\ AllBound(t, n - 1)'
         /\ t[n].kind = "lit" => \E k \in 1..Len(w) - 1 : InLiteral(w, s, p, k)'
         /\ t[n].kind # "lit" =>
              \/ at' = s + 1 /\ open' = FALSE /\ out' = p \o <<"$">>
              \/ \E k \in 0..Len(Expression(t[n], b)) :
                    InExpression(Expression(t[n], b), s, p, k)'
  BY Zenon DEF InToken
<1>12. AtToken(t, st, O, n)' <=>
         AllBound(t, n)' /\ at' = st[n] /\ open' = FALSE /\ out' = O[n]
  BY Zenon DEF AtToken
<1> HIDE DEF w, s, p
<1>9. Off' \/ (GoesOn' /\ InLiteral(w, s, p, o + 1)')
  BY <1>1, <1>3, <1>5, <1>8, LiteralStep, Zenon
<1>10. o + 1 \in 1..Len(w) - 1 \/ o + 1 = Len(w)
  BY <1>1, <1>8, NextPlace, Zenon
<1>13. CASE o + 1 \in 1..Len(w) - 1
  BY <1>7, <1>9, <1>11, <1>13, Zenon
<1>14. CASE o + 1 = Len(w)
  <2>1. SubSeq(w, 1, Len(w)) = w
    BY <1>1
  <2>2. InLiteral(w, s, p, o + 1)' => at' = s + Len(w) /\ open' = FALSE /\ out' = p \o w
    BY <1>14, <2>1, Zenon DEF InLiteral
  <2> QED
    BY <1>2, <1>3, <1>4, <1>7, <1>9, <1>12, <2>2, Zenon
<1> QED
  BY <1>10, <1>13, <1>14, Zenon

\* The loop is within the braces of token n, or in front of them.
InDollar(s, p) == at = s + 1 /\ open = FALSE /\ out = p \o <<"$">>

\* Ways to be in a token with braces.
LEMMA InTokenOf ==
  ASSUME NEW t, NEW b, NEW st, NEW O, NEW n, t[n].kind # "lit", AllBound(t, n - 1)'
  PROVE  /\ InDollar(st[n - 1], O[n - 1])' => InToken(t, b, st, O, n)'
         /\ \A o \in 0..Len(Expression(t[n], b)) :
              InExpression(Expression(t[n], b), st[n - 1], O[n - 1], o)' => InToken(t, b, st, O, n)'
BY Zenon DEF InToken, InDollar

\* In front of a token with braces the "$" is copied.
LEMMA DollarAdvances ==
  ASSUME NEW t, NEW b, NEW st, NEW O, Setting(t, b, st, O), NEW n \in 1..Len(t),
         CmdNext, GoesOn, t[n].kind # "lit", AtToken(t, st, O, n - 1)
  PROVE  Off' \/ (GoesOn' /\ InToken(t, b, st, O, n)')
<1> DEFINE w == WrittenToken(t[n], b)
           s == st[n - 1]
           p == O[n - 1]
           dollar == <<"$">>
<1>1. w \in Seq(TemplateSymbol) /\ s \in Nat /\ StandsAt(w, str, s)
  BY TokenFacts, Zenon
<1>2. IsBraced(w)
  BY BracesFacts, Zenon
<1>3. str \in Seq(TemplateSymbol)
  BY Zenon DEF Setting
<1>4. AllBound(t, n - 1)'
  BY StringStays, FailsStays, Zenon DEF AtToken
<1>5. at = s /\ open = FALSE /\ out = p
  BY Zenon DEF AtToken
<1>6. InDollar(s, p)' => InToken(t, b, st, O, n)'
  BY <1>4, InTokenOf, Zenon
<1>7. InDollar(s, p)' <=> at' = s + 1 /\ open' = FALSE /\ out' = p \o dollar
  BY Zenon DEF InDollar
<1>8. dollar = <<"$">>
  BY Zenon
<1> HIDE DEF w, s, p, dollar
<1>9. Off' \/ (GoesOn' /\ at' = s + 1 /\ open' = FALSE /\ out' = p \o dollar)
  BY <1>1, <1>2, <1>3, <1>5, <1>8, DollarStep, Zenon
<1> QED
  BY <1>6, <1>7, <1>9, Zenon

\* In braces the loop goes on,
LEMMA BracesAdvance ==
  ASSUME NEW t, NEW b, NEW st, NEW O, Setting(t, b, st, O), NEW n \in 1..Len(t),
         CmdNext, GoesOn, t[n].kind # "lit", AllBound(t, n - 1),
         \/ InDollar(st[n - 1], O[n - 1])
         \/ \E o \in 0..Len(Expression(t[n], b)) - 1 :
              InExpression(Expression(t[n], b), st[n - 1], O[n - 1], o)
  PROVE  GoesOn' /\ InToken(t, b, st, O, n)'
<1> DEFINE w == WrittenToken(t[n], b)
           e == Expression(t[n], b)
           s == st[n - 1]
           p == O[n - 1]
           dollar == <<"$">>
<1>1. /\ w \in Seq(TemplateSymbol) /\ s \in Nat /\ StandsAt(w, str, s)
      /\ p \in Seq(TemplateSymbol)
  BY TokenFacts, Zenon
<1>2. IsBraced(w) /\ e \in Seq(TemplateSymbol) /\ NoBraces(e) /\ StandsAt(e, str, s + 2)
  BY BracesFacts, Zenon
<1>3. str \in Seq(TemplateSymbol)
  BY Zenon DEF Setting
<1>4. AllBound(t, n - 1)'
  BY StringStays, FailsStays, Zenon
<1>5. \A o \in 0..Len(e) : InExpression(e, s, p, o)' => InToken(t, b, st, O, n)'
  BY <1>4, InTokenOf, Zenon
<1>6. InDollar(s, p) \/ \E o \in 0..Len(e) - 1 : InExpression(e, s, p, o)
  OBVIOUS
<1>7. InDollar(s, p) <=> at = s + 1 /\ open = FALSE /\ out = p \o dollar
  BY Zenon DEF InDollar
<1>8. dollar = <<"$">>
  BY Zenon
<1> HIDE DEF w, e, s, p, dollar
<1>9. Len(e) \in Nat
  BY <1>2, LenProperties
<1>10. 0 \in 0..Len(e) /\ \A o \in 0..Len(e) - 1 : o + 1 \in 0..Len(e)
  BY <1>9
<1>11. CASE InDollar(s, p)
  <2>1. GoesOn' /\ InExpression(e, s, p, 0)'
    BY <1>1, <1>2, <1>3, <1>7, <1>8, <1>11, BraceStep, Zenon
  <2> QED
    BY <1>5, <1>10, <2>1, Zenon
<1>12. ASSUME NEW o \in 0..Len(e) - 1, InExpression(e, s, p, o)
       PROVE  GoesOn' /\ InToken(t, b, st, O, n)'
  <2>1. GoesOn' /\ InExpression(e, s, p, o + 1)'
    BY <1>1, <1>2, <1>3, <1>12, ExpressionStep, Zenon
  <2> QED
    BY <1>5, <1>10, <2>1, Zenon
<1> QED
  BY <1>6, <1>11, <1>12, Zenon

\* and at the "}" it is behind the token, if the token has a value.
LEMMA CloseAdvances ==
  ASSUME NEW t, NEW b, NEW st, NEW O, Setting(t, b, st, O), NEW n \in 1..Len(t),
         CmdNext, GoesOn, t[n].kind # "lit", AllBound(t, n - 1),
         InExpression(Expression(t[n], b), st[n - 1], O[n - 1], Len(Expression(t[n], b)))
  PROVE  Off' \/ Failed(t)' \/ (GoesOn' /\ AtToken(t, st, O, n)')
<1> DEFINE e == Expression(t[n], b)
           s == st[n - 1]
           p == O[n - 1]
<1>1. s \in Nat /\ p \in Seq(TemplateSymbol)
  BY TokenFacts, Zenon
<1>2. InBraces(t[n]) /\ Means(t[n], e) /\ StandsAt(e, str, s + 2) /\ ClosesAt(e, s, st[n])
  BY BracesFacts, Zenon
<1>3. O[n] = p \o Out(t[n], query)
  BY TokenOutput, Zenon
<1>4. str \in Seq(TemplateSymbol) /\ query \in Query /\ Len(t) \in Nat
  BY TemplateTokens, Zenon DEF Setting
<1>5. AtToken(t, st, O, n)' <=>
        AllBound(t, n)' /\ at' = st[n] /\ open' = FALSE /\ out' = O[n]
  BY Zenon DEF AtToken
<1>6. InExpression(e, s, p, Len(e))
  OBVIOUS
<1>7. \A k : AllBound(t, k)' <=> AllBound(t, k)
  BY StringStays, FailsStays, Zenon
<1>8. \A k : Fails(t[k])' <=> Fails(t[k])
  BY StringStays, FailsStays, Zenon
<1> HIDE DEF e, s, p
<1>9. at = (s + 2) + Len(e)
  BY <1>6, Zenon DEF InExpression
<1>10. at < Len(str) /\ Char = "}" /\ at + 1 = st[n]
  BY <1>2, <1>9, Zenon DEF Char, ClosesAt
<1>11. \/ Off'
       \/ scan' = "done" /\ ret' = EXP_ERR_QUERYNVVAR_NOT_FOUND /\ Fails(t[n])
       \/ /\ GoesOn' /\ at' = at + 1 /\ open' = FALSE
          /\ out' = p \o Out(t[n], query) /\ ~Fails(t[n])
  BY <1>1, <1>2, <1>4, <1>6, <1>10, CloseStep, Zenon
<1>12. CASE scan' = "done" /\ ret' = EXP_ERR_QUERYNVVAR_NOT_FOUND /\ Fails(t[n])
  <2>1. Failed(t)'
    BY <1>8, <1>12, Zenon DEF Failed, EXP_ERR_QUERYNVVAR_NOT_FOUND
  <2> QED
    BY <2>1, Zenon
<1>13. CASE /\ GoesOn' /\ at' = at + 1 /\ open' = FALSE
            /\ out' = p \o Out(t[n], query) /\ ~Fails(t[n])
  <2>1. AllBound(t, n)'
    BY <1>4, <1>7, <1>13, OneMoreBound, Zenon
  <2> QED
    BY <1>3, <1>5, <1>10, <1>13, <2>1, Zenon
<1> QED
  BY <1>11, <1>12, <1>13, Zenon

\* Nothing of a literal is appended before its first character.
LEMMA NothingOf ==
  ASSUME NEW p \in Seq(TemplateSymbol), NEW w \in Seq(TemplateSymbol)
  PROVE  p \o SubSeq(w, 1, 0) = p
OBVIOUS

\* From the end of a token the loop goes into the next one.
LEMMA FromTokenOn ==
  ASSUME NEW t, NEW b, NEW st, NEW O, Setting(t, b, st, O), NEW n \in 1..Len(t),
         CmdNext, GoesOn, AtToken(t, st, O, n - 1)
  PROVE  Off' \/ (GoesOn' /\ (AtToken(t, st, O, n)' \/ InToken(t, b, st, O, n)'))
<1> DEFINE w == WrittenToken(t[n], b)
           s == st[n - 1]
           p == O[n - 1]
<1>1. /\ w \in Seq(TemplateSymbol) /\ s \in Nat /\ p \in Seq(TemplateSymbol)
      /\ Len(w) \in Nat \ {0}
  BY TokenFacts, Zenon
<1>2. at = s /\ open = FALSE /\ out = p /\ AllBound(t, n - 1)
  BY Zenon DEF AtToken
<1>3. CASE t[n].kind = "lit"
  <2>1. InLiteral(w, s, p, 0) /\ 0 \in 0..Len(w) - 1
    <3> HIDE DEF w, s, p
    <3>1. p \o SubSeq(w, 1, 0) = p
      BY <1>1, NothingOf, Zenon
    <3>2. s + 0 = s /\ 0 \in 0..Len(w) - 1
      BY <1>1
    <3> QED
      BY <1>2, <3>1, <3>2, Zenon DEF InLiteral
  <2> QED
    BY <1>2, <1>3, <2>1, LiteralAdvances, Zenon
<1>4. CASE t[n].kind # "lit"
  BY <1>4, DollarAdvances, Zenon
<1> QED
  BY <1>3, <1>4, Zenon

\* Places in a literal, and in an expression or at its end.
LEMMA PlacesWithin ==
  \A m \in Nat : \A k \in 1..m - 1 : k \in 0..m - 1
OBVIOUS

LEMMA LastPlace ==
  \A m \in Nat : \A k \in 0..m : k \in 0..m - 1 \/ k = m
OBVIOUS

\* In a token the loop goes on, ends behind it, or fails for want of a value.
LEMMA WithinToken ==
  ASSUME NEW t, NEW b, NEW st, NEW O, Setting(t, b, st, O), NEW n \in 1..Len(t),
         CmdNext, GoesOn, InToken(t, b, st, O, n)
  PROVE  \/ Off' \/ Failed(t)'
         \/ GoesOn' /\ (AtToken(t, st, O, n)' \/ InToken(t, b, st, O, n)')
<1> DEFINE w == WrittenToken(t[n], b)
           e == Expression(t[n], b)
           s == st[n - 1]
           p == O[n - 1]
<1>1. AllBound(t, n - 1)
  BY Zenon DEF InToken
<1>2. CASE t[n].kind = "lit"
  <2>1. PICK o \in 1..Len(w) - 1 : InLiteral(w, s, p, o)
    BY <1>2, Zenon DEF InToken
  <2>2. Len(w) \in Nat
    <3>1. Len(w) \in Nat \ {0}
      BY TokenFacts, Zenon
    <3> QED
      BY <3>1, Zenon
  <2>3. o \in 0..Len(w) - 1
    BY <2>2, PlacesWithin, Zenon
  <2> QED
    BY <1>1, <1>2, <2>1, <2>3, LiteralAdvances, Zenon
<1>3. CASE t[n].kind # "lit"
  <2>1. InDollar(s, p) \/ \E o \in 0..Len(e) : InExpression(e, s, p, o)
    BY <1>3, Zenon DEF InToken, InDollar
  <2>2. CASE InDollar(s, p)
    BY <1>1, <1>3, <2>2, BracesAdvance, Zenon
  <2>3. ASSUME NEW o \in 0..Len(e), InExpression(e, s, p, o)
        PROVE  \/ Off' \/ Failed(t)'
               \/ GoesOn' /\ (AtToken(t, st, O, n)' \/ InToken(t, b, st, O, n)')
    <3>1. Len(e) \in Nat
      <4>1. e \in Seq(TemplateSymbol)
        BY <1>3, BracesFacts, Zenon
      <4> HIDE DEF e
      <4> QED
        BY <4>1, LenProperties
    <3>2. o \in 0..Len(e) - 1 \/ o = Len(e)
      BY <3>1, LastPlace, Zenon
    <3>3. CASE o \in 0..Len(e) - 1
      BY <1>1, <1>3, <2>3, <3>3, BracesAdvance, Zenon
    <3>4. CASE o = Len(e)
      <4>1. InExpression(e, s, p, Len(e))
        BY <2>3, <3>4, Zenon
      <4> QED
        BY <1>1, <1>3, <4>1, CloseAdvances, Zenon
    <3> QED
      BY <3>2, <3>3, <3>4, Zenon
  <2> QED
    BY <2>1, <2>2, <2>3, Zenon
<1> QED
  BY <1>2, <1>3, Zenon

\* Behind the last token the loop is over.
LEMMA BehindTemplate ==
  ASSUME NEW t, NEW b, NEW st, NEW O, Setting(t, b, st, O),
         CmdNext, GoesOn, AtToken(t, st, O, Len(t))
  PROVE  Finished(t, O)'
<1>1. at = st[Len(t)] /\ out = O[Len(t)] /\ AllBound(t, Len(t))
  BY Zenon DEF AtToken
<1>2. st[Len(t)] = Len(str) /\ str \in Seq(TemplateSymbol)
  BY Zenon DEF Setting, Layout
<1>3. Len(str) \in Nat
  BY <1>2, LenProperties
<1>4. scan' = "done" /\ ret' = 0 /\ out' = out
  BY <1>1, <1>2, <1>3, EndStep, Zenon
<1>5. AllBound(t, Len(t))'
  BY <1>1, StringStays, FailsStays, Zenon
<1> QED
  BY <1>1, <1>4, <1>5, Zenon DEF Finished

\* There is a next token unless all are done.
LEMMA NextToken ==
  \A m \in Nat : \A n \in 0..m : n = m \/ (n + 1 \in 1..m /\ (n + 1) - 1 = n)
OBVIOUS

\* Every step of the loop makes progress in the template.
LEMMA ProgressStep ==
  ASSUME NEW t, NEW b, NEW st, NEW O, Setting(t, b, st, O), CmdNext,
         Progress(t, b, st, O)
  PROVE  Progress(t, b, st, O)'
<1>0. Len(t) \in Nat
  BY TemplateTokens, Zenon DEF Setting
<1>1. scan = "loop"
  BY Zenon DEF CmdNext, Opening, EmptyName, CloseVariable, CloseConditional, Closing,
               OtherChar, EndOfString, Looking
<1>2. "loop" # "undefined" /\ "loop" # "done"
  OBVIOUS
<1>3. Running(t, b, st, O)
  BY <1>1, <1>2, Zenon DEF Progress, Off, Failed, Finished
<1>4. ASSUME NEW n \in 1..Len(t), GoesOn', AtToken(t, st, O, n)' \/ InToken(t, b, st, O, n)'
      PROVE  Progress(t, b, st, O)'
  <2>1. n \in 0..Len(t)
    BY <1>0, Neighbours, Zenon
  <2> QED
    BY <1>4, <2>1, Zenon DEF Progress, Running
<1>5. ASSUME NEW n \in 0..Len(t), AtToken(t, st, O, n)
      PROVE  Progress(t, b, st, O)'
  <2>1. CASE n = Len(t)
    <3>1. AtToken(t, st, O, Len(t))
      BY <1>5, <2>1, Zenon
    <3>2. Finished(t, O)'
      BY <1>3, <3>1, BehindTemplate, Zenon DEF Running
    <3> QED
      BY <3>2, Zenon DEF Progress
  <2>2. CASE n + 1 \in 1..Len(t) /\ (n + 1) - 1 = n
    <3>1. AtToken(t, st, O, (n + 1) - 1)
      BY <1>5, <2>2, Zenon
    <3>2. Off' \/ (GoesOn' /\ (AtToken(t, st, O, n + 1)' \/ InToken(t, b, st, O, n + 1)'))
      BY <1>3, <2>2, <3>1, FromTokenOn, Zenon DEF Running
    <3>3. CASE Off'
      BY <3>3, Zenon DEF Progress
    <3>4. CASE GoesOn' /\ (AtToken(t, st, O, n + 1)' \/ InToken(t, b, st, O, n + 1)')
      BY <1>4, <2>2, <3>4, Zenon
    <3> QED
      BY <3>2, <3>3, <3>4, Zenon
  <2> QED
    BY <1>0, <2>1, <2>2, NextToken, Zenon
<1>6. ASSUME NEW n \in 1..Len(t), InToken(t, b, st, O, n)
      PROVE  Progress(t, b, st, O)'
  <2>1. \/ Off' \/ Failed(t)'
        \/ GoesOn' /\ (AtToken(t, st, O, n)' \/ InToken(t, b, st, O, n)')
    BY <1>3, <1>6, WithinToken, Zenon DEF Running
  <2>2. CASE Off' \/ Failed(t)'
    BY <2>2, Zenon DEF Progress
  <2>3. CASE GoesOn' /\ (AtToken(t, st, O, n)' \/ InToken(t, b, st, O, n)')
    BY <1>4, <2>3, Zenon
  <2> QED
    BY <2>1, <2>2, <2>3, Zenon
<1> QED
  BY <1>3, <1>5, <1>6, Zenon DEF Running

-----------------------------------------------------------------------------
(* The theorem *)

\* Of every template that the string is, there is a place where the loop is in
\* it, or the loop is over and has made of the template what it means.
TemplateInv ==
  \A key \in DOMAIN WrittenTemplate :
    WrittenTemplate[key] = str =>
      \E st, O : /\ Layout(key[1], key[2], st) /\ Outputs(key[1], query, O)
                 /\ Progress(key[1], key[2], st, O)

\* Before the first character the loop is in front of the first token.
LEMMA TemplateInvInit == CmdInit => TemplateInv
<1> SUFFICES ASSUME CmdInit, NEW key \in DOMAIN WrittenTemplate, WrittenTemplate[key] = str
             PROVE  \E st, O : /\ Layout(key[1], key[2], st) /\ Outputs(key[1], query, O)
                               /\ Progress(key[1], key[2], st, O)
  BY Zenon DEF TemplateInv
<1> DEFINE t == key[1]
           b == key[2]
<1>1. /\ IsTemplate(t, b)
      /\ str = FlattenSeq([n \in DOMAIN t |-> WrittenToken(t[n], b)])
  BY KeysAreTemplates, Zenon
<1> HIDE DEF t, b
<1>2. query \in Query
  BY ScannerAssumption DEF CmdInit, Before
<1>3. PICK st : Layout(t, b, st)
  BY <1>1, LayoutExists, Zenon
<1>4. PICK O : Outputs(t, query, O)
  BY <1>1, <1>2, OutputsExist, Zenon
<1>5. at = 0 /\ open = FALSE /\ out = <<>> /\ scan = "loop" /\ ret = 0
  BY DEF CmdInit, Before
<1>6. st[0] = 0 /\ O[0] = <<>>
  BY <1>3, <1>4, Zenon DEF Layout, Outputs
<1>7. Len(t) \in Nat
  BY <1>1, TemplateTokens, Zenon
<1>8. 0 \in 0..Len(t) /\ \A m \in 1..0 : FALSE
  BY <1>7
<1>9. AtToken(t, st, O, 0)
  BY <1>5, <1>6, <1>8, Zenon DEF AtToken, AllBound
<1>10. Progress(t, b, st, O)
  BY <1>5, <1>8, <1>9, Zenon DEF Progress, Running, GoesOn
<1> QED
  BY <1>3, <1>4, <1>10, Zenon DEF t, b

\* Every step keeps the place in each template.
LEMMA TemplateInvStep == ScanInv /\ TemplateInv /\ [CmdNext]_cmdVars => TemplateInv'
<1> SUFFICES ASSUME ScanInv, TemplateInv, [CmdNext]_cmdVars PROVE TemplateInv'
  OBVIOUS
<1>1. str' = str /\ query' = query
  BY StringStays, Zenon
<1>2. str \in Seq(TemplateSymbol) /\ query \in Query
  BY Zenon DEF ScanInv, ScanType
<1>3. SUFFICES ASSUME NEW key \in DOMAIN WrittenTemplate, WrittenTemplate[key] = str
               PROVE  \E st, O : /\ Layout(key[1], key[2], st)' /\ Outputs(key[1], query, O)'
                                 /\ Progress(key[1], key[2], st, O)'
  BY <1>1, Zenon DEF TemplateInv
<1> DEFINE t == key[1]
           b == key[2]
<1>4. IsTemplate(t, b)
  BY KeysAreTemplates, Zenon
<1>5. PICK st, O : Layout(t, b, st) /\ Outputs(t, query, O) /\ Progress(t, b, st, O)
  BY <1>3, Zenon DEF TemplateInv
<1>6. Layout(t, b, st)' /\ Outputs(t, query, O)'
  BY <1>1, <1>5, Zenon DEF Layout, StandsAt
<1>7. Progress(t, b, st, O)'
  <2>1. CASE CmdNext
    <3>1. Setting(t, b, st, O)
      BY <1>2, <1>4, <1>5, Zenon DEF Setting
    <3> QED
      BY <1>5, <2>1, <3>1, ProgressStep, Zenon
  <2>2. CASE UNCHANGED cmdVars
    <3>1. /\ at' = at /\ open' = open /\ start' = start /\ colon' = colon /\ equal' = equal
          /\ out' = out /\ scan' = scan /\ ret' = ret
      BY <2>2 DEF cmdVars
    <3> QED
      BY <1>1, <1>5, <3>1, Zenon
      DEF Progress, Running, AtToken, InToken, InLiteral, InExpression, Failed, Finished, Off,
          GoesOn, AllBound, Fails
  <2> QED
    BY <2>1, <2>2, Zenon
<1> QED
  BY <1>6, <1>7, Zenon

\* Behind the loop the template is expanded, unless a variable has no value.
LEMMA TemplateInvMeans == ScanInv /\ TemplateInv => ExpandsAsDefined
<1> SUFFICES ASSUME ScanInv, TemplateInv, scan = "done", ret # EXP_ERR_REALLOC,
                    NEW key \in DOMAIN WrittenTemplate, WrittenTemplate[key] = str
             PROVE  IF Unbound(key[1], query) THEN ret = EXP_ERR_QUERYNVVAR_NOT_FOUND
                    ELSE ret = 0 /\ out = Expansion(key[1])
  BY Zenon DEF ExpandsAsDefined
<1> DEFINE t == key[1]
           b == key[2]
<1>1. IsTemplate(t, b)
  BY KeysAreTemplates, Zenon
<1>2. PICK st, O : Outputs(t, query, O) /\ Progress(t, b, st, O)
  BY Zenon DEF TemplateInv
<1>3. "done" # "undefined" /\ "done" # "loop"
  OBVIOUS
<1>4. Failed(t) \/ Finished(t, O)
  BY <1>2, <1>3, Zenon DEF Progress, Off, Running, GoesOn
<1>5. DOMAIN t = 1..Len(t)
  BY <1>1, TemplateTokens, Zenon
<1>6. Unbound(t, query) <=> \E n \in 1..Len(t) : Fails(t[n])
  BY <1>5, Zenon DEF Unbound, Fails
<1>7. CASE Failed(t)
  BY <1>6, <1>7, Zenon DEF Failed
<1>8. CASE Finished(t, O)
  <2>1. ~Unbound(t, query)
    BY <1>6, <1>8, Zenon DEF Finished, AllBound
  <2>2. O[Len(t)] = Expansion(t)
    BY <1>1, <1>2, <2>1, OutputsExpand, Zenon
  <2> QED
    BY <1>8, <2>1, <2>2, Zenon DEF Finished
<1> QED
  BY <1>4, <1>7, <1>8, Zenon

\* A template is expanded to what its tokens mean one by one, whatever stands in
\* front of them and behind them (cmd_parser.c:160-274).
THEOREM ExpandsTokenByToken == CmdSpec => []ExpandsAsDefined
<1>1. CmdInit => ScanInv /\ TemplateInv
  BY ScanInvInit, TemplateInvInit
<1>2. ScanInv /\ TemplateInv /\ [CmdNext]_cmdVars => (ScanInv /\ TemplateInv)'
  BY ScanInvStep, TemplateInvStep
<1>3. ScanInv /\ TemplateInv => ExpandsAsDefined
  BY TemplateInvMeans
<1> QED
  BY <1>1, <1>2, <1>3, PTL DEF CmdSpec
=============================================================================
