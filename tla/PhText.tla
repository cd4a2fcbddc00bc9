------------------------------- MODULE PhText -------------------------------
(***************************************************************************)
(* The strings of ph.exe, as far as its decisions tell them apart, and the *)
(* two number transforms of lib/transform.c.                               *)
(*                                                                         *)
(* A string is a number of leading '0' characters followed by a word that  *)
(* does not begin with '0'.  Words are opaque; Lower says which of them    *)
(* strcmp_lcase() takes for equal and Size how long they are.              *)
(***************************************************************************)
EXTENDS Naturals, Sequences

CONSTANTS
  Word,   \* the words that occur, the empty one included
  Lower,  \* [Word -> Word]: the lower-case form of a word
  Size    \* [Word -> Nat]: its length in characters

ASSUME WordAssumption ==
  /\ "" \in Word
  /\ Lower \in [Word -> Word]
  /\ \A w \in Word : Lower[Lower[w]] = Lower[w]
  /\ Size \in [Word -> Nat]
  /\ \A w \in Word : Size[w] = 0 <=> w = ""

Text == [zeros: Nat, rest: Word]

Lit(w) == [zeros |-> 0, rest |-> w]

EmptyText == Lit("")

StrLen(t) == t.zeros + Size[t.rest]

\* strcmp_lcase(a, b) == 0
EqualNoCase(a, b) == a.zeros = b.zeros /\ Lower[a.rest] = Lower[b.rest]

\* A string built by strcat() is kept as the pieces it was built from.
IsEmptyStr(pieces) == \A i \in DOMAIN pieces : pieces[i] = EmptyText

-----------------------------------------------------------------------------
\* transform_lpadzero() on a string of at most maxlen characters
transform_lpadzero(t, maxlen) ==
  [t EXCEPT !.zeros = @ + (maxlen - StrLen(t))]

\* transform_ltrimzero(): the loop stops when one character is left, but only
\* looks after it has dropped a zero, so a lone "0" is dropped too.
transform_ltrimzero(t) ==
  [t EXCEPT !.zeros = IF t.rest = "" /\ t.zeros > 1 THEN 1 ELSE 0]

=============================================================================
