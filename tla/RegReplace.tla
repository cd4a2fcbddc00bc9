----------------------------- MODULE RegReplace -----------------------------
(***************************************************************************)
(* The loop of regreplace(), lib/reg.cpp, that cuts /search/replace/       *)
(* modifiers into its parts.  The regular expression library is external.  *)
(***************************************************************************)
EXTENDS Integers, Sequences, SequencesExt

CONSTANTS
  Character,    \* the characters of a string
  Expressions,  \* the strings that are given as regular expressions
  Replacements  \* what they are written for

ASSUME ExpressionAssumption == Expressions \subseteq Seq(Character)

\* The texts that have a backslash only in front of a character that needs
\* none, as in \d.
Escapable ==
  {s \in Seq(Character) :
     \A k \in DOMAIN s :
       s[k] = "\\" => k < Len(s) /\ s[k + 1] \notin {"/", "\\"}}

\* The text in front of the first slash and the modifiers are plain; the
\* modifiers are there with a slash in front of them or are not there.
ASSUME ReplacementAssumption ==
  \A r \in Replacements :
    LET Plainly(s) == s \in Seq(Character) /\ \A k \in DOMAIN s : s[k] \notin {"/", "\\"}
    IN  /\ r \in [pre : Seq(Character), search : Escapable, replace : Escapable,
                  modifiers : Seq(Character)]
        /\ Plainly(r.pre)
        /\ r.modifiers # <<>> => r.modifiers[1] = "/" /\ Plainly(Tail(r.modifiers))

VARIABLES
  areg,   \* the string
  ri,     \* the character the loop looks at, from 0 on
  rl,     \* the length of the part that is being copied
  rpos,   \* which part that is
  parts,  \* the parts
  split   \* "loop"; "done", ready for the library; "crashed", a write to NULL

regVars == <<areg, ri, rl, rpos, parts, split>>

PRE == 0
SEARCH == 1
REPLACE == 2
MODIFIER == 3

Unsplit(s) ==
  /\ areg = s
  /\ ri = 0
  /\ rl = 0
  /\ rpos = 0
  /\ parts = [p \in PRE..MODIFIER |-> <<>>]
  /\ split = "loop"

RegInit == \E s \in Expressions : Unsplit(s)

-----------------------------------------------------------------------------
RegChar(k) == IF k < Len(areg) THEN areg[k + 1] ELSE "NUL"

Splitting == split = "loop" /\ ri < Len(areg) /\ rpos < 5

NextChar == ri' = ri + 1

\* Mutant of IsDelimiter: a slash behind a backslash delimits too.
AnySlash == RegChar(ri) = "/"

\* A slash at the beginning, or without a backslash in front.
IsDelimiter == RegChar(ri) = "/" /\ (ri > 0 => RegChar(ri - 1) # "\\")

\* A backslash that escapes a slash or another backslash.
IsEscape == RegChar(ri) = "\\" /\ RegChar(ri + 1) \in {"/", "\\"}

\* Mutant of Delimit: the next part is copied behind the last one.
DelimitGoesOn ==
  /\ Splitting /\ IsDelimiter
  /\ rpos' = rpos + 1
  /\ NextChar
  /\ UNCHANGED <<areg, rl, parts, split>>

Delimit ==
  /\ Splitting /\ IsDelimiter
  /\ rpos' = rpos + 1
  /\ rl' = 0
  /\ NextChar
  /\ UNCHANGED <<areg, parts, split>>

\* The backslash is left out; the character behind it is looked at next.
Escape ==
  /\ Splitting /\ IsEscape
  /\ NextChar
  /\ UNCHANGED <<areg, rl, rpos, parts, split>>

\* The character and a terminator are written at rl; behind the terminator of
\* the part they are not part of it.
CopyChar ==
  /\ Splitting /\ ~IsDelimiter /\ ~IsEscape
  /\ rpos <= MODIFIER
  /\ parts' = [parts EXCEPT ![rpos] = IF rl <= Len(@) THEN SubSeq(@, 1, rl) \o <<RegChar(ri)>> ELSE @]
  /\ rl' = rl + 1
  /\ NextChar
  /\ UNCHANGED <<areg, rpos, split>>

\* parts[4] is NULL.
CopyToNull ==
  /\ Splitting /\ ~IsDelimiter /\ ~IsEscape
  /\ rpos > MODIFIER
  /\ split' = "crashed"
  /\ UNCHANGED <<areg, ri, rl, rpos, parts>>

\* The loop ends at the end of the string or at a fifth delimiter.
EndOfExpression ==
  /\ split = "loop" /\ (ri >= Len(areg) \/ rpos >= 5)
  /\ split' = "done"
  /\ UNCHANGED <<areg, ri, rl, rpos, parts>>

RegNext == Delimit \/ Escape \/ CopyChar \/ CopyToNull \/ EndOfExpression

RegSpec == RegInit /\ [][RegNext]_regVars

-----------------------------------------------------------------------------
(* Properties *)

\* The delimiters in front of character k.
DelimitersBefore(k) ==
  {n \in 0..k - 1 : RegChar(n) = "/" /\ (n > 0 => RegChar(n - 1) # "\\")}

\* The writes of the loop stay within the len + 1 characters of their part, and
\* each extends it; only text behind a fourth delimiter, which the test for too
\* many parts never sees, is written to NULL (reg.cpp:63-113).
WritesFit ==
  /\ rl <= ri /\ ri <= Len(areg)
  /\ rpos \in DOMAIN parts => rl = Len(parts[rpos])
  /\ split = "crashed" => Cardinality(DelimitersBefore(ri)) > MODIFIER

\* A text as it is written between slashes.
Escaped(s) == FlattenSeq([n \in DOMAIN s |-> IF s[n] = "/" THEN <<"\\", "/">> ELSE <<s[n]>>])

WrittenReplacement ==
  [r \in Replacements |->
     r.pre \o <<"/">> \o Escaped(r.search) \o <<"/">> \o Escaped(r.replace) \o r.modifiers]

\* An expression as the comment of regreplace() describes it is cut into its
\* search, replace and modifiers, with the escapes of "/" and no others removed
\* (reg.cpp:45-51, 76-113).
SplitsAsWritten ==
  split = "done" =>
    \A r \in Replacements :
      WrittenReplacement[r] = areg =>
        /\ parts[PRE] = r.pre
        /\ parts[SEARCH] = r.search
        /\ parts[REPLACE] = r.replace
        /\ parts[MODIFIER] = IF r.modifiers = <<>> THEN <<>> ELSE Tail(r.modifiers)

=============================================================================
