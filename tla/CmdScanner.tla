----------------------------- MODULE CmdScanner -----------------------------
(***************************************************************************)
(* The loop of expand_vars(), lib/cmd_parser.c, over the characters of a   *)
(* string, with the buffer that append_resize() grows.  What the string    *)
(* means when it is cut into tokens is in CmdParser.                       *)
(*                                                                         *)
(* A name and the prefix "env." are one symbol each.                       *)
(***************************************************************************)
EXTENDS CmdParser, Integers, SequencesExt

CONSTANTS
  Strings,    \* the strings that are expanded
  Parameters, \* the queries they are expanded with
  BLOCKSIZE,  \* by how much the buffer grows, 4096
  PointerSize,\* sizeof(char*), 4 or 8: the first buffer has that many blocks
  Templates,  \* templates that strings are put together from
  Blanks      \* the blanks they are written with

TemplateSymbol == Word \cup {"$", "{", "}", ":", "=", "!", " ", "0", "env."}

ASSUME ScannerAssumption ==
  /\ Strings \subseteq Seq(TemplateSymbol)
  /\ Parameters \subseteq Query
  /\ BLOCKSIZE \in Nat \ {0}
  /\ PointerSize \in Nat \ {0, 1}

\* A literal is not empty and has no braces; names and the text of a conditional
\* have none of the characters that would end them.
WellWritten(tok) ==
  LET Named(ref) == ref.name \notin {"$", "{", "}", ":", "=", "!", " ", "env.", ""}
  IN  /\ tok \in Token
      /\ tok.lit.rest \notin {"{", "}"}
      /\ tok.kind = "lit" => tok.lit # EmptyText
      /\ tok.kind # "lit" => Named(tok.left)
      /\ tok.kind \in {"cond", "malformed"} => Named(tok.right) /\ tok.lit.rest # " "

ASSUME TemplateAssumption ==
  /\ Blanks \subseteq Seq({" "})
  /\ \A t \in Templates : t \in Seq({tok \in Token : WellWritten(tok)})

VARIABLES
  str,      \* the string
  query,    \* the parameters of the url
  at,       \* the character the loop looks at, from 0 on
  open,     \* inside ${...}
  start,    \* where the last ${ was
  colon,    \* has_colon
  equal,    \* has_equal
  out,      \* the text so far
  buffer,   \* buffer_length: how long the code takes the memory of out to be
  capacity, \* how long it is
  scan,     \* "loop"; "done", returned; "undefined", after an invalid access
  ret       \* what expand_vars() returns

cmdVars == <<str, query, at, open, start, colon, equal, out, buffer, capacity, scan, ret>>

EXP_ERR_REALLOC == 6

\* The loop before the first character.
Before(s, q) ==
  /\ str = s
  /\ query = q
  /\ at = 0
  /\ open = FALSE
  /\ start = 0
  /\ colon = FALSE
  /\ equal = FALSE
  /\ out = <<>>
  /\ buffer = BLOCKSIZE
  /\ capacity = PointerSize * BLOCKSIZE
  /\ scan = "loop"
  /\ ret = 0

CmdInit == \E s \in Strings, q \in Parameters : Before(s, q)

-----------------------------------------------------------------------------
(* The buffer *)

\* The characters of a Text.
Chars(t) == [k \in 1..StrLen(t) |-> IF k <= t.zeros THEN "0" ELSE t.rest]

\* Mutant of Grown: a block more than is needed is not asked for.
GrownByNeed(missing) == buffer + (missing \div BLOCKSIZE) * BLOCKSIZE

\* The new length when so many characters are missing: the division of the
\* negative number rounds towards zero.
Grown(missing) == buffer + BLOCKSIZE - (missing \div BLOCKSIZE) * BLOCKSIZE

\* append_resize() and the test of its result.  A block that realloc() cannot
\* extend is moved, and out still is where it was.
Append_resize(text) ==
  LET need == Len(out) + Len(text) + 1
      grown == Grown(need - buffer)
  IN  \/ /\ need <= buffer
         /\ out' = out \o text
         /\ UNCHANGED <<buffer, capacity, scan, ret>>
      \/ /\ need > buffer /\ grown > 0
         /\ out' = out \o text
         /\ buffer' = grown
         /\ capacity' = grown
         /\ scan' \in IF grown > capacity THEN {"loop", "undefined"}
                      ELSE IF need > grown THEN {"undefined"} ELSE {"loop"}
         /\ UNCHANGED ret
      \/ /\ need > buffer /\ grown <= 0
         /\ ret' = EXP_ERR_REALLOC
         /\ scan' = "done"
         /\ UNCHANGED <<out, buffer, capacity>>

NothingAppended == UNCHANGED <<out, buffer, capacity, scan, ret>>

-----------------------------------------------------------------------------
(* What is inside ${...} *)

\* The positions of c in s from position k on.
Places(c, s, k) == {n \in DOMAIN s : n >= k /\ s[n] = c}

Greatest(S) == CHOOSE k \in S : \A n \in S : n <= k

\* trim() and the loop that skips leading blanks
Trimmed(s) ==
  LET ink == {k \in DOMAIN s : s[k] # " "}
  IN  IF ink = {} THEN <<>> ELSE SubSeq(s, FirstOf(ink), Greatest(ink))

\* What a name refers to; a string that no name is made of refers to nothing.
Refs(name) ==
  {r \in Ref : name = IF r.env THEN <<"env.", r.name>> ELSE <<r.name>>}

\* find_var_value() returns 0
Resolves(name) == \E r \in Refs(name) : Bound(r, query)

\* *result of find_var_value()
ValueOf(name) == find_var_value(CHOOSE r \in Refs(name) : Bound(r, query), query)

\* A conditional at a "}", cut as parse_conditional() cuts it; negative is
\* cond->sign < 0.  A second "=" stays at the end of the first name.  With the
\* equal sign in front, the byte before the string is taken not to be a "!".
Conditional(expr) ==
  LET first == FirstOf(Places("=", expr, 1))
      double == first < Len(expr) /\ expr[first + 1] = "="
      negative == first > 1 /\ expr[first - 1] = "!"
      mid == IF double THEN first + 1 ELSE first
      stop == FirstOf(Places(":", expr, mid + 1))
  IN  [negative |-> negative,
       var1 |-> Trimmed(SubSeq(expr, 1, IF negative THEN mid - 2 ELSE mid - 1)),
       var2 |-> Trimmed(SubSeq(expr, mid + 1, stop - 1)),
       replace |-> Trimmed(SubSeq(expr, stop + 1, Len(expr)))]

\* The colon of a conditional is behind its equal sign.
HasColonBehind(expr) ==
  \E k \in Places("=", expr, 1) : Places(":", expr, k + 1) # {}

\* cond.match = 1
Matches(c) ==
  /\ Resolves(c.var1)
  /\ Resolves(c.var2) /\ Refs(c.var2) \cap Spoiled = {}
  /\ EqualNoCase(ValueOf(c.var1), ValueOf(c.var2)) = ~c.negative

-----------------------------------------------------------------------------
(* The loop *)

Char == str[at + 1]
Looking == scan = "loop" /\ at < Len(str)
Advance == at' = at + 1

IsOpening == at > 0 /\ Char = "{" /\ str[at] = "$"

\* "${" begins a variable; the "$" that was appended is removed.  Without
\* anything to remove the write goes in front of the buffer.
Opening ==
  /\ Looking /\ IsOpening
  /\ open' = TRUE
  /\ start' = at
  /\ colon' = FALSE
  /\ equal' = FALSE
  /\ IF out = <<>> THEN scan' = "undefined" /\ UNCHANGED out
                   ELSE scan' = scan /\ out' = SubSeq(out, 1, Len(out) - 1)
  /\ Advance
  /\ UNCHANGED <<str, query, buffer, capacity, ret>>

IsClosing == ~IsOpening /\ Char = "}"

\* varname: what is between start and the "}"; also without a "${".
Between == SubSeq(str, start + 2, at)

\* A "}" as the first character: the name has the length -1.
EmptyName ==
  /\ Looking /\ IsClosing
  /\ at = 0
  /\ scan' = "undefined"
  /\ UNCHANGED <<str, query, at, open, start, colon, equal, out, buffer, capacity, ret>>

\* Mutant of Closing: the brackets are left open.
ClosingStaysOpen ==
  /\ Looking /\ IsClosing
  /\ at > 0
  /\ colon' = FALSE
  /\ equal' = FALSE
  /\ Advance
  /\ UNCHANGED <<str, query, open, start>>

\* What the branches of a "}" have in common.
Closing ==
  /\ Looking /\ IsClosing
  /\ at > 0
  /\ open' = FALSE
  /\ colon' = FALSE
  /\ equal' = FALSE
  /\ Advance
  /\ UNCHANGED <<str, query, start>>

CloseVariable ==
  /\ Closing /\ ~(colon /\ equal)
  /\ \/ /\ ~Resolves(Between)
        /\ ret' = EXP_ERR_QUERYNVVAR_NOT_FOUND
        /\ scan' = "done"
        /\ UNCHANGED <<out, buffer, capacity>>
     \/ /\ Resolves(Between)
        /\ Append_resize(Chars(ValueOf(Between)))

\* Whatever parse_conditional() returns, only a match appends something.
CloseConditional ==
  /\ Closing /\ colon /\ equal
  /\ IF HasColonBehind(Between) /\ Matches(Conditional(Between))
     THEN Append_resize(Conditional(Between).replace)
     ELSE NothingAppended

\* Any other character: text outside ${...} is copied.
OtherChar ==
  /\ Looking /\ ~IsOpening /\ ~IsClosing
  /\ colon' = (colon \/ Char = ":")
  /\ equal' = (equal \/ Char = "=")
  /\ IF open THEN NothingAppended ELSE Append_resize(<<Char>>)
  /\ Advance
  /\ UNCHANGED <<str, query, open, start>>

EndOfString ==
  /\ scan = "loop" /\ at = Len(str)
  /\ scan' = "done"
  /\ UNCHANGED <<str, query, at, open, start, colon, equal, out, buffer, capacity, ret>>

CmdNext ==
  \/ Opening \/ EmptyName \/ CloseVariable \/ CloseConditional
  \/ OtherChar \/ EndOfString

CmdSpec == CmdInit /\ [][CmdNext]_cmdVars

-----------------------------------------------------------------------------
(* Properties *)

\* Nothing that is appended at once is as long as a block.
ShortPieces ==
  /\ Len(str) < BLOCKSIZE
  /\ \A v \in DOMAIN Environ : StrLen(Environ[v]) < BLOCKSIZE
  /\ \A n \in DOMAIN query : StrLen(query[n].value) < BLOCKSIZE

\* While no piece is as long as a block, the growth that append_resize()
\* computes with a division of a negative number is enough: the text and its
\* terminator are in the buffer, and it does not fail.  The pointer that its
\* caller keeps over a realloc() stays right until the text outgrows two blocks:
\* before that nothing goes wrong but a brace at the very beginning
\* (cmd_parser.c:141-156, 181-206).
AlwaysRoom ==
  ShortPieces => /\ Len(out) < buffer
                 /\ buffer <= capacity
                 /\ ret # EXP_ERR_REALLOC
                 /\ scan = "undefined"
                      => at = 0 \/ out = <<>> \/ buffer > 2 * BLOCKSIZE

WrittenRef(ref) == IF ref.env THEN <<"env.", ref.name>> ELSE <<ref.name>>

\* What is written in the braces of a token.  Malformed are a colon in front of
\* the equal sign and a second equal sign.
Expression(tok, blank) ==
  LET left == blank \o WrittenRef(tok.left) \o blank
      right == blank \o WrittenRef(tok.right) \o blank
      text == <<":">> \o blank \o Chars(tok.lit) \o blank
  IN  CASE tok.kind = "var" -> WrittenRef(tok.left)
        [] tok.kind = "cond" ->
             left \o (IF tok.negate THEN <<"!", "=">> ELSE <<"=">>) \o right \o text
        [] OTHER -> IF tok.negate THEN left \o <<":", "=">> \o right
                    ELSE left \o <<"=", "=">> \o right \o text

WrittenToken(tok, blank) ==
  IF tok.kind = "lit" THEN Chars(tok.lit)
  ELSE <<"$", "{">> \o Expression(tok, blank) \o <<"}">>

WrittenTemplate ==
  [k \in Templates \X Blanks |->
     FlattenSeq([n \in DOMAIN k[1] |-> WrittenToken(k[1][n], k[2])])]

\* The text a template expands to, as its tokens define it.
Expansion(template) ==
  FlattenSeq([n \in DOMAIN template |-> Chars(expand_vars(template, query)[n])])

\* The loop over the characters expands a template to what its tokens mean one
\* by one, and fails exactly when a variable has no value: the flags it keeps
\* about colons and equal signs are never those of another token
\* (cmd_parser.c:160-274 against the definitions of CmdParser).
ExpandsAsDefined ==
  scan = "done" /\ ret # EXP_ERR_REALLOC =>
    \A k \in DOMAIN WrittenTemplate :
      WrittenTemplate[k] = str =>
        IF Unbound(k[1], query) THEN ret = EXP_ERR_QUERYNVVAR_NOT_FOUND
        ELSE ret = 0 /\ out = Expansion(k[1])

=============================================================================
