----------------------------- MODULE CmdParser ------------------------------
(***************************************************************************)
(* Variable substitution, lib/cmd_parser.c, on templates that are already  *)
(* cut into tokens: literal text, ${name} and ${env.NAME}, and the         *)
(* conditional ${a=b:text} / ${a!=b:text}.                                 *)
(***************************************************************************)
EXTENDS PhText

CONSTANTS
  Env,    \* the environment ph.exe inherits: a function from names to Text
  ExeDir, \* the directory of the executable, a Text
  Spoiled \* the names that parse_conditional() reads with garbage behind them

ASSUME EnvAssumption ==
  /\ DOMAIN Env \subseteq Word
  /\ \A v \in DOMAIN Env : Env[v] \in Text
  /\ "PH_HOME" \in Word
  /\ ExeDir \in Text
  /\ \A ref \in Spoiled : ref.name \in Word

\* The environment after putenv("PH_HOME=<dir>").
Environ == [v \in DOMAIN Env \cup {"PH_HOME"} |->
              IF v = "PH_HOME" THEN ExeDir ELSE Env[v]]

-----------------------------------------------------------------------------
\* What a name inside ${...} refers to: an environment variable (the "env."
\* prefix) or a query parameter.
Ref == [env: BOOLEAN, name: Word]

\* "malformed" is an expression with a colon and an equal sign in the wrong
\* order, for which parse_conditional() returns an error.
TokenKind == {"lit", "var", "cond", "malformed"}

Token == [kind: TokenKind, left: Ref, right: Ref, negate: BOOLEAN, lit: Text]

Template == Seq(Token)

Param == [key: Word, value: Text]

Query == Seq(Param)

Plain(t) == [kind |-> "lit", left |-> [env |-> FALSE, name |-> ""],
             right |-> [env |-> FALSE, name |-> ""], negate |-> FALSE,
             lit |-> t]

-----------------------------------------------------------------------------
EXP_ERR_QUERYNVVAR_NOT_FOUND == 5

Hits(name, query) == {i \in DOMAIN query : query[i].key = name}

FirstOf(S) == CHOOSE i \in S : \A j \in S : i <= j

\* find_var_value() returns 0.  Names are compared with strcmp().
Bound(ref, query) ==
  IF ref.env THEN ref.name \in DOMAIN Environ ELSE Hits(ref.name, query) # {}

\* Mutant of find_var_value: the last parameter of that name wins.
find_var_valueLast(ref, query) ==
  IF ref.env THEN Environ[ref.name]
  ELSE query[CHOOSE i \in Hits(ref.name, query) :
               \A j \in Hits(ref.name, query) : j <= i].value

\* *result of find_var_value(): the first parameter of that name wins.
find_var_value(ref, query) ==
  IF ref.env THEN Environ[ref.name]
             ELSE query[FirstOf(Hits(ref.name, query))].value

\* cond.match of parse_conditional().  Every error it returns leaves match
\* unset, and its caller drops the error.  The second name is copied without
\* its terminator: with garbage behind it on the heap it names nothing.
parse_conditional(tok, query) ==
  /\ tok.kind = "cond"
  /\ Bound(tok.left, query)
  /\ Bound(tok.right, query) /\ tok.right \notin Spoiled
  /\ EqualNoCase(find_var_value(tok.left, query),
                 find_var_value(tok.right, query)) = ~tok.negate

\* The text a token contributes to the output of expand_vars().
Piece(tok, query) ==
  CASE tok.kind = "lit" -> tok.lit
    [] tok.kind = "var" -> find_var_value(tok.left, query)
    [] OTHER -> IF parse_conditional(tok, query) THEN tok.lit ELSE EmptyText

\* expand_vars() returns EXP_ERR_QUERYNVVAR_NOT_FOUND
Unbound(template, query) ==
  \E i \in DOMAIN template :
    template[i].kind = "var" /\ ~Bound(template[i].left, query)

\* *str after an expand_vars() that returned 0
expand_vars(template, query) ==
  [i \in 1..Len(template) |-> Piece(template[i], query)]

=============================================================================
