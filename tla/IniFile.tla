------------------------------ MODULE IniFile -------------------------------
(***************************************************************************)
(* What ini_parse_string() and the two callbacks of ph.c make of the lines *)
(* of a configuration: which directive ends up with which value, whether a *)
(* section was found, and whether the parse reports an error.              *)
(*                                                                         *)
(* lib/ini.c reads the lines in one loop that carries the section and the  *)
(* previous name along.  The definitions here say the same thing of each   *)
(* line by looking back at the lines before it; IniReader is the loop.     *)
(***************************************************************************)
EXTENDS CmdParser

CONSTANT
  Chop    \* [Word -> Word]: what strncpy0() leaves of a name in 50 bytes

ASSUME ChopAssumption ==
  /\ Chop \in [Word -> Word]
  /\ \A w \in Word : Chop[w] = "" <=> w = ""
  /\ "_global" \in Word

\* "comment" stands for blank and comment lines, "junk" for a line without
\* '=' or ':', "badheader" for a '[' without its ']'.
LineKind == {"comment", "header", "badheader", "pair", "junk"}

\* indent: the line begins with white space.  name is the directive of a
\* pair and the section of a header.  A pair without a name is left out.
Line == {l \in [kind: LineKind, indent: BOOLEAN, name: Word, value: Template] :
           l.kind = "pair" => l.name # ""}

Lines == Seq(Line)

\* The whole text of a line: what a continuation line hands to the handler.
RawText(l) == <<Plain(Lit(l.name))>> \o l.value

-----------------------------------------------------------------------------
\* *prev_name is set when the loop reaches line i: there was a pair, and no
\* section line since (an indented section line after a pair is no section
\* line but a continuation).
Named(lines, i) ==
  \E j \in 1..(i-1) :
    /\ lines[j].kind = "pair"
    /\ \A k \in (j+1)..(i-1) : ~(lines[k].kind = "header" /\ ~lines[k].indent)

\* A non-blank indented line is taken as a continuation of the value before it.
Continues(lines, i) ==
  lines[i].indent /\ lines[i].kind # "comment" /\ Named(lines, i)

\* The last of a set of line numbers.
LastOf(S) == CHOOSE i \in S : \A j \in S : j <= i

PairsUpTo(lines, i) ==
  {j \in 1..i : lines[j].kind = "pair" /\ ~Continues(lines, j)}

HeadersUpTo(lines, i) ==
  {j \in 1..i : lines[j].kind = "header" /\ ~Continues(lines, j)}

\* The arguments of the handler call that line i makes, if it makes one.
CallsHandler(lines, i) ==
  Continues(lines, i) \/ lines[i].kind = "pair"

CallSection(lines, i) ==
  IF HeadersUpTo(lines, i) = {} THEN ""
  ELSE Chop[lines[LastOf(HeadersUpTo(lines, i))].name]

CallName(lines, i) ==
  LET name == lines[LastOf(PairsUpTo(lines, i))].name
  IN  IF Continues(lines, i) THEN Chop[name] ELSE name

CallValue(lines, i) ==
  IF Continues(lines, i) THEN RawText(lines[i]) ELSE lines[i].value

\* Line i is no section line, no pair and no continuation.
SyntaxError(lines, i) ==
  lines[i].kind \in {"junk", "badheader"} /\ ~Continues(lines, i)

-----------------------------------------------------------------------------
\* Line i calls the handler for a name of the section it is looking for.
InSection(lines, i, section) ==
  /\ CallsHandler(lines, i)
  /\ Lower[CallSection(lines, i)] = Lower[section]

\* The lines that assign directive d of a section.
Assigns(lines, section, d) ==
  {i \in DOMAIN lines : InSection(lines, i, section)
                        /\ Lower[CallName(lines, i)] = d}

\* ini_parse_string() returns 0: no syntax error anywhere, and the handler
\* knew every directive of its section.
Parses(lines, section, known) ==
  \A i \in DOMAIN lines :
    /\ ~SyntaxError(lines, i)
    /\ InSection(lines, i, section) => Lower[CallName(lines, i)] \in known

\* config.found
Found(lines, section, known) ==
  \E d \in known : Assigns(lines, section, d) # {}

\* The field of the configuration: the last assignment wins.
Directive(lines, section, d, default) ==
  LET A == Assigns(lines, section, d)
  IN  IF A = {} THEN default ELSE CallValue(lines, LastOf(A))

\* The names ini_callback() knows.
SectionDirectives ==
  {"default_path", "allowed_params", "path_params", "cmd", "cmd_nousermatch",
   "cmd_usermatch", "user_param", "replace_file", "replace_regex", "ltrimzero",
   "lpadzero", "precmd", "precmd_usermatch", "precmd_nousermatch",
   "start_hidden", "start_minimized", "file_must_exist",
   "file_must_exist_error"}

\* The names global_callback() knows, in the section [_global].
GlobalDirectives ==
  {"log_path", "log_level", "prefix_help", "prefix_cmd", "max_log_size_bytes"}

=============================================================================
