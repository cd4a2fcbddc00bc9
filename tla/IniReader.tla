----------------------------- MODULE IniReader ------------------------------
(***************************************************************************)
(* The loop of ini_parse_stream() in lib/ini.c, with ini_callback() of     *)
(* ph.c as its handler: one action per kind of line, in the order of the   *)
(* tests of the loop body.  It computes what IniFile says of the lines.    *)
(***************************************************************************)
EXTENDS IniFile, Integers

CONSTANTS
  Input,  \* the line sequences to read
  Wanted  \* the section the handler looks for

ASSUME ReaderAssumption == Input \subseteq Lines /\ Wanted \in Word

VARIABLES
  lines,      \* the text
  lineno,     \* the lines read so far
  section,    \* the current section
  prev_name,  \* the name a continuation line belongs to, "" if there is none
  error,      \* the first line that failed, 0 if there is none
  found,      \* config.found
  config      \* the directives of the wanted section

readerVars == <<lines, lineno, section, prev_name, error, found, config>>

ReaderTypeOK ==
  /\ lines \in Lines
  /\ lineno \in 0..Len(lines)
  /\ section \in Word
  /\ prev_name \in Word
  /\ error \in 0..lineno
  /\ found \in BOOLEAN
  /\ config \in [SectionDirectives -> Template]

\* The loop is about to read text.
Unread(text) ==
  /\ lines = text
  /\ lineno = 0
  /\ section = "" /\ prev_name = ""
  /\ error = 0
  /\ found = FALSE
  /\ config = [d \in SectionDirectives |-> <<>>]

ReaderInit == \E text \in Input : Unread(text)

\* The line the loop is at, once the reader has returned it.
Current == lines[lineno + 1]

NextLine ==
  /\ lineno < Len(lines)
  /\ lineno' = lineno + 1
  /\ UNCHANGED lines

\* Mutants of FailLine: it counts one line too many, or keeps the last line.
FailNextLine == error' = IF error = 0 THEN lineno + 2 ELSE error
FailLastLine == error' = lineno + 1

FailLine == error' = IF error = 0 THEN lineno + 1 ELSE error

\* ini_callback(): it fails on a name it does not know in the wanted section.
Handler(name, value) ==
  IF Lower[section] # Lower[Wanted]
  THEN UNCHANGED <<error, found, config>>
  ELSE IF Lower[name] \in SectionDirectives
  THEN /\ config' = [config EXCEPT ![Lower[name]] = value]
       /\ found' = TRUE
       /\ UNCHANGED error
  ELSE FailLine /\ UNCHANGED <<found, config>>

-----------------------------------------------------------------------------
CommentLine ==
  /\ NextLine
  /\ Current.kind = "comment"
  /\ UNCHANGED <<section, prev_name, error, found, config>>

IsContinuation ==
  prev_name # "" /\ Current.indent /\ Current.kind # "comment"

\* Mutant of Continuation: only one line may continue a value.
ContinuationOnce ==
  /\ NextLine
  /\ IsContinuation
  /\ Handler(prev_name, RawText(Current))
  /\ prev_name' = ""
  /\ UNCHANGED section

Continuation ==
  /\ NextLine
  /\ IsContinuation
  /\ Handler(prev_name, RawText(Current))
  /\ UNCHANGED <<section, prev_name>>

\* Mutant of SectionLine: the name before the section line is not forgotten.
SectionKeepsName ==
  /\ NextLine
  /\ ~IsContinuation
  /\ Current.kind = "header"
  /\ section' = Chop[Current.name]
  /\ UNCHANGED <<prev_name, error, found, config>>

SectionLine ==
  /\ NextLine
  /\ ~IsContinuation
  /\ Current.kind = "header"
  /\ section' = Chop[Current.name]
  /\ prev_name' = ""
  /\ UNCHANGED <<error, found, config>>

PairLine ==
  /\ NextLine
  /\ ~IsContinuation
  /\ Current.kind = "pair"
  /\ prev_name' = Chop[Current.name]
  /\ Handler(Current.name, Current.value)
  /\ UNCHANGED section

NoSectionNoPair ==
  /\ NextLine
  /\ ~IsContinuation
  /\ Current.kind \in {"badheader", "junk"}
  /\ FailLine
  /\ UNCHANGED <<section, prev_name, found, config>>

EndOfText == lineno = Len(lines) /\ UNCHANGED readerVars

ReaderNext ==
  \/ CommentLine \/ Continuation \/ SectionLine \/ PairLine \/ NoSectionNoPair
  \/ EndOfText

ReaderSpec == ReaderInit /\ [][ReaderNext]_readerVars

-----------------------------------------------------------------------------
Sofar == SubSeq(lines, 1, lineno)

\* What the loop has collected after each line is what the look-back
\* definitions of IniFile say of the lines it has read: the last assignment
\* of each directive, continuation lines included, and whether one was found
\* (lib/ini.c:112-187, ph.c:1355-1445).
ConfigAgrees ==
  lineno > 0 =>
    /\ config = [d \in SectionDirectives |-> Directive(Sofar, Wanted, d, <<>>)]
    /\ found = Found(Sofar, Wanted, SectionDirectives)

\* The return value names the first line that is not acceptable, and is 0 only
\* when all of them are (lib/ini.c:96-186).
ErrorAgrees ==
  /\ (error = 0) = Parses(Sofar, Wanted, SectionDirectives)
  /\ error # 0 => /\ Parses(SubSeq(lines, 1, error - 1), Wanted, SectionDirectives)
                  /\ ~Parses(SubSeq(lines, 1, error), Wanted, SectionDirectives)

\* The loop's two variables are functions of the lines before it.
ContextAgrees ==
  /\ (prev_name # "") = Named(lines, lineno + 1)
  /\ section = IF HeadersUpTo(lines, lineno) = {} THEN ""
               ELSE Chop[lines[LastOf(HeadersUpTo(lines, lineno))].name]

=============================================================================
