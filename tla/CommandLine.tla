---------------------------- MODULE CommandLine -----------------------------
(***************************************************************************)
(* The quotes of ph.exe: getexe(), lib/getexe.c, finds the program of a    *)
(* command for the test whether it can be executed; cmdunquote(),          *)
(* lib/stringlib.c, takes the quotes off a file name, in place.            *)
(***************************************************************************)
EXTENDS Integers, Sequences

CONSTANTS
  Glyph,    \* the characters of a command or file name
  Commands  \* the commands and file names

Quote == "\""

\* What isspace() is true of.
Blank == {" ", "tab"}

ASSUME CommandAssumption == Commands \subseteq Seq(Glyph)

VARIABLES
  call,   \* the function that runs
  given,  \* the string it is given
  tmp,    \* the string it works on
  ci,     \* the character its loop looks at, from 0 on
  quote,  \* the character that ends the program
  phase   \* "start", "loop"; "done", returned; "crashed", after a write in
          \* front of the string

lineVars == <<call, given, tmp, ci, quote, phase>>

Called(f, s) ==
  /\ call = f
  /\ given = s
  /\ tmp = s
  /\ ci = 0
  /\ quote = " "
  /\ phase = "start"

LineInit == \E f \in {"getexe", "cmdunquote"}, s \in Commands : Called(f, s)

-----------------------------------------------------------------------------
(* getexe() *)

\* The characters of s that are no blanks.
Ink(s) == {n \in DOMAIN s : s[n] \notin Blank}

\* trim()
Stripped(s) ==
  IF Ink(s) = {} THEN <<>>
  ELSE SubSeq(s, CHOOSE n \in Ink(s) : \A m \in Ink(s) : n <= m,
                 CHOOSE n \in Ink(s) : \A m \in Ink(s) : n >= m)

BeginsQuoted(s) == s # <<>> /\ Head(s) = Quote

\* Mutant of TakeCommand: a quoted program ends at a blank too.
TakeCommandToBlank ==
  /\ call = "getexe" /\ phase = "start"
  /\ tmp' = IF BeginsQuoted(Stripped(given)) THEN Tail(Stripped(given)) ELSE Stripped(given)
  /\ phase' = "loop"
  /\ UNCHANGED <<call, given, ci, quote>>

TakeCommand ==
  /\ call = "getexe" /\ phase = "start"
  /\ tmp' = IF BeginsQuoted(Stripped(given)) THEN Tail(Stripped(given)) ELSE Stripped(given)
  /\ quote' = IF BeginsQuoted(Stripped(given)) THEN Quote ELSE " "
  /\ phase' = "loop"
  /\ UNCHANGED <<call, given, ci>>

Searching == call = "getexe" /\ phase = "loop"

KeepChar ==
  /\ Searching /\ ci < Len(tmp)
  /\ tmp[ci + 1] # quote
  /\ ci' = ci + 1
  /\ UNCHANGED <<call, given, tmp, quote, phase>>

CutProgram ==
  /\ Searching /\ ci < Len(tmp)
  /\ tmp[ci + 1] = quote
  /\ tmp' = SubSeq(tmp, 1, ci)
  /\ phase' = "done"
  /\ UNCHANGED <<call, given, ci, quote>>

\* Nothing ends the program: it is all of the command.
WholeCommand ==
  /\ Searching /\ ci = Len(tmp)
  /\ phase' = "done"
  /\ UNCHANGED <<call, given, tmp, ci, quote>>

-----------------------------------------------------------------------------
(* cmdunquote() *)

\* isquoted() returns a double quote: the first and the last character are one,
\* which may be the same character.
isquoted(s) == BeginsQuoted(s) /\ s[Len(s)] = Quote

LeaveUnquoted ==
  /\ call = "cmdunquote" /\ phase = "start"
  /\ ~isquoted(given)
  /\ phase' = "done"
  /\ UNCHANGED <<call, given, tmp, ci, quote>>

BeginShift ==
  /\ call = "cmdunquote" /\ phase = "start"
  /\ isquoted(given)
  /\ phase' = "loop"
  /\ UNCHANGED <<call, given, tmp, ci, quote>>

Shift ==
  /\ call = "cmdunquote" /\ phase = "loop"
  /\ ci < Len(given) - 1
  /\ tmp' = [tmp EXCEPT ![ci + 1] = tmp[ci + 2]]
  /\ ci' = ci + 1
  /\ UNCHANGED <<call, given, quote, phase>>

\* Mutant of Terminate: the terminator is set a character too late.
TerminateLate ==
  /\ call = "cmdunquote" /\ phase = "loop"
  /\ ci >= Len(given) - 1
  /\ Len(given) > 1
  /\ tmp' = SubSeq(tmp, 1, Len(given) - 1)
  /\ phase' = "done"
  /\ UNCHANGED <<call, given, ci, quote>>

Terminate ==
  /\ call = "cmdunquote" /\ phase = "loop"
  /\ ci >= Len(given) - 1
  /\ Len(given) > 1
  /\ tmp' = SubSeq(tmp, 1, Len(given) - 2)
  /\ phase' = "done"
  /\ UNCHANGED <<call, given, ci, quote>>

\* A lone quote: the terminator is written in front of the string.
TerminateInFront ==
  /\ call = "cmdunquote" /\ phase = "loop"
  /\ Len(given) = 1
  /\ phase' \in {"done", "crashed"}
  /\ UNCHANGED <<call, given, tmp, ci, quote>>

LineNext ==
  \/ TakeCommand \/ KeepChar \/ CutProgram \/ WholeCommand
  \/ LeaveUnquoted \/ BeginShift \/ Shift \/ Terminate \/ TerminateInFront

LineSpec == LineInit /\ [][LineNext]_lineVars

-----------------------------------------------------------------------------
(* Properties *)

\* Behind blanks, characters first to last of the command are a program name,
\* in quotes or up to a blank.
QuotedProgram(first, last) ==
  /\ \A n \in 1..first - 2 : given[n] \in Blank
  /\ given[first - 1] = Quote /\ given[last + 1] = Quote
  /\ \A n \in first..last : given[n] # Quote

PlainProgram(first, last) ==
  /\ \A n \in 1..first - 1 : given[n] \in Blank
  /\ given[first] \notin Blank \cup {Quote} /\ given[last] \notin Blank
  /\ \A n \in first..last : given[n] # " "
  /\ last < Len(given) => given[last + 1] = " "

\* The program whose file is checked is the one the command names first, in
\* quotes or not: nothing behind it, whatever blanks and quotes a parameter of
\* the url has brought into the command, changes it (getexe.c:3-30, ph.c:1195).
ProgramIsFirst ==
  call = "getexe" /\ phase = "done" =>
    \A first \in 1..Len(given) :
      /\ \A last \in first - 1..Len(given) - 1 :
           first > 1 /\ QuotedProgram(first, last) => tmp = SubSeq(given, first, last)
      /\ \A last \in first..Len(given) :
           PlainProgram(first, last) => tmp = SubSeq(given, first, last)

\* Shifting in place takes exactly the two quotes off; a name with one quote or
\* none stays as it is, and only a name that is a lone quote is written in front
\* of (stringlib.c:398-411, 488-501).
UnquotesOnce ==
  call = "cmdunquote" =>
    /\ phase = "done" =>
         IF isquoted(given) /\ Len(given) > 1
         THEN <<Quote>> \o tmp \o <<Quote>> = given
         ELSE tmp = given
    /\ phase = "crashed" => given = <<Quote>>

=============================================================================
