------------------------------ MODULE LogFile -------------------------------
(***************************************************************************)
(* The log file of ph.exe and what its invocations do to it: they append   *)
(* their lines (writelog()), and at the end of main() each one that finds  *)
(* the file too long reads its last part back, from behind the first "="   *)
(* of a header on, and rewrites the file with it.  Nothing is locked.      *)
(*                                                                         *)
(* A line break, "\r\n", is one character here; every entry begins with a  *)
(* line break and the header "===>".  A stream writes its buffer when it   *)
(* is full, when it is repositioned or closed, and appends in one step.    *)
(***************************************************************************)
EXTENDS Integers, Sequences

CONSTANTS
  Proc,       \* the invocations that share the log
  Old,        \* what the log may hold at the start
  Lines,      \* [Proc -> Seq(Seq(Char))]: what each logs up to the shortening;
              \* nothing with log_level 0
  Chatter,    \* [Proc -> Seq(Char)]: what it logs after it has measured the log
  LogLength,  \* log_length: the size a log may have before it is shortened
  Slack,      \* the 1024 bytes by which it is made shorter than that
  Block,      \* the size of the buffer of a stream
  Killable    \* the invocations that may be killed

\* Line break, the characters of a header, any other one, and a byte of memory
\* that was never set.
Char == {"n", "=", ">", "x", "y", "z", "?"}

ASSUME LogAssumption ==
  /\ Old \subseteq Seq(Char)
  /\ Lines \in [Proc -> Seq(Seq(Char))]
  /\ Chatter \in [Proc -> Seq(Char)]
  /\ \A p \in Proc : Len(Chatter[p]) < Block
  /\ LogLength \in Nat /\ Slack \in Nat /\ Slack < LogLength
  /\ Block \in Nat \ {0}
  /\ Killable \subseteq Proc

VARIABLES
  log,     \* the characters of the file
  pc,      \* where in main() the invocation is
  logged,  \* how many of its lines it has written
  buffer,  \* what its stream has not yet written to the file
  offset,  \* up to where its reading stream has read the file
  ahead,   \* what the reading stream has read and fgetc() not yet returned
  matched, \* how many characters of a header the loop has just seen
  newlen,  \* newlen of main()
  string,  \* the part of the log it has read back
  quiet,   \* nobody else has changed the file since it began to search
  torn     \* somebody has rewritten a file that others had changed meanwhile

reader == <<offset, ahead, matched, newlen>>
vars == <<log, pc, logged, buffer, reader, string, quiet, torn>>

Place == {"write", "measured", "reopen", "scan", "read", "truncate", "fill", "done"}

\* newlen is not counted further down: below this malloc() fails anyway.
Floor == -5

TypeOK ==
  /\ log \in Seq(Char)
  /\ pc \in [Proc -> Place]
  /\ logged \in [Proc -> Nat]
  /\ buffer \in [Proc -> Seq(Char)]
  /\ offset \in [Proc -> Nat]
  /\ ahead \in [Proc -> Seq(Char)]
  /\ matched \in [Proc -> 0..3]
  /\ newlen \in [Proc -> Int]
  /\ string \in [Proc -> Seq(Char)]
  /\ quiet \in [Proc -> BOOLEAN]
  /\ torn \in BOOLEAN

Init ==
  /\ log \in Old
  /\ pc = [p \in Proc |-> "write"]
  /\ logged = [p \in Proc |-> 0]
  /\ buffer = [p \in Proc |-> <<>>]
  /\ offset = [p \in Proc |-> 0]
  /\ ahead = [p \in Proc |-> <<>>]
  /\ matched = [p \in Proc |-> 0]
  /\ newlen = [p \in Proc |-> 0]
  /\ string = [p \in Proc |-> <<>>]
  /\ quiet = [p \in Proc |-> TRUE]
  /\ torn = FALSE

-----------------------------------------------------------------------------
At(p, place) == pc[p] = place

Goto(p, place) == pc' = [pc EXCEPT ![p] = place]

\* p changes the file: whoever else is searching in it is disturbed.
Disturb(p) == quiet' = [q \in Proc |-> q = p /\ quiet[q]]

\* Mutant of Append(ed): a stream opened with "wb", not with "ab+".
Overwritten(file, text) == text \o SubSeq(file, Len(text) + 1, Len(file))

\* A write in append mode.
Appended(file, text) == file \o text

\* The stream writes text to the end of the file, rest stays in its buffer.
Put(p, text, rest) ==
  /\ log' = Appended(log, text)
  /\ buffer' = [buffer EXCEPT ![p] = rest]
  /\ IF text = <<>> THEN UNCHANGED quiet ELSE Disturb(p)

Flush(p) == Put(p, buffer[p], <<>>)

\* writelog() of the next line: fprintf() writes the buffer whenever it is full.
WriteLog(p) ==
  LET text == buffer[p] \o Lines[p][logged[p] + 1]
      full == Block * (Len(text) \div Block)
  IN  /\ At(p, "write")
      /\ logged[p] < Len(Lines[p])
      /\ logged' = [logged EXCEPT ![p] = @ + 1]
      /\ Put(p, SubSeq(text, 1, full), SubSeq(text, full + 1, Len(text)))
      /\ UNCHANGED <<pc, reader, string, torn>>

\* An error of main(): the log is closed by the end of the program.
LeaveEarly(p) ==
  /\ At(p, "write")
  /\ logged[p] > 0
  /\ Flush(p)
  /\ Goto(p, "done")
  /\ UNCHANGED <<logged, reader, string, torn>>

\* The end of main(): fseek() writes the buffer, ftell() gives the size.
Measure(p) ==
  /\ At(p, "write")
  /\ logged[p] = Len(Lines[p])
  /\ IF Lines[p] = <<>>
     THEN Goto(p, "done") /\ UNCHANGED <<log, buffer, quiet>>
     ELSE /\ Put(p, buffer[p], Chatter[p])
          /\ Goto(p, IF Len(log \o buffer[p]) > LogLength
                     THEN "reopen" ELSE "measured")
  /\ UNCHANGED <<logged, reader, string, torn>>

\* The log is short enough.
Leave(p) ==
  /\ At(p, "measured")
  /\ Flush(p)
  /\ Goto(p, "done")
  /\ UNCHANGED <<logged, reader, string, torn>>

\* How long the shortened log may be.
Keep == LogLength - Slack

\* Mutant of Reopen: newlen is the whole log_length.
ReopenWithoutSlack(p) ==
  /\ At(p, "reopen")
  /\ log' = Appended(log, buffer[p])
  /\ buffer' = [buffer EXCEPT ![p] = <<>>]
  /\ quiet' = [q \in Proc |-> q = p \/ (buffer[p] = <<>> /\ quiet[q])]
  /\ offset' = [offset EXCEPT ![p] =
                  IF Len(log') >= LogLength THEN Len(log') - LogLength ELSE 0]
  /\ newlen' = [newlen EXCEPT ![p] = LogLength]
  /\ Goto(p, "scan")
  /\ UNCHANGED <<logged, ahead, matched, string, torn>>

\* Mutant of Reopen: fseek() goes before the beginning of a short file.
ReopenBefore(p) ==
  /\ At(p, "reopen")
  /\ log' = Appended(log, buffer[p])
  /\ buffer' = [buffer EXCEPT ![p] = <<>>]
  /\ quiet' = [q \in Proc |-> q = p \/ (buffer[p] = <<>> /\ quiet[q])]
  /\ offset' = [offset EXCEPT ![p] = Len(log') - Keep]
  /\ newlen' = [newlen EXCEPT ![p] = Keep]
  /\ Goto(p, "scan")
  /\ UNCHANGED <<logged, ahead, matched, string, torn>>

\* fclose(), fopen() for reading, and fseek() to newlen characters before the
\* end, which fails, and stays at the beginning, when the file is shorter.
Reopen(p) ==
  /\ At(p, "reopen")
  /\ log' = Appended(log, buffer[p])
  /\ buffer' = [buffer EXCEPT ![p] = <<>>]
  /\ quiet' = [q \in Proc |-> q = p \/ (buffer[p] = <<>> /\ quiet[q])]
  /\ offset' = [offset EXCEPT ![p] =
                  IF Len(log') >= Keep THEN Len(log') - Keep ELSE 0]
  /\ newlen' = [newlen EXCEPT ![p] = Keep]
  /\ Goto(p, "scan")
  /\ UNCHANGED <<logged, ahead, matched, string, torn>>

-----------------------------------------------------------------------------
(* The search for a header *)

\* What the stream has in its buffer when fgetc() is called: a new block of
\* the file if it was empty, nothing at the end of the file.
Loaded(p) ==
  IF ahead[p] # <<>> THEN ahead[p]
  ELSE SubSeq(log, offset[p] + 1,
              IF offset[p] + Block < Len(log) THEN offset[p] + Block ELSE Len(log))

\* fgetc(), -1 at the end of the file: a value no test of the loop looks for.
EndOfFile == "eof"

NextChar(p) == IF Loaded(p) = <<>> THEN EndOfFile ELSE Head(Loaded(p))

Header == <<"=", "=", "=", ">">>

\* newlen is counted down for the character at the head of the loop only; the
\* up to three that are read after a '=' are not counted, nor read again.
Down(n) == IF n > Floor THEN n - 1 ELSE Floor

\* Mutant of Advance: every fgetc() reads a new block.
AdvanceBlock(p) ==
  /\ ahead' = [ahead EXCEPT ![p] = <<>>]
  /\ offset' = [offset EXCEPT ![p] = @ + Len(Loaded(p))]

Advance(p) ==
  LET rest == IF Loaded(p) = <<>> THEN <<>> ELSE Tail(Loaded(p))
  IN  /\ ahead' = [ahead EXCEPT ![p] = rest]
      /\ offset' = [offset EXCEPT ![p] =
                      IF ahead[p] # <<>> THEN @ ELSE @ + Len(Loaded(p))]

\* One fgetc() that does not complete a header.
Scan(p) ==
  /\ At(p, "scan")
  /\ ~(matched[p] = 3 /\ NextChar(p) = ">")
  /\ Advance(p)
  /\ matched' = [matched EXCEPT ![p] =
                   IF NextChar(p) = Header[@ + 1] THEN @ + 1 ELSE 0]
  /\ newlen' = [newlen EXCEPT ![p] = IF matched[p] = 0 THEN Down(@) ELSE @]
  /\ UNCHANGED <<log, pc, logged, buffer, string, quiet, torn>>

\* Mutant of HeaderFound: newlen is not corrected for the three characters.
HeaderFoundUncorrected(p) ==
  /\ At(p, "scan")
  /\ matched[p] = 3 /\ NextChar(p) = ">"
  /\ offset' = [offset EXCEPT ![p] =
                  (IF ahead[p] # <<>> THEN @ ELSE @ + Len(Loaded(p)))
                  - Len(Tail(Loaded(p))) - 3]
  /\ ahead' = [ahead EXCEPT ![p] = <<>>]
  /\ matched' = [matched EXCEPT ![p] = 0]
  /\ Goto(p, "read")
  /\ UNCHANGED <<log, logged, buffer, newlen, string, quiet, torn>>

\* The fgetc() that completes one: fseek(-3) gives up what was read ahead and
\* goes back to the second '=' of the header.
HeaderFound(p) ==
  /\ At(p, "scan")
  /\ matched[p] = 3 /\ NextChar(p) = ">"
  /\ offset' = [offset EXCEPT ![p] =
                  (IF ahead[p] # <<>> THEN @ ELSE @ + Len(Loaded(p)))
                  - Len(Tail(Loaded(p))) - 3]
  /\ ahead' = [ahead EXCEPT ![p] = <<>>]
  /\ matched' = [matched EXCEPT ![p] = 0]
  /\ newlen' = [newlen EXCEPT ![p] = @ + 3]
  /\ Goto(p, "read")
  /\ UNCHANGED <<log, logged, buffer, string, quiet, torn>>

-----------------------------------------------------------------------------
(* Reading the rest and writing it back *)

Rest(p) == SubSeq(log, offset[p] + 1, Len(log))

\* n bytes of malloc()ed memory up to the first that happens to be 0.
Junk(n) == {[i \in 1..k |-> "?"] : k \in 0..n}

\* malloc(newlen + 1), fread() of newlen - 3 bytes.  Of a file that is shorter
\* the memory behind it was never set.  A newlen of 2 or less makes the number
\* of bytes to read huge and the memory too small for them: the program may
\* crash or go on with all of the rest.
ReadBack(p) ==
  LET n == newlen[p] - 3
  IN  /\ At(p, "read")
      /\ \/ newlen[p] + 1 < 0 /\ Goto(p, "done") /\ UNCHANGED string
         \/ newlen[p] + 1 >= 0 /\ n < 0 /\ Goto(p, "done") /\ UNCHANGED string
         \/ /\ newlen[p] + 1 >= 0 /\ n < 0
            /\ string' = [string EXCEPT ![p] = Rest(p)] /\ Goto(p, "truncate")
         \/ /\ n >= 0 /\ Len(Rest(p)) >= n
            /\ string' = [string EXCEPT ![p] = SubSeq(Rest(p), 1, n)]
            /\ Goto(p, "truncate")
         \/ /\ n >= 0 /\ Len(Rest(p)) < n
            /\ \E junk \in Junk(n - Len(Rest(p))) :
                 string' = [string EXCEPT ![p] = Rest(p) \o junk]
            /\ Goto(p, "truncate")
      /\ UNCHANGED <<log, logged, buffer, reader, quiet, torn>>

\* fopen(log_file, "wb")
Truncate(p) ==
  /\ At(p, "truncate")
  /\ log' = <<>>
  /\ Disturb(p)
  /\ torn' = (torn \/ ~quiet[p])
  /\ Goto(p, "fill")
  /\ UNCHANGED <<logged, buffer, reader, string>>

\* fwrite() and fclose() of a stream that is not in append mode: what others
\* have written since is written over.
Fill(p) ==
  /\ At(p, "fill")
  /\ log' = string[p] \o SubSeq(log, Len(string[p]) + 1, Len(log))
  /\ Disturb(p)
  /\ torn' = (torn \/ ~quiet[p])
  /\ Goto(p, "done")
  /\ UNCHANGED <<logged, buffer, reader, string>>

-----------------------------------------------------------------------------
\* The process is ended from outside, what it has buffered is lost, and the
\* whole log when that happens between the truncation and the rewriting.
Kill(p) ==
  /\ p \in Killable
  /\ ~At(p, "done")
  /\ Goto(p, "done")
  /\ torn' = (torn \/ At(p, "fill"))
  /\ UNCHANGED <<log, logged, buffer, reader, string, quiet>>

Step(p) ==
  \/ WriteLog(p) \/ LeaveEarly(p) \/ Measure(p) \/ Leave(p)
  \/ Reopen(p) \/ Scan(p) \/ HeaderFound(p)
  \/ ReadBack(p) \/ Truncate(p) \/ Fill(p)

Terminated == (\A p \in Proc : At(p, "done")) /\ UNCHANGED vars

Next == (\E p \in Proc : Step(p) \/ Kill(p)) \/ Terminated

Spec == Init /\ [][Next]_vars

FairSpec == Spec /\ \A p \in Proc : WF_vars(Step(p))

-----------------------------------------------------------------------------
(* Properties *)

\* A header begins with character i of the log.
HeaderAt(i) ==
  i \in 1..(Len(log) - 3) /\ \A j \in 1..4 : log[i + j - 1] = Header[j]

\* A whole entry begins behind character i of the log.
EntryAt(i) == HeaderAt(i + 2) /\ log[i + 1] = "n"

\* Up to where the loop has looked.
Position(p) == offset[p] - Len(ahead[p])

\* Where the search began, as long as nobody else has changed the log.
SearchStart == IF Len(log) >= Keep THEN Len(log) - Keep ELSE 0

\* If nobody disturbs it, an invocation writes back the end of the log, all of
\* it, from behind the first '=' of a header on, with nothing behind it but memory
\* that was not set (HeaderFound goes back three of the four characters);
\* and no entry it could have kept lies before that header, although the loop
\* skips characters behind every '=' without counting them (ph.c:1294-1328).
KeptIsNewest ==
  \A p \in Proc : At(p, "truncate") /\ quiet[p] =>
    \E k \in 1..Len(log) :
      /\ HeaderAt(k)
      /\ Len(log) - k <= Len(string[p])
      /\ \A i \in 1..Len(string[p]) :
           string[p][i] = IF k + i <= Len(log) THEN log[k + i] ELSE "?"
      /\ \A i \in SearchStart..(k - 3) : ~EntryAt(i)

\* What an undisturbed invocation writes back is not longer than the log may be
\* after a shortening: the uncounted characters do not add up (ph.c:1294-1328).
FitsAfterwards ==
  \A p \in Proc : At(p, "truncate") /\ quiet[p] => Len(string[p]) <= Keep

\* The search ends when an entry lies ahead of it, whatever comes before the
\* entry, unless another invocation changes the file (ph.c:1306-1338).
SearchEnds ==
  \A p \in Proc :
    (At(p, "scan") /\ \E i \in Position(p)..Len(log) : EntryAt(i))
      ~> (~At(p, "scan") \/ ~quiet[p])

\* When one lies in the part where it searches, every fgetc() of an undisturbed
\* search brings it one character further, and never to the end of the file:
\* the loop ends after Keep characters at the latest (ph.c:1306-1338).
SearchAdvances ==
  [][\A p \in Proc :
       Scan(p) /\ quiet[p] /\ (\E i \in SearchStart..Len(log) : EntryAt(i))
         => Position(p)' = Position(p) + 1 /\ Position(p)' < Len(log)]_vars

\* Two invocations log, or one that may be killed while it rewrites the log.
AtRisk ==
  \E p, q \in Proc :
    Lines[p] # <<>> /\ Lines[q] # <<>> /\ (p # q \/ p \in Killable)

\* The log: between the truncation and the rewriting it is what will be written.
Text ==
  IF \E p \in Proc : At(p, "fill")
  THEN string[CHOOSE p \in Proc : At(p, "fill")] ELSE log

Lost == torn \/ \E p \in Proc : At(p, "fill") /\ ~quiet[p]

\* Seen from outside the log is the one of module SharedLog: each line reaches
\* it once and in order, and a shortening, although it is many steps and nothing
\* is locked, is one step that keeps the newest entries, unless another
\* invocation or a kill comes into its way (ph.c:128-146, 1273-1338).
Outside == INSTANCE SharedLog WITH
  text <- Text, spoken <- logged, unwritten <- buffer, lost <- Lost

IsSharedLog == Outside!Spec

(* Statements of the documentation that the code does not keep *)

\* Whenever the size is exceeded, entries are removed: the search for the first
\* one to keep comes to an end.
TooLongIsShortened ==
  \A p \in Proc : At(p, "scan") ~> At(p, "done")

=============================================================================
