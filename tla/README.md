# protohand: a TLA+ model of ph.exe

ph.exe is a protocol handler for Windows. The shell starts it once per clicked
link with the url as its first argument. It finds a configuration, looks up the
section that the url names, checks and prepares what the section asks for,
and starts the configured command. This directory models that program (the
MINGW build of `src/src/ph.c` and `src/src/lib`), checks the model with TLC, and
proves its safety properties and refinements with TLAPS. Line numbers refer to `src/src/`.

## The system

| part | state it keeps | operations | model |
|---|---|---|---|
| invocation, `main()` of ph.c | where it is, the chosen file, its copy of the configuration, the query, the chosen directive, exit code | thirty-odd steps with early returns, `display_error()` | Dispatch |
| configuration files | ph.dat, ph.ini beside the program, `$TEMP/ph.dat`, local files | read, `create_ini()`, `encode_file()`, `getfile()` | Dispatch |
| text replacement, `replace()` | the file and its `.new` | read, replace, write, remove | Dispatch |
| configuration reader, lib/ini.c and the callbacks | section, previous name, first error, the directives | one step per line | IniReader, IniFile |
| variable substitution, lib/cmd_parser.c | flags about the expression, a buffer that grows | `expand_vars()`, `append_resize()`, `parse_conditional()`, `find_var_value()` | CmdScanner (characters), CmdParser (tokens) |
| number transforms, lib/transform.c | none | `transform_lpadzero()`, `transform_ltrimzero()` | PhText |
| log file, ph.c:128-146, 709-741, 1273-1338 | the file, shared by all invocations, and a stream of each | append, measure, search, shorten | LogFile |
| uri parser, lib/uriparse.c, nvlist.c | stage, positions, the name-value list | `uriparse_parse()`, `parse_query()` | UriParse |
| encoding, lib/xor.c | the file | `transcode_str()`, `is_encoded()` | XorCode; one bit in Dispatch |
| regex replacement, lib/reg.cpp | the parts and their lengths | `regreplace()` | RegReplace; its outcome in Dispatch |
| program directory, mydir.c, realpath.c | none | `exedir()` | succeeds or fails in Dispatch |
| quotes, getexe.c, stringlib.c | none | `getexe()`, `isquoted()`, `cmdunquote()` | CommandLine |
| string helpers, lib/stringlib.c | none | case folding, lists, decoding, trimming | where they are used |
| error texts, errstr.c, create_error.c | tables | none | not modelled: text |

### How the parts interact

One invocation is one thread that never waits for another. Invocations meet
only on disk: in the default configuration files, which one may create
(`create_ini()`) or encode (`-e`) while another reads them; in the one download
file `$TEMP/ph.dat`; in the files `replace_file` names; and in the log. Nothing
is locked. The configuration reader calls back into ph.c
for every pair it finds; the callback's return value decides whether the parse
fails. All later parts read the configuration structure that the callbacks fill.
The uri parser gives main() the section (authority and path) and the parameters;
the substitution puts these into the chosen command.

### What is hard

* Several invocations interleave between any two system calls.
* Every system call may fail, and some results are not looked at.
* An invocation may be killed between two steps.
* A wait may never end: cURL has no timeout, `system(precmd)` waits for the
  command, the loop that shortens the log has no test for the end of the file.
* What is started depends on steps far apart: the choice of the directive
  (ph.c:970), the transforms (ph.c:1107), the substitution (ph.c:1155).
* The loops over characters keep positions, flags and lengths that must agree with
  each other after every character, whatever comes next.
* Undefined behaviour: buffers that are too short for a legal value, memory that
  is read without having been set, NULL results that are used.

### What makes each part correct

* Invocation: it starts nothing before it fails; it starts at most one precmd and
  then one cmd; what it starts is the configured directive with the
  parameters of the url; its exit code tells whether it got there; an error is shown;
  it ends.
* Replacement: the text of the file is never lost.
* Reader: the directives are the last assignments in the section; the reported
  error is the first one; continuation lines belong to the pair before them.
* Substitution: a template expands to what its tokens mean one by one, every variable
  of an expanded command has a value, and the text fits its buffer.
* Transforms: the digits other than leading zeros are kept, the width is right.
* Log: every line reaches it once and in order; what a shortening writes back is the end
  of the log from behind the first `=` of a header on, short enough; only two
  invocations that come into each
  other's way, or a kill, can lose an entry; the search for a header ends when one comes.
* Uri parser: the parts are those the uri was put together from, each parameter
  arrives with its name and value, no copy leaves the uri.
* Replacement expressions: they are cut where they are written to be cut, within
  the parts' buffers.
* Quotes: the program that is checked is the one the command names first; a file name
  loses exactly its two quotes.
* Encoding: what was encoded, however often, is read as it was written.

The full list of hazards, with the lines and the properties that cover them,
is in `PROJECT.json`.

## The modules

* **PhText**: strings as a number of leading zeros and an opaque word, since zeros
  are what the transforms change; comparison without case (`Lower`), length
  (`Size`), and the two transforms.
* **UriParse**: `uriparse_parse()` as a loop over symbols (an escaped character is
  one), one action per branch: the colon, a delimiter, any other character; then the
  copies of the parts and the parameters of the query, in the order of the code.
* **CmdScanner**: the loop of `expand_vars()` over symbols with its three flags, the
  buffer of `append_resize()`, and what `parse_conditional()` makes of a pair of braces.
* **RegReplace**: the loop of `regreplace()` that cuts `/search/replace/modifiers`.
* **CommandLine**: the loop of `getexe()`, which finds the program of an expanded command,
  and the shift in place of `cmdunquote()`.
* **XorCode**: a file that is encoded, decoded and read in any order, on bytes.
* **LogFile**: several invocations that append through buffered streams, measure the
  log, and shorten it: reopen, search a header character by character, read the
  rest, truncate, write. Another invocation or a kill may come between any of them.
* **SharedLog**: what the log promises to those who share it, in four variables: a line is
  written behind what is there, and a shortening is one step that keeps every entry that
  begins in the last part of the log. LogFile implements it: `Outside` in LogFile maps the
  file to `text` (between the truncation and the rewriting it is what is about to be
  written, `Text`), and `Lost` says from when on nothing is promised: somebody has
  rewritten the file from a copy that was no longer up to date, or was killed in between.
  Where nobody is at risk (`AtRisk`: two invocations log, or one that may be killed) it
  must never be lost.
* **CmdParser**: templates as sequences of tokens (literal, variable, conditional,
  malformed expression), the environment, name lookup and substitution. The
  second name of a conditional is copied without a terminator
  (cmd_parser.c:105-107); the constant `Spoiled` names the ones that the heap
  contents make unreadable.
* **IniFile**: a text as a sequence of classified lines, and what a parse makes of it,
  defined by looking back from each line: `Directive`, `Found`, `Parses`.
* **IniReader**: the loop of `ini_parse_stream()` with `ini_callback()`, one action
  per branch. It is checked to compute what IniFile defines, so that Dispatch
  can use IniFile's definitions in one step.
* **Dispatch**: `main()`. `pc` is the place in main; each action is the code between
  two places where another invocation or a kill can make a difference, or where
  main can return. `Goto`, `Exit` and `display_error` are the only ways to move.
  `ini` and `text` are the disk; `ran` records the commands started.
* **Invocation**: what one call promises to whoever starts it, in two variables.
  Dispatch implements it: `Outside` in Dispatch maps `ran` to the kinds
  of the commands started and `exit` to itself.
* **MCDispatch**, **MCLogFile**, **MCText**: the constants for TLC. MCText puts the
  six modules about lines and characters (IniReader, UriParse, CmdScanner, RegReplace,
  XorCode, CommandLine) into one run; a behaviour is a run of one of the loops. The
  reference definitions they are compared with, how a uri, a
  query, a template and a replacement is written down from its parts, are in the
  modules themselves, next to the properties.
* **DispatchProofs**, **IniReaderProofs**, **LogFileProofs**, **UriParseProofs**,
  **CmdScannerProofs** (with CommandLine), **CopyProofs** (RegReplace and XorCode): the
  theorems; **IniFileProofs**: lemmas about configurations, templates and transforms;
  **StringProofs**: about parts of strings, concatenations, and where the elements of
  a flattened sequence are in it.

Dispatch uses IniFile, CmdParser and PhText; what it takes from the loops is what
the loops are checked to compute: IniReader agrees with IniFile, CmdScanner with
CmdParser. From UriParse it takes the result (an error number, or a section and
parameters) as an input, any one of them.

Where the code has several system calls in a row on shared files, they are
several actions: `EncodeRead`, `EncodeOpen`, `EncodeWrite`; `Locate`,
`LocateIni`, `CreateOpen`, `CreateWrite`; `DownloadOpen`, `Transfer`; `Replace`,
`OpenNew`, `WriteNew`, `RemoveOriginal`. `fopen(..., "w")` truncates in one step
and the write fills the file in a later one, so another invocation can see the
file empty. A fault is a disjunct guarded by a member of `Fault`.

### Assumptions of the model

* `malloc()` does not fail. A read of memory that was not set is a choice: the text
  after an unencoded configuration may add one line that is no directive
  (`Trailing`), a conditional's second name may be unreadable (`Spoiled`), a list
  directive without an item (empty, or commas only) or a transform that overflows its
  ten bytes may crash or not.
* A crash stands for whatever an invalid memory access does; the model lets the
  invocation end there without an error page.
* The length of an error page's address counts the message and the variable that is shown
  (`lastvar`), the url and, as one number `PageBase`, the path and the fixed text.
* Two invocations that write one file at once: a text that is shorter than what the other
  has written keeps the rest of it behind (`Overwrite`), as a file without `O_APPEND` does.
  For the `.new` of a replacement no property looks at what is behind the text, and the
  model leaves the rest out.
* Names of the environment are written in a configuration as they are in the
  environment: `getenv()` of Windows ignores case, which the model does not use.
* Configuration lines are shorter than `INI_MAX_LINE` (4096 in this build) and
  come with comments and blanks already classified; names longer than 49
  characters are those that `Chop` changes. A pair without a name is left out.
* In Dispatch the command's first piece is the program; how a program in quotes is found
  is in CommandLine. What Windows makes of a command line is external.
* `-e` is called with a file; without one the program dereferences NULL.
* A connection that fails may leave any first part of the answer.
* CR LF line ends of a replaced file are not modelled (ph.c:246 reads in text mode
  and keeps the byte count of the file: the rest of the buffer is not set).
* UriParse: the blanks of a uri are escaped. A read in front of a copy (a `?` or `#`
  that ends the uri) gives anything in `Garbage` or crashes; writing more than
  `MaxParts` parameters may crash.
* CmdScanner: a name and the prefix `env.` are one symbol each, so a name does not
  overflow the 500 characters of `lastvar`; the byte in front of a conditional that
  begins with `=` is not a `!`. The first buffer has as many blocks as a pointer has
  bytes (`PointerSize`), at least two.
* LogFile: a line break is one character; an `fopen()` or write of the log that fails
  is left out; a stream writes its buffer when it is full, when it is repositioned
  and when it is closed. `newlen` stops at -5, where its value no longer matters.
* XorCode: a file shorter than the magic may be taken for encoded or not. The memory
  behind an unencoded text (ph.c:636-648) is in Dispatch (`Trailing`), not here; that
  decoding reads four bytes behind the text and writes one behind the result
  (xor.c:104-105) is in neither.

## The runs

For Dispatch one and two invocations are enough: the code has no counters of
invocations, and every race listed is between two of them. The log needs a third,
one that does not log, since it must leave the file alone.

| run | what it checks | instance |
|---|---|---|
| single | TypeOK, LaunchedAsConfigured, TextOnDisk, ErrorsAreShown, IsInvocation | one invocation, calls that between them take every branch, an environment without a default place for the log (`windir`, `USERNAME`), all faults but `flush`, killable |
| shared | TextSurvives, OkMeansLaunched | two invocations, 9 calls each, no faults |
| live | OkMeansLaunched, ErrorsAreShown, ComesToAnEnd, NeverTurnsBack, IsInvocation | two invocations, 5 calls each, one of them killable, an environment without `USERNAME`, `flush` may fail, weak fairness |
| log | TypeOK, KeptIsNewest, FitsAfterwards, SearchEnds, SearchAdvances, IsSharedLog | three invocations, one killable and one with `log_level` 0, five old logs, log_length 22, shortened to 18, streams of 5 characters, weak fairness |
| text | PartsAreMeant, NamesAreMeant, UriErrors, CopiesFit, ExpandsAsDefined, AlwaysRoom, SplitsAsWritten, WritesFit, ReadsBack, ProgramIsFirst, UnquotesOnce, ReaderTypeOK, ConfigAgrees, ErrorAgrees, ContextAgrees | uris, templates and replacements written from their parts, all uris, replacements and commands of up to 5 symbols; files of up to 4 bytes; all configurations of up to 4 lines of 11 kinds |

* **TypeOK** in `single` is more than types: the commands in `ran` are sequences of
  texts only if every variable in them had a value.
* **LaunchedAsConfigured** compares each started command with the
  directive, the url and the user, from the first state of the invocation. It asks of a
  padded value that it has at least the nine digits of the documentation and of a trimmed
  one that nothing but zeros is gone; the exact width and the last zero, where code and
  documentation differ, are the questions of the runs pad and trim. A conditional that compares
  transformed values, or whose second name memory decides, may be there or not; any
  other is decided by the url and the environment.
* **ErrorsAreShown**: an invocation for a url that ends with an error has opened the page of
  this very error. The exceptions are listed: the address does not fit a command line
  (`TooLong`, exit code 127), and the crashes (`MayCrash`): no `windir`, an address
  longer than the buffer, a missing directory before `PH_HOME` is set, a download or
  `.new` that cannot be opened, `user_param` without `USERNAME`, parameters that are
  longer than the transforms' buffer or have no value. Each names what it needs, a fault,
  a directive, a length, so a crash anywhere else violates it. IsInvocation alone would allow
  any error code at any time before a start.
* **TextOnDisk**, **TextSurvives**: no failure, kill or second invocation makes the text
  of a replaced file disappear. With two invocations the disk alone does not hold
  it at each moment (one truncates the `.new` that the other completed), but
  then one is about to write it. `flush` is left out of `single` because the code
  does lose the text then (run flush).
* **IsInvocation**: refinement of module Invocation.
* **OkMeansLaunched**: exit code 0 for a url means the command was started, or that
  the invocation found no configuration, read none, and there is one now. A ph.ini that
  a killed writer left empty or half written is no such excuse for those who read it
  later: `live` has the kill.
* **ComesToAnEnd**: under weak fairness of `Step(p)` every invocation ends, or from some
  time on stays in a transfer, waiting for the precmd, or in the log loop; to pass
  through one of these is not enough. `Step` holds
  only steps that need nothing but the processor and the local disk, so the
  fairness is that of the operating system's scheduler. The three `Waiting`
  steps get no fairness because the code does not bound them.
* **NeverTurnsBack**: the safety half of it, for every step and not only the fair ones. Each
  moves one invocation to a place of a higher `Rank` and leaves the others where they are, so
  nobody takes more steps than there are places, whatever is created, truncated or
  deleted meanwhile.
* **ConfigAgrees**, **ErrorAgrees**, **ContextAgrees**: the loop against the look-back
  definitions. Four lines are enough for a section, a pair, a line between, and a
  continuation or a second assignment.
* **KeptIsNewest**, **FitsAfterwards**: the loop at ph.c:1306 counts `newlen` down for
  some of the characters it reads and not for others, and corrects it by three
  at the end; what is read back is still all of the log from a header on, less its first
  `=` (`fseek()` goes three back of the four characters `===>`; with
  memory that was never set behind it, when characters were not counted), no
  entry that could have been kept lies before it, and it fits. Both speak of an
  invocation that nobody disturbs while it searches.
* **IsSharedLog**: refinement of module SharedLog. In `log` two invocations may lose entries to
  each other, but as long as neither has rewritten a stale copy all is as promised; a
  size that was measured before another shortening is no harm by itself. That nothing is
  lost where nothing is at risk is proved (NothingIsLostAlone).
* **SearchEnds**: under weak fairness of each invocation's steps, which are reads
  and writes of a local file. When there is no header ahead it does not end (run log_spin).
* **SearchAdvances**: the safety half: with an entry where an undisturbed search looks, each
  `fgetc()` moves it one character on, across the blocks that the stream reads ahead,
  and it never comes to the end of the file.
* **PartsAreMeant**, **NamesAreMeant**, **ExpandsAsDefined**, **SplitsAsWritten**: what is
  written down from its parts comes back as these parts. A backslash in front
  of another one is not among the replacements that are written.
* **UriErrors**: the error number of any uri, from what the uri is.
* **CopiesFit**, **AlwaysRoom**, **WritesFit**: no length is negative, no buffer too
  short. AlwaysRoom is about pieces shorter than a block: the text has room, and the
  pointer that `expand_vars()` keeps over a `realloc()` is right until the text outgrows two
  blocks. For longer pieces the division of a negative number in `append_resize()` gives a
  buffer that is too short, or none, and the model has these outcomes. WritesFit
  says that no part is written behind its end; a fourth delimiter, behind which the text goes to
  NULL, is outside of it.
* **ProgramIsFirst**: parameters of the url are in the command before its program is looked
  for; whatever blanks and quotes they bring, a program in quotes or without blanks that
  stands before them is the one that is checked.
* **UnquotesOnce**: the result of the shift in place, for names with two quotes, one or none;
  for a lone quote the byte in front of the name that is written is tolerated.
* **ReadsBack**: whatever is done to a file, it is what was written or its encoding.

Bounds. The words are those that the branches tell apart; lengths occur as 0, 1,
3, 10, 11, 2500 and 3950, on both sides of the pad width (10), of `CMD_MAX` - 15
and of the buffer of `display_error()` (4000). A query has at most four
parameters, a command seven tokens. In the log an entry is shorter than what a
shortening keeps and longer than a stream's buffer, old text begins and ends in the middle of
what may be a header. A block of the expansion has 12 characters, and values have
1, 3, 11, 13 and 40: within a block, at its edge, longer than a block, and longer than the
first buffer.

Deadlock is checked in all runs but `text`: when all invocations are done the system
stutters in `Terminated`. The loops of `text` really stop, at the end of their text.

### What the code does against its documentation

These runs end in a counterexample; the quotes are in `PROJECT.json`.

| run | what it shows |
|---|---|
| replaced | after a successful replacement the named file is gone: the rename after `remove()` is commented out (ph.c:288-291) |
| flush | a full disk noticed by `fflush()` is ignored and the original is removed (ph.c:283-288) |
| remote | two remote configurations at once share one file, one may be executed for the other's url (httpget.c:33) |
| create | a ph.ini that cannot be created gives exit code 0 (ph.c:612-614) |
| pad | `lpadzero` pads to ten digits where the documentation says nine (ph.c:1118) |
| trim | `ltrimzero` drops the last zero of "0" (transform.c:52-57) |
| log_spin | without a header in the last part of the log the search reads the end of the file forever (ph.c:1306) |

More is visible in the code, and in the model, without a run:

* An error before PH_HOME is set is reported by a function that needs it and
  crashes (ph.c:173, 503); an error message of more than 2032 characters gives exit
  code 127 in place of its own, 25 for a missing file (ph.c:191).
* A section whose name has 50 characters or more is never found (ini.c:142).
* With a log_length of 1025 to 1028 every shortening runs forever; a second shortening
  with the size measured before the first takes an entry that the first kept.
* The bytes of unset memory that a shortening writes behind the entries are counted by the
  next one as part of what it keeps (ph.c:1294-1334): entries may be lost to them.
* Parameter names are compared with case where the documentation says without
  (cmd_parser.c:32). A `==` in a conditional leaves a `=` on a name, which
  then has no value (cmd_parser.c:67).
* A uri that ends in `?` or `#` behind its authority has a query or fragment that was
  never set, and `?` stays in the authority (uriparse.c:217-232); `a://` makes the
  parser look in front of an empty authority.
* The test for too many parts of a replacement cannot be true when it matters:
  text behind a fourth delimiter is written to NULL (reg.cpp:80-113).

## What is proved

Every invariant, action property and refinement of the passing runs is proved, for every
value of the constants that satisfies the named assumptions (and, where the text says
so, a condition on the faults, kills or invocations): any number of invocations, any configurations, urls, files,
faults, logs, entries and strings.

The assumptions on the constants that texts are written from say what the notation
needs, and each is as weak as that: a part of a uri has none of the
delimiters that would end it (`UriPartsAssumption`), a name of a query no `&`, and no `=` and no NUL in
clear or encoded, and a value no `&` (`QueryPairsAssumption`), a text of a replacement a backslash
only where it is not an escape (`ReplacementAssumption`), and a name or text of a template none of the
symbols that would end it (`TemplateAssumption`).

**DispatchProofs**

* **TypeCorrect**: `Spec => []TypeOK`. TypeOK is not inductive: `RunPrecmd` and
  `Launch` record an expanded command, and it is a sequence of texts only because
  `ExpandCommand` found every variable bound, two to four steps before. The
  inductive invariant `TypeInv` adds `CommandsExpand`: past that step the
  commands of the invocation can be expanded. It holds because nothing between
  those steps changes the configuration, the query or the choice.
* **LaunchesWhatIsConfigured**: `Spec => []LaunchedAsConfigured`, with no assumption.
  The invariant `RenderInv` follows a command from step to step: the query is
  that of the url until the transforms (`AskedPlace`), the choice is the one the
  configuration gives from `ChooseCommand` on, the parameters are the transformed
  ones after `Transform` (`Filled`), and every line that was started is an instance
  of its directive (`Rendered`). Lemmas show that the transforms, one
  parameter after the other, do what the property says of each, and that a
  substitution with the transformed parameters is an instance of the template, its
  conditionals included (`ShowsWhen`).
* **ImplementsInvocation**: `Spec => IsInvocation`, for any faults and kills: the
  refinement. The invariant `Progress` relates the place in main() with what has
  been started and the exit code; then each step of Dispatch is one of Invocation
  or a stutter: before the precmd (`EarlyStep`) only errors and OK without a
  command, after it (`LateStep`) only the cmd, OK or a kill.
* **OkIsLaunched**: `Spec => []OkMeansLaunched`, if `create` is not among the faults (run
  create shows why), for any number of invocations and kills. The invariant
  `OutcomeInv` adds to Progress how an invocation at each place was called, that it has
  read no configuration where it writes one (`Called`), and what exists on disk then.
* **ErrorsShown**: `Spec => []ErrorsAreShown`, with no assumption. The invariant `ErrorInv`
  adds `Careful` to `Called`: no page is open before the end, and where something may
  crash the invocation is there for the reason `MayCrash` lists (a remote address, a text it
  holds); from `RenderInv` comes that the parameters are those of the url until the transforms.
  Then there are three ways for a step: on, to an error page, to an end without one (`Goes`,
  `Errs`, `Ends`), and each of the thirty-odd actions takes one of them (`StepWays`).
  The length of a page's address is bounded by `Additions`, since a variable that is
  shown is one of the template (`LastVarIsRead`).
* **TextIsNeverLost**: `Spec => []TextSurvives`, if neither writing nor flushing
  fails and nobody is killed. The inductive invariant `ReplaceInv` says more than
  TextSurvives: each text is held by the disk or by a writer (`NeverLost`), an
  invocation inside `replace()` works on a file of `Target` (`ReplacesTarget`),
  and when one is about to remove the original, the new text is complete or
  somebody is about to write it (`RemovesHeld`). The last part is what the removal
  step needs; the disturbing step is another invocation's `OpenNew`, which
  truncates `.new` but then is itself about to write it.
* **TextStaysOnDisk**: `Spec => []TextOnDisk` for one invocation, killed at any step and
  with any write that fails but the flush. The invariant `Intact`: all originals
  are there until the removal, where the `.new` is complete, and after the
  removal no step writes a text.
* **AlwaysOnward**: `Spec => NeverTurnsBack`. The measure is `Rank`; `StepOnward` shows of each
  action that it goes to a place of a higher one, and an end (an error page, a crash, a
  kill) to the last. Types are all the invariant it needs: the order does not
  depend on the disk.

**IniReaderProofs**, for texts of any length and any names: **TypeCorrect** (ReaderTypeOK),
**CollectsTheLast** (ConfigAgrees), **ReportsTheFirst** (ErrorAgrees), **CarriesTheContext** (ContextAgrees).
`ReaderInv` states of the first n lines what the properties state of the whole
text: the section and name that the loop carries are those found by looking back,
the directives are the last assignments so far, the error is the first so far.
The step shows that one more line changes what is found by looking back exactly as the
loop changes its variables.

**LogFileProofs**: **TypeCorrect**, for any number of invocations that write, truncate,
shorten and are killed in any order; the invariant adds `Behind`: what the reader has read ahead is behind its
position, so no stream is positioned before its beginning. **KeepsTheNewest**
and **FitsAfterShortening** (KeptIsNewest, FitsAfterwards): the invariant `LogInv`
says of an undisturbed search how far it is, that the characters it last saw are
those at its position, that no entry lies between its start and there, and how
`newlen` compares with the rest of the file (`Sought`); at a header, that it is one (`Found`); of what
was read back, that it is the rest of the file (`Kept`).

* **SearchIsBounded**: `Spec => SearchAdvances`. `Sought` says that no entry lies between the start of
  the search and its position, so the one there is lies ahead, and there is a character to read.
* **ImplementsSharedLog**: `Spec => IsSharedLog`, the refinement, for any number of invocations,
  kills included. The steps are one of four kinds: an append (`PutIsWrite`: what a stream
  writes, in blocks, is the first part of what was said), the truncation, which is where the
  abstract log is shortened (`TruncateShortens`, from `Kept`), the rewriting, which leaves it as
  it is (`FillStutters`), and reading, which is invisible (`ReadingStutters`). LogInv does not
  suffice. `SharedInv` adds that while one undisturbed invocation rewrites the log the file
  is empty and no other one does so (`Rewrites`), without which `Text` would not be well
  defined and the rewriting not a stutter; that only another invocation that logs
  disturbs (`Disturbed`), and that one that does not log never comes to the shortening (`Logs`),
  so that what is lost was at risk.
* **NothingIsLostAlone**: `Spec => [](Lost => AtRisk)`, from the same invariant: with one invocation that logs
  and is not killed the promise of SharedLog holds to the end.

**UriParseProofs**

* **EveryCopyFits** (CopiesFit): the positions are those of the delimiters they stand for
  (`Seen`) and in the order of the stages (`InOrder`), also when a delimiter ends
  the uri or is skipped behind the slashes.
* **ErrorsTellWhatIsMissing** (UriErrors): `ErrorInv` adds what each place of the parser has
  found out about the uri so far (`Told`), and that the number returned is the one
  for it (`Reported`).
* **UrisAreCutAsMeant** (PartsAreMeant): lemmas say where the delimiters of a uri that is put together
  are; `MeantInv` says that the position of each stage is the one of its
  delimiter as soon as the loop is behind it (`Placed`), through the branch that skips the
  slashes and the one for a delimiter that ends the uri.
* **NamesReachTheList** (NamesAreMeant): the pieces that strtok() makes of a
  query that is put together are the pairs, since no text between two `&` has one; `NameInv` says
  that the list has the pairs so far, in order, decoded.

**CmdScannerProofs**

* **ShortPiecesFit** (AlwaysRoom): `ScanInv`, and for the growth that a
  division of a negative number rounded down adds at least what is missing, as
  long as a piece is shorter than a block; a value that is inserted is no longer than
  the longest of its sources. `InPlace` says that the kept
  pointer is wrong only behind a brace at the very beginning or once the text has outgrown
  two blocks.
* **ExpandsTokenByToken** (ExpandsAsDefined), for templates of any number of tokens: the scanner
  agrees with the definitions of CmdParser that Dispatch uses. First, `ExpressionMeaning`:
  in what is written between two braces the scanner finds, for all blanks around them,
  the names and the text the token has, and a malformed one never matches (`Means`). Second, a
  written template has a place for each token (`Layout`) and an output behind each
  (`Outputs`). The invariant `TemplateInv` is that the loop is in one of these
  places (`Progress`): behind token n with the output of the first n; in a literal, o characters
  further; behind a `$`; or in braces, and then the two flags say which marks are in the
  characters of *this* token it has looked at. That last part is what makes the closing
  brace choose the right branch, and what keeping a flag over a token would break.
* **CheckedIsFirst** (ProgramIsFirst) and **UnquotingIsExact** (UnquotesOnce), of CommandLine:
  `LineInv` says that the loop has passed nothing that ends the program, and which
  characters are shifted.

**CopyProofs**

* **CutsWithinBounds** (WritesFit): the part that is being written is as long as `rl`, parts not
  yet begun are empty, and there are as many delimiters before the position as parts
  were begun (`RegInv`).
* **CutsAsWritten** (SplitsAsWritten): of an expression that is written from its parts there is a
  `Plan`, where each character of each part is in it; `SplitInv` says that the loop has copied
  the first k characters of part p and is at, or behind the backslash in front of, the next (`CopiedSoFar`).
* **EncodingIsUndone** (ReadsBack): `Decode(Encode(s)) = s` for every text, key and magic,
  and an encoded file is always recognised.

The induction over the tokens, parameters and characters of a text is in the runs of the
loops: what is needed of a flattened sequence (`FlattenedElements`, in StringProofs) is proved by its
least counterexample.

Only model-checked are ComesToAnEnd and SearchEnds, which are liveness under fairness and out
of the prover's reach. What they rest on is proved: a step never leads back
(NeverTurnsBack), and a search advances to an entry that is there (SearchAdvances); that an enabled step
is at last taken is the fairness. The properties of the runs that end in a counterexample
are false, and the runs show it.

That the newest entry always stays is not among the properties, since it is not true of any
number of invocations. With three, a shortening can write so much memory that was
never set behind the entries of two finished ones that, once the third has
written its own, the next shortening begins behind both, even if all entries together would fit
(the invocations log 7, 7 and 12 characters and a log of 26 is kept). SharedLog says
what is true: each shortening keeps what begins in the last part of the log, that memory included.

## Not modelled

* The help text, the test mode `-r` beyond its exit codes, the error page and what a
  log line says: they are text.
* Path resolution, PCRE, cURL and OpenSSL: external. The generated files and the vendored
  headers make up most of the lines of the repository; they keep no state of ph.exe.
* Names of 500 characters or more in a template (`lastvar`, cmd_parser.c:206), CR LF
  in a replaced file (ph.c:246).
* The finders of nvlist.c and the functions of stringlib.c that ph.exe does not call.
* The test programs and the programs for developers, and the build.
