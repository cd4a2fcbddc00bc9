------------------------------ MODULE Dispatch ------------------------------
(***************************************************************************)
(* main() of ph.c, Windows build: what an invocation of ph.exe does from   *)
(* its start to its exit code, for a set of invocations that run at the    *)
(* same time on one machine (the shell starts one per clicked link).       *)
(*                                                                         *)
(* The invocations share the disk: the configuration files, the fixed      *)
(* download file $TEMP/ph.dat and the files replace_file names.            *)
(* The contents of the log file are not modelled here, only the places     *)
(* where main() opens it, and stays in the loop that shortens it.          *)
(***************************************************************************)
EXTENDS IniFile, Integers

LOCAL INSTANCE SequencesExt

CONSTANTS
  Proc,       \* the invocations
  Request,    \* how they may be called: a set of records, see RequestType
  LocalPath,  \* local configuration files other than the default ones
  Url,        \* addresses of remote configurations
  Remote,     \* [Url -> Content]: what the servers answer
  OldIni,     \* the configuration files on disk at the start
  ExampleIni, \* the lines of the built-in example configuration
  Target,     \* the files replace_file may name, each a Seq(Text)
  Present,    \* the other files that exist, for file_must_exist
  Executable, \* the programs that stat() finds executable
  BadRegex,   \* the regular expressions regreplace() cannot parse
  PageBase,   \* length of an error page address without url and message
  Fault,      \* the system calls that may fail, see FaultKind
  Killable    \* the invocations that may be killed

ConfigPath == {"ph.dat", "ph.ini", "TEMP/ph.dat"} \cup LocalPath

\* A configuration file: encoded tells whether it begins with xor_magic.
Content == [exists: BOOLEAN, encoded: BOOLEAN, lines: Lines]

RequestType ==
  [arg1: {"none", "-e", "-r", "-h", "url"},      \* what argv[1] is
   from: {"default", "local", "remote"},         \* what argv[2] is
   file: ConfigPath, out: ConfigPath, at: Url,   \* the file(s) or the address
   res: 0..6, section: Word, query: Query,       \* what uriparse_parse() gives
   urllen: Nat]                                  \* length of the escaped url

FaultKind == {"exedir", "outfile", "create", "cwd", "temp", "download", "log",
              "newfile", "write", "flush", "remove"}

ASSUME DispatchAssumption ==
  /\ Request \subseteq RequestType
  /\ Remote \in [Url -> Content]
  /\ OldIni \in [ConfigPath -> Content]
  /\ ExampleIni \in Lines
  /\ Target \subseteq Seq(Text)
  /\ PageBase \in Nat
  /\ Fault \subseteq FaultKind
  /\ Killable \subseteq Proc

-----------------------------------------------------------------------------
OK == 0
NO_INPUT == 1
NO_CURRENTDIR == 2
INI_PARSE_ERR == 5
FAILED_TO_OPEN_REPLACE_FILE == 9
FAILED_TO_PARSE_REGEX == 10
MISSING_REGEX == 12
NO_INI_SECTION_FOUND == 13
FAILED_TO_EXPAND_ENV == 14
NO_CMD_DIRECTIVE == 15
ERR_NO_USERDIR == 18
FAILED_TO_OPEN_CONFIG == 19
FAILED_TO_OPEN_LOGFILE == 20
FAILED_TO_DOWNLOAD_CONFIG == 21
FAILED_TO_ZEROPAD == 22
NOT_EXECUTABLE == 23
NO_USER_PARAM_FOUND == 24
FILE_NOT_FOUND == 25
PH_EXP_ERR_QUERYNVVAR_NOT_FOUND == EXP_ERR_QUERYNVVAR_NOT_FOUND + 32
CMD_MAX == 2047
PARAMS_SIZE == 4000  \* the buffer of display_error()

\* Not exit codes of the program: still running, crashed, killed.
RUNNING == -1
CRASHED == -2
KILLED == -3

-----------------------------------------------------------------------------
VARIABLES
  pc,     \* where in main() the invocation is
  req,    \* how it was called
  path,   \* ini_file: the configuration file it settled on
  conf,   \* ini_content: the configuration as it read it
  query,  \* uri_parsed.nvquery
  choice, \* which of the cmd directives run_cmd and pre_run_cmd point to
  held,   \* the result of regreplace(), before it is written
  exit,   \* the exit code
  page,   \* the code of the error page it opened
  ran,    \* the commands it started
  ini,    \* the configuration files on disk
  text    \* the files replace_file names, and their ".new" companions

local == <<req, path, conf, query, choice, held>>
verdict == <<exit, page>>
disk == <<ini, text>>
vars == <<pc, local, verdict, ran, disk>>

Place ==
  {"start", "mode", "encode", "encode_open", "encode_write", "locate",
   "locate_ini", "create_open", "create_write", "download", "transfer", "read",
   "global", "log", "uri", "section", "choose", "expand", "must_exist",
   "replace", "new_open", "new_write", "remove", "transform", "command", "exe",
   "precmd", "prewait", "launch", "finish", "clean", "done"}

\* One copy of a text file; edits are the replacements applied to it.  A full
\* one has the whole text, perhaps with the end of a longer text behind it that
\* another invocation wrote into the same file: nothing reads that end again.
Copy == [state: {"absent", "empty", "torn", "full"}, edits: Seq(Template)]

Started == [kind: {"precmd", "cmd"}, line: Seq(Text),
            window: {"normal", "minimized", "hidden"}]

TypeOK ==
  /\ pc \in [Proc -> Place]
  /\ req \in [Proc -> Request]
  /\ path \in [Proc -> ConfigPath]
  /\ conf \in [Proc -> Content]
  /\ query \in [Proc -> Query]
  /\ choice \in [Proc -> {"plain", "match", "nomatch"}]
  /\ held \in [Proc -> Seq(Template)]
  /\ exit \in [Proc -> Int]
  /\ page \in [Proc -> Nat]
  /\ ran \in [Proc -> Seq(Started)]
  /\ ini \in [ConfigPath -> Content]
  /\ text \in [Target -> [orig: Copy, new: Copy]]

NoFile == [exists |-> FALSE, encoded |-> FALSE, lines |-> <<>>]
EmptyFile == [exists |-> TRUE, encoded |-> FALSE, lines |-> <<>>]

Init ==
  /\ pc = [p \in Proc |-> "start"]
  /\ req \in [Proc -> Request]
  /\ path = [p \in Proc |-> "ph.ini"]
  /\ conf = [p \in Proc |-> NoFile]
  /\ query = [p \in Proc |-> <<>>]
  /\ choice = [p \in Proc |-> "plain"]
  /\ held = [p \in Proc |-> <<>>]
  /\ exit = [p \in Proc |-> RUNNING]
  /\ page = [p \in Proc |-> OK]
  /\ ran = [p \in Proc |-> <<>>]
  /\ ini = OldIni
  /\ text = [t \in Target |->
               [orig |-> [state |-> "full", edits |-> <<>>],
                new |-> [state |-> "absent", edits |-> <<>>]]]

-----------------------------------------------------------------------------
(* The directives as main() sees them *)

EnvVar(v) == [kind |-> "var", left |-> [env |-> TRUE, name |-> v],
              right |-> [env |-> FALSE, name |-> ""], negate |-> FALSE,
              lit |-> EmptyText]

Zero == <<Plain([zeros |-> 1, rest |-> ""])>>

\* DEFAULT_GCONFIG, the fields main() looks at
GlobalDefault ==
  [log_path |-> <<>>, log_level |-> Zero,
   prefix_help |-> <<EnvVar("windir")>>, prefix_cmd |-> <<EnvVar("windir")>>]

Global(p, d) == Directive(conf[p].lines, "_global", d, GlobalDefault[d])

Option(p, d) == Directive(conf[p].lines, req[p].section, d, <<>>)

\* The values in which main() replaces the variables, before and behind the
\* section of the url.
GlobalPaths(p) ==
  Global(p, "log_path") \o Global(p, "prefix_help") \o Global(p, "prefix_cmd")

SectionPaths(p) ==
  Option(p, "default_path") \o Option(p, "replace_file")
    \o Option(p, "file_must_exist")

-----------------------------------------------------------------------------
(* Steps of the control flow *)

At(p, place) == pc[p] = place

Goto(p, place) == pc' = [pc EXCEPT ![p] = place] /\ UNCHANGED verdict

\* return from main() without an error page
Exit(p, code) ==
  /\ pc' = [pc EXCEPT ![p] = "done"]
  /\ exit' = [exit EXCEPT ![p] = code]
  /\ UNCHANGED page

\* getenv("PH_HOME") is not NULL: main() has set it once it is past exedir()
KnowsHome(p) == ~At(p, "start") \/ "PH_HOME" \in DOMAIN Env

\* return display_error(code).  msglen is the length of error_string, or of
\* lastvar for the codes that show it.  The address of the page is built in a
\* buffer of PARAMS_SIZE bytes: beyond it the behaviour is undefined.  A PH_HOME
\* or, once the address is short enough, a windir that is not set is a NULL
\* pointer it reads from.
display_error(p, code, msglen) ==
  LET len == PageBase + req[p].urllen + msglen
  IN  /\ pc' = [pc EXCEPT ![p] = "done"]
      /\ \/ /\ KnowsHome(p) /\ len <= CMD_MAX - 15 /\ "windir" \in DOMAIN Env
            /\ exit' = [exit EXCEPT ![p] = code]
            /\ page' = [page EXCEPT ![p] = code]
         \/ /\ KnowsHome(p) /\ len > CMD_MAX - 15
            /\ exit' = [exit EXCEPT ![p] = 127]
            /\ UNCHANGED page
         \/ /\ \/ ~KnowsHome(p) \/ len >= PARAMS_SIZE
               \/ len <= CMD_MAX - 15 /\ "windir" \notin DOMAIN Env
            /\ exit' = [exit EXCEPT ![p] = CRASHED]
            /\ UNCHANGED page

\* Mutant of Fail: the program ends with the code and shows nothing.
FailQuietly(p, code) == Exit(p, code)

Fail(p, code) == display_error(p, code, 0)

\* The length of what stands between ${ and }.
RefLen(ref) == Size[ref.name] + IF ref.env THEN 4 ELSE 0

VarLen(tok) ==
  IF tok.kind = "var" THEN RefLen(tok.left)
  ELSE RefLen(tok.left) + RefLen(tok.right) + StrLen(tok.lit)
         + IF tok.negate THEN 3 ELSE 2

\* strlen(lastvar) after expand_vars() has been given t: the last variable or
\* conditional it has read, which is the one it could not resolve if it failed.
LastVarLen(t, q) ==
  LET read == {i \in DOMAIN t : t[i].kind # "lit"
                                /\ ~Unbound(SubSeq(t, 1, i - 1), q)}
  IN  IF read = {} THEN 0 ELSE VarLen(t[LastOf(read)])

\* display_error() with a code for which the address ends with lastvar.
FailWithVar(p, code, t) ==
  \E len \in {LastVarLen(t, query[p])} : display_error(p, code, len)

-----------------------------------------------------------------------------
(* Start, and the modes that handle no url *)

Start(p) ==
  /\ At(p, "start")
  /\ \/ Goto(p, "mode")
     \/ "exedir" \in Fault /\ Fail(p, NO_CURRENTDIR)
  /\ UNCHANGED <<local, ran, disk>>

\* -e, -r and -h, else on to the configuration.  An argv[2] is only looked at
\* when it is the last argument.
Mode(p) ==
  /\ At(p, "mode")
  /\ \/ req[p].arg1 = "-e" /\ Goto(p, "encode")
     \/ req[p].arg1 = "-r" /\ \E code \in {OK, 2, 3} : Exit(p, code)
     \/ req[p].arg1 = "-h" /\ Exit(p, OK)
     \/ /\ req[p].arg1 \in {"none", "url"}
        /\ Goto(p, CASE req[p].from = "remote" -> "download"
                     [] req[p].from = "local" -> "read"
                     [] OTHER -> "locate")
  /\ path' = [path EXCEPT ![p] =
                IF req[p].arg1 \in {"none", "url"} /\ req[p].from = "local"
                THEN req[p].file ELSE @]
  /\ UNCHANGED <<req, conf, query, choice, held, ran, disk>>

\* A line of bytes that are no text.
JunkLine == [kind |-> "junk", indent |-> FALSE, name |-> "", value |-> <<>>]

\* A write from the beginning of a file into which another invocation may have
\* written a longer text since it was truncated: the end of that text stays,
\* and cannot be read if only one of the two is encoded.
Overwrite(old, new) ==
  LET tail == SubSeq(old.lines, Len(new.lines) + 1, Len(old.lines))
  IN  [new EXCEPT !.lines = @ \o IF old.encoded = new.encoded THEN tail
                                 ELSE [i \in DOMAIN tail |-> JunkLine]]

\* encode_file(): read the input ...
EncodeRead(p) ==
  /\ At(p, "encode")
  /\ IF ini[req[p].file].exists
     THEN /\ Goto(p, "encode_open")
          /\ conf' = [conf EXCEPT ![p] = ini[req[p].file]]
     ELSE Exit(p, 1) /\ UNCHANGED conf
  /\ UNCHANGED <<req, path, query, choice, held, ran, disk>>

\* ... truncate the output; its NULL check comes after the first write ...
EncodeOpen(p) ==
  /\ At(p, "encode_open")
  /\ \/ Goto(p, "encode_write") /\ ini' = [ini EXCEPT ![req[p].out] = EmptyFile]
     \/ "outfile" \in Fault /\ Exit(p, CRASHED) /\ UNCHANGED ini
  /\ UNCHANGED <<local, ran, text>>

\* ... and write it, whatever fwrite() returns.  transcode_str() decodes what
\* is encoded already.
EncodeWrite(p) ==
  /\ At(p, "encode_write")
  /\ Exit(p, OK)
  /\ \/ ini' = [ini EXCEPT ![req[p].out] =
                   Overwrite(@, [conf[p] EXCEPT !.encoded = ~@])]
     \/ "write" \in Fault /\ UNCHANGED ini
  /\ UNCHANGED <<local, ran, text>>

-----------------------------------------------------------------------------
(* The configuration *)

\* The default place: ph.dat first ...
Locate(p) ==
  /\ At(p, "locate")
  /\ IF ini["ph.dat"].exists
     THEN Goto(p, "read") /\ path' = [path EXCEPT ![p] = "ph.dat"]
     ELSE Goto(p, "locate_ini") /\ path' = [path EXCEPT ![p] = "ph.ini"]
  /\ UNCHANGED <<req, conf, query, choice, held, ran, disk>>

\* Mutant of LocateIni: waits for somebody else to create the file.
LocateIniRetries(p) ==
  /\ At(p, "locate_ini")
  /\ Goto(p, IF ini["ph.ini"].exists THEN "read" ELSE "locate")
  /\ UNCHANGED <<local, ran, disk>>

\* ... then ph.ini, which is created when it is missing.
LocateIni(p) ==
  /\ At(p, "locate_ini")
  /\ Goto(p, IF ini["ph.ini"].exists THEN "read" ELSE "create_open")
  /\ UNCHANGED <<local, ran, disk>>

\* create_ini(): main() returns OK whatever it returns.
CreateOpen(p) ==
  /\ At(p, "create_open")
  /\ \/ Goto(p, "create_write") /\ ini' = [ini EXCEPT !["ph.ini"] = EmptyFile]
     \/ "create" \in Fault /\ Exit(p, OK) /\ UNCHANGED ini
  /\ UNCHANGED <<local, ran, text>>

\* No fwrite() is checked.  The other example files go to the working
\* directory, their fopen() is not checked either.
CreateWrite(p) ==
  /\ At(p, "create_write")
  /\ Exit(p, OK) \/ ("cwd" \in Fault /\ Exit(p, CRASHED))
  /\ \/ ini' = [ini EXCEPT !["ph.ini"] =
                   Overwrite(@, [EmptyFile EXCEPT !.lines = ExampleIni])]
     \/ "write" \in Fault /\ UNCHANGED ini
  /\ UNCHANGED <<local, ran, text>>

\* getfile(): truncate the download file ...
DownloadOpen(p) ==
  /\ At(p, "download")
  /\ \/ /\ Goto(p, "transfer")
        /\ ini' = [ini EXCEPT !["TEMP/ph.dat"] = EmptyFile]
     \/ "temp" \in Fault /\ Exit(p, CRASHED) /\ UNCHANGED ini
  /\ path' = [path EXCEPT ![p] = "TEMP/ph.dat"]
  /\ UNCHANGED <<req, conf, query, choice, held, ran, text>>

\* The answer as far as it has come in, cut after a line.
Answer(u, n) == [Remote[u] EXCEPT !.lines = SubSeq(@, 1, n)]

\* ... and let cURL write the answer into it; a transfer may fail halfway.
Transfer(p) ==
  /\ At(p, "transfer")
  /\ \/ /\ Goto(p, "read")
        /\ ini' = [ini EXCEPT !["TEMP/ph.dat"] =
                     Overwrite(@, Remote[req[p].at])]
     \/ /\ "download" \in Fault
        /\ Fail(p, FAILED_TO_DOWNLOAD_CONFIG)
        /\ \E n \in 0..Len(Remote[req[p].at].lines) :
             ini' = [ini EXCEPT !["TEMP/ph.dat"] =
                       Overwrite(@, Answer(req[p].at, n))]
  /\ UNCHANGED <<local, ran, text>>

\* The text of an unencoded file is not terminated in memory: what follows it
\* may be read as one more line, which is no directive.
Trailing(file) == IF file.encoded THEN {<<>>} ELSE {<<>>, <<JunkLine>>}

ReadConfig(p) ==
  /\ At(p, "read")
  /\ \/ /\ ini[path[p]].exists
        /\ Goto(p, "global")
        /\ \E junk \in Trailing(ini[path[p]]) :
             conf' = [conf EXCEPT ![p] =
                        [ini[path[p]] EXCEPT !.lines = @ \o junk]]
     \/ /\ ~ini[path[p]].exists
        /\ Fail(p, FAILED_TO_OPEN_CONFIG)
        /\ UNCHANGED conf
  /\ UNCHANGED <<req, path, query, choice, held, ran, disk>>

-----------------------------------------------------------------------------
(* [_global], the log file, the url *)

LogPath(p) == expand_vars(Global(p, "log_path"), <<>>)

\* loglevel after its validation: "0" and an empty value leave it 0, any
\* other value, valid or not, makes it at least 1.
Logs(p) == Global(p, "log_level") \notin {<<>>, Zero}

ReadGlobal(p) ==
  LET parses == Parses(conf[p].lines, "_global", GlobalDirectives)
      expands == ~Unbound(GlobalPaths(p), <<>>)
  IN  /\ At(p, "global")
      /\ \/ parses /\ expands /\ Goto(p, "log")
         \/ /\ parses /\ ~expands
            /\ FailWithVar(p, FAILED_TO_EXPAND_ENV, GlobalPaths(p))
         \/ ~parses /\ Fail(p, INI_PARSE_ERR)
      /\ UNCHANGED <<local, ran, disk>>

OpenLog(p) ==
  LET nowhere == /\ IsEmptyStr(LogPath(p))
                 /\ {"APPDATA", "HOME"} \cap DOMAIN Env = {}
  IN  /\ At(p, "log")
      /\ \/ nowhere /\ Fail(p, ERR_NO_USERDIR)
         \/ ~nowhere /\ "log" \in Fault /\ Fail(p, FAILED_TO_OPEN_LOGFILE)
         \/ ~nowhere /\ Goto(p, "uri")
      /\ UNCHANGED <<local, ran, disk>>

\* uriparse_parse() gives the section, the query and its own error numbers.
ParseUri(p) ==
  /\ At(p, "uri")
  /\ \/ req[p].arg1 = "none" /\ Fail(p, NO_INPUT) /\ UNCHANGED query
     \/ /\ req[p].arg1 # "none" /\ req[p].res # 0
        /\ Fail(p, 127 + req[p].res) /\ UNCHANGED query
     \/ /\ req[p].arg1 # "none" /\ req[p].res = 0
        /\ Goto(p, "section")
        /\ query' = [query EXCEPT ![p] = req[p].query]
  /\ UNCHANGED <<req, path, conf, choice, held, ran, disk>>

-----------------------------------------------------------------------------
(* The section of the url *)

\* Mutant of ReadSection: a section that is not found is nothing to do.
ReadSectionQuiet(p) ==
  LET parses == Parses(conf[p].lines, req[p].section, SectionDirectives)
      found == Found(conf[p].lines, req[p].section, SectionDirectives)
  IN  /\ At(p, "section")
      /\ \/ ~parses /\ FailWithVar(p, INI_PARSE_ERR, GlobalPaths(p))
         \/ parses /\ ~found /\ Exit(p, OK)
         \/ parses /\ found /\ Goto(p, "choose")
      /\ UNCHANGED <<local, ran, disk>>

\* INI_PARSE_ERR has the number of EXP_ERR_QUERYNVVAR_NOT_FOUND, one of the
\* codes that show lastvar.
ReadSection(p) ==
  LET parses == Parses(conf[p].lines, req[p].section, SectionDirectives)
      found == Found(conf[p].lines, req[p].section, SectionDirectives)
  IN  /\ At(p, "section")
      /\ \/ ~parses /\ FailWithVar(p, INI_PARSE_ERR, GlobalPaths(p))
         \/ parses /\ ~found /\ Fail(p, NO_INI_SECTION_FOUND)
         \/ parses /\ found /\ Goto(p, "choose")
      /\ UNCHANGED <<local, ran, disk>>

RunCmd(p, c) ==
  Option(p, CASE c = "plain" -> "cmd"
              [] c = "match" -> "cmd_usermatch"
              [] OTHER -> "cmd_nousermatch")

PreRunCmd(p, c) ==
  Option(p, CASE c = "plain" -> "precmd"
              [] c = "match" -> "precmd_usermatch"
              [] OTHER -> "precmd_nousermatch")

\* The parameters that strcmp_lcase() finds equal to the value of user_param,
\* which is not expanded.
UserHits(p) ==
  {i \in DOMAIN query[p] :
     \E w \in Word : /\ Option(p, "user_param") = <<Plain(Lit(w))>>
                     /\ Lower[w] = Lower[query[p][i].key]}

Choose(p, c) ==
  /\ choice' = [choice EXCEPT ![p] = c]
  /\ IF RunCmd(p, c) = <<>> THEN Fail(p, NO_CMD_DIRECTIVE)
                            ELSE Goto(p, "expand")

ChooseCommand(p) ==
  LET byUser == Option(p, "user_param") # <<>>
      user == query[p][FirstOf(UserHits(p))].value
  IN  /\ At(p, "choose")
      /\ \/ ~byUser /\ Choose(p, "plain")
         \/ /\ byUser /\ UserHits(p) = {}
            /\ Fail(p, NO_USER_PARAM_FOUND) /\ UNCHANGED choice
         \/ /\ byUser /\ UserHits(p) # {} /\ "USERNAME" \notin DOMAIN Env
            /\ Exit(p, CRASHED) /\ UNCHANGED choice
         \/ /\ byUser /\ UserHits(p) # {} /\ "USERNAME" \in DOMAIN Env
            /\ Choose(p, IF EqualNoCase(Env["USERNAME"], user)
                         THEN "match" ELSE "nomatch")
      /\ UNCHANGED <<req, path, conf, query, held, ran, disk>>

Expanded(p, d) == expand_vars(Option(p, d), query[p])

ExpandPaths(p) ==
  LET expands == ~Unbound(SectionPaths(p), query[p])
  IN  /\ At(p, "expand")
      /\ \/ expands /\ Goto(p, "must_exist")
         \/ ~expands /\ FailWithVar(p, FAILED_TO_EXPAND_ENV, SectionPaths(p))
      /\ UNCHANGED <<local, ran, disk>>

file_exists(f) ==
  f \in Present \/ (f \in Target /\ text[f].orig.state # "absent")

\* strlen(es): the message, which is not expanded, after curl_escape().  Size
\* is the escaped length of the words of a message.
MessageLen(t) == FoldLeft(LAMBDA n, tok : n + StrLen(tok.lit), 0, t)

MustExist(p) ==
  LET missing == /\ ~IsEmptyStr(Expanded(p, "file_must_exist"))
                 /\ ~file_exists(Expanded(p, "file_must_exist"))
  IN  /\ At(p, "must_exist")
      /\ \/ /\ missing
            /\ display_error(p, FILE_NOT_FOUND,
                             MessageLen(Option(p, "file_must_exist_error")))
         \/ ~missing /\ Goto(p, "replace")
      /\ UNCHANGED <<local, ran, disk>>

-----------------------------------------------------------------------------
(* replace() *)

ReplaceFile(p) == Expanded(p, "replace_file")

Regex(p) == Option(p, "replace_regex")

Replace(p) ==
  LET file == ReplaceFile(p)
      there == file \in Target /\ text[file].orig.state # "absent"
  IN  /\ At(p, "replace")
      /\ \/ IsEmptyStr(file) /\ Goto(p, "transform") /\ UNCHANGED held
         \/ /\ ~IsEmptyStr(file) /\ Regex(p) = <<>>
            /\ Fail(p, MISSING_REGEX) /\ UNCHANGED held
         \/ /\ ~IsEmptyStr(file) /\ Regex(p) # <<>> /\ ~there
            /\ Fail(p, FAILED_TO_OPEN_REPLACE_FILE) /\ UNCHANGED held
         \/ /\ ~IsEmptyStr(file) /\ there /\ Regex(p) \in BadRegex
            /\ Fail(p, FAILED_TO_PARSE_REGEX) /\ UNCHANGED held
         \/ /\ ~IsEmptyStr(file) /\ there /\ Regex(p) \notin BadRegex \cup {<<>>}
            /\ Goto(p, "new_open")
            /\ held' = [held EXCEPT ![p] = Append(text[file].orig.edits, Regex(p))]
      /\ UNCHANGED <<req, path, conf, query, choice, ran, disk>>

\* fopen("<file>.new", "w"); the result is not checked.
OpenNew(p) ==
  /\ At(p, "new_open")
  /\ \/ /\ Goto(p, "new_write")
        /\ text' = [text EXCEPT ![ReplaceFile(p)].new =
                      [state |-> "empty", edits |-> <<>>]]
     \/ "newfile" \in Fault /\ Exit(p, CRASHED) /\ UNCHANGED text
  /\ UNCHANGED <<local, ran, ini>>

\* Mutants of WriteNew: the result of fwrite() is not looked at ...
WriteNewUnchecked(p) ==
  /\ At(p, "new_write")
  /\ Goto(p, "remove")
  /\ \/ text' = [text EXCEPT ![ReplaceFile(p)].new =
                   [state |-> "full", edits |-> held[p]]]
     \/ /\ "write" \in Fault
        /\ text' = [text EXCEPT ![ReplaceFile(p)].new =
                      [state |-> "torn", edits |-> <<>>]]
  /\ UNCHANGED <<local, ran, ini>>

\* ... or the original is removed while the text is still in the buffer.
WriteNewUnflushed(p) ==
  /\ At(p, "new_write")
  /\ Goto(p, "remove")
  /\ UNCHANGED <<local, ran, disk>>

\* fwrite(), whose result is checked, then fflush() and fclose(), whose results
\* are only printed: the disk may turn out to be full at either.
WriteNew(p) ==
  /\ At(p, "new_write")
  /\ \/ /\ Goto(p, "remove")
        /\ text' = [text EXCEPT ![ReplaceFile(p)].new =
                      [state |-> "full", edits |-> held[p]]]
     \/ /\ "flush" \in Fault
        /\ Goto(p, "remove")
        /\ text' = [text EXCEPT ![ReplaceFile(p)].new =
                      [state |-> "torn", edits |-> <<>>]]
     \/ /\ "write" \in Fault
        /\ Fail(p, 127)
        /\ text' = [text EXCEPT ![ReplaceFile(p)].new =
                      [state |-> "torn", edits |-> <<>>]]
  /\ UNCHANGED <<local, ran, ini>>

\* remove(file); the result is only printed.  The rename() after it is
\* commented out.
RemoveOriginal(p) ==
  /\ At(p, "remove")
  /\ Goto(p, "transform")
  /\ \/ text' = [text EXCEPT ![ReplaceFile(p)].orig =
                   [state |-> "absent", edits |-> <<>>]]
     \/ "remove" \in Fault /\ UNCHANGED text
  /\ UNCHANGED <<local, ran, ini>>

-----------------------------------------------------------------------------
(* The command *)

PadLen == 10

\* The items of a comma separated value, one token per item; a value of commas
\* only has none.
Comma == Plain(Lit(","))

Listed(t, key) == {i \in DOMAIN t : t[i].lit = Lit(key) /\ t[i] # Comma}

Padded(p, prm) ==
  IF Listed(Option(p, "lpadzero"), prm.key) = {} THEN prm
  ELSE [prm EXCEPT !.value = transform_lpadzero(@, PadLen)]

\* A name that is listed twice is trimmed twice, which makes a difference.
Trimmed(p, prm) ==
  LET L == Listed(Option(p, "ltrimzero"), prm.key)
  IN  IF L = {} THEN prm
      ELSE IF \A i, j \in L : i = j
      THEN [prm EXCEPT !.value = transform_ltrimzero(@)]
      ELSE [prm EXCEPT !.value = transform_ltrimzero(transform_ltrimzero(@))]

\* Mutant of Transform: no check whether a parameter is too long to be padded.
TransformUnchecked(p) ==
  /\ At(p, "transform")
  /\ Goto(p, "command")
  /\ query' = [query EXCEPT ![p] =
                 [i \in DOMAIN @ |-> Trimmed(p, Padded(p, @[i]))]]
  /\ UNCHANGED <<req, path, conf, choice, held, ran, disk>>

\* A list directive without an item leaves its length uninitialised.
Uninit(p, d) ==
  /\ Assigns(conf[p].lines, req[p].section, d) # {}
  /\ Option(p, d) \in {<<>>, <<Comma>>}

\* The results are built in out[10]: ten characters or more do not fit with
\* their terminator, and the behaviour is undefined, as it is for an
\* uninitialised list, and for a trimmed parameter without '=', whose value is
\* the string literal of uriparse.c:4 that strcpy() then writes into.  The first
\* parameter that is too long to be padded ends it.
Transform(p) ==
  LET pads == {i \in DOMAIN query[p] :
                 Listed(Option(p, "lpadzero"), query[p][i].key) # {}}
      tooLong == {i \in pads : StrLen(query[p][i].value) > PadLen}
      padded == [i \in 1..Len(query[p]) |-> Padded(p, query[p][i])]
      trimmed == [i \in 1..Len(query[p]) |-> Trimmed(p, padded[i])]
      overflows ==
        \/ \E i \in pads : \A j \in tooLong : i < j
        \/ query[p] # <<>> /\ Uninit(p, "lpadzero")
        \/ query[p] # <<>> /\ Uninit(p, "ltrimzero") /\ tooLong = {}
        \/ /\ tooLong = {}
           /\ \E i \in DOMAIN query[p] :
                /\ Listed(Option(p, "ltrimzero"), query[p][i].key) # {}
                /\ \/ StrLen(trimmed[i].value) >= 10
                   \/ padded[i].value = EmptyText
  IN  /\ At(p, "transform")
      /\ \/ tooLong # {} /\ Fail(p, FAILED_TO_ZEROPAD) /\ UNCHANGED query
         \/ /\ tooLong = {}
            /\ Goto(p, "command")
            /\ query' = [query EXCEPT ![p] = trimmed]
         \/ overflows /\ Exit(p, CRASHED) /\ UNCHANGED query
      /\ UNCHANGED <<req, path, conf, choice, held, ran, disk>>

Cmd(p) == expand_vars(RunCmd(p, choice[p]), query[p])

PreCmd(p) == expand_vars(PreRunCmd(p, choice[p]), query[p])

ExpandCommand(p) ==
  LET expands == /\ ~Unbound(RunCmd(p, choice[p]), query[p])
                 /\ ~Unbound(PreRunCmd(p, choice[p]), query[p])
  IN  /\ At(p, "command")
      /\ \/ expands /\ Goto(p, "exe")
         \/ ~expands /\ Fail(p, PH_EXP_ERR_QUERYNVVAR_NOT_FOUND)
      /\ UNCHANGED <<local, ran, disk>>

\* getexe(): the first word of the command, here its first piece.
getexe(cmd) ==
  IF IsEmptyStr(cmd) THEN EmptyText
  ELSE cmd[FirstOf({i \in DOMAIN cmd : cmd[i] # EmptyText})]

CheckExecutable(p) ==
  /\ At(p, "exe")
  /\ \/ getexe(Cmd(p)) \in Executable /\ Goto(p, "precmd")
     \/ getexe(Cmd(p)) \notin Executable /\ Fail(p, NOT_EXECUTABLE)
  /\ UNCHANGED <<local, ran, disk>>

StartCommand(p, kind, line, window) ==
  ran' = [ran EXCEPT ![p] =
            Append(@, [kind |-> kind, line |-> line, window |-> window])]

\* system(precmd) ...
RunPrecmd(p) ==
  /\ At(p, "precmd")
  /\ IF IsEmptyStr(PreCmd(p))
     THEN Goto(p, "launch") /\ UNCHANGED ran
     ELSE /\ Goto(p, "prewait")
          /\ StartCommand(p, "precmd", PreCmd(p), "normal")
  /\ UNCHANGED <<local, disk>>

\* Mutant of PrecmdEnds: a precmd that fails ends the program.
PrecmdEndsOrFails(p) ==
  /\ At(p, "prewait")
  /\ Goto(p, "launch") \/ Fail(p, NOT_EXECUTABLE)
  /\ UNCHANGED <<local, ran, disk>>

\* ... returns when the command it started has ended.
PrecmdEnds(p) ==
  /\ At(p, "prewait")
  /\ Goto(p, "launch")
  /\ UNCHANGED <<local, ran, disk>>

One == <<Plain(Lit("1"))>>

Window(p) ==
  IF Option(p, "start_hidden") = One THEN "hidden"
  ELSE IF Option(p, "start_minimized") = One THEN "minimized"
  ELSE "normal"


\* runcmd() ignores the result of CreateProcess() and does not wait.
Launch(p) ==
  /\ At(p, "launch")
  /\ StartCommand(p, "cmd", Cmd(p), Window(p))
  /\ Goto(p, "finish")
  /\ UNCHANGED <<local, disk>>

Finish(p) ==
  /\ At(p, "finish")
  /\ IF Logs(p) THEN Goto(p, "clean") ELSE Exit(p, OK)
  /\ UNCHANGED <<local, ran, disk>>

\* The loop that shortens the log file may not end; when it does, or the log
\* is short enough, main() returns OK.
CleanLog(p) ==
  /\ At(p, "clean")
  /\ Exit(p, OK)
  /\ UNCHANGED <<local, ran, disk>>

-----------------------------------------------------------------------------
\* The process is ended from outside, between two of its steps.
Kill(p) ==
  /\ p \in Killable
  /\ ~At(p, "done")
  /\ Exit(p, KILLED)
  /\ UNCHANGED <<local, ran, disk>>

\* The steps that wait for nothing but the processor and the local disk.
Step(p) ==
  \/ Start(p) \/ Mode(p)
  \/ EncodeRead(p) \/ EncodeOpen(p) \/ EncodeWrite(p)
  \/ Locate(p) \/ LocateIni(p) \/ CreateOpen(p) \/ CreateWrite(p)
  \/ DownloadOpen(p) \/ ReadConfig(p)
  \/ ReadGlobal(p) \/ OpenLog(p) \/ ParseUri(p)
  \/ ReadSection(p) \/ ChooseCommand(p) \/ ExpandPaths(p) \/ MustExist(p)
  \/ Replace(p) \/ OpenNew(p) \/ WriteNew(p) \/ RemoveOriginal(p)
  \/ Transform(p) \/ ExpandCommand(p) \/ CheckExecutable(p)
  \/ RunPrecmd(p) \/ Launch(p) \/ Finish(p)

\* The steps that may never come: a server that does not answer (no timeout is
\* set), a precmd that does not end, a log loop that does not end.
Waiting(p) == Transfer(p) \/ PrecmdEnds(p) \/ CleanLog(p)

Terminated == (\A p \in Proc : At(p, "done")) /\ UNCHANGED vars

Next ==
  \/ \E p \in Proc : Step(p) \/ Waiting(p) \/ Kill(p)
  \/ Terminated

Spec == Init /\ [][Next]_vars

FairSpec == Spec /\ \A p \in Proc : WF_vars(Step(p))

-----------------------------------------------------------------------------
(* Properties *)

\* The parameter of the url that ${name} stands for, before any transform.
Asked(p, name) == req[p].query[FirstOf(Hits(name, req[p].query))].value

Pads(p, name) == Listed(Option(p, "lpadzero"), name) # {}

Trims(p, name) == Listed(Option(p, "ltrimzero"), name) # {}

\* The digits lpadzero promises (doc/README.txt:148-149, lib/transform.c:8).
DocumentedDigits == 9

\* v is what a command line may show for ${name}: the digits that were asked
\* for, with the leading zeros that lpadzero and ltrimzero promise.  Whether a
\* padded value has a zero too many is the question of PadsAsDocumented, whether
\* a value of zeros only keeps one that of LastZeroIsKept.
Shows(p, name, v) ==
  LET asked == Asked(p, name)
  IN  /\ v.rest = asked.rest
      /\ ~Pads(p, name) /\ ~Trims(p, name) => v = asked
      /\ Pads(p, name) /\ ~Trims(p, name)
           => v.zeros >= asked.zeros /\ StrLen(v) >= DocumentedDigits
      /\ Trims(p, name) => v.zeros = 0 \/ (asked.rest = "" /\ v.zeros = 1)

\* No transform touches what ref stands for.
Untouched(p, ref) == ref.env \/ (~Pads(p, ref.name) /\ ~Trims(p, ref.name))

Meaning(p, ref) == IF ref.env THEN Environ[ref.name] ELSE Asked(p, ref.name)

\* The condition of ${a=b:text} or ${a!=b:text} holds for this url.
Holds(p, tok) ==
  /\ Bound(tok.left, req[p].query) /\ Bound(tok.right, req[p].query)
  /\ EqualNoCase(Meaning(p, tok.left), Meaning(p, tok.right)) = ~tok.negate

\* piece is what a command line may show for a conditional.  One whose second
\* name is spoiled, or that compares transformed values, may go either way.
ShowsWhen(p, tok, piece) ==
  /\ piece \in {tok.lit, EmptyText}
  /\ Untouched(p, tok.left) /\ Untouched(p, tok.right) /\ tok.right \notin Spoiled
       => piece = IF Holds(p, tok) THEN tok.lit ELSE EmptyText

\* line is an instance of a template for invocation p.
Renders(p, template, line) ==
  /\ Len(line) = Len(template)
  /\ \A i \in DOMAIN template :
       LET tok == template[i] IN
       /\ tok.kind = "lit" => line[i] = tok.lit
       /\ tok.kind = "var" /\ tok.left.env => line[i] = Environ[tok.left.name]
       /\ tok.kind = "var" /\ ~tok.left.env => Shows(p, tok.left.name, line[i])
       /\ tok.kind = "cond" => ShowsWhen(p, tok, line[i])
       /\ tok.kind = "malformed" => line[i] = EmptyText

\* The url names the user who is logged in, in the parameter user_param names.
AsksForUser(p) ==
  \E i \in DOMAIN req[p].query :
    /\ \E w \in Word : /\ Option(p, "user_param") = <<Plain(Lit(w))>>
                       /\ Lower[w] = Lower[req[p].query[i].key]
                       /\ \A j \in 1..(i-1) :
                            Lower[req[p].query[j].key] # Lower[w]
    /\ EqualNoCase(req[p].query[i].value, Env["USERNAME"])

Configured(p, kind) ==
  LET c == IF Option(p, "user_param") = <<>> THEN "plain"
           ELSE IF AsksForUser(p) THEN "match" ELSE "nomatch"
  IN  IF kind = "cmd" THEN RunCmd(p, c) ELSE PreRunCmd(p, c)

\* Every command an invocation has started is an instance of the directive
\* the configuration gives for this url and this user, filled with the
\* parameters of the url, although the choice of the directive, the transforms
\* of the parameters and the substitution are steps apart (ph.c:970-1187).
LaunchedAsConfigured ==
  \A p \in Proc : \A i \in DOMAIN ran[p] :
    Renders(p, Configured(p, ran[p][i].kind), ran[p][i].line)

\* An invocation that returned OK for a url has started its command; the only
\* other way to OK is that it found no configuration, has read none, and now
\* there is one.  A file that an invocation was killed over, truncated and not
\* written, is no such excuse for the ones that read it (ph.c:605-616,
\* 1217-1342).
OkMeansLaunched ==
  \A p \in Proc :
    exit[p] = OK /\ req[p].arg1 = "url" =>
      \/ ran[p] # <<>> /\ ran[p][Len(ran[p])].kind = "cmd"
      \/ /\ req[p].from = "default" /\ ran[p] = <<>>
         /\ ini["ph.ini"].exists /\ ~conf[p].exists

\* The lengths that may come on top of the address of an error page: the
\* message of the configuration, or a variable that was read.
Additions(p) ==
  LET t == GlobalPaths(p) \o SectionPaths(p)
  IN  {0, MessageLen(Option(p, "file_must_exist_error"))}
        \cup {VarLen(t[i]) : i \in DOMAIN t}

AddressLen(p, addition) == PageBase + req[p].urllen + addition

\* The address of some error page does not fit a command line, or the buffer.
TooLong(p) == \E m \in Additions(p) : AddressLen(p, m) > CMD_MAX - 15
Overflows(p) == \E m \in Additions(p) : AddressLen(p, m) >= PARAMS_SIZE

\* The parameters of the url that bring digits into a buffer of ten characters,
\* or have no value to overwrite.
Overruns(p) ==
  \E i \in DOMAIN req[p].query :
    LET prm == req[p].query[i] IN
    \/ Uninit(p, "lpadzero") \/ Uninit(p, "ltrimzero")
    \/ Pads(p, prm.key)
    \/ Trims(p, prm.key) /\ (StrLen(prm.value) >= 10 \/ prm.value = EmptyText)

\* What may end an invocation with a crash: a NULL pointer for something that
\* is not there, or a buffer or list the code knows no bounds of.
MayCrash(p) ==
  \/ "windir" \notin DOMAIN Env
  \/ Overflows(p)
  \/ /\ ~conf[p].exists
     /\ \/ "exedir" \in Fault /\ "PH_HOME" \notin DOMAIN Env
        \/ "temp" \in Fault /\ req[p].from = "remote"
        \/ "cwd" \in Fault /\ req[p].from = "default"
  \/ "newfile" \in Fault /\ held[p] # <<>>
  \/ "USERNAME" \notin DOMAIN Env /\ Option(p, "user_param") # <<>>
  \/ Overruns(p)

\* "The program will always also use the error code as exit code"
\* (ph.c:485-486): an invocation for a url that ends with an error has opened
\* the page of this very error; without a page it ends only when the address
\* does not fit a command line (127), or by one of the crashes listed above.
\* The error comes from some thirty places, and page and exit code part ways
\* over data read long before (ph.c:155-225, 503, 994, 1117, 1146).
ErrorsAreShown ==
  \A p \in Proc :
    req[p].arg1 \in {"none", "url"} /\ exit[p] \notin {RUNNING, OK, KILLED} =>
      \/ exit[p] = page[p]
      \/ page[p] = OK /\ exit[p] = 127 /\ TooLong(p)
      \/ page[p] = OK /\ exit[p] = CRASHED /\ MayCrash(p)

\* replace() at no point leaves the disk without the text: the original is
\* there until its ".new" is complete, whatever fails (but the flush) or is
\* killed, as long as no other invocation replaces in the same file
\* (ph.c:227-294).
TextOnDisk ==
  \A t \in Target : "full" \in {text[t].orig.state, text[t].new.state}

\* With several invocations on the same file the disk alone is not enough (one
\* truncates the ".new" the other has completed), but then one of them still
\* holds the text and is about to write it.
TextSurvives ==
  \A t \in Target :
    \/ "full" \in {text[t].orig.state, text[t].new.state}
    \/ \E p \in Proc : At(p, "new_write") /\ ReplaceFile(p) = t

\* Seen from outside an invocation is one of module Invocation.
Outside == INSTANCE Invocation WITH
  Killed <- KILLED,
  kinds <- [p \in Proc |-> [i \in DOMAIN ran[p] |-> ran[p][i].kind]]

IsInvocation == Outside!Spec

\* Every invocation comes to an end, or stays forever where a server does not
\* answer, the precmd does not end or the log loop does not end; one whose
\* server or precmd does answer comes to an end too (the fairness is that of
\* the operating system's scheduler).
ComesToAnEnd ==
  \A p \in Proc : <>[](pc[p] \in {"done", "transfer", "prewait", "clean"})

\* The order in which main() comes to its places.
Rank ==
  [start |-> 1, mode |-> 2, encode |-> 3, encode_open |-> 4,
   encode_write |-> 5, locate |-> 6, locate_ini |-> 7, create_open |-> 8,
   create_write |-> 9, download |-> 10, transfer |-> 11, read |-> 12,
   global |-> 13, log |-> 14, uri |-> 15, section |-> 16, choose |-> 17,
   expand |-> 18, must_exist |-> 19, replace |-> 20, new_open |-> 21,
   new_write |-> 22, remove |-> 23, transform |-> 24, command |-> 25,
   exe |-> 26, precmd |-> 27, prewait |-> 28, launch |-> 29, finish |-> 30,
   clean |-> 31, done |-> 32]

Onward(p) ==
  /\ Rank[pc[p]] < Rank[pc'[p]]
  /\ \A q \in Proc \ {p} : pc'[q] = pc[q]

\* Whatever the others do to the disk, no step brings an invocation back to
\* where it was: nothing is tried again, so each ends after as many steps as
\* there are places unless it waits for somebody (ph.c:600-616, 1000-1221).
NeverTurnsBack == [][\E p \in Proc : Onward(p)]_vars

(* Statements of the documentation that the code does not keep *)

\* A replacement that went through leaves the replaced text in replace_file.
ReplacedInPlace ==
  \A p \in Proc :
    exit[p] = OK /\ held[p] # <<>> =>
      text[ReplaceFile(p)].orig = [state |-> "full", edits |-> held[p]]

\* The program ends with an error when it could not write the replaced text.
WriteFailureEnds ==
  [][\A p \in Proc : pc[p] = "new_write" /\ pc'[p] = "remove" =>
       text'[ReplaceFile(p)].new.state = "full"]_vars

\* An invocation works with the configuration of its own address.
OwnConfig ==
  \A p \in Proc :
    req[p].from = "remote" /\ At(p, "done") /\ ran[p] # <<>> =>
      conf[p].lines \in {Remote[req[p].at].lines,
                         Append(Remote[req[p].at].lines, JunkLine)}

\* A parameter that lpadzero names has nine digits when the command is filled
\* (doc/README.txt:148-149 and lib/transform.c:8; ph.c:1117-1118 pads to ten).
PadsAsDocumented ==
  \A p \in Proc : At(p, "command") =>
    \A i \in DOMAIN query[p] :
      Pads(p, query[p][i].key) /\ ~Trims(p, query[p][i].key)
        => StrLen(query[p][i].value) = DocumentedDigits

\* Of a parameter of zeros only, ltrimzero keeps the last zero.
LastZeroIsKept ==
  \A p \in Proc : At(p, "command") =>
    \A i \in DOMAIN query[p] :
      /\ req[p].query[i].value.zeros > 0 /\ req[p].query[i].value.rest = ""
      => query[p][i].value # EmptyText

=============================================================================
