--------------------------- MODULE DispatchProofs ---------------------------
(***************************************************************************)
(* Proofs about Dispatch, for any number of invocations, any requests, any *)
(* configurations and any set of faults.                                   *)
(***************************************************************************)
EXTENDS Dispatch, IniFileProofs

LOCAL INSTANCE SequenceTheorems

(***************************************************************************)
(* Type correctness.  TypeOK alone is not inductive: RunPrecmd and Launch  *)
(* expand the command once more, and what they start is a sequence of      *)
(* texts only because ExpandCommand found every variable bound and nothing *)
(* the command depends on has changed since.                               *)
(***************************************************************************)
CommandPlace == {"exe", "precmd", "prewait", "launch"}

Expandable(p) ==
  /\ ~Unbound(RunCmd(p, choice[p]), query[p])
  /\ ~Unbound(PreRunCmd(p, choice[p]), query[p])

CommandsExpand == \A p \in Proc : pc[p] \in CommandPlace => Expandable(p)

TypeInv == TypeOK /\ CommandsExpand

-----------------------------------------------------------------------------
(* The steps of the control flow keep the types of pc, exit and page. *)

ControlOK ==
  /\ pc \in [Proc -> Place]
  /\ exit \in [Proc -> Int]
  /\ page \in [Proc -> Nat]

LEMMA GotoControl ==
  ASSUME ControlOK, NEW p \in Proc, NEW place \in Place, Goto(p, place)
  PROVE  ControlOK'
BY DEF ControlOK, Goto, verdict

LEMMA ExitControl ==
  ASSUME ControlOK, NEW p \in Proc, NEW code \in Int, Exit(p, code)
  PROVE  ControlOK'
BY DEF ControlOK, Exit, Place

LEMMA ErrorControl ==
  ASSUME ControlOK, NEW p \in Proc, NEW code \in Nat, NEW msglen,
         display_error(p, code, msglen)
  PROVE  ControlOK'
BY DEF ControlOK, display_error, Place, CRASHED

LEMMA FailControl ==
  ASSUME ControlOK, NEW p \in Proc, NEW code \in Nat, Fail(p, code)
  PROVE  ControlOK'
BY ErrorControl DEF Fail

\* An error whose page shows a variable is an error.
LEMMA FailWithVarShows ==
  ASSUME NEW p, NEW code, NEW t, FailWithVar(p, code, t)
  PROVE  \E msglen : display_error(p, code, msglen)
BY Zenon DEF FailWithVar

LEMMA FailWithVarControl ==
  ASSUME ControlOK, NEW p \in Proc, NEW code \in Nat, NEW t, FailWithVar(p, code, t)
  PROVE  ControlOK'
BY ErrorControl, FailWithVarShows

\* A step that only moves the control keeps the types of everything else.
LEMMA ControlStep ==
  ASSUME TypeOK, ControlOK', UNCHANGED <<local, ran, disk>>
  PROVE  TypeOK'
BY DEF TypeOK, ControlOK, local, disk

-----------------------------------------------------------------------------
(* What the operators of Dispatch return *)

LEMMA OptionType ==
  ASSUME TypeOK, NEW p \in Proc, NEW d
  PROVE  Option(p, d) \in Template
<1>1. conf[p].lines \in Lines
  BY DEF TypeOK, Content
<1>2. <<>> \in Template
  BY DEF Template
<1>3. QED
  BY <1>1, <1>2, DirectiveType DEF Option

LEMMA CommandTypes ==
  ASSUME TypeOK, NEW p \in Proc, Expandable(p)
  PROVE  Cmd(p) \in Seq(Text) /\ PreCmd(p) \in Seq(Text)
<1>1. query[p] \in Query
  BY DEF TypeOK
<1>2. RunCmd(p, choice[p]) \in Template /\ PreRunCmd(p, choice[p]) \in Template
  BY OptionType DEF RunCmd, PreRunCmd
<1>3. QED
  BY <1>1, <1>2, expand_varsType DEF Expandable, Cmd, PreCmd

LEMMA PaddedType ==
  ASSUME NEW p, NEW prm \in Param,
         Listed(Option(p, "lpadzero"), prm.key) # {}
           => ~(StrLen(prm.value) > PadLen)
  PROVE  Padded(p, prm) \in Param /\ Padded(p, prm).key = prm.key
<1>1. prm.value \in Text
  BY DEF Param
<1>2. StrLen(prm.value) \in Nat
  BY <1>1, StrLenType
<1>3. CASE Listed(Option(p, "lpadzero"), prm.key) = {}
  BY <1>3 DEF Padded
<1>4. CASE Listed(Option(p, "lpadzero"), prm.key) # {}
  <2>1. transform_lpadzero(prm.value, PadLen) \in Text
    BY <1>1, <1>2, <1>4, transform_lpadzeroPads DEF PadLen
  <2>2. Padded(p, prm)
          = [prm EXCEPT !.value = transform_lpadzero(prm.value, PadLen)]
    BY <1>4 DEF Padded
  <2>3. QED
    BY <2>1, <2>2 DEF Param
<1>5. QED
  BY <1>3, <1>4

LEMMA TrimmedType ==
  ASSUME NEW p, NEW prm \in Param
  PROVE  Trimmed(p, prm) \in Param
<1>1. prm.value \in Text
  BY DEF Param
<1>2. transform_ltrimzero(prm.value) \in Text
  BY <1>1, transform_ltrimzeroTrims
<1>3. transform_ltrimzero(transform_ltrimzero(prm.value)) \in Text
  BY <1>2, transform_ltrimzeroTrims
<1>4. \A v \in Text : [prm EXCEPT !.value = v] \in Param
  BY DEF Param
<1>5. QED
  BY <1>2, <1>3, <1>4, Zenon DEF Trimmed

-----------------------------------------------------------------------------
(* Every action keeps TypeOK. *)

LEMMA JunkLineType == JunkLine \in Line
<1>1. "" \in Word /\ "junk" \in LineKind
  BY WordAssumption DEF LineKind
<1>2. <<>> \in Template
  BY DEF Template
<1>3. QED
  BY <1>1, <1>2 DEF JunkLine, Line

LEMMA OverwriteType ==
  ASSUME NEW old \in Content, NEW new \in Content
  PROVE  /\ Overwrite(old, new) \in Content
         /\ Overwrite(old, new).exists = new.exists
<1>1. old.lines \in Lines /\ new.lines \in Lines
  BY DEF Content
<1> DEFINE n == Len(new.lines) + 1
           tail == SubSeq(old.lines, n, Len(old.lines))
           rest == IF old.encoded = new.encoded THEN tail
                   ELSE [i \in DOMAIN tail |-> JunkLine]
<1>2. /\ Len(new.lines) \in Nat /\ Len(old.lines) \in Nat
      /\ \A i \in 1..Len(old.lines) : old.lines[i] \in Line
  BY <1>1, LenProperties, ElementOfSeq DEF Lines
<1>3. n \in Int /\ n >= 1 /\ Len(old.lines) \in Int
  BY <1>2 DEF n
<1> HIDE DEF n
<1>4. \A i \in n..Len(old.lines) : old.lines[i] \in Line
  BY <1>2, <1>3
<1>5. tail \in Seq(Line)
  BY <1>3, <1>4, SubSeqProperties
<1> HIDE DEF tail
<1>6. rest \in Seq(Line)
  <2>1. DOMAIN tail = 1..Len(tail) /\ Len(tail) \in Nat
    BY <1>5, LenProperties
  <2>2. [i \in 1..Len(tail) |-> JunkLine] \in Seq(Line)
    BY <2>1, JunkLineType
  <2>3. QED
    BY <1>5, <2>1, <2>2
<1>7. Overwrite(old, new) = [new EXCEPT !.lines = new.lines \o rest]
  BY DEF Overwrite, tail, n
<1> HIDE DEF rest
<1>8. new.lines \o rest \in Lines
  BY <1>1, <1>6, ConcatProperties DEF Lines
<1>9. QED
  BY <1>7, <1>8 DEF Content

LEMMA ModeTypes ==
  ASSUME TypeOK, NEW p \in Proc,
         Start(p) \/ Mode(p) \/ EncodeRead(p) \/ EncodeOpen(p) \/ EncodeWrite(p)
  PROVE  TypeOK'
<1>0. ControlOK
  BY DEF TypeOK, ControlOK
<1>1. req[p] \in RequestType
  BY DispatchAssumption DEF TypeOK
<1>2. CASE Start(p)
  <2>1. ControlOK'
    BY <1>0, <1>2, GotoControl, FailControl DEF Start, Place, NO_CURRENTDIR
  <2>2. QED
    BY <1>2, <2>1, ControlStep DEF Start
<1>3. CASE Mode(p)
  <2>1. ControlOK'
    BY <1>0, <1>3, GotoControl, ExitControl DEF Mode, Place, OK
  <2>2. path' \in [Proc -> ConfigPath]
    BY <1>1, <1>3 DEF Mode, TypeOK, RequestType
  <2>3. QED
    BY <1>3, <2>1, <2>2 DEF Mode, TypeOK, ControlOK, disk
<1>4. CASE EncodeRead(p)
  <2>1. ControlOK'
    BY <1>0, <1>4, GotoControl, ExitControl DEF EncodeRead, Place
  <2>2. conf' \in [Proc -> Content]
    BY <1>1, <1>4 DEF EncodeRead, TypeOK, RequestType
  <2>3. QED
    BY <1>4, <2>1, <2>2 DEF EncodeRead, TypeOK, ControlOK, disk
<1>5. CASE EncodeOpen(p)
  <2>1. ControlOK'
    BY <1>0, <1>5, GotoControl, ExitControl DEF EncodeOpen, Place, CRASHED
  <2>2. EmptyFile \in Content
    BY DEF EmptyFile, Content, Lines
  <2>3. ini' \in [ConfigPath -> Content]
    BY <1>5, <2>2 DEF EncodeOpen, TypeOK
  <2>4. QED
    BY <1>5, <2>1, <2>3 DEF EncodeOpen, TypeOK, ControlOK, local
<1>6. CASE EncodeWrite(p)
  <2>1. ControlOK'
    BY <1>0, <1>6, ExitControl DEF EncodeWrite, OK
  <2>2. conf[p] \in Content
    BY DEF TypeOK
  <2>3. [conf[p] EXCEPT !.encoded = ~@] \in Content
    BY <2>2 DEF Content
  <2> DEFINE f == req[p].out
             old == ini[f]
             new == [conf[p] EXCEPT !.encoded = ~@]
  <2>4. f \in ConfigPath /\ old \in Content
    BY <1>1 DEF TypeOK, RequestType
  <2>5. Overwrite(old, new) \in Content
    BY <2>3, <2>4, OverwriteType
  <2>6. ini' = [ini EXCEPT ![f] = Overwrite(old, new)] \/ ini' = ini
    BY <1>6 DEF EncodeWrite
  <2> HIDE DEF f, old, new
  <2>7. ini' \in [ConfigPath -> Content]
    BY <2>4, <2>5, <2>6 DEF TypeOK
  <2>8. QED
    BY <1>6, <2>1, <2>7 DEF EncodeWrite, TypeOK, ControlOK, local
<1>7. QED
  BY <1>2, <1>3, <1>4, <1>5, <1>6

LEMMA AnswerType ==
  ASSUME NEW u \in Url, NEW n \in 0..Len(Remote[u].lines)
  PROVE  Answer(u, n) \in Content
<1>1. Remote[u] \in Content /\ Remote[u].lines \in Lines
  BY DispatchAssumption DEF Content
<1> DEFINE l == Remote[u].lines
<1>2. /\ Len(l) \in Nat /\ n \in Int
      /\ \A i \in 1..Len(l) : l[i] \in Line
  BY <1>1, LenProperties, ElementOfSeq DEF Lines
<1>3. \A i \in 1..n : l[i] \in Line
  BY <1>2
<1>4. SubSeq(l, 1, n) \in Lines
  BY <1>2, <1>3, SubSeqProperties DEF Lines
<1> HIDE DEF l
<1>5. Answer(u, n) = [Remote[u] EXCEPT !.lines = SubSeq(l, 1, n)]
  BY DEF Answer, l
<1>6. QED
  BY <1>1, <1>4, <1>5 DEF Content

LEMMA JunkType == ASSUME NEW f \in Content, NEW junk \in Trailing(f)
                  PROVE  junk \in Lines
<1>1. <<JunkLine>> \in Lines /\ <<>> \in Lines
  BY JunkLineType DEF Lines
<1>2. QED
  BY <1>1 DEF Trailing

LEMMA ConfigurationTypes ==
  ASSUME TypeOK, NEW p \in Proc,
         \/ Locate(p) \/ LocateIni(p) \/ CreateOpen(p) \/ CreateWrite(p)
         \/ DownloadOpen(p) \/ Transfer(p) \/ ReadConfig(p)
  PROVE  TypeOK'
<1>0. ControlOK
  BY DEF TypeOK, ControlOK
<1>1. req[p] \in RequestType
  BY DispatchAssumption DEF TypeOK
<1>2. EmptyFile \in Content
  BY DEF EmptyFile, Content, Lines
<1>3. CASE Locate(p)
  <2>1. ControlOK'
    BY <1>0, <1>3, GotoControl DEF Locate, Place
  <2>2. path' \in [Proc -> ConfigPath]
    BY <1>3 DEF Locate, TypeOK, ConfigPath
  <2>3. QED
    BY <1>3, <2>1, <2>2 DEF Locate, TypeOK, ControlOK, disk
<1>4. CASE LocateIni(p)
  <2>1. ControlOK'
    BY <1>0, <1>4, GotoControl DEF LocateIni, Place
  <2>2. QED
    BY <1>4, <2>1, ControlStep DEF LocateIni
<1>5. CASE CreateOpen(p)
  <2>1. ControlOK'
    BY <1>0, <1>5, GotoControl, ExitControl DEF CreateOpen, Place, OK
  <2>2. ini' \in [ConfigPath -> Content]
    BY <1>2, <1>5 DEF CreateOpen, TypeOK
  <2>3. QED
    BY <1>5, <2>1, <2>2 DEF CreateOpen, TypeOK, ControlOK, local
<1>6. CASE CreateWrite(p)
  <2>1. ControlOK'
    BY <1>0, <1>6, ExitControl DEF CreateWrite, OK, CRASHED
  <2>2. [EmptyFile EXCEPT !.lines = ExampleIni] \in Content
    BY DispatchAssumption DEF EmptyFile, Content
  <2> DEFINE old == ini["ph.ini"]
             new == [EmptyFile EXCEPT !.lines = ExampleIni]
  <2>3. "ph.ini" \in ConfigPath /\ old \in Content
    BY DEF TypeOK, ConfigPath
  <2>4. Overwrite(old, new) \in Content
    BY <2>2, <2>3, OverwriteType
  <2>5. ini' = [ini EXCEPT !["ph.ini"] = Overwrite(old, new)] \/ ini' = ini
    BY <1>6 DEF CreateWrite
  <2> HIDE DEF old, new
  <2>6. ini' \in [ConfigPath -> Content]
    BY <2>3, <2>4, <2>5 DEF TypeOK
  <2>7. QED
    BY <1>6, <2>1, <2>6 DEF CreateWrite, TypeOK, ControlOK, local
<1>7. CASE DownloadOpen(p)
  <2>1. ControlOK'
    BY <1>0, <1>7, GotoControl, ExitControl DEF DownloadOpen, Place, CRASHED
  <2>2. ini' \in [ConfigPath -> Content]
    BY <1>2, <1>7 DEF DownloadOpen, TypeOK
  <2>3. path' \in [Proc -> ConfigPath]
    BY <1>7 DEF DownloadOpen, TypeOK, ConfigPath
  <2>4. QED
    BY <1>7, <2>1, <2>2, <2>3 DEF DownloadOpen, TypeOK, ControlOK
<1>8. CASE Transfer(p)
  <2>1. ControlOK'
    BY <1>0, <1>8, GotoControl, FailControl
    DEF Transfer, Place, FAILED_TO_DOWNLOAD_CONFIG
  <2>2. /\ req[p].at \in Url /\ Remote[req[p].at] \in Content
        /\ ini["TEMP/ph.dat"] \in Content
    BY <1>1, DispatchAssumption DEF TypeOK, RequestType, ConfigPath
  <2> DEFINE u == req[p].at
             old == ini["TEMP/ph.dat"]
  <2>3. Overwrite(old, Remote[u]) \in Content
    BY <2>2, OverwriteType
  <2>4. ASSUME NEW n \in 0..Len(Remote[u].lines)
        PROVE  Overwrite(old, Answer(u, n)) \in Content
    BY <2>2, <2>4, AnswerType, OverwriteType
  <2>6. ini' \in [ConfigPath -> Content]
    BY <1>8, <2>3, <2>4 DEF Transfer, TypeOK
  <2>5. QED
    BY <1>8, <2>1, <2>6 DEF Transfer, TypeOK, ControlOK, local
<1>9. CASE ReadConfig(p)
  <2>1. ControlOK'
    BY <1>0, <1>9, GotoControl, FailControl
    DEF ReadConfig, Place, FAILED_TO_OPEN_CONFIG
  <2> DEFINE f == ini[path[p]]
  <2>2. f \in Content
    BY DEF TypeOK, f
  <2>3. ASSUME NEW junk \in Trailing(f)
        PROVE  [f EXCEPT !.lines = @ \o junk] \in Content
    <3>1. f.lines \in Lines /\ junk \in Lines
      BY <2>2, JunkType DEF Content
    <3>2. f.lines \o junk \in Lines
      BY <3>1, ConcatProperties DEF Lines
    <3> HIDE DEF f
    <3>3. QED
      BY <2>2, <3>2 DEF Content
  <2>4. conf' \in [Proc -> Content]
    BY <1>9, <2>3 DEF ReadConfig, TypeOK, f
  <2>5. QED
    BY <1>9, <2>1, <2>4 DEF ReadConfig, TypeOK, ControlOK, disk
<1>10. QED
  BY <1>3, <1>4, <1>5, <1>6, <1>7, <1>8, <1>9

LEMMA SectionTypes ==
  ASSUME TypeOK, NEW p \in Proc,
         \/ ReadGlobal(p) \/ OpenLog(p) \/ ParseUri(p) \/ ReadSection(p)
         \/ ChooseCommand(p) \/ ExpandPaths(p) \/ MustExist(p)
  PROVE  TypeOK'
<1>0. ControlOK
  BY DEF TypeOK, ControlOK
<1>1. req[p] \in RequestType
  BY DispatchAssumption DEF TypeOK
<1>2. CASE ReadGlobal(p)
  <2>1. ControlOK'
    BY <1>0, <1>2, GotoControl, FailControl, FailWithVarControl
    DEF ReadGlobal, Place, FAILED_TO_EXPAND_ENV, INI_PARSE_ERR
  <2>2. QED
    BY <1>2, <2>1, ControlStep DEF ReadGlobal
<1>3. CASE OpenLog(p)
  <2>1. ControlOK'
    BY <1>0, <1>3, GotoControl, FailControl
    DEF OpenLog, Place, ERR_NO_USERDIR, FAILED_TO_OPEN_LOGFILE
  <2>2. QED
    BY <1>3, <2>1, ControlStep DEF OpenLog
<1>4. CASE ParseUri(p)
  <2>1. 127 + req[p].res \in Nat /\ req[p].query \in Query
    BY <1>1 DEF RequestType
  <2>2. ControlOK'
    BY <1>0, <1>4, <2>1, GotoControl, FailControl DEF ParseUri, Place, NO_INPUT
  <2>3. query' \in [Proc -> Query]
    BY <1>4, <2>1 DEF ParseUri, TypeOK
  <2>4. QED
    BY <1>4, <2>2, <2>3 DEF ParseUri, TypeOK, ControlOK, disk
<1>5. CASE ReadSection(p)
  <2>1. ControlOK'
    BY <1>0, <1>5, GotoControl, FailControl, FailWithVarControl
    DEF ReadSection, Place, INI_PARSE_ERR, NO_INI_SECTION_FOUND
  <2>2. QED
    BY <1>5, <2>1, ControlStep DEF ReadSection
<1>6. CASE ChooseCommand(p)
  <2>1. ControlOK' /\ choice' \in [Proc -> {"plain", "match", "nomatch"}]
    <3>1. ASSUME NEW c \in {"plain", "match", "nomatch"}, Choose(p, c)
          PROVE  ControlOK' /\ choice' \in [Proc -> {"plain", "match", "nomatch"}]
      BY <1>0, <3>1, GotoControl, FailControl
      DEF Choose, Place, NO_CMD_DIRECTIVE, TypeOK
    <3>2. ASSUME Fail(p, NO_USER_PARAM_FOUND) \/ Exit(p, CRASHED)
          PROVE  ControlOK'
      BY <1>0, <3>2, ExitControl, FailControl DEF NO_USER_PARAM_FOUND, CRASHED
    <3>3. \/ \E c \in {"plain", "match", "nomatch"} : Choose(p, c)
          \/ /\ Fail(p, NO_USER_PARAM_FOUND) \/ Exit(p, CRASHED)
             /\ UNCHANGED choice
      BY <1>6, Zenon DEF ChooseCommand
    <3>4. QED
      BY <3>1, <3>2, <3>3 DEF TypeOK
  <2>2. QED
    BY <1>6, <2>1 DEF ChooseCommand, TypeOK, ControlOK, disk
<1>7. CASE ExpandPaths(p)
  <2>1. ControlOK'
    BY <1>0, <1>7, GotoControl, FailControl, FailWithVarControl
    DEF ExpandPaths, Place, FAILED_TO_EXPAND_ENV
  <2>2. QED
    BY <1>7, <2>1, ControlStep DEF ExpandPaths
<1>8. CASE MustExist(p)
  <2>1. ControlOK'
    BY <1>0, <1>8, GotoControl, ErrorControl DEF MustExist, Place, FILE_NOT_FOUND
  <2>2. QED
    BY <1>8, <2>1, ControlStep DEF MustExist
<1>9. QED
  BY <1>2, <1>3, <1>4, <1>5, <1>6, <1>7, <1>8

\* A step that replaces one copy of one file keeps the files typed.
LEMMA TextStep ==
  ASSUME TypeOK, NEW t,
         \/ text' = text
         \/ \E c \in Copy : \/ text' = [text EXCEPT ![t].new = c]
                            \/ text' = [text EXCEPT ![t].orig = c]
  PROVE  text' \in [Target -> [orig: Copy, new: Copy]]
<1>1. text \in [Target -> [orig: Copy, new: Copy]]
  BY DEF TypeOK
<1>2. ASSUME NEW c \in Copy
      PROVE  /\ [text EXCEPT ![t].new = c] \in [Target -> [orig: Copy, new: Copy]]
             /\ [text EXCEPT ![t].orig = c] \in [Target -> [orig: Copy, new: Copy]]
  BY <1>1
<1>3. QED
  BY <1>1, <1>2, Zenon

LEMMA ReplaceTypes ==
  ASSUME TypeOK, NEW p \in Proc,
         Replace(p) \/ OpenNew(p) \/ WriteNew(p) \/ RemoveOriginal(p)
  PROVE  TypeOK'
<1>0. ControlOK
  BY DEF TypeOK, ControlOK
<1>1. Regex(p) \in Template
  BY OptionType DEF Regex
<1>2. /\ [state |-> "empty", edits |-> <<>>] \in Copy
      /\ [state |-> "torn", edits |-> <<>>] \in Copy
      /\ [state |-> "absent", edits |-> <<>>] \in Copy
      /\ [state |-> "full", edits |-> held[p]] \in Copy
  BY DEF Copy, TypeOK
<1>3. CASE Replace(p)
  <2>1. ControlOK'
    BY <1>0, <1>3, GotoControl, FailControl
    DEF Replace, Place, MISSING_REGEX, FAILED_TO_OPEN_REPLACE_FILE,
        FAILED_TO_PARSE_REGEX
  <2>2. ASSUME ReplaceFile(p) \in Target
        PROVE  Append(text[ReplaceFile(p)].orig.edits, Regex(p)) \in Seq(Template)
    <3>1. text[ReplaceFile(p)].orig.edits \in Seq(Template)
      BY <2>2 DEF TypeOK, Copy
    <3>2. QED
      BY <1>1, <3>1
  <2>3. held' \in [Proc -> Seq(Template)]
    BY <1>3, <2>2 DEF Replace, TypeOK
  <2>4. QED
    BY <1>3, <2>1, <2>3 DEF Replace, TypeOK, ControlOK, disk
<1>4. CASE OpenNew(p)
  <2>1. ControlOK'
    BY <1>0, <1>4, GotoControl, ExitControl DEF OpenNew, Place, CRASHED
  <2>2. text' \in [Target -> [orig: Copy, new: Copy]]
    BY <1>2, <1>4, TextStep, Zenon DEF OpenNew
  <2>3. QED
    BY <1>4, <2>1, <2>2 DEF OpenNew, TypeOK, ControlOK, local
<1>5. CASE WriteNew(p)
  <2>1. ControlOK'
    BY <1>0, <1>5, GotoControl, FailControl DEF WriteNew, Place
  <2>2. text' \in [Target -> [orig: Copy, new: Copy]]
    BY <1>2, <1>5, TextStep, Zenon DEF WriteNew
  <2>3. QED
    BY <1>5, <2>1, <2>2 DEF WriteNew, TypeOK, ControlOK, local
<1>6. CASE RemoveOriginal(p)
  <2>1. ControlOK'
    BY <1>0, <1>6, GotoControl DEF RemoveOriginal, Place
  <2>2. text' \in [Target -> [orig: Copy, new: Copy]]
    BY <1>2, <1>6, TextStep, Zenon DEF RemoveOriginal
  <2>3. QED
    BY <1>6, <2>1, <2>2 DEF RemoveOriginal, TypeOK, ControlOK, local
<1>7. QED
  BY <1>3, <1>4, <1>5, <1>6

\* The transforms leave a query: nothing too long is ever padded.
LEMMA TransformTypes ==
  ASSUME TypeOK, NEW p \in Proc, Transform(p)
  PROVE  TypeOK'
<1> DEFINE padded == [i \in 1..Len(query[p]) |-> Padded(p, query[p][i])]
           trimmed == [i \in 1..Len(query[p]) |-> Trimmed(p, padded[i])]
           tooLong == {i \in {i \in DOMAIN query[p] :
                               Listed(Option(p, "lpadzero"), query[p][i].key) # {}} :
                         StrLen(query[p][i].value) > PadLen}
<1>0. ControlOK
  BY DEF TypeOK, ControlOK
<1>1. ControlOK'
  BY <1>0, GotoControl, FailControl, ExitControl
  DEF Transform, Place, FAILED_TO_ZEROPAD, CRASHED
<1>2. query[p] \in Query
  BY DEF TypeOK
<1>3. DOMAIN query[p] = 1..Len(query[p]) /\ Len(query[p]) \in Nat
  BY <1>2, LenProperties DEF Query
<1>4. ASSUME tooLong = {}
      PROVE  trimmed \in Query
  <2>1. ASSUME NEW i \in 1..Len(query[p])
        PROVE  trimmed[i] \in Param
    <3>1. query[p][i] \in Param
      BY <1>2, ElementOfSeq DEF Query
    <3>2. Listed(Option(p, "lpadzero"), query[p][i].key) # {}
            => ~(StrLen(query[p][i].value) > PadLen)
      BY <1>3, <1>4, Zenon DEF tooLong
    <3>3. Padded(p, query[p][i]) \in Param
      BY <3>1, <3>2, PaddedType
    <3>4. QED
      BY <3>3, TrimmedType DEF trimmed, padded
  <2>2. trimmed \in [1..Len(query[p]) -> Param]
    BY <2>1 DEF trimmed
  <2> HIDE DEF trimmed
  <2>3. QED
    BY <1>3, <2>2, SeqDef DEF Query
<1>5. \/ UNCHANGED query
      \/ tooLong = {} /\ query' = [query EXCEPT ![p] = trimmed]
  BY Zenon DEF Transform, tooLong, trimmed, padded
<1> HIDE DEF trimmed, tooLong
<1>6. query' \in [Proc -> Query]
  BY <1>4, <1>5 DEF TypeOK
<1>7. QED
  BY <1>1, <1>6 DEF Transform, TypeOK, ControlOK, disk

LEMMA StartCommandType ==
  ASSUME TypeOK, NEW p \in Proc, NEW kind \in {"precmd", "cmd"},
         NEW line \in Seq(Text), NEW window \in {"normal", "minimized", "hidden"},
         StartCommand(p, kind, line, window)
  PROVE  ran' \in [Proc -> Seq(Started)]
<1>1. [kind |-> kind, line |-> line, window |-> window] \in Started
  BY DEF Started
<1>2. ran[p] \in Seq(Started)
  BY DEF TypeOK
<1>3. QED
  BY <1>1, <1>2 DEF StartCommand, TypeOK

LEMMA CommandStepTypes ==
  ASSUME TypeInv, NEW p \in Proc,
         \/ ExpandCommand(p) \/ CheckExecutable(p) \/ RunPrecmd(p)
         \/ PrecmdEnds(p) \/ Launch(p) \/ Finish(p) \/ CleanLog(p) \/ Kill(p)
  PROVE  TypeOK'
<1>0. ControlOK /\ TypeOK
  BY DEF TypeInv, TypeOK, ControlOK
<1>1. CASE ExpandCommand(p)
  <2>1. ControlOK'
    BY <1>0, <1>1, GotoControl, FailControl
    DEF ExpandCommand, Place, PH_EXP_ERR_QUERYNVVAR_NOT_FOUND,
        EXP_ERR_QUERYNVVAR_NOT_FOUND
  <2>2. QED
    BY <1>0, <1>1, <2>1, ControlStep DEF ExpandCommand
<1>2. CASE CheckExecutable(p)
  <2>1. ControlOK'
    BY <1>0, <1>2, GotoControl, FailControl
    DEF CheckExecutable, Place, NOT_EXECUTABLE
  <2>2. QED
    BY <1>0, <1>2, <2>1, ControlStep DEF CheckExecutable
<1>3. CASE RunPrecmd(p)
  <2>1. ControlOK'
    BY <1>0, <1>3, GotoControl DEF RunPrecmd, Place
  <2>2. PreCmd(p) \in Seq(Text)
    BY <1>0, <1>3, CommandTypes
    DEF RunPrecmd, At, TypeInv, CommandsExpand, CommandPlace
  <2>3. ran' \in [Proc -> Seq(Started)]
    BY <1>0, <1>3, <2>2, StartCommandType DEF RunPrecmd, TypeOK
  <2>4. QED
    BY <1>0, <1>3, <2>1, <2>3 DEF RunPrecmd, TypeOK, ControlOK, local, disk
<1>4. CASE PrecmdEnds(p)
  <2>1. ControlOK'
    BY <1>0, <1>4, GotoControl DEF PrecmdEnds, Place
  <2>2. QED
    BY <1>0, <1>4, <2>1, ControlStep DEF PrecmdEnds
<1>5. CASE Launch(p)
  <2>1. ControlOK'
    BY <1>0, <1>5, GotoControl DEF Launch, Place
  <2>2. Cmd(p) \in Seq(Text)
    BY <1>0, <1>5, CommandTypes
    DEF Launch, At, TypeInv, CommandsExpand, CommandPlace
  <2>3. Window(p) \in {"normal", "minimized", "hidden"}
    BY DEF Window
  <2>4. ran' \in [Proc -> Seq(Started)]
    BY <1>0, <1>5, <2>2, <2>3, StartCommandType DEF Launch
  <2>5. QED
    BY <1>0, <1>5, <2>1, <2>4 DEF Launch, TypeOK, ControlOK, local, disk
<1>6. CASE Finish(p)
  <2>1. ControlOK'
    BY <1>0, <1>6, GotoControl, ExitControl DEF Finish, Place, OK
  <2>2. QED
    BY <1>0, <1>6, <2>1, ControlStep DEF Finish
<1>7. CASE CleanLog(p)
  <2>1. ControlOK'
    BY <1>0, <1>7, ExitControl DEF CleanLog, OK
  <2>2. QED
    BY <1>0, <1>7, <2>1, ControlStep DEF CleanLog
<1>8. CASE Kill(p)
  <2>1. ControlOK'
    BY <1>0, <1>8, ExitControl DEF Kill, KILLED
  <2>2. QED
    BY <1>0, <1>8, <2>1, ControlStep DEF Kill
<1>9. QED
  BY <1>1, <1>2, <1>3, <1>4, <1>5, <1>6, <1>7, <1>8

LEMMA StepTypes ==
  ASSUME TypeInv, Next
  PROVE  TypeOK'
<1>0. TypeOK
  BY DEF TypeInv
<1>1. CASE Terminated
  BY <1>0, <1>1 DEF Terminated, vars, local, verdict, disk, TypeOK
<1>2. ASSUME NEW p \in Proc, Step(p) \/ Waiting(p) \/ Kill(p)
      PROVE  TypeOK'
  <2>1. CASE Step(p)
    BY <1>0, <2>1, ModeTypes, ConfigurationTypes, SectionTypes, ReplaceTypes,
       TransformTypes, CommandStepTypes, Zenon DEF Step
  <2>2. CASE Waiting(p) \/ Kill(p)
    BY <1>0, <2>2, ConfigurationTypes, CommandStepTypes, Zenon DEF Waiting
  <2>3. QED
    BY <1>2, <2>1, <2>2
<1>3. QED
  BY <1>1, <1>2 DEF Next

-----------------------------------------------------------------------------
(* What an invocation decides by is its own. *)

Same(q) == /\ req'[q] = req[q] /\ conf'[q] = conf[q]
           /\ query'[q] = query[q] /\ choice'[q] = choice[q]

\* A step of p leaves the control and the data of the others alone.
Alone(p) == \A q \in Proc \ {p} : pc'[q] = pc[q] /\ Same(q)

ReplacePlace == {"new_open", "new_write", "remove"}

\* How p gets to the places where it has settled on its file or its command.
Settles(p) ==
  /\ pc'[p] \in ReplacePlace =>
       Same(p) /\ (Replace(p) \/ OpenNew(p) \/ WriteNew(p))
  /\ pc'[p] \in CommandPlace =>
       Same(p) /\ (\/ ExpandCommand(p) \/ CheckExecutable(p)
                   \/ RunPrecmd(p) \/ PrecmdEnds(p))

\* The control of p goes to a place where nothing is settled.
Elsewhere(p) ==
  /\ pc'[p] \notin ReplacePlace \cup CommandPlace
  /\ \A q \in Proc \ {p} : pc'[q] = pc[q]

LEMMA GotoElsewhere ==
  ASSUME TypeOK, NEW p \in Proc, NEW place, Goto(p, place),
         place \notin {"new_open", "new_write", "remove",
                       "exe", "precmd", "prewait", "launch"}
  PROVE  Elsewhere(p)
BY DEF TypeOK, Elsewhere, Goto, ReplacePlace, CommandPlace

LEMMA EndElsewhere ==
  ASSUME TypeOK, NEW p \in Proc, NEW code,
         \/ Exit(p, code) \/ Fail(p, code)
         \/ \E msglen : display_error(p, code, msglen)
  PROVE  Elsewhere(p)
BY DEF TypeOK, Elsewhere, Exit, Fail, display_error, ReplacePlace, CommandPlace

LEMMA FailWithVarElsewhere ==
  ASSUME TypeOK, NEW p \in Proc, NEW code, NEW t, FailWithVar(p, code, t)
  PROVE  Elsewhere(p)
BY FailWithVarShows, EndElsewhere

LEMMA LocalSame ==
  ASSUME NEW q \in Proc, UNCHANGED local
  PROVE  Same(q)
BY DEF Same, local

LEMMA ElsewhereSettles ==
  ASSUME NEW p \in Proc, Elsewhere(p), UNCHANGED local
  PROVE  Alone(p) /\ Settles(p)
BY LocalSame DEF Elsewhere, Alone, Settles

LEMMA GotoAlone ==
  ASSUME TypeOK, NEW p \in Proc, NEW place, Goto(p, place)
  PROVE  pc'[p] = place /\ \A q \in Proc \ {p} : pc'[q] = pc[q]
BY DEF TypeOK, Goto

LEMMA StepSettles ==
  ASSUME TypeOK, NEW p \in Proc, Step(p) \/ Waiting(p) \/ Kill(p)
  PROVE  Alone(p) /\ Settles(p)
<1>1. CASE Start(p)
  <2>1. Elsewhere(p)
    BY <1>1, GotoElsewhere, EndElsewhere DEF Start
  <2>2. QED
    BY <2>1, <1>1, ElsewhereSettles DEF Start
<1>2. CASE EncodeOpen(p)
  <2>1. Elsewhere(p)
    BY <1>2, GotoElsewhere, EndElsewhere DEF EncodeOpen
  <2>2. QED
    BY <2>1, <1>2, ElsewhereSettles DEF EncodeOpen
<1>3. CASE EncodeWrite(p)
  <2>1. Elsewhere(p)
    BY <1>3, GotoElsewhere, EndElsewhere DEF EncodeWrite
  <2>2. QED
    BY <2>1, <1>3, ElsewhereSettles DEF EncodeWrite
<1>4. CASE LocateIni(p)
  <2>1. Elsewhere(p)
    BY <1>4, GotoElsewhere, EndElsewhere DEF LocateIni
  <2>2. QED
    BY <2>1, <1>4, ElsewhereSettles DEF LocateIni
<1>5. CASE CreateOpen(p)
  <2>1. Elsewhere(p)
    BY <1>5, GotoElsewhere, EndElsewhere DEF CreateOpen
  <2>2. QED
    BY <2>1, <1>5, ElsewhereSettles DEF CreateOpen
<1>6. CASE CreateWrite(p)
  <2>1. Elsewhere(p)
    BY <1>6, GotoElsewhere, EndElsewhere DEF CreateWrite
  <2>2. QED
    BY <2>1, <1>6, ElsewhereSettles DEF CreateWrite
<1>7. CASE Transfer(p)
  <2>1. Elsewhere(p)
    BY <1>7, GotoElsewhere, EndElsewhere DEF Transfer
  <2>2. QED
    BY <2>1, <1>7, ElsewhereSettles DEF Transfer
<1>8. CASE ReadGlobal(p)
  <2>1. Elsewhere(p)
    BY <1>8, GotoElsewhere, EndElsewhere, FailWithVarElsewhere DEF ReadGlobal
  <2>2. QED
    BY <2>1, <1>8, ElsewhereSettles DEF ReadGlobal
<1>9. CASE OpenLog(p)
  <2>1. Elsewhere(p)
    BY <1>9, GotoElsewhere, EndElsewhere DEF OpenLog
  <2>2. QED
    BY <2>1, <1>9, ElsewhereSettles DEF OpenLog
<1>10. CASE ReadSection(p)
  <2>1. Elsewhere(p)
    BY <1>10, GotoElsewhere, EndElsewhere, FailWithVarElsewhere DEF ReadSection
  <2>2. QED
    BY <2>1, <1>10, ElsewhereSettles DEF ReadSection
<1>11. CASE ExpandPaths(p)
  <2>1. Elsewhere(p)
    BY <1>11, GotoElsewhere, EndElsewhere, FailWithVarElsewhere DEF ExpandPaths
  <2>2. QED
    BY <2>1, <1>11, ElsewhereSettles DEF ExpandPaths
<1>12. CASE MustExist(p)
  <2>1. Elsewhere(p)
    BY <1>12, GotoElsewhere, EndElsewhere DEF MustExist
  <2>2. QED
    BY <2>1, <1>12, ElsewhereSettles DEF MustExist
<1>13. CASE RemoveOriginal(p)
  <2>1. Elsewhere(p)
    BY <1>13, GotoElsewhere, EndElsewhere DEF RemoveOriginal
  <2>2. QED
    BY <2>1, <1>13, ElsewhereSettles DEF RemoveOriginal
<1>14. CASE Launch(p)
  <2>1. Elsewhere(p)
    BY <1>14, GotoElsewhere, EndElsewhere DEF Launch
  <2>2. QED
    BY <2>1, <1>14, ElsewhereSettles DEF Launch
<1>15. CASE Finish(p)
  <2>1. Elsewhere(p)
    BY <1>15, GotoElsewhere, EndElsewhere DEF Finish
  <2>2. QED
    BY <2>1, <1>15, ElsewhereSettles DEF Finish
<1>16. CASE CleanLog(p)
  <2>1. Elsewhere(p)
    BY <1>16, GotoElsewhere, EndElsewhere DEF CleanLog
  <2>2. QED
    BY <2>1, <1>16, ElsewhereSettles DEF CleanLog
<1>17. CASE Kill(p)
  <2>1. Elsewhere(p)
    BY <1>17, GotoElsewhere, EndElsewhere DEF Kill
  <2>2. QED
    BY <2>1, <1>17, ElsewhereSettles DEF Kill
<1>18. CASE Mode(p)
  <2>1. Elsewhere(p)
    BY <1>18, GotoElsewhere, EndElsewhere DEF Mode
  <2>2. \A q \in Proc \ {p} : Same(q)
    BY <1>18 DEF Mode, Same, TypeOK
  <2>3. QED
    BY <2>1, <2>2 DEF Elsewhere, Alone, Settles
<1>19. CASE EncodeRead(p)
  <2>1. Elsewhere(p)
    BY <1>19, GotoElsewhere, EndElsewhere DEF EncodeRead
  <2>2. \A q \in Proc \ {p} : Same(q)
    BY <1>19 DEF EncodeRead, Same, TypeOK
  <2>3. QED
    BY <2>1, <2>2 DEF Elsewhere, Alone, Settles
<1>20. CASE Locate(p)
  <2>1. Elsewhere(p)
    BY <1>20, GotoElsewhere, EndElsewhere DEF Locate
  <2>2. \A q \in Proc \ {p} : Same(q)
    BY <1>20 DEF Locate, Same, TypeOK
  <2>3. QED
    BY <2>1, <2>2 DEF Elsewhere, Alone, Settles
<1>21. CASE DownloadOpen(p)
  <2>1. Elsewhere(p)
    BY <1>21, GotoElsewhere, EndElsewhere DEF DownloadOpen
  <2>2. \A q \in Proc \ {p} : Same(q)
    BY <1>21 DEF DownloadOpen, Same, TypeOK
  <2>3. QED
    BY <2>1, <2>2 DEF Elsewhere, Alone, Settles
<1>22. CASE ReadConfig(p)
  <2>1. Elsewhere(p)
    BY <1>22, GotoElsewhere, EndElsewhere DEF ReadConfig
  <2>2. \A q \in Proc \ {p} : Same(q)
    BY <1>22 DEF ReadConfig, Same, TypeOK
  <2>3. QED
    BY <2>1, <2>2 DEF Elsewhere, Alone, Settles
<1>23. CASE ParseUri(p)
  <2>1. Elsewhere(p)
    BY <1>23, GotoElsewhere, EndElsewhere DEF ParseUri
  <2>2. \A q \in Proc \ {p} : Same(q)
    BY <1>23 DEF ParseUri, Same, TypeOK
  <2>3. QED
    BY <2>1, <2>2 DEF Elsewhere, Alone, Settles
<1>24. CASE ChooseCommand(p)
  <2>1. Elsewhere(p)
    BY <1>24, GotoElsewhere, EndElsewhere DEF ChooseCommand, Choose
  <2>2. \A q \in Proc \ {p} : Same(q)
    BY <1>24 DEF ChooseCommand, Choose, Same, TypeOK
  <2>3. QED
    BY <2>1, <2>2 DEF Elsewhere, Alone, Settles
<1>25. CASE Transform(p)
  <2>1. Elsewhere(p)
    BY <1>25, GotoElsewhere, EndElsewhere DEF Transform
  <2>2. \A q \in Proc \ {p} : Same(q)
    BY <1>25 DEF Transform, Same, TypeOK
  <2>3. QED
    BY <2>1, <2>2 DEF Elsewhere, Alone, Settles
<1>26. CASE Replace(p)
  <2>1. \A q \in Proc : Same(q)
    BY <1>26, LocalSame DEF Replace, Same
  <2>2. \/ Elsewhere(p)
        \/ \E place : Goto(p, place)
    BY <1>26, EndElsewhere, Zenon DEF Replace
  <2>3. \A q \in Proc \ {p} : pc'[q] = pc[q]
    BY <2>2, GotoAlone DEF Elsewhere
  <2>4. pc'[p] \notin CommandPlace
    BY <1>26, GotoAlone, EndElsewhere
    DEF Replace, Elsewhere, ReplacePlace, CommandPlace
  <2>5. QED
    BY <1>26, <2>1, <2>3, <2>4, Zenon DEF Alone, Settles
<1>27. CASE OpenNew(p)
  <2>1. \A q \in Proc : Same(q)
    BY <1>27, LocalSame DEF OpenNew
  <2>2. \/ Elsewhere(p)
        \/ \E place : Goto(p, place)
    BY <1>27, EndElsewhere, Zenon DEF OpenNew
  <2>3. \A q \in Proc \ {p} : pc'[q] = pc[q]
    BY <2>2, GotoAlone DEF Elsewhere
  <2>4. pc'[p] \notin CommandPlace
    BY <1>27, GotoAlone, EndElsewhere
    DEF OpenNew, Elsewhere, ReplacePlace, CommandPlace
  <2>5. QED
    BY <1>27, <2>1, <2>3, <2>4, Zenon DEF Alone, Settles
<1>28. CASE WriteNew(p)
  <2>1. \A q \in Proc : Same(q)
    BY <1>28, LocalSame DEF WriteNew
  <2>2. \/ Elsewhere(p)
        \/ \E place : Goto(p, place)
    BY <1>28, EndElsewhere, Zenon DEF WriteNew
  <2>3. \A q \in Proc \ {p} : pc'[q] = pc[q]
    BY <2>2, GotoAlone DEF Elsewhere
  <2>4. pc'[p] \notin CommandPlace
    BY <1>28, GotoAlone, EndElsewhere
    DEF WriteNew, Elsewhere, ReplacePlace, CommandPlace
  <2>5. QED
    BY <1>28, <2>1, <2>3, <2>4, Zenon DEF Alone, Settles
<1>29. CASE ExpandCommand(p)
  <2>1. \A q \in Proc : Same(q)
    BY <1>29, LocalSame DEF ExpandCommand
  <2>2. \/ Elsewhere(p)
        \/ \E place : Goto(p, place)
    BY <1>29, EndElsewhere, Zenon DEF ExpandCommand
  <2>3. \A q \in Proc \ {p} : pc'[q] = pc[q]
    BY <2>2, GotoAlone DEF Elsewhere
  <2>4. pc'[p] \notin ReplacePlace
    BY <1>29, GotoAlone, EndElsewhere
    DEF ExpandCommand, Elsewhere, ReplacePlace, CommandPlace
  <2>5. QED
    BY <1>29, <2>1, <2>3, <2>4, Zenon DEF Alone, Settles
<1>30. CASE CheckExecutable(p)
  <2>1. \A q \in Proc : Same(q)
    BY <1>30, LocalSame DEF CheckExecutable
  <2>2. \/ Elsewhere(p)
        \/ \E place : Goto(p, place)
    BY <1>30, EndElsewhere, Zenon DEF CheckExecutable
  <2>3. \A q \in Proc \ {p} : pc'[q] = pc[q]
    BY <2>2, GotoAlone DEF Elsewhere
  <2>4. pc'[p] \notin ReplacePlace
    BY <1>30, GotoAlone, EndElsewhere
    DEF CheckExecutable, Elsewhere, ReplacePlace, CommandPlace
  <2>5. QED
    BY <1>30, <2>1, <2>3, <2>4, Zenon DEF Alone, Settles
<1>31. CASE RunPrecmd(p)
  <2>1. \A q \in Proc : Same(q)
    BY <1>31, LocalSame DEF RunPrecmd
  <2>2. \/ Elsewhere(p)
        \/ \E place : Goto(p, place)
    BY <1>31, EndElsewhere, Zenon DEF RunPrecmd
  <2>3. \A q \in Proc \ {p} : pc'[q] = pc[q]
    BY <2>2, GotoAlone DEF Elsewhere
  <2>4. pc'[p] \notin ReplacePlace
    BY <1>31, GotoAlone, EndElsewhere
    DEF RunPrecmd, Elsewhere, ReplacePlace, CommandPlace
  <2>5. QED
    BY <1>31, <2>1, <2>3, <2>4, Zenon DEF Alone, Settles
<1>32. CASE PrecmdEnds(p)
  <2>1. \A q \in Proc : Same(q)
    BY <1>32, LocalSame DEF PrecmdEnds
  <2>2. \/ Elsewhere(p)
        \/ \E place : Goto(p, place)
    BY <1>32, EndElsewhere, Zenon DEF PrecmdEnds
  <2>3. \A q \in Proc \ {p} : pc'[q] = pc[q]
    BY <2>2, GotoAlone DEF Elsewhere
  <2>4. pc'[p] \notin ReplacePlace
    BY <1>32, GotoAlone, EndElsewhere
    DEF PrecmdEnds, Elsewhere, ReplacePlace, CommandPlace
  <2>5. QED
    BY <1>32, <2>1, <2>3, <2>4, Zenon DEF Alone, Settles
<1>33. QED
  BY <1>1, <1>2, <1>3, <1>4, <1>5, <1>6, <1>7, <1>8, <1>9, <1>10, <1>11,
     <1>12, <1>13, <1>14, <1>15, <1>16, <1>17, <1>18, <1>19, <1>20,
     <1>21, <1>22, <1>23, <1>24, <1>25, <1>26, <1>27, <1>28, <1>29,
     <1>30, <1>31, <1>32, Zenon
  DEF Step, Waiting

LEMMA ExpandableSame ==
  ASSUME NEW q, Same(q), Expandable(q)
  PROVE  Expandable(q)'
BY DEF Same, Expandable, RunCmd, PreRunCmd, Option

LEMMA CommandsExpandInvariant ==
  ASSUME TypeInv, Next
  PROVE  CommandsExpand'
<1>0. TypeOK /\ CommandsExpand
  BY DEF TypeInv
<1>1. CASE Terminated
  BY <1>0, <1>1, ExpandableSame
  DEF Terminated, vars, local, CommandsExpand, Same
<1>2. ASSUME NEW p \in Proc, Step(p) \/ Waiting(p) \/ Kill(p),
             NEW q \in Proc, pc'[q] \in CommandPlace
      PROVE  Expandable(q)'
  <2>1. Alone(p) /\ Settles(p)
    BY <1>0, <1>2, StepSettles
  <2>2. CASE q # p
    BY <1>0, <1>2, <2>1, <2>2, ExpandableSame DEF Alone, CommandsExpand
  <2>3. CASE q = p
    <3>1. Same(p)
      BY <1>2, <2>1, <2>3 DEF Settles
    <3>2. CASE ExpandCommand(p)
      <4>1. Expandable(p)
        BY <1>0, <1>2, <2>3, <3>2, EndElsewhere
        DEF ExpandCommand, Expandable, Elsewhere
      <4>2. QED
        BY <2>3, <3>1, <4>1, ExpandableSame
    <3>3. CASE CheckExecutable(p) \/ RunPrecmd(p) \/ PrecmdEnds(p)
      <4>1. pc[p] \in CommandPlace
        BY <3>3 DEF CheckExecutable, RunPrecmd, PrecmdEnds, At, CommandPlace
      <4>2. QED
        BY <1>0, <2>3, <3>1, <4>1, ExpandableSame DEF CommandsExpand
    <3>4. QED
      BY <1>2, <2>1, <2>3, <3>2, <3>3 DEF Settles
  <2>4. QED
    BY <2>2, <2>3
<1>3. QED
  BY <1>1, <1>2, Zenon DEF Next, CommandsExpand

LEMMA TypeInvInit == Init => TypeInv
<1> SUFFICES ASSUME Init PROVE TypeInv
  OBVIOUS
<1>1. NoFile \in Content
  BY DEF NoFile, Content, Lines
<1>2. <<>> \in Query /\ <<>> \in Seq(Template) /\ <<>> \in Seq(Started)
  BY DEF Query
<1>3. /\ [state |-> "full", edits |-> <<>>] \in Copy
      /\ [state |-> "absent", edits |-> <<>>] \in Copy
  BY <1>2 DEF Copy
<1>4. TypeOK
  BY <1>1, <1>2, <1>3, DispatchAssumption
  DEF Init, TypeOK, Place, ConfigPath, RUNNING, OK
<1>5. CommandsExpand
  BY DEF Init, CommandsExpand, CommandPlace
<1>6. QED
  BY <1>4, <1>5 DEF TypeInv

LEMMA TypeInvInvariant == Spec => []TypeInv
<1>1. TypeInv /\ [Next]_vars => TypeInv'
  <2> SUFFICES ASSUME TypeInv, [Next]_vars PROVE TypeInv'
    OBVIOUS
  <2>1. CASE Next
    BY <2>1, StepTypes, CommandsExpandInvariant DEF TypeInv
  <2>2. CASE UNCHANGED vars
    <3>1. TypeOK'
      BY <2>2 DEF vars, local, verdict, disk, TypeInv, TypeOK
    <3>2. CommandsExpand'
      BY <2>2, ExpandableSame DEF vars, local, TypeInv, CommandsExpand, Same
    <3>3. QED
      BY <3>1, <3>2 DEF TypeInv
  <2>3. QED
    BY <2>1, <2>2
<1>2. QED
  BY <1>1, TypeInvInit, PTL DEF Spec

\* Whatever the configurations, the urls and the disk contain, and however
\* many invocations interleave, every variable keeps its type; in particular
\* what RunPrecmd and Launch start (ph.c:1153-1235) is a command line in which
\* every variable has a value.
THEOREM TypeCorrect == Spec => []TypeOK
<1>1. TypeInv => TypeOK
  BY DEF TypeInv
<1>2. QED
  BY <1>1, TypeInvInvariant, PTL

-----------------------------------------------------------------------------
(***************************************************************************)
(* No text is lost, if no write fails and nobody is killed.  That some     *)
(* copy of a file is complete, or about to be written, is not inductive:   *)
(* remove() deletes the original, so at that point the ".new" must be      *)
(* complete, or have been truncated by another invocation that has not     *)
(* written it yet.                                                         *)
(***************************************************************************)
Writing(t) == \E q \in Proc : At(q, "new_write") /\ ReplaceFile(q) = t

Held(t) == text[t].new.state = "full" \/ Writing(t)

NeverLost == \A t \in Target : text[t].orig.state = "full" \/ Held(t)

ReplacesTarget ==
  \A p \in Proc : pc[p] \in ReplacePlace => ReplaceFile(p) \in Target

RemovesHeld == \A p \in Proc : At(p, "remove") => Held(ReplaceFile(p))

ReplaceInv == NeverLost /\ ReplacesTarget /\ RemovesHeld

LEMMA ReplaceFileSame ==
  ASSUME NEW q, Same(q)
  PROVE  ReplaceFile(q)' = ReplaceFile(q)
BY DEF Same, ReplaceFile, Expanded, Option

LEMMA ReplacesTargetInvariant ==
  ASSUME TypeOK, ReplacesTarget, NEW p \in Proc,
         Step(p) \/ Waiting(p) \/ Kill(p)
  PROVE  ReplacesTarget'
<1>1. Alone(p) /\ Settles(p)
  BY StepSettles
<1>2. ASSUME NEW q \in Proc, pc'[q] \in ReplacePlace
      PROVE  ReplaceFile(q)' \in Target
  <2>1. CASE q # p
    BY <1>1, <1>2, <2>1, ReplaceFileSame DEF Alone, ReplacesTarget
  <2>2. CASE q = p
    <3>1. Same(p) /\ (Replace(p) \/ OpenNew(p) \/ WriteNew(p))
      BY <1>1, <1>2, <2>2 DEF Settles
    <3>2. CASE Replace(p)
      <4>1. ~Elsewhere(p)
        BY <1>2, <2>2 DEF Elsewhere
      <4>2. ReplaceFile(p) \in Target
        <5>1. \A code : ~Fail(p, code)
          BY <4>1, EndElsewhere
        <5>2. ~Goto(p, "transform")
          BY <4>1, GotoElsewhere
        <5>3. QED
          BY <3>2, <5>1, <5>2, Zenon DEF Replace
      <4>3. QED
        BY <2>2, <3>1, <4>2, ReplaceFileSame
    <3>3. CASE OpenNew(p) \/ WriteNew(p)
      BY <2>2, <3>1, <3>3, ReplaceFileSame
      DEF OpenNew, WriteNew, At, ReplacePlace, ReplacesTarget
    <3>4. QED
      BY <3>1, <3>2, <3>3
  <2>3. QED
    BY <2>1, <2>2
<1>3. QED
  BY <1>2 DEF ReplacesTarget

LEMMA OthersKeepText ==
  ASSUME NEW p \in Proc, Step(p) \/ Waiting(p),
         ~OpenNew(p), ~WriteNew(p), ~RemoveOriginal(p)
  PROVE  text' = text /\ pc[p] \notin ReplacePlace
BY
DEF Step, Waiting, Start, Mode, EncodeRead, EncodeOpen, EncodeWrite, Locate,
    LocateIni,
      CreateOpen, CreateWrite, DownloadOpen, ReadConfig, ReadGlobal, OpenLog,
      ParseUri, ReadSection, ChooseCommand, ExpandPaths, MustExist, Replace,
      Transform, ExpandCommand, CheckExecutable, RunPrecmd, Launch, Finish,
      Transfer, PrecmdEnds, CleanLog, At, ReplacePlace, disk

\* A file somebody is writing stays so unless that write is the step.
LEMMA WritingStays ==
  ASSUME NEW p \in Proc, Alone(p), pc[p] # "new_write", NEW t, Writing(t)
  PROVE  Writing(t)'
<1>1. PICK q \in Proc : At(q, "new_write") /\ ReplaceFile(q) = t
  BY DEF Writing
<1>2. q # p
  BY <1>1 DEF At
<1>3. At(q, "new_write")' /\ ReplaceFile(q)' = t
  BY <1>1, <1>2, ReplaceFileSame DEF Alone, At
<1>4. QED
  BY <1>3 DEF Writing

\* What the three steps of replace() do to the files, field by field.
LEMMA NewStep ==
  ASSUME TypeOK, NEW f \in Target, NEW c,
         text' = [text EXCEPT ![f].new = c]
  PROVE  /\ text'[f].new = c
         /\ \A t \in Target : text'[t].orig = text[t].orig
         /\ \A t \in Target : t # f => text'[t].new = text[t].new
<1>1. text \in [Target -> [orig: Copy, new: Copy]]
  BY DEF TypeOK
<1>2. QED
  BY <1>1

LEMMA OrigStep ==
  ASSUME TypeOK, NEW f \in Target, NEW c,
         text' = [text EXCEPT ![f].orig = c]
  PROVE  /\ \A t \in Target : text'[t].new = text[t].new
         /\ \A t \in Target : t # f => text'[t].orig = text[t].orig
<1>1. text \in [Target -> [orig: Copy, new: Copy]]
  BY DEF TypeOK
<1>2. QED
  BY <1>1

LEMMA NeverLostInvariant ==
  ASSUME {"write", "flush"} \cap Fault = {}, TypeOK, ReplaceInv, ReplacesTarget',
         NEW p \in Proc, Step(p) \/ Waiting(p)
  PROVE  NeverLost' /\ RemovesHeld'
<1> DEFINE f == ReplaceFile(p)
<1>1. Alone(p) /\ Settles(p) /\ NeverLost /\ ReplacesTarget /\ RemovesHeld
  BY StepSettles DEF ReplaceInv
<1>2. \A q \in Proc \ {p} : /\ At(q, "remove")' <=> At(q, "remove")
                            /\ ReplaceFile(q)' = ReplaceFile(q)
  BY <1>1, ReplaceFileSame DEF Alone, At
<1>3. CASE OpenNew(p)
  <2>1. f \in Target
    BY <1>1, <1>3 DEF OpenNew, At, ReplacesTarget, ReplacePlace
  <2>2. pc[p] = "new_open"
    BY <1>3 DEF OpenNew, At
  <2>3. CASE Exit(p, CRASHED) /\ UNCHANGED text
    <3>1. \A t \in Target : Held(t) => Held(t)'
      BY <1>1, <2>2, <2>3, WritingStays DEF Held
    <3>2. pc'[p] = "done"
      BY <2>3 DEF Exit, TypeOK
    <3>3. QED
      BY <1>1, <1>2, <2>3, <3>1, <3>2 DEF NeverLost, RemovesHeld, ReplacesTarget,
         ReplacePlace, At
  <2>4. CASE /\ Goto(p, "new_write")
             /\ text' = [text EXCEPT ![f].new = [state |-> "empty", edits |-> <<>>]]
    <3>1. At(p, "new_write")' /\ f' = f
      BY <1>1, <1>3, <2>4, GotoAlone, LocalSame, ReplaceFileSame
      DEF At, OpenNew
    <3>2. Held(f)'
      BY <3>1 DEF Held, Writing
    <3>3. \A t \in Target : t # f /\ Held(t) => Held(t)'
      BY <1>1, <2>1, <2>2, <2>4, NewStep, WritingStays DEF Held
    <3>4. \A t \in Target : text'[t].orig = text[t].orig
      BY <2>1, <2>4, NewStep
    <3>5. \A t \in Target : Held(t) => Held(t)'
      <4>1. ASSUME NEW t \in Target, t = f
            PROVE  Held(t)'
        BY <3>1, <3>2, <4>1 DEF Held, Writing
      <4>2. QED
        BY <3>3, <4>1
    <3>6. ~At(p, "remove")'
      BY <3>1 DEF At
    <3>7. QED
      BY <1>1, <1>2, <3>4, <3>5, <3>6
      DEF NeverLost, RemovesHeld, ReplacesTarget, ReplacePlace, At
  <2>5. QED
    BY <1>3, <2>3, <2>4 DEF OpenNew
<1>4. CASE WriteNew(p)
  <2>1. f \in Target
    BY <1>1, <1>4 DEF WriteNew, At, ReplacesTarget, ReplacePlace
  <2>2. text' = [text EXCEPT ![f].new = [state |-> "full", edits |-> held[p]]]
    BY <1>4 DEF WriteNew
  <2>3. Held(f)' /\ f' = f
    <3>1. f' = f
      BY <1>4, LocalSame, ReplaceFileSame DEF WriteNew
    <3>2. text'[f].new = [state |-> "full", edits |-> held[p]]
      BY <2>1, <2>2, NewStep, Zenon
    <3>3. QED
      BY <3>1, <3>2 DEF Held
  <2>4. ASSUME NEW t \in Target, t # f, Held(t)
        PROVE  Held(t)'
    <3>1. CASE text[t].new.state = "full"
      BY <2>1, <2>2, <2>4, <3>1, NewStep DEF Held
    <3>2. CASE Writing(t)
      <4>1. PICK q \in Proc : At(q, "new_write") /\ ReplaceFile(q) = t
        BY <3>2 DEF Writing
      <4>2. q # p
        BY <2>4, <4>1
      <4>3. At(q, "new_write")' /\ ReplaceFile(q)' = t
        BY <1>1, <4>1, <4>2, ReplaceFileSame DEF Alone, At
      <4>4. QED
        BY <4>3 DEF Held, Writing
    <3>3. QED
      BY <2>4, <3>1, <3>2 DEF Held
  <2>5. \A t \in Target : text'[t].orig = text[t].orig
    BY <2>1, <2>2, NewStep
  <2>6. \A t \in Target : Held(t) => Held(t)'
    BY <2>3, <2>4
  <2>7. NeverLost'
    BY <1>1, <2>5, <2>6 DEF NeverLost
  <2>8. RemovesHeld'
    BY <1>1, <1>2, <2>3, <2>6
    DEF RemovesHeld, ReplacesTarget, ReplacePlace, At
  <2>9. QED
    BY <2>7, <2>8
<1>5. CASE RemoveOriginal(p)
  <2>1. f \in Target /\ Held(f) /\ pc[p] = "remove"
    BY <1>1, <1>5
    DEF RemoveOriginal, At, ReplacesTarget, ReplacePlace, RemovesHeld
  <2>2. \/ text' = [text EXCEPT ![f].orig = [state |-> "absent", edits |-> <<>>]]
        \/ text' = text
    BY <1>5 DEF RemoveOriginal
  <2>3. /\ \A t \in Target : text'[t].new = text[t].new
        /\ \A t \in Target : t # f => text'[t].orig = text[t].orig
    BY <2>1, <2>2, OrigStep
  <2>4. \A t \in Target : Held(t) => Held(t)'
    BY <1>1, <2>1, <2>3, WritingStays DEF Held
  <2>5. ~At(p, "remove")'
    BY <1>5, GotoAlone DEF RemoveOriginal, At
  <2>6. QED
    BY <1>1, <1>2, <2>1, <2>3, <2>4, <2>5
    DEF NeverLost, RemovesHeld, ReplacesTarget, ReplacePlace, At
<1>6. CASE ~OpenNew(p) /\ ~WriteNew(p) /\ ~RemoveOriginal(p)
  <2>1. text' = text /\ pc[p] \notin ReplacePlace
    BY <1>6, OthersKeepText
  <2>2. \A t : Held(t) => Held(t)'
    BY <1>1, <2>1, WritingStays DEF Held, ReplacePlace
  <2>3. ~At(p, "remove")'
    BY <1>1, <1>6, GotoElsewhere DEF Settles, ReplacePlace, At, Replace, Goto, Fail,
       display_error, TypeOK
  <2>4. QED
    BY <1>1, <1>2, <2>1, <2>2, <2>3
    DEF NeverLost, RemovesHeld, ReplacesTarget, ReplacePlace, At
<1>7. QED
  BY <1>3, <1>4, <1>5, <1>6

LEMMA ReplaceInvInit == Init => ReplaceInv
BY DEF Init, ReplaceInv, NeverLost, ReplacesTarget, RemovesHeld, ReplacePlace, At

LEMMA ReplaceInvStutter ==
  ASSUME ReplaceInv, UNCHANGED vars
  PROVE  ReplaceInv'
<1>1. \A q \in Proc : Same(q) /\ pc'[q] = pc[q]
  BY LocalSame DEF vars
<1>2. \A q \in Proc : ReplaceFile(q)' = ReplaceFile(q)
  BY <1>1, ReplaceFileSame
<1>3. text' = text
  BY DEF vars, disk
<1>4. QED
  BY <1>1, <1>2, <1>3
  DEF ReplaceInv, NeverLost, ReplacesTarget, RemovesHeld, Held, Writing, At

\* However many invocations replace in the same file at the same time, the
\* text of every file is on disk or in the hands of an invocation that is about
\* to write it, as long as no write fails and none of them is killed
\* (ph.c:227-294).
THEOREM TextIsNeverLost ==
  ASSUME {"write", "flush"} \cap Fault = {}, Killable = {}
  PROVE  Spec => []TextSurvives
<1>1. TypeOK /\ ReplaceInv /\ [Next]_vars => ReplaceInv'
  <2> SUFFICES ASSUME TypeOK, ReplaceInv, [Next]_vars PROVE ReplaceInv'
    OBVIOUS
  <2>1. CASE UNCHANGED vars
    BY <2>1, ReplaceInvStutter
  <2>2. CASE Terminated
    BY <2>2, ReplaceInvStutter DEF Terminated
  <2>3. ASSUME NEW p \in Proc, Step(p) \/ Waiting(p) \/ Kill(p)
        PROVE  ReplaceInv'
    <3>1. Step(p) \/ Waiting(p)
      BY <2>3 DEF Kill
    <3>2. ReplacesTarget'
      BY <2>3, ReplacesTargetInvariant DEF ReplaceInv
    <3>3. QED
      BY <3>1, <3>2, NeverLostInvariant DEF ReplaceInv
  <2>4. QED
    BY <2>1, <2>2, <2>3 DEF Next
<1>2. ReplaceInv => TextSurvives
  BY DEF ReplaceInv, NeverLost, Held, Writing, TextSurvives
<1>3. QED
  BY <1>1, <1>2, ReplaceInvInit, TypeCorrect, PTL DEF Spec

-----------------------------------------------------------------------------
(***************************************************************************)
(* What an invocation has started when it ends, and with which code.  The  *)
(* promise about the codes is not inductive: it needs to be known at every *)
(* place of main() what has been started by then, and at the places of     *)
(* create_ini() and encode_file() how the invocation was called.           *)
(***************************************************************************)
Early == Place \ {"prewait", "launch", "finish", "clean", "done"}

Kinds(p) == [i \in DOMAIN ran[p] |-> ran[p][i].kind]

\* What p has started where it is, and whether it has an exit code.
Progress(p) ==
  /\ exit[p] = RUNNING <=> pc[p] # "done"
  /\ pc[p] \in Early => Kinds(p) = <<>>
  /\ pc[p] = "prewait" => Kinds(p) = <<"precmd">>
  /\ pc[p] = "launch" => Kinds(p) \in {<<>>, <<"precmd">>}
  /\ pc[p] \in {"finish", "clean"} => Kinds(p) \in {<<"cmd">>, <<"precmd", "cmd">>}

\* A step of p before it starts anything: on to another such place, or out.
EarlyStep(p) ==
  /\ pc[p] \in Early /\ ran' = ran
  /\ \A q \in Proc \ {p} : pc'[q] = pc[q]
  /\ \/ pc'[p] \in Early /\ exit' = exit
     \/ /\ pc'[p] = "done" /\ exit' = [exit EXCEPT ![p] = exit'[p]]
        /\ exit'[p] \in Int \ {RUNNING}

NotOk(p) == exit' = exit \/ exit'[p] # OK

LEMMA GotoEarly ==
  ASSUME TypeOK, NEW p \in Proc, pc[p] \in Early, NEW place \in Early,
         Goto(p, place), ran' = ran
  PROVE  EarlyStep(p) /\ NotOk(p)
BY DEF EarlyStep, NotOk, Goto, TypeOK, verdict

LEMMA ExitEarly ==
  ASSUME TypeOK, NEW p \in Proc, pc[p] \in Early, NEW code \in Int \ {RUNNING},
         Exit(p, code), ran' = ran
  PROVE  EarlyStep(p) /\ (code # OK => NotOk(p))
BY DEF EarlyStep, NotOk, Exit, TypeOK

LEMMA ErrorEarly ==
  ASSUME TypeOK, NEW p \in Proc, pc[p] \in Early, NEW code \in Nat \ {OK},
         NEW msglen, display_error(p, code, msglen), ran' = ran
  PROVE  EarlyStep(p) /\ NotOk(p)
<1>1. \E c \in Int \ {RUNNING, OK} : exit' = [exit EXCEPT ![p] = c]
  BY DEF display_error, RUNNING, CRASHED, OK
<1>2. pc' = [pc EXCEPT ![p] = "done"]
  BY DEF display_error
<1>3. QED
  BY <1>1, <1>2 DEF EarlyStep, NotOk, TypeOK

LEMMA FailEarly ==
  ASSUME TypeOK, NEW p \in Proc, pc[p] \in Early, NEW code \in Nat \ {OK},
         Fail(p, code), ran' = ran
  PROVE  EarlyStep(p) /\ NotOk(p)
BY ErrorEarly DEF Fail

LEMMA FailWithVarEarly ==
  ASSUME TypeOK, NEW p \in Proc, pc[p] \in Early, NEW code \in Nat \ {OK},
         NEW t, FailWithVar(p, code, t), ran' = ran
  PROVE  EarlyStep(p) /\ NotOk(p)
BY ErrorEarly, FailWithVarShows

\* The steps that can only end with an error.
LEMMA StrictSteps ==
  ASSUME TypeOK, NEW p \in Proc,
         \/ Start(p) \/ EncodeRead(p) \/ EncodeOpen(p) \/ Locate(p)
         \/ LocateIni(p) \/ DownloadOpen(p) \/ Transfer(p) \/ ReadConfig(p)
         \/ ReadGlobal(p) \/ OpenLog(p) \/ ReadSection(p) \/ ExpandPaths(p)
         \/ MustExist(p) \/ Replace(p) \/ OpenNew(p) \/ WriteNew(p)
         \/ RemoveOriginal(p) \/ Transform(p) \/ ExpandCommand(p) \/ CheckExecutable(p)
  PROVE  EarlyStep(p) /\ NotOk(p) /\ req' = req
<1>1. CASE Start(p)
  <2>1. pc[p] \in Early /\ ran' = ran /\ req' = req
    BY <1>1 DEF Start, At, Early, Place, local
  <2>2. QED
    BY <1>1, <2>1, GotoEarly, ExitEarly, FailEarly
    DEF Start, At, Early, Place, OK, NO_CURRENTDIR
<1>2. CASE EncodeRead(p)
  <2>1. pc[p] \in Early /\ ran' = ran /\ req' = req
    BY <1>2 DEF EncodeRead, At, Early, Place, local
  <2>2. QED
    BY <1>2, <2>1, GotoEarly, ExitEarly, FailEarly
    DEF EncodeRead, At, Early, Place, OK, RUNNING
<1>3. CASE EncodeOpen(p)
  <2>1. pc[p] \in Early /\ ran' = ran /\ req' = req
    BY <1>3 DEF EncodeOpen, At, Early, Place, local
  <2>2. QED
    BY <1>3, <2>1, GotoEarly, ExitEarly, FailEarly
    DEF EncodeOpen, At, Early, Place, OK, RUNNING, CRASHED
<1>4. CASE Locate(p)
  <2>1. pc[p] \in Early /\ ran' = ran /\ req' = req
    BY <1>4 DEF Locate, At, Early, Place, local
  <2>2. QED
    BY <1>4, <2>1, GotoEarly, ExitEarly, FailEarly
    DEF Locate, At, Early, Place, OK
<1>5. CASE LocateIni(p)
  <2>1. pc[p] \in Early /\ ran' = ran /\ req' = req
    BY <1>5 DEF LocateIni, At, Early, Place, local
  <2>2. QED
    BY <1>5, <2>1, GotoEarly, ExitEarly, FailEarly
    DEF LocateIni, At, Early, Place, OK
<1>6. CASE DownloadOpen(p)
  <2>1. pc[p] \in Early /\ ran' = ran /\ req' = req
    BY <1>6 DEF DownloadOpen, At, Early, Place, local
  <2>2. QED
    BY <1>6, <2>1, GotoEarly, ExitEarly, FailEarly
    DEF DownloadOpen, At, Early, Place, OK, RUNNING, CRASHED
<1>7. CASE Transfer(p)
  <2>1. pc[p] \in Early /\ ran' = ran /\ req' = req
    BY <1>7 DEF Transfer, At, Early, Place, local
  <2>2. QED
    BY <1>7, <2>1, GotoEarly, ExitEarly, FailEarly
    DEF Transfer, At, Early, Place, OK, FAILED_TO_DOWNLOAD_CONFIG
<1>8. CASE ReadConfig(p)
  <2>1. pc[p] \in Early /\ ran' = ran /\ req' = req
    BY <1>8 DEF ReadConfig, At, Early, Place, local
  <2>2. QED
    BY <1>8, <2>1, GotoEarly, ExitEarly, FailEarly
    DEF ReadConfig, At, Early, Place, OK, FAILED_TO_OPEN_CONFIG
<1>9. CASE ReadGlobal(p)
  <2>1. pc[p] \in Early /\ ran' = ran /\ req' = req
    BY <1>9 DEF ReadGlobal, At, Early, Place, local
  <2>2. QED
    BY <1>9, <2>1, GotoEarly, FailEarly, FailWithVarEarly
    DEF ReadGlobal, At, Early, Place, OK, FAILED_TO_EXPAND_ENV, INI_PARSE_ERR
<1>10. CASE OpenLog(p)
  <2>1. pc[p] \in Early /\ ran' = ran /\ req' = req
    BY <1>10 DEF OpenLog, At, Early, Place, local
  <2>2. QED
    BY <1>10, <2>1, GotoEarly, ExitEarly, FailEarly
    DEF OpenLog, At, Early, Place, OK, ERR_NO_USERDIR, FAILED_TO_OPEN_LOGFILE
<1>11. CASE ReadSection(p)
  <2>1. pc[p] \in Early /\ ran' = ran /\ req' = req
    BY <1>11 DEF ReadSection, At, Early, Place, local
  <2>2. QED
    BY <1>11, <2>1, GotoEarly, FailEarly, FailWithVarEarly
    DEF ReadSection, At, Early, Place, OK, INI_PARSE_ERR, NO_INI_SECTION_FOUND
<1>12. CASE ExpandPaths(p)
  <2>1. pc[p] \in Early /\ ran' = ran /\ req' = req
    BY <1>12 DEF ExpandPaths, At, Early, Place, local
  <2>2. QED
    BY <1>12, <2>1, GotoEarly, FailEarly, FailWithVarEarly
    DEF ExpandPaths, At, Early, Place, OK, FAILED_TO_EXPAND_ENV
<1>13. CASE MustExist(p)
  <2>1. pc[p] \in Early /\ ran' = ran /\ req' = req
    BY <1>13 DEF MustExist, At, Early, Place, local
  <2>2. QED
    BY <1>13, <2>1, GotoEarly, ExitEarly, ErrorEarly
    DEF MustExist, At, Early, Place, OK, FILE_NOT_FOUND
<1>14. CASE Replace(p)
  <2>1. pc[p] \in Early /\ ran' = ran /\ req' = req
    BY <1>14 DEF Replace, At, Early, Place, local
  <2>2. QED
    BY <1>14, <2>1, GotoEarly, ExitEarly, FailEarly
    DEF Replace, At, Early, Place, OK, MISSING_REGEX,
        FAILED_TO_OPEN_REPLACE_FILE, FAILED_TO_PARSE_REGEX
<1>15. CASE OpenNew(p)
  <2>1. pc[p] \in Early /\ ran' = ran /\ req' = req
    BY <1>15 DEF OpenNew, At, Early, Place, local
  <2>2. QED
    BY <1>15, <2>1, GotoEarly, ExitEarly, FailEarly
    DEF OpenNew, At, Early, Place, OK, RUNNING, CRASHED
<1>16. CASE WriteNew(p)
  <2>1. pc[p] \in Early /\ ran' = ran /\ req' = req
    BY <1>16 DEF WriteNew, At, Early, Place, local
  <2>2. QED
    BY <1>16, <2>1, GotoEarly, ExitEarly, FailEarly
    DEF WriteNew, At, Early, Place, OK
<1>17. CASE RemoveOriginal(p)
  <2>1. pc[p] \in Early /\ ran' = ran /\ req' = req
    BY <1>17 DEF RemoveOriginal, At, Early, Place, local
  <2>2. QED
    BY <1>17, <2>1, GotoEarly, ExitEarly, FailEarly
    DEF RemoveOriginal, At, Early, Place, OK
<1>18. CASE Transform(p)
  <2>1. pc[p] \in Early /\ ran' = ran /\ req' = req
    BY <1>18 DEF Transform, At, Early, Place, local
  <2>2. QED
    BY <1>18, <2>1, GotoEarly, ExitEarly, FailEarly
    DEF Transform, At, Early, Place, OK, RUNNING, CRASHED, FAILED_TO_ZEROPAD
<1>19. CASE ExpandCommand(p)
  <2>1. pc[p] \in Early /\ ran' = ran /\ req' = req
    BY <1>19 DEF ExpandCommand, At, Early, Place, local
  <2>2. QED
    BY <1>19, <2>1, GotoEarly, ExitEarly, FailEarly
    DEF ExpandCommand, At, Early, Place, OK, PH_EXP_ERR_QUERYNVVAR_NOT_FOUND,
        EXP_ERR_QUERYNVVAR_NOT_FOUND
<1>20. CASE CheckExecutable(p)
  <2>1. pc[p] \in Early /\ ran' = ran /\ req' = req
    BY <1>20 DEF CheckExecutable, At, Early, Place, local
  <2>2. QED
    BY <1>20, <2>1, GotoEarly, ExitEarly, FailEarly
    DEF CheckExecutable, At, Early, Place, OK, NOT_EXECUTABLE
<1>21. QED
  BY <1>1, <1>2, <1>3, <1>4, <1>5, <1>6, <1>7, <1>8, <1>9, <1>10, <1>11, <1>12,
      <1>13, <1>14, <1>15, <1>16, <1>17, <1>18, <1>19, <1>20, Zenon

LEMMA UrlSteps ==
  ASSUME TypeOK, NEW p \in Proc, ParseUri(p) \/ ChooseCommand(p)
  PROVE  EarlyStep(p) /\ NotOk(p) /\ req' = req
<1>1. CASE ParseUri(p)
  <2>1. pc[p] \in Early /\ ran' = ran /\ req' = req
    BY <1>1 DEF ParseUri, At, Early, Place
  <2>2. 127 + req[p].res \in Nat \ {OK}
    <3>1. req[p].res \in 0..6
      BY DispatchAssumption DEF TypeOK, RequestType
    <3>2. QED
      BY <3>1 DEF OK
  <2>3. QED
    BY <1>1, <2>1, <2>2, GotoEarly, FailEarly
    DEF ParseUri, Early, Place, OK, NO_INPUT
<1>2. CASE ChooseCommand(p)
  <2>1. pc[p] \in Early /\ ran' = ran /\ req' = req
    BY <1>2 DEF ChooseCommand, At, Early, Place
  <2>2. ASSUME NEW c, Choose(p, c)
        PROVE  EarlyStep(p) /\ NotOk(p)
    BY <2>1, <2>2, GotoEarly, FailEarly
    DEF Choose, Early, Place, OK, NO_CMD_DIRECTIVE
  <2>3. \/ \E c : Choose(p, c)
        \/ Fail(p, NO_USER_PARAM_FOUND)
        \/ Exit(p, CRASHED)
    BY <1>2, Zenon DEF ChooseCommand
  <2>4. QED
    BY <2>1, <2>2, <2>3, ExitEarly, FailEarly
    DEF OK, NO_USER_PARAM_FOUND, CRASHED, RUNNING
<1>3. QED
  BY <1>1, <1>2

\* The steps that may end with OK although they start nothing.
OkStep(p) == Mode(p) \/ EncodeWrite(p) \/ CreateOpen(p) \/ CreateWrite(p)

LEMMA OkSteps ==
  ASSUME TypeOK, NEW p \in Proc, OkStep(p)
  PROVE  EarlyStep(p) /\ req' = req
<1>1. CASE Mode(p)
  <2>1. pc[p] \in Early /\ ran' = ran /\ req' = req
    BY <1>1 DEF Mode, At, Early, Place
  <2>2. \/ \E place \in {"encode", "download", "read", "locate"} : Goto(p, place)
        \/ \E code \in {OK, 2, 3} : Exit(p, code)
    BY <1>1 DEF Mode
  <2>3. QED
    BY <2>1, <2>2, GotoEarly, ExitEarly DEF Early, Place, OK, RUNNING
<1>2. CASE EncodeWrite(p)
  BY <1>2, ExitEarly DEF EncodeWrite, At, Early, Place, local, OK, RUNNING
<1>3. CASE CreateOpen(p)
  BY <1>3, GotoEarly, ExitEarly DEF CreateOpen, At, Early, Place, local, OK, RUNNING
<1>4. CASE CreateWrite(p)
  BY <1>4, ExitEarly DEF CreateWrite, At, Early, Place, local, OK, RUNNING, CRASHED
<1>5. QED
  BY <1>1, <1>2, <1>3, <1>4 DEF OkStep

\* The steps from the precmd on.
LateStep(p) ==
  \/ RunPrecmd(p) \/ PrecmdEnds(p) \/ Launch(p) \/ Finish(p) \/ CleanLog(p)
  \/ Kill(p)

LEMMA EveryStep ==
  ASSUME TypeOK, NEW p \in Proc, Step(p) \/ Waiting(p) \/ Kill(p)
  PROVE  \/ EarlyStep(p) /\ (NotOk(p) \/ OkStep(p)) /\ req' = req
         \/ LateStep(p)
BY StrictSteps, UrlSteps, OkSteps, Zenon DEF Step, Waiting, LateStep, OkStep

-----------------------------------------------------------------------------
(* What each late step starts *)

LEMMA KindsSame ==
  ASSUME NEW q, ran'[q] = ran[q]
  PROVE  Kinds(q)' = Kinds(q)
BY DEF Kinds

LEMMA KindsType ==
  ASSUME TypeOK, NEW p \in Proc
  PROVE  Kinds(p) \in Seq({"precmd", "cmd"}) /\ Len(Kinds(p)) = Len(ran[p])
<1>1. ran[p] \in Seq(Started)
  BY DEF TypeOK
<1>2. Len(ran[p]) \in Nat /\ DOMAIN ran[p] = 1..Len(ran[p])
  BY <1>1, LenProperties
<1>3. \A i \in 1..Len(ran[p]) : ran[p][i].kind \in {"precmd", "cmd"}
  <2>1. \A i \in 1..Len(ran[p]) : ran[p][i] \in Started
    BY <1>1, ElementOfSeq
  <2>2. QED
    BY <2>1 DEF Started
<1>4. Kinds(p) = [i \in 1..Len(ran[p]) |-> ran[p][i].kind]
  BY <1>2 DEF Kinds
<1>5. QED
  BY <1>2, <1>3, <1>4, IsASeq, LenProperties

LEMMA StartedKinds ==
  ASSUME TypeOK, NEW p \in Proc, NEW kind \in {"precmd", "cmd"}, NEW line,
         NEW window, StartCommand(p, kind, line, window)
  PROVE  /\ Kinds(p)' = Append(Kinds(p), kind)
         /\ \A q \in Proc \ {p} : ran'[q] = ran[q]
<1> DEFINE c == [kind |-> kind, line |-> line, window |-> window]
           n == Len(ran[p])
           more == Append(Kinds(p), kind)
<1>1. ran'[p] = Append(ran[p], c) /\ \A q \in Proc \ {p} : ran'[q] = ran[q]
  BY DEF StartCommand, TypeOK
<1>2. ran[p] \in Seq(Started)
  BY DEF TypeOK
<1>3. /\ n \in Nat /\ DOMAIN ran[p] = 1..n
      /\ DOMAIN ran'[p] = 1..(n + 1)
      /\ \A i \in 1..n : ran'[p][i] = ran[p][i]
      /\ ran'[p][n + 1] = c
  BY <1>1, <1>2
<1>4. Kinds(p) \in Seq({"precmd", "cmd"}) /\ Len(Kinds(p)) = n
  BY KindsType
<1>5. /\ more \in Seq({"precmd", "cmd"}) /\ Len(more) = n + 1
      /\ \A i \in 1..n : more[i] = Kinds(p)[i]
      /\ more[n + 1] = kind
  BY <1>4, AppendProperties
<1>6. Kinds(p)' = [i \in 1..(n + 1) |-> ran'[p][i].kind]
  BY <1>3 DEF Kinds
<1>7. \A i \in 1..(n + 1) : Kinds(p)'[i] = more[i]
  <2>1. \A i \in 1..n : Kinds(p)[i] = ran[p][i].kind
    BY <1>3 DEF Kinds
  <2> HIDE DEF n, more, c
  <2>2. TAKE i \in 1..(n + 1)
  <2>3. Kinds(p)'[i] = ran'[p][i].kind
    BY <1>6
  <2>4. CASE i = n + 1
    <3>1. ran'[p][n + 1].kind = kind
      BY <1>3 DEF c
    <3>2. QED
      BY <1>5, <2>3, <2>4, <3>1
  <2>5. CASE i \in 1..n
    BY <1>3, <1>5, <2>1, <2>3, <2>5
  <2>6. QED
    BY <1>3, <2>4, <2>5
<1>8. more = [i \in 1..(n + 1) |-> more[i]]
  BY <1>5, LenProperties
<1> HIDE DEF more
<1>9. Kinds(p)' = more
  BY <1>6, <1>7, <1>8
<1>10. QED
  BY <1>1, <1>9 DEF more

-----------------------------------------------------------------------------
(* Every step keeps what is known at the places. *)

Done == {<<"cmd">>, <<"precmd", "cmd">>}

\* What is seen of a late step of p from outside.
SeenLate(p) ==
  \/ exit' = exit /\ ran' = ran
  \/ exit' = exit /\ Kinds(p) = <<>> /\ Kinds(p)' = <<"precmd">>
  \/ exit' = exit /\ Kinds(p) \in {<<>>, <<"precmd">>} /\ Kinds(p)' \in Done
     /\ Kinds(p)' = Append(Kinds(p), "cmd")
  \/ exit' = [exit EXCEPT ![p] = OK] /\ ran' = ran /\ Kinds(p) \in Done
  \/ exit' = [exit EXCEPT ![p] = KILLED] /\ ran' = ran

OthersSame(p) ==
  \A q \in Proc \ {p} : pc'[q] = pc[q] /\ exit'[q] = exit[q] /\ ran'[q] = ran[q]

LEMMA EarlyProgress ==
  ASSUME TypeOK, NEW p \in Proc, Progress(p), EarlyStep(p)
  PROVE  Progress(p)' /\ OthersSame(p)
<1>1. Kinds(p)' = Kinds(p)
  BY KindsSame DEF EarlyStep
<1>2. Kinds(p) = <<>> /\ exit[p] = RUNNING
  BY DEF EarlyStep, Progress, Early
<1>3. OthersSame(p)
  BY DEF OthersSame, EarlyStep, TypeOK
<1>4. \/ pc'[p] \in Early /\ exit'[p] = RUNNING
      \/ pc'[p] = "done" /\ exit'[p] # RUNNING
  BY <1>2 DEF EarlyStep
<1>5. QED
  BY <1>1, <1>2, <1>3, <1>4 DEF Progress, Early

LEMMA LateProgress ==
  ASSUME TypeOK, NEW p \in Proc, Progress(p), LateStep(p)
  PROVE  Progress(p)' /\ OthersSame(p) /\ SeenLate(p) /\ exit[p] = RUNNING
<1>1. ran' = ran => Kinds(p)' = Kinds(p)
  BY KindsSame
<1>2. Kinds(p) \in Seq({"precmd", "cmd"})
  BY KindsType
<1>3. CASE RunPrecmd(p) /\ ran' = ran
  <2>1. Kinds(p) = <<>> /\ exit[p] = RUNNING
    BY <1>3 DEF RunPrecmd, At, Progress, Early, Place
  <2>2. pc'[p] = "launch" /\ exit' = exit /\ \A q \in Proc \ {p} : pc'[q] = pc[q]
    <3>1. \/ Goto(p, "launch")
          \/ Kinds(p)' = Append(Kinds(p), "precmd")
      BY <1>3, StartedKinds DEF RunPrecmd
    <3>2. ~(Kinds(p)' = Append(Kinds(p), "precmd"))
      BY <1>1, <1>3, <2>1
    <3>3. QED
      BY <3>1, <3>2, GotoAlone DEF Goto, verdict
  <2>3. QED
    BY <1>1, <1>3, <2>1, <2>2 DEF Progress, OthersSame, SeenLate, Early
<1>4. CASE RunPrecmd(p) /\ ran' # ran
  <2>1. Kinds(p) = <<>> /\ exit[p] = RUNNING
    BY <1>4 DEF RunPrecmd, At, Progress, Early, Place
  <2>2. Goto(p, "prewait") /\ StartCommand(p, "precmd", PreCmd(p), "normal")
    BY <1>4 DEF RunPrecmd
  <2>3. /\ pc'[p] = "prewait" /\ exit' = exit
        /\ \A q \in Proc \ {p} : pc'[q] = pc[q]
    BY <2>2, GotoAlone DEF Goto, verdict
  <2>4. Kinds(p)' = <<"precmd">> /\ \A q \in Proc \ {p} : ran'[q] = ran[q]
    <3>1. Append(<<>>, "precmd") = <<"precmd">>
      OBVIOUS
    <3>2. /\ Kinds(p)' = Append(Kinds(p), "precmd")
          /\ \A q \in Proc \ {p} : ran'[q] = ran[q]
      BY <2>2, StartedKinds
    <3>3. QED
      BY <2>1, <3>1, <3>2, Zenon
  <2>5. QED
    BY <2>1, <2>3, <2>4 DEF Progress, OthersSame, SeenLate, Early
<1>5. CASE PrecmdEnds(p)
  <2>1. Kinds(p) = <<"precmd">> /\ exit[p] = RUNNING
    BY <1>5 DEF PrecmdEnds, At, Progress
  <2>2. /\ pc'[p] = "launch" /\ exit' = exit /\ ran' = ran
        /\ \A q \in Proc \ {p} : pc'[q] = pc[q]
    BY <1>5, GotoAlone DEF PrecmdEnds, Goto, verdict
  <2>3. QED
    BY <1>1, <2>1, <2>2 DEF Progress, OthersSame, SeenLate, Early
<1>6. CASE Launch(p)
  <2>1. Kinds(p) \in {<<>>, <<"precmd">>} /\ exit[p] = RUNNING
    BY <1>6 DEF Launch, At, Progress
  <2>2. /\ pc'[p] = "finish" /\ exit' = exit
        /\ \A q \in Proc \ {p} : pc'[q] = pc[q]
    BY <1>6, GotoAlone DEF Launch, Goto, verdict
  <2>3. /\ Kinds(p)' = Append(Kinds(p), "cmd")
        /\ \A q \in Proc \ {p} : ran'[q] = ran[q]
    BY <1>6, StartedKinds DEF Launch
  <2>4. Kinds(p)' \in Done
    <3> DEFINE both == Append(<<"precmd">>, "cmd")
    <3>0. Append(<<>>, "cmd") = <<"cmd">>
      OBVIOUS
    <3>1. both = <<"precmd", "cmd">>
      <4>1. <<"precmd">> \in Seq({"precmd", "cmd"}) /\ Len(<<"precmd">>) = 1
            /\ <<"precmd">>[1] = "precmd"
        OBVIOUS
      <4>2. /\ both \in Seq({"precmd", "cmd"}) /\ Len(both) = 2
            /\ both[1] = "precmd" /\ both[2] = "cmd"
        BY <4>1, AppendProperties
      <4> HIDE DEF both
      <4>3. both = [i \in 1..2 |-> both[i]]
        BY <4>2, LenProperties
      <4>4. QED
        BY <4>2, <4>3
    <3>2. \/ Kinds(p)' = <<"cmd">>
          \/ Kinds(p)' = <<"precmd", "cmd">>
      BY <2>1, <2>3, <3>0, <3>1, Zenon
    <3>3. QED
      BY <3>2 DEF Done
  <2>5. QED
    BY <2>1, <2>2, <2>3, <2>4 DEF Progress, OthersSame, SeenLate, Early, Done
<1>7. CASE Finish(p) \/ CleanLog(p)
  <2>1. Kinds(p) \in Done /\ exit[p] = RUNNING
    BY <1>7 DEF Finish, CleanLog, At, Progress, Done
  <2>2. /\ ran' = ran /\ \A q \in Proc \ {p} : pc'[q] = pc[q]
        /\ \/ pc'[p] = "clean" /\ exit' = exit
           \/ pc'[p] = "done" /\ exit' = [exit EXCEPT ![p] = OK]
    BY <1>7, GotoAlone DEF Finish, CleanLog, Goto, Exit, verdict, TypeOK
  <2>3. exit'[p] = OK \/ exit' = exit
    BY <2>2 DEF TypeOK
  <2>4. \A q \in Proc \ {p} : exit'[q] = exit[q]
    BY <2>2 DEF TypeOK
  <2>5. pc'[p] = "done" <=> exit'[p] # RUNNING
    BY <2>1, <2>2 DEF TypeOK, OK, RUNNING
  <2>6. QED
    BY <1>1, <2>1, <2>2, <2>4, <2>5 DEF Progress, OthersSame, SeenLate, Early, Done
<1>8. CASE Kill(p)
  <2>1. exit[p] = RUNNING
    BY <1>8 DEF Kill, At, Progress
  <2>2. /\ ran' = ran /\ pc' = [pc EXCEPT ![p] = "done"]
        /\ exit' = [exit EXCEPT ![p] = KILLED]
    BY <1>8 DEF Kill, Exit
  <2>3. /\ pc'[p] = "done" /\ exit'[p] # RUNNING
        /\ \A q \in Proc \ {p} : pc'[q] = pc[q] /\ exit'[q] = exit[q]
    BY <2>2 DEF TypeOK, KILLED, RUNNING
  <2>4. QED
    BY <2>1, <2>2, <2>3 DEF Progress, OthersSame, SeenLate, Early
<1>9. QED
  BY <1>3, <1>4, <1>5, <1>6, <1>7, <1>8 DEF LateStep

LEMMA ProgressStep ==
  ASSUME TypeOK, \A q \in Proc : Progress(q), NEW p \in Proc,
         Step(p) \/ Waiting(p) \/ Kill(p)
  PROVE  \A q \in Proc : Progress(q)'
<1>1. Progress(p)' /\ OthersSame(p)
  BY EveryStep, EarlyProgress, LateProgress
<1>2. ASSUME NEW q \in Proc \ {p}
      PROVE  Progress(q)'
  <2>1. Kinds(q)' = Kinds(q)
    BY <1>1, KindsSame DEF OthersSame
  <2>2. QED
    BY <1>1, <2>1 DEF OthersSame, Progress
<1>3. QED
  BY <1>1, <1>2

LEMMA ProgressInit ==
  ASSUME Init
  PROVE  \A q \in Proc : Progress(q)
<1>1. \A q \in Proc : pc[q] = "start" /\ exit[q] = RUNNING /\ ran[q] = <<>>
  BY DEF Init
<1>2. \A q \in Proc : Kinds(q) = <<>>
  BY <1>1 DEF Kinds
<1>3. QED
  BY <1>1, <1>2 DEF Progress, Early

LEMMA ProgressStutter ==
  ASSUME \A q \in Proc : Progress(q), UNCHANGED vars
  PROVE  \A q \in Proc : Progress(q)'
<1>1. pc' = pc /\ exit' = exit /\ ran' = ran
  BY DEF vars, verdict
<1>2. \A q \in Proc : Kinds(q)' = Kinds(q)
  BY <1>1, KindsSame
<1>3. QED
  BY <1>1, <1>2 DEF Progress

-----------------------------------------------------------------------------
(* The refinement *)

\* Seen from outside, for any number of invocations that share a disk and for
\* any faults: each starts at most its precmd and then its cmd, none that has
\* started something ends with an error, and none starts anything after it has
\* ended (ph.c:433-1342).
THEOREM ImplementsInvocation == Spec => IsInvocation
<1>1. Init => Outside!Init
  BY DEF Init, Outside!Init, RUNNING, Outside!Running
<1>2. TypeOK /\ (\A q \in Proc : Progress(q)) /\ [Next]_vars
        => [Outside!Next]_(Outside!vars)
  <2> SUFFICES ASSUME TypeOK, \A q \in Proc : Progress(q), [Next]_vars
               PROVE  Outside!Next \/ UNCHANGED Outside!vars
    OBVIOUS
  <2> DEFINE K == [q \in Proc |-> [i \in DOMAIN ran[q] |-> ran[q][i].kind]]
  <2>0. K = [q \in Proc |-> Kinds(q)]
    BY DEF Kinds
  <2>1. CASE UNCHANGED vars \/ Terminated
    <3>1. exit' = exit /\ ran' = ran
      BY <2>1 DEF Terminated, vars, verdict
    <3>2. QED
      BY <3>1 DEF Outside!vars
  <2>2. ASSUME NEW p \in Proc, Step(p) \/ Waiting(p) \/ Kill(p)
        PROVE  Outside!Next \/ UNCHANGED Outside!vars
    <3>0. exit[p] = Outside!Running
      BY EveryStep, LateProgress, <2>2
      DEF EarlyStep, Progress, RUNNING, Outside!Running, Early
    <3>1. ran' = ran => K' = K
      OBVIOUS
    <3>2. K[p] = Kinds(p) /\ K'[p] = Kinds(p)'
      BY DEF Kinds
    <3>3. OthersSame(p) => \A q \in Proc \ {p} : K'[q] = K[q]
      BY DEF OthersSame
    <3>4. CASE EarlyStep(p)
      <4>1. K[p] = <<>> /\ K' = K
        BY <3>1, <3>2, <3>4 DEF EarlyStep, Progress
      <4>2. CASE exit' = exit
        BY <4>1, <4>2 DEF Outside!vars
      <4>3. CASE exit' # exit
        <5>1. Outside!Refuse(p)
          BY <3>0, <3>4, <4>1, <4>3
          DEF EarlyStep, Outside!Refuse, RUNNING, Outside!Running
        <5>2. QED
          BY <5>1 DEF Outside!Next
      <4>4. QED
        BY <4>2, <4>3
    <3>5. CASE LateStep(p)
      <4>1. SeenLate(p) /\ OthersSame(p)
        BY <3>5, LateProgress
      <4>2. K' = [K EXCEPT ![p] = Kinds(p)']
        BY <3>2, <3>3, <4>1
      <4>3. CASE exit' = exit /\ ran' = ran
        BY <3>1, <4>3 DEF Outside!vars
      <4>4. CASE exit' = exit /\ Kinds(p) = <<>> /\ Kinds(p)' = <<"precmd">>
        <5>1. Outside!StartPrecmd(p)
          BY <3>0, <3>2, <4>2, <4>4 DEF Outside!StartPrecmd
        <5>2. QED
          BY <5>1 DEF Outside!Next
      <4>5. CASE exit' = exit /\ Kinds(p) \in {<<>>, <<"precmd">>}
                 /\ Kinds(p)' = Append(Kinds(p), "cmd")
        <5>1. Outside!StartCmd(p)
          BY <3>0, <3>2, <4>2, <4>5 DEF Outside!StartCmd
        <5>2. QED
          BY <5>1 DEF Outside!Next
      <4>6. CASE exit' = [exit EXCEPT ![p] = OK] /\ ran' = ran /\ Kinds(p) \in Done
        <5>1. Outside!Succeed(p)
          BY <3>0, <3>1, <3>2, <4>6 DEF Outside!Succeed, Done, OK
        <5>2. QED
          BY <5>1 DEF Outside!Next
      <4>7. CASE exit' = [exit EXCEPT ![p] = KILLED] /\ ran' = ran
        <5>1. Outside!Die(p)
          BY <3>0, <3>1, <4>7 DEF Outside!Die
        <5>2. QED
          BY <5>1 DEF Outside!Next
      <4>8. QED
        BY <4>1, <4>3, <4>4, <4>5, <4>6, <4>7 DEF SeenLate
    <3>6. QED
      BY <2>2, <3>4, <3>5, EveryStep
  <2>3. QED
    BY <2>1, <2>2 DEF Next
<1>3. TypeOK /\ (\A q \in Proc : Progress(q)) /\ [Next]_vars
        => (\A q \in Proc : Progress(q))'
  BY ProgressStep, ProgressStutter DEF Next, Terminated
<1>4. QED
  BY <1>1, <1>2, <1>3, ProgressInit, TypeCorrect, PTL
  DEF Spec, IsInvocation, Outside!Spec

-----------------------------------------------------------------------------
(* OK means launched, unless the configuration was missing. *)

EncodePlace == {"encode", "encode_open", "encode_write"}

CreatePlace == {"locate", "locate_ini", "create_open", "create_write"}

\* How p was called, and what it knows of the disk, where it creates a file.
Called(p) ==
  /\ pc[p] \in EncodePlace => req[p].arg1 = "-e"
  /\ pc[p] \in {"encode_open", "encode_write"} => conf[p].exists
  /\ pc[p] \in {"start", "mode"} => ~conf[p].exists
  /\ pc[p] \in CreatePlace => req[p].from = "default" /\ ~conf[p].exists
  /\ pc[p] = "create_write" => ini["ph.ini"].exists

\* An OK is what it means.
OkIsMeant(p) ==
  exit[p] = OK /\ req[p].arg1 = "url" =>
    \/ Kinds(p) \in Done
    \/ /\ req[p].from = "default" /\ Kinds(p) = <<>>
       /\ ini["ph.ini"].exists /\ ~conf[p].exists

OutcomeInv == \A p \in Proc : Progress(p) /\ Called(p) /\ OkIsMeant(p)

\* A step that has nothing to do with encode_file(), create_ini() or getfile().
Ordinary(p) ==
  /\ ini' = ini
  /\ pc'[p] \notin EncodePlace \cup CreatePlace \cup {"start"}
  /\ pc'[p] = "mode" => Start(p)

LEMMA EndsDone ==
  ASSUME TypeOK, NEW p \in Proc, NEW code,
         \/ Exit(p, code) \/ Fail(p, code)
         \/ \E msglen : display_error(p, code, msglen)
  PROVE  pc'[p] = "done"
BY DEF TypeOK, Exit, Fail, display_error

LEMMA FailWithVarDone ==
  ASSUME TypeOK, NEW p \in Proc, NEW code, NEW t, FailWithVar(p, code, t)
  PROVE  pc'[p] = "done"
BY FailWithVarShows, EndsDone

LEMMA OrdinarySteps ==
  ASSUME TypeOK, NEW p \in Proc,
         \/ Start(p) \/ ReadConfig(p) \/ ReadGlobal(p) \/ OpenLog(p)
         \/ ParseUri(p) \/ ReadSection(p) \/ ChooseCommand(p) \/ ExpandPaths(p)
         \/ MustExist(p) \/ Replace(p) \/ OpenNew(p) \/ WriteNew(p)
         \/ RemoveOriginal(p) \/ Transform(p) \/ ExpandCommand(p) \/ CheckExecutable(p)
         \/ RunPrecmd(p) \/ PrecmdEnds(p) \/ Launch(p) \/ Finish(p)
         \/ CleanLog(p) \/ Kill(p)
  PROVE  Ordinary(p)
<1>1. CASE Start(p)
  BY <1>1, GotoAlone, EndsDone
  DEF Start, Ordinary, EncodePlace, CreatePlace, disk
<1>2. CASE ReadConfig(p)
  BY <1>2, GotoAlone, EndsDone
  DEF ReadConfig, Ordinary, EncodePlace, CreatePlace, disk
<1>3. CASE ReadGlobal(p)
  BY <1>3, GotoAlone, EndsDone, FailWithVarDone
  DEF ReadGlobal, Ordinary, EncodePlace, CreatePlace, disk
<1>4. CASE OpenLog(p)
  BY <1>4, GotoAlone, EndsDone
  DEF OpenLog, Ordinary, EncodePlace, CreatePlace, disk
<1>5. CASE ParseUri(p)
  BY <1>5, GotoAlone, EndsDone
  DEF ParseUri, Ordinary, EncodePlace, CreatePlace, disk
<1>6. CASE ReadSection(p)
  BY <1>6, GotoAlone, EndsDone, FailWithVarDone
  DEF ReadSection, Ordinary, EncodePlace, CreatePlace, disk
<1>7. CASE ChooseCommand(p)
  BY <1>7, GotoAlone, EndsDone
  DEF ChooseCommand, Choose, Ordinary, EncodePlace, CreatePlace, disk
<1>8. CASE ExpandPaths(p)
  BY <1>8, GotoAlone, EndsDone, FailWithVarDone
  DEF ExpandPaths, Ordinary, EncodePlace, CreatePlace, disk
<1>9. CASE MustExist(p)
  BY <1>9, GotoAlone, EndsDone
  DEF MustExist, Ordinary, EncodePlace, CreatePlace, disk
<1>10. CASE Replace(p)
  BY <1>10, GotoAlone, EndsDone
  DEF Replace, Ordinary, EncodePlace, CreatePlace, disk
<1>11. CASE OpenNew(p)
  BY <1>11, GotoAlone, EndsDone
  DEF OpenNew, Ordinary, EncodePlace, CreatePlace, disk
<1>12. CASE WriteNew(p)
  BY <1>12, GotoAlone, EndsDone
  DEF WriteNew, Ordinary, EncodePlace, CreatePlace, disk
<1>13. CASE RemoveOriginal(p)
  BY <1>13, GotoAlone, EndsDone
  DEF RemoveOriginal, Ordinary, EncodePlace, CreatePlace, disk
<1>14. CASE Transform(p)
  BY <1>14, GotoAlone, EndsDone
  DEF Transform, Ordinary, EncodePlace, CreatePlace, disk
<1>15. CASE ExpandCommand(p)
  BY <1>15, GotoAlone, EndsDone
  DEF ExpandCommand, Ordinary, EncodePlace, CreatePlace, disk
<1>16. CASE CheckExecutable(p)
  BY <1>16, GotoAlone, EndsDone
  DEF CheckExecutable, Ordinary, EncodePlace, CreatePlace, disk
<1>17. CASE RunPrecmd(p)
  BY <1>17, GotoAlone, EndsDone
  DEF RunPrecmd, Ordinary, EncodePlace, CreatePlace, disk
<1>18. CASE PrecmdEnds(p)
  BY <1>18, GotoAlone, EndsDone
  DEF PrecmdEnds, Ordinary, EncodePlace, CreatePlace, disk
<1>19. CASE Launch(p)
  BY <1>19, GotoAlone, EndsDone
  DEF Launch, Ordinary, EncodePlace, CreatePlace, disk
<1>20. CASE Finish(p)
  BY <1>20, GotoAlone, EndsDone
  DEF Finish, Ordinary, EncodePlace, CreatePlace, disk
<1>21. CASE CleanLog(p)
  BY <1>21, GotoAlone, EndsDone
  DEF CleanLog, Ordinary, EncodePlace, CreatePlace, disk
<1>22. CASE Kill(p)
  BY <1>22, GotoAlone, EndsDone
  DEF Kill, Ordinary, EncodePlace, CreatePlace, disk
<1>23. QED
  BY <1>1, <1>2, <1>3, <1>4, <1>5, <1>6, <1>7, <1>8, <1>9,
     <1>10, <1>11, <1>12, <1>13, <1>14, <1>15, <1>16, <1>17, <1>18,
     <1>19, <1>20, <1>21, <1>22, Zenon

FileStep(p) ==
  \/ Mode(p) \/ EncodeRead(p) \/ EncodeOpen(p) \/ EncodeWrite(p)
  \/ Locate(p) \/ LocateIni(p) \/ CreateOpen(p) \/ CreateWrite(p)
  \/ DownloadOpen(p) \/ Transfer(p)

LEMMA OrdinaryOrFile ==
  ASSUME TypeOK, NEW p \in Proc, Step(p) \/ Waiting(p) \/ Kill(p)
  PROVE  Ordinary(p) \/ FileStep(p)
BY OrdinarySteps, Zenon DEF Step, Waiting, FileStep

\* What create_ini() writes is a file, whatever was in its place.
LEMMA CreateWriteCreates ==
  ASSUME TypeOK, NEW p \in Proc, CreateWrite(p), ini["ph.ini"].exists
  PROVE  ini'["ph.ini"].exists
<1> DEFINE old == ini["ph.ini"]
           new == [EmptyFile EXCEPT !.lines = ExampleIni]
<1>1. ini \in [ConfigPath -> Content] /\ "ph.ini" \in ConfigPath /\ old \in Content
  BY DEF TypeOK, ConfigPath
<1>2. new \in Content /\ new.exists
  BY DispatchAssumption DEF EmptyFile, Content
<1>3. Overwrite(old, new).exists
  BY <1>1, <1>2, OverwriteType
<1>4. ini' = [ini EXCEPT !["ph.ini"] = Overwrite(old, new)] \/ ini' = ini
  BY DEF CreateWrite
<1> HIDE DEF new
<1>5. QED
  BY <1>1, <1>3, <1>4

\* Once there is a ph.ini it stays: it is emptied or replaced, never removed.
LEMMA IniStays ==
  ASSUME TypeOK, NEW p \in Proc, Called(p), Step(p) \/ Waiting(p) \/ Kill(p),
         ini["ph.ini"].exists
  PROVE  ini'["ph.ini"].exists
<1>0. ini \in [ConfigPath -> Content] /\ "ph.ini" \in ConfigPath
  BY DEF TypeOK, ConfigPath
<1>1. CASE Ordinary(p) \/ Mode(p) \/ EncodeRead(p) \/ Locate(p) \/ LocateIni(p)
  BY <1>1 DEF Ordinary, Mode, EncodeRead, Locate, LocateIni, disk
<1>2. CASE EncodeOpen(p)
  BY <1>0, <1>2 DEF EncodeOpen, EmptyFile
<1>3. CASE EncodeWrite(p)
  <2>1. conf[p].exists /\ conf[p] \in Content
    BY <1>3 DEF EncodeWrite, At, Called, TypeOK
  <2> DEFINE f == req[p].out
             old == ini[f]
             new == [conf[p] EXCEPT !.encoded = ~@]
  <2>2. new \in Content /\ new.exists
    BY <2>1 DEF Content
  <2>3. f \in ConfigPath /\ old \in Content
    BY <1>0, DispatchAssumption DEF TypeOK, RequestType
  <2>4. Overwrite(old, new).exists
    BY <2>2, <2>3, OverwriteType
  <2>5. ini' = [ini EXCEPT ![f] = Overwrite(old, new)] \/ ini' = ini
    BY <1>3 DEF EncodeWrite
  <2> HIDE DEF f, old, new
  <2>6. QED
    BY <1>0, <2>3, <2>4, <2>5
<1>4. CASE CreateOpen(p)
  BY <1>0, <1>4 DEF CreateOpen, EmptyFile
<1>5. CASE CreateWrite(p)
  BY <1>5, CreateWriteCreates
<1>6. CASE DownloadOpen(p) \/ Transfer(p)
  <2>1. "TEMP/ph.dat" # "ph.ini"
    OBVIOUS
  <2>2. ini'["ph.ini"] = ini["ph.ini"]
    BY <1>0, <1>6, <2>1 DEF DownloadOpen, Transfer
  <2>3. QED
    BY <2>2
<1>7. QED
  BY <1>1, <1>2, <1>3, <1>4, <1>5, <1>6, OrdinaryOrFile DEF FileStep

LEMMA CalledStep ==
  ASSUME TypeOK, NEW p \in Proc, Called(p), Step(p) \/ Waiting(p) \/ Kill(p),
         req' = req
  PROVE  Called(p)'
<1>0. /\ ini \in [ConfigPath -> Content] /\ "ph.ini" \in ConfigPath
      /\ pc \in [Proc -> Place] /\ conf \in [Proc -> Content]
  BY DEF TypeOK, ConfigPath
<1>1. CASE Ordinary(p)
  <2>1. CASE Start(p)
    <3>1. pc[p] = "start" /\ conf' = conf
      BY <2>1 DEF Start, At, local
    <3>2. QED
      BY <1>1, <3>1 DEF Ordinary, Called, EncodePlace, CreatePlace
  <2>2. CASE ~Start(p)
    BY <1>1, <2>2 DEF Ordinary, Called, EncodePlace, CreatePlace
  <2>3. QED
    BY <2>1, <2>2
<1>2. CASE Mode(p)
  <2>1. req[p].from \in {"default", "local", "remote"}
    BY DispatchAssumption DEF TypeOK, RequestType
  <2>2. \/ pc'[p] = "encode" /\ req[p].arg1 = "-e"
        \/ pc'[p] = "locate" /\ req[p].from = "default"
        \/ pc'[p] \in {"done", "download", "read"}
    BY <1>0, <1>2, <2>1, GotoAlone, EndsDone DEF Mode
  <2>3. pc[p] = "mode" /\ conf' = conf
    BY <1>2 DEF Mode, At
  <2>4. QED
    BY <2>2, <2>3 DEF Called, EncodePlace, CreatePlace
<1>3. CASE EncodeRead(p)
  BY <1>0, <1>3, GotoAlone, EndsDone
  DEF EncodeRead, At, Called, EncodePlace, CreatePlace
<1>4. CASE EncodeOpen(p)
  BY <1>4, GotoAlone, EndsDone
  DEF EncodeOpen, At, Called, EncodePlace, CreatePlace, local
<1>5. CASE Locate(p)
  BY <1>5, GotoAlone, EndsDone
  DEF Locate, At, Called, EncodePlace, CreatePlace
<1>6. CASE LocateIni(p)
  BY <1>6, GotoAlone, EndsDone
  DEF LocateIni, At, Called, EncodePlace, CreatePlace, local, disk
<1>7. CASE CreateOpen(p)
  <2>1. \/ pc'[p] = "create_write" /\ ini' = [ini EXCEPT !["ph.ini"] = EmptyFile]
        \/ pc'[p] = "done"
    BY <1>7, GotoAlone, EndsDone DEF CreateOpen
  <2>2. ini' = [ini EXCEPT !["ph.ini"] = EmptyFile] => ini'["ph.ini"].exists
    BY <1>0 DEF EmptyFile
  <2>3. conf' = conf
    BY <1>7 DEF CreateOpen, local
  <2>4. QED
    BY <1>7, <2>1, <2>2, <2>3 DEF CreateOpen, At, Called, EncodePlace, CreatePlace
<1>8. CASE EncodeWrite(p) \/ CreateWrite(p) \/ DownloadOpen(p) \/ Transfer(p)
  <2>1. pc'[p] \in {"done", "transfer", "read"}
    BY <1>8, GotoAlone, EndsDone
    DEF EncodeWrite, CreateWrite, DownloadOpen, Transfer
  <2>2. QED
    BY <2>1 DEF Called, EncodePlace, CreatePlace
<1>9. QED
  BY <1>1, <1>2, <1>3, <1>4, <1>5, <1>6, <1>7, <1>8, OrdinaryOrFile DEF FileStep

\* The only steps that end with OK and have started nothing.
LEMMA OkStepMeant ==
  ASSUME TypeOK, "create" \notin Fault, NEW p \in Proc, Progress(p), Called(p),
         OkStep(p), exit'[p] = OK, req[p].arg1 = "url"
  PROVE  req[p].from = "default" /\ ini'["ph.ini"].exists /\ ~conf'[p].exists
<1>0. /\ ini \in [ConfigPath -> Content] /\ "ph.ini" \in ConfigPath
      /\ exit[p] # OK
  BY DEF TypeOK, ConfigPath, OkStep, Mode, EncodeWrite, CreateOpen, CreateWrite,
         At, Progress, RUNNING, OK
<1>1. CASE Mode(p)
  BY <1>0, <1>1 DEF Mode, Goto, verdict
<1>2. CASE EncodeWrite(p)
  BY <1>2 DEF EncodeWrite, At, Called, EncodePlace
<1>3. CASE CreateOpen(p)
  BY <1>0, <1>3 DEF CreateOpen, Goto, verdict
<1>4. CASE CreateWrite(p)
  <2>1. /\ req[p].from = "default" /\ ~conf[p].exists /\ ini["ph.ini"].exists
        /\ conf' = conf
    BY <1>4 DEF CreateWrite, At, Called, CreatePlace, local
  <2>2. QED
    BY <1>4, <2>1, CreateWriteCreates
<1>5. QED
  BY <1>1, <1>2, <1>3, <1>4 DEF OkStep

LEMMA ReqSame ==
  ASSUME TypeOK, NEW p \in Proc, Step(p) \/ Waiting(p) \/ Kill(p)
  PROVE  req' = req
<1>1. LateStep(p) => req' = req
  BY DEF LateStep, RunPrecmd, PrecmdEnds, Launch, Finish, CleanLog, Kill, local
<1>2. QED
  BY <1>1, EveryStep

LEMMA OutcomeStep ==
  ASSUME TypeOK, OutcomeInv, "create" \notin Fault, NEW p \in Proc,
         Step(p) \/ Waiting(p) \/ Kill(p)
  PROVE  OutcomeInv'
<1>0. \A q \in Proc : Progress(q) /\ Called(q) /\ OkIsMeant(q)
  BY DEF OutcomeInv
<1>1. \A q \in Proc : Progress(q)'
  BY <1>0, ProgressStep
<1>2. req' = req /\ (ini["ph.ini"].exists => ini'["ph.ini"].exists)
  BY <1>0, ReqSame, IniStays
<1>3. OthersSame(p) /\ Alone(p)
  BY <1>0, EveryStep, EarlyProgress, LateProgress, StepSettles
<1>4. ASSUME NEW q \in Proc \ {p}
      PROVE  Called(q)' /\ OkIsMeant(q)'
  <2>1. pc'[q] = pc[q] /\ exit'[q] = exit[q] /\ conf'[q] = conf[q]
    BY <1>3 DEF OthersSame, Alone, Same
  <2>2. Kinds(q)' = Kinds(q)
    BY <1>3, KindsSame DEF OthersSame
  <2>3. Called(q)'
    BY <1>0, <1>2, <2>1 DEF Called
  <2>4. OkIsMeant(q)'
    BY <1>0, <1>2, <2>1, <2>2 DEF OkIsMeant
  <2>5. QED
    BY <2>3, <2>4
<1>5. Called(p)'
  BY <1>0, <1>2, CalledStep
<1>6. OkIsMeant(p)'
  <2> SUFFICES ASSUME exit'[p] = OK, req[p].arg1 = "url"
               PROVE  \/ Kinds(p)' \in Done
                      \/ /\ req[p].from = "default" /\ Kinds(p)' = <<>>
                         /\ ini'["ph.ini"].exists /\ ~conf'[p].exists
    BY <1>2 DEF OkIsMeant
  <2>1. CASE ~LateStep(p)
    <3>0. EarlyStep(p) /\ (NotOk(p) \/ OkStep(p))
      BY <2>1, EveryStep
    <3>1. exit[p] = RUNNING /\ Kinds(p) = <<>>
      BY <1>0, <3>0 DEF EarlyStep, Progress, Early
    <3>2. Kinds(p)' = <<>>
      BY <3>0, <3>1, KindsSame DEF EarlyStep
    <3>3. ~NotOk(p)
      BY <3>1 DEF NotOk, RUNNING, OK
    <3>4. OkStep(p)
      BY <3>0, <3>3
    <3>5. QED
      BY <1>0, <3>2, <3>4, OkStepMeant
  <2>2. CASE LateStep(p)
    <3>1. SeenLate(p) /\ exit[p] = RUNNING /\ (ran' = ran => Kinds(p)' = Kinds(p))
      BY <1>0, <2>2, LateProgress, KindsSame
    <3>2. exit' # exit /\ exit'[p] # KILLED
      BY <3>1 DEF RUNNING, OK, KILLED
    <3>3. QED
      BY <3>1, <3>2 DEF SeenLate, TypeOK
  <2>3. QED
    BY <2>1, <2>2
<1>7. QED
  BY <1>1, <1>4, <1>5, <1>6 DEF OutcomeInv

LEMMA OutcomeInit == Init => OutcomeInv
<1> SUFFICES ASSUME Init PROVE OutcomeInv
  OBVIOUS
<1>1. \A q \in Proc : Progress(q)
  BY ProgressInit
<1>2. \A q \in Proc : pc[q] = "start" /\ exit[q] = RUNNING /\ ~conf[q].exists
  BY DEF Init, NoFile
<1>3. \A q \in Proc : Called(q) /\ OkIsMeant(q)
  BY <1>2 DEF Called, OkIsMeant, EncodePlace, CreatePlace, RUNNING, OK
<1>4. QED
  BY <1>1, <1>3 DEF OutcomeInv

LEMMA OutcomeStutter ==
  ASSUME OutcomeInv, UNCHANGED vars
  PROVE  OutcomeInv'
<1>1. \A q \in Proc : Progress(q)'
  BY ProgressStutter DEF OutcomeInv
<1>2. pc' = pc /\ exit' = exit /\ ran' = ran /\ req' = req /\ conf' = conf /\ ini' = ini
  BY DEF vars, verdict, local, disk
<1>3. \A q \in Proc : Kinds(q)' = Kinds(q)
  BY <1>2, KindsSame
<1>4. \A q \in Proc : Called(q)' /\ OkIsMeant(q)'
  BY <1>2, <1>3 DEF OutcomeInv, Called, OkIsMeant
<1>5. QED
  BY <1>1, <1>4 DEF OutcomeInv

LEMMA OutcomeAgrees ==
  ASSUME TypeOK, OutcomeInv
  PROVE  OkMeansLaunched
<1> SUFFICES ASSUME NEW p \in Proc, exit[p] = OK, req[p].arg1 = "url"
             PROVE  \/ ran[p] # <<>> /\ ran[p][Len(ran[p])].kind = "cmd"
                    \/ /\ req[p].from = "default" /\ ran[p] = <<>>
                       /\ ini["ph.ini"].exists /\ ~conf[p].exists
  BY DEF OkMeansLaunched
<1>1. /\ Len(Kinds(p)) = Len(ran[p]) /\ ran[p] \in Seq(Started)
      /\ DOMAIN ran[p] = 1..Len(ran[p])
  BY KindsType, LenProperties DEF TypeOK
<1>2. CASE Kinds(p) \in Done
  <2>1. Len(Kinds(p)) \in {1, 2} /\ Kinds(p)[Len(Kinds(p))] = "cmd"
    BY <1>2 DEF Done
  <2>2. Len(ran[p]) \in DOMAIN ran[p] /\ ran[p] # <<>>
    BY <1>1, <2>1
  <2>3. ran[p][Len(ran[p])].kind = "cmd"
    BY <1>1, <2>1, <2>2 DEF Kinds
  <2>4. QED
    BY <2>2, <2>3
<1>3. CASE /\ Kinds(p) = <<>> /\ req[p].from = "default"
           /\ ini["ph.ini"].exists /\ ~conf[p].exists
  <2>1. Len(ran[p]) = 0
    BY <1>1, <1>3
  <2>2. ran[p] = <<>>
    BY <1>1, <2>1, EmptySeq
  <2>3. QED
    BY <1>3, <2>2
<1>4. QED
  BY <1>2, <1>3 DEF OutcomeInv, OkIsMeant

\* For any number of invocations that share a disk, whatever fails but the
\* creation of the configuration: one that returned OK for a url has started
\* its command, or has found and read no configuration and there is one now
\* (ph.c:605-616, 1217-1342).
THEOREM OkIsLaunched ==
  ASSUME "create" \notin Fault
  PROVE  Spec => []OkMeansLaunched
<1>1. TypeOK /\ OutcomeInv /\ [Next]_vars => OutcomeInv'
  BY OutcomeStep, OutcomeStutter DEF Next, Terminated
<1>2. TypeOK /\ OutcomeInv => OkMeansLaunched
  BY OutcomeAgrees
<1>3. QED
  BY <1>1, <1>2, OutcomeInit, TypeCorrect, PTL DEF Spec

-----------------------------------------------------------------------------
(***************************************************************************)
(* What is started is what the configuration says for this url and this    *)
(* user.  The choice of the directive, the transforms and the substitution *)
(* are steps apart, so the invariant says what each has left behind: the   *)
(* parameters of the url up to the transforms, the choice from then on,    *)
(* and the transformed parameters, which keep their names and their order. *)
(***************************************************************************)
\* v is what a command line may show for a parameter that was asked for.
Shown(p, name, asked, v) ==
  /\ v.rest = asked.rest
  /\ ~Pads(p, name) /\ ~Trims(p, name) => v = asked
  /\ Pads(p, name) /\ ~Trims(p, name)
       => v.zeros >= asked.zeros /\ StrLen(v) >= DocumentedDigits
  /\ Trims(p, name) => v.zeros = 0 \/ (asked.rest = "" /\ v.zeros = 1)

Chosen(p) == IF Option(p, "user_param") = <<>> THEN "plain"
             ELSE IF AsksForUser(p) THEN "match" ELSE "nomatch"

\* The parameters after the transforms.
Filled(p) ==
  /\ Len(query[p]) = Len(req[p].query)
  /\ \A i \in 1..Len(req[p].query) :
       /\ query[p][i].key = req[p].query[i].key
       /\ Shown(p, req[p].query[i].key, req[p].query[i].value, query[p][i].value)

ChosenPlace == {"expand", "must_exist", "replace", "new_open", "new_write",
                "remove", "transform"}

AskedPlace == {"section", "choose"} \cup ChosenPlace

FilledPlace == {"command"} \cup CommandPlace

Ran(p, kind, line) ==
  \E i \in DOMAIN ran[p] : ran[p][i].kind = kind /\ ran[p][i].line = line

\* Every command p has started is an instance of its directive.
Rendered(p) ==
  \A kind, template, line :
    Ran(p, kind, line) /\ template = Configured(p, kind)
      => Renders(p, template, line)

Prepared(p) ==
  /\ pc[p] \in AskedPlace => query[p] = req[p].query
  /\ pc[p] \in ChosenPlace \cup FilledPlace => choice[p] = Chosen(p)
  /\ pc[p] \in FilledPlace => Filled(p)

RenderInv == \A p \in Proc : Progress(p) /\ Prepared(p) /\ Rendered(p)

LEMMA OptionSame ==
  ASSUME NEW q, Same(q), NEW d
  PROVE  Option(q, d)' = Option(q, d)
BY DEF Same, Option

LEMMA ChosenSame ==
  ASSUME NEW q, Same(q)
  PROVE  Chosen(q)' = Chosen(q)
<1>1. Option(q, "user_param")' = Option(q, "user_param")
  BY OptionSame
<1>2. AsksForUser(q)' <=> AsksForUser(q)
  BY <1>1 DEF AsksForUser, Same
<1>3. QED
  BY <1>1, <1>2 DEF Chosen

LEMMA TransformsSame ==
  ASSUME NEW q, Same(q), NEW name
  PROVE  (Pads(q, name)' <=> Pads(q, name)) /\ (Trims(q, name)' <=> Trims(q, name))
<1>1. /\ Option(q, "lpadzero")' = Option(q, "lpadzero")
      /\ Option(q, "ltrimzero")' = Option(q, "ltrimzero")
  BY OptionSame
<1>2. QED
  BY <1>1, Zenon DEF Pads, Trims, Listed

LEMMA FilledSame ==
  ASSUME NEW q, Same(q), Filled(q)
  PROVE  Filled(q)'
<1>1. \A name, asked, v : Shown(q, name, asked, v) => Shown(q, name, asked, v)'
  BY TransformsSame, Zenon DEF Shown
<1>2. QED
  BY <1>1 DEF Filled, Same

LEMMA PreparedSame ==
  ASSUME NEW q, Same(q), pc'[q] = pc[q], Prepared(q)
  PROVE  Prepared(q)'
<1>1. Chosen(q)' = Chosen(q)
  BY ChosenSame
<1>2. Filled(q) => Filled(q)'
  BY FilledSame
<1>3. QED
  BY <1>1, <1>2 DEF Prepared, Same

LEMMA ConfiguredSame ==
  ASSUME NEW q, Same(q), NEW kind
  PROVE  Configured(q, kind)' = Configured(q, kind)
<1>1. Chosen(q)' = Chosen(q)
  BY ChosenSame
<1>2. \A c : /\ RunCmd(q, c)' = RunCmd(q, c)
             /\ PreRunCmd(q, c)' = PreRunCmd(q, c)
  BY OptionSame DEF RunCmd, PreRunCmd
<1>3. Configured(q, kind) = IF kind = "cmd" THEN RunCmd(q, Chosen(q))
                                            ELSE PreRunCmd(q, Chosen(q))
  BY DEF Configured, Chosen
<1>4. Configured(q, kind)' = IF kind = "cmd" THEN RunCmd(q, Chosen(q))'
                                             ELSE PreRunCmd(q, Chosen(q))'
  BY DEF Configured, Chosen
<1>5. QED
  BY <1>1, <1>2, <1>3, <1>4 DEF RunCmd, PreRunCmd

\* What a reference means, and whether a condition holds, is a matter of the url
\* and the configuration only.
LEMMA MeaningSame ==
  ASSUME NEW q, Same(q)
  PROVE  /\ \A name : Asked(q, name)' = Asked(q, name)
         /\ \A ref : Meaning(q, ref)' = Meaning(q, ref)
         /\ \A ref : Untouched(q, ref)' <=> Untouched(q, ref)
         /\ \A tok : Holds(q, tok)' <=> Holds(q, tok)
<1>1. req'[q] = req[q]
  BY DEF Same
<1>2. \A name : Asked(q, name)' = Asked(q, name)
  BY <1>1 DEF Asked
<1>3. \A ref : Meaning(q, ref)' = Meaning(q, ref)
  BY <1>2, Zenon DEF Meaning
<1>4. \A ref : Untouched(q, ref)' <=> Untouched(q, ref)
  BY TransformsSame, Zenon DEF Untouched
<1>5. \A tok : Holds(q, tok)' <=> Holds(q, tok)
  BY <1>1, <1>3, Zenon DEF Holds
<1>6. QED
  BY <1>2, <1>3, <1>4, <1>5

LEMMA RendersSame ==
  ASSUME NEW q, Same(q), NEW template, NEW line, Renders(q, template, line)
  PROVE  Renders(q, template, line)'
<1>1. \A name, v : Shows(q, name, v) => Shows(q, name, v)'
  BY MeaningSame, TransformsSame, Zenon DEF Shows
<1>2. \A tok, v : ShowsWhen(q, tok, v) => ShowsWhen(q, tok, v)'
  BY MeaningSame, Zenon DEF ShowsWhen
<1>3. QED
  BY <1>1, <1>2, Zenon DEF Renders

-----------------------------------------------------------------------------
(* What the transforms and the substitution leave *)

LEMMA PaddingAddsZeros ==
  ASSUME NEW t \in Text, NEW maxlen \in Nat, StrLen(t) <= maxlen
  PROVE  transform_lpadzero(t, maxlen).zeros >= t.zeros
<1>1. t.zeros \in Nat /\ StrLen(t) \in Nat
  BY StrLenType DEF Text
<1>2. transform_lpadzero(t, maxlen).zeros = t.zeros + (maxlen - StrLen(t))
  BY DEF transform_lpadzero, Text
<1>3. QED
  BY <1>1, <1>2

LEMMA PaddedShown ==
  ASSUME NEW p, NEW prm \in Param,
         Listed(Option(p, "lpadzero"), prm.key) # {}
           => ~(StrLen(prm.value) > PadLen)
  PROVE  Shown(p, prm.key, prm.value, Trimmed(p, Padded(p, prm)).value)
         /\ Trimmed(p, Padded(p, prm)).key = prm.key
<1> DEFINE pad == Listed(Option(p, "lpadzero"), prm.key) # {}
           trim == Listed(Option(p, "ltrimzero"), prm.key) # {}
           pv == Padded(p, prm)
           tv == Trimmed(p, pv)
<1>1. prm.value \in Text /\ StrLen(prm.value) \in Nat
  BY StrLenType DEF Param
<1>2. pv \in Param /\ pv.key = prm.key
  BY PaddedType
<1>3. /\ pv.value.rest = prm.value.rest
      /\ ~pad => pv = prm
      /\ pad => /\ StrLen(pv.value) = PadLen
                /\ pv.value.zeros >= prm.value.zeros
  <2>1. CASE ~pad
    BY <2>1 DEF Padded
  <2>2. CASE pad
    <3>1. pv = [prm EXCEPT !.value = transform_lpadzero(prm.value, PadLen)]
      BY <2>2 DEF Padded
    <3>2. pv.value = transform_lpadzero(prm.value, PadLen)
      BY <3>1 DEF Param
    <3>3. StrLen(prm.value) <= PadLen /\ PadLen \in Nat
      BY <1>1, <2>2 DEF PadLen
    <3>4. pv.value.rest = prm.value.rest /\ StrLen(pv.value) = PadLen
      BY <1>1, <3>2, <3>3, transform_lpadzeroPads
    <3>5. pv.value.zeros >= prm.value.zeros
      BY <1>1, <3>2, <3>3, PaddingAddsZeros
    <3>6. QED
      BY <2>2, <3>4, <3>5
  <2>3. QED
    BY <2>1, <2>2
<1>4. pv.value \in Text
  BY <1>2 DEF Param
<1> DEFINE once == transform_ltrimzero(pv.value)
           again == transform_ltrimzero(once)
<1>5. /\ once \in Text /\ once.rest = pv.value.rest
      /\ again \in Text /\ again.rest = pv.value.rest
  BY <1>4, transform_ltrimzeroTrims
<1>6. /\ once.zeros = 0 \/ (once.rest = "" /\ once.zeros = 1)
      /\ again.zeros = 0 \/ (again.rest = "" /\ again.zeros = 1)
  <2>1. ASSUME NEW t \in Text
        PROVE  LET u == transform_ltrimzero(t)
               IN  u.zeros = 0 \/ (u.rest = "" /\ u.zeros = 1)
    BY DEF transform_ltrimzero, Text
  <2>2. QED
    BY <1>4, <1>5, <2>1
<1> HIDE DEF pv, once, again
<1>7. /\ tv.key = prm.key
      /\ ~trim => tv = pv
      /\ trim => tv.value \in {once, again}
  <2>1. Listed(Option(p, "ltrimzero"), pv.key) = Listed(Option(p, "ltrimzero"), prm.key)
    BY <1>2
  <2>2. CASE ~trim
    BY <1>2, <2>1, <2>2 DEF Trimmed
  <2>3. CASE trim
    <3>1. tv = [pv EXCEPT !.value = once] \/ tv = [pv EXCEPT !.value = again]
      BY <2>1, <2>3 DEF Trimmed, once, again
    <3>2. QED
      BY <1>2, <2>3, <3>1 DEF Param
  <2>4. QED
    BY <2>2, <2>3
<1> HIDE DEF tv
<1>8. Shown(p, prm.key, prm.value, tv.value)
  <2>1. CASE ~trim
    <3>1. tv.value = pv.value
      BY <1>7, <2>1
    <3>2. StrLen(tv.value) = PadLen => StrLen(tv.value) >= DocumentedDigits
      BY DEF PadLen, DocumentedDigits
    <3>3. QED
      BY <1>3, <2>1, <3>1, <3>2 DEF Shown, Pads, Trims
  <2>2. CASE trim
    BY <1>3, <1>5, <1>6, <1>7, <2>2 DEF Shown, Trims
  <2>3. QED
    BY <2>1, <2>2
<1>9. QED
  BY <1>7, <1>8 DEF tv, pv

LEMMA TransformFills ==
  ASSUME TypeOK, NEW p \in Proc, Transform(p), pc'[p] # "done",
         query[p] = req[p].query
  PROVE  Filled(p)'
<1> DEFINE Q == query[p]
           pads == {i \in DOMAIN Q : Listed(Option(p, "lpadzero"), Q[i].key) # {}}
           tooLong == {i \in pads : StrLen(Q[i].value) > PadLen}
           padded == [i \in 1..Len(Q) |-> Padded(p, Q[i])]
           trimmed == [i \in 1..Len(Q) |-> Trimmed(p, padded[i])]
<1>1. Q \in Query /\ Len(Q) \in Nat /\ DOMAIN Q = 1..Len(Q)
  BY LenProperties DEF TypeOK, Query
<1>2. tooLong = {} /\ query' = [query EXCEPT ![p] = trimmed]
  BY EndsDone DEF Transform
<1>3. req' = req /\ conf' = conf
  BY DEF Transform
<1>4. query'[p] = trimmed
  BY <1>2 DEF TypeOK
<1>5. \A i \in 1..Len(Q) : trimmed[i] = Trimmed(p, Padded(p, Q[i]))
  OBVIOUS
<1>6. ASSUME NEW i \in 1..Len(Q)
      PROVE  /\ trimmed[i].key = Q[i].key
             /\ Shown(p, Q[i].key, Q[i].value, trimmed[i].value)
  <2>1. Q[i] \in Param
    BY <1>1, <1>6, ElementOfSeq DEF Query
  <2>2. Listed(Option(p, "lpadzero"), Q[i].key) # {} => ~(StrLen(Q[i].value) > PadLen)
    BY <1>1, <1>2
  <2> HIDE DEF Q, trimmed
  <2>3. QED
    BY <1>5, <2>1, <2>2, PaddedShown
<1>7. Len(trimmed) = Len(Q)
  BY <1>1
<1>8. \A name, asked, v : Shown(p, name, asked, v) => Shown(p, name, asked, v)'
  <2>1. /\ Option(p, "lpadzero")' = Option(p, "lpadzero")
        /\ Option(p, "ltrimzero")' = Option(p, "ltrimzero")
    BY <1>3 DEF Option
  <2>2. \A name : (Pads(p, name)' <=> Pads(p, name)) /\ (Trims(p, name)' <=> Trims(p, name))
    BY <2>1, Zenon DEF Pads, Trims, Listed
  <2>3. QED
    BY <2>2, Zenon DEF Shown
<1> HIDE DEF trimmed
<1>9. QED
  BY <1>3, <1>4, <1>6, <1>7, <1>8 DEF Filled

LEMMA ExpandedRenders ==
  ASSUME TypeOK, NEW p \in Proc, Filled(p), NEW template \in Template,
         ~Unbound(template, query[p])
  PROVE  Renders(p, template, expand_vars(template, query[p]))
<1> DEFINE line == expand_vars(template, query[p])
           Q == query[p]
           R == req[p].query
<1>1. /\ Len(template) \in Nat /\ DOMAIN template = 1..Len(template)
      /\ \A i \in 1..Len(template) : template[i] \in Token
  BY LenProperties, ElementOfSeq DEF Template
<1>2. Len(line) = Len(template)
  BY <1>1 DEF expand_vars
<1>3. \A i \in 1..Len(template) : line[i] = Piece(template[i], Q)
  BY <1>1 DEF expand_vars
<1>4. /\ R \in Query /\ Len(R) \in Nat /\ DOMAIN R = 1..Len(R)
      /\ Q \in Query /\ DOMAIN Q = 1..Len(R)
  <2>1. R \in Query
    BY DispatchAssumption DEF TypeOK, RequestType
  <2>2. Q \in Query
    BY DEF TypeOK
  <2>3. QED
    BY <2>1, <2>2, LenProperties DEF Query, Filled
<1>5. ASSUME NEW name, Hits(name, Q) # {}
      PROVE  Shows(p, name, Q[FirstOf(Hits(name, Q))].value)
  <2>1. Hits(name, R) = Hits(name, Q)
    BY <1>4 DEF Hits, Filled
  <2> DEFINE k == FirstOf(Hits(name, Q))
  <2>2. k \in Hits(name, Q)
    <3>1. Hits(name, Q) \subseteq Nat
      BY <1>4 DEF Hits
    <3>2. QED
      BY <1>5, <3>1, FirstOfIsElement
  <2>3. k \in 1..Len(R) /\ Q[k].key = name
    BY <1>4, <2>2 DEF Hits
  <2>4. R[k].key = name /\ Shown(p, name, R[k].value, Q[k].value)
    BY <2>3 DEF Filled
  <2>5. Asked(p, name) = R[k].value
    BY <2>1 DEF Asked
  <2> HIDE DEF k
  <2>6. QED
    BY <2>4, <2>5 DEF Shows, Shown, k
<1>8. \A name : Hits(name, Q) = Hits(name, R)
  BY <1>4 DEF Hits, Filled
<1>9. ASSUME NEW ref, Bound(ref, Q), Untouched(p, ref)
      PROVE  find_var_value(ref, Q) = Meaning(p, ref)
  <2>1. CASE ref.env
    BY <2>1 DEF find_var_value, Meaning
  <2>2. CASE ~ref.env
    <3>1. Hits(ref.name, Q) # {} /\ ~Pads(p, ref.name) /\ ~Trims(p, ref.name)
      BY <1>9, <2>2 DEF Bound, Untouched
    <3>2. Q[FirstOf(Hits(ref.name, Q))].value = Asked(p, ref.name)
      BY <1>5, <3>1 DEF Shows
    <3>3. QED
      BY <2>2, <3>2 DEF find_var_value, Meaning
  <2>3. QED
    BY <2>1, <2>2
<1>10. ASSUME NEW tok, tok.kind = "cond", tok.right \notin Spoiled,
              Untouched(p, tok.left), Untouched(p, tok.right)
       PROVE  parse_conditional(tok, Q) <=> Holds(p, tok)
  <2>1. \A ref : Bound(ref, Q) <=> Bound(ref, R)
    BY <1>8, Zenon DEF Bound
  <2> HIDE DEF Q, R
  <2>2. CASE ~(Bound(tok.left, Q) /\ Bound(tok.right, Q))
    BY <2>1, <2>2, Zenon DEF parse_conditional, Holds, R
  <2>3. CASE Bound(tok.left, Q) /\ Bound(tok.right, Q)
    <3>1. /\ find_var_value(tok.left, Q) = Meaning(p, tok.left)
          /\ find_var_value(tok.right, Q) = Meaning(p, tok.right)
      BY <1>9, <1>10, <2>3, Zenon
    <3>2. QED
      BY <1>10, <2>1, <2>3, <3>1, Zenon DEF parse_conditional, Holds, R
  <2>4. QED
    BY <2>2, <2>3
<1> HIDE DEF line
<1> DEFINE Fits(tok, v) ==
             /\ tok.kind = "lit" => v = tok.lit
             /\ tok.kind = "var" /\ tok.left.env => v = Environ[tok.left.name]
             /\ tok.kind = "var" /\ ~tok.left.env => Shows(p, tok.left.name, v)
             /\ tok.kind = "cond" => ShowsWhen(p, tok, v)
             /\ tok.kind = "malformed" => v = EmptyText
<1> HIDE DEF Fits
<1>6. ASSUME NEW i \in 1..Len(template)
      PROVE  Fits(template[i], line[i])
  <2> DEFINE tok == template[i]
  <2>1. line[i] = Piece(tok, Q) /\ tok \in Token
    BY <1>1, <1>3
  <2>2. tok.kind = "var" => Bound(tok.left, Q)
    BY <1>1 DEF Unbound
  <2> HIDE DEF tok
  <2>3. CASE tok.kind = "lit"
    BY <2>1, <2>3 DEF Piece, Fits, tok
  <2>4. CASE tok.kind = "var"
    <3>1. line[i] = find_var_value(tok.left, Q)
      BY <2>1, <2>4 DEF Piece
    <3>2. tok.left.env => line[i] = Environ[tok.left.name]
      BY <3>1 DEF find_var_value
    <3>3. ~tok.left.env => Shows(p, tok.left.name, line[i])
      BY <1>5, <2>2, <2>4, <3>1 DEF find_var_value, Bound
    <3>4. QED
      BY <2>4, <3>2, <3>3 DEF tok, Fits
  <2>5. CASE tok.kind \in {"cond", "malformed"}
    <3>1. line[i] = IF parse_conditional(tok, Q) THEN tok.lit ELSE EmptyText
      BY <2>1, <2>5 DEF Piece
    <3>2. CASE tok.kind = "malformed"
      <4>1. line[i] = EmptyText
        BY <3>1, <3>2 DEF parse_conditional
      <4>2. QED
        BY <3>2, <4>1 DEF tok, Fits
    <3>3. CASE tok.kind = "cond"
      <4>1. ShowsWhen(p, tok, line[i])
        BY <1>10, <3>1, <3>3, Zenon DEF ShowsWhen
      <4>2. QED
        BY <3>3, <4>1 DEF tok, Fits
    <3>4. QED
      BY <2>5, <3>2, <3>3
  <2>6. tok.kind \in {"lit", "var", "cond", "malformed"}
    BY <2>1 DEF Token, TokenKind
  <2>7. \/ tok.kind = "lit" \/ tok.kind = "var"
        \/ tok.kind \in {"cond", "malformed"}
    BY <2>6
  <2>8. QED
    BY ONLY <2>3, <2>4, <2>5, <2>7, Zenon
<1>7. QED
  BY <1>1, <1>2, <1>6 DEF Renders, line, Fits

-----------------------------------------------------------------------------
(* Every step leaves what the next ones rely on. *)

\* The steps before the url is known, and those after the command is started.
LEMMA StepsAway ==
  ASSUME TypeOK, NEW p \in Proc,
         \/ Start(p) \/ Mode(p) \/ EncodeRead(p) \/ EncodeOpen(p)
         \/ EncodeWrite(p) \/ Locate(p) \/ LocateIni(p) \/ CreateOpen(p)
         \/ CreateWrite(p) \/ DownloadOpen(p) \/ Transfer(p) \/ ReadConfig(p)
         \/ ReadGlobal(p) \/ OpenLog(p) \/ Launch(p) \/ Finish(p)
         \/ CleanLog(p) \/ Kill(p)
  PROVE  pc'[p] \notin AskedPlace \cup FilledPlace
<1>1. CASE Start(p)
  BY <1>1, GotoAlone, EndsDone
  DEF Start, AskedPlace, ChosenPlace, FilledPlace, CommandPlace
<1>2. CASE Mode(p)
  BY <1>2, GotoAlone, EndsDone
  DEF Mode, AskedPlace, ChosenPlace, FilledPlace, CommandPlace
<1>3. CASE EncodeRead(p)
  BY <1>3, GotoAlone, EndsDone
  DEF EncodeRead, AskedPlace, ChosenPlace, FilledPlace, CommandPlace
<1>4. CASE EncodeOpen(p)
  BY <1>4, GotoAlone, EndsDone
  DEF EncodeOpen, AskedPlace, ChosenPlace, FilledPlace, CommandPlace
<1>5. CASE EncodeWrite(p)
  BY <1>5, GotoAlone, EndsDone
  DEF EncodeWrite, AskedPlace, ChosenPlace, FilledPlace, CommandPlace
<1>6. CASE Locate(p)
  BY <1>6, GotoAlone, EndsDone
  DEF Locate, AskedPlace, ChosenPlace, FilledPlace, CommandPlace
<1>7. CASE LocateIni(p)
  BY <1>7, GotoAlone, EndsDone
  DEF LocateIni, AskedPlace, ChosenPlace, FilledPlace, CommandPlace
<1>8. CASE CreateOpen(p)
  BY <1>8, GotoAlone, EndsDone
  DEF CreateOpen, AskedPlace, ChosenPlace, FilledPlace, CommandPlace
<1>9. CASE CreateWrite(p)
  BY <1>9, GotoAlone, EndsDone
  DEF CreateWrite, AskedPlace, ChosenPlace, FilledPlace, CommandPlace
<1>10. CASE DownloadOpen(p)
  BY <1>10, GotoAlone, EndsDone
  DEF DownloadOpen, AskedPlace, ChosenPlace, FilledPlace, CommandPlace
<1>11. CASE Transfer(p)
  BY <1>11, GotoAlone, EndsDone
  DEF Transfer, AskedPlace, ChosenPlace, FilledPlace, CommandPlace
<1>12. CASE ReadConfig(p)
  BY <1>12, GotoAlone, EndsDone
  DEF ReadConfig, AskedPlace, ChosenPlace, FilledPlace, CommandPlace
<1>13. CASE ReadGlobal(p)
  BY <1>13, GotoAlone, EndsDone, FailWithVarDone
  DEF ReadGlobal, AskedPlace, ChosenPlace, FilledPlace, CommandPlace
<1>14. CASE OpenLog(p)
  BY <1>14, GotoAlone, EndsDone
  DEF OpenLog, AskedPlace, ChosenPlace, FilledPlace, CommandPlace
<1>15. CASE Launch(p)
  BY <1>15, GotoAlone, EndsDone
  DEF Launch, AskedPlace, ChosenPlace, FilledPlace, CommandPlace
<1>16. CASE Finish(p)
  BY <1>16, GotoAlone, EndsDone
  DEF Finish, AskedPlace, ChosenPlace, FilledPlace, CommandPlace
<1>17. CASE CleanLog(p)
  BY <1>17, GotoAlone, EndsDone
  DEF CleanLog, AskedPlace, ChosenPlace, FilledPlace, CommandPlace
<1>18. CASE Kill(p)
  BY <1>18, GotoAlone, EndsDone
  DEF Kill, AskedPlace, ChosenPlace, FilledPlace, CommandPlace
<1>19. QED
  BY <1>1, <1>2, <1>3, <1>4, <1>5, <1>6, <1>7, <1>8, <1>9,
     <1>10, <1>11, <1>12, <1>13, <1>14, <1>15, <1>16, <1>17, <1>18, Zenon

\* The steps on the files, which change neither parameters nor choice.
LEMMA StepsChosen ==
  ASSUME TypeOK, NEW p \in Proc,
         \/ ExpandPaths(p) \/ MustExist(p) \/ Replace(p)
         \/ OpenNew(p) \/ WriteNew(p) \/ RemoveOriginal(p)
  PROVE  Same(p) /\ pc[p] \in ChosenPlace /\ pc'[p] \in ChosenPlace \cup {"done"}
<1>1. CASE ExpandPaths(p)
  BY <1>1, GotoAlone, FailWithVarDone DEF ExpandPaths, At, ChosenPlace, Same, local
<1>2. CASE MustExist(p)
  BY <1>2, GotoAlone, EndsDone DEF MustExist, At, ChosenPlace, Same, local
<1>3. CASE Replace(p)
  BY <1>3, GotoAlone, EndsDone DEF Replace, At, ChosenPlace, Same, local
<1>4. CASE OpenNew(p)
  BY <1>4, GotoAlone, EndsDone DEF OpenNew, At, ChosenPlace, Same, local
<1>5. CASE WriteNew(p)
  BY <1>5, GotoAlone, EndsDone DEF WriteNew, At, ChosenPlace, Same, local
<1>6. CASE RemoveOriginal(p)
  BY <1>6, GotoAlone, EndsDone DEF RemoveOriginal, At, ChosenPlace, Same, local
<1>7. QED
  BY <1>1, <1>2, <1>3, <1>4, <1>5, <1>6, Zenon

\* The steps from the substitution to the launch.
LEMMA StepsFilled ==
  ASSUME TypeOK, NEW p \in Proc,
         \/ ExpandCommand(p) \/ CheckExecutable(p) \/ RunPrecmd(p) \/ PrecmdEnds(p)
  PROVE  Same(p) /\ pc[p] \in FilledPlace /\ pc'[p] \in FilledPlace \cup {"done"}
<1>1. CASE ExpandCommand(p)
  BY <1>1, GotoAlone, EndsDone
  DEF ExpandCommand, At, FilledPlace, CommandPlace, Same, local
<1>2. CASE CheckExecutable(p)
  BY <1>2, GotoAlone, EndsDone
  DEF CheckExecutable, At, FilledPlace, CommandPlace, Same, local
<1>3. CASE RunPrecmd(p)
  BY <1>3, GotoAlone, EndsDone
  DEF RunPrecmd, At, FilledPlace, CommandPlace, Same, local
<1>4. CASE PrecmdEnds(p)
  BY <1>4, GotoAlone, EndsDone
  DEF PrecmdEnds, At, FilledPlace, CommandPlace, Same, local
<1>5. QED
  BY <1>1, <1>2, <1>3, <1>4, Zenon

LEMMA EqualNoCaseSym ==
  ASSUME NEW a, NEW b
  PROVE  EqualNoCase(a, b) <=> EqualNoCase(b, a)
BY DEF EqualNoCase

\* The first parameter named like user_param is the one AsksForUser is about.
LEMMA UserIsAsked ==
  ASSUME TypeOK, NEW p \in Proc, query[p] = req[p].query, UserHits(p) # {}
  PROVE  EqualNoCase(Env["USERNAME"], query[p][FirstOf(UserHits(p))].value)
           <=> AsksForUser(p)
<1> DEFINE R == req[p].query
           k == FirstOf(UserHits(p))
<1>1. DOMAIN R = 1..Len(R) /\ Len(R) \in Nat
  <2>1. R \in Query
    BY DispatchAssumption DEF TypeOK, RequestType
  <2>2. QED
    BY <2>1, LenProperties DEF Query
<1>2. PICK w \in Word : Option(p, "user_param") = <<Plain(Lit(w))>>
  BY DEF UserHits
<1>3. \A u \in Word : Option(p, "user_param") = <<Plain(Lit(u))>> => u = w
  <2>1. ASSUME NEW u \in Word, Option(p, "user_param") = <<Plain(Lit(u))>>
        PROVE  u = w
    <3>1. <<Plain(Lit(u))>>[1] = <<Plain(Lit(w))>>[1]
      BY <1>2, <2>1
    <3>2. Plain(Lit(u)).lit = Plain(Lit(w)).lit
      BY <3>1
    <3>3. Lit(u).rest = Lit(w).rest
      BY <3>2 DEF Plain
    <3>4. QED
      BY <3>3 DEF Lit
  <2>2. QED
    BY <2>1
<1>4. UserHits(p) = {i \in 1..Len(R) : Lower[w] = Lower[R[i].key]}
  BY <1>1, <1>2, <1>3 DEF UserHits
<1>5. k \in UserHits(p) /\ \A j \in UserHits(p) : k <= j
  <2>1. UserHits(p) \subseteq Nat
    BY <1>1, <1>4
  <2>2. QED
    BY <2>1, FirstOfIsElement
<1> HIDE DEF k
<1>6. /\ k \in 1..Len(R) /\ Lower[w] = Lower[R[k].key]
      /\ \A j \in 1..(k-1) : Lower[R[j].key] # Lower[w]
  BY <1>1, <1>4, <1>5
<1>7. ASSUME NEW i \in 1..Len(R), Lower[w] = Lower[R[i].key],
             \A j \in 1..(i-1) : Lower[R[j].key] # Lower[w]
      PROVE  i = k
  <2>1. k <= i
    BY <1>4, <1>5, <1>7
  <2>2. ~(k < i)
    <3>1. k \in Int /\ i \in Int /\ k >= 1
      BY <1>1, <1>6, <1>7
    <3>2. k < i => k \in 1..(i-1)
      BY <3>1
    <3>3. QED
      BY <1>6, <1>7, <3>2, Zenon
  <2>3. QED
    BY <1>1, <1>6, <1>7, <2>1, <2>2
<1>8. AsksForUser(p) <=> EqualNoCase(R[k].value, Env["USERNAME"])
  BY <1>1, <1>2, <1>3, <1>6, <1>7 DEF AsksForUser
<1>9. QED
  BY <1>8, EqualNoCaseSym DEF k

LEMMA ChoiceIsMeant ==
  ASSUME TypeOK, NEW p \in Proc, ChooseCommand(p), pc'[p] # "done",
         query[p] = req[p].query
  PROVE  choice'[p] = Chosen(p) /\ pc'[p] = "expand"
<1>1. \E c : /\ Choose(p, c)
             /\ \/ Option(p, "user_param") = <<>> /\ c = "plain"
                \/ /\ Option(p, "user_param") # <<>> /\ UserHits(p) # {}
                   /\ c = IF EqualNoCase(Env["USERNAME"],
                                         query[p][FirstOf(UserHits(p))].value)
                          THEN "match" ELSE "nomatch"
  BY EndsDone DEF ChooseCommand
<1>2. Choose(p, Chosen(p))
  BY <1>1, UserIsAsked DEF Chosen
<1>3. choice'[p] = Chosen(p)
  BY <1>2 DEF Choose, TypeOK
<1>4. pc'[p] = "expand"
  BY <1>2, GotoAlone, EndsDone DEF Choose
<1>5. QED
  BY <1>3, <1>4

LEMMA PreparedStep ==
  ASSUME TypeOK, NEW p \in Proc, Prepared(p), Step(p) \/ Waiting(p) \/ Kill(p)
  PROVE  Prepared(p)'
<1>1. CASE pc'[p] \notin AskedPlace \cup FilledPlace
  BY <1>1 DEF Prepared, AskedPlace
<1>2. CASE \/ ExpandPaths(p) \/ MustExist(p) \/ Replace(p)
           \/ OpenNew(p) \/ WriteNew(p) \/ RemoveOriginal(p)
  <2>1. Same(p) /\ pc[p] \in ChosenPlace /\ pc'[p] \in ChosenPlace \cup {"done"}
    BY <1>2, StepsChosen
  <2>2. query[p] = req[p].query /\ choice[p] = Chosen(p)
    BY <2>1 DEF Prepared, AskedPlace
  <2>3. pc'[p] \notin FilledPlace
    BY <2>1 DEF ChosenPlace, FilledPlace, CommandPlace
  <2>4. QED
    BY <2>1, <2>2, <2>3, ChosenSame DEF Prepared, Same
<1>3. CASE \/ ExpandCommand(p) \/ CheckExecutable(p) \/ RunPrecmd(p)
           \/ PrecmdEnds(p)
  <2>1. Same(p) /\ pc[p] \in FilledPlace /\ pc'[p] \in FilledPlace \cup {"done"}
    BY <1>3, StepsFilled
  <2>2. choice[p] = Chosen(p) /\ Filled(p)
    BY <2>1 DEF Prepared
  <2>3. Filled(p)'
    BY <2>1, <2>2, FilledSame
  <2>4. pc'[p] \notin AskedPlace
    BY <2>1 DEF AskedPlace, ChosenPlace, FilledPlace, CommandPlace
  <2>5. QED
    BY <2>1, <2>2, <2>3, <2>4, ChosenSame DEF Prepared, Same
<1>4. CASE ParseUri(p)
  <2>1. \/ pc'[p] = "done"
        \/ pc'[p] = "section" /\ query' = [query EXCEPT ![p] = req[p].query]
    BY <1>4, GotoAlone, EndsDone DEF ParseUri
  <2>2. req' = req
    BY <1>4 DEF ParseUri
  <2>3. pc'[p] \notin ChosenPlace \cup FilledPlace
    BY <2>1 DEF ChosenPlace, FilledPlace, CommandPlace
  <2>4. pc'[p] \in AskedPlace => query'[p] = req'[p].query
    BY <2>1, <2>2 DEF AskedPlace, ChosenPlace, TypeOK
  <2>5. QED
    BY <2>3, <2>4 DEF Prepared
<1>5. CASE ReadSection(p)
  <2>1. pc[p] = "section" /\ pc'[p] \in {"choose", "done"} /\ query' = query /\ req' = req
    BY <1>5, GotoAlone, EndsDone, FailWithVarDone DEF ReadSection, At, local
  <2>2. QED
    BY <2>1 DEF Prepared, AskedPlace, ChosenPlace, FilledPlace, CommandPlace
<1>6. CASE ChooseCommand(p) /\ pc'[p] # "done"
  <2>1. query[p] = req[p].query
    BY <1>6 DEF ChooseCommand, At, Prepared, AskedPlace
  <2>2. choice'[p] = Chosen(p) /\ pc'[p] = "expand"
    BY <1>6, <2>1, ChoiceIsMeant
  <2>3. req' = req /\ query' = query /\ conf' = conf
    BY <1>6 DEF ChooseCommand
  <2>4. Chosen(p)' = Chosen(p)
    BY <2>3 DEF Chosen, Option, AsksForUser
  <2>5. QED
    BY <2>1, <2>2, <2>3, <2>4
    DEF Prepared, AskedPlace, ChosenPlace, FilledPlace, CommandPlace
<1>7. CASE Transform(p) /\ pc'[p] # "done"
  <2>1. query[p] = req[p].query /\ choice[p] = Chosen(p)
    BY <1>7 DEF Transform, At, Prepared, AskedPlace, ChosenPlace
  <2>2. Filled(p)'
    BY <1>7, <2>1, TransformFills
  <2>3. req' = req /\ choice' = choice /\ conf' = conf
    BY <1>7 DEF Transform
  <2>4. Chosen(p)' = Chosen(p)
    BY <2>3 DEF Chosen, Option, AsksForUser
  <2>5. pc'[p] = "command"
    BY <1>7, GotoAlone, EndsDone DEF Transform
  <2>6. QED
    BY <2>1, <2>2, <2>3, <2>4, <2>5
    DEF Prepared, AskedPlace, ChosenPlace, FilledPlace, CommandPlace
<1>8. pc'[p] = "done" => pc'[p] \notin AskedPlace \cup FilledPlace
  BY DEF AskedPlace, ChosenPlace, FilledPlace, CommandPlace
<1>9. QED
  BY <1>1, <1>2, <1>3, <1>4, <1>5, <1>6, <1>7, <1>8, StepsAway, Zenon
  DEF Step, Waiting

LEMMA StartedRan ==
  ASSUME TypeOK, NEW p \in Proc, NEW k, NEW l, NEW w,
         StartCommand(p, k, l, w), NEW kind, NEW line, Ran(p, kind, line)'
  PROVE  Ran(p, kind, line) \/ (kind = k /\ line = l)
<1> DEFINE c == [kind |-> k, line |-> l, window |-> w]
<1>1. ran'[p] = Append(ran[p], c) /\ ran[p] \in Seq(Started)
  BY DEF StartCommand, TypeOK
<1>2. /\ DOMAIN ran[p] = 1..Len(ran[p]) /\ Len(ran[p]) \in Nat
      /\ DOMAIN ran'[p] = 1..(Len(ran[p]) + 1)
      /\ \A i \in 1..Len(ran[p]) : ran'[p][i] = ran[p][i]
      /\ ran'[p][Len(ran[p]) + 1] = c
  BY <1>1
<1>3. PICK i \in DOMAIN ran'[p] : ran'[p][i].kind = kind /\ ran'[p][i].line = line
  BY DEF Ran
<1>4. CASE i = Len(ran[p]) + 1
  <2>1. ran'[p][i] = c
    BY <1>2, <1>4
  <2>2. QED
    BY <1>3, <2>1
<1>5. CASE i \in 1..Len(ran[p])
  BY <1>2, <1>3, <1>5 DEF Ran
<1>6. QED
  BY <1>2, <1>3, <1>4, <1>5

\* What RunPrecmd and Launch start is what is configured.
LEMMA LaunchRenders ==
  ASSUME TypeInv, NEW p \in Proc, Prepared(p),
         NEW kind \in {"precmd", "cmd"}, NEW line, pc[p] \in {"precmd", "launch"},
         line = IF kind = "cmd" THEN Cmd(p) ELSE PreCmd(p)
  PROVE  Renders(p, Configured(p, kind), line)
<1>0. TypeOK /\ Expandable(p)
  BY DEF TypeInv, CommandsExpand, CommandPlace
<1>1. Filled(p) /\ choice[p] = Chosen(p)
  BY DEF Prepared, FilledPlace, CommandPlace
<1>2. RunCmd(p, choice[p]) \in Template /\ PreRunCmd(p, choice[p]) \in Template
  BY <1>0, OptionType DEF RunCmd, PreRunCmd
<1>3. Configured(p, kind) = IF kind = "cmd" THEN RunCmd(p, choice[p])
                                            ELSE PreRunCmd(p, choice[p])
  BY <1>1 DEF Configured, Chosen
<1>4. CASE kind = "cmd"
  <2>1. Renders(p, RunCmd(p, choice[p]), Cmd(p))
    BY <1>0, <1>1, <1>2, ExpandedRenders DEF Cmd, Expandable
  <2>2. QED
    BY <1>3, <1>4, <2>1
<1>5. CASE kind = "precmd"
  <2>1. Renders(p, PreRunCmd(p, choice[p]), PreCmd(p))
    BY <1>0, <1>1, <1>2, ExpandedRenders DEF PreCmd, Expandable
  <2>2. QED
    BY <1>3, <1>5, <2>1
<1>6. QED
  BY <1>4, <1>5

LEMMA RenderedStep ==
  ASSUME TypeInv, NEW p \in Proc, Progress(p), Prepared(p), Rendered(p),
         Step(p) \/ Waiting(p) \/ Kill(p)
  PROVE  Rendered(p)'
<1>0. TypeOK
  BY DEF TypeInv
<1>1. CASE ~LateStep(p)
  <2>1. EarlyStep(p)
    BY <1>0, <1>1, EveryStep
  <2>2. Kinds(p) = <<>> /\ ran'[p] = ran[p]
    BY <2>1 DEF EarlyStep, Progress
  <2>3. DOMAIN ran[p] = {}
    <3>1. Len(ran[p]) = 0 /\ DOMAIN ran[p] = 1..Len(ran[p])
      BY <1>0, <2>2, KindsType, LenProperties DEF TypeOK
    <3>2. QED
      BY <3>1
  <2>4. QED
    BY <2>2, <2>3 DEF Rendered, Ran
<1>2. CASE LateStep(p)
  <2> SUFFICES ASSUME NEW kind, NEW template, NEW line, Ran(p, kind, line)',
                      template = Configured(p, kind)'
               PROVE  Renders(p, template, line)'
    BY DEF Rendered
  <2>1. Same(p)
    BY <1>2, LocalSame
    DEF LateStep, RunPrecmd, PrecmdEnds, Launch, Finish, CleanLog, Kill
  <2>2. template = Configured(p, kind)
    BY <2>1, ConfiguredSame
  <2>3. CASE Ran(p, kind, line)
    BY <2>1, <2>2, <2>3, RendersSame DEF Rendered
  <2>4. CASE ~Ran(p, kind, line)
    <3>1. ran' # ran
      BY <2>4 DEF Ran
    <3>2. \/ RunPrecmd(p) /\ kind = "precmd" /\ line = PreCmd(p)
          \/ Launch(p) /\ kind = "cmd" /\ line = Cmd(p)
      <4>1. \/ RunPrecmd(p) /\ StartCommand(p, "precmd", PreCmd(p), "normal")
            \/ Launch(p) /\ StartCommand(p, "cmd", Cmd(p), Window(p))
        BY <1>2, <3>1
        DEF LateStep, RunPrecmd, PrecmdEnds, Launch, Finish, CleanLog, Kill
      <4>2. QED
        BY <1>0, <2>4, <4>1, StartedRan
    <3>3. pc[p] \in {"precmd", "launch"}
      BY <3>2 DEF RunPrecmd, Launch, At
    <3>4. Renders(p, Configured(p, kind), line)
      BY <3>2, <3>3, LaunchRenders
    <3>5. QED
      BY <2>1, <2>2, <3>4, RendersSame
  <2>5. QED
    BY <2>3, <2>4
<1>3. QED
  BY <1>1, <1>2

LEMMA RenderedOthers ==
  ASSUME NEW q, Same(q), ran'[q] = ran[q], Rendered(q)
  PROVE  Rendered(q)'
<1> SUFFICES ASSUME NEW kind, NEW template, NEW line, Ran(q, kind, line)',
                    template = Configured(q, kind)'
             PROVE  Renders(q, template, line)'
  BY DEF Rendered
<1>1. Ran(q, kind, line)
  BY DEF Ran
<1>2. template = Configured(q, kind)
  BY ConfiguredSame
<1>3. QED
  BY <1>1, <1>2, RendersSame DEF Rendered

LEMMA RenderInvStep ==
  ASSUME TypeInv, RenderInv, NEW p \in Proc, Step(p) \/ Waiting(p) \/ Kill(p)
  PROVE  RenderInv'
<1>0. TypeOK /\ \A q \in Proc : Progress(q) /\ Prepared(q) /\ Rendered(q)
  BY DEF TypeInv, RenderInv
<1>1. OthersSame(p) /\ Alone(p)
  BY <1>0, EveryStep, EarlyProgress, LateProgress, StepSettles
<1>2. ASSUME NEW q \in Proc \ {p}
      PROVE  Prepared(q)' /\ Rendered(q)'
  BY <1>0, <1>1, PreparedSame, RenderedOthers DEF OthersSame, Alone
<1>3. Prepared(p)' /\ Rendered(p)'
  BY <1>0, PreparedStep, RenderedStep
<1>4. \A q \in Proc : Progress(q)'
  BY <1>0, ProgressStep
<1>5. QED
  BY <1>2, <1>3, <1>4 DEF RenderInv

LEMMA RenderInvStutter ==
  ASSUME RenderInv, UNCHANGED vars
  PROVE  RenderInv'
<1>1. \A q \in Proc : Same(q) /\ pc'[q] = pc[q] /\ ran'[q] = ran[q]
  BY LocalSame DEF vars
<1>2. \A q \in Proc : Progress(q)'
  BY ProgressStutter DEF RenderInv
<1>3. \A q \in Proc : Prepared(q)' /\ Rendered(q)'
  BY <1>1, PreparedSame, RenderedOthers DEF RenderInv
<1>4. QED
  BY <1>2, <1>3 DEF RenderInv

LEMMA RenderInvInit == Init => RenderInv
<1> SUFFICES ASSUME Init PROVE RenderInv
  OBVIOUS
<1>1. \A q \in Proc : pc[q] = "start" /\ ran[q] = <<>>
  BY DEF Init
<1>2. \A q \in Proc : Prepared(q)
  BY <1>1 DEF Prepared, AskedPlace, ChosenPlace, FilledPlace, CommandPlace
<1>3. \A q \in Proc : Rendered(q)
  BY <1>1 DEF Rendered, Ran
<1>4. QED
  BY <1>2, <1>3, ProgressInit DEF RenderInv

\* For any configurations, urls, users and faults, and any number of
\* invocations that share the disk: every command line that is started is an
\* instance of the directive the configuration gives for this url and this
\* user, with the parameters of the url in it (ph.c:970-1235).
THEOREM LaunchesWhatIsConfigured == Spec => []LaunchedAsConfigured
<1>1. TypeInv /\ RenderInv /\ [Next]_vars => RenderInv'
  BY RenderInvStep, RenderInvStutter DEF Next, Terminated
<1>2. RenderInv => LaunchedAsConfigured
  <2> SUFFICES ASSUME RenderInv, NEW p \in Proc, NEW i \in DOMAIN ran[p]
               PROVE  Renders(p, Configured(p, ran[p][i].kind), ran[p][i].line)
    BY DEF LaunchedAsConfigured
  <2>1. Ran(p, ran[p][i].kind, ran[p][i].line)
    BY DEF Ran
  <2>2. QED
    BY <2>1 DEF RenderInv, Rendered
<1>3. QED
  BY <1>1, <1>2, RenderInvInit, TypeInvInvariant, PTL DEF Spec

-----------------------------------------------------------------------------
(***************************************************************************)
(* replace() of a single invocation, which may be killed at any step and   *)
(* whose writes may fail.  The originals are all there until remove(), and *)
(* by then the ".new" is complete; after it nothing writes a file again.   *)
(***************************************************************************)
AfterPlace == {"transform", "finish", "clean", "done"} \cup FilledPlace

Full(copy) == copy.state = "full"

Intact ==
  /\ ReplacesTarget
  /\ \A t \in Target : Full(text[t].orig) \/ Full(text[t].new)
  /\ \A p \in Proc :
       /\ pc[p] \notin AfterPlace => \A t \in Target : Full(text[t].orig)
       /\ At(p, "remove") => Full(text[ReplaceFile(p)].new)

LEMMA StepsAfter ==
  ASSUME TypeOK, NEW p \in Proc, Step(p) \/ Waiting(p) \/ Kill(p),
         pc[p] \in AfterPlace
  PROVE  pc'[p] \in AfterPlace
<1>1. CASE Transform(p)
  BY <1>1, GotoAlone, EndsDone
  DEF Transform, AfterPlace, FilledPlace, CommandPlace
<1>2. CASE ExpandCommand(p)
  BY <1>2, GotoAlone, EndsDone
  DEF ExpandCommand, AfterPlace, FilledPlace, CommandPlace
<1>3. CASE CheckExecutable(p)
  BY <1>3, GotoAlone, EndsDone
  DEF CheckExecutable, AfterPlace, FilledPlace, CommandPlace
<1>4. CASE RunPrecmd(p)
  BY <1>4, GotoAlone, EndsDone
  DEF RunPrecmd, AfterPlace, FilledPlace, CommandPlace
<1>5. CASE PrecmdEnds(p)
  BY <1>5, GotoAlone, EndsDone
  DEF PrecmdEnds, AfterPlace, FilledPlace, CommandPlace
<1>6. CASE Launch(p)
  BY <1>6, GotoAlone, EndsDone
  DEF Launch, AfterPlace, FilledPlace, CommandPlace
<1>7. CASE Finish(p)
  BY <1>7, GotoAlone, EndsDone
  DEF Finish, AfterPlace, FilledPlace, CommandPlace
<1>8. CASE CleanLog(p)
  BY <1>8, GotoAlone, EndsDone
  DEF CleanLog, AfterPlace, FilledPlace, CommandPlace
<1>9. CASE Kill(p)
  BY <1>9, GotoAlone, EndsDone
  DEF Kill, AfterPlace, FilledPlace, CommandPlace
<1>10. CASE Waiting(p) \/ Kill(p)
  BY <1>5, <1>8, <1>9, <1>10
  DEF Waiting, Transfer, At, AfterPlace, FilledPlace, CommandPlace
<1>11. CASE Step(p)
  <2>1. \/ Transform(p) \/ ExpandCommand(p) \/ CheckExecutable(p) \/ RunPrecmd(p)
        \/ Launch(p) \/ Finish(p)
    BY <1>11
    DEF Step, Start, Mode, EncodeRead, EncodeOpen, EncodeWrite, Locate, LocateIni,
        CreateOpen, CreateWrite, DownloadOpen, ReadConfig, ReadGlobal, OpenLog,
        ParseUri, ReadSection, ChooseCommand, ExpandPaths, MustExist, Replace,
        OpenNew, WriteNew, RemoveOriginal, At, AfterPlace, FilledPlace, CommandPlace
  <2>2. QED
    BY <1>1, <1>2, <1>3, <1>4, <1>6, <1>7, <2>1
<1>12. QED
  BY <1>10, <1>11

LEMMA IntactStep ==
  ASSUME TypeOK, Intact, NEW p \in Proc, Proc = {p}, "flush" \notin Fault,
         Step(p) \/ Waiting(p) \/ Kill(p)
  PROVE  Intact'
<1> DEFINE f == ReplaceFile(p)
<1>0. ReplacesTarget'
  BY ReplacesTargetInvariant DEF Intact
<1>1. CASE text' = text /\ pc'[p] # "remove"
  <2>1. pc[p] \in AfterPlace => pc'[p] \in AfterPlace
    BY StepsAfter
  <2>2. QED
    BY <1>0, <1>1, <2>1 DEF Intact, At
<1>2. CASE OpenNew(p)
  <2>1. f \in Target /\ \A t \in Target : Full(text[t].orig)
    BY <1>2 DEF OpenNew, At, Intact, ReplacesTarget, ReplacePlace,
                AfterPlace, FilledPlace, CommandPlace
  <2>2. \A t \in Target : text'[t].orig = text[t].orig
    <3>1. \/ text' = [text EXCEPT ![f].new = [state |-> "empty", edits |-> <<>>]]
          \/ text' = text
      BY <1>2 DEF OpenNew
    <3>2. QED
      BY <2>1, <3>1, NewStep
  <2>3. pc'[p] # "remove"
    BY <1>2, GotoAlone, EndsDone DEF OpenNew
  <2>4. \A t \in Target : Full(text'[t].orig)
    BY <2>1, <2>2
  <2>5. QED
    BY <1>0, <2>3, <2>4 DEF Intact, At
<1>3. CASE WriteNew(p)
  <2>1. f \in Target /\ \A t \in Target : Full(text[t].orig)
    BY <1>3 DEF WriteNew, At, Intact, ReplacesTarget, ReplacePlace,
                AfterPlace, FilledPlace, CommandPlace
  <2>2. \/ /\ text' = [text EXCEPT ![f].new = [state |-> "full", edits |-> held[p]]]
           /\ Goto(p, "remove")
        \/ /\ text' = [text EXCEPT ![f].new = [state |-> "torn", edits |-> <<>>]]
           /\ Fail(p, 127)
    BY <1>3 DEF WriteNew
  <2>3. \A t \in Target : Full(text'[t].orig)
    BY <2>1, <2>2, NewStep
  <2>4. pc'[p] = "remove" => Full(text'[f].new)
    <3>1. Fail(p, 127) => pc'[p] = "done"
      BY EndsDone
    <3>2. pc'[p] = "remove" =>
            text' = [text EXCEPT ![f].new = [state |-> "full", edits |-> held[p]]]
      BY <2>2, <3>1
    <3>3. pc'[p] = "remove" => text'[f].new = [state |-> "full", edits |-> held[p]]
      BY <2>1, <3>2, NewStep
    <3>4. QED
      BY <3>3 DEF Full
  <2>5. ReplaceFile(p)' = f
    BY <1>3, LocalSame, ReplaceFileSame DEF WriteNew
  <2> HIDE DEF f
  <2>6. QED
    BY <1>0, <2>3, <2>4, <2>5 DEF Intact, At
<1>4. CASE RemoveOriginal(p)
  <2>1. /\ f \in Target /\ Full(text[f].new)
        /\ \A t \in Target : Full(text[t].orig)
    BY <1>4 DEF RemoveOriginal, At, Intact, ReplacesTarget, ReplacePlace,
                AfterPlace, FilledPlace, CommandPlace
  <2>2. pc'[p] = "transform"
    BY <1>4, GotoAlone DEF RemoveOriginal
  <2>3. \/ text' = [text EXCEPT ![f].orig = [state |-> "absent", edits |-> <<>>]]
        \/ text' = text
    BY <1>4 DEF RemoveOriginal
  <2>4. /\ \A t \in Target : text'[t].new = text[t].new
        /\ \A t \in Target : t # f => text'[t].orig = text[t].orig
    BY <2>1, <2>3, OrigStep
  <2>5. \A t \in Target : Full(text'[t].orig) \/ Full(text'[t].new)
    BY <2>1, <2>4
  <2>6. QED
    BY <1>0, <2>2, <2>5 DEF Intact, At, AfterPlace
<1>5. CASE ~OpenNew(p) /\ ~WriteNew(p) /\ ~RemoveOriginal(p)
  <2>1. text' = text
    BY <1>5, OthersKeepText DEF Kill, disk
  <2>2. pc'[p] # "remove"
    <3>1. CASE Replace(p)
      BY <3>1, GotoAlone, EndsDone DEF Replace
    <3>2. CASE Kill(p)
      BY <3>2, EndsDone DEF Kill
    <3>3. CASE ~Replace(p) /\ ~Kill(p)
      <4>1. Settles(p)
        BY StepSettles
      <4>2. QED
        BY <1>5, <3>3, <4>1 DEF Settles, ReplacePlace
    <3>4. QED
      BY <3>1, <3>2, <3>3
  <2>3. QED
    BY <1>1, <2>1, <2>2
<1>6. QED
  BY <1>2, <1>3, <1>4, <1>5

\* replace() of one invocation, killed at any of its steps and with any write
\* that fails, at no point leaves the disk without the text of a file: only a
\* flush that fails unnoticed can (ph.c:227-294).
THEOREM TextStaysOnDisk ==
  ASSUME NEW only, Proc = {only}, "flush" \notin Fault
  PROVE  Spec => []TextOnDisk
<1>1. Init => Intact
  BY DEF Init, Intact, ReplacesTarget, ReplacePlace, At, Full
<1>2. TypeOK /\ Intact /\ [Next]_vars => Intact'
  <2> SUFFICES ASSUME TypeOK, Intact, [Next]_vars PROVE Intact'
    OBVIOUS
  <2>1. CASE UNCHANGED vars \/ Terminated
    <3>1. \A q \in Proc : Same(q) /\ pc'[q] = pc[q]
      BY <2>1, LocalSame DEF vars, Terminated
    <3>2. \A q \in Proc : ReplaceFile(q)' = ReplaceFile(q)
      BY <3>1, ReplaceFileSame
    <3>3. text' = text
      BY <2>1 DEF vars, disk, Terminated
    <3>4. QED
      BY <3>1, <3>2, <3>3 DEF Intact, ReplacesTarget, At
  <2>2. ASSUME NEW p \in Proc, Step(p) \/ Waiting(p) \/ Kill(p)
        PROVE  Intact'
    BY <2>2, IntactStep
  <2>3. QED
    BY <2>1, <2>2 DEF Next
<1>3. Intact => TextOnDisk
  BY DEF Intact, Full, TextOnDisk
<1>4. QED
  BY <1>1, <1>2, <1>3, TypeCorrect, PTL DEF Spec

-----------------------------------------------------------------------------
(***************************************************************************)
(* No invocation turns back.  The measure is the order of the places, so   *)
(* no more than the types is needed as an invariant: every step leaves the *)
(* places of all others alone and takes its own to one of a higher rank,   *)
(* whatever it finds on the disk.                                          *)
(***************************************************************************)
LEMMA Ranks ==
  /\ Rank["start"] = 1 /\ Rank["mode"] = 2 /\ Rank["encode"] = 3
  /\ Rank["encode_open"] = 4 /\ Rank["encode_write"] = 5 /\ Rank["locate"] = 6
  /\ Rank["locate_ini"] = 7 /\ Rank["create_open"] = 8 /\ Rank["create_write"] = 9
  /\ Rank["download"] = 10 /\ Rank["transfer"] = 11 /\ Rank["read"] = 12
  /\ Rank["global"] = 13 /\ Rank["log"] = 14 /\ Rank["uri"] = 15
  /\ Rank["section"] = 16 /\ Rank["choose"] = 17 /\ Rank["expand"] = 18
  /\ Rank["must_exist"] = 19 /\ Rank["replace"] = 20 /\ Rank["new_open"] = 21
  /\ Rank["new_write"] = 22 /\ Rank["remove"] = 23 /\ Rank["transform"] = 24
  /\ Rank["command"] = 25 /\ Rank["exe"] = 26 /\ Rank["precmd"] = 27
  /\ Rank["prewait"] = 28 /\ Rank["launch"] = 29 /\ Rank["finish"] = 30
  /\ Rank["clean"] = 31 /\ Rank["done"] = 32
BY DEF Rank

LEMMA DoneIsLast == \A place \in Place \ {"done"} : Rank[place] < Rank["done"]
BY Ranks DEF Place

LEMMA GotoOnward ==
  ASSUME TypeOK, NEW p \in Proc, NEW place, Goto(p, place),
         Rank[pc[p]] < Rank[place]
  PROVE  Onward(p)
BY GotoAlone, Zenon DEF Onward

LEMMA EndOnward ==
  ASSUME TypeOK, NEW p \in Proc, NEW code, pc[p] # "done",
         \/ Exit(p, code) \/ Fail(p, code)
         \/ \E msglen : display_error(p, code, msglen)
  PROVE  Onward(p)
<1>1. pc'[p] = "done" /\ \A q \in Proc \ {p} : pc'[q] = pc[q]
  BY DEF TypeOK, Exit, Fail, display_error
<1>2. pc[p] \in Place \ {"done"}
  BY DEF TypeOK
<1>3. QED
  BY <1>1, <1>2, DoneIsLast DEF Onward

LEMMA FailWithVarOnward ==
  ASSUME TypeOK, NEW p \in Proc, NEW code, NEW t, FailWithVar(p, code, t), pc[p] # "done"
  PROVE  Onward(p)
BY FailWithVarShows, EndOnward

LEMMA StepOnward ==
  ASSUME TypeOK, NEW p \in Proc, Step(p) \/ Waiting(p) \/ Kill(p)
  PROVE  Onward(p)
<1>1. CASE Start(p)
  BY <1>1, GotoOnward, EndOnward, Ranks DEF Start, At
<1>2. CASE Mode(p)
  BY <1>2, GotoOnward, EndOnward, Ranks DEF Mode, At
<1>3. CASE EncodeRead(p)
  BY <1>3, GotoOnward, EndOnward, Ranks DEF EncodeRead, At
<1>4. CASE EncodeOpen(p)
  BY <1>4, GotoOnward, EndOnward, Ranks DEF EncodeOpen, At
<1>5. CASE EncodeWrite(p)
  BY <1>5, GotoOnward, EndOnward, Ranks DEF EncodeWrite, At
<1>6. CASE Locate(p)
  BY <1>6, GotoOnward, EndOnward, Ranks DEF Locate, At
<1>7. CASE LocateIni(p)
  BY <1>7, GotoOnward, EndOnward, Ranks DEF LocateIni, At
<1>8. CASE CreateOpen(p)
  BY <1>8, GotoOnward, EndOnward, Ranks DEF CreateOpen, At
<1>9. CASE CreateWrite(p)
  BY <1>9, GotoOnward, EndOnward, Ranks DEF CreateWrite, At
<1>10. CASE DownloadOpen(p)
  BY <1>10, GotoOnward, EndOnward, Ranks DEF DownloadOpen, At
<1>11. CASE Transfer(p)
  <2>1. /\ pc[p] = "transfer"
        /\ \/ Goto(p, "read")
           \/ \E code : Fail(p, code)
    BY <1>11, Zenon DEF Transfer, At
  <2>2. QED
    BY <2>1, GotoOnward, EndOnward, Ranks
<1>12. CASE ReadConfig(p)
  <2>1. /\ pc[p] = "read"
        /\ \/ Goto(p, "global")
           \/ \E code : Fail(p, code)
    BY <1>12, Zenon DEF ReadConfig, At
  <2>2. QED
    BY <2>1, GotoOnward, EndOnward, Ranks
<1>13. CASE ReadGlobal(p)
  <2>1. /\ pc[p] = "global"
        /\ \/ Goto(p, "log")
           \/ \E code : Fail(p, code)
           \/ \E code, t : FailWithVar(p, code, t)
    BY <1>13, Zenon DEF ReadGlobal, At
  <2>2. QED
    BY <2>1, GotoOnward, EndOnward, FailWithVarOnward, Ranks
<1>14. CASE OpenLog(p)
  BY <1>14, GotoOnward, EndOnward, Ranks DEF OpenLog, At
<1>15. CASE ParseUri(p)
  BY <1>15, GotoOnward, EndOnward, Ranks DEF ParseUri, At
<1>16. CASE ReadSection(p)
  BY <1>16, GotoOnward, EndOnward, FailWithVarOnward, Ranks DEF ReadSection, At
<1>17. CASE ChooseCommand(p)
  <2>1. /\ pc[p] = "choose"
        /\ \/ Goto(p, "expand")
           \/ \E code : Exit(p, code) \/ Fail(p, code)
    BY <1>17, Zenon DEF ChooseCommand, At, Choose
  <2>2. QED
    BY <2>1, GotoOnward, EndOnward, Ranks
<1>18. CASE ExpandPaths(p)
  BY <1>18, GotoOnward, FailWithVarOnward, Ranks DEF ExpandPaths, At
<1>19. CASE MustExist(p)
  BY <1>19, GotoOnward, EndOnward, Ranks DEF MustExist, At
<1>20. CASE Replace(p)
  <2>1. /\ pc[p] = "replace"
        /\ \/ Goto(p, "transform")
           \/ Goto(p, "new_open")
           \/ \E code : Fail(p, code)
    BY <1>20, Zenon DEF Replace, At
  <2>2. QED
    BY <2>1, GotoOnward, EndOnward, Ranks
<1>21. CASE OpenNew(p)
  <2>1. /\ pc[p] = "new_open"
        /\ \/ Goto(p, "new_write")
           \/ \E code : Exit(p, code)
    BY <1>21, Zenon DEF OpenNew, At
  <2>2. QED
    BY <2>1, GotoOnward, EndOnward, Ranks
<1>22. CASE WriteNew(p)
  <2>1. /\ pc[p] = "new_write"
        /\ \/ Goto(p, "remove")
           \/ \E code : Fail(p, code)
    BY <1>22, Zenon DEF WriteNew, At
  <2>2. QED
    BY <2>1, GotoOnward, EndOnward, Ranks
<1>23. CASE RemoveOriginal(p)
  <2>1. /\ pc[p] = "remove"
        /\ Goto(p, "transform")
    BY <1>23, Zenon DEF RemoveOriginal, At
  <2>2. QED
    BY <2>1, GotoOnward, Ranks
<1>24. CASE Transform(p)
  <2>1. /\ pc[p] = "transform"
        /\ \/ Goto(p, "command")
           \/ \E code : Exit(p, code) \/ Fail(p, code)
    BY <1>24, Zenon DEF Transform, At
  <2>2. QED
    BY <2>1, GotoOnward, EndOnward, Ranks
<1>25. CASE ExpandCommand(p)
  BY <1>25, GotoOnward, EndOnward, Ranks DEF ExpandCommand, At
<1>26. CASE CheckExecutable(p)
  BY <1>26, GotoOnward, EndOnward, Ranks DEF CheckExecutable, At
<1>27. CASE RunPrecmd(p)
  BY <1>27, GotoOnward, EndOnward, Ranks DEF RunPrecmd, At
<1>28. CASE PrecmdEnds(p)
  BY <1>28, GotoOnward, EndOnward, Ranks DEF PrecmdEnds, At
<1>29. CASE Launch(p)
  BY <1>29, GotoOnward, EndOnward, Ranks DEF Launch, At
<1>30. CASE Finish(p)
  BY <1>30, GotoOnward, EndOnward, Ranks DEF Finish, At
<1>31. CASE CleanLog(p)
  BY <1>31, GotoOnward, EndOnward, Ranks DEF CleanLog, At
<1>32. CASE Kill(p)
  BY <1>32, EndOnward DEF Kill, At
<1>33. QED
  BY <1>1, <1>2, <1>3, <1>4, <1>5, <1>6, <1>7, <1>8, <1>9, <1>10, <1>11,
     <1>12, <1>13, <1>14, <1>15, <1>16, <1>17, <1>18, <1>19, <1>20, <1>21,
     <1>22, <1>23, <1>24, <1>25, <1>26, <1>27, <1>28, <1>29, <1>30, <1>31,
     <1>32, Zenon
  DEF Step, Waiting

\* No step of any invocation, however they interleave and whatever fails or is
\* killed, leads back to a place main() has passed: it tries nothing again, and
\* none goes further than by its own step (ph.c:600-616, 1000-1221).
THEOREM AlwaysOnward == Spec => NeverTurnsBack
<1>1. TypeOK /\ [Next]_vars => [\E p \in Proc : Onward(p)]_vars
  BY StepOnward, Zenon DEF Next, Terminated
<1>2. QED
  BY <1>1, TypeCorrect, PTL DEF Spec, NeverTurnsBack

-----------------------------------------------------------------------------
(***************************************************************************)
(* An error is shown.  Exit code and page are set by one step, but whether *)
(* it may miss the page is a matter of what was read long before: the      *)
(* values whose variables are shown, the parameters, the file to replace.  *)
(***************************************************************************)
Reported(p) ==
  req[p].arg1 \in {"none", "url"} /\ exit[p] \notin {RUNNING, OK, KILLED} =>
    \/ exit[p] = page[p]
    \/ page[p] = OK /\ exit[p] = 127 /\ TooLong(p)
    \/ page[p] = OK /\ exit[p] = CRASHED /\ MayCrash(p)

\* No page is open yet, and p knows why it is where it may crash.
Careful(p) ==
  /\ pc[p] # "done" => page[p] = OK
  /\ pc[p] = "download" => req[p].from = "remote" /\ ~conf[p].exists
  /\ pc[p] = "new_open" => held[p] # <<>>

ErrorInv == \A p \in Proc : Called(p) /\ Careful(p) /\ Reported(p)

\* What an error depends on.
Ground(p) == req'[p] = req[p] /\ conf'[p] = conf[p] /\ held'[p] = held[p]

\* The three ways a step may go: on, to an error page or to an end without one.
Goes(p) == pc'[p] # "done" /\ page' = page /\ Careful(p)'

Errs(p) ==
  /\ Ground(p)
  /\ At(p, "start") => "exedir" \in Fault
  /\ \E code \in Nat, m \in Additions(p) : display_error(p, code, m)

Ends(p) ==
  /\ Ground(p)
  /\ \E code \in Int :
       /\ Exit(p, code)
       /\ \/ code \in {OK, KILLED}
          \/ req[p].arg1 \notin {"none", "url"}
          \/ code = CRASHED /\ MayCrash(p)

LEMMA GroundSame ==
  ASSUME NEW q, Ground(q)
  PROVE  /\ TooLong(q)' <=> TooLong(q)
         /\ MayCrash(q)' <=> MayCrash(q)
<1>1. conf'[q] = conf[q] /\ req'[q] = req[q] /\ held'[q] = held[q]
  BY DEF Ground
<1>2. \A d : Option(q, d)' = Option(q, d) /\ Global(q, d)' = Global(q, d)
  BY <1>1, Zenon DEF Option, Global
<1>3. GlobalPaths(q)' = GlobalPaths(q) /\ SectionPaths(q)' = SectionPaths(q)
  <2>1. /\ Global(q, "log_path")' = Global(q, "log_path")
        /\ Global(q, "prefix_help")' = Global(q, "prefix_help")
        /\ Global(q, "prefix_cmd")' = Global(q, "prefix_cmd")
    BY <1>2
  <2>2. /\ Option(q, "default_path")' = Option(q, "default_path")
        /\ Option(q, "replace_file")' = Option(q, "replace_file")
        /\ Option(q, "file_must_exist")' = Option(q, "file_must_exist")
    BY <1>2
  <2>3. QED
    BY <2>1, <2>2, Zenon DEF GlobalPaths, SectionPaths
<1>4. Additions(q)' = Additions(q)
  BY <1>2, <1>3, Zenon DEF Additions
<1>5. (TooLong(q)' <=> TooLong(q)) /\ (Overflows(q)' <=> Overflows(q))
  BY <1>1, <1>4, Zenon DEF TooLong, Overflows, AddressLen
<1>6. \A d : Uninit(q, d)' <=> Uninit(q, d)
  BY <1>1, <1>2, Zenon DEF Uninit
<1>7. \A name : (Pads(q, name)' <=> Pads(q, name)) /\ (Trims(q, name)' <=> Trims(q, name))
  <2>1. /\ Option(q, "lpadzero")' = Option(q, "lpadzero")
        /\ Option(q, "ltrimzero")' = Option(q, "ltrimzero")
    BY <1>2
  <2>2. QED
    BY <2>1, Zenon DEF Pads, Trims, Listed
<1>8. Overruns(q)' <=> Overruns(q)
  BY <1>1, <1>6, <1>7, Zenon DEF Overruns
<1>9. MayCrash(q)' <=> MayCrash(q)
  BY <1>1, <1>2, <1>5, <1>8, Zenon DEF MayCrash
<1>10. QED
  BY <1>5, <1>9

LEMMA ReportedSame ==
  ASSUME NEW q, Ground(q), exit'[q] = exit[q], page'[q] = page[q], Reported(q)
  PROVE  Reported(q)'
<1>1. req'[q] = req[q]
  BY DEF Ground
<1>2. QED
  BY <1>1, GroundSame, Zenon DEF Reported

\* An error page is shown, or the address is too long, or something is missing.
LEMMA ErrsReports ==
  ASSUME TypeOK, NEW p \in Proc, Called(p), Careful(p), ~At(p, "done"), Errs(p)
  PROVE  Reported(p)' /\ pc'[p] = "done" /\ \A q \in Proc \ {p} : page'[q] = page[q]
<1>1. PICK code \in Nat, m \in Additions(p) : display_error(p, code, m)
  BY DEF Errs
<1>2. page \in [Proc -> Nat] /\ exit \in [Proc -> Int] /\ pc \in [Proc -> Place]
  BY DEF TypeOK
<1>3. page[p] = OK
  BY DEF Careful, At
<1> DEFINE len == PageBase + req[p].urllen + m
<1>4. /\ pc'[p] = "done"
      /\ \/ exit'[p] = page'[p]
         \/ exit'[p] = 127 /\ page'[p] = page[p] /\ len > CMD_MAX - 15
         \/ /\ exit'[p] = CRASHED /\ page'[p] = page[p]
            /\ ~KnowsHome(p) \/ len >= PARAMS_SIZE \/ "windir" \notin DOMAIN Env
      /\ \A q \in Proc \ {p} : page'[q] = page[q]
  BY <1>1, <1>2 DEF display_error
<1>5. len > CMD_MAX - 15 => TooLong(p)
  BY DEF TooLong, AddressLen
<1>7. len >= PARAMS_SIZE => Overflows(p)
  BY DEF Overflows, AddressLen
<1>8. ~KnowsHome(p) => "exedir" \in Fault /\ "PH_HOME" \notin DOMAIN Env /\ ~conf[p].exists
  BY DEF KnowsHome, Errs, Called, At
<1>9. \/ exit'[p] = page'[p]
      \/ page'[p] = OK /\ exit'[p] = 127 /\ TooLong(p)
      \/ page'[p] = OK /\ exit'[p] = CRASHED /\ MayCrash(p)
  BY <1>3, <1>4, <1>5, <1>7, <1>8, Zenon DEF MayCrash
<1>10. Ground(p)
  BY DEF Errs
<1>11. QED
  BY <1>4, <1>9, <1>10, GroundSame, Zenon DEF Reported

LEMMA EndsReports ==
  ASSUME TypeOK, NEW p \in Proc, Careful(p), ~At(p, "done"), Ends(p)
  PROVE  Reported(p)' /\ pc'[p] = "done" /\ page' = page
<1>1. PICK code \in Int :
        /\ Exit(p, code)
        /\ \/ code \in {OK, KILLED} \/ req[p].arg1 \notin {"none", "url"}
           \/ code = CRASHED /\ MayCrash(p)
  BY DEF Ends
<1>2. page[p] = OK /\ Ground(p) /\ req'[p] = req[p]
  BY DEF Careful, At, Ends, Ground
<1>3. pc'[p] = "done" /\ exit'[p] = code /\ page' = page
  BY <1>1 DEF Exit, TypeOK
<1>4. QED
  BY <1>1, <1>2, <1>3, GroundSame, Zenon DEF Reported

LEMMA LocalGround ==
  ASSUME NEW q, UNCHANGED local
  PROVE  Ground(q)
BY DEF Ground, local

LEMMA GotoGoes ==
  ASSUME TypeOK, NEW p \in Proc, Careful(p), ~At(p, "done"),
         NEW place \in Place \ {"done", "download", "new_open"}, Goto(p, place)
  PROVE  Goes(p)
BY DEF TypeOK, Goes, Goto, verdict, Careful, At

LEMMA FailErrs ==
  ASSUME NEW p \in Proc, NEW code \in Nat, Fail(p, code), Ground(p),
         At(p, "start") => "exedir" \in Fault
  PROVE  Errs(p)
<1>1. 0 \in Additions(p)
  BY DEF Additions
<1>2. QED
  BY <1>1, Zenon DEF Errs, Fail

\* Whatever the variables are, the one whose name is shown is in the template.
LEMMA LastVarIsRead ==
  ASSUME NEW S, NEW t \in Seq(S), NEW q
  PROVE  LastVarLen(t, q) \in {0} \cup {VarLen(t[i]) : i \in DOMAIN t}
<1> DEFINE read == {i \in DOMAIN t : t[i].kind # "lit"
                                     /\ ~Unbound(SubSeq(t, 1, i - 1), q)}
<1>1. DOMAIN t = 1..Len(t) /\ Len(t) \in Nat
  BY LenProperties
<1>2. LastVarLen(t, q) = IF read = {} THEN 0 ELSE VarLen(t[LastOf(read)])
  BY DEF LastVarLen
<1>3. read \subseteq DOMAIN t
  OBVIOUS
<1> HIDE DEF read
<1>4. read # {} => LastOf(read) \in read
  BY <1>1, <1>3, LastOfIsElement
<1>5. QED
  BY <1>2, <1>3, <1>4

\* A directive is a template or its default.
LEMMA DirectiveOrDefault ==
  ASSUME NEW lines \in Lines, NEW section, NEW d, NEW default
  PROVE  Directive(lines, section, d, default) \in Template \cup {default}
<1>1. <<>> \in Template
  BY DEF Template
<1>2. Directive(lines, section, d, <<>>) \in Template
  BY <1>1, DirectiveType
<1>3. \/ Directive(lines, section, d, default) = default
      \/ Directive(lines, section, d, default) = Directive(lines, section, d, <<>>)
  BY Zenon DEF Directive
<1>4. QED
  BY <1>2, <1>3

LEMMA PathTypes ==
  ASSUME TypeOK, NEW p \in Proc
  PROVE  \E S : GlobalPaths(p) \in Seq(S) /\ SectionPaths(p) \in Seq(S)
<1> DEFINE S == Token \cup {EnvVar("windir")}
<1>1. conf[p].lines \in Lines
  BY DEF TypeOK, Content
<1>2. \A t \in Template : t \in Seq(S)
  BY DEF Template
<1>3. <<EnvVar("windir")>> \in Seq(S) /\ <<>> \in Seq(S)
  OBVIOUS
<1> HIDE DEF S
<1>4. /\ GlobalDefault["log_path"] = <<>>
      /\ GlobalDefault["prefix_help"] = <<EnvVar("windir")>>
      /\ GlobalDefault["prefix_cmd"] = <<EnvVar("windir")>>
  BY DEF GlobalDefault
<1>5. /\ Global(p, "log_path") \in Seq(S) /\ Global(p, "prefix_help") \in Seq(S)
      /\ Global(p, "prefix_cmd") \in Seq(S)
  <2>1. \A d : Global(p, d) \in Template \cup {GlobalDefault[d]}
    BY <1>1, DirectiveOrDefault DEF Global
  <2>2. Global(p, "log_path") \in Template \cup {GlobalDefault["log_path"]}
    BY <2>1
  <2>3. Global(p, "prefix_help") \in Template \cup {GlobalDefault["prefix_help"]}
    BY <2>1
  <2>4. Global(p, "prefix_cmd") \in Template \cup {GlobalDefault["prefix_cmd"]}
    BY <2>1
  <2>5. QED
    BY <1>2, <1>3, <1>4, <2>2, <2>3, <2>4
<1>6. GlobalPaths(p) \in Seq(S)
  BY <1>5, ConcatProperties DEF GlobalPaths
<1>7. /\ Option(p, "default_path") \in Seq(S) /\ Option(p, "replace_file") \in Seq(S)
      /\ Option(p, "file_must_exist") \in Seq(S)
  BY <1>2, OptionType
<1>8. SectionPaths(p) \in Seq(S)
  BY <1>7, ConcatProperties DEF SectionPaths
<1>9. QED
  BY <1>6, <1>8

LEMMA VarErrs ==
  ASSUME TypeOK, NEW p \in Proc, ~At(p, "start"), Ground(p),
         NEW code \in Nat, NEW t, t = GlobalPaths(p) \/ t = SectionPaths(p),
         FailWithVar(p, code, t)
  PROVE  Errs(p)
<1>1. PICK S : GlobalPaths(p) \in Seq(S) /\ SectionPaths(p) \in Seq(S)
  BY PathTypes
<1> DEFINE G == GlobalPaths(p)
           H == SectionPaths(p)
           both == G \o H
           read == {VarLen(both[i]) : i \in DOMAIN both}
           m == LastVarLen(t, query[p])
<1>2. m \in {0} \cup {VarLen(t[i]) : i \in DOMAIN t}
  BY <1>1, LastVarIsRead
<1>3. {0} \cup read \subseteq Additions(p)
  BY DEF Additions
<1>4. display_error(p, code, m)
  BY Zenon DEF FailWithVar
<1>5. G \in Seq(S) /\ H \in Seq(S) /\ (t = G \/ t = H)
  BY <1>1
<1> HIDE DEF G, H, m
<1>6. ASSUME NEW i \in DOMAIN t
      PROVE  VarLen(t[i]) \in read
  <2>1. /\ DOMAIN G = 1..Len(G) /\ Len(G) \in Nat
        /\ DOMAIN H = 1..Len(H) /\ Len(H) \in Nat
        /\ DOMAIN both = 1..(Len(G) + Len(H))
    BY <1>5, LenProperties, ConcatProperties
  <2>2. \E j \in DOMAIN both : both[j] = t[i]
    <3>1. CASE t = G
      <4>1. i \in DOMAIN both /\ both[i] = G[i]
        BY <1>5, <2>1, <3>1, ConcatProperties
      <4>2. QED
        BY <3>1, <4>1
    <3>2. CASE t = H
      <4>1. Len(G) + i \in DOMAIN both
        BY <2>1, <3>2
      <4>2. both[Len(G) + i] = H[i]
        BY <1>5, <2>1, <3>2, <4>1, ConcatProperties
      <4>3. QED
        BY <3>2, <4>1, <4>2
    <3>3. QED
      BY <1>5, <3>1, <3>2
  <2>3. QED
    BY <2>2
<1> HIDE DEF both, read
<1>7. m \in Additions(p)
  BY <1>2, <1>3, <1>6
<1>8. QED
  BY <1>4, <1>7, Zenon DEF Errs

LEMMA ExitEnds ==
  ASSUME NEW p \in Proc, NEW code \in Int, Exit(p, code), Ground(p),
         \/ code \in {OK, KILLED} \/ req[p].arg1 \notin {"none", "url"}
         \/ code = CRASHED /\ MayCrash(p)
  PROVE  Ends(p)
BY Zenon DEF Ends

\* The steps that crash know why.
LEMMA CrashingSteps ==
  ASSUME TypeOK, NEW p \in Proc, Called(p), Careful(p)
  PROVE  /\ CreateWrite(p) /\ "cwd" \in Fault => MayCrash(p)
         /\ DownloadOpen(p) /\ "temp" \in Fault => MayCrash(p)
         /\ OpenNew(p) /\ "newfile" \in Fault => MayCrash(p)
<1>1. ASSUME CreateWrite(p), "cwd" \in Fault
      PROVE  MayCrash(p)
  <2>1. req[p].from = "default" /\ ~conf[p].exists
    BY <1>1 DEF CreateWrite, At, Called, CreatePlace
  <2>2. QED
    BY <1>1, <2>1, Zenon DEF MayCrash
<1>2. ASSUME DownloadOpen(p), "temp" \in Fault
      PROVE  MayCrash(p)
  <2>1. req[p].from = "remote" /\ ~conf[p].exists
    BY <1>2 DEF DownloadOpen, At, Careful
  <2>2. QED
    BY <1>2, <2>1, Zenon DEF MayCrash
<1>3. ASSUME OpenNew(p), "newfile" \in Fault
      PROVE  MayCrash(p)
  <2>1. held[p] # <<>>
    BY <1>3 DEF OpenNew, At, Careful
  <2>2. QED
    BY <1>3, <2>1, Zenon DEF MayCrash
<1>4. QED
  BY <1>1, <1>2, <1>3

\* What reads and expands the configuration goes on or shows its error.
LEMMA ConfigurationWays ==
  ASSUME TypeOK, NEW p \in Proc, Called(p), Careful(p),
         Locate(p) \/ LocateIni(p) \/ CreateOpen(p) \/ Transfer(p)
         \/ ReadGlobal(p) \/ OpenLog(p) \/ ReadSection(p)
         \/ ExpandPaths(p)
  PROVE  Goes(p) \/ Errs(p) \/ Ends(p)
<1>1. CASE Locate(p)
  <2>1. At(p, "locate") /\ Ground(p)
    BY <1>1 DEF Locate, Ground
  <2>2. pc[p] = "locate" /\ ~At(p, "done") /\ ~At(p, "start")
    BY <2>1 DEF At
  <2>3. Goto(p, "read") \/ Goto(p, "locate_ini")
    BY <1>1, Zenon DEF Locate
  <2>4. QED
    BY <2>1, <2>2, <2>3, GotoGoes DEF Place
<1>2. CASE LocateIni(p)
  <2>1. At(p, "locate_ini") /\ Ground(p)
    BY <1>2, LocalGround DEF LocateIni
  <2>2. pc[p] = "locate_ini" /\ ~At(p, "done") /\ ~At(p, "start")
    BY <2>1 DEF At
  <2>3. Goto(p, IF ini["ph.ini"].exists THEN "read" ELSE "create_open")
    BY <1>2, Zenon DEF LocateIni
  <2>4. QED
    BY <2>1, <2>2, <2>3, GotoGoes DEF Place
<1>3. CASE CreateOpen(p)
  <2>1. At(p, "create_open") /\ Ground(p)
    BY <1>3, LocalGround DEF CreateOpen
  <2>2. pc[p] = "create_open" /\ ~At(p, "done") /\ ~At(p, "start")
    BY <2>1 DEF At
  <2>3. Goto(p, "create_write") \/ Exit(p, OK)
    BY <1>3, Zenon DEF CreateOpen
  <2>4. QED
    BY <2>1, <2>2, <2>3, GotoGoes, ExitEnds DEF Place, OK
<1>4. CASE Transfer(p)
  <2>1. At(p, "transfer") /\ Ground(p)
    BY <1>4, LocalGround DEF Transfer
  <2>2. pc[p] = "transfer" /\ ~At(p, "done") /\ ~At(p, "start")
    BY <2>1 DEF At
  <2>3. Goto(p, "read") \/ Fail(p, FAILED_TO_DOWNLOAD_CONFIG)
    BY <1>4, Zenon DEF Transfer
  <2>4. QED
    BY <2>1, <2>2, <2>3, GotoGoes, FailErrs DEF Place, FAILED_TO_DOWNLOAD_CONFIG
<1>5. CASE ReadGlobal(p)
  <2>1. At(p, "global") /\ Ground(p)
    BY <1>5, LocalGround DEF ReadGlobal
  <2>2. pc[p] = "global" /\ ~At(p, "done") /\ ~At(p, "start")
    BY <2>1 DEF At
  <2>3. Goto(p, "log") \/ Fail(p, INI_PARSE_ERR)
        \/ FailWithVar(p, FAILED_TO_EXPAND_ENV, GlobalPaths(p))
    BY <1>5, Zenon DEF ReadGlobal
  <2>4. QED
    BY <2>1, <2>2, <2>3, GotoGoes, FailErrs, VarErrs DEF Place, INI_PARSE_ERR, FAILED_TO_EXPAND_ENV
<1>6. CASE OpenLog(p)
  <2>1. At(p, "log") /\ Ground(p)
    BY <1>6, LocalGround DEF OpenLog
  <2>2. pc[p] = "log" /\ ~At(p, "done") /\ ~At(p, "start")
    BY <2>1 DEF At
  <2>3. Goto(p, "uri") \/ Fail(p, ERR_NO_USERDIR) \/ Fail(p, FAILED_TO_OPEN_LOGFILE)
    BY <1>6, Zenon DEF OpenLog
  <2>4. QED
    BY <2>1, <2>2, <2>3, GotoGoes, FailErrs DEF Place, ERR_NO_USERDIR, FAILED_TO_OPEN_LOGFILE
<1>7. CASE ReadSection(p)
  <2>1. At(p, "section") /\ Ground(p)
    BY <1>7, LocalGround DEF ReadSection
  <2>2. pc[p] = "section" /\ ~At(p, "done") /\ ~At(p, "start")
    BY <2>1 DEF At
  <2>3. Goto(p, "choose") \/ Fail(p, NO_INI_SECTION_FOUND)
        \/ FailWithVar(p, INI_PARSE_ERR, GlobalPaths(p))
    BY <1>7, Zenon DEF ReadSection
  <2>4. QED
    BY <2>1, <2>2, <2>3, GotoGoes, FailErrs, VarErrs DEF Place, INI_PARSE_ERR, NO_INI_SECTION_FOUND
<1>8. CASE ExpandPaths(p)
  <2>1. At(p, "expand") /\ Ground(p)
    BY <1>8, LocalGround DEF ExpandPaths
  <2>2. pc[p] = "expand" /\ ~At(p, "done") /\ ~At(p, "start")
    BY <2>1 DEF At
  <2>3. Goto(p, "must_exist") \/ FailWithVar(p, FAILED_TO_EXPAND_ENV, SectionPaths(p))
    BY <1>8, Zenon DEF ExpandPaths
  <2>4. QED
    BY <2>1, <2>2, <2>3, GotoGoes, VarErrs DEF Place, FAILED_TO_EXPAND_ENV
<1>9. QED
  BY <1>1, <1>2, <1>3, <1>4, <1>5, <1>6, <1>7, <1>8

LEMMA LateWays ==
  ASSUME TypeOK, NEW p \in Proc, Called(p), Careful(p),
         WriteNew(p) \/ RemoveOriginal(p) \/ ExpandCommand(p)
         \/ CheckExecutable(p) \/ RunPrecmd(p) \/ PrecmdEnds(p)
         \/ Launch(p) \/ Finish(p) \/ CleanLog(p)
  PROVE  Goes(p) \/ Errs(p) \/ Ends(p)
<1>1. CASE WriteNew(p)
  <2>1. At(p, "new_write") /\ Ground(p)
    BY <1>1, LocalGround DEF WriteNew
  <2>2. pc[p] = "new_write" /\ ~At(p, "done") /\ ~At(p, "start")
    BY <2>1 DEF At
  <2>3. Goto(p, "remove") \/ Fail(p, 127)
    BY <1>1, Zenon DEF WriteNew
  <2>4. QED
    BY <2>1, <2>2, <2>3, GotoGoes, FailErrs DEF Place
<1>2. CASE RemoveOriginal(p)
  <2>1. At(p, "remove") /\ Ground(p)
    BY <1>2, LocalGround DEF RemoveOriginal
  <2>2. pc[p] = "remove" /\ ~At(p, "done") /\ ~At(p, "start")
    BY <2>1 DEF At
  <2>3. Goto(p, "transform")
    BY <1>2, Zenon DEF RemoveOriginal
  <2>4. QED
    BY <2>1, <2>2, <2>3, GotoGoes DEF Place
<1>3. CASE ExpandCommand(p)
  <2>1. At(p, "command") /\ Ground(p)
    BY <1>3, LocalGround DEF ExpandCommand
  <2>2. pc[p] = "command" /\ ~At(p, "done") /\ ~At(p, "start")
    BY <2>1 DEF At
  <2>3. Goto(p, "exe") \/ Fail(p, PH_EXP_ERR_QUERYNVVAR_NOT_FOUND)
    BY <1>3, Zenon DEF ExpandCommand
  <2>4. QED
    BY <2>1, <2>2, <2>3, GotoGoes, FailErrs DEF Place, PH_EXP_ERR_QUERYNVVAR_NOT_FOUND,
       EXP_ERR_QUERYNVVAR_NOT_FOUND
<1>4. CASE CheckExecutable(p)
  <2>1. At(p, "exe") /\ Ground(p)
    BY <1>4, LocalGround DEF CheckExecutable
  <2>2. pc[p] = "exe" /\ ~At(p, "done") /\ ~At(p, "start")
    BY <2>1 DEF At
  <2>3. Goto(p, "precmd") \/ Fail(p, NOT_EXECUTABLE)
    BY <1>4, Zenon DEF CheckExecutable
  <2>4. QED
    BY <2>1, <2>2, <2>3, GotoGoes, FailErrs DEF Place, NOT_EXECUTABLE
<1>5. CASE RunPrecmd(p)
  <2>1. At(p, "precmd") /\ Ground(p)
    BY <1>5, LocalGround DEF RunPrecmd
  <2>2. pc[p] = "precmd" /\ ~At(p, "done") /\ ~At(p, "start")
    BY <2>1 DEF At
  <2>3. Goto(p, "launch") \/ Goto(p, "prewait")
    BY <1>5, Zenon DEF RunPrecmd
  <2>4. QED
    BY <2>1, <2>2, <2>3, GotoGoes DEF Place
<1>6. CASE PrecmdEnds(p)
  <2>1. At(p, "prewait") /\ Ground(p)
    BY <1>6, LocalGround DEF PrecmdEnds
  <2>2. pc[p] = "prewait" /\ ~At(p, "done") /\ ~At(p, "start")
    BY <2>1 DEF At
  <2>3. Goto(p, "launch")
    BY <1>6, Zenon DEF PrecmdEnds
  <2>4. QED
    BY <2>1, <2>2, <2>3, GotoGoes DEF Place
<1>7. CASE Launch(p)
  <2>1. At(p, "launch") /\ Ground(p)
    BY <1>7, LocalGround DEF Launch
  <2>2. pc[p] = "launch" /\ ~At(p, "done") /\ ~At(p, "start")
    BY <2>1 DEF At
  <2>3. Goto(p, "finish")
    BY <1>7, Zenon DEF Launch
  <2>4. QED
    BY <2>1, <2>2, <2>3, GotoGoes DEF Place
<1>8. CASE Finish(p)
  <2>1. At(p, "finish") /\ Ground(p)
    BY <1>8, LocalGround DEF Finish
  <2>2. pc[p] = "finish" /\ ~At(p, "done") /\ ~At(p, "start")
    BY <2>1 DEF At
  <2>3. Goto(p, "clean") \/ Exit(p, OK)
    BY <1>8, Zenon DEF Finish
  <2>4. QED
    BY <2>1, <2>2, <2>3, GotoGoes, ExitEnds DEF Place, OK
<1>9. CASE CleanLog(p)
  <2>1. At(p, "clean") /\ Ground(p)
    BY <1>9, LocalGround DEF CleanLog
  <2>2. pc[p] = "clean" /\ ~At(p, "done") /\ ~At(p, "start")
    BY <2>1 DEF At
  <2>3. Exit(p, OK)
    BY <1>9, Zenon DEF CleanLog
  <2>4. QED
    BY <2>1, <2>2, <2>3, ExitEnds DEF Place, OK
<1>10. QED
  BY <1>1, <1>2, <1>3, <1>4, <1>5, <1>6, <1>7, <1>8, <1>9

LEMMA StartWays ==
  ASSUME TypeOK, NEW p \in Proc, Called(p), Careful(p), Start(p) \/ Mode(p)
  PROVE  Goes(p) \/ Errs(p) \/ Ends(p)
<1>1. CASE Start(p)
  <2>1. At(p, "start") /\ Ground(p) /\ ~At(p, "done")
    BY <1>1, LocalGround DEF Start, At
  <2>2. Goto(p, "mode") \/ ("exedir" \in Fault /\ Fail(p, NO_CURRENTDIR))
    BY <1>1, Zenon DEF Start
  <2>3. QED
    BY <2>1, <2>2, GotoGoes, FailErrs DEF Place, NO_CURRENTDIR
<1>2. CASE Mode(p)
  <2>1. pc[p] = "mode" /\ Ground(p) /\ ~At(p, "done")
    BY <1>2 DEF Mode, At, Ground
  <2>2. req[p].from \in {"default", "local", "remote"}
    BY DispatchAssumption DEF TypeOK, RequestType
  <2>3. \/ Goto(p, "encode") \/ Goto(p, "read") \/ Goto(p, "locate")
        \/ req[p].from = "remote" /\ Goto(p, "download")
        \/ Exit(p, OK)
        \/ req[p].arg1 = "-r" /\ \E code \in {OK, 2, 3} : Exit(p, code)
    BY <1>2, <2>2 DEF Mode
  <2>4. ASSUME Goto(p, "download"), req[p].from = "remote"
        PROVE  Goes(p)
    <3>1. pc'[p] = "download" /\ page' = page /\ page[p] = OK /\ ~conf[p].exists
      BY <2>1, <2>4 DEF Goto, verdict, TypeOK, Careful, Called
    <3>2. QED
      BY <2>1, <2>4, <3>1 DEF Goes, Careful, Ground
  <2>5. ASSUME NEW code \in {OK, 2, 3}, req[p].arg1 = "-r", Exit(p, code)
        PROVE  Ends(p)
    BY <2>1, <2>5, ExitEnds DEF OK
  <2>6. Exit(p, OK) => Ends(p)
    BY <2>1, ExitEnds DEF OK
  <2>7. Goto(p, "encode") \/ Goto(p, "read") \/ Goto(p, "locate") => Goes(p)
    BY <2>1, GotoGoes DEF Place
  <2>8. QED
    BY <2>3, <2>4, <2>5, <2>6, <2>7
<1>3. QED
  BY <1>1, <1>2

LEMMA FileWays ==
  ASSUME TypeOK, NEW p \in Proc, Called(p), Careful(p),
         \/ EncodeRead(p) \/ EncodeOpen(p) \/ EncodeWrite(p) \/ CreateWrite(p)
         \/ DownloadOpen(p) \/ ReadConfig(p) \/ OpenNew(p) \/ Kill(p)
  PROVE  Goes(p) \/ Errs(p) \/ Ends(p)
<1>1. CASE EncodeRead(p)
  <2>1. At(p, "encode") /\ ~At(p, "done") /\ req[p].arg1 = "-e"
    BY <1>1 DEF EncodeRead, At, Called, EncodePlace
  <2>2. Goto(p, "encode_open") \/ (Exit(p, 1) /\ Ground(p))
    BY <1>1 DEF EncodeRead, Ground
  <2>3. QED
    BY <2>1, <2>2, GotoGoes, ExitEnds DEF Place
<1>2. CASE EncodeOpen(p)
  <2>1. At(p, "encode_open") /\ ~At(p, "done") /\ req[p].arg1 = "-e" /\ Ground(p)
    BY <1>2, LocalGround DEF EncodeOpen, At, Called, EncodePlace
  <2>2. Goto(p, "encode_write") \/ Exit(p, CRASHED)
    BY <1>2, Zenon DEF EncodeOpen
  <2>3. QED
    BY <2>1, <2>2, GotoGoes, ExitEnds DEF Place, CRASHED
<1>3. CASE EncodeWrite(p)
  <2>1. Ground(p) /\ Exit(p, OK)
    BY <1>3, LocalGround DEF EncodeWrite
  <2>2. QED
    BY <2>1, ExitEnds DEF OK
<1>4. CASE CreateWrite(p)
  <2>1. Ground(p) /\ (Exit(p, OK) \/ ("cwd" \in Fault /\ Exit(p, CRASHED)))
    BY <1>4, LocalGround DEF CreateWrite
  <2>2. QED
    BY <1>4, <2>1, ExitEnds, CrashingSteps DEF OK, CRASHED
<1>5. CASE DownloadOpen(p)
  <2>1. At(p, "download") /\ ~At(p, "done") /\ Ground(p)
    BY <1>5 DEF DownloadOpen, At, Ground
  <2>2. Goto(p, "transfer") \/ ("temp" \in Fault /\ Exit(p, CRASHED))
    BY <1>5, Zenon DEF DownloadOpen
  <2>3. QED
    BY <1>5, <2>1, <2>2, GotoGoes, ExitEnds, CrashingSteps DEF Place, CRASHED
<1>6. CASE ReadConfig(p)
  <2>1. At(p, "read") /\ ~At(p, "done") /\ ~At(p, "start")
    BY <1>6 DEF ReadConfig, At
  <2>2. Goto(p, "global") \/ (Fail(p, FAILED_TO_OPEN_CONFIG) /\ Ground(p))
    BY <1>6 DEF ReadConfig, Ground
  <2>3. QED
    BY <2>1, <2>2, GotoGoes, FailErrs DEF Place, FAILED_TO_OPEN_CONFIG
<1>7. CASE OpenNew(p)
  <2>1. At(p, "new_open") /\ ~At(p, "done") /\ Ground(p)
    BY <1>7, LocalGround DEF OpenNew, At
  <2>2. Goto(p, "new_write") \/ ("newfile" \in Fault /\ Exit(p, CRASHED))
    BY <1>7, Zenon DEF OpenNew
  <2>3. QED
    BY <1>7, <2>1, <2>2, GotoGoes, ExitEnds, CrashingSteps DEF Place, CRASHED
<1>8. CASE Kill(p)
  <2>1. Ground(p) /\ Exit(p, KILLED)
    BY <1>8, LocalGround DEF Kill
  <2>2. QED
    BY <2>1, ExitEnds DEF KILLED
<1>9. QED
  BY <1>1, <1>2, <1>3, <1>4, <1>5, <1>6, <1>7, <1>8

LEMMA SectionWays ==
  ASSUME TypeOK, NEW p \in Proc, Called(p), Careful(p),
         ParseUri(p) \/ ChooseCommand(p) \/ MustExist(p) \/ Replace(p)
  PROVE  Goes(p) \/ Errs(p) \/ Ends(p)
<1>1. CASE ParseUri(p)
  <2>1. At(p, "uri") /\ ~At(p, "done") /\ ~At(p, "start") /\ Ground(p)
    BY <1>1 DEF ParseUri, At, Ground
  <2>2. Goto(p, "section") \/ Fail(p, NO_INPUT) \/ Fail(p, 127 + req[p].res)
    BY <1>1, Zenon DEF ParseUri
  <2>3. 127 + req[p].res \in Nat
    <3>1. req[p] \in RequestType
      BY DispatchAssumption DEF TypeOK
    <3>2. req[p].res \in 0..6
      BY <3>1 DEF RequestType
    <3>3. QED
      BY <3>2
  <2>4. QED
    BY <2>1, <2>2, <2>3, GotoGoes, FailErrs DEF Place, NO_INPUT
<1>2. CASE ChooseCommand(p)
  <2>1. At(p, "choose") /\ ~At(p, "done") /\ ~At(p, "start") /\ Ground(p)
    BY <1>2 DEF ChooseCommand, At, Ground
  <2>2. \/ \E c : Choose(p, c)
        \/ Fail(p, NO_USER_PARAM_FOUND)
        \/ /\ Exit(p, CRASHED) /\ "USERNAME" \notin DOMAIN Env
           /\ Option(p, "user_param") # <<>>
    BY <1>2, Zenon DEF ChooseCommand
  <2>3. (\E c : Choose(p, c)) => Fail(p, NO_CMD_DIRECTIVE) \/ Goto(p, "expand")
    BY Zenon DEF Choose
  <2>4. "USERNAME" \notin DOMAIN Env /\ Option(p, "user_param") # <<>> => MayCrash(p)
    BY Zenon DEF MayCrash
  <2>5. QED
    BY <2>1, <2>2, <2>3, <2>4, GotoGoes, FailErrs, ExitEnds
    DEF Place, NO_CMD_DIRECTIVE, NO_USER_PARAM_FOUND, CRASHED
<1>3. CASE MustExist(p)
  <2> DEFINE m == MessageLen(Option(p, "file_must_exist_error"))
  <2>1. At(p, "must_exist") /\ ~At(p, "done") /\ ~At(p, "start") /\ Ground(p)
    BY <1>3, LocalGround DEF MustExist, At
  <2>2. Goto(p, "replace") \/ display_error(p, FILE_NOT_FOUND, m)
    BY <1>3, Zenon DEF MustExist
  <2>3. m \in Additions(p) /\ FILE_NOT_FOUND \in Nat
    BY DEF Additions, FILE_NOT_FOUND
  <2> HIDE DEF m
  <2>4. display_error(p, FILE_NOT_FOUND, m) => Errs(p)
    BY <2>1, <2>3, Zenon DEF Errs
  <2>5. QED
    BY <2>1, <2>2, <2>4, GotoGoes DEF Place
<1>4. CASE Replace(p)
  <2>1. At(p, "replace") /\ ~At(p, "done") /\ ~At(p, "start")
    BY <1>4 DEF Replace, At
  <2>2. req' = req /\ conf' = conf
    BY <1>4 DEF Replace
  <2>3. \/ Goto(p, "transform")
        \/ /\ UNCHANGED held
           /\ \/ Fail(p, MISSING_REGEX) \/ Fail(p, FAILED_TO_OPEN_REPLACE_FILE)
              \/ Fail(p, FAILED_TO_PARSE_REGEX)
        \/ /\ Goto(p, "new_open")
           /\ \E old, edit : held' = [held EXCEPT ![p] = Append(old, edit)]
    BY <1>4, Zenon DEF Replace
  <2>4. ASSUME NEW old, NEW edit, held' = [held EXCEPT ![p] = Append(old, edit)],
               Goto(p, "new_open")
        PROVE  Goes(p)
    <3>1. held'[p] = Append(old, edit) /\ Append(old, edit) # <<>>
      BY <2>4 DEF TypeOK
    <3>2. pc'[p] = "new_open" /\ page' = page /\ page[p] = OK
      BY <2>1, <2>4 DEF Goto, verdict, TypeOK, Careful, At
    <3>3. QED
      BY <3>1, <3>2 DEF Goes, Careful
  <2>5. UNCHANGED held => Ground(p)
    BY <2>2 DEF Ground
  <2>6. QED
    BY <2>1, <2>3, <2>4, <2>5, GotoGoes, FailErrs
    DEF Place, MISSING_REGEX, FAILED_TO_OPEN_REPLACE_FILE, FAILED_TO_PARSE_REGEX
<1>5. QED
  BY <1>1, <1>2, <1>3, <1>4

LEMMA TrimsNotLonger ==
  ASSUME NEW p, NEW prm \in Param
  PROVE  StrLen(Trimmed(p, prm).value) <= StrLen(prm.value)
<1> DEFINE once == transform_ltrimzero(prm.value)
           again == transform_ltrimzero(once)
           t == Trimmed(p, prm)
<1>1. prm.value \in Text
  BY DEF Param
<1>2. once \in Text /\ StrLen(once) <= StrLen(prm.value)
  BY <1>1, transform_ltrimzeroTrims
<1>3. again \in Text /\ StrLen(again) <= StrLen(once)
  BY <1>2, transform_ltrimzeroTrims
<1>4. StrLen(prm.value) \in Nat /\ StrLen(once) \in Nat /\ StrLen(again) \in Nat
  BY <1>1, <1>2, <1>3, StrLenType
<1>5. t = prm \/ t = [prm EXCEPT !.value = once] \/ t = [prm EXCEPT !.value = again]
  BY Zenon DEF Trimmed
<1> HIDE DEF once, again, t
<1>6. t.value \in {prm.value, once, again}
  BY <1>5 DEF Param
<1>7. QED
  BY <1>2, <1>3, <1>4, <1>6 DEF t

\* What crashes in the transforms is a parameter of the url that overruns.
LEMMA TransformWays ==
  ASSUME TypeOK, NEW p \in Proc, Called(p), Careful(p), Prepared(p), Transform(p)
  PROVE  Goes(p) \/ Errs(p) \/ Ends(p)
<1> DEFINE Q == query[p]
           pads == {i \in DOMAIN Q : Listed(Option(p, "lpadzero"), Q[i].key) # {}}
           tooLong == {i \in pads : StrLen(Q[i].value) > PadLen}
           padded == [i \in 1..Len(Q) |-> Padded(p, Q[i])]
           trimmed == [i \in 1..Len(Q) |-> Trimmed(p, padded[i])]
           overlong(i) == /\ Listed(Option(p, "ltrimzero"), Q[i].key) # {}
                          /\ \/ StrLen(trimmed[i].value) >= 10
                             \/ padded[i].value = EmptyText
           overflows == \/ \E i \in pads : \A j \in tooLong : i < j
                        \/ Q # <<>> /\ Uninit(p, "lpadzero")
                        \/ Q # <<>> /\ Uninit(p, "ltrimzero") /\ tooLong = {}
                        \/ tooLong = {} /\ \E i \in DOMAIN Q : overlong(i)
<1>1. Q \in Query /\ Len(Q) \in Nat /\ DOMAIN Q = 1..Len(Q) /\ Q = req[p].query
  BY LenProperties DEF TypeOK, Query, Transform, At, Prepared, AskedPlace, ChosenPlace
<1>2. At(p, "transform") /\ ~At(p, "done") /\ ~At(p, "start") /\ Ground(p)
  BY DEF Transform, At, Ground
<1>3. \/ Fail(p, FAILED_TO_ZEROPAD) \/ Goto(p, "command")
      \/ overflows /\ Exit(p, CRASHED)
  BY Zenon DEF Transform
<1>4. \A i \in DOMAIN Q : Q[i] \in Param
  BY <1>1, ElementOfSeq DEF Query
<1>5. ASSUME NEW i \in DOMAIN Q, ~Pads(p, Q[i].key), overlong(i)
      PROVE  /\ Trims(p, Q[i].key)
             /\ StrLen(Q[i].value) >= 10 \/ Q[i].value = EmptyText
  <2>1. padded[i] = Q[i] /\ trimmed[i] = Trimmed(p, Q[i])
    BY <1>1, <1>5, Zenon DEF Padded, Pads
  <2>2. Q[i] \in Param
    BY <1>4
  <2>3. Trims(p, Q[i].key)
    BY <1>5, Zenon DEF Trims
  <2>4. StrLen(trimmed[i].value) >= 10 => StrLen(Q[i].value) >= 10
    <3>1. /\ StrLen(Trimmed(p, Q[i]).value) \in Nat
          /\ StrLen(Q[i].value) \in Nat
      BY <2>2, TrimmedType, StrLenType DEF Param
    <3>2. StrLen(Trimmed(p, Q[i]).value) <= StrLen(Q[i].value)
      BY <2>2, TrimsNotLonger
    <3> HIDE DEF Q, trimmed
    <3>3. QED
      BY <2>1, <3>1, <3>2
  <2>5. StrLen(trimmed[i].value) >= 10 \/ Q[i].value = EmptyText
    BY <1>5, <2>1, Zenon
  <2>6. QED
    BY <2>3, <2>4, <2>5, Zenon
<1>6. Q # <<>> => 1 \in DOMAIN Q
  BY <1>1
<1> DEFINE over(i) ==
             \/ Uninit(p, "lpadzero") \/ Uninit(p, "ltrimzero")
             \/ Pads(p, Q[i].key)
             \/ /\ Trims(p, Q[i].key)
                /\ StrLen(Q[i].value) >= 10 \/ Q[i].value = EmptyText
<1>7. overflows => \E i \in DOMAIN Q : over(i)
  <2>1. ASSUME NEW i \in pads
        PROVE  i \in DOMAIN Q /\ over(i)
    BY <2>1, Zenon DEF Pads
  <2>2. ASSUME NEW i \in DOMAIN Q, overlong(i)
        PROVE  over(i)
    BY <1>5, <2>2, Zenon
  <2>3. Uninit(p, "lpadzero") \/ Uninit(p, "ltrimzero") => \A i : over(i)
    BY Zenon
  <2> HIDE DEF over, overlong, pads
  <2>4. QED
    BY <1>6, <2>1, <2>2, <2>3, Zenon
<1>8. (\E i \in DOMAIN Q : over(i)) => Overruns(p)
  BY <1>1, Zenon DEF Overruns
<1>9. overflows => MayCrash(p)
  BY <1>7, <1>8, Zenon DEF MayCrash
<1> HIDE DEF overflows, Q
<1>10. QED
  BY <1>2, <1>3, <1>9, GotoGoes, FailErrs, ExitEnds
  DEF Place, FAILED_TO_ZEROPAD, CRASHED

LEMMA StepWays ==
  ASSUME TypeOK, NEW p \in Proc, Called(p), Careful(p), Prepared(p),
         Step(p) \/ Waiting(p) \/ Kill(p)
  PROVE  Goes(p) \/ Errs(p) \/ Ends(p)
BY ConfigurationWays, LateWays, StartWays, FileWays, SectionWays, TransformWays,
   Zenon DEF Step, Waiting

LEMMA StepFromPlace ==
  ASSUME TypeOK, NEW p \in Proc, Step(p) \/ Waiting(p) \/ Kill(p)
  PROVE  ~At(p, "done")
<1>1. LateStep(p) => ~At(p, "done")
  BY DEF LateStep, RunPrecmd, PrecmdEnds, Launch, Finish, CleanLog, Kill, At
<1>2. EarlyStep(p) => ~At(p, "done")
  BY DEF EarlyStep, Early, At
<1>3. QED
  BY <1>1, <1>2, EveryStep

\* Nobody else touches what p holds of its file.
LEMMA HeldApart ==
  ASSUME TypeOK, NEW p \in Proc, Step(p) \/ Waiting(p) \/ Kill(p)
  PROVE  \A q \in Proc \ {p} : held'[q] = held[q]
<1>1. CASE Replace(p)
  <2>1. held' = held \/ \E old, edit : held' = [held EXCEPT ![p] = Append(old, edit)]
    BY <1>1, Zenon DEF Replace
  <2>2. QED
    BY <2>1 DEF TypeOK
<1>2. CASE ~Replace(p)
  <2>1. held' = held
    BY <1>2, Zenon
    DEF Step, Waiting, Kill, local, Start, Mode, EncodeRead, EncodeOpen, EncodeWrite,
        Locate, LocateIni, CreateOpen, CreateWrite, DownloadOpen, Transfer,
        ReadConfig, ReadGlobal, OpenLog, ParseUri, ReadSection, ChooseCommand,
        ExpandPaths, MustExist, OpenNew, WriteNew, RemoveOriginal, Transform,
        ExpandCommand, CheckExecutable, RunPrecmd, PrecmdEnds, Launch, Finish,
        CleanLog
  <2>2. QED
    BY <2>1
<1>3. QED
  BY <1>1, <1>2

LEMMA ErrorInvStep ==
  ASSUME TypeOK, RenderInv, ErrorInv, NEW p \in Proc,
         Step(p) \/ Waiting(p) \/ Kill(p)
  PROVE  ErrorInv'
<1>0. /\ \A q \in Proc : Called(q) /\ Careful(q) /\ Reported(q)
      /\ \A q \in Proc : Progress(q) /\ Prepared(q)
  BY DEF ErrorInv, RenderInv
<1>1. req' = req /\ (ini["ph.ini"].exists => ini'["ph.ini"].exists)
  BY <1>0, ReqSame, IniStays
<1>2. OthersSame(p) /\ Alone(p)
  BY <1>0, EveryStep, EarlyProgress, LateProgress, StepSettles
<1>3. ~At(p, "done") /\ Progress(p)'
  BY <1>0, StepFromPlace, ProgressStep
<1>4. Goes(p) \/ Errs(p) \/ Ends(p)
  BY <1>0, StepWays
<1>5. \A q \in Proc \ {p} : page'[q] = page[q]
  BY <1>0, <1>3, <1>4, ErrsReports, EndsReports DEF Goes
<1>6. Careful(p)' /\ Reported(p)'
  <2>1. CASE Goes(p)
    <3>1. exit'[p] = RUNNING
      BY <1>3, <2>1 DEF Goes, Progress
    <3>2. Reported(p)'
      BY <3>1 DEF Reported
    <3>3. QED
      BY <2>1, <3>2 DEF Goes
  <2>2. CASE Errs(p) \/ Ends(p)
    <3>1. Reported(p)' /\ pc'[p] = "done"
      BY <1>0, <1>3, <2>2, ErrsReports, EndsReports
    <3>2. QED
      BY <3>1 DEF Careful
  <2>3. QED
    BY <1>4, <2>1, <2>2
<1>7. Called(p)'
  BY <1>0, <1>1, CalledStep
<1>8. ASSUME NEW q \in Proc \ {p}
      PROVE  Called(q)' /\ Careful(q)' /\ Reported(q)'
  <2>1. pc'[q] = pc[q] /\ exit'[q] = exit[q] /\ conf'[q] = conf[q]
    BY <1>2 DEF OthersSame, Alone, Same
  <2>2. page'[q] = page[q] /\ held'[q] = held[q] /\ req'[q] = req[q]
    BY <1>1, <1>5, HeldApart
  <2>3. Called(q)'
    BY <1>0, <1>1, <2>1 DEF Called
  <2>4. Careful(q)'
    BY <1>0, <2>1, <2>2 DEF Careful
  <2>5. Reported(q)'
    BY <1>0, <2>1, <2>2, ReportedSame DEF Ground
  <2>6. QED
    BY <2>3, <2>4, <2>5
<1>9. QED
  BY <1>6, <1>7, <1>8 DEF ErrorInv

LEMMA ErrorInvStutter ==
  ASSUME ErrorInv, UNCHANGED vars
  PROVE  ErrorInv'
<1> SUFFICES ASSUME NEW q \in Proc PROVE Called(q)' /\ Careful(q)' /\ Reported(q)'
  BY DEF ErrorInv
<1>1. Called(q) /\ Careful(q) /\ Reported(q)
  BY DEF ErrorInv
<1>2. /\ pc' = pc /\ req' = req /\ conf' = conf /\ held' = held /\ ini' = ini
      /\ exit' = exit /\ page' = page
  BY DEF vars, local, verdict, disk
<1>3. Called(q)' /\ Careful(q)'
  BY <1>1, <1>2 DEF Called, Careful
<1>4. Reported(q)'
  BY <1>1, <1>2, ReportedSame DEF Ground
<1>5. QED
  BY <1>3, <1>4

LEMMA ErrorInvInit == Init => ErrorInv
<1> SUFFICES ASSUME Init, NEW p \in Proc PROVE Called(p) /\ Careful(p) /\ Reported(p)
  BY DEF ErrorInv
<1>1. /\ pc[p] = "start" /\ ~conf[p].exists
      /\ page[p] = OK /\ exit[p] = RUNNING
  BY DEF Init, NoFile
<1>2. QED
  BY <1>1 DEF Called, Careful, Reported, EncodePlace, CreatePlace

\* For any configurations, urls and faults, and any number of invocations that
\* share the disk: an invocation for a url that ends with an error code shows
\* the page of that very error, unless the page's address is too long for a
\* command line or one of the listed crashes comes first (ph.c:155-225,
\* 485-486).
THEOREM ErrorsShown == Spec => []ErrorsAreShown
<1>1. TypeOK /\ RenderInv /\ ErrorInv /\ [Next]_vars => ErrorInv'
  BY ErrorInvStep, ErrorInvStutter DEF Next, Terminated
<1>2. TypeInv /\ RenderInv /\ [Next]_vars => RenderInv'
  BY RenderInvStep, RenderInvStutter DEF Next, Terminated
<1>3. ErrorInv => ErrorsAreShown
  BY Zenon DEF ErrorInv, Reported, ErrorsAreShown
<1>4. TypeInv => TypeOK
  BY DEF TypeInv
<1>5. QED
  BY <1>1, <1>2, <1>3, <1>4, ErrorInvInit, RenderInvInit, TypeInvInvariant, PTL
  DEF Spec

=============================================================================
