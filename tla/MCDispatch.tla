----------------------------- MODULE MCDispatch -----------------------------
(***************************************************************************)
(* Words, configurations, urls and files for model checking Dispatch.      *)
(***************************************************************************)
EXTENDS Dispatch, TLC

\* Words with a length that matters, and words with capitals.
MCSizes == "" :> 0 @@ "1" :> 1 @@ "7" :> 1 @@ "12345678901" :> 11 @@
           "1234567890" :> 10 @@ "longmsg" :> 2500 @@ "hugemsg" :> 3950

MCCapitals == "ID" :> "id" @@ "User" :> "user" @@ "ME" :> "me" @@ "Sec" :> "sec"

MCWord ==
  DOMAIN MCSizes \cup DOMAIN MCCapitals \cup
  SectionDirectives \cup GlobalDirectives \cup {"_global", "cfg_file"} \cup
  {",", "windir", "APPDATA", "USERNAME", "PH_HOME", "win", "data", "home",
   "id", "n", "user", "me", "you", "nope", "app", "tool", "notepad", "tail",
   "text", "gone", "re", "badre", "msg", "log", "sec", "other"}

MCLower == [w \in MCWord |-> IF w \in DOMAIN MCCapitals THEN MCCapitals[w] ELSE w]

MCSize == [w \in MCWord |-> IF w \in DOMAIN MCSizes THEN MCSizes[w] ELSE 3]

MCChop == [w \in MCWord |-> w]

MCEnv == "windir" :> Lit("win") @@ "APPDATA" :> Lit("data") @@
         "USERNAME" :> Lit("me")

\* Environments without a default place for the log, and without the user.
MCNoLogEnv == "windir" :> Lit("win") @@ "USERNAME" :> Lit("me")
MCNoUserEnv == "windir" :> Lit("win") @@ "APPDATA" :> Lit("data")

MCExeDir == Lit("home")

\* A second name that is read wrong, see parse_conditional.
MCSpoiled == {[env |-> FALSE, name |-> "user"]}

-----------------------------------------------------------------------------
(* Tokens, lines, files *)

L(w) == Plain(Lit(w))
QueryRef(name) == [env |-> FALSE, name |-> name]
EnvRef(name) == [env |-> TRUE, name |-> name]
Q(name) == [Plain(EmptyText) EXCEPT !.kind = "var", !.left = QueryRef(name)]
E(name) == EnvVar(name)
If(a, b, w) == [L(w) EXCEPT !.kind = "cond", !.left = a, !.right = b]
IfNot(a, b, w) == [If(a, b, w) EXCEPT !.negate = TRUE]
Bad(w) == [L(w) EXCEPT !.kind = "malformed"]

H(name) == [kind |-> "header", indent |-> FALSE, name |-> name, value |-> <<>>]
P(name, tpl) == [kind |-> "pair", indent |-> FALSE, name |-> name, value |-> tpl]
Indented(l) == [l EXCEPT !.indent = TRUE]

File(lines) == [exists |-> TRUE, encoded |-> FALSE, lines |-> lines]

Log == <<H("_global"), P("log_path", <<L("log")>>)>>
Sec(lines) == File(Log \o <<H("Sec")>> \o lines)
Cmd0 == P("cmd", <<L("app")>>)

MCFiles ==
  "plain" :> File(Log \o <<P("log_level", <<L("1")>>), H("Sec"),
    P("lpadzero", <<L("id")>>), P("ltrimzero", <<L("n")>>),
    P("precmd", <<L("tool"), Q("id")>>),
    P("cmd", <<L("app"), Q("id"), Q("n"), E("windir"),
               If(EnvRef("USERNAME"), QueryRef("user"), "tail"),
               IfNot(QueryRef("nope"), QueryRef("id"), "tail"), Bad("tail")>>),
    P("start_minimized", <<L("1")>>)>>) @@
  "twice" :> Sec(<<P("ltrimzero", <<L("n"), L("n")>>), P("start_hidden", <<L("1")>>),
                   P("cmd", <<L("app"), Q("n")>>)>>) @@
  "byuser" :> Sec(<<P("user_param", <<L("User")>>), Cmd0,
    P("cmd_usermatch", <<L("app"), Q("user")>>),
    P("cmd_nousermatch", <<L("notepad")>>),
    P("precmd_usermatch", <<L("tool"), E("PH_HOME")>>)>>) @@
  "replace" :> Sec(<<Cmd0, P("replace_file", <<L("text")>>),
                     P("replace_regex", <<L("re")>>)>>) @@
  "late" :> Sec(<<P("cmd", <<L("app"), Q("nope")>>), P("replace_file", <<L("text")>>),
                  P("replace_regex", <<L("re")>>)>>) @@
  "gone" :> Sec(<<Cmd0, P("replace_file", <<L("gone")>>),
                  P("replace_regex", <<L("re")>>)>>) @@
  "badre" :> Sec(<<Cmd0, P("replace_file", <<L("text")>>),
                   P("replace_regex", <<L("badre")>>)>>) @@
  "nore" :> Sec(<<Cmd0, P("replace_file", <<L("text")>>)>>) @@
  "must" :> Sec(<<Cmd0, P("file_must_exist", <<L("gone")>>),
                  P("file_must_exist_error", <<L("msg")>>)>>) @@
  "mustlong" :> Sec(<<Cmd0, P("file_must_exist", <<L("gone")>>),
                      P("file_must_exist_error", <<L("longmsg")>>)>>) @@
  "musthuge" :> Sec(<<Cmd0, P("file_must_exist", <<L("gone")>>),
                      P("file_must_exist_error", <<L("hugemsg")>>)>>) @@
  "there" :> Sec(<<Cmd0, P("file_must_exist", <<L("text")>>)>>) @@
  "junk" :> Sec(<<Cmd0, JunkLine>>) @@
  "unknown" :> Sec(<<Cmd0, P("cfg_file", <<L("text")>>)>>) @@
  "badglobal" :> File(<<H("_global"), P("cmd", <<L("app")>>)>>) @@
  "badlog" :> File(<<H("_global"), P("log_path", <<E("nope")>>)>>) @@
  "nolog" :> File(<<H("sec"), Cmd0>>) @@
  "nocmd" :> Sec(<<P("precmd", <<L("tool")>>)>>) @@
  "badpath" :> Sec(<<Cmd0, P("default_path", <<Q("nope")>>)>>) @@
  "nolist" :> Sec(<<Cmd0, P("lpadzero", <<>>)>>) @@
  "comma" :> Sec(<<Cmd0, P("ltrimzero", <<L(",")>>)>>) @@
  "continued" :> Sec(<<Cmd0, Indented(P("cmd", <<L("notepad")>>))>>)

MCLocalPath == DOMAIN MCFiles \cup {"missing"}

MCSharedPath == {"replace", "late", "there", "plain", "byuser"}

MCUrl == {"http1", "http2"}

MCRemote == "http1" :> Sec(<<Cmd0>>) @@
            "http2" :> Sec(<<P("cmd", <<L("notepad")>>), P("start_hidden", <<L("1")>>)>>)

MCOldIni == [f \in ConfigPath |-> IF f \in DOMAIN MCFiles THEN MCFiles[f] ELSE NoFile]

MCExampleIni == <<H("sec"), Cmd0>>

MCTarget == {<<Lit("text")>>}
MCPresent == {<<Lit("app")>>}
MCExecutable == {Lit("app"), Lit("notepad")}
MCBadRegex == {<<L("badre")>>}

-----------------------------------------------------------------------------
(* Calls *)

Prm(k, zeros, w) == [key |-> k, value |-> [zeros |-> zeros, rest |-> w]]

Call(file, qry) ==
  [arg1 |-> "url", from |-> "local", file |-> file, out |-> "ph.dat",
   at |-> "http1", res |-> 0, section |-> "sec", query |-> qry, urllen |-> 20]

FromUrl(u) == [Call("ph.ini", <<>>) EXCEPT !.from = "remote", !.at = u]
FromDefault == [Call("ph.ini", <<>>) EXCEPT !.from = "default"]
Encode(in, out) == [Call(in, <<>>) EXCEPT !.arg1 = "-e", !.out = out]
Mine == <<Prm("id", 0, "7"), Prm("n", 2, "7"), Prm("user", 0, "ME")>>

\* One call for every way through main().
MCAllCalls ==
  {Call(f, <<>>) : f \in MCLocalPath} \cup
  {Call("plain", q) : q \in {Mine,
     <<Prm("id", 9, "7"), Prm("n", 1, ""), Prm("user", 0, "you"), Prm("id", 0, "1")>>,
     <<Prm("n", 3, ""), Prm("id", 0, "12345678901")>>,
     <<Prm("id", 0, "1"), Prm("n", 0, "1234567890")>>,
     <<Prm("ID", 0, "1"), Prm("n", 0, "1")>>}} \cup
  {Call("twice", <<Prm("n", z, "")>>) : z \in 0..2} \cup
  {Call("nolist", Mine), Call("comma", Mine)} \cup
  {Call("byuser", <<Prm("user", 0, u)>>) : u \in {"me", "ME", "you"}} \cup
  {Call("byuser", <<Prm("User", 0, "you"), Prm("user", 0, "me")>>)} \cup
  {[Call("plain", Mine) EXCEPT !.section = "other"],
   [Call("plain", Mine) EXCEPT !.res = 2],
   [Call("plain", Mine) EXCEPT !.section = "other", !.urllen = 2100],
   [Call("badpath", Mine) EXCEPT !.urllen = 1930],
   [Call("unknown", Mine) EXCEPT !.urllen = 1930],
   [FromDefault EXCEPT !.arg1 = "none"], FromDefault,
   Encode("plain", "ph.dat"), Encode("missing", "ph.dat"),
   [Encode("plain", "ph.dat") EXCEPT !.arg1 = "-r"],
   [Encode("plain", "ph.dat") EXCEPT !.arg1 = "-h"]} \cup
  {FromUrl(u) : u \in MCUrl}

\* Calls that meet on the disk.
MCSharedCalls ==
  {Call("replace", <<>>), Call("late", <<>>), Call("there", <<>>),
   Call("plain", Mine), FromDefault, [FromDefault EXCEPT !.arg1 = "none"], Encode("plain", "ph.dat")} \cup
  {FromUrl(u) : u \in MCUrl}

MCLiveCalls == {Call("replace", <<>>), FromDefault, FromUrl("http1"),
                Encode("plain", "ph.dat"),
                Call("byuser", <<Prm("user", 0, "me")>>)}

MCReplaceCalls == {Call("replace", <<>>)}
MCDefaultCalls == {FromDefault}
MCUrlCalls == {FromUrl(u) : u \in MCUrl}

\* Calls whose parameters are padded and trimmed.
MCParamCalls == {Call("plain", Mine), Call("twice", <<Prm("n", 1, "")>>)}

MCLoudFaults == FaultKind \ {"flush"}
MCFlushFault == {"flush"}
MCCreateFault == {"create"}

=============================================================================
