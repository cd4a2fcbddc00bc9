------------------------------- MODULE MCText -------------------------------
(***************************************************************************)
(* The loops over lines and characters for TLC, with what the documents    *)
(* say a uri, a template and a replacement are: each is written out and    *)
(* must come back as it was meant.  A behaviour is a run of one of the     *)
(* loops.                                                                  *)
(***************************************************************************)
EXTENDS IniReader, UriParse, CmdScanner, RegReplace, XorCode, CommandLine, TLC

SeqExt == INSTANCE SequencesExt

VARIABLE loop  \* the loop that runs

UpTo(S, n) == SeqExt!BoundedSeq(S, n)
Flat(seqs) == SeqExt!FlattenSeq(seqs)

-----------------------------------------------------------------------------
(* Uris: protocol:[//]authority[/path][?query][#fragment] *)

MCDecoded ==
  "%61" :> "a" @@ "%3D" :> "=" @@ "%26" :> "&" @@ "%00" :> "NUL" @@ "+" :> " " @@
  [c \in {"a", "b", ":", "/", "?", "#", "&", "="} |-> c]

MCGarbage == {<<"b">>}

\* Nothing, or one of these texts behind its delimiter.
With(delim, texts) == {<<>>} \cup {<<delim>> \o s : s \in texts}

MCUriParts ==
  [proto : {<<"a">>}, slashes : {<<>>, <<"/", "/">>},
   authority : {<<"a">>, <<"a", "b">>, <<"a", ":", "b">>},
   path : With("/", {<<>>, <<"a">>, <<"a", "/", "b">>, <<"b", ":">>}),
   query : With("?", {<<"a">>, <<"a", "=", "/", "?">>}),
   fragment : With("#", {<<"a">>, <<"?", "#">>})]

MCQueryPairs ==
  (UpTo([key : {<<"a">>, <<"b", "%61">>}, value : UpTo({"b", "=", "%3D", "%26"}, 2)], 1)
  \cup UpTo([key : {<<"a">>, <<"b">>}, value : {<<>>, <<"+", "=">>}], 3))
  \ {<<>>}

\* Uris of any kind, and queries of any kind.
MCOddUri ==
  UpTo({"a", ":", "/", "?", "#"}, 5) \cup
  {<<"a", ":", "a", "?">> \o q : q \in UpTo({"a", "&", "=", "%3D", "%00"}, 3)}

MCUri ==
  {WrittenUri[d] : d \in UriParts} \cup
  {<<"a", ":", "a", "?">> \o WrittenQuery[p] : p \in QueryPairs} \cup MCOddUri

-----------------------------------------------------------------------------
(* Templates *)

MCSize == [w \in {"v11", "v13", "v40"} |-> CASE w = "v11" -> 11 [] w = "v13" -> 13
                                             [] OTHER -> 40] @@
          "" :> 0 @@
          [w \in {"id", "n", "user", "nope", "ME", "me", "HOME", "PH_HOME", "w", "home",
                  ":", "=", "$"} |-> 1] @@
          [w \in SectionDirectives \cup {"_global", "sec", "SEC", "other", "section",
                                        "CMD", "cfg_file", "a", "b"} |-> 3]
MCCapitals == "ME" :> "me" @@ "SEC" :> "sec" @@ "CMD" :> "cmd"
MCWord == DOMAIN MCSize
MCLower == [w \in MCWord |-> IF w \in DOMAIN MCCapitals THEN MCCapitals[w] ELSE w]
MCEnv == "HOME" :> Lit("ME")
MCExeDir == Lit("home")
MCSpoiled == {[env |-> FALSE, name |-> "n"]}

MCParams ==
  {<<>>} \cup
  {<<[key |-> "id", value |-> v], [key |-> "user", value |-> Lit("me")],
     [key |-> "n", value |-> Lit("me")], [key |-> "id", value |-> Lit("w")]>> :
     v \in {[zeros |-> 2, rest |-> "w"], Lit("v11"), Lit("v13"), Lit("v40")}}

QueryRef(name) == [env |-> FALSE, name |-> name]
EnvRef(name) == [env |-> TRUE, name |-> name]

L(w) == Plain(Lit(w))
V(ref) == [Plain(EmptyText) EXCEPT !.kind = "var", !.left = ref]
Cond(a, b, neg) == [L("w") EXCEPT !.kind = "cond", !.left = a, !.right = b, !.negate = neg]

MCTokens ==
  {L("w"), L(":"), L("="), L("$"), Plain([zeros |-> 1, rest |-> "w"])} \cup
  {V(QueryRef("id")), V(QueryRef("nope")), V(EnvRef("HOME")), V(EnvRef("nope"))} \cup
  {Cond(EnvRef("HOME"), b, neg) :
     b \in {QueryRef("user"), QueryRef("id"), QueryRef("n")}, neg \in BOOLEAN} \cup
  {[Cond(QueryRef("user"), QueryRef("user"), neg) EXCEPT !.kind = "malformed"] :
     neg \in BOOLEAN}

MCTemplates ==
  UpTo(MCTokens, 2) \cup
  {<<L("w"), V(QueryRef("id")), L("w"), V(QueryRef("id"))>>,
   <<L("w"), L("w"), L("w"), V(QueryRef("id")), V(QueryRef("id"))>>,
   <<V(QueryRef("id")), Cond(QueryRef("user"), QueryRef("user"), FALSE)>>} \cup
  {<<[Cond(QueryRef("user"), QueryRef("user"), FALSE) EXCEPT !.lit = Lit(w)]>> :
     w \in {"v13", "v40"}}

MCBlanks == {<<>>, <<" ">>}

MCOddStrings ==
  {<<"}">>, <<"w", "}">>, <<"w", "id", "}">>, <<"$", "{", "$", "{", "id", "}">>,
   <<"w", "$", "{", "$", "{", "id", "}">>, <<"$", "{", "id">>,
   <<"$", "{", "id", "}", "}">>, <<"{", "id", "}">>}

MCStrings == {WrittenTemplate[k] : k \in DOMAIN WrittenTemplate} \cup MCOddStrings

-----------------------------------------------------------------------------
(* Configurations: every text of up to MaxLines lines of eleven kinds *)

CONSTANT MaxLines

\* "section" stands for a name of 50 characters or more that begins with the 49
\* of "sec": it is cut to the name of another section.
MCChop == [w \in MCWord |-> IF w = "section" THEN "sec" ELSE w]

Of(kind, indent, name, value) ==
  [kind |-> kind, indent |-> indent, name |-> name, value |-> value]

\* A bad header and a line without '=' are treated alike everywhere: one stands
\* for the indented ones, the other for those at the margin.
MCLine ==
  {Of("comment", TRUE, "", <<>>),
   Of("header", FALSE, "SEC", <<>>), Of("header", FALSE, "other", <<>>),
   Of("header", FALSE, "section", <<>>),
   Of("header", TRUE, "sec", <<>>),
   Of("badheader", TRUE, "sec", <<>>), Of("junk", FALSE, "", <<>>),
   Of("pair", FALSE, "CMD", <<L("a")>>), Of("pair", TRUE, "cmd", <<L("b")>>),
   Of("pair", FALSE, "precmd", <<L("b")>>), Of("pair", FALSE, "cfg_file", <<L("a")>>)}

MCInput == UpTo(MCLine, MaxLines)

-----------------------------------------------------------------------------
(* Replacements: /search/replace/modifiers with / escaped as \/ *)

MCItems == {<<"a">>, <<"\\", "d">>, <<"/">>}

MCPieces == {Flat(s) : s \in UpTo(MCItems, 2)}

MCReplacements ==
  [pre : {<<>>, <<"a">>}, search : MCPieces, replace : MCPieces,
   modifiers : With("/", {<<>>, <<"m">>})]

MCExpressions ==
  {WrittenReplacement[r] : r \in Replacements} \cup UpTo({"a", "/", "\\"}, 5)
MCCharacter == {"a", "d", "m", "/", "\\"}

-----------------------------------------------------------------------------
(* Files: bytes of two bits, a magic of two, a key of three *)

MCByte == 0..3
MCXor == [a \in MCByte |-> [b \in MCByte |->
            ((a + b) % 2) + 2 * (((a \div 2) + (b \div 2)) % 2)]]
MCMagic == <<0, 2>>
MCKey == <<3, 1, 2>>
MCOriginal == UpTo(MCByte, 4)

-----------------------------------------------------------------------------
(* Commands and file names *)

MCGlyph == {"a", "b", "\"", " ", "tab"}
MCCommands == UpTo(MCGlyph, 5)

-----------------------------------------------------------------------------
\* What each loop has read before it runs: nothing.
IdleUri == Unparsed(<<>>)
IdleCmd == Before(<<>>, <<>>)
IdleReg == Unsplit(<<>>)
IdleXor == Written(<<>>)
IdleLine == Called("getexe", <<>>)
IdleIni == Unread(<<>>)

TextInit ==
  \/ loop = "uri" /\ UriInit /\ IdleCmd /\ IdleReg /\ IdleXor /\ IdleLine /\ IdleIni
  \/ loop = "cmd" /\ CmdInit /\ IdleUri /\ IdleReg /\ IdleXor /\ IdleLine /\ IdleIni
  \/ loop = "reg" /\ RegInit /\ IdleUri /\ IdleCmd /\ IdleXor /\ IdleLine /\ IdleIni
  \/ loop = "xor" /\ XorInit /\ IdleUri /\ IdleCmd /\ IdleReg /\ IdleLine /\ IdleIni
  \/ loop = "line" /\ LineInit /\ IdleUri /\ IdleCmd /\ IdleReg /\ IdleXor /\ IdleIni
  \/ loop = "ini" /\ ReaderInit /\ IdleUri /\ IdleCmd /\ IdleReg /\ IdleXor /\ IdleLine

UriStep == loop = "uri" /\ UriNext
           /\ UNCHANGED <<loop, cmdVars, regVars, xorVars, lineVars, readerVars>>
CmdStep == loop = "cmd" /\ CmdNext
           /\ UNCHANGED <<loop, uriVars, regVars, xorVars, lineVars, readerVars>>
RegStep == loop = "reg" /\ RegNext
           /\ UNCHANGED <<loop, uriVars, cmdVars, xorVars, lineVars, readerVars>>
XorStep == loop = "xor" /\ XorNext
           /\ UNCHANGED <<loop, uriVars, cmdVars, regVars, lineVars, readerVars>>
LineStep == loop = "line" /\ LineNext
            /\ UNCHANGED <<loop, uriVars, cmdVars, regVars, xorVars, readerVars>>
IniStep == loop = "ini" /\ ReaderNext
           /\ UNCHANGED <<loop, uriVars, cmdVars, regVars, xorVars, lineVars>>

TextNext == UriStep \/ CmdStep \/ RegStep \/ XorStep \/ LineStep \/ IniStep

textVars == <<loop, uriVars, cmdVars, regVars, xorVars, lineVars, readerVars>>

TextSpec == TextInit /\ [][TextNext]_textVars

=============================================================================
