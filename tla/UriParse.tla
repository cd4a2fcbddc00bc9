------------------------------ MODULE UriParse ------------------------------
(***************************************************************************)
(* The uri parser of ph.exe, lib/uriparse.c, with the name-value list of   *)
(* lib/nvlist.c: the loop over the characters of the uri, the copies of    *)
(* its parts, and the parameters of its query.                             *)
(*                                                                         *)
(* A character that is escaped (%XX) is one symbol: no escape is a         *)
(* delimiter, so the parser does not tell its three characters apart.  A   *)
(* uri has no blank that is not escaped.                                   *)
(***************************************************************************)
EXTENDS Integers, Sequences, SequencesExt

CONSTANTS
  Uri,        \* the uris that are parsed
  Decoded,    \* what the symbols of a uri are decoded to; "NUL" ends a string
  Garbage,    \* what malloc()ed memory that was never set may hold
  MaxParts,   \* the size of the array of str_array_split(), 512
  UriParts,   \* parts that uris are put together from
  QueryPairs  \* lists of names and values that queries are put together from

UriSymbol == DOMAIN Decoded

\* An "=" stands for itself.
ASSUME UriAssumption ==
  /\ Uri \subseteq Seq(UriSymbol)
  /\ Garbage \subseteq Seq(UriSymbol)
  /\ MaxParts \in Nat \ {0}
  /\ "=" \in UriSymbol => Decoded["="] = "="

\* The texts that have none of these symbols.
Without(symbols) ==
  {s \in Seq(UriSymbol) : \A k \in DOMAIN s : s[k] \notin symbols}

\* Nothing, or a delimiter and a text that has none of these symbols.
Optional(delim, symbols) ==
  {s \in Seq(UriSymbol) : s # <<>> => s[1] = delim /\ Tail(s) \in Without(symbols)}

\* protocol:[//]authority[/path][?query][#fragment], every part with the
\* delimiter in front of it.  A query or a fragment that is there is not empty.
ASSUME UriPartsAssumption ==
  UriParts \subseteq
    [proto : Without({":", "/", "?", "#"}),
     slashes : {<<>>, <<"/", "/">>},
     authority : Without({"/", "?", "#"}) \ {<<>>},
     path : Optional("/", {"?", "#"}),
     query : Optional("?", {"#"}) \ {<<"?">>},
     fragment : Optional("#", {}) \ {<<"#">>}]

\* A name has no "=" or NUL, not even an encoded one.
ASSUME QueryPairsAssumption ==
  QueryPairs \subseteq
    Seq([key : {s \in Without({"&", "="}) :
                  \A k \in DOMAIN s : Decoded[s[k]] \notin {"=", "NUL"}},
         value : Without({"&"})])

VARIABLES
  uri,          \* argv[1]
  i,            \* the character the loop looks at, from 0 on
  stage,        \* the last part that was found
  doubleslash,  \* 2 if there are slashes behind the colon
  pos,          \* where the parts begin, -1 if they are not there
  place,        \* how far uriparse_parse() is
  part,         \* the parts that were cut out
  unread,       \* the parts of the query that are not in the list yet
  nvquery,      \* the names and values of the query
  res           \* what uriparse_parse() returns

uriVars == <<uri, i, stage, doubleslash, pos, place, part, unread, nvquery, res>>

FOUND_PROTO == 1
FOUND_AUTHORITY == 2
FOUND_PATH == 3
FOUND_QUERY == 4
FOUND_FRAGMENT == 5

NoParts == [proto |-> <<>>, authority |-> <<>>, path |-> <<>>, query |-> <<>>,
            fragment |-> <<>>]

\* uriparse_create()
Unparsed(u) ==
  /\ uri = u
  /\ i = 0
  /\ stage = 1
  /\ doubleslash = 0
  /\ pos = [k \in FOUND_PROTO..FOUND_FRAGMENT |-> -1]
  /\ place = "scan"
  /\ part = NoParts
  /\ unread = <<>>
  /\ nvquery = <<>>
  /\ res = 0

UriInit == \E u \in Uri : Unparsed(u)

-----------------------------------------------------------------------------
(* The loop over the characters *)

UriChar(k) == IF k < Len(uri) THEN uri[k + 1] ELSE "NUL"

Delimiter == [k \in FOUND_PATH..FOUND_FRAGMENT |->
                CASE k = FOUND_PATH -> "/" [] k = FOUND_QUERY -> "?" [] OTHER -> "#"]

\* Mutant of Slashes: one slash is enough.
OneSlash == UriChar(i + 1) = "/"

Slashes == UriChar(i + 1) = "/" /\ UriChar(i + 2) = "/"

IsColon == stage < FOUND_AUTHORITY /\ UriChar(i) = ":"

\* Mutant of Begins: a part that has begun may begin again.
BeginsAgain == {k \in FOUND_PATH..FOUND_FRAGMENT : stage <= k /\ UriChar(i) = Delimiter[k]}

\* The part that begins behind character i.
Begins == {k \in FOUND_PATH..FOUND_FRAGMENT : stage < k /\ UriChar(i) = Delimiter[k]}

Scanning == place = "scan" /\ i < Len(uri)

\* The colon: with two slashes behind it, they and the character behind them
\* are skipped.
FoundProto ==
  /\ Scanning /\ IsColon
  /\ stage' = FOUND_AUTHORITY
  /\ pos' = [pos EXCEPT ![FOUND_PROTO] = i]
  /\ doubleslash' = IF Slashes THEN 2 ELSE 0
  /\ i' = IF Slashes THEN i + 4 ELSE i + 1
  /\ UNCHANGED <<uri, place, part, unread, nvquery, res>>

\* A delimiter; one at the end of the uri counts as behind the end.
FoundPart ==
  /\ Scanning /\ ~IsColon
  /\ \E k \in Begins :
       /\ stage' = k
       /\ pos' = [pos EXCEPT ![k] = IF Len(uri) = i + 1 THEN i + 1 ELSE i]
  /\ i' = i + 1
  /\ UNCHANGED <<uri, doubleslash, place, part, unread, nvquery, res>>

\* Any other character.
SkipChar ==
  /\ Scanning /\ ~IsColon /\ Begins = {}
  /\ i' = i + 1
  /\ UNCHANGED <<uri, stage, doubleslash, pos, place, part, unread, nvquery, res>>

-----------------------------------------------------------------------------
(* Cutting the parts out *)

\* pos[FOUND_AUTHORITY], where the authority ends.
AuthorityEnd ==
  IF pos[FOUND_PATH] # -1 THEN pos[FOUND_PATH]
  ELSE IF pos[FOUND_QUERY] # -1 THEN pos[FOUND_QUERY]
  ELSE IF pos[FOUND_FRAGMENT] # -1 THEN pos[FOUND_FRAGMENT]
  ELSE IF pos[FOUND_PROTO] + 1 < Len(uri) THEN Len(uri) ELSE -1

AuthorityLen == AuthorityEnd - pos[FOUND_PROTO] - doubleslash - 1

\* How long the copy of a part is: up to the next part or the end.
PathLen ==
  (IF pos[FOUND_QUERY] # -1 THEN pos[FOUND_QUERY]
   ELSE IF pos[FOUND_FRAGMENT] # -1 THEN pos[FOUND_FRAGMENT] ELSE Len(uri))
  - pos[FOUND_PATH]

QueryLen ==
  (IF pos[FOUND_FRAGMENT] # -1 THEN pos[FOUND_FRAGMENT] ELSE Len(uri)) - pos[FOUND_QUERY]

FragmentLen == Len(uri) - pos[FOUND_FRAGMENT]

HasPath == pos[FOUND_PATH] # -1 /\ pos[FOUND_PATH] # Len(uri)

\* strncpy() of at most n characters from character k on.
Copied(k, n) == SubSeq(uri, k + 1, IF k + n < Len(uri) THEN k + n ELSE Len(uri))

\* The terminator is set at len - 1: with len 0 it is in front of the copy,
\* which is left as malloc() gave it.
Cut(k, len) == IF len = 0 THEN Garbage ELSE {Copied(k + 1, len - 1)}

Authority ==
  LET a == Copied(pos[FOUND_PROTO] + doubleslash + 1, AuthorityLen)
  IN  IF a # <<>> /\ Last(a) = "/" THEN Front(a) ELSE a

\* An access in front of allocated memory.
Underrun ==
  \/ AuthorityLen = 0
  \/ pos[FOUND_QUERY] # -1 /\ QueryLen = 0
  \/ pos[FOUND_FRAGMENT] # -1 /\ FragmentLen = 0

EndOfScan == place = "scan" /\ i >= Len(uri)

\* A required part is missing.
MissingPart ==
  /\ EndOfScan
  /\ pos[FOUND_PROTO] = -1 \/ AuthorityEnd = -1
  /\ res' = IF pos[FOUND_PROTO] = -1 THEN FOUND_PROTO ELSE FOUND_AUTHORITY
  /\ place' = "done"
  /\ UNCHANGED <<uri, i, stage, doubleslash, pos, part, unread, nvquery>>

CutParts ==
  /\ EndOfScan
  /\ pos[FOUND_PROTO] # -1 /\ AuthorityEnd # -1
  /\ \E query \in IF pos[FOUND_QUERY] # -1 THEN Cut(pos[FOUND_QUERY], QueryLen) ELSE {<<>>} :
     \E fragment \in IF pos[FOUND_FRAGMENT] # -1 THEN Cut(pos[FOUND_FRAGMENT], FragmentLen)
                     ELSE {<<>>} :
       part' = [proto |-> Copied(0, pos[FOUND_PROTO]),
                authority |-> Authority,
                path |-> IF HasPath THEN Copied(pos[FOUND_PATH] + 1, PathLen - 1) ELSE <<>>,
                query |-> query,
                fragment |-> fragment]
  /\ place' = "split"
  /\ UNCHANGED <<uri, i, stage, doubleslash, pos, unread, nvquery, res>>

UriCrash ==
  /\ EndOfScan
  /\ pos[FOUND_PROTO] # -1 /\ AuthorityEnd # -1
  /\ Underrun
  /\ place' = "crashed"
  /\ UNCHANGED <<uri, i, stage, doubleslash, pos, part, unread, nvquery, res>>

-----------------------------------------------------------------------------
(* The parameters of the query *)

\* Where the first delim of s is, 0 if there is none.
Find(s, delim) == SelectInSeq(s, LAMBDA c : c = delim)

\* What a string is to the code that reads it: it ends at the first NUL.
AsString(s) == SubSeq(s, 1, Find(s \o <<"NUL">>, "NUL") - 1)

\* urldecode2()
urldecode2(s) == AsString([k \in DOMAIN s |-> Decoded[s[k]]])

\* Where the pieces between the delimiters begin.
PieceBegins(s, delim) ==
  {k \in DOMAIN s : s[k] # delim /\ (k = 1 \/ s[k - 1] = delim)}

\* Where the n-th of them begins, and where a piece ends.
PieceBegin(s, delim, n) ==
  CHOOSE k \in PieceBegins(s, delim) :
    Cardinality({m \in PieceBegins(s, delim) : m <= k}) = n

PieceEnd(s, delim, k) == Min({e \in k..Len(s) : e = Len(s) \/ s[e + 1] = delim})

\* The pieces, as strtok() gives them: none is empty.
Pieces(s, delim) ==
  [n \in 1..Cardinality(PieceBegins(s, delim)) |->
     SubSeq(s, PieceBegin(s, delim, n), PieceEnd(s, delim, PieceBegin(s, delim, n)))]

\* str_array_split() and nvlist_resize(): more pieces than the array has room
\* for are written behind its end.
SplitQuery ==
  /\ place = "split"
  /\ unread' = Pieces(part.query, "&")
  /\ place' \in IF Len(unread') > MaxParts THEN {"pairs", "crashed"} ELSE {"pairs"}
  /\ UNCHANGED <<uri, i, stage, doubleslash, pos, part, nvquery, res>>

Pair(key, value) == [key |-> key, value |-> value]

\* Mutant of AddPair: the value begins with the delimiter.
AddPairWithDelimiter(s) ==
  Pair(SubSeq(s, 1, Find(s, "=") - 1), SubSeq(s, Find(s, "="), Len(s)))

\* nvlist_addstr() of a string that has a "=".
AddPair(s) ==
  Pair(SubSeq(s, 1, Find(s, "=") - 1), SubSeq(s, Find(s, "=") + 1, Len(s)))

\* Mutant of AddParameter: a name without a value ends the query.
AddParameterOrStop ==
  /\ place = "pairs" /\ unread # <<>>
  /\ LET piece == Head(unread)
         text == urldecode2(piece)
     IN  IF Find(piece, "=") = 0 \/ Find(text, "=") = 0
         THEN /\ res' = FOUND_QUERY
              /\ place' = "done"
              /\ UNCHANGED nvquery
         ELSE /\ nvquery' = Append(nvquery, AddPair(text))
              /\ UNCHANGED <<res, place>>
  /\ unread' = Tail(unread)
  /\ UNCHANGED <<uri, i, stage, doubleslash, pos, part>>

\* One round of the loop of parse_query(): a piece is decoded before it is
\* split, so the "=" it has may be gone, behind an encoded NUL.
AddParameter ==
  /\ place = "pairs" /\ unread # <<>>
  /\ LET piece == Head(unread)
         text == urldecode2(piece)
     IN  \/ /\ Find(piece, "=") = 0
            /\ nvquery' = Append(nvquery, Pair(text, <<>>))
            /\ UNCHANGED <<res, place>>
         \/ /\ Find(piece, "=") # 0 /\ Find(text, "=") # 0
            /\ nvquery' = Append(nvquery, AddPair(text))
            /\ UNCHANGED <<res, place>>
         \/ /\ Find(piece, "=") # 0 /\ Find(text, "=") = 0
            /\ res' = FOUND_QUERY
            /\ place' = "done"
            /\ UNCHANGED nvquery
  /\ unread' = Tail(unread)
  /\ UNCHANGED <<uri, i, stage, doubleslash, pos, part>>

AllParameters ==
  /\ place = "pairs" /\ unread = <<>>
  /\ place' = "done"
  /\ UNCHANGED <<uri, i, stage, doubleslash, pos, part, unread, nvquery, res>>

UriNext ==
  \/ FoundProto \/ FoundPart \/ SkipChar
  \/ MissingPart \/ CutParts \/ UriCrash
  \/ SplitQuery \/ AddParameter \/ AllParameters

UriSpec == UriInit /\ [][UriNext]_uriVars

-----------------------------------------------------------------------------
(* Properties *)

\* The section of the configuration that main() looks for.
Section ==
  part.authority \o (IF part.path = <<>> THEN <<>> ELSE <<"/">> \o part.path)

\* No part is copied with a negative length, and none from behind the end of
\* the uri, whatever the uri is: the loop keeps the positions in order although
\* it skips characters and moves positions behind the end (uriparse.c:94-233).
CopiesFit ==
  EndOfScan /\ pos[FOUND_PROTO] # -1 /\ AuthorityEnd # -1 =>
    /\ pos[FOUND_PROTO] + doubleslash + 1 <= Len(uri)
    /\ AuthorityLen >= 0
    /\ HasPath => PathLen \in 1..Len(uri)
    /\ pos[FOUND_QUERY] # -1 => QueryLen \in 0..Len(uri)
    /\ pos[FOUND_FRAGMENT] # -1 => FragmentLen \in 0..Len(uri)

\* The first delimiter of a uri is a colon.
FirstIsColon(s) ==
  \E c \in DOMAIN s : s[c] = ":" /\ \A k \in 1..c : s[k] \notin {"/", "?", "#"}

\* A piece whose "=" is behind an encoded NUL.
EqualIsLost(s) ==
  \E e \in DOMAIN s :
    /\ s[e] = "="
    /\ \E k \in 1..e - 1 :
         Decoded[s[k]] = "NUL" /\ \A n \in 1..k : Decoded[s[n]] # "="

\* The error tells what is missing: 1 when no colon comes before the other
\* delimiters, 2 when nothing comes behind it, 4 when a parameter lost its
\* equal sign, and never anything else (uriparse.c:172-176, 70-75).
UriErrors ==
  place = "done" =>
    res = CASE ~FirstIsColon(uri) -> FOUND_PROTO
            [] FirstIsColon(uri) /\ Find(uri, ":") = Len(uri) -> FOUND_AUTHORITY
            [] OTHER -> IF \E n \in DOMAIN Pieces(part.query, "&") :
                             EqualIsLost(Pieces(part.query, "&")[n])
                        THEN FOUND_QUERY ELSE 0

WrittenUri ==
  [d \in UriParts |->
     d.proto \o <<":">> \o d.slashes \o d.authority \o d.path \o d.query \o d.fragment]

Behind(s) == IF s = <<>> THEN <<>> ELSE Tail(s)

\* The parts without their delimiters.
Meant(d) ==
  [proto |-> d.proto, authority |-> d.authority, path |-> Behind(d.path),
   query |-> Behind(d.query), fragment |-> Behind(d.fragment)]

\* A uri as it is documented is cut into the parts it was put together from,
\* with or without slashes, whatever characters of the later delimiters a part
\* has (doc/README.txt; uriparse.c:94-233).
PartsAreMeant ==
  place \in {"split", "pairs", "done"} =>
    \A d \in UriParts : WrittenUri[d] = uri => part = Meant(d)

WrittenQuery ==
  [p \in QueryPairs |->
     FlattenSeq([n \in DOMAIN p |->
                   (IF n = 1 THEN <<>> ELSE <<"&">>) \o p[n].key \o <<"=">> \o p[n].value])]

\* Every parameter of a query reaches the list with its decoded name and value:
\* the "=" and "&" of a value, encoded or not, do not cut it
\* (uriparse.c:21-82, nvlist.c:27-45).
NamesAreMeant ==
  place = "done" =>
    \A p \in QueryPairs :
      WrittenQuery[p] = part.query =>
        nvquery = [n \in DOMAIN p |->
                     Pair(urldecode2(p[n].key), urldecode2(p[n].value))]

=============================================================================
