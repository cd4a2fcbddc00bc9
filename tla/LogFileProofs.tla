--------------------------- MODULE LogFileProofs ----------------------------
(***************************************************************************)
(* What the shortening of the log does, for every number of invocations,   *)
(* every log and every text: the types, what an undisturbed invocation     *)
(* reads back, and that all of it implements SharedLog.                    *)
(***************************************************************************)
EXTENDS LogFile, TLAPS

LOCAL INSTANCE SequenceTheorems

-----------------------------------------------------------------------------
(* Sequences of characters *)

\* What a stream writes of a text, and what it keeps, are texts.
LEMMA FullBlocks ==
  ASSUME NEW n \in Nat, NEW b \in Nat \ {0}
  PROVE  b * (n \div b) \in 0..n
<1>1. n \div b \in Nat /\ n % b \in Nat /\ n = b * (n \div b) + (n % b)
  OBVIOUS
<1>2. b * (n \div b) \in Nat
  BY <1>1
<1>3. QED
  BY <1>1, <1>2

\* A part of a text is a text.
LEMMA PartOfText ==
  ASSUME NEW t \in Seq(Char), NEW m \in Nat \ {0}, NEW n \in Int, n <= Len(t)
  PROVE  /\ SubSeq(t, m, n) \in Seq(Char)
         /\ Len(SubSeq(t, m, n)) = IF m <= n THEN n - m + 1 ELSE 0
         /\ \A i \in 1 .. n - m + 1 : SubSeq(t, m, n)[i] = t[m + i - 1]
<1>1. m \in Int /\ \A i \in m..n : t[i] \in Char
  BY DEF Char
<1>2. QED
  BY <1>1, SubSeqProperties

\* What fgetc() finds in the buffer of its stream.
LEMMA LoadedText ==
  ASSUME TypeOK, NEW p \in Proc
  PROVE  /\ Loaded(p) \in Seq(Char)
         /\ ahead[p] # <<>> => Loaded(p) = ahead[p]
         /\ ahead[p] = <<>> =>
              /\ Len(Loaded(p)) <= Block
              /\ offset[p] >= Len(log) => Loaded(p) = <<>>
              /\ offset[p] < Len(log) =>
                   /\ Loaded(p) # <<>>
                   /\ offset[p] + Len(Loaded(p)) <= Len(log)
                   /\ \A i \in 1..Len(Loaded(p)) :
                        Loaded(p)[i] = log[offset[p] + i]
<1> DEFINE last == IF offset[p] + Block < Len(log) THEN offset[p] + Block ELSE Len(log)
<1>1. /\ Block \in Nat \ {0} /\ log \in Seq(Char) /\ Len(log) \in Nat
      /\ offset[p] \in Nat /\ ahead[p] \in Seq(Char)
  BY LogAssumption DEF TypeOK
<1>2. last \in Int /\ last <= Len(log) /\ offset[p] + 1 \in Nat \ {0}
  BY <1>1
<1>3. /\ SubSeq(log, offset[p] + 1, last) \in Seq(Char)
      /\ Len(SubSeq(log, offset[p] + 1, last)) =
           IF offset[p] + 1 <= last THEN last - (offset[p] + 1) + 1 ELSE 0
      /\ \A i \in 1 .. last - (offset[p] + 1) + 1 :
           SubSeq(log, offset[p] + 1, last)[i] = log[(offset[p] + 1) + i - 1]
  BY <1>1, <1>2, PartOfText
<1>4. CASE ahead[p] # <<>>
  BY <1>1, <1>4 DEF Loaded
<1>5. CASE ahead[p] = <<>>
  <2>1. Loaded(p) = SubSeq(log, offset[p] + 1, last)
    BY <1>5 DEF Loaded
  <2> HIDE DEF last
  <2>2. Loaded(p) \in Seq(Char)
    BY <2>1, <1>3
  <2>3. CASE offset[p] >= Len(log)
    <3>1. last < offset[p] + 1
      BY <1>1, <1>2, <2>3
    <3>2. Loaded(p) = <<>> /\ Len(Loaded(p)) = 0
      BY <1>2, <2>1, <3>1, SubSeqEmpty
    <3>3. QED
      BY <1>1, <1>5, <2>2, <2>3, <3>2
  <2>4. CASE offset[p] < Len(log)
    <3>1. offset[p] + 1 <= last /\ last - offset[p] <= Block
      BY <1>1, <2>4 DEF last
    <3>2. Len(Loaded(p)) = last - offset[p]
      BY <1>1, <1>2, <1>3, <2>1, <3>1
    <3>3. Loaded(p) # <<>>
      BY <1>1, <1>2, <3>1, <3>2
    <3>4. ASSUME NEW i \in 1..Len(Loaded(p)) PROVE Loaded(p)[i] = log[offset[p] + i]
      BY <1>1, <1>2, <1>3, <2>1, <3>2
    <3>5. QED
      BY <1>1, <1>2, <1>5, <2>2, <2>4, <3>1, <3>2, <3>3, <3>4
  <2>5. QED
    BY <1>1, <2>3, <2>4
<1>6. QED
  BY <1>4, <1>5

-----------------------------------------------------------------------------
(* Types *)

\* A stream starts reading at the front of what it has not read, and has read
\* at least the characters of the header it has just seen.
Behind ==
  \A p \in Proc :
    /\ pc[p] \in {"write", "measured", "reopen"} => ahead[p] = <<>> /\ matched[p] = 0
    /\ matched[p] + Len(ahead[p]) <= offset[p]

\* What is logged are texts.
LEMMA LoggedText ==
  ASSUME TypeOK, NEW p \in Proc
  PROVE  /\ Chatter[p] \in Seq(Char)
         /\ Lines[p] \in Seq(Seq(Char))
         /\ logged[p] < Len(Lines[p]) => Lines[p][logged[p] + 1] \in Seq(Char)
         /\ buffer[p] \in Seq(Char)
<1>1. /\ Chatter[p] \in Seq(Char) /\ Lines[p] \in Seq(Seq(Char))
      /\ logged[p] \in Nat /\ buffer[p] \in Seq(Char)
  BY LogAssumption DEF TypeOK
<1>2. ASSUME logged[p] < Len(Lines[p]) PROVE Lines[p][logged[p] + 1] \in Seq(Char)
  <2>1. logged[p] + 1 \in 1..Len(Lines[p])
    BY <1>1, <1>2
  <2>2. QED
    BY <1>1, <2>1, ElementOfSeq
<1>3. QED
  BY <1>1, <1>2

\* A stream that writes text keeps the types.
LEMMA PutTypes ==
  ASSUME TypeOK, NEW p \in Proc, NEW text \in Seq(Char), NEW rest \in Seq(Char),
         Put(p, text, rest)
  PROVE  /\ log' \in Seq(Char)
         /\ buffer' \in [Proc -> Seq(Char)]
         /\ quiet' \in [Proc -> BOOLEAN]
<1>1. log' = log \o text /\ log \in Seq(Char)
  BY DEF Put, Appended, TypeOK
<1>2. log' \in Seq(Char)
  BY <1>1, ConcatProperties
<1>3. buffer' \in [Proc -> Seq(Char)]
  BY DEF Put, TypeOK
<1>4. quiet' \in [Proc -> BOOLEAN]
  BY DEF Put, Disturb, TypeOK
<1>5. QED
  BY <1>2, <1>3, <1>4

\* writelog() keeps the types.
LEMMA WriteLogTypes ==
  ASSUME TypeOK, NEW p \in Proc, WriteLog(p)
  PROVE  TypeOK'
<1> DEFINE text == buffer[p] \o Lines[p][logged[p] + 1]
           full == Block * (Len(text) \div Block)
<1>1. text \in Seq(Char) /\ Len(text) \in Nat
  <2>1. buffer[p] \in Seq(Char) /\ Lines[p][logged[p] + 1] \in Seq(Char)
    BY LoggedText DEF WriteLog
  <2>2. text \in Seq(Char)
    BY <2>1, ConcatProperties
  <2> HIDE DEF text
  <2>3. QED
    BY <2>2
<1>2. full \in 0..Len(text)
  BY <1>1, FullBlocks, LogAssumption
<1>3. Put(p, SubSeq(text, 1, full), SubSeq(text, full + 1, Len(text)))
  BY DEF WriteLog
<1> HIDE DEF text, full
<1>4. SubSeq(text, 1, full) \in Seq(Char) /\ SubSeq(text, full + 1, Len(text)) \in Seq(Char)
  <2>1. full \in Int /\ full + 1 \in Nat \ {0} /\ full <= Len(text) /\ Len(text) \in Int
    BY <1>1, <1>2
  <2>2. SubSeq(text, 1, full) \in Seq(Char)
    BY <1>1, <2>1, PartOfText
  <2>3. SubSeq(text, full + 1, Len(text)) \in Seq(Char)
    BY <1>1, <2>1, PartOfText
  <2>4. QED
    BY <2>2, <2>3
<1>5. /\ log' \in Seq(Char)
      /\ buffer' \in [Proc -> Seq(Char)]
      /\ quiet' \in [Proc -> BOOLEAN]
  BY <1>3, <1>4, PutTypes
<1>6. logged' \in [Proc -> Nat]
  BY DEF WriteLog, TypeOK
<1>7. UNCHANGED <<pc, reader, string, torn>>
  BY DEF WriteLog
<1>8. QED
  BY <1>5, <1>6, <1>7 DEF TypeOK, reader

\* Measuring the log and leaving keep the types.
LEMMA EndTypes ==
  ASSUME TypeOK, NEW p \in Proc, LeaveEarly(p) \/ Measure(p) \/ Leave(p)
  PROVE  TypeOK'
<1>1. buffer[p] \in Seq(Char) /\ Chatter[p] \in Seq(Char) /\ <<>> \in Seq(Char)
  BY LoggedText, EmptySeq
<1>2. /\ log' \in Seq(Char)
      /\ buffer' \in [Proc -> Seq(Char)]
      /\ quiet' \in [Proc -> BOOLEAN]
  <2>1. CASE Put(p, buffer[p], <<>>)
    BY <1>1, <2>1, PutTypes
  <2>2. CASE Put(p, buffer[p], Chatter[p])
    BY <1>1, <2>2, PutTypes
  <2>3. CASE UNCHANGED <<log, buffer, quiet>>
    BY <2>3 DEF TypeOK
  <2>4. QED
    BY <2>1, <2>2, <2>3 DEF LeaveEarly, Measure, Leave, Flush
<1>3. pc' \in [Proc -> Place]
  <2>1. \E place \in Place : Goto(p, place)
    BY DEF LeaveEarly, Measure, Leave, Place
  <2>2. QED
    BY <2>1 DEF Goto, TypeOK
<1>4. UNCHANGED <<logged, reader, string, torn>>
  BY DEF LeaveEarly, Measure, Leave
<1>5. QED
  BY <1>2, <1>3, <1>4 DEF TypeOK, reader

\* Opening the log for reading keeps the types.
LEMMA ReopenTypes ==
  ASSUME TypeOK, NEW p \in Proc, Reopen(p)
  PROVE  /\ TypeOK'
         /\ offset'[p] <= Len(log') /\ newlen'[p] = Keep
         /\ offset'[p] = SearchStart'
         /\ Len(log') - offset'[p] <= Keep
<1>1. /\ log \in Seq(Char) /\ buffer[p] \in Seq(Char) /\ log' = log \o buffer[p]
      /\ Keep \in Nat /\ offset \in [Proc -> Nat] /\ newlen \in [Proc -> Int]
  BY LogAssumption DEF Reopen, Appended, Keep, TypeOK
<1>2. log' \in Seq(Char) /\ Len(log') \in Nat
  BY <1>1, ConcatProperties
<1>3. /\ offset' = [offset EXCEPT ![p] =
                     IF Len(log') >= Keep THEN Len(log') - Keep ELSE 0]
      /\ newlen' = [newlen EXCEPT ![p] = Keep]
  BY DEF Reopen
<1>4. /\ offset' \in [Proc -> Nat] /\ newlen' \in [Proc -> Int]
      /\ offset'[p] = (IF Len(log') >= Keep THEN Len(log') - Keep ELSE 0)
      /\ newlen'[p] = Keep
  BY <1>1, <1>2, <1>3
<1>5. offset'[p] = SearchStart'
  BY <1>4 DEF SearchStart, Keep
<1>6. offset'[p] <= Len(log') /\ Len(log') - offset'[p] <= Keep
  BY <1>1, <1>2, <1>4
<1>7. buffer' \in [Proc -> Seq(Char)] /\ quiet' \in [Proc -> BOOLEAN]
  BY EmptySeq DEF Reopen, TypeOK
<1>8. pc' \in [Proc -> Place]
  BY DEF Reopen, Goto, Place, TypeOK
<1>9. QED
  BY <1>2, <1>4, <1>5, <1>6, <1>7, <1>8 DEF Reopen, TypeOK

\* The two values of newlen, and the character fgetc() returns.
LEMMA NextCharacter ==
  ASSUME TypeOK, NEW p \in Proc
  PROVE  /\ Loaded(p) = <<>> => NextChar(p) = EndOfFile
         /\ Loaded(p) # <<>> => /\ Len(Loaded(p)) >= 1
                                /\ NextChar(p) = Loaded(p)[1]
                                /\ NextChar(p) \in Char
                                /\ Tail(Loaded(p)) \in Seq(Char)
                                /\ Len(Tail(Loaded(p))) = Len(Loaded(p)) - 1
                                /\ \A i \in 1..Len(Tail(Loaded(p))) :
                                     Tail(Loaded(p))[i] = Loaded(p)[i + 1]
<1>1. Loaded(p) \in Seq(Char)
  BY LoadedText
<1>2. CASE Loaded(p) = <<>>
  BY <1>2 DEF NextChar
<1>3. CASE Loaded(p) # <<>>
  <2>1. NextChar(p) = Head(Loaded(p))
    BY <1>3 DEF NextChar
  <2> DEFINE l == Loaded(p)
  <2>2. l \in Seq(Char) /\ l # <<>>
    BY <1>1, <1>3
  <2> HIDE DEF l
  <2>3. /\ Head(l) \in Char /\ Tail(l) \in Seq(Char) /\ Len(Tail(l)) = Len(l) - 1
        /\ \A i \in 1..Len(Tail(l)) : Tail(l)[i] = l[i + 1]
    BY <2>2, HeadTailProperties
  <2>4. Len(l) >= 1 /\ Head(l) = l[1]
    BY <2>2
  <2>5. QED
    BY <1>3, <2>1, <2>3, <2>4 DEF l
<1>4. QED
  BY <1>2, <1>3

\* One fgetc() moves the position by one, and by none at the end of the file.
LEMMA AdvanceTypes ==
  ASSUME TypeOK, Behind, NEW p \in Proc, Advance(p), At(p, "scan")
  PROVE  /\ ahead' \in [Proc -> Seq(Char)] /\ offset' \in [Proc -> Nat]
         /\ \A q \in Proc : q # p => ahead'[q] = ahead[q] /\ offset'[q] = offset[q]
         /\ ahead'[p] = IF Loaded(p) = <<>> THEN <<>> ELSE Tail(Loaded(p))
         /\ offset'[p] = IF ahead[p] # <<>> THEN offset[p] ELSE offset[p] + Len(Loaded(p))
         /\ offset'[p] - Len(ahead'[p]) =
              Position(p) + (IF Loaded(p) = <<>> THEN 0 ELSE 1)
<1>1. /\ ahead \in [Proc -> Seq(Char)] /\ offset \in [Proc -> Nat]
      /\ ahead[p] \in Seq(Char) /\ offset[p] \in Nat
  BY DEF TypeOK
<1>2. Loaded(p) \in Seq(Char) /\ Len(Loaded(p)) \in Nat
  BY LoadedText
<1>3. (IF Loaded(p) = <<>> THEN <<>> ELSE Tail(Loaded(p))) \in Seq(Char)
  BY NextCharacter, EmptySeq
<1>4. /\ ahead'[p] = IF Loaded(p) = <<>> THEN <<>> ELSE Tail(Loaded(p))
      /\ offset'[p] = IF ahead[p] # <<>> THEN offset[p] ELSE offset[p] + Len(Loaded(p))
  BY <1>1 DEF Advance
<1>5. /\ ahead' \in [Proc -> Seq(Char)] /\ offset' \in [Proc -> Nat]
      /\ \A q \in Proc : q # p => ahead'[q] = ahead[q] /\ offset'[q] = offset[q]
  BY <1>1, <1>2, <1>3 DEF Advance
<1>6. Position(p) = offset[p] - Len(ahead[p])
  BY DEF Position
<1>7. CASE Loaded(p) = <<>>
  <2>1. ahead[p] = <<>>
    BY <1>7, LoadedText
  <2>2. Len(Loaded(p)) = 0 /\ Len(ahead[p]) = 0 /\ Len(ahead'[p]) = 0
    BY <1>4, <1>7, <2>1
  <2>3. QED
    BY <1>1, <1>4, <1>5, <1>6, <1>7, <2>2
<1>8. CASE Loaded(p) # <<>>
  <2>1. Len(ahead'[p]) = Len(Loaded(p)) - 1
    BY <1>4, <1>8, NextCharacter
  <2>2. CASE ahead[p] # <<>>
    BY <1>1, <1>2, <1>4, <1>5, <1>6, <1>8, <2>1, <2>2, LoadedText
  <2>3. CASE ahead[p] = <<>>
    <3>1. Len(ahead[p]) = 0
      BY <2>3
    <3>2. QED
      BY <1>1, <1>2, <1>4, <1>5, <1>6, <1>8, <2>1, <2>3, <3>1
  <2>4. QED
    BY <2>2, <2>3
<1>9. QED
  BY <1>7, <1>8

\* Searching keeps the types, and the stream at or behind what it has matched.
LEMMA ScanTypes ==
  ASSUME TypeOK, Behind, NEW p \in Proc, Scan(p)
  PROVE  /\ TypeOK'
         /\ matched'[p] + Len(ahead'[p]) <= offset'[p]
         /\ matched'[p] = (IF NextChar(p) = Header[matched[p] + 1] THEN matched[p] + 1 ELSE 0)
         /\ newlen'[p] = (IF matched[p] = 0 THEN Down(newlen[p]) ELSE newlen[p])
<1>1. /\ matched \in [Proc -> 0..3] /\ newlen \in [Proc -> Int]
      /\ offset[p] \in Nat /\ ahead[p] \in Seq(Char) /\ Loaded(p) \in Seq(Char)
  BY LoadedText DEF TypeOK
<1>2. Header[1] = "=" /\ Header[2] = "=" /\ Header[3] = "=" /\ Header[4] = ">"
  BY DEF Header
<1>3. NextChar(p) = Header[matched[p] + 1] => matched[p] + 1 \in 0..3
  <2>1. CASE matched[p] = 3
    <3>1. Header[matched[p] + 1] = ">"
      BY <1>2, <2>1
    <3>2. NextChar(p) # ">"
      BY <2>1 DEF Scan
    <3>3. QED
      BY <3>1, <3>2
  <2>2. CASE matched[p] # 3
    BY <1>1, <2>2
  <2>3. QED
    BY <2>1, <2>2
<1>4. /\ matched' = [matched EXCEPT ![p] =
                      IF NextChar(p) = Header[matched[p] + 1] THEN matched[p] + 1 ELSE 0]
      /\ newlen' = [newlen EXCEPT ![p] =
                      IF matched[p] = 0 THEN Down(newlen[p]) ELSE newlen[p]]
  BY DEF Scan
<1>5. matched' \in [Proc -> 0..3]
  BY <1>1, <1>3, <1>4
<1>6. newlen' \in [Proc -> Int]
  BY <1>1, <1>4 DEF Down, Floor
<1>7. /\ matched'[p] = (IF NextChar(p) = Header[matched[p] + 1] THEN matched[p] + 1 ELSE 0)
      /\ newlen'[p] = (IF matched[p] = 0 THEN Down(newlen[p]) ELSE newlen[p])
  BY <1>1, <1>4
<1>8. /\ ahead' \in [Proc -> Seq(Char)] /\ offset' \in [Proc -> Nat]
      /\ offset'[p] - Len(ahead'[p]) =
              Position(p) + (IF Loaded(p) = <<>> THEN 0 ELSE 1)
  BY AdvanceTypes DEF Scan
<1>9. matched[p] + Len(ahead[p]) <= offset[p]
  BY DEF Behind
<1>10. NextChar(p) = Header[matched[p] + 1] => Loaded(p) # <<>>
  <2>1. ASSUME Loaded(p) = <<>> PROVE NextChar(p) # Header[matched[p] + 1]
    <3>1. NextChar(p) = "eof"
      BY <2>1, NextCharacter DEF EndOfFile
    <3>2. matched[p] + 1 \in {1, 2, 3, 4}
      BY <1>1
    <3>3. Header[matched[p] + 1] \in {"=", ">"}
      BY <1>2, <3>2
    <3>4. QED
      BY <3>1, <3>3
  <2>2. QED
    BY <2>1
<1>11. matched'[p] + Len(ahead'[p]) <= offset'[p]
  <2>1. Len(ahead'[p]) \in Nat /\ Len(ahead[p]) \in Nat /\ offset'[p] \in Nat
    BY <1>1, <1>8
  <2>2. matched[p] \in Nat /\ matched'[p] \in Nat
    BY <1>1, <1>5
  <2>3. \/ matched'[p] = 0
        \/ matched'[p] = matched[p] + 1 /\ Loaded(p) # <<>>
    BY <1>7, <1>10
  <2>4. /\ Loaded(p) # <<>> => offset'[p] - Len(ahead'[p]) = offset[p] - Len(ahead[p]) + 1
        /\ offset'[p] - Len(ahead'[p]) >= offset[p] - Len(ahead[p])
    BY <1>1, <1>8, <2>1 DEF Position
  <2>5. CASE matched'[p] = 0
    BY <1>1, <1>9, <2>1, <2>2, <2>4, <2>5
  <2>6. CASE matched'[p] = matched[p] + 1 /\ Loaded(p) # <<>>
    <3>1. offset'[p] - Len(ahead'[p]) = offset[p] - Len(ahead[p]) + 1
      BY <2>4, <2>6
    <3>2. matched'[p] = matched[p] + 1 /\ offset[p] \in Nat
      BY <1>1, <2>6
    <3>3. QED
      BY <1>9, <2>1, <2>2, <3>1, <3>2
  <2>7. QED
    BY <2>3, <2>5, <2>6
<1>12. UNCHANGED <<log, pc, logged, buffer, string, quiet, torn>>
  BY DEF Scan
<1>13. QED
  BY <1>5, <1>6, <1>7, <1>8, <1>11, <1>12 DEF TypeOK

\* Finding a header goes back to its second character, and counts it again.
LEMMA HeaderFoundTypes ==
  ASSUME TypeOK, Behind, NEW p \in Proc, HeaderFound(p)
  PROVE  /\ TypeOK'
         /\ Loaded(p) # <<>> /\ Loaded(p)[1] = ">"
         /\ offset'[p] = Position(p) - 2 /\ ahead'[p] = <<>> /\ matched'[p] = 0
         /\ newlen'[p] = newlen[p] + 3
<1>1. /\ matched \in [Proc -> 0..3] /\ newlen \in [Proc -> Int]
      /\ offset \in [Proc -> Nat] /\ ahead \in [Proc -> Seq(Char)]
      /\ offset[p] \in Nat /\ ahead[p] \in Seq(Char) /\ Len(ahead[p]) \in Nat
      /\ newlen[p] \in Int
  BY DEF TypeOK
<1>2. NextChar(p) = ">" /\ matched[p] = 3
  BY DEF HeaderFound
<1>3. Loaded(p) # <<>> /\ Loaded(p) \in Seq(Char) /\ Len(Loaded(p)) \in Nat
  <2>1. NextChar(p) # EndOfFile
    BY <1>2 DEF EndOfFile
  <2>2. QED
    BY <2>1, NextCharacter, LoadedText
<1>4. Len(Tail(Loaded(p))) = Len(Loaded(p)) - 1 /\ Loaded(p)[1] = ">"
  BY <1>2, <1>3, NextCharacter
<1>5. 3 + Len(ahead[p]) <= offset[p]
  BY <1>2 DEF Behind
<1> DEFINE read == IF ahead[p] # <<>> THEN offset[p] ELSE offset[p] + Len(Loaded(p))
<1>6. read - Len(Tail(Loaded(p))) = Position(p) + 1
  <2>1. CASE ahead[p] # <<>>
    BY <1>1, <1>4, <2>1, LoadedText DEF Position
  <2>2. CASE ahead[p] = <<>>
    <3>1. Len(ahead[p]) = 0
      BY <2>2
    <3>2. QED
      BY <1>1, <1>3, <1>4, <2>2, <3>1 DEF Position
  <2>3. QED
    BY <2>1, <2>2
<1>7. read \in Nat /\ Len(Tail(Loaded(p))) \in Int
  BY <1>1, <1>3, <1>4
<1>8. offset' = [offset EXCEPT ![p] = read - Len(Tail(Loaded(p))) - 3]
  BY DEF HeaderFound
<1> HIDE DEF read
<1>9. read - Len(Tail(Loaded(p))) - 3 = Position(p) - 2 /\ Position(p) - 2 \in Nat
  BY <1>1, <1>5, <1>6, <1>7 DEF Position
<1>10. offset' \in [Proc -> Nat] /\ offset'[p] = Position(p) - 2
  BY <1>1, <1>8, <1>9
<1>11. /\ ahead' \in [Proc -> Seq(Char)] /\ ahead'[p] = <<>>
       /\ matched' \in [Proc -> 0..3] /\ matched'[p] = 0
       /\ newlen' \in [Proc -> Int] /\ newlen'[p] = newlen[p] + 3
  BY <1>1, EmptySeq DEF HeaderFound
<1>12. pc' \in [Proc -> Place]
  BY DEF HeaderFound, Goto, TypeOK, Place
<1>13. UNCHANGED <<log, logged, buffer, string, quiet, torn>>
  BY DEF HeaderFound
<1>14. QED
  BY <1>3, <1>4, <1>10, <1>11, <1>12, <1>13 DEF TypeOK

\* Memory that was never set is a text.
LEMMA JunkText ==
  ASSUME NEW n \in Nat, NEW junk \in Junk(n)
  PROVE  /\ junk \in Seq(Char) /\ Len(junk) <= n
         /\ \A i \in 1..Len(junk) : junk[i] = "?"
<1>1. PICK k \in 0..n : junk = [i \in 1..k |-> "?"]
  BY DEF Junk
<1>2. "?" \in Char
  BY DEF Char
<1>3. junk \in [1..k -> Char] /\ k \in Nat
  BY <1>1, <1>2
<1>4. junk \in Seq(Char)
  BY <1>3, SeqDef
<1>5. Len(junk) = k
  BY <1>1, <1>3, <1>4, LenProperties
<1>6. QED
  BY <1>1, <1>4, <1>5

\* What is read back is a text: all of the file behind the first '=' of the
\* header, up to newlen - 3 characters.
LEMMA ReadBackTypes ==
  ASSUME TypeOK, NEW p \in Proc, ReadBack(p)
  PROVE  /\ TypeOK'
         /\ pc'[p] = "truncate" /\ newlen[p] - 3 >= 0 =>
              /\ Len(string'[p]) <= newlen[p] - 3
              /\ Len(Rest(p)) <= newlen[p] - 3 =>
                   /\ Len(Rest(p)) <= Len(string'[p])
                   /\ \A i \in 1..Len(string'[p]) :
                        string'[p][i] = IF i <= Len(Rest(p)) THEN Rest(p)[i] ELSE "?"
<1> DEFINE n == newlen[p] - 3
           rest == Rest(p)
<1>1. /\ log \in Seq(Char) /\ Len(log) \in Nat /\ offset[p] \in Nat /\ newlen[p] \in Int
      /\ string \in [Proc -> Seq(Char)] /\ pc \in [Proc -> Place]
  BY DEF TypeOK
<1>2. rest \in Seq(Char) /\ n \in Int
  <2>1. SubSeq(log, offset[p] + 1, Len(log)) \in Seq(Char)
    <3>1. offset[p] + 1 \in Nat \ {0} /\ Len(log) \in Int
      BY <1>1
    <3>2. QED
      BY <1>1, <3>1, PartOfText
  <2>2. QED
    BY <1>1, <2>1 DEF Rest
<1>3. UNCHANGED <<log, logged, buffer, reader, quiet, torn>>
  BY DEF ReadBack
<1>4. pc' \in [Proc -> Place]
  <2>1. Goto(p, "done") \/ Goto(p, "truncate")
    BY DEF ReadBack
  <2>2. QED
    BY <1>1, <2>1 DEF Goto, Place
<1>5. SUFFICES string' \in [Proc -> Seq(Char)]
               /\ (pc'[p] = "truncate" /\ n >= 0 =>
                    /\ Len(string'[p]) <= n
                    /\ Len(rest) <= n =>
                         /\ Len(rest) <= Len(string'[p])
                         /\ \A i \in 1..Len(string'[p]) :
                              string'[p][i] = IF i <= Len(rest) THEN rest[i] ELSE "?")
  BY <1>3, <1>4, <1>5 DEF TypeOK, reader
<1>6. \/ Goto(p, "done") /\ UNCHANGED string
      \/ n < 0 /\ string' = [string EXCEPT ![p] = rest]
      \/ n >= 0 /\ Len(rest) >= n /\ string' = [string EXCEPT ![p] = SubSeq(rest, 1, n)]
      \/ /\ n >= 0 /\ Len(rest) < n
         /\ \E junk \in Junk(n - Len(rest)) : string' = [string EXCEPT ![p] = rest \o junk]
  BY DEF ReadBack
<1> HIDE DEF n, rest
<1>7. CASE Goto(p, "done") /\ UNCHANGED string
  BY <1>1, <1>7 DEF Goto
<1>8. CASE n < 0 /\ string' = [string EXCEPT ![p] = rest]
  BY <1>1, <1>2, <1>8
<1>9. CASE n >= 0 /\ Len(rest) >= n /\ string' = [string EXCEPT ![p] = SubSeq(rest, 1, n)]
  <2>1. 1 \in Nat \ {0} /\ n \in Int /\ n <= Len(rest)
    BY <1>2, <1>9
  <2>2. /\ SubSeq(rest, 1, n) \in Seq(Char)
        /\ Len(SubSeq(rest, 1, n)) = IF 1 <= n THEN n - 1 + 1 ELSE 0
        /\ \A i \in 1 .. n - 1 + 1 : SubSeq(rest, 1, n)[i] = rest[1 + i - 1]
    BY <1>2, <2>1, PartOfText
  <2>3. string'[p] = SubSeq(rest, 1, n) /\ string' \in [Proc -> Seq(Char)]
    BY <1>1, <1>9, <2>2
  <2>4. Len(string'[p]) = n /\ \A i \in 1..n : string'[p][i] = rest[i]
    BY <1>2, <1>9, <2>2, <2>3
  <2>5. QED
    BY <1>2, <1>9, <2>3, <2>4
<1>10. CASE /\ n >= 0 /\ Len(rest) < n
            /\ \E junk \in Junk(n - Len(rest)) : string' = [string EXCEPT ![p] = rest \o junk]
  <2>1. PICK junk \in Junk(n - Len(rest)) : string' = [string EXCEPT ![p] = rest \o junk]
    BY <1>10
  <2>2. n - Len(rest) \in Nat /\ Len(rest) \in Nat
    BY <1>2, <1>10
  <2>3. /\ junk \in Seq(Char) /\ Len(junk) <= n - Len(rest)
        /\ \A i \in 1..Len(junk) : junk[i] = "?"
    BY <2>2, JunkText
  <2>4. /\ rest \o junk \in Seq(Char)
        /\ Len(rest \o junk) = Len(rest) + Len(junk)
        /\ \A i \in 1 .. Len(rest) + Len(junk) : (rest \o junk)[i] =
                     IF i <= Len(rest) THEN rest[i] ELSE junk[i - Len(rest)]
    BY <1>2, <2>3, ConcatProperties
  <2>5. string'[p] = rest \o junk /\ string' \in [Proc -> Seq(Char)]
    BY <1>1, <2>1, <2>4
  <2>6. Len(junk) \in Nat /\ Len(string'[p]) = Len(rest) + Len(junk)
    BY <2>3, <2>4, <2>5
  <2>7. ASSUME NEW i \in 1..Len(string'[p])
        PROVE  string'[p][i] = IF i <= Len(rest) THEN rest[i] ELSE "?"
    <3>1. CASE i <= Len(rest)
      BY <2>2, <2>4, <2>5, <2>6, <3>1
    <3>2. CASE ~(i <= Len(rest))
      <4>1. i - Len(rest) \in 1..Len(junk)
        BY <2>2, <2>6, <3>2
      <4>2. QED
        BY <2>2, <2>3, <2>4, <2>5, <2>6, <3>2, <4>1
    <3>3. QED
      BY <3>1, <3>2
  <2>8. QED
    BY <1>2, <2>2, <2>3, <2>5, <2>6, <2>7
<1>11. QED
  BY <1>6, <1>7, <1>8, <1>9, <1>10

\* Truncating, filling and being killed keep the types.
LEMMA RewriteTypes ==
  ASSUME TypeOK, NEW p \in Proc, Truncate(p) \/ Fill(p) \/ Kill(p)
  PROVE  TypeOK'
<1>1. log \in Seq(Char) /\ string[p] \in Seq(Char) /\ Len(string[p]) \in Nat
  BY DEF TypeOK
<1>2. log' \in Seq(Char)
  <2>1. CASE Truncate(p)
    BY <2>1, EmptySeq DEF Truncate
  <2>2. CASE Fill(p)
    <3>1. Len(string[p]) + 1 \in Nat \ {0} /\ Len(log) \in Int
      BY <1>1
    <3>2. SubSeq(log, Len(string[p]) + 1, Len(log)) \in Seq(Char)
      BY <1>1, <3>1, PartOfText
    <3>3. QED
      BY <1>1, <2>2, <3>2, ConcatProperties DEF Fill
  <2>3. CASE Kill(p)
    BY <1>1, <2>3 DEF Kill
  <2>4. QED
    BY <2>1, <2>2, <2>3
<1>3. pc' \in [Proc -> Place]
  BY DEF Truncate, Fill, Kill, Goto, Place, TypeOK
<1>4. quiet' \in [Proc -> BOOLEAN] /\ torn' \in BOOLEAN
  BY DEF Truncate, Fill, Kill, Disturb, TypeOK
<1>5. UNCHANGED <<logged, buffer, reader, string>>
  BY DEF Truncate, Fill, Kill
<1>6. QED
  BY <1>2, <1>3, <1>4, <1>5 DEF TypeOK, reader

\* Every step keeps the types.
LEMMA StepTypes ==
  ASSUME TypeOK, Behind, NEW p \in Proc, Step(p) \/ Kill(p)
  PROVE  TypeOK'
<1>1. CASE WriteLog(p)
  BY <1>1, WriteLogTypes
<1>2. CASE LeaveEarly(p) \/ Measure(p) \/ Leave(p)
  BY <1>2, EndTypes
<1>3. CASE Reopen(p)
  BY <1>3, ReopenTypes
<1>4. CASE Scan(p)
  BY <1>4, ScanTypes
<1>5. CASE HeaderFound(p)
  BY <1>5, HeaderFoundTypes
<1>6. CASE ReadBack(p)
  BY <1>6, ReadBackTypes
<1>7. CASE Truncate(p) \/ Fill(p) \/ Kill(p)
  BY <1>7, RewriteTypes
<1>8. QED
  BY <1>1, <1>2, <1>3, <1>4, <1>5, <1>6, <1>7 DEF Step

-----------------------------------------------------------------------------
(* What the steps of an invocation leave alone *)

\* A step of one invocation does not touch what another one keeps, and the file
\* only if it makes the others know that they are disturbed.
LEMMA Elsewhere ==
  ASSUME TypeOK, NEW q \in Proc, NEW p \in Proc, p # q, Step(q) \/ Kill(q)
  PROVE  /\ pc'[p] = pc[p] /\ offset'[p] = offset[p] /\ ahead'[p] = ahead[p]
         /\ matched'[p] = matched[p] /\ newlen'[p] = newlen[p] /\ string'[p] = string[p]
         /\ quiet'[p] => quiet[p] /\ log' = log
<1>1. /\ pc \in [Proc -> Place] /\ offset \in [Proc -> Nat] /\ ahead \in [Proc -> Seq(Char)]
      /\ matched \in [Proc -> 0..3] /\ newlen \in [Proc -> Int]
      /\ string \in [Proc -> Seq(Char)] /\ quiet \in [Proc -> BOOLEAN] /\ log \in Seq(Char)
  BY DEF TypeOK
<1>2. ASSUME NEW text, NEW rest, Put(q, text, rest)
      PROVE  quiet'[p] => quiet[p] /\ log' = log
  <2>1. CASE text = <<>>
    <3>1. log' = log
      BY <1>1, <1>2, <2>1, ConcatEmptySeq DEF Put, Appended
    <3>2. quiet' = quiet
      BY <1>2, <2>1 DEF Put
    <3>3. QED
      BY <3>1, <3>2
  <2>2. CASE text # <<>>
    BY <1>2, <2>2 DEF Put, Disturb
  <2>3. QED
    BY <2>1, <2>2
<1>3. CASE WriteLog(q)
  BY <1>2, <1>3 DEF WriteLog, reader
<1>4. CASE LeaveEarly(q) \/ Leave(q)
  BY <1>1, <1>2, <1>4 DEF LeaveEarly, Leave, Flush, Goto, reader
<1>5. CASE Measure(q)
  <2>1. quiet'[p] => quiet[p] /\ log' = log
    BY <1>2, <1>5 DEF Measure
  <2>2. QED
    BY <1>1, <1>5, <2>1 DEF Measure, Goto, reader
<1>6. CASE Reopen(q)
  <2>1. quiet'[p] => buffer[q] = <<>> /\ quiet[p]
    BY <1>6 DEF Reopen
  <2>2. buffer[q] = <<>> => log' = log
    BY <1>1, <1>6, ConcatEmptySeq DEF Reopen, Appended
  <2>3. QED
    BY <1>1, <1>6, <2>1, <2>2 DEF Reopen, Goto
<1>7. CASE Scan(q)
  BY <1>1, <1>7 DEF Scan, Advance
<1>8. CASE HeaderFound(q)
  BY <1>1, <1>8 DEF HeaderFound, Goto
<1>9. CASE ReadBack(q)
  BY <1>1, <1>9 DEF ReadBack, Goto, reader
<1>10. CASE Truncate(q) \/ Fill(q)
  BY <1>1, <1>10 DEF Truncate, Fill, Disturb, Goto, reader
<1>11. CASE Kill(q)
  BY <1>1, <1>11 DEF Kill, Goto, reader
<1>12. QED
  BY <1>3, <1>4, <1>5, <1>6, <1>7, <1>8, <1>9, <1>10, <1>11 DEF Step

\* Where an invocation goes, by its own steps.
LEMMA OwnPlace ==
  ASSUME TypeOK, NEW p \in Proc, Step(p) \/ Kill(p)
  PROVE  /\ WriteLog(p) => pc'[p] = "write"
         /\ LeaveEarly(p) \/ Leave(p) \/ Fill(p) \/ Kill(p) => pc'[p] = "done"
         /\ Measure(p) => pc'[p] \in {"measured", "reopen", "done"}
         /\ Reopen(p) => pc'[p] = "scan"
         /\ Scan(p) => pc'[p] = "scan"
         /\ HeaderFound(p) => pc'[p] = "read"
         /\ ReadBack(p) => pc'[p] \in {"truncate", "done"}
         /\ Truncate(p) => pc'[p] = "fill"
<1>1. pc \in [Proc -> Place]
  BY DEF TypeOK
<1>2. ASSUME NEW place \in Place, Goto(p, place) PROVE pc'[p] = place
  BY <1>1, <1>2 DEF Goto
<1>3. /\ "measured" \in Place /\ "reopen" \in Place /\ "done" \in Place /\ "scan" \in Place
      /\ "read" \in Place /\ "truncate" \in Place /\ "fill" \in Place
  BY DEF Place
<1>4. WriteLog(p) => pc'[p] = "write"
  BY DEF WriteLog, At
<1>5. LeaveEarly(p) \/ Leave(p) \/ Fill(p) \/ Kill(p) => pc'[p] = "done"
  BY <1>2, <1>3 DEF LeaveEarly, Leave, Fill, Kill
<1>6. Measure(p) => pc'[p] \in {"measured", "reopen", "done"}
  BY <1>2, <1>3 DEF Measure
<1>7. Reopen(p) => pc'[p] = "scan"
  BY <1>2, <1>3 DEF Reopen
<1>8. Scan(p) => pc'[p] = "scan"
  BY DEF Scan, At
<1>9. HeaderFound(p) => pc'[p] = "read"
  BY <1>2, <1>3 DEF HeaderFound
<1>10. ReadBack(p) => pc'[p] \in {"truncate", "done"}
  BY <1>2, <1>3 DEF ReadBack
<1>11. Truncate(p) => pc'[p] = "fill"
  BY <1>2, <1>3 DEF Truncate
<1>12. QED
  BY <1>4, <1>5, <1>6, <1>7, <1>8, <1>9, <1>10, <1>11

\* The reading stream stays in order.
LEMMA StepBehind ==
  ASSUME TypeOK, Behind, NEW q \in Proc, Step(q) \/ Kill(q)
  PROVE  Behind'
<1> SUFFICES ASSUME NEW p \in Proc
    PROVE  /\ pc'[p] \in {"write", "measured", "reopen"} => ahead'[p] = <<>> /\ matched'[p] = 0
           /\ matched'[p] + Len(ahead'[p]) <= offset'[p]
  BY DEF Behind
<1>1. /\ pc[p] \in {"write", "measured", "reopen"} => ahead[p] = <<>> /\ matched[p] = 0
      /\ matched[p] + Len(ahead[p]) <= offset[p]
      /\ offset[p] \in Nat
  BY DEF Behind, TypeOK
<1>2. CASE p # q
  BY <1>1, <1>2, Elsewhere
<1>3. CASE p = q /\ ~Reopen(p) /\ ~Scan(p) /\ ~HeaderFound(p)
  <2>1. UNCHANGED reader
    BY <1>3 DEF Step, WriteLog, LeaveEarly, Measure, Leave, ReadBack, Truncate, Fill, Kill
  <2>2. pc'[p] \in {"write", "measured", "reopen"} => pc[p] = "write"
    <3>1. CASE WriteLog(p) \/ Measure(p)
      BY <3>1 DEF WriteLog, Measure, At
    <3>2. CASE ~(WriteLog(p) \/ Measure(p))
      BY <1>3, <3>2, OwnPlace DEF Step
    <3>3. QED
      BY <3>1, <3>2
  <2>3. QED
    BY <1>1, <2>1, <2>2 DEF reader
<1>4. CASE p = q /\ Reopen(p)
  <2>1. UNCHANGED <<ahead, matched>> /\ pc'[p] = "scan" /\ pc[p] = "reopen"
    BY <1>4, OwnPlace DEF Reopen, At
  <2>2. matched'[p] = 0 /\ Len(ahead'[p]) = 0
    BY <1>1, <2>1
  <2>3. offset'[p] \in Nat
    BY <1>4, ReopenTypes DEF TypeOK
  <2>4. QED
    BY <2>1, <2>2, <2>3
<1>5. CASE p = q /\ Scan(p)
  <2>1. pc'[p] = "scan"
    BY <1>5, OwnPlace
  <2>2. QED
    BY <1>5, <2>1, ScanTypes
<1>6. CASE p = q /\ HeaderFound(p)
  <2>1. pc'[p] = "read"
    BY <1>6, OwnPlace
  <2>2. matched'[p] = 0 /\ ahead'[p] = <<>> /\ offset'[p] \in Nat
    BY <1>6, HeaderFoundTypes DEF TypeOK
  <2>3. QED
    BY <2>1, <2>2
<1>7. QED
  BY <1>2, <1>3, <1>4, <1>5, <1>6

\* The initial state has the types.
LEMMA InitTypes ==
  ASSUME Init
  PROVE  TypeOK /\ Behind
<1> DEFINE none == <<>>
<1>1. none \in Seq(Char) /\ Len(none) = 0
  BY EmptySeq
<1>2. /\ log \in Old /\ pc = [p \in Proc |-> "write"] /\ logged = [p \in Proc |-> 0]
      /\ buffer = [p \in Proc |-> none] /\ offset = [p \in Proc |-> 0]
      /\ ahead = [p \in Proc |-> none] /\ matched = [p \in Proc |-> 0]
      /\ newlen = [p \in Proc |-> 0] /\ string = [p \in Proc |-> none]
      /\ quiet = [p \in Proc |-> TRUE] /\ torn = FALSE
  BY DEF Init
<1> HIDE DEF none
<1>3. log \in Seq(Char)
  BY <1>2, LogAssumption
<1>4. TypeOK
  <2>1. pc \in [Proc -> Place] /\ logged \in [Proc -> Nat]
    BY <1>2 DEF Place
  <2>2. buffer \in [Proc -> Seq(Char)] /\ ahead \in [Proc -> Seq(Char)]
    BY <1>1, <1>2
  <2>3. string \in [Proc -> Seq(Char)]
    BY <1>1, <1>2
  <2>4. offset \in [Proc -> Nat] /\ matched \in [Proc -> 0..3] /\ newlen \in [Proc -> Int]
    BY <1>2
  <2>5. quiet \in [Proc -> BOOLEAN] /\ torn \in BOOLEAN
    BY <1>2
  <2>6. QED
    BY <1>3, <2>1, <2>2, <2>3, <2>4, <2>5 DEF TypeOK
<1>5. none = <<>>
  BY DEF none
<1>6. Behind
  <2>1. \A p \in Proc : ahead[p] = none /\ matched[p] = 0 /\ offset[p] = 0
    BY <1>2
  <2>2. ASSUME NEW p \in Proc PROVE matched[p] + Len(ahead[p]) <= offset[p]
    <3>1. ahead[p] = none /\ matched[p] = 0 /\ offset[p] = 0
      BY <2>1
    <3>2. Len(ahead[p]) = 0
      BY <1>1, <3>1, Zenon
    <3>3. QED
      BY <3>1, <3>2
  <2>3. \A p \in Proc : ahead[p] = <<>> /\ matched[p] = 0
    BY <1>5, <2>1, Zenon
  <2>4. QED
    BY <2>2, <2>3 DEF Behind
<1>7. QED
  BY <1>4, <1>6

\* All of the variables of the log keep their types, whatever the invocations
\* log and however they interleave (ph.c:128-146, 709-741, 1273-1338).
THEOREM TypeCorrect == Spec => []TypeOK
<1>1. Init => TypeOK /\ Behind
  BY InitTypes
<1>2. TypeOK /\ Behind /\ [Next]_vars => TypeOK' /\ Behind'
  <2> SUFFICES ASSUME TypeOK, Behind, [Next]_vars
      PROVE  TypeOK' /\ Behind'
    OBVIOUS
  <2>1. CASE UNCHANGED vars
    BY <2>1 DEF TypeOK, Behind, vars, reader
  <2>2. CASE \E p \in Proc : Step(p) \/ Kill(p)
    BY <2>2, StepTypes, StepBehind
  <2>3. QED
    BY <2>1, <2>2 DEF Next, Terminated
<1>3. QED
  BY <1>1, <1>2, PTL DEF Spec

-----------------------------------------------------------------------------
(* What an undisturbed invocation finds and reads back *)

\* What is known of an undisturbed search: newlen is at least what lies ahead
\* of it, the characters it has matched and those in its buffer are those of
\* the file, and it has passed no entry but the one in which it is.
Sought(p) ==
  pc[p] = "scan" =>
    /\ newlen[p] <= Keep
    /\ matched[p] > 0 => newlen[p] < Keep
    /\ quiet[p] =>
         /\ offset[p] <= Len(log)
         /\ \A i \in 1..Len(ahead[p]) : ahead[p][i] = log[Position(p) + i]
         /\ \A j \in 1..matched[p] : log[Position(p) - matched[p] + j] = Header[j]
         /\ \/ Position(p) = Len(log)
            \/ Len(log) - Position(p) + (IF matched[p] = 0 THEN 0 ELSE matched[p] - 1)
                 <= newlen[p]
         /\ \A i \in SearchStart..Len(log) :
              EntryAt(i) => Position(p) <= i \/ Position(p) = i + 1 + matched[p]

\* What is known of an undisturbed search that has found a header.
Found(p) ==
  pc[p] = "read" =>
    /\ newlen[p] - 3 <= Keep
    /\ quiet[p] =>
         /\ HeaderAt(offset[p])
         /\ Len(log) - offset[p] <= newlen[p] - 3
         /\ \A i \in SearchStart..(offset[p] - 3) : ~EntryAt(i)

\* What is known of what it has read back: the two properties.
Kept(p) ==
  pc[p] = "truncate" /\ quiet[p] =>
    /\ \E k \in 1..Len(log) :
         /\ HeaderAt(k)
         /\ Len(log) - k <= Len(string[p])
         /\ \A i \in 1..Len(string[p]) :
              string[p][i] = IF k + i <= Len(log) THEN log[k + i] ELSE "?"
         /\ \A i \in SearchStart..(k - 3) : ~EntryAt(i)
    /\ Len(string[p]) <= Keep

LogInv == \A p \in Proc : Sought(p) /\ Found(p) /\ Kept(p)

\* A header is four characters of the file, and an entry a header behind a line
\* break.
LEMMA EntryCharacters ==
  ASSUME NEW i \in Nat, EntryAt(i), Len(log) \in Nat
  PROVE  /\ i + 5 <= Len(log)
         /\ log[i + 1] = "n" /\ log[i + 2] = "=" /\ log[i + 3] = "="
         /\ log[i + 4] = "=" /\ log[i + 5] = ">"
<1>1. HeaderAt(i + 2) /\ log[i + 1] = "n"
  BY DEF EntryAt
<1>2. i + 2 <= Len(log) - 3
  BY <1>1 DEF HeaderAt
<1>3. \A j \in 1..4 : log[(i + 2) + j - 1] = Header[j]
  BY <1>1 DEF HeaderAt
<1>4. /\ log[(i + 2) + 1 - 1] = Header[1] /\ log[(i + 2) + 2 - 1] = Header[2]
      /\ log[(i + 2) + 3 - 1] = Header[3] /\ log[(i + 2) + 4 - 1] = Header[4]
  BY <1>3
<1>5. /\ (i + 2) + 1 - 1 = i + 2 /\ (i + 2) + 2 - 1 = i + 3
      /\ (i + 2) + 3 - 1 = i + 4 /\ (i + 2) + 4 - 1 = i + 5
  OBVIOUS
<1>6. Header[1] = "=" /\ Header[2] = "=" /\ Header[3] = "=" /\ Header[4] = ">"
  BY DEF Header
<1>7. QED
  BY <1>1, <1>2, <1>4, <1>5, <1>6

\* The next character of an undisturbed search is the one at its position.
LEMMA NextIsInFile ==
  ASSUME TypeOK, Behind, NEW p \in Proc, Sought(p), At(p, "scan"), quiet[p]
  PROVE  /\ Position(p) \in 0..Len(log)
         /\ Loaded(p) = <<>> <=> Position(p) = Len(log)
         /\ Loaded(p) # <<>> =>
              /\ NextChar(p) = log[Position(p) + 1]
              /\ Position(p) + Len(Loaded(p)) <= Len(log)
              /\ \A i \in 1..Len(Loaded(p)) : Loaded(p)[i] = log[Position(p) + i]
<1>1. /\ offset[p] \in Nat /\ Len(log) \in Nat /\ ahead[p] \in Seq(Char)
      /\ Len(ahead[p]) \in Nat /\ matched[p] \in Nat
      /\ Loaded(p) \in Seq(Char) /\ Len(Loaded(p)) \in Nat
  <2>1. /\ offset[p] \in Nat /\ log \in Seq(Char) /\ ahead[p] \in Seq(Char)
        /\ matched[p] \in 0..3
    BY DEF TypeOK
  <2>2. Loaded(p) \in Seq(Char)
    BY LoadedText
  <2>3. QED
    BY <2>1, <2>2
<1>2. /\ offset[p] <= Len(log)
      /\ \A i \in 1..Len(ahead[p]) : ahead[p][i] = log[Position(p) + i]
  BY DEF Sought, At
<1>3. Position(p) = offset[p] - Len(ahead[p]) /\ matched[p] + Len(ahead[p]) <= offset[p]
  BY DEF Position, Behind
<1>4. Position(p) \in 0..Len(log)
  BY <1>1, <1>2, <1>3
<1>5. CASE ahead[p] # <<>>
  <2>1. Loaded(p) = ahead[p]
    BY <1>5, LoadedText
  <2>2. Len(ahead[p]) >= 1
    BY <1>1, <1>5
  <2>3. NextChar(p) = ahead[p][1]
    BY <1>5, <2>1, NextCharacter
  <2>4. ahead[p][1] = log[Position(p) + 1]
    BY <1>1, <1>2, <2>2
  <2>5. QED
    BY <1>1, <1>2, <1>3, <1>4, <1>5, <2>1, <2>2, <2>3, <2>4
<1>6. CASE ahead[p] = <<>>
  <2>1. Position(p) = offset[p]
    <3>1. Len(ahead[p]) = 0
      BY <1>6
    <3>2. QED
      BY <1>1, <1>3, <3>1
  <2>2. CASE offset[p] >= Len(log)
    BY <1>1, <1>2, <1>4, <1>6, <2>1, <2>2, LoadedText
  <2>3. CASE offset[p] < Len(log)
    <3>1. /\ Loaded(p) # <<>>
          /\ offset[p] + Len(Loaded(p)) <= Len(log)
          /\ \A i \in 1..Len(Loaded(p)) : Loaded(p)[i] = log[offset[p] + i]
      BY <1>6, <2>3, LoadedText
    <3>2. NextChar(p) = Loaded(p)[1] /\ Len(Loaded(p)) >= 1
      BY <3>1, NextCharacter
    <3>3. QED
      BY <1>1, <1>4, <2>1, <2>3, <3>1, <3>2
  <2>4. QED
    BY <1>1, <2>2, <2>3
<1>7. QED
  BY <1>4, <1>5, <1>6

\* What is said of the file stays true as long as the file stays the same.
LEMMA SameLog ==
  ASSUME log' = log
  PROVE  /\ SearchStart' = SearchStart
         /\ \A i : HeaderAt(i)' <=> HeaderAt(i)
         /\ \A i : EntryAt(i)' <=> EntryAt(i)
BY DEF SearchStart, HeaderAt, EntryAt

\* Everything that is known of an invocation stays true while the others run.
LEMMA ElsewhereInv ==
  ASSUME TypeOK, NEW q \in Proc, NEW p \in Proc, p # q, Step(q) \/ Kill(q),
         Sought(p), Found(p), Kept(p)
  PROVE  Sought(p)' /\ Found(p)' /\ Kept(p)'
<1>1. /\ pc'[p] = pc[p] /\ offset'[p] = offset[p] /\ ahead'[p] = ahead[p]
      /\ matched'[p] = matched[p] /\ newlen'[p] = newlen[p] /\ string'[p] = string[p]
      /\ quiet'[p] => quiet[p] /\ log' = log
  BY Elsewhere
<1>2. Position(p)' = Position(p)
  BY <1>1 DEF Position
<1>3. CASE ~quiet'[p]
  BY <1>1, <1>3 DEF Sought, Found, Kept
<1>4. CASE quiet'[p]
  <2>1. quiet[p] /\ log' = log
    BY <1>1, <1>4
  <2>2. /\ SearchStart' = SearchStart
        /\ \A i : HeaderAt(i)' <=> HeaderAt(i)
        /\ \A i : EntryAt(i)' <=> EntryAt(i)
    BY <2>1, SameLog
  <2>3. Sought(p)'
    BY <1>1, <1>2, <2>1, <2>2 DEF Sought
  <2>4. Found(p)'
    BY <1>1, <2>1, <2>2 DEF Found
  <2>5. Kept(p)'
    BY <1>1, <2>1, <2>2 DEF Kept
  <2>6. QED
    BY <2>3, <2>4, <2>5
<1>5. QED
  BY <1>3, <1>4

\* Opening the file for reading begins a search.
LEMMA ReopenInv ==
  ASSUME TypeOK, Behind, NEW p \in Proc, Reopen(p)
  PROVE  Sought(p)' /\ Found(p)' /\ Kept(p)'
<1>1. pc'[p] = "scan" /\ pc[p] = "reopen"
  BY OwnPlace DEF Reopen, At, Step
<1>2. /\ TypeOK' /\ offset'[p] <= Len(log') /\ newlen'[p] = Keep
      /\ offset'[p] = SearchStart' /\ Len(log') - offset'[p] <= Keep
  BY ReopenTypes
<1>3. ahead'[p] = <<>> /\ matched'[p] = 0
  BY <1>1 DEF Reopen, Behind
<1>4. Len(ahead'[p]) = 0 /\ offset'[p] \in Nat /\ Len(log') \in Nat /\ Keep \in Int
  BY <1>2, <1>3, LogAssumption DEF TypeOK, Keep
<1>5. Position(p)' = SearchStart' /\ Position(p)' = offset'[p]
  BY <1>2, <1>4 DEF Position
<1>6. \A i \in (SearchStart')..Len(log') : Position(p)' <= i
  BY <1>5
<1>7. \A i \in 1..Len(ahead'[p]) : ahead'[p][i] = log'[Position(p)' + i]
  BY <1>4
<1>8. \A j \in 1..matched'[p] : log'[Position(p)' - matched'[p] + j] = Header[j]
  BY <1>3
<1>9. Len(log') - Position(p)' + 0 <= newlen'[p]
  BY <1>2, <1>4, <1>5
<1>10. Sought(p)'
  <2>1. newlen'[p] <= Keep /\ ~(matched'[p] > 0)
    BY <1>2, <1>3, <1>4
  <2>2. QED
    BY <1>2, <1>3, <1>6, <1>7, <1>8, <1>9, <2>1 DEF Sought
<1>11. QED
  BY <1>1, <1>10 DEF Found, Kept

\* The characters of a header.
LEMMA HeaderCharacters ==
  /\ Header[1] = "=" /\ Header[2] = "=" /\ Header[3] = "=" /\ Header[4] = ">"
  /\ \A m \in 0..3 : Header[m + 1] \in {"=", ">"}
<1>1. Header[1] = "=" /\ Header[2] = "=" /\ Header[3] = "=" /\ Header[4] = ">"
  BY DEF Header
<1>2. ASSUME NEW m \in 0..3 PROVE Header[m + 1] \in {"=", ">"}
  <2>1. m + 1 = 1 \/ m + 1 = 2 \/ m + 1 = 3 \/ m + 1 = 4
    OBVIOUS
  <2>2. QED
    BY <1>1, <2>1
<1>3. QED
  BY <1>1, <1>2

\* A search that comes to the end of the file has passed no entry.
LEMMA EndOfSearch ==
  ASSUME TypeOK, Behind, NEW p \in Proc, Sought(p), At(p, "scan"), quiet[p],
         Loaded(p) = <<>>
  PROVE  \A i \in SearchStart..Len(log) : ~EntryAt(i)
<1> SUFFICES ASSUME NEW i \in SearchStart..Len(log), EntryAt(i) PROVE FALSE
  OBVIOUS
<1>1. Position(p) = Len(log) /\ Len(log) \in Nat /\ matched[p] \in 0..3
  BY NextIsInFile DEF TypeOK
<1>2. SearchStart \in Nat
  BY <1>1, LogAssumption DEF SearchStart, Keep
<1>3. i \in Nat
  BY <1>1, <1>2
<1>4. i + 5 <= Len(log)
  BY <1>1, <1>3, EntryCharacters
<1>5. Position(p) <= i \/ Position(p) = i + 1 + matched[p]
  BY DEF Sought, At
<1>6. QED
  BY <1>1, <1>3, <1>4, <1>5

\* A search that has read one more character has passed no entry but the one in
\* which it is.
LEMMA PassedEntries ==
  ASSUME TypeOK, Behind, NEW p \in Proc, Sought(p), Scan(p), quiet[p],
         Loaded(p) # <<>>, NEW i \in SearchStart..Len(log), EntryAt(i)
  PROVE  Position(p)' <= i \/ Position(p)' = i + 1 + matched'[p]
<1>1. Len(log) \in Nat /\ matched[p] \in 0..3 /\ At(p, "scan")
  BY DEF TypeOK, Scan
<1>2. SearchStart \in Nat
  BY <1>1, LogAssumption DEF SearchStart, Keep
<1>3. i \in Nat
  BY <1>1, <1>2
<1>4. /\ i + 5 <= Len(log)
      /\ log[i + 1] = "n" /\ log[i + 2] = "=" /\ log[i + 3] = "="
      /\ log[i + 4] = "=" /\ log[i + 5] = ">"
  BY <1>1, <1>3, EntryCharacters
<1>5. Position(p) <= i \/ Position(p) = i + 1 + matched[p]
  BY <1>1 DEF Sought, At
<1>6. NextChar(p) = log[Position(p) + 1] /\ Position(p) \in 0..Len(log)
  BY <1>1, NextIsInFile
<1>7. Position(p)' = Position(p) + 1
  <2>1. offset'[p] - Len(ahead'[p]) = Position(p) + 1
    BY <1>1, AdvanceTypes DEF Scan
  <2>2. QED
    BY <2>1 DEF Position
<1>8. matched'[p] = (IF NextChar(p) = Header[matched[p] + 1] THEN matched[p] + 1 ELSE 0)
  BY ScanTypes
<1>9. CASE Position(p) < i
  BY <1>3, <1>6, <1>7, <1>9
<1>10. CASE Position(p) = i
  <2>1. NextChar(p) = "n"
    BY <1>4, <1>6, <1>10
  <2>2. matched'[p] = 0
    BY <1>1, <1>8, <2>1, HeaderCharacters
  <2>3. QED
    BY <1>3, <1>7, <1>10, <2>2
<1>11. CASE Position(p) = i + 1 + matched[p]
  <2>1. NextChar(p) = log[i + 2 + matched[p]]
    <3>1. Position(p) + 1 = i + 2 + matched[p]
      BY <1>1, <1>3, <1>11
    <3>2. QED
      BY <1>6, <3>1
  <2>2. NextChar(p) = Header[matched[p] + 1]
    <3>1. CASE matched[p] = 0
      BY <1>3, <1>4, <2>1, <3>1, HeaderCharacters
    <3>2. CASE matched[p] = 1
      BY <1>3, <1>4, <2>1, <3>2, HeaderCharacters
    <3>3. CASE matched[p] = 2
      BY <1>3, <1>4, <2>1, <3>3, HeaderCharacters
    <3>4. CASE matched[p] = 3
      BY <1>3, <1>4, <2>1, <3>4, HeaderCharacters
    <3>5. QED
      BY <1>1, <3>1, <3>2, <3>3, <3>4
  <2>3. matched'[p] = matched[p] + 1
    BY <1>8, <2>2
  <2>4. QED
    BY <1>1, <1>3, <1>7, <1>11, <2>3
<1>12. QED
  BY <1>3, <1>5, <1>6, <1>9, <1>10, <1>11

\* One more character of a search.
LEMMA ScanInv ==
  ASSUME TypeOK, Behind, NEW p \in Proc, Sought(p), Scan(p)
  PROVE  Sought(p)' /\ Found(p)' /\ Kept(p)'
<1>1. /\ pc'[p] = "scan" /\ At(p, "scan") /\ pc[p] = "scan"
      /\ log' = log /\ quiet' = quiet /\ Advance(p)
  BY OwnPlace DEF Scan, At, Step
<1>2. /\ matched'[p] = (IF NextChar(p) = Header[matched[p] + 1] THEN matched[p] + 1 ELSE 0)
      /\ newlen'[p] = (IF matched[p] = 0 THEN Down(newlen[p]) ELSE newlen[p])
      /\ TypeOK'
  BY ScanTypes
<1>3. /\ matched[p] \in 0..3 /\ matched'[p] \in 0..3 /\ newlen[p] \in Int /\ Len(log) \in Nat
      /\ offset[p] \in Nat /\ Len(ahead[p]) \in Nat
      /\ offset'[p] \in Nat /\ Len(ahead'[p]) \in Nat /\ Keep \in Nat /\ Keep > 0
  BY <1>2, LogAssumption DEF TypeOK, Keep
<1>4. newlen'[p] <= Keep /\ (matched'[p] > 0 => newlen'[p] < Keep)
  <2>1. newlen[p] <= Keep /\ (matched[p] > 0 => newlen[p] < Keep)
    BY <1>1 DEF Sought
  <2>2. Down(newlen[p]) \in Int /\ Down(newlen[p]) < Keep
    BY <1>3, <2>1 DEF Down, Floor
  <2>3. QED
    BY <1>2, <1>3, <2>1, <2>2
<1>5. ASSUME quiet[p]
      PROVE  /\ offset'[p] <= Len(log)
             /\ \A i \in 1..Len(ahead'[p]) : ahead'[p][i] = log[Position(p)' + i]
             /\ \A j \in 1..matched'[p] : log[Position(p)' - matched'[p] + j] = Header[j]
             /\ \/ Position(p)' = Len(log)
                \/ Len(log) - Position(p)' + (IF matched'[p] = 0 THEN 0 ELSE matched'[p] - 1)
                     <= newlen'[p]
             /\ \A i \in SearchStart..Len(log) :
                  EntryAt(i) => Position(p)' <= i \/ Position(p)' = i + 1 + matched'[p]
  <2>1. /\ offset[p] <= Len(log)
        /\ \A i \in 1..Len(ahead[p]) : ahead[p][i] = log[Position(p) + i]
        /\ \A j \in 1..matched[p] : log[Position(p) - matched[p] + j] = Header[j]
        /\ \/ Position(p) = Len(log)
           \/ Len(log) - Position(p) + (IF matched[p] = 0 THEN 0 ELSE matched[p] - 1)
                <= newlen[p]
    BY <1>1, <1>5 DEF Sought
  <2>2. /\ ahead'[p] = IF Loaded(p) = <<>> THEN <<>> ELSE Tail(Loaded(p))
        /\ offset'[p] = IF ahead[p] # <<>> THEN offset[p] ELSE offset[p] + Len(Loaded(p))
        /\ offset'[p] - Len(ahead'[p]) = Position(p) + (IF Loaded(p) = <<>> THEN 0 ELSE 1)
    BY <1>1, AdvanceTypes
  <2>3. Position(p)' = offset'[p] - Len(ahead'[p])
    BY DEF Position
  <2>4. /\ Position(p) \in 0..Len(log)
        /\ Loaded(p) = <<>> <=> Position(p) = Len(log)
        /\ Loaded(p) # <<>> =>
             /\ NextChar(p) = log[Position(p) + 1]
             /\ Position(p) + Len(Loaded(p)) <= Len(log)
             /\ \A i \in 1..Len(Loaded(p)) : Loaded(p)[i] = log[Position(p) + i]
    BY <1>1, <1>5, NextIsInFile
  <2>5. CASE Loaded(p) = <<>>
    <3>1. Position(p)' = Len(log) /\ Len(ahead'[p]) = 0 /\ offset'[p] = Len(log)
      <4>1. Len(ahead'[p]) = 0
        BY <2>2, <2>5
      <4>2. QED
        BY <1>3, <2>2, <2>3, <2>4, <2>5, <4>1
    <3>2. matched'[p] = 0
      <4>1. NextChar(p) = "eof"
        BY <2>5, NextCharacter DEF EndOfFile
      <4>2. NextChar(p) # Header[matched[p] + 1]
        BY <1>3, <4>1, HeaderCharacters
      <4>3. QED
        BY <1>2, <4>2
    <3>3. \A i \in SearchStart..Len(log) : ~EntryAt(i)
      BY <1>1, <1>5, <2>5, EndOfSearch
    <3>4. QED
      BY <1>3, <3>1, <3>2, <3>3
  <2>6. CASE Loaded(p) # <<>>
    <3>1. Position(p)' = Position(p) + 1
      BY <2>2, <2>3, <2>6
    <3>2. /\ Len(Loaded(p)) \in Nat /\ Len(ahead'[p]) = Len(Loaded(p)) - 1
          /\ \A i \in 1..Len(ahead'[p]) : ahead'[p][i] = Loaded(p)[i + 1]
      <4>1. Loaded(p) \in Seq(Char) /\ ahead'[p] = Tail(Loaded(p))
        BY <2>2, <2>6, LoadedText
      <4>2. Len(Loaded(p)) \in Nat
        BY <4>1
      <4>3. QED
        BY <2>6, <4>1, <4>2, NextCharacter
    <3>3. ASSUME NEW i \in 1..Len(ahead'[p]) PROVE ahead'[p][i] = log[Position(p)' + i]
      <4>1. i + 1 \in 1..Len(Loaded(p)) /\ i \in Nat
        BY <3>2
      <4>2. ahead'[p][i] = log[Position(p) + (i + 1)]
        BY <2>4, <2>6, <3>2, <4>1
      <4>3. Position(p) + (i + 1) = Position(p)' + i
        BY <2>4, <3>1, <4>1
      <4>4. QED
        BY <4>2, <4>3
    <3>4. ASSUME NEW j \in 1..matched'[p]
          PROVE  log[Position(p)' - matched'[p] + j] = Header[j]
      <4>1. matched'[p] = matched[p] + 1 /\ NextChar(p) = Header[matched[p] + 1]
        BY <1>2, <1>3, <3>4
      <4>2. Position(p)' - matched'[p] + j = Position(p) - matched[p] + j
        BY <1>3, <2>4, <3>1, <4>1
      <4>3. CASE j \in 1..matched[p]
        BY <2>1, <4>2, <4>3
      <4>4. CASE j = matched[p] + 1
        <5>1. Position(p) - matched[p] + j = Position(p) + 1
          BY <1>3, <2>4, <4>4
        <5>2. QED
          BY <2>4, <2>6, <4>1, <4>2, <4>4, <5>1
      <4>5. QED
        BY <1>3, <4>1, <4>3, <4>4
    <3>5. Len(log) - Position(p)' + (IF matched'[p] = 0 THEN 0 ELSE matched'[p] - 1)
            <= newlen'[p]
      <4>1. Len(log) - Position(p) >= 1
        BY <1>3, <2>4, <2>6
      <4>2. Len(log) - Position(p) + (IF matched[p] = 0 THEN 0 ELSE matched[p] - 1)
              <= newlen[p]
        BY <1>3, <2>1, <4>1
      <4>3. newlen[p] >= 1 => Down(newlen[p]) = newlen[p] - 1
        BY <1>3 DEF Down, Floor
      <4>4. QED
        BY <1>2, <1>3, <2>4, <3>1, <4>1, <4>2, <4>3
    <3>6. offset'[p] <= Len(log)
      BY <1>3, <2>3, <2>4, <2>6, <3>1, <3>2
    <3>7. \A i \in SearchStart..Len(log) :
            EntryAt(i) => Position(p)' <= i \/ Position(p)' = i + 1 + matched'[p]
      BY <1>5, <2>6, PassedEntries
    <3>8. QED
      BY <3>3, <3>4, <3>5, <3>6, <3>7
  <2>7. QED
    BY <2>5, <2>6
<1>6. /\ SearchStart' = SearchStart
      /\ \A i : EntryAt(i)' <=> EntryAt(i)
  BY <1>1, SameLog
<1>7. Sought(p)'
  <2>1. CASE ~quiet[p]
    BY <1>1, <1>4, <2>1 DEF Sought
  <2>2. CASE quiet[p]
    BY <1>1, <1>4, <1>5, <1>6, <2>2 DEF Sought
  <2>3. QED
    BY <2>1, <2>2
<1>8. QED
  BY <1>1, <1>7 DEF Found, Kept

\* The header that is found is the first one behind the start of the search, and
\* newlen counts at least what is left of the file.
LEMMA HeaderFoundInv ==
  ASSUME TypeOK, Behind, NEW p \in Proc, Sought(p), HeaderFound(p)
  PROVE  Sought(p)' /\ Found(p)' /\ Kept(p)'
<1>1. /\ pc'[p] = "read" /\ At(p, "scan") /\ pc[p] = "scan" /\ matched[p] = 3
      /\ log' = log /\ quiet' = quiet /\ NextChar(p) = ">"
  BY OwnPlace DEF HeaderFound, At, Step
<1>2. /\ Loaded(p) # <<>> /\ offset'[p] = Position(p) - 2 /\ newlen'[p] = newlen[p] + 3
  BY HeaderFoundTypes
<1>3. /\ newlen[p] \in Int /\ Len(log) \in Nat /\ Keep \in Nat
      /\ offset[p] \in Nat /\ Len(ahead[p]) \in Nat
  BY LogAssumption DEF TypeOK, Keep
<1>4. newlen[p] < Keep
  BY <1>1 DEF Sought
<1>5. ASSUME quiet[p]
      PROVE  /\ HeaderAt(offset'[p])
             /\ Len(log) - offset'[p] <= newlen'[p] - 3
             /\ \A i \in SearchStart..(offset'[p] - 3) : ~EntryAt(i)
  <2>1. /\ \A j \in 1..3 : log[Position(p) - 3 + j] = Header[j]
        /\ Position(p) = Len(log) \/ Len(log) - Position(p) + (3 - 1) <= newlen[p]
        /\ \A i \in SearchStart..Len(log) :
             EntryAt(i) => Position(p) <= i \/ Position(p) = i + 1 + 3
    BY <1>1, <1>5 DEF Sought
  <2>2. /\ Position(p) \in 0..Len(log) /\ Position(p) # Len(log)
        /\ log[Position(p) + 1] = ">"
    BY <1>1, <1>2, <1>5, NextIsInFile
  <2>3. Position(p) >= 3
    BY <1>1, <1>3 DEF Behind, Position
  <2>4. offset'[p] \in 1..(Len(log) - 3)
    BY <1>2, <1>3, <2>2, <2>3
  <2>5. ASSUME NEW j \in 1..4 PROVE log[offset'[p] + j - 1] = Header[j]
    <3>1. CASE j \in 1..3
      <4>1. offset'[p] + j - 1 = Position(p) - 3 + j
        BY <1>2, <2>2, <3>1
      <4>2. QED
        BY <2>1, <3>1, <4>1
    <3>2. CASE j = 4
      <4>1. offset'[p] + j - 1 = Position(p) + 1
        BY <1>2, <2>2, <3>2
      <4>2. QED
        BY <2>2, <3>2, <4>1, HeaderCharacters
    <3>3. QED
      BY <3>1, <3>2
  <2>6. Len(log) - offset'[p] <= newlen'[p] - 3
    BY <1>2, <1>3, <2>1, <2>2
  <2>7. ASSUME NEW i \in SearchStart..(offset'[p] - 3) PROVE ~EntryAt(i)
    <3>1. SearchStart \in Nat
      BY <1>3, LogAssumption DEF SearchStart, Keep
    <3>2. i \in SearchStart..Len(log) /\ i \in Nat
      BY <1>3, <2>4, <3>1
    <3>3. ~(Position(p) <= i) /\ Position(p) # i + 1 + 3
      BY <1>2, <2>2, <3>1, <3>2
    <3>4. QED
      BY <2>1, <3>2, <3>3
  <2>8. QED
    BY <2>4, <2>5, <2>6, <2>7 DEF HeaderAt
<1>6. /\ SearchStart' = SearchStart
      /\ \A i : HeaderAt(i)' <=> HeaderAt(i)
      /\ \A i : EntryAt(i)' <=> EntryAt(i)
  BY <1>1, SameLog
<1>7. HeaderAt(offset[p])' <=> HeaderAt(offset'[p])
  BY <1>1 DEF HeaderAt
<1>8. Found(p)'
  <2>1. newlen'[p] - 3 <= Keep
    BY <1>2, <1>3, <1>4
  <2>2. CASE ~quiet[p]
    BY <1>1, <2>1, <2>2 DEF Found
  <2>3. CASE quiet[p]
    BY <1>1, <1>5, <1>6, <1>7, <2>1, <2>3 DEF Found
  <2>4. QED
    BY <2>2, <2>3
<1>9. QED
  BY <1>1, <1>8 DEF Sought, Kept

\* What is read back behind a header is all that follows it.
LEMMA ReadBackInv ==
  ASSUME TypeOK, NEW p \in Proc, Found(p), ReadBack(p)
  PROVE  Sought(p)' /\ Found(p)' /\ Kept(p)'
<1>1. /\ pc'[p] \in {"truncate", "done"} /\ pc[p] = "read"
      /\ log' = log /\ quiet' = quiet /\ UNCHANGED reader
  BY OwnPlace DEF ReadBack, At, Step
<1>2. TypeOK'
  BY ReadBackTypes
<1>3. /\ newlen[p] \in Int /\ log \in Seq(Char) /\ Len(log) \in Nat /\ Keep \in Nat
      /\ offset[p] \in Nat /\ Len(string'[p]) \in Nat
  BY <1>2, LogAssumption DEF TypeOK, Keep
<1> DEFINE k == offset[p]
<1>4. ASSUME quiet[p], pc'[p] = "truncate"
      PROVE  /\ k \in 1..Len(log)
             /\ HeaderAt(k)
             /\ Len(log) - k <= Len(string'[p])
             /\ \A i \in 1..Len(string'[p]) :
                  string'[p][i] = IF k + i <= Len(log) THEN log[k + i] ELSE "?"
             /\ \A i \in SearchStart..(k - 3) : ~EntryAt(i)
             /\ Len(string'[p]) <= Keep
  <2>1. /\ newlen[p] - 3 <= Keep /\ HeaderAt(k)
        /\ Len(log) - k <= newlen[p] - 3
        /\ \A i \in SearchStart..(k - 3) : ~EntryAt(i)
    BY <1>1, <1>4 DEF Found
  <2>2. k \in 1..(Len(log) - 3)
    BY <2>1 DEF HeaderAt
  <2>3. /\ Len(Rest(p)) = Len(log) - k
        /\ \A i \in 1..(Len(log) - k) : Rest(p)[i] = log[k + i]
    <3>1. k + 1 \in Nat \ {0} /\ Len(log) \in Int /\ Len(log) <= Len(log)
      BY <1>3
    <3>2. /\ Len(SubSeq(log, k + 1, Len(log))) =
               IF k + 1 <= Len(log) THEN Len(log) - (k + 1) + 1 ELSE 0
          /\ \A i \in 1 .. Len(log) - (k + 1) + 1 :
               SubSeq(log, k + 1, Len(log))[i] = log[(k + 1) + i - 1]
      BY <1>3, <3>1, PartOfText
    <3>3. Rest(p) = SubSeq(log, k + 1, Len(log))
      BY DEF Rest
    <3>4. Len(Rest(p)) = Len(log) - k
      BY <1>3, <2>2, <3>2, <3>3
    <3>5. ASSUME NEW i \in 1..(Len(log) - k) PROVE Rest(p)[i] = log[k + i]
      <4>1. i \in 1 .. Len(log) - (k + 1) + 1 /\ (k + 1) + i - 1 = k + i
        BY <1>3
      <4>2. QED
        BY <3>2, <3>3, <4>1
    <3>6. QED
      BY <3>4, <3>5
  <2>4. newlen[p] - 3 >= 0 /\ Len(Rest(p)) <= newlen[p] - 3
    BY <1>3, <2>1, <2>2, <2>3
  <2>5. /\ Len(string'[p]) <= newlen[p] - 3
        /\ Len(Rest(p)) <= Len(string'[p])
        /\ \A i \in 1..Len(string'[p]) :
             string'[p][i] = IF i <= Len(Rest(p)) THEN Rest(p)[i] ELSE "?"
    BY <1>4, <2>4, ReadBackTypes
  <2>6. ASSUME NEW i \in 1..Len(string'[p])
        PROVE  string'[p][i] = IF k + i <= Len(log) THEN log[k + i] ELSE "?"
    <3>1. i <= Len(Rest(p)) <=> k + i <= Len(log)
      BY <1>3, <2>2, <2>3
    <3>2. CASE k + i <= Len(log)
      <4>1. i \in 1..(Len(log) - k)
        BY <1>3, <2>2, <3>2
      <4>2. QED
        BY <2>3, <2>5, <3>1, <3>2, <4>1
    <3>3. CASE ~(k + i <= Len(log))
      BY <2>5, <3>1, <3>3
    <3>4. QED
      BY <3>2, <3>3
  <2>7. Len(string'[p]) <= Keep
    BY <1>3, <2>1, <2>5
  <2>8. k \in 1..Len(log) /\ Len(log) - k <= Len(string'[p])
    BY <1>3, <2>2, <2>3, <2>5
  <2>9. QED
    BY <2>1, <2>6, <2>7, <2>8
<1>5. /\ SearchStart' = SearchStart
      /\ \A i : HeaderAt(i)' <=> HeaderAt(i)
      /\ \A i : EntryAt(i)' <=> EntryAt(i)
  BY <1>1, SameLog
<1> HIDE DEF k
<1>6. Kept(p)'
  <2>1. CASE ~(pc'[p] = "truncate" /\ quiet[p])
    BY <1>1, <2>1 DEF Kept
  <2>2. CASE pc'[p] = "truncate" /\ quiet[p]
    <3>1. \E h \in 1..Len(log) :
            /\ HeaderAt(h)
            /\ Len(log) - h <= Len(string'[p])
            /\ \A i \in 1..Len(string'[p]) :
                 string'[p][i] = IF h + i <= Len(log) THEN log[h + i] ELSE "?"
            /\ \A i \in SearchStart..(h - 3) : ~EntryAt(i)
      <4>1. k \in 1..Len(log)
        BY <1>4, <2>2
      <4>2. QED
        BY <1>4, <2>2, <4>1
    <3>2. QED
      BY <1>1, <1>4, <1>5, <2>2, <3>1 DEF Kept
  <2>3. QED
    BY <2>1, <2>2
<1>7. QED
  BY <1>1, <1>6 DEF Sought, Found

\* The steps that neither search nor read back.
LEMMA QuietSteps ==
  ASSUME TypeOK, NEW p \in Proc, Sought(p), Found(p), Kept(p),
         WriteLog(p) \/ LeaveEarly(p) \/ Measure(p) \/ Leave(p)
           \/ Truncate(p) \/ Fill(p) \/ Kill(p)
  PROVE  Sought(p)' /\ Found(p)' /\ Kept(p)'
<1>1. pc'[p] \in {"write", "measured", "reopen", "done", "fill"}
  BY OwnPlace DEF Step
<1>2. QED
  BY <1>1 DEF Sought, Found, Kept

\* Every step keeps what is known of the searches.
LEMMA StepInv ==
  ASSUME TypeOK, Behind, LogInv, NEW q \in Proc, Step(q) \/ Kill(q)
  PROVE  LogInv'
<1> SUFFICES ASSUME NEW p \in Proc PROVE Sought(p)' /\ Found(p)' /\ Kept(p)'
  BY DEF LogInv
<1>1. Sought(p) /\ Found(p) /\ Kept(p)
  BY DEF LogInv
<1>2. CASE p # q
  BY <1>1, <1>2, ElsewhereInv
<1>3. CASE p = q /\ Reopen(p)
  BY <1>3, ReopenInv
<1>4. CASE p = q /\ Scan(p)
  BY <1>1, <1>4, ScanInv
<1>5. CASE p = q /\ HeaderFound(p)
  BY <1>1, <1>5, HeaderFoundInv
<1>6. CASE p = q /\ ReadBack(p)
  BY <1>1, <1>6, ReadBackInv
<1>7. CASE p = q /\ (WriteLog(p) \/ LeaveEarly(p) \/ Measure(p) \/ Leave(p)
                       \/ Truncate(p) \/ Fill(p) \/ Kill(p))
  BY <1>1, <1>7, QuietSteps
<1>8. QED
  BY <1>2, <1>3, <1>4, <1>5, <1>6, <1>7 DEF Step

\* The invariant of the specification.
LEMMA LogInvariant == Spec => [](TypeOK /\ Behind /\ LogInv)
<1>1. Init => TypeOK /\ Behind /\ LogInv
  <2> SUFFICES ASSUME Init PROVE LogInv
    BY InitTypes
  <2>1. \A p \in Proc : pc[p] = "write"
    BY DEF Init
  <2>2. QED
    BY <2>1 DEF LogInv, Sought, Found, Kept
<1>2. TypeOK /\ Behind /\ LogInv /\ [Next]_vars => TypeOK' /\ Behind' /\ LogInv'
  <2> SUFFICES ASSUME TypeOK, Behind, LogInv, [Next]_vars
      PROVE  TypeOK' /\ Behind' /\ LogInv'
    OBVIOUS
  <2>1. CASE UNCHANGED vars
    <3>1. TypeOK' /\ Behind'
      BY <2>1 DEF TypeOK, Behind, vars, reader
    <3>2. log' = log
      BY <2>1 DEF vars
    <3>3. /\ SearchStart' = SearchStart
          /\ \A i : HeaderAt(i)' <=> HeaderAt(i)
          /\ \A i : EntryAt(i)' <=> EntryAt(i)
      BY <3>2, SameLog
    <3>4. \A p \in Proc : Sought(p)'
      BY <2>1, <3>3 DEF LogInv, Sought, Position, vars, reader
    <3>5. \A p \in Proc : Found(p)'
      BY <2>1, <3>3 DEF LogInv, Found, vars, reader
    <3>6. \A p \in Proc : Kept(p)'
      BY <2>1, <3>3 DEF LogInv, Kept, vars, reader
    <3>7. QED
      BY <3>1, <3>4, <3>5, <3>6 DEF LogInv
  <2>2. CASE \E p \in Proc : Step(p) \/ Kill(p)
    BY <2>2, StepTypes, StepBehind, StepInv
  <2>3. QED
    BY <2>1, <2>2 DEF Next, Terminated
<1>3. QED
  BY <1>1, <1>2, PTL DEF Spec

\* What an undisturbed invocation writes back is the end of the file from the
\* first header behind the start of its search on, less that header's first '=',
\* and nothing of the file is left out: the characters skipped behind every '=' only add memory that was
\* never set (ph.c:1294-1328).
THEOREM KeepsTheNewest == Spec => []KeptIsNewest
<1>1. LogInv => KeptIsNewest
  BY DEF LogInv, Kept, KeptIsNewest, At
<1>2. QED
  BY <1>1, LogInvariant, PTL

\* It is never longer than log_length - 1024 (ph.c:1294-1328).
THEOREM FitsAfterShortening == Spec => []FitsAfterwards
<1>1. LogInv => FitsAfterwards
  BY DEF LogInv, Kept, FitsAfterwards, At
<1>2. QED
  BY <1>1, LogInvariant, PTL

\* An undisturbed search stays in front of, or within, an entry that lies ahead.
LEMMA ScanAdvances ==
  ASSUME TypeOK, Behind, LogInv, NEW p \in Proc, Scan(p), quiet[p],
         NEW i \in SearchStart..Len(log), EntryAt(i)
  PROVE  Position(p)' = Position(p) + 1 /\ Position(p)' < Len(log)
<1>1. /\ pc'[p] = "scan" /\ At(p, "scan") /\ pc[p] = "scan"
      /\ log' = log /\ quiet' = quiet /\ Advance(p)
  BY OwnPlace DEF Scan, At, Step
<1>2. /\ matched[p] \in 0..3 /\ matched'[p] \in 0..3 /\ Len(log) \in Nat
      /\ offset'[p] \in Nat /\ Len(ahead'[p]) \in Nat
  <2>1. TypeOK'
    BY ScanTypes
  <2>2. matched[p] \in 0..3 /\ log \in Seq(Char)
    BY DEF TypeOK
  <2>3. matched'[p] \in 0..3 /\ offset'[p] \in Nat /\ ahead'[p] \in Seq(Char)
    BY <2>1 DEF TypeOK
  <2>4. QED
    BY <2>2, <2>3
<1>3. i \in Nat /\ i + 5 <= Len(log)
  <2>1. i \in Nat
    BY <1>2, LogAssumption DEF SearchStart, Keep
  <2>2. QED
    BY <1>2, <2>1, EntryCharacters
<1>4. Sought(p) /\ Sought(p)'
  BY ScanInv DEF LogInv
<1>5. Position(p) <= i \/ Position(p) = i + 1 + matched[p]
  BY <1>1, <1>4 DEF Sought
<1>6. SearchStart' = SearchStart /\ EntryAt(i)'
  BY <1>1, SameLog
<1>7. Position(p)' <= i \/ Position(p)' = i + 1 + matched'[p]
  BY <1>1, <1>4, <1>6 DEF Sought
<1>8. Position(p) \in 0..Len(log) /\ (Loaded(p) = <<>> <=> Position(p) = Len(log))
  BY <1>1, <1>4, NextIsInFile
<1>9. Loaded(p) # <<>>
  BY <1>2, <1>3, <1>5, <1>8
<1>10. offset'[p] - Len(ahead'[p]) = Position(p) + 1
  BY <1>1, <1>9, AdvanceTypes
<1>11. Position(p)' = Position(p) + 1
  BY <1>10 DEF Position
<1>12. QED
  BY <1>2, <1>3, <1>7, <1>8, <1>11

\* For any log, any entries and any other invocations, a search that nobody
\* disturbs ends within Keep characters if an entry lies there: the part of
\* SearchEnds that does not speak of fairness (ph.c:1306-1338).
THEOREM SearchIsBounded == Spec => SearchAdvances
<1>1. TypeOK /\ Behind /\ LogInv /\ [Next]_vars
        => [\A p \in Proc :
              Scan(p) /\ quiet[p] /\ (\E i \in SearchStart..Len(log) : EntryAt(i))
                => Position(p)' = Position(p) + 1 /\ Position(p)' < Len(log)]_vars
  BY ScanAdvances
<1>2. QED
  BY <1>1, LogInvariant, PTL DEF Spec, SearchAdvances

-----------------------------------------------------------------------------
(* The log that the invocations share *)

\* Only an invocation that logs comes to the shortening.
Logs(p) ==
  /\ logged[p] <= Len(Lines[p])
  /\ pc[p] \notin {"write", "done"} => Lines[p] # <<>>

\* It is another one that logs by which an invocation is disturbed.
Disturbed(p) == ~quiet[p] => \E q \in Proc : q # p /\ Lines[q] # <<>>

\* While an invocation rewrites the log and nobody else has written to it, the
\* file is empty and nobody else rewrites it undisturbed.
Rewrites(p) ==
  At(p, "fill") /\ quiet[p] =>
    log = <<>> /\ \A q \in Proc : At(q, "fill") /\ quiet[q] => q = p

SharedInv ==
  /\ \A p \in Proc : Logs(p) /\ Disturbed(p) /\ Rewrites(p)
  /\ torn => AtRisk

\* The invocations that log, and those that do not, stay the same.
LEMMA StepLogs ==
  ASSUME TypeOK, SharedInv, NEW q \in Proc, Step(q) \/ Kill(q), NEW p \in Proc
  PROVE  Logs(p)'
<1>1. Logs(p) /\ logged \in [Proc -> Nat] /\ Lines[p] \in Seq(Seq(Char))
  BY LogAssumption DEF SharedInv, TypeOK
<1>2. logged'[p] <= Len(Lines[p])
  <2>1. CASE WriteLog(q)
    BY <1>1, <2>1 DEF WriteLog, Logs
  <2>2. CASE ~WriteLog(q)
    <3>1. logged' = logged
      BY <2>2 DEF Step, LeaveEarly, Measure, Leave, Reopen, Scan, HeaderFound,
                  ReadBack, Truncate, Fill, Kill
    <3>2. QED
      BY <1>1, <3>1 DEF Logs
  <2>3. QED
    BY <2>1, <2>2
<1>3. pc'[p] \notin {"write", "done"} => Lines[p] # <<>>
  <2>1. CASE p # q
    BY <1>1, <2>1, Elsewhere DEF Logs
  <2>2. CASE p = q /\ Measure(q)
    <3>1. CASE Lines[q] = <<>>
      BY <2>2, <3>1, OwnPlace DEF Measure, Goto, TypeOK, Place
    <3>2. QED
      BY <2>2, <3>1
  <2>3. CASE p = q /\ (WriteLog(q) \/ LeaveEarly(q) \/ Leave(q) \/ Fill(q) \/ Kill(q))
    BY <2>3, OwnPlace
  <2>4. CASE p = q /\ (Reopen(q) \/ Scan(q) \/ HeaderFound(q) \/ ReadBack(q) \/ Truncate(q))
    <3>1. pc[q] \in {"reopen", "scan", "read", "truncate"}
      BY <2>4 DEF Reopen, Scan, HeaderFound, ReadBack, Truncate, At
    <3>2. QED
      BY <1>1, <2>4, <3>1 DEF Logs
  <2>5. QED
    BY <2>1, <2>2, <2>3, <2>4 DEF Step
<1>4. QED
  BY <1>2, <1>3 DEF Logs

\* An invocation that does not log disturbs nobody, and nobody disturbs itself.
LEMMA StepDisturbs ==
  ASSUME TypeOK, SharedInv, NEW q \in Proc, Step(q) \/ Kill(q), NEW p \in Proc,
         quiet[p], ~quiet'[p]
  PROVE  p # q /\ Lines[q] # <<>>
<1>1. quiet \in [Proc -> BOOLEAN] /\ Logs(q) /\ logged[q] \in Nat
      /\ Lines[q] \in Seq(Seq(Char))
  BY LogAssumption DEF SharedInv, TypeOK
<1>2. ASSUME Lines[q] = <<>> PROVE logged[q] = 0 /\ pc[q] \in {"write", "done"}
  BY <1>1, <1>2 DEF Logs
<1>3. ASSUME NEW text, NEW rest, Put(q, text, rest) PROVE p # q
  BY <1>1, <1>3 DEF Put, Disturb
<1>4. CASE WriteLog(q)
  <2>1. \E text, rest : Put(q, text, rest)
    BY <1>4, Zenon DEF WriteLog
  <2>2. logged[q] < Len(Lines[q])
    BY <1>4 DEF WriteLog
  <2>3. Lines[q] # <<>>
    BY <1>1, <2>2
  <2>4. QED
    BY <1>3, <2>1, <2>3
<1>5. CASE LeaveEarly(q) \/ Leave(q)
  BY <1>1, <1>2, <1>3, <1>5 DEF LeaveEarly, Leave, Flush, At
<1>6. CASE Measure(q)
  BY <1>3, <1>6 DEF Measure
<1>7. CASE Reopen(q)
  BY <1>1, <1>2, <1>7 DEF Reopen, At
<1>8. CASE Scan(q) \/ HeaderFound(q) \/ ReadBack(q) \/ Kill(q)
  BY <1>8 DEF Scan, HeaderFound, ReadBack, Kill
<1>9. CASE Truncate(q) \/ Fill(q)
  BY <1>1, <1>2, <1>9 DEF Truncate, Fill, Disturb, At
<1>10. QED
  BY <1>4, <1>5, <1>6, <1>7, <1>8, <1>9 DEF Step

\* What is known of a disturbed invocation stays true.
LEMMA StepDisturbed ==
  ASSUME TypeOK, SharedInv, NEW q \in Proc, Step(q) \/ Kill(q), NEW p \in Proc
  PROVE  Disturbed(p)'
<1>1. CASE quiet[p]
  BY <1>1, StepDisturbs DEF Disturbed
<1>2. CASE ~quiet[p]
  BY <1>2 DEF SharedInv, Disturbed
<1>3. QED
  BY <1>1, <1>2

\* A log that is being rewritten stays empty until somebody disturbs it, and who
\* begins to rewrite it disturbs the others.
LEMMA StepRewrites ==
  ASSUME TypeOK, SharedInv, NEW q \in Proc, Step(q) \/ Kill(q), NEW p \in Proc
  PROVE  Rewrites(p)'
<1> SUFFICES ASSUME pc'[p] = "fill", quiet'[p]
    PROVE  log' = <<>> /\ \A r \in Proc : pc'[r] = "fill" /\ quiet'[r] => r = p
  BY DEF Rewrites, At
<1>1. ASSUME pc'[q] = "fill"
      PROVE  log' = <<>> /\ \A r \in Proc : quiet'[r] => r = q
  <2>1. Truncate(q)
    BY <1>1, OwnPlace DEF Step
  <2>2. QED
    BY <2>1 DEF Truncate, Disturb
<1>2. CASE p = q
  BY <1>1, <1>2
<1>3. CASE p # q
  <2>1. pc[p] = "fill" /\ quiet[p] /\ log' = log
    BY <1>3, Elsewhere
  <2>2. Rewrites(p)
    BY DEF SharedInv
  <2>3. log = <<>> /\ \A r \in Proc : pc[r] = "fill" /\ quiet[r] => r = p
    BY <2>1, <2>2 DEF Rewrites, At
  <2>4. ASSUME NEW r \in Proc, pc'[r] = "fill", quiet'[r] PROVE r = p
    <3>1. CASE r = q
      BY <1>1, <2>4, <3>1
    <3>2. CASE r # q
      <4>1. pc[r] = "fill" /\ quiet[r]
        BY <2>4, <3>2, Elsewhere
      <4>2. QED
        BY <2>3, <4>1
    <3>3. QED
      BY <3>1, <3>2
  <2>5. QED
    BY <2>1, <2>3, <2>4
<1>4. QED
  BY <1>2, <1>3

\* The log is torn only where that may happen.
LEMMA StepTorn ==
  ASSUME TypeOK, SharedInv, NEW q \in Proc, Step(q) \/ Kill(q), torn'
  PROVE  AtRisk
<1>1. CASE torn
  BY <1>1 DEF SharedInv
<1>2. Logs(q) /\ Disturbed(q)
  BY DEF SharedInv
<1>3. CASE ~torn /\ (Truncate(q) \/ Fill(q))
  <2>1. ~quiet[q] /\ Lines[q] # <<>>
    BY <1>2, <1>3 DEF Truncate, Fill, Logs, At
  <2>2. QED
    BY <1>2, <2>1 DEF Disturbed, AtRisk
<1>4. CASE ~torn /\ Kill(q)
  <2>1. q \in Killable /\ Lines[q] # <<>>
    BY <1>2, <1>4 DEF Kill, Logs, At
  <2>2. QED
    BY <2>1 DEF AtRisk
<1>5. CASE ~(Truncate(q) \/ Fill(q) \/ Kill(q))
  <2>1. torn' = torn
    BY <1>5 DEF Step, WriteLog, LeaveEarly, Measure, Leave, Reopen, Scan, HeaderFound,
                ReadBack
  <2>2. QED
    BY <1>1, <2>1
<1>6. QED
  BY <1>1, <1>3, <1>4, <1>5

LEMMA SharedInvariant == Spec => []SharedInv
<1>1. Init => SharedInv
  BY LogAssumption DEF Init, SharedInv, Logs, Disturbed, Rewrites, At
<1>2. TypeOK /\ SharedInv /\ [Next]_vars => SharedInv'
  <2> SUFFICES ASSUME TypeOK, SharedInv, [Next]_vars PROVE SharedInv'
    OBVIOUS
  <2>1. CASE UNCHANGED vars
    <3>1. ASSUME NEW p \in Proc PROVE Logs(p)' /\ Disturbed(p)' /\ Rewrites(p)'
      BY <2>1 DEF SharedInv, Logs, Disturbed, Rewrites, At, vars
    <3>2. QED
      BY <2>1, <3>1 DEF SharedInv, vars
  <2>2. ASSUME NEW q \in Proc, Step(q) \/ Kill(q) PROVE SharedInv'
    <3>1. \A p \in Proc : Logs(p)' /\ Disturbed(p)' /\ Rewrites(p)'
      BY <2>2, StepLogs, StepDisturbed, StepRewrites
    <3>2. torn' => AtRisk
      BY <2>2, StepTorn
    <3>3. QED
      BY <3>1, <3>2 DEF SharedInv
  <2>3. QED
    BY <2>1, <2>2 DEF Next, Terminated
<1>3. QED
  BY <1>1, <1>2, TypeCorrect, PTL DEF Spec

\* Where the log is not lost, at most one invocation rewrites it, and undisturbed.
LEMMA WhatTextIs ==
  ASSUME SharedInv, ~Lost
  PROVE  /\ \A p \in Proc : At(p, "fill") => Text = string[p] /\ log = <<>> /\ quiet[p]
         /\ (\A p \in Proc : ~At(p, "fill")) => Text = log
         /\ \A p, q \in Proc : At(p, "fill") /\ At(q, "fill") => p = q
         /\ ~torn
<1>1. ~torn /\ \A p \in Proc : At(p, "fill") => quiet[p]
  BY DEF Lost
<1>2. ASSUME NEW p \in Proc, At(p, "fill")
      PROVE  log = <<>> /\ \A q \in Proc : At(q, "fill") => q = p
  BY <1>1, <1>2 DEF SharedInv, Rewrites
<1>3. ASSUME NEW p \in Proc, At(p, "fill") PROVE Text = string[p]
  <2>1. (CHOOSE q \in Proc : At(q, "fill")) \in Proc
        /\ At(CHOOSE q \in Proc : At(q, "fill"), "fill")
    BY <1>3
  <2>2. (CHOOSE q \in Proc : At(q, "fill")) = p
    BY <1>2, <1>3, <2>1
  <2>3. QED
    BY <1>3, <2>2 DEF Text
<1>4. (\A p \in Proc : ~At(p, "fill")) => Text = log
  BY DEF Text
<1>5. QED
  BY <1>1, <1>2, <1>3, <1>4

\* A log that was torn stays so, and one that is being rewritten although it was
\* changed is torn when that is done.
LEMMA LostForever ==
  ASSUME TypeOK, NEW q \in Proc, Step(q) \/ Kill(q), Lost
  PROVE  Lost'
<1>1. torn => torn'
  BY DEF Step, WriteLog, LeaveEarly, Measure, Leave, Reopen, Scan, HeaderFound,
         ReadBack, Truncate, Fill, Kill
<1>2. CASE torn
  BY <1>1, <1>2 DEF Lost
<1>3. ASSUME NEW p \in Proc, At(p, "fill"), ~quiet[p] PROVE Lost'
  <2>1. CASE p # q
    BY <1>3, <2>1, Elsewhere DEF Lost, At
  <2>2. CASE p = q
    <3>1. Fill(q) \/ Kill(q)
      BY <1>3, <2>2 DEF Step, WriteLog, LeaveEarly, Measure, Leave, Reopen, Scan,
                        HeaderFound, ReadBack, Truncate, At
    <3>2. torn'
      BY <1>3, <2>2, <3>1 DEF Fill, Kill
    <3>3. QED
      BY <3>2 DEF Lost
  <2>3. QED
    BY <2>1, <2>2
<1>4. QED
  BY <1>2, <1>3 DEF Lost

\* It is lost only where that may happen.
LEMMA LostAtRisk ==
  ASSUME SharedInv, Lost
  PROVE  AtRisk
<1>1. CASE torn
  BY <1>1 DEF SharedInv
<1>2. ASSUME NEW p \in Proc, At(p, "fill"), ~quiet[p] PROVE AtRisk
  <2>1. Logs(p) /\ Disturbed(p)
    BY DEF SharedInv
  <2>2. Lines[p] # <<>>
    BY <1>2, <2>1 DEF Logs, At
  <2>3. QED
    BY <1>2, <2>1, <2>2 DEF Disturbed, AtRisk
<1>3. QED
  BY <1>1, <1>2 DEF Lost

\* What an invocation writes to the file comes to the end of the log, when it
\* does not disturb one that rewrites it.
LEMMA TextGrows ==
  ASSUME TypeOK, SharedInv, SharedInv', ~Lost, ~Lost',
         NEW q \in Proc, Step(q) \/ Kill(q), ~At(q, "fill"), ~At(q, "fill")',
         NEW said \in Seq(Char), log' = log \o said,
         said # <<>> => \A r \in Proc : r # q => ~quiet'[r]
  PROVE  Text' = Text \o said
<1>1. log \in Seq(Char) /\ string \in [Proc -> Seq(Char)]
  BY DEF TypeOK
<1>2. \A r \in Proc : At(r, "fill")' <=> At(r, "fill")
  BY Elsewhere DEF At
<1>3. CASE \A r \in Proc : ~At(r, "fill")
  <2>1. Text = log
    BY <1>3, WhatTextIs
  <2>2. \A r \in Proc : ~At(r, "fill")'
    BY <1>2, <1>3
  <2>3. Text' = log'
    BY <2>2 DEF Text
  <2>4. QED
    BY <2>1, <2>3
<1>4. ASSUME NEW r \in Proc, At(r, "fill") PROVE Text' = Text \o said
  <2>1. r # q /\ At(r, "fill")'
    BY <1>2, <1>4
  <2>2. Text = string[r]
    BY <1>4, WhatTextIs
  <2>3. \A s \in Proc : At(s, "fill") => s = r
    BY <1>4, WhatTextIs
  <2>4. Text' = string'[r]
    <3>1. \A s \in Proc : pc'[s] = "fill" <=> s = r
      BY <1>2, <2>1, <2>3 DEF At
    <3>2. (CHOOSE s \in Proc : pc'[s] = "fill") = r
      BY <3>1
    <3>3. QED
      BY <3>1, <3>2 DEF Text, At
  <2>5. string'[r] = string[r]
    BY <2>1, Elsewhere
  <2>6. quiet'[r]
    BY <2>1 DEF Lost
  <2>7. said = <<>>
    BY <2>1, <2>6
  <2>8. string[r] \o <<>> = string[r]
    BY <1>1, ConcatEmptySeq
  <2>9. QED
    BY <2>2, <2>4, <2>5, <2>7, <2>8
<1>5. QED
  BY <1>3, <1>4

\* Two texts one behind the other are cut where the first one ends.
LEMMA Divided ==
  ASSUME NEW b \in Seq(Char), NEW c \in Seq(Char)
  PROVE  /\ Len(b) \in 0..Len(b \o c)
         /\ SubSeq(b \o c, 1, Len(b)) = b
         /\ SubSeq(b \o c, Len(b) + 1, Len(b \o c)) = c
<1>1. /\ b \o c \in Seq(Char) /\ Len(b \o c) = Len(b) + Len(c)
      /\ Len(b) \in Nat /\ Len(c) \in Nat
  BY ConcatProperties
<1>2. /\ \A i \in 1..Len(b) : (b \o c)[i] = b[i]
      /\ \A i \in 1..Len(c) : (b \o c)[Len(b) + i] = c[i]
  <2>1. \A i \in 1..(Len(b) + Len(c)) :
          (b \o c)[i] = IF i <= Len(b) THEN b[i] ELSE c[i - Len(b)]
    OBVIOUS
  <2>2. ASSUME NEW i \in 1..Len(c) PROVE (b \o c)[Len(b) + i] = c[i]
    <3>1. Len(b) + i \in 1..(Len(b) + Len(c)) /\ ~(Len(b) + i <= Len(b))
          /\ (Len(b) + i) - Len(b) = i
      BY <1>1
    <3>2. QED
      BY <2>1, <3>1
  <2>3. QED
    BY <1>1, <2>1, <2>2
<1>3. SubSeq(b \o c, 1, Len(b)) = b
  <2> DEFINE t == b \o c
             s == SubSeq(t, 1, Len(b))
  <2>1. t \in Seq(Char) /\ 1 \in Nat \ {0} /\ Len(b) \in Int /\ Len(b) <= Len(t)
    BY <1>1
  <2>2. \A i \in 1..Len(b) : t[i] = b[i]
    BY <1>2
  <2> HIDE DEF t
  <2>3. /\ s \in Seq(Char)
        /\ Len(s) = IF 1 <= Len(b) THEN Len(b) - 1 + 1 ELSE 0
        /\ \A i \in 1 .. Len(b) - 1 + 1 : s[i] = t[1 + i - 1]
    BY <2>1, PartOfText
  <2> HIDE DEF s
  <2>4. Len(s) = Len(b)
    BY <1>1, <2>3
  <2>5. ASSUME NEW i \in 1..Len(b) PROVE s[i] = b[i]
    <3>1. i \in 1 .. Len(b) - 1 + 1 /\ 1 + i - 1 = i
      BY <1>1
    <3>2. QED
      BY <2>2, <2>3, <3>1
  <2>6. s = b
    BY <2>3, <2>4, <2>5, SeqEqual
  <2>7. QED
    BY <2>6 DEF s, t
<1>4. SubSeq(b \o c, Len(b) + 1, Len(b \o c)) = c
  <2> DEFINE t == b \o c
             s == SubSeq(t, Len(b) + 1, Len(t))
  <2>1. /\ t \in Seq(Char) /\ Len(t) = Len(b) + Len(c)
        /\ \A i \in 1..Len(c) : t[Len(b) + i] = c[i]
    BY <1>1, <1>2
  <2> HIDE DEF t
  <2>2. Len(b) + 1 \in Nat \ {0} /\ Len(t) \in Int /\ Len(t) <= Len(t)
    BY <1>1, <2>1
  <2>3. /\ s \in Seq(Char)
        /\ Len(s) = IF Len(b) + 1 <= Len(t) THEN Len(t) - (Len(b) + 1) + 1 ELSE 0
        /\ \A i \in 1 .. Len(t) - (Len(b) + 1) + 1 : s[i] = t[(Len(b) + 1) + i - 1]
    BY <2>1, <2>2, PartOfText
  <2> HIDE DEF s
  <2>4. Len(s) = Len(c)
    BY <1>1, <2>1, <2>3
  <2>5. ASSUME NEW i \in 1..Len(c) PROVE s[i] = c[i]
    <3>1. i \in 1 .. Len(t) - (Len(b) + 1) + 1 /\ (Len(b) + 1) + i - 1 = Len(b) + i
      BY <1>1, <2>1
    <3>2. QED
      BY <2>1, <2>3, <3>1
  <2>6. s = c
    BY <2>3, <2>4, <2>5, SeqEqual
  <2>7. QED
    BY <2>6 DEF s, t
<1>5. QED
  BY <1>1, <1>3, <1>4

\* A step of a log that is not lost and that leaves the file alone is none of the
\* shared log.
LEMMA TextStays ==
  ASSUME TypeOK, SharedInv, SharedInv', ~Lost, ~Lost',
         NEW q \in Proc, Step(q) \/ Kill(q), ~At(q, "fill"), ~At(q, "fill")',
         log' = log
  PROVE  Text' = Text
<1>1. log \in Seq(Char) /\ string \in [Proc -> Seq(Char)] /\ <<>> \in Seq(Char)
  BY EmptySeq DEF TypeOK
<1>2. log' = log \o <<>>
  BY <1>1, ConcatEmptySeq
<1>3. Text' = Text \o <<>>
  BY <1>1, <1>2, TextGrows
<1>4. Text \in Seq(Char)
  BY <1>1, WhatTextIs
<1>5. QED
  BY <1>1, <1>3, <1>4, ConcatEmptySeq

\* A stream that writes to the file writes to the shared log.
LEMMA PutIsWrite ==
  ASSUME TypeOK, SharedInv, SharedInv', ~Lost, ~Lost',
         NEW q \in Proc, Step(q) \/ Kill(q), ~At(q, "fill"), ~At(q, "fill")',
         NEW text \in Seq(Char), NEW rest, Put(q, text, rest)
  PROVE  Text' = Text \o text /\ buffer' = [buffer EXCEPT ![q] = rest]
<1>1. log' = log \o text /\ buffer' = [buffer EXCEPT ![q] = rest]
  BY DEF Put, Appended
<1>2. text # <<>> => \A r \in Proc : r # q => ~quiet'[r]
  BY DEF Put, Disturb
<1>3. QED
  BY <1>1, <1>2, TextGrows

\* Writing all that is in the buffer, and keeping what comes behind it, is to write.
LEMMA BufferIsWritten ==
  ASSUME TypeOK, NEW q \in Proc, NEW said \in Seq(Char),
         Text' = Text \o buffer[q], buffer' = [buffer EXCEPT ![q] = said]
  PROVE  Outside!Write(q, said)
<1>1. buffer[q] \in Seq(Char)
  BY DEF TypeOK
<1>2. /\ Len(buffer[q]) \in 0..Len(buffer[q] \o said)
      /\ SubSeq(buffer[q] \o said, 1, Len(buffer[q])) = buffer[q]
      /\ SubSeq(buffer[q] \o said, Len(buffer[q]) + 1, Len(buffer[q] \o said)) = said
  BY <1>1, Divided
<1>3. /\ Text' = Text \o SubSeq(buffer[q] \o said, 1, Len(buffer[q]))
      /\ buffer' = [buffer EXCEPT ![q] =
           SubSeq(buffer[q] \o said, Len(buffer[q]) + 1, Len(buffer[q] \o said))]
  BY <1>2, Zenon
<1>4. QED
  BY <1>2, <1>3, Zenon DEF Outside!Write

\* writelog() is the next line of the invocation.
LEMMA WriteLogLogs ==
  ASSUME TypeOK, SharedInv, SharedInv', ~Lost, ~Lost', NEW q \in Proc, WriteLog(q)
  PROVE  Outside!Log(q)
<1> DEFINE all == buffer[q] \o Lines[q][logged[q] + 1]
           full == Block * (Len(all) \div Block)
<1>1. all \in Seq(Char) /\ Len(all) \in Nat
  <2>1. buffer[q] \in Seq(Char) /\ Lines[q][logged[q] + 1] \in Seq(Char)
    BY LoggedText DEF WriteLog
  <2>2. all \in Seq(Char)
    BY <2>1, ConcatProperties
  <2> HIDE DEF all
  <2>3. QED
    BY <2>2
<1>2. full \in 0..Len(all)
  BY <1>1, FullBlocks, LogAssumption
<1>3. /\ Put(q, SubSeq(all, 1, full), SubSeq(all, full + 1, Len(all)))
      /\ logged[q] < Len(Lines[q]) /\ logged' = [logged EXCEPT ![q] = @ + 1]
  BY DEF WriteLog
<1>4. ~At(q, "fill") /\ ~At(q, "fill")' /\ Step(q)
  BY OwnPlace DEF WriteLog, At, Step
<1> HIDE DEF full
<1>5. SubSeq(all, 1, full) \in Seq(Char)
  <2> HIDE DEF all
  <2>1. full \in Int /\ full <= Len(all) /\ 1 \in Nat \ {0}
    BY <1>1, <1>2
  <2>2. QED
    BY <1>1, <2>1, PartOfText
<1>6. /\ Text' = Text \o SubSeq(all, 1, full)
      /\ buffer' = [buffer EXCEPT ![q] = SubSeq(all, full + 1, Len(all))]
  BY <1>3, <1>4, <1>5, PutIsWrite
<1>7. Outside!Write(q, Lines[q][logged[q] + 1])
  BY <1>2, <1>6, Zenon DEF Outside!Write
<1>8. QED
  BY <1>3, <1>7 DEF Outside!Log

\* The other steps that write what is in the buffer.
LEMMA FlushFlushes ==
  ASSUME TypeOK, SharedInv, SharedInv', ~Lost, ~Lost', NEW q \in Proc,
         LeaveEarly(q) \/ Leave(q) \/ Reopen(q)
  PROVE  Outside!Flush(q)
<1>1. buffer[q] \in Seq(Char) /\ <<>> \in Seq(Char)
  BY EmptySeq DEF TypeOK
<1>2. ~At(q, "fill") /\ ~At(q, "fill")' /\ Step(q)
  BY OwnPlace DEF LeaveEarly, Leave, Reopen, At, Step
<1>3. Text' = Text \o buffer[q] /\ buffer' = [buffer EXCEPT ![q] = <<>>]
  <2>1. CASE LeaveEarly(q) \/ Leave(q)
    <3>1. Put(q, buffer[q], <<>>)
      BY <2>1 DEF LeaveEarly, Leave, Flush
    <3>2. QED
      BY <1>1, <1>2, <3>1, PutIsWrite
  <2>2. CASE Reopen(q)
    <3>1. log' = log \o buffer[q] /\ buffer' = [buffer EXCEPT ![q] = <<>>]
      BY <2>2 DEF Reopen, Appended
    <3>2. buffer[q] # <<>> => \A r \in Proc : r # q => ~quiet'[r]
      BY <2>2 DEF Reopen
    <3>3. QED
      BY <1>1, <1>2, <3>1, <3>2, TextGrows
  <2>3. QED
    BY <2>1, <2>2
<1>4. Outside!Write(q, <<>>)
  BY <1>1, <1>3, BufferIsWritten
<1>5. logged' = logged
  BY DEF LeaveEarly, Leave, Reopen
<1>6. QED
  BY <1>4, <1>5 DEF Outside!Flush

\* Measuring the log writes the buffer; an invocation that does not log does nothing.
LEMMA MeasureLogs ==
  ASSUME TypeOK, SharedInv, SharedInv', ~Lost, ~Lost', NEW q \in Proc, Measure(q)
  PROVE  Outside!LogAtEnd(q) \/ UNCHANGED Outside!vars
<1>1. ~At(q, "fill") /\ ~At(q, "fill")' /\ Step(q)
  BY OwnPlace DEF Measure, At, Step
<1>2. logged[q] = Len(Lines[q]) /\ logged' = logged
  BY DEF Measure
<1>3. CASE Lines[q] = <<>>
  <2>1. log' = log /\ buffer' = buffer
    BY <1>3 DEF Measure
  <2>2. Text' = Text
    BY <1>1, <2>1, TextStays
  <2>3. Lost' = Lost
    BY DEF Lost
  <2>4. QED
    BY <1>2, <2>1, <2>2, <2>3 DEF Outside!vars
<1>4. CASE Lines[q] # <<>>
  <2>1. Put(q, buffer[q], Chatter[q])
    BY <1>4 DEF Measure
  <2>2. buffer[q] \in Seq(Char) /\ Chatter[q] \in Seq(Char)
    BY LoggedText
  <2>3. Text' = Text \o buffer[q] /\ buffer' = [buffer EXCEPT ![q] = Chatter[q]]
    BY <1>1, <2>1, <2>2, PutIsWrite
  <2>4. Outside!Write(q, Chatter[q])
    BY <2>2, <2>3, BufferIsWritten
  <2>5. QED
    BY <1>2, <2>4 DEF Outside!LogAtEnd
<1>5. QED
  BY <1>3, <1>4

\* The truncation is the step by which the log is shortened.
LEMMA TruncateShortens ==
  ASSUME TypeOK, LogInv, SharedInv, SharedInv', ~Lost, ~Lost', NEW q \in Proc, Truncate(q)
  PROVE  Outside!Shorten
<1>1. At(q, "truncate") /\ pc'[q] = "fill" /\ string' = string /\ log \in Seq(Char)
      /\ Len(log) \in Nat /\ string[q] \in Seq(Char)
  <2>1. At(q, "truncate") /\ string' = string
    BY DEF Truncate
  <2>2. pc'[q] = "fill"
    BY OwnPlace DEF Step
  <2>3. log \in Seq(Char) /\ string[q] \in Seq(Char)
    BY DEF TypeOK
  <2>4. QED
    BY <2>1, <2>2, <2>3
<1>2. quiet[q]
  BY DEF Truncate, Lost
<1>3. /\ \E k \in 1..Len(log) :
           /\ HeaderAt(k)
           /\ Len(log) - k <= Len(string[q])
           /\ \A i \in 1..Len(string[q]) :
                string[q][i] = IF k + i <= Len(log) THEN log[k + i] ELSE "?"
           /\ \A i \in SearchStart..(k - 3) : ~EntryAt(i)
      /\ Len(string[q]) <= Keep
  BY <1>1, <1>2 DEF LogInv, Kept, At
<1>4. Text = log
  <2>1. ASSUME NEW p \in Proc, At(p, "fill") PROVE FALSE
    <3>1. log = <<>>
      BY <2>1, WhatTextIs
    <3>2. QED
      BY <1>3, <3>1
  <2>2. QED
    BY <2>1, WhatTextIs
<1>5. Text' = string[q]
  <2>1. \A r \in Proc : pc'[r] = "fill" <=> r = q
    <3>1. ASSUME NEW r \in Proc, r # q, pc'[r] = "fill" PROVE FALSE
      BY <3>1, <1>1 DEF Truncate, Disturb, Lost, At
    <3>2. QED
      BY <1>1, <3>1
  <2>2. (CHOOSE r \in Proc : pc'[r] = "fill") = q
    BY <2>1
  <2>3. QED
    BY <1>1, <2>1, <2>2 DEF Text, At
<1>6. /\ \A i : Outside!HeaderAt(i) <=> HeaderAt(i)
      /\ \A i : Outside!EntryAt(i) <=> EntryAt(i)
      /\ Outside!Last = SearchStart
  BY <1>4 DEF HeaderAt, EntryAt, SearchStart, Outside!HeaderAt, Outside!EntryAt, Outside!Last
<1>7. PICK k \in 1..Len(log) :
        /\ HeaderAt(k)
        /\ Len(log) - k <= Len(string[q])
        /\ \A i \in 1..Len(string[q]) :
             string[q][i] = IF k + i <= Len(log) THEN log[k + i] ELSE "?"
        /\ \A i \in SearchStart..(k - 3) : ~EntryAt(i)
  BY <1>3
<1>8. Len(string[q]) \in 0..Keep
  BY <1>1, <1>3, LogAssumption DEF Keep
<1>9. string[q] = [i \in 1..Len(string[q]) |-> IF k + i <= Len(log) THEN log[k + i] ELSE "?"]
  <2>1. string[q] = [i \in 1..Len(string[q]) |-> string[q][i]]
    BY <1>1
  <2>2. QED
    BY <1>7, <2>1
<1>10. \E l \in 1..Len(Text), n \in 0..Keep :
         /\ Outside!HeaderAt(l)
         /\ \A i \in Outside!Last..(l - 3) : ~Outside!EntryAt(i)
         /\ Len(Text) - l <= n
         /\ Text' = [i \in 1..n |-> IF l + i <= Len(Text) THEN Text[l + i] ELSE "?"]
  <2> DEFINE n == Len(string[q])
  <2>1. k \in 1..Len(Text) /\ n \in 0..Keep
    BY <1>4, <1>8
  <2>2. Outside!HeaderAt(k) /\ \A i \in Outside!Last..(k - 3) : ~Outside!EntryAt(i)
    BY <1>6, <1>7
  <2>3. Len(Text) - k <= n
    BY <1>4, <1>7
  <2>4. Text' = [i \in 1..n |-> IF k + i <= Len(Text) THEN Text[k + i] ELSE "?"]
    BY <1>4, <1>5, <1>9, Zenon
  <2> HIDE DEF n
  <2>5. QED
    BY <2>1, <2>2, <2>3, <2>4
<1>11. UNCHANGED <<logged, buffer>>
  BY DEF Truncate
<1>12. QED
  BY <1>10, <1>11, Zenon DEF Outside!Shorten

\* The rewriting, and all that only reads, changes nothing of the shared log.
LEMMA FillStutters ==
  ASSUME TypeOK, SharedInv, SharedInv', ~Lost, ~Lost', NEW q \in Proc, Fill(q)
  PROVE  Text' = Text
<1>1. /\ At(q, "fill") /\ pc'[q] = "done" /\ string' = string
      /\ string[q] \in Seq(Char) /\ Len(string[q]) \in Nat
  <2>1. At(q, "fill") /\ string' = string
    BY DEF Fill
  <2>2. pc'[q] = "done"
    BY OwnPlace DEF Step
  <2>3. string[q] \in Seq(Char)
    BY DEF TypeOK
  <2>4. QED
    BY <2>1, <2>2, <2>3
<1>2. Text = string[q] /\ log = <<>> /\ \A p \in Proc : At(p, "fill") => p = q
  BY <1>1, WhatTextIs
<1>3. log' = string[q]
  <2>1. Len(log) = 0
    BY <1>2
  <2>2. SubSeq(log, Len(string[q]) + 1, Len(log)) = <<>>
    BY <1>1, <1>2, <2>1, SubSeqEmpty
  <2>3. log' = string[q] \o <<>>
    BY <2>2 DEF Fill
  <2>4. QED
    BY <1>1, <2>3, ConcatEmptySeq
<1>4. ASSUME NEW p \in Proc, pc'[p] = "fill" PROVE FALSE
  BY <1>1, <1>2, <1>4, Elsewhere DEF At, Step
<1>5. Text' = log'
  BY <1>4 DEF Text, At
<1>6. QED
  BY <1>2, <1>3, <1>5

LEMMA ReadingStutters ==
  ASSUME TypeOK, SharedInv, SharedInv', ~Lost, ~Lost', NEW q \in Proc,
         Scan(q) \/ HeaderFound(q) \/ ReadBack(q) \/ Fill(q) \/ Kill(q)
  PROVE  UNCHANGED Outside!vars
<1>1. UNCHANGED <<logged, buffer>>
  BY DEF Scan, HeaderFound, ReadBack, Fill, Kill
<1>2. Lost' = Lost
  BY DEF Lost
<1>3. Text' = Text
  <2>1. CASE Fill(q)
    BY <2>1, FillStutters
  <2>2. CASE Scan(q) \/ HeaderFound(q) \/ ReadBack(q)
    <3>1. log' = log /\ ~At(q, "fill") /\ ~At(q, "fill")' /\ Step(q)
      BY <2>2, OwnPlace DEF Scan, HeaderFound, ReadBack, At, Step
    <3>2. QED
      BY <3>1, TextStays
  <2>3. CASE Kill(q)
    <3>1. log' = log /\ ~At(q, "fill")'
      BY <2>3, OwnPlace DEF Kill, At
    <3>2. ~At(q, "fill")
      BY <2>3 DEF Kill, Lost
    <3>3. QED
      BY <2>3, <3>1, <3>2, TextStays
  <2>4. QED
    BY <2>1, <2>2, <2>3
<1>4. QED
  BY <1>1, <1>2, <1>3 DEF Outside!vars

\* Every step is one of the shared log, or none.
LEMMA StepIsShared ==
  ASSUME TypeOK, LogInv, SharedInv, SharedInv', NEW q \in Proc, Step(q) \/ Kill(q)
  PROVE  Outside!Next \/ UNCHANGED Outside!vars
<1>1. CASE Lost'
  <2>1. CASE Lost
    BY <1>1, <2>1, LostAtRisk DEF Outside!Next, Outside!Lose
  <2>2. CASE ~Lost
    <3>1. AtRisk
      <4>1. CASE torn'
        BY <4>1, StepTorn
      <4>2. ASSUME NEW p \in Proc, pc'[p] = "fill", ~quiet'[p] PROVE AtRisk
        <5>1. Logs(p)' /\ Disturbed(p)'
          BY DEF SharedInv
        <5>2. Lines[p] # <<>>
          BY <4>2, <5>1 DEF Logs
        <5>3. QED
          BY <4>2, <5>1, <5>2 DEF Disturbed, AtRisk
      <4>3. QED
        BY <1>1, <4>1, <4>2 DEF Lost, At
    <3>2. QED
      BY <1>1, <3>1 DEF Outside!Next, Outside!Lose
  <2>3. QED
    BY <2>1, <2>2
<1>2. CASE ~Lost'
  <2>1. ~Lost
    BY <1>2, LostForever
  <2>2. CASE WriteLog(q) \/ LeaveEarly(q) \/ Leave(q) \/ Reopen(q) \/ Measure(q)
    <3>1. Outside!Log(q) \/ Outside!LogAtEnd(q) \/ Outside!Flush(q) \/ UNCHANGED Outside!vars
      BY <1>2, <2>1, <2>2, WriteLogLogs, FlushFlushes, MeasureLogs
    <3>2. QED
      BY <1>2, <2>1, <3>1 DEF Outside!Next
  <2>3. CASE Truncate(q)
    BY <1>2, <2>1, <2>3, TruncateShortens DEF Outside!Next
  <2>4. CASE Scan(q) \/ HeaderFound(q) \/ ReadBack(q) \/ Fill(q) \/ Kill(q)
    BY <1>2, <2>1, <2>4, ReadingStutters
  <2>5. QED
    BY <2>2, <2>3, <2>4 DEF Step
<1>3. QED
  BY <1>1, <1>2

\* For any invocations, any lines and any log, the file is a shared log in which
\* a shortening is one step: every line reaches it once and in order, and no
\* shortening takes an entry it could have kept, unless another invocation that
\* logs changes the file while it is being shortened or the one that shortens it
\* is killed (ph.c:128-146, 709-741, 1273-1338).
THEOREM ImplementsSharedLog == Spec => IsSharedLog
<1>1. Init => Outside!Init
  BY DEF Init, Outside!Init, Text, Lost, At
<1>2. TypeOK /\ LogInv /\ SharedInv /\ SharedInv' /\ [Next]_vars
        => [Outside!Next]_(Outside!vars)
  <2> SUFFICES ASSUME TypeOK, LogInv, SharedInv, SharedInv', [Next]_vars
      PROVE  Outside!Next \/ UNCHANGED Outside!vars
    OBVIOUS
  <2>1. CASE UNCHANGED vars
    BY <2>1 DEF vars, Outside!vars, Text, Lost, At
  <2>2. CASE \E q \in Proc : Step(q) \/ Kill(q)
    BY <2>2, StepIsShared
  <2>3. QED
    BY <2>1, <2>2 DEF Next, Terminated
<1>3. QED
  BY <1>1, <1>2, LogInvariant, SharedInvariant, PTL DEF Spec, IsSharedLog, Outside!Spec

\* With one invocation that logs, and that is not killed, the log is never lost,
\* whatever the others, that do not log, do (ph.c:1273-1338).
THEOREM NothingIsLostAlone == Spec => [](Lost => AtRisk)
<1>1. SharedInv => (Lost => AtRisk)
  BY LostAtRisk
<1>2. QED
  BY <1>1, SharedInvariant, PTL

=============================================================================
