------------------------------ MODULE XorCode -------------------------------
(***************************************************************************)
(* The encoding of configuration files, lib/xor.c: "ph.exe -e" transcodes  *)
(* a file, and reading a configuration decodes one that is encoded.        *)
(***************************************************************************)
EXTENDS Integers, Sequences

CONSTANTS
  Byte,   \* the bytes of a file
  Xor,    \* Xor[a][b] is the bitwise exclusive or of two of them
  Magic,  \* xor_magic, how an encoded file begins
  Key,    \* the key, encodek
  Original   \* the files that are encoded

ASSUME XorAssumption ==
  /\ Xor \in [Byte -> [Byte -> Byte]]
  /\ \A a, b \in Byte : Xor[Xor[a][b]][b] = a
  /\ Magic \in Seq(Byte)
  /\ Key \in Seq(Byte) /\ Key # <<>>
  /\ Original \subseteq Seq(Byte)

VARIABLES
  original,  \* the file as it was written
  file,      \* the file as it is now
  content,   \* the configuration that was last read from it
  lost       \* a length was negative: ph.exe has ended

xorVars == <<original, file, content, lost>>

NotRead == << >>

-----------------------------------------------------------------------------
\* The first four characters are the magic.
BeginsWithMagic(s) == Len(s) >= Len(Magic) /\ SubSeq(s, 1, Len(Magic)) = Magic

\* A file that ends within the magic: the test goes on behind its end.
EndsInMagic(s) == Len(s) < Len(Magic) /\ SubSeq(Magic, 1, Len(s)) = s

\* What is_encoded() may return.
is_encoded(s) == IF EndsInMagic(s) THEN BOOLEAN ELSE {BeginsWithMagic(s)}

\* _xor()
_xor(s) == [k \in 1..Len(s) |-> Xor[s[k]][Key[((k - 1) % Len(Key)) + 1]]]

Encode(s) == Magic \o _xor(s)

\* Mutant of Decode: the magic is decoded too, so the key is out of step.
DecodeAll(s) == SubSeq(_xor(s), Len(Magic) + 1, Len(s))

\* The length that _xor() is given is that of the file with the magic, and the
\* result is terminated: four bytes behind the text are read and one behind the
\* result is written (xor.c:104-105).  No byte of the result depends on them;
\* that such an access may end the program is left out.
Decode(s) == _xor(SubSeq(s, Len(Magic) + 1, Len(s)))

Written(f) ==
  /\ original = f
  /\ file = f
  /\ content = NotRead
  /\ lost = FALSE

XorInit == \E f \in Original : Written(f)

\* A length behind the magic would be negative.
TooShort(encoded) == encoded /\ Len(file) < Len(Magic)

\* transcode_str() in encode_file(), with the file as its own output.
Transcode ==
  /\ ~lost
  /\ \E encoded \in is_encoded(file) :
       /\ lost' = TooShort(encoded)
       /\ file' = IF TooShort(encoded) THEN file
                  ELSE IF encoded THEN Decode(file) ELSE Encode(file)
  /\ UNCHANGED <<original, content>>

\* main() reads the file as its configuration.  What lies in memory behind the
\* text of an unencoded file is a line of its own in Dispatch (Trailing).
ReadConfig ==
  /\ ~lost
  /\ \E encoded \in is_encoded(file) :
       /\ lost' = TooShort(encoded)
       /\ content' = IF TooShort(encoded) THEN content
                     ELSE IF encoded THEN Decode(file) ELSE file
  /\ UNCHANGED <<original, file>>

XorNext == Transcode \/ ReadConfig

XorSpec == XorInit /\ [][XorNext]_xorVars

-----------------------------------------------------------------------------
(* Properties *)

\* However often a file is encoded and decoded again, what is read from it is
\* what was written, unless that begins like an encoded file; a file that is
\* encoded is never encoded a second time (xor.c:78-122, ph.c:642-649).
ReadsBack ==
  ~BeginsWithMagic(original) => /\ content \in {NotRead, original}
                                /\ file \in {original, Encode(original)}

=============================================================================
