----------------------------- MODULE SharedLog ------------------------------
(***************************************************************************)
(* What the log promises to the invocations that share it: every line is   *)
(* written once, in order and behind what is there, and whenever the log   *)
(* is shortened, in one step, it keeps every entry that begins among its   *)
(* last characters, with nothing behind them but memory that was never     *)
(* set.  Only where invocations come into each other's way, or one is      *)
(* killed, may that be lost; from then on nothing is promised.             *)
(***************************************************************************)
EXTENDS Integers, Sequences

CONSTANTS
  Proc, Old, Lines, Chatter,  \* as in LogFile
  Header,  \* what an entry begins with, behind a line break
  Keep,    \* how long a log may be that was shortened
  AtRisk   \* two invocations log, or one that may be killed

VARIABLES
  text,       \* the log
  spoken,     \* how many of its lines an invocation has logged
  unwritten,  \* the part of them that is not in the log yet
  lost        \* nothing is promised any more

vars == <<text, spoken, unwritten, lost>>

Init ==
  /\ text \in Old
  /\ spoken = [p \in Proc |-> 0]
  /\ unwritten = [p \in Proc |-> <<>>]
  /\ ~lost

\* What p has said so far goes to the end of the log, or the first part of it.
Write(p, said) ==
  LET all == unwritten[p] \o said
  IN  \E n \in 0..Len(all) :
        /\ text' = text \o SubSeq(all, 1, n)
        /\ unwritten' = [unwritten EXCEPT ![p] = SubSeq(all, n + 1, Len(all))]

Log(p) ==
  /\ spoken[p] < Len(Lines[p])
  /\ Write(p, Lines[p][spoken[p] + 1])
  /\ spoken' = [spoken EXCEPT ![p] = @ + 1]

LogAtEnd(p) ==
  /\ spoken[p] = Len(Lines[p])
  /\ Write(p, Chatter[p])
  /\ UNCHANGED spoken

Flush(p) == Write(p, <<>>) /\ UNCHANGED spoken

HeaderAt(i) ==
  i \in 1..(Len(text) - 3) /\ \A j \in 1..4 : text[i + j - 1] = Header[j]

\* An entry begins behind character i.
EntryAt(i) == HeaderAt(i + 2) /\ text[i + 1] = "n"

\* The last characters, as many as may be kept.
Last == IF Len(text) >= Keep THEN Len(text) - Keep ELSE 0

\* All that is behind the first character of a header is kept.
Shorten ==
  /\ \E k \in 1..Len(text), n \in 0..Keep :
       /\ HeaderAt(k)
       /\ \A i \in Last..(k - 3) : ~EntryAt(i)
       /\ Len(text) - k <= n
       /\ text' = [i \in 1..n |-> IF k + i <= Len(text) THEN text[k + i] ELSE "?"]
  /\ UNCHANGED <<spoken, unwritten>>

Lose == AtRisk /\ lost'

Next ==
  \/ /\ ~lost /\ ~lost'
     /\ Shorten \/ \E p \in Proc : Log(p) \/ LogAtEnd(p) \/ Flush(p)
  \/ Lose

Spec == Init /\ [][Next]_vars

=============================================================================
