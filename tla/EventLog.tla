------------------------------- MODULE EventLog -------------------------------
(***************************************************************************)
(* DistributedTicketWebApp.log (src/dashboard.py): a line is appended to   *)
(* the list self.logs, and self.logs is then rebound to the list of its own*)
(* last lines.  Nothing but the caller's lock, if it holds one, keeps two  *)
(* calls apart, and threads switch between loading the list and appending  *)
(* to it, and between slicing and rebinding.                               *)
(***************************************************************************)
EXTENDS Naturals, Sequences, FiniteSets

CONSTANTS
  Threads,    \* the threads that log
  Lines,      \* what they may write
  MaxLines    \* the 150 lines that are kept

ASSUME ThreadsAssumption == IsFiniteSet(Threads)
ASSUME MaxLinesAssumption == MaxLines \in Nat \ {0}

VARIABLES
  logs,       \* the list self.logs names now
  logging,    \* where each thread stands in log
  stale,      \* the threads that loaded a list which is self.logs no more
  copy,       \* the slice each thread has made
  written,    \* history: the last lines that anybody appended to any list
  overlapped, \* history: the threads whose call overlaps another
  clean       \* history: calls in a row that overlapped no other, up to MaxLines

logVars == <<logs, logging, stale, copy, written, overlapped, clean>>

LogType ==
  /\ logs \in Seq(Lines)
  /\ logging \in [Threads -> {"no", "loaded", "appended", "sliced"}]
  /\ stale \subseteq Threads
  /\ copy \in [Threads -> Seq(Lines)]
  /\ written \in Seq(Lines)
  /\ overlapped \subseteq Threads
  /\ clean \in 0 .. MaxLines

LogInit ==
  /\ logs = <<>>
  /\ logging = [t \in Threads |-> "no"]
  /\ stale = {}
  /\ copy = [t \in Threads |-> <<>>]
  /\ written = <<>>
  /\ overlapped = {}
  /\ clean = 0

-----------------------------------------------------------------------------
Last(n, s) == IF Len(s) <= n THEN s ELSE SubSeq(s, Len(s) - n + 1, Len(s))

MutOldest(s) == IF Len(s) <= MaxLines THEN s ELSE SubSeq(s, 1, MaxLines)

MutDropOne(s) == IF Len(s) <= MaxLines THEN s ELSE Tail(s)

\* [-150:]
Newest(s) == Last(MaxLines, s)

InLog == {t \in Threads : logging[t] # "no"}

\* self.logs is loaded, to have append called on it.
Load(t) ==
  /\ logging[t] = "no"
  /\ logging' = [logging EXCEPT ![t] = "loaded"]
  /\ stale' = stale \ {t}
  /\ overlapped' = IF InLog = {} THEN overlapped \ {t} ELSE overlapped \cup InLog \cup {t}
  /\ UNCHANGED <<logs, copy, written, clean>>

\* A list that was replaced meanwhile takes the line with it.
AppendLine(t, line) ==
  /\ logging[t] = "loaded"
  /\ logging' = [logging EXCEPT ![t] = "appended"]
  /\ logs' = IF t \in stale THEN logs ELSE Append(logs, line)
  /\ written' = Last(MaxLines, Append(written, line))
  /\ UNCHANGED <<stale, copy, overlapped, clean>>

Slice(t) ==
  /\ logging[t] = "appended"
  /\ logging' = [logging EXCEPT ![t] = "sliced"]
  /\ copy' = [copy EXCEPT ![t] = Newest(logs)]
  /\ UNCHANGED <<logs, stale, written, overlapped, clean>>

\* What was appended to the old list since the slice is gone.
Rebind(t) ==
  /\ logging[t] = "sliced"
  /\ logging' = [logging EXCEPT ![t] = "no"]
  /\ logs' = copy[t]
  /\ copy' = [copy EXCEPT ![t] = <<>>]
  /\ stale' = stale \cup {u \in Threads : logging[u] = "loaded"}
  /\ clean' = IF t \in overlapped THEN 0
              ELSE IF clean < MaxLines THEN clean + 1 ELSE MaxLines
  /\ UNCHANGED <<written, overlapped>>

-----------------------------------------------------------------------------
(***************************************************************************)
(* "All events must appear in the Event Log" (README.md:242), but for those*)
(* of calls that overlapped: only these lose lines, their own or one       *)
(* another's, and the log heals: once nobody is logging, the lines written *)
(* since then are all there, in order.                                     *)
(***************************************************************************)
OnlyOverlapsLose == InLog = {} => Last(clean, logs) = Last(clean, written)

(***************************************************************************)
(* The log is over its limit by at most the lines of the calls that have   *)
(* not sliced it yet: whichever of two overlapping calls rebinds it last,  *)
(* no line too many stays behind.                                          *)
(***************************************************************************)
LogBounded == Len(logs) <= MaxLines + Cardinality(InLog)
===============================================================================
