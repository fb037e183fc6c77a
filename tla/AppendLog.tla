----------------------------- MODULE AppendLog -----------------------------
(***************************************************************************)
(* What the trait ChangeStore (src/persist.rs) promises of its log, in the *)
(* abstract: a change that was accepted waits, enters the log at most once *)
(* and stays in its place; a crash takes what is not durable, from the     *)
(* end, and compaction takes from the front.  Accepted changes may be      *)
(* discarded before they enter the log: a store says when it has written   *)
(* them, not that it will.                                                 *)
(***************************************************************************)
EXTENDS Naturals, Sequences

CONSTANT Changes

VARIABLES
  accepted,  \* every change ever given to append
  waiting,   \* those that may still enter the log
  log,       \* the changes a reader gets, in order
  durable    \* how many of them a crash cannot take

logVars == <<accepted, waiting, log, durable>>

LogInit == accepted = {} /\ waiting = {} /\ log = <<>> /\ durable = 0

\* append: a change is accepted once.
Accept(c) ==
  /\ c \in Changes \ accepted
  /\ accepted' = accepted \cup {c}
  /\ waiting' = waiting \cup {c}
  /\ UNCHANGED <<log, durable>>

\* flush, and an append that keeps nothing back: waiting changes are put behind
\* the log, none of them twice; others may be discarded.
Write ==
  LET new == (Len(log) + 1)..Len(log')
  IN  /\ log' \in Seq(Changes) /\ Len(log') >= Len(log)
      /\ \A i \in 1..Len(log) : log'[i] = log[i]
      /\ \A i \in new : log'[i] \in waiting
      /\ \A i, j \in new : log'[i] = log'[j] => i = j
      /\ waiting' \subseteq waiting \ {log'[i] : i \in new}
      /\ UNCHANGED <<accepted, durable>>

\* flush: what is in the log survives a crash.
Sync ==
  /\ durable' = Len(log)
  /\ UNCHANGED <<accepted, waiting, log>>

Crash ==
  /\ \E n \in durable..Len(log) : log' = SubSeq(log, 1, n) /\ durable' = n
  /\ waiting' = {}
  /\ UNCHANGED accepted

\* compact: a suffix is kept.
Compact ==
  /\ \E n \in 0..Len(log) : log' = SubSeq(log, n + 1, Len(log))
  /\ durable' = Len(log')
  /\ UNCHANGED <<accepted, waiting>>

LogNext == (\E c \in Changes : Accept(c)) \/ Write \/ Sync \/ Crash \/ Compact
LogSpec == LogInit /\ [][LogNext]_logVars
=============================================================================
