----------------------------- MODULE ChangeLog -----------------------------
(***************************************************************************)
(* The bounded change log of a SyncManager as pure operators on sequences, *)
(* shared by every module that holds such a log.  The Rust deque           *)
(* (VecDeque<Change>) is a sequence, its oldest change first.              *)
(***************************************************************************)
EXTENDS Naturals, Sequences

\* Faulty variant: the log is trimmed one change too early.
PushTrimsEarly(log, c, max) ==
  LET grown == Append(log, c)
  IN  IF Len(grown) >= max THEN Tail(grown) ELSE grown

\* changes.push_back(change), then pop_front once when max is exceeded.
PushBounded(log, c, max) ==
  LET grown == Append(log, c)
  IN  IF Len(grown) > max THEN Tail(grown) ELSE grown

\* len.saturating_sub(count) of get_changes_since.
SkipCount(len, count) == IF len > count THEN len - count ELSE 0

\* What get_changes_since(o) answers when the counter reads `current`: the
\* newest current - o changes, or all of them when fewer are retained.
GetChangesSince(log, current, o) ==
  IF o >= current
  THEN <<>>
  ELSE SubSeq(log, SkipCount(Len(log), current - o) + 1, Len(log))

\* changes.truncate(limit) of process_message.
Truncate(log, limit) ==
  IF Len(log) > limit THEN SubSeq(log, 1, limit) ELSE log
=============================================================================
