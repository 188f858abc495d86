----------------------------- MODULE FinalizedLog -----------------------------
(***************************************************************************)
(* What the node promises to whoever restarts it: the irreversible part of *)
(* the native chain is a log that only grows, and the node owns a copy of  *)
(* it, which may be behind, never differs and never goes back.             *)
(***************************************************************************)
EXTENDS SequencesExt

VARIABLES
  log,   \* the irreversible native blocks
  copy   \* those whose EVM blocks a restart can rely on

Init == log = <<>> /\ copy = <<>>

\* Both may grow at once; the copy does not get ahead.
Grow == /\ IsPrefix(log, log')
        /\ IsPrefix(copy, copy')
        /\ IsPrefix(copy', log')

Spec == Init /\ [][Grow]_<<log, copy>>
=============================================================================
