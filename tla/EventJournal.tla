---------------------------- MODULE EventJournal ----------------------------
(***************************************************************************)
(* What an EventJournalPort promises its callers: a log that only grows,   *)
(* in which a record's position is its WAL offset, and in which an append  *)
(* is acknowledged only once its record is in the log.  The local JSONL    *)
(* WAL is shown to implement it; the relay pipeline is built on it.        *)
(***************************************************************************)
EXTENDS Naturals, Sequences

CONSTANT Events        \* event envelopes, told apart only by identity

VARIABLES
  log,                 \* log[o + 1] is the event stored at WAL offset o
  acknowledged         \* the [off, ev] pairs for which append returned APPENDED

jvars == <<log, acknowledged>>

JInit ==
  /\ log = <<>>
  /\ acknowledged = {}

\* A record reaches the log; its append has not returned yet.
JStore(e) ==
  /\ log' = Append(log, e)
  /\ UNCHANGED acknowledged

\* append returns APPENDED for a record that is in the log.
JAcknowledge(o) ==
  /\ acknowledged' = acknowledged \cup {[off |-> o - 1, ev |-> log[o]]}
  /\ UNCHANGED log

JNext ==
  \/ \E e \in Events : JStore(e)
  \/ \E o \in DOMAIN log : JAcknowledge(o)

JSpec == JInit /\ [][JNext]_jvars
=============================================================================
