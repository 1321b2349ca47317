------------------------------ MODULE EventLog ------------------------------
(***************************************************************************)
(* What the event store promises its users: streams that only ever grow,   *)
(* in steps that are atomic over all streams, and an idempotency key that  *)
(* appends once.                                                           *)
(***************************************************************************)
EXTENDS Naturals, Sequences

CONSTANT Stream      \* pairs of a stream type and a stream id
VARIABLE log         \* log[s]: the events of s, each with its key

Init == log = [s \in Stream |-> << >>]

Extends(longer, shorter) ==
  /\ Len(longer) >= Len(shorter)
  /\ \A i \in 1 .. Len(shorter) : longer[i] = shorter[i]

\* The keys that streams with the id of s have seen.
Used(s) ==
  UNION {{log[t][i].key : i \in 1 .. Len(log[t])} : t \in {u \in Stream : u[2] = s[2]}}

\* Any set of streams grows at once, each by events under keys not used before.
Grow ==
  \A s \in Stream :
    /\ Extends(log'[s], log[s])
    /\ \A i \in (Len(log[s]) + 1) .. Len(log'[s]) : log'[s][i].key \notin Used(s)

Spec == Init /\ [][Grow]_log
=============================================================================
