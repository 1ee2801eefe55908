------------------------------ MODULE Planner ------------------------------
(***************************************************************************)
(* SimplePlanner.Plan: how a file is cut into the segments that            *)
(* downloadSegments fetches at the same time.  An end of -1 stands for an  *)
(* unknown end.  The index of a segment is its place in the plan less one. *)
(***************************************************************************)
EXTENDS Integers, Sequences

\* MaxConnections of the configuration, or 4 when it is not set.
MaxConns(configured) == IF configured > 0 THEN configured ELSE 4

SegStart(len, conns, i) == (len \div conns) * i

\* Slip: ends that are exclusive where they are meant to be inclusive.
SegEndExclusive(len, conns, i) ==
  IF i = conns - 1 THEN len - 1 ELSE (len \div conns) * (i + 1)

SegEnd(len, conns, i) == IF i = conns - 1 THEN len - 1 ELSE (len \div conns) * (i + 1) - 1

Plan(len, acceptRanges, configured) ==
  LET conns == MaxConns(configured) IN
  IF ~acceptRanges \/ len <= 0
  THEN <<[start |-> 0, end |-> -1]>>
  ELSE [i \in 1..conns |-> [start |-> SegStart(len, conns, i - 1),
                            end |-> SegEnd(len, conns, i - 1)]]
=============================================================================
