---------------------------- MODULE MCVisitNotices ----------------------------
(***************************************************************************)
(* Small instances of VisitNotices: a day is a few ticks.                  *)
(***************************************************************************)
EXTENDS VisitNotices

\* Out of the first lookahead: one between two sweeps, one at a sweep.
MCTimes == {Lookahead + 1, Lookahead + Interval}
=============================================================================
