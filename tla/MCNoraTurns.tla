---------------------------- MODULE MCNoraTurns ----------------------------
(***************************************************************************)
(* Small instances of NoraTurns, whose ids are numbers.                    *)
(***************************************************************************)
EXTENDS NoraTurns, TLC

\* Two turns share a worker; the other may be with them or at a second one.
MCRoutes == <<{1}, {2}, {1}>>
=============================================================================
