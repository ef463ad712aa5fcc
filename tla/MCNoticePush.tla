---------------------------- MODULE MCNoticePush ----------------------------
(***************************************************************************)
(* A small instance of NoticePush.                                         *)
(***************************************************************************)
EXTENDS NoticePush

\* One belongs to a user who left.
MCInactive == {2}
=============================================================================
