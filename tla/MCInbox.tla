------------------------------ MODULE MCInbox ------------------------------
(***************************************************************************)
(* Small instances of Inbox: a supervisor and people of one area or two.   *)
(***************************************************************************)
EXTENDS Inbox, TLC

CONSTANTS p1, p2

MCPeople == {p1, p2}
MCRoleOf == [p \in MCPeople |-> IF p = p1 THEN "comercial" ELSE "supervisor"]
MCRoles == {"comercial"}

\* A status alone, an area or an owner alone and with a status, and a supervisor
\* as owner, which is refused.
MCUpdates ==
    [asked : {{"status"}}, status : {"nuevo", "resuelto"}, role : MCRoles, user : {None}]
    \cup [asked : {{"role"}, {"status", "role"}}, status : {"en_gestion"}, role : MCRoles,
           user : {None}]
    \cup [asked : {{"user"}, {"status", "user"}}, status : {"pendiente"}, role : MCRoles,
           user : MCPeople \cup {None}]

\* Ids of messages are interchangeable.
Symmetry == Permutations(Messages)
=============================================================================
