--------------------------- MODULE MCAdminWrites ---------------------------
(***************************************************************************)
(* Two administrators and a user with a small library.                     *)
(***************************************************************************)
EXTENDS AdminWrites, TLC

MCOwnerOf == [f \in Files |-> 3]
MCObjectOf == [u \in Users |-> 20 + u]
MCSessionOf == [u \in Users |-> 30 + u]

Ask(kind, targets, to, file) == [kind |-> kind, targets |-> targets, to |-> to, file |-> file]

(* What can be asked about accounts ...                                    *)
AccountBodies ==
    {Ask("set_active", {u}, FALSE, None) : u \in {1, 2}}
    \cup {Ask("set_role", {1, 2}, FALSE, None), Ask("set_role", {3}, TRUE, None)}
    \cup {Ask("set_password", {2, 3}, TRUE, None)}
    \cup {Ask("delete_user", {u}, FALSE, None) : u \in {1, 3}}

(* ... and about files.                                                    *)
FileBodies ==
    {Ask("delete_user", {3}, FALSE, None)}
    \cup {Ask(k, {}, FALSE, f) : k \in {"delete_file", "own_delete", "create_job"}, f \in Files}
    \cup {Ask("upload", {}, FALSE, CHOOSE f \in Files : TRUE), Ask("create_job", {}, FALSE, None)}

MCBodies == AccountBodies \cup FileBodies

AnyCall == Permutations(Requests) \cup Permutations(Keys)
=============================================================================
