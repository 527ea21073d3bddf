--------------------------- MODULE MCUserService ----------------------------
(* UserService on small instances.                                         *)
EXTENDS UserService

\* Connections and user names.
CONSTANTS c1, c2, ann, bob

=============================================================================
