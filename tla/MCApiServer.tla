---------------------------- MODULE MCApiServer -----------------------------
(* Instances of ApiServer for TLC: commands about one user, run with and   *)
(* without the password, by a client of another version and by strangers.  *)
EXTENDS ApiServer, TLC

MCRun(type, compatible, password, orderly) ==
    [type |-> type, name |-> "anna", compatible |-> compatible, password |-> password,
     orderly |-> orderly]

MCChanges ==
    {MCRun(type, access[1], access[2], access[3]) :
        type \in {"UserRegister", "UserDnsMapping"},
        access \in {<<TRUE, TRUE, TRUE>>, <<TRUE, FALSE, FALSE>>, <<FALSE, TRUE, FALSE>>}}

MCCommand == MCChanges \cup
    {MCRun("UserRegister", TRUE, FALSE, TRUE), MCRun("UserRegister", FALSE, TRUE, TRUE),
     MCRun("PasswdGetList", TRUE, FALSE, TRUE), MCRun("ControlCheckAuth", TRUE, FALSE, TRUE)}
=============================================================================
