------------------------------ MODULE MCDaemon ------------------------------
(* A prefix of four addresses, two migrations, one client address and two  *)
(* names: one that needs lower case and is cut right after a dash, and one *)
(* of which nothing is left.                                               *)
EXTENDS Daemon

CONSTANTS m1, m2

MCMigrations == <<m1, m2>>
MCNames == {<<"A", "_", "a">>, <<"_">>}
=============================================================================
