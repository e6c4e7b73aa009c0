--------------------------- MODULE ServerThreads ---------------------------
(***************************************************************************)
(* What the modules of ServerJobs have in common: the threads that serve   *)
(* requests and the database they share.                                   *)
(***************************************************************************)
CONSTANTS
    Thread,
    None,      \* NULL, and what is absent
    OnSqlite   \* a set of Booleans: whether the database is SQLite

ASSUME DatabaseAssumption == OnSqlite \subseteq BOOLEAN
=============================================================================
