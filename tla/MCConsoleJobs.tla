--------------------------- MODULE MCConsoleJobs ---------------------------
(* Small ledgers for ConsoleJobs; every constant is given in the .cfg.     *)
EXTENDS ConsoleJobs
=============================================================================
