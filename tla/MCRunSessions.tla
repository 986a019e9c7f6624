--------------------------- MODULE MCRunSessions ---------------------------
(* Two sessions and two processes: sessions of one process contend for its    *)
(* evolution lock, sessions of two processes for the genome file.             *)
EXTENDS RunSessions
=============================================================================
