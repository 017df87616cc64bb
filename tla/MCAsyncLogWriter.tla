-------------------------- MODULE MCAsyncLogWriter --------------------------
(* Two logging threads, the writer thread and the owner.                   *)
EXTENDS AsyncLogWriter

CONSTANTS a, b, w, o

MCLoggers == {a, b}
MCThreads == {a, b, w, o}
MCConsumers == {w, o}
=============================================================================
