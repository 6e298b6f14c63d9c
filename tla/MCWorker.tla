------------------------------ MODULE MCWorker ------------------------------
EXTENDS WorkerPage

MCEntries == <<"self", "ini", "hekate", "mark">>

=============================================================================
