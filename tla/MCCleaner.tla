------------------------------ MODULE MCCleaner ------------------------------
(* Small instances of Cleaner for TLC: a basic group and supergroups, messages *)
(* with consecutive ids, and some of them sent before the program first ran.   *)
EXTENDS Cleaner, TLC

CONSTANTS g, s1, w1, w2, sw

\* The first messages of the supergroup exist before the program.
SuperHistory1 == {<<s1, 1>>}
SuperHistory2 == {<<s1, 1>>, <<s1, 2>>}

\* The goroutines of the pool are interchangeable.
WorkerSymmetry == Permutations(Workers)

\* Every variable but deleted, the counter of /status: no guard reads it, and no
\* property but its type, so states that differ in nothing else are taken as one.
Uncounted == <<server, conf, conn, cached, index, active, loop, jobs, task, budget>>
=============================================================================
