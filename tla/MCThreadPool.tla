---------------------------- MODULE MCThreadPool ----------------------------
(* The instance of ThreadPool that TLC checks: three threads, so that one  *)
(* wake-up must choose between two waiters while the third is busy, a      *)
(* queue that fills up, and more tasks than the queue and two threads hold.*)
EXTENDS ThreadPool, TLC

CONSTANTS t1, t2, t3

MCThreads   == {t1, t2, t3}
MCQueueSize == 2
MCMaxTasks  == 5

\* The safety runs use it: no action tells the threads apart.
Symmetry == Permutations(MCThreads)

=============================================================================
