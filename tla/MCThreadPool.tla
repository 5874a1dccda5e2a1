---------------------------- MODULE MCThreadPool ----------------------------
(* Instances of the thread pool for TLC. *)
EXTENDS ThreadPool

CONSTANTS e1, e2, e3, w1, w2, k1, k2
=============================================================================
