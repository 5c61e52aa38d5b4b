--------------------------- MODULE MCThreadPool ---------------------------
(* The thread pool on small instances. *)
EXTENDS ThreadPool

=============================================================================
