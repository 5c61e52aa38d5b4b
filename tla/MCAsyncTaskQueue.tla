------------------------- MODULE MCAsyncTaskQueue -------------------------
(* The event loop's task queue on small instances. *)
EXTENDS AsyncTaskQueue

=============================================================================
