----------------------------- MODULE MCRequests -----------------------------
(***************************************************************************)
(* Requests on instances small enough for TLC in minutes: one request next *)
(* to the changes and the Bazel jobs.  Requests meet in the pool and at    *)
(* the type checker's mutex only; the proofs are about any number of them. *)
(***************************************************************************)
EXTENDS Requests
=============================================================================
