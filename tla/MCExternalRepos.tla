--------------------------- MODULE MCExternalRepos ---------------------------
(***************************************************************************)
(* ExternalRepos on instances small enough for TLC.                        *)
(***************************************************************************)
EXTENDS ExternalRepos, TLC

CONSTANTS f1, f2, r1, r2

\* Two files load from one repository; the save gives one of them another.
OneNameMoves == 0 :> (f1 :> r1 @@ f2 :> r1) @@ 1 :> (f1 :> r1 @@ f2 :> r2)
=============================================================================
