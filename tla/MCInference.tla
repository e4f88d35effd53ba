----------------------------- MODULE MCInference -----------------------------
(***************************************************************************)
(* Inference on instances small enough for TLC.                            *)
(***************************************************************************)
EXTENDS Inference, TLC

CONSTANTS top, lib, dep, build

\* top, the prelude of build, loads lib; lib loads dep, or top in a circle; dep
\* loads nothing, or has a text the parser panics on.
ChainAndCircle == top :> {lib} @@ lib :> {dep, top} @@ dep :> {None, Panic}
                    @@ build :> {None}

\* lib loads dep.
LoadOne == lib :> {dep} @@ dep :> {None}
=============================================================================
