-------------------------- MODULE MCReleasePipeline --------------------------
(* Two of the five targets. *)
EXTENDS ReleasePipeline

TwoTargets == <<"linux", "windows">>
==============================================================================
