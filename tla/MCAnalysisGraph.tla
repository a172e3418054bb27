-------------------------- MODULE MCAnalysisGraph --------------------------
(***************************************************************************)
(* A small session of AnalysisGraph for TLC.                               *)
(***************************************************************************)
EXTENDS AnalysisGraph

CONSTANTS f1, f2, p1

MCFiles   == {f1, f2}
MCParams  == {p1}
=============================================================================
