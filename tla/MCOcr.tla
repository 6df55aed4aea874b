-------------------------------- MODULE MCOcr -------------------------------
(* Constants of the TLC runs of OcrPipeline.                               *)
EXTENDS OcrPipeline, TLC

AnalysisOps == {"upload", "requestAi", "deleteFile", "deleteSaved"}
TempOps == {"upload", "reorder", "requestAi", "deleteFile", "deleteAll", "deleteDoc"}
RequestOps == {"upload", "requestAi"}

Symmetry == Permutations(Requests) \cup Permutations(Workers) \cup Permutations(Files)
=============================================================================
