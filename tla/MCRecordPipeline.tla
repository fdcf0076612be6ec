-------------------------- MODULE MCRecordPipeline --------------------------
(* The pipeline's run: its records are what the proof of OwnResultsExcluded *)
(* takes them for.                                                          *)
EXTENDS MCSessionScan, SessionInvariant

ASSUME PipelineRecordsRead == OwnRecordsRead
ASSUME PipelineFieldsRead == FieldsRead
=============================================================================
