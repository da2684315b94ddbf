-------------------------- MODULE MCDispatchPipeline --------------------------
EXTENDS DispatchPipeline
=============================================================================
