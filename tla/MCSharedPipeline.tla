--------------------------- MODULE MCSharedPipeline ---------------------------
EXTENDS SharedPipeline

\* The pipeline raises ingress_stop only; worker_stop stays false.
MCStopScopes == {{"push"}}
=============================================================================
