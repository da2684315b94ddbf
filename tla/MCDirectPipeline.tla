--------------------------- MODULE MCDirectPipeline ---------------------------
EXTENDS DirectPipeline

\* The pipeline raises ingress_stop only; pop_stop stays false.
MCStopScopes == {{"push"}}
=============================================================================
