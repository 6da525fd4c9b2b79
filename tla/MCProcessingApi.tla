-------------------------- MODULE MCProcessingApi --------------------------
\* The API, with two executions: nodes of two events, and a map that moves at every third.
EXTENDS ProcessingApi
=============================================================================
