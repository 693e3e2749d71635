---------------------------- MODULE MCWorkflow ----------------------------
EXTENDS Workflow

\* The first of the verifiers decides, the second is only reported.
MCRequired == {1}
============================================================================
