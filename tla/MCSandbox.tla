----------------------------- MODULE MCSandbox -----------------------------
EXTENDS Sandbox

Both     == {"command", "workflow"}
Command  == {"command"}
Workflow == {"workflow"}
============================================================================
