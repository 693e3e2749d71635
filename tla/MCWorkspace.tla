---------------------------- MODULE MCWorkspace ----------------------------
EXTENDS Workspace

AllSources == {"local", "archive", "git"}
GitOnly    == {"git"}
MCSizes    == {0, 1, 2}
============================================================================
