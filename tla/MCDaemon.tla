------------------------------ MODULE MCDaemon ------------------------------
EXTENDS Daemon
CONSTANTS k1, k2
MCKeys == {k1, k2}
MCReissued == {k2}
============================================================================
