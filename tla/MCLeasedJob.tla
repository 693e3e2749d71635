---------------------------- MODULE MCLeasedJob ----------------------------
EXTENDS LeasedJob
============================================================================
