---------------------------- MODULE MCDataThread ----------------------------
EXTENDS DataThread
=============================================================================
