----------------------------- MODULE MCFraming -----------------------------
EXTENDS Framing
SomeLengths == {0, 2}
=============================================================================
