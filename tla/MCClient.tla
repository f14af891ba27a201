------------------------------ MODULE MCClient ------------------------------
EXTENDS Client
SomeServers == {
  [channels |-> 0, controls |-> << >>],
  [channels |-> 2, controls |-> <<"unrecognised", "recognised">>]}
=============================================================================
