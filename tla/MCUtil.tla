------------------------------- MODULE MCUtil -------------------------------
EXTENDS Util

Button(name, drive) == [name |-> name, type |-> "button", drive |-> drive, valid |-> TRUE, address |-> None]
Bound(name, type, address) == [name |-> name, type |-> type, drive |-> "address", valid |-> TRUE, address |-> address]
Called(name, type, drive) == [name |-> name, type |-> type, drive |-> drive, valid |-> TRUE, address |-> None]

(* "con" and "cont" are alike, and like "controls".  2 stands for a float  *)
(* that is too small for the six digits of "%f".                           *)
SomeNames == {"bot", "pad", "gap", "con", "cont", "a:b"}
SomeAlike(n, m) == n = m \/ {n, m} = {"con", "cont"}
SomePrinted(v) == IF v = 2 THEN 0 ELSE v
SomeControls ==
  {Bound("bot", "int", "v"), Called("pad", "float", "command"), Called("gap", "float", "callback"),
   Called("con", "int", "callback"), Button("cont", "callback"), Button("a:b", "command")}

Alikes == Permutations(Clients)
=============================================================================
