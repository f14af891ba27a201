------------------------------ MODULE MCSample ------------------------------
(* The controls that the sample registers (tests/game.cpp).                *)
EXTENDS Util

Called(name, type) == [name |-> name, type |-> type, drive |-> "callback", valid |-> TRUE, address |-> None]

Sample == <<Called("Pause", "button"), Called("Difficulty", "float"), Called("Brightness", "float"),
            Called("Bots", "int"), Called("Infinite loop", "button")>>

SampleNames    == {c.name : c \in ToSet(Sample)}
SampleControls == ToSet(Sample)
SamePrinted(v) == v
SameName(n, m) == n = m

(* With the five controls of the sample, in its order, the server is       *)
(* created: tests/game.cpp goes on to send data only then.  It may still   *)
(* find no free port.                                                      *)
SampleStarts ==
  outcome # "none" /\ [k \in DOMAIN util.controls |-> util.controls[k].name] = [k \in DOMAIN Sample |-> Sample[k].name]
    => outcome \in {"ok", "busy"}
=============================================================================
