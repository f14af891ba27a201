----------------------------- MODULE MCDropBox -----------------------------
(* The two drop boxes with one data thread at a time.  No constant of this *)
(* module is given by symmetry: packets and commands must keep their order.*)
EXTENDS DropBox
=============================================================================
