----------------------------- MODULE ConfigFile -----------------------------
(***************************************************************************)
(* The file in which the server keeps the values of sliders from one       *)
(* process to the next (server/viewback_config.h).  A file is the sequence *)
(* of controls and values in it, as the server writes them; of a file that *)
(* was cut off in the middle, the values that end with a line count.       *)
(***************************************************************************)
EXTENDS Registry

CONSTANTS
  LikeControls,   \* names that the lexer takes for the keyword "controls"
  Printed(_)      \* what is left of a float's value after printing it with "%f"

ASSUME ConfigFileAssumption ==
  LikeControls \subseteq Names /\ \A v \in Values : Printed(v) \in Values

(* A value that was written as text and read back: "%f" and "%d". *)
AsText(type, value) == IF type = "float" THEN Printed(value) ELSE value

Entry(c) == [name |-> c.name, value |-> AsText(c.type, c.value)]

(* Faulty variant: sliders that are bound to a variable are not written. *)
WrittenUnbound(VB) == Folded(
  LAMBDA file, c : IF Slider(c) /\ c.address = None THEN Append(file, Entry(c)) ELSE file,
  << >>, VB.controls)

(* vb__configfile_write *)
Written(VB) == Folded(
  LAMBDA file, c : IF Slider(c) THEN Append(file, Entry(c)) ELSE file,
  << >>, VB.controls)

(* The parser stops, with all that follows, at a name it takes for the     *)
(* keyword and at a control that is not registered any more: it ignores    *)
(* the line with the name but not the block behind it.                     *)
Stops(VB, entry) == entry.name \in LikeControls \/ FindControl(VB, entry.name) = 0

(* vb__configfile_parse_control, for a control where the parser goes on.   *)
ParseControl(s, entry) ==
  LET k == FindControl(s.VB, entry.name)
      c == s.VB.controls[k]
  IN  CASE s.result # "ok" -> s
        [] s.result = "ok" /\ c.name = None -> [s EXCEPT !.result = "crash"]
        [] s.result = "ok" /\ c.name # None /\ Slider(c) -> SetValue(s, k, entry.value)
        [] OTHER -> s

(* vb__configfile_load *)
Loaded(s, file) ==
  LET stop == SelectInSeq(file, LAMBDA entry : Stops(s.VB, entry))
  IN  Folded(ParseControl, s, IF stop = 0 THEN file ELSE SubSeq(file, 1, stop - 1))
=============================================================================
