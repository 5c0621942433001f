---------------------------- MODULE MCDashboard -----------------------------
(***************************************************************************)
(* An instance of Dashboard for TLC: two requests that change the field,   *)
(* two of the browser's requests for the overview, two builds at once, of  *)
(* two generations.  A third, which two changes during one build may call  *)
(* for, waits; the safety properties are proved for any number.            *)
(***************************************************************************)
EXTENDS Dashboard
=============================================================================
