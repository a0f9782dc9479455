----------------------------- MODULE MCConfigEditor -----------------------------
(* Two programs that edit one file. *)
EXTENDS ConfigEditor, TLC
================================================================================
