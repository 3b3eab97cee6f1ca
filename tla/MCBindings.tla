---- MODULE MCBindings ----
(***************************************************************************)
(* The bindings of four languages and the programs of two more, with a     *)
(* file that has nodes and attributes and with one that has none.          *)
(***************************************************************************)
EXTENDS Bindings

====
