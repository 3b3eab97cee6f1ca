---- MODULE GendersTable ----
(***************************************************************************)
(* What loading a genders file promises to the callers of the library: the *)
(* store is empty, or it holds exactly what one correct file says, or      *)
(* memory ran out where the parser does not look, and nothing is promised. *)
(***************************************************************************)
EXTENDS GendersFile

VARIABLE store

Nothing == [state |-> "empty", nodes |-> {}, attrs |-> {}, table |-> {}]
Doubtful == [Nothing EXCEPT !.state = "doubtful"]

Contents(f) ==
  [state |-> "loaded",
   nodes |-> NodesUpTo(f, Len(f)),
   attrs |-> AttrsUpTo(f, Len(f)),
   table |-> TableUpTo(f, Len(f))]

Init == store = Nothing

Load(f) ==
  /\ store.state = "empty"
  /\ Correct(f)
  /\ store' = Contents(f)

(* A load during which an allocation failed unnoticed.                      *)
LoadBlindly ==
  /\ store.state = "empty"
  /\ store' = Doubtful

(* genders_load_data() on a loaded handle forgets everything.               *)
Forget ==
  /\ store.state # "empty"
  /\ store' = Nothing

Next == Forget \/ LoadBlindly \/ \E f \in File : Load(f)

Spec == Init /\ [][Next]_store

====
