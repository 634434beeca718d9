--------------------------- MODULE EditedRegister ---------------------------
(***************************************************************************)
(* What the settings file promises to the programs that edit it: a         *)
(* register with optimistic editing.  An editor loads the value, and may   *)
(* replace it only while the register still holds what it has loaded.      *)
(***************************************************************************)
CONSTANTS Editors, Contents, Nothing

VARIABLES
  value, \* the content of the register
  seen   \* what each editor loaded last

Init == value \in Contents /\ seen = [e \in Editors |-> Nothing]

Load(e) == /\ seen' = [seen EXCEPT ![e] = value]
           /\ UNCHANGED value

Replace(e) == /\ seen[e] = value
              /\ value' \in Contents
              /\ UNCHANGED seen

(* An editor that ends knows nothing when it comes back. *)
Forget(e) == /\ seen' = [seen EXCEPT ![e] = Nothing]
             /\ UNCHANGED value

Next == \E e \in Editors : Load(e) \/ Replace(e) \/ Forget(e)

Spec == Init /\ [][Next]_<<value, seen>>
=============================================================================
