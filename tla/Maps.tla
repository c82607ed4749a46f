--------------------------------- MODULE Maps ---------------------------------
(* Maps as the components keep them: functions whose domain grows.         *)

Empty == [x \in {} |-> x]

(* HashMap::insert *)
Put(f, x, y) == [z \in DOMAIN f \cup {x} |-> IF z = x THEN y ELSE f[z]]
=============================================================================
