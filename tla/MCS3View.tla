------------------------------ MODULE MCS3View ------------------------------
(* Small instance of S3View for TLC: the same key in two buckets, and a    *)
(* key with the name of the other bucket and a slash in it.                *)
EXTENDS S3View, TLC

MCNames == {<<<<"p">>, <<"x.txt">>>>, <<<<"q">>, <<"x.txt">>>>, <<<<"p">>, <<"q", "y">>>>}
MCExtension == [n \in MCNames |-> IF Last(n[2]) = "x.txt" THEN "text" ELSE "octet"]
ClientSymmetry == Permutations(Clients)
=============================================================================
