-------------------------------- MODULE Pages --------------------------------
(***************************************************************************)
(* A tab shows the profile page or the form of a post.  The two share no   *)
(* state, and which one is shown is chosen at the start.                   *)
(***************************************************************************)
EXTENDS ProfilePage, PostFields

VARIABLE page

vars == <<page, profileVars, fieldVars>>

Init == page \in {"profile", "post"} /\ ProfileInit /\ FieldsInit

OnProfile == page = "profile" /\ ProfileNext /\ UNCHANGED <<page, fieldVars>>
OnPost == page = "post" /\ FieldsNext /\ UNCHANGED <<page, profileVars>>

Next == OnProfile \/ OnPost

Spec == Init /\ [][Next]_vars

TypeOK == page \in {"profile", "post"} /\ ProfileTypeOK /\ FieldsTypeOK
=============================================================================
