----------------------------- MODULE MCInstance ------------------------------
(* Three runs of the process, one slot, a picture that two accounts upload, *)
(* one of them as a message and as the avatar.                              *)
EXTENDS Instance, TLC

CONSTANTS ann, bob, ann1, ann2, bob1, cat

Senders == [r \in Uploads |-> IF r = bob1 THEN bob ELSE ann]
AllCats == [r \in Uploads |-> cat]
=============================================================================
