------------------------------- MODULE Gallery -------------------------------
(***************************************************************************)
(* What the server promises about pictures, with no word about files,      *)
(* slots, temporary names, statements that fail half-way or the runs of    *)
(* the process: a picture appears in one step, complete, and stays; its    *)
(* uploader is told an id that gives it; and avatars and posts show only   *)
(* pictures that their own account uploaded.  Uploads implements it.       *)
(***************************************************************************)
EXTENDS Naturals

CONSTANTS Accounts, Uploads, AccountOf, Avatars, NoUpload

VARIABLES
  answers,   \* what the id of an upload gives: "nothing", "picture" or "broken"
  told,      \* what the uploader hears: "nothing" yet, "id", "error", "lost"
  avatar,    \* the upload an account has as its avatar
  posts      \* pairs of an account and an upload

vars == <<answers, told, avatar, posts>>

Init ==
  /\ answers = [r \in Uploads |-> "nothing"]
  /\ told = [r \in Uploads |-> "nothing"]
  /\ avatar = [u \in Accounts |-> NoUpload]
  /\ posts = {}

Waiting(r) == told[r] = "nothing"
Tells(r, what) == told' = [told EXCEPT ![r] = what]

\* The uploader hears the id, or an error although the picture is there now; an avatar
\* is not finished yet.
Appear(r) ==
  /\ Waiting(r) /\ answers[r] = "nothing"
  /\ answers' = [answers EXCEPT ![r] = "picture"]
  /\ IF r \in Avatars THEN UNCHANGED told \/ Tells(r, "error")
                      ELSE Tells(r, "id") \/ Tells(r, "error")
  /\ UNCHANGED <<avatar, posts>>

Refuse(r) ==
  /\ Waiting(r)
  /\ Tells(r, "error")
  /\ UNCHANGED <<answers, avatar, posts>>

Wear(r) ==
  /\ Waiting(r) /\ r \in Avatars /\ answers[r] = "picture"
  /\ avatar' = [avatar EXCEPT ![AccountOf[r]] = r]
  /\ Tells(r, "id") \/ Tells(r, "error")
  /\ UNCHANGED <<answers, posts>>

Post(r) ==
  /\ answers[r] = "picture"
  /\ posts' = posts \cup {<<AccountOf[r], r>>}
  /\ UNCHANGED <<answers, told, avatar>>

\* The process dies: nobody who waits hears anything, and no picture is lost.
Lose ==
  /\ \E lost \in SUBSET Uploads :
       /\ \A r \in lost : Waiting(r)
       /\ told' = [r \in Uploads |-> IF r \in lost THEN "lost" ELSE told[r]]
  /\ UNCHANGED <<answers, avatar, posts>>

Next ==
  \/ \E r \in Uploads : Appear(r) \/ Refuse(r) \/ Wear(r) \/ Post(r)
  \/ Lose

Spec == Init /\ [][Next]_vars
=============================================================================
