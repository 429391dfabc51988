------------------------------- MODULE Uploads -------------------------------
(***************************************************************************)
(* Pictures, for messages and as avatars.  An upload waits for a slot,     *)
(* receives and re-encodes the picture while it holds it, stores the       *)
(* result and its thumbnail under the hash of the result, and names them   *)
(* by a row.  A file is written beside its place and renamed into it; what *)
(* is left beside it is nobody's and has no variable.  What Process makes  *)
(* of a picture is left out: uploads of one picture share two files.       *)
(***************************************************************************)
EXTENDS Naturals, FiniteSets

CONSTANTS
  Accounts,
  Uploads,      \* requests; the id of an attachment is named by its upload
  AccountOf,    \* who sends an upload
  Pictures,
  PictureOf,    \* what it becomes, and so its hash
  Avatars,      \* the uploads to /me/avatar
  Slots,        \* capacity of Uploads.sem
  NoUpload

ASSUME UploadsAssumption ==
  /\ AccountOf \in [Uploads -> Accounts]
  /\ PictureOf \in [Uploads -> Pictures]
  /\ Avatars \subseteq Uploads
  /\ Slots \in Nat \ {0}
  /\ NoUpload \notin Uploads

Variants == {"full", "thumb"}

VARIABLES
  stage,
  variant,        \* what an upload stores, or will store next
  blob,           \* the named files
  taken,          \* how many slots are
  attachments,    \* table attachments
  avatar,         \* users.avatar_id
  posts           \* messages with an attachment: pairs of account and id

uploadVars == <<stage, variant, blob, taken, attachments, avatar, posts>>
uploadRows == <<attachments, avatar, posts>>

Over == {"done", "failed", "dead"}

UploadsTypeOK ==
  /\ stage \in [Uploads ->
       Over \cup {"idle", "wait", "receive", "stat", "temp", "write", "rename", "row", "avatar"}]
  /\ variant \in [Uploads -> Variants]
  /\ blob \in [Pictures \X Variants -> {"absent", "part", "whole"}]
  /\ taken \in 0 .. Slots
  /\ attachments \subseteq Uploads
  /\ avatar \in [Accounts -> Uploads \cup {NoUpload}]
  /\ posts \subseteq Accounts \X Uploads

UploadsInit ==
  /\ stage = [r \in Uploads |-> "idle"]
  /\ variant = [r \in Uploads |-> "full"]
  /\ blob = [f \in Pictures \X Variants |-> "absent"]
  /\ taken = 0
  /\ attachments = {}
  /\ avatar = [u \in Accounts |-> NoUpload]
  /\ posts = {}

Stands(r, here) == stage[r] = here
Moves(r, there) == stage' = [stage EXCEPT ![r] = there]
File(r) == <<PictureOf[r], variant[r]>>

-----------------------------------------------------------------------------
\* The rate limit refuses it, or there is no image part.
Start(r) ==
  /\ Stands(r, "idle")
  /\ Moves(r, "wait") \/ Moves(r, "failed")
  /\ UNCHANGED <<variant, blob, taken, uploadRows>>

Acquire(r) ==
  /\ Stands(r, "wait") /\ taken < Slots
  /\ taken' = taken + 1
  /\ Moves(r, "receive")
  /\ UNCHANGED <<variant, blob, uploadRows>>

\* ctx.Done(): the client went away while it waited.
GoAway(r) ==
  /\ Stands(r, "wait")
  /\ Moves(r, "failed")
  /\ UNCHANGED <<variant, blob, taken, uploadRows>>

ProcessKeepsSlot(r) ==
  /\ Stands(r, "receive")
  /\ \/ Moves(r, "stat") /\ taken' = taken - 1
     \/ Moves(r, "failed") /\ UNCHANGED taken
  /\ UNCHANGED <<variant, blob, uploadRows>>

\* The client has sent everything, or breaks off; a bad picture ends here, too.
Process(r) ==
  /\ Stands(r, "receive")
  /\ taken' = taken - 1
  /\ Moves(r, "stat") \/ Moves(r, "failed")
  /\ UNCHANGED <<variant, blob, uploadRows>>

-----------------------------------------------------------------------------
(* Store.Put, of the full picture and then of the thumbnail. *)
Stored(r) ==
  IF variant[r] = "full"
    THEN variant' = [variant EXCEPT ![r] = "thumb"] /\ Moves(r, "temp")
    ELSE UNCHANGED variant /\ Moves(r, "row")

\* Only a full picture is not written again.
Stat(r) ==
  /\ Stands(r, "stat")
  /\ \/ blob[File(r)] # "absent" /\ Stored(r)
     \/ blob[File(r)] = "absent" /\ Moves(r, "temp") /\ UNCHANGED variant
  /\ UNCHANGED <<blob, taken, uploadRows>>

CreateTempInPlace(r) ==
  /\ Stands(r, "temp")
  /\ blob' = [blob EXCEPT ![File(r)] = "part"]
  /\ Moves(r, "write")
  /\ UNCHANGED <<variant, taken, uploadRows>>

CreateTemp(r) ==
  /\ Stands(r, "temp")
  /\ Moves(r, "write") \/ Moves(r, "failed")
  /\ UNCHANGED <<variant, blob, taken, uploadRows>>

\* Written, synced and closed.
Write(r) ==
  /\ Stands(r, "write")
  /\ Moves(r, "rename") \/ Moves(r, "failed")
  /\ UNCHANGED <<variant, blob, taken, uploadRows>>

Rename(r) ==
  /\ Stands(r, "rename")
  /\ \/ blob' = [blob EXCEPT ![File(r)] = "whole"] /\ Stored(r)
     \/ UNCHANGED <<blob, variant>> /\ Moves(r, "failed")
  /\ UNCHANGED <<taken, uploadRows>>

-----------------------------------------------------------------------------
After(r) == IF r \in Avatars THEN "avatar" ELSE "done"

CreateRowErrorIgnored(r) ==
  /\ Stands(r, "row")
  /\ attachments' \in {attachments, attachments \cup {r}}
  /\ Moves(r, After(r))
  /\ UNCHANGED <<variant, blob, taken, avatar, posts>>

\* A statement that reports an error may have taken effect.
CreateRow(r) ==
  /\ Stands(r, "row")
  /\ \/ attachments' = attachments \cup {r} /\ Moves(r, After(r))
     \/ attachments' \in {attachments, attachments \cup {r}} /\ Moves(r, "failed")
  /\ UNCHANGED <<variant, blob, taken, avatar, posts>>

Pointed(r) == [avatar EXCEPT ![AccountOf[r]] = r]

SetAvatar(r) ==
  /\ Stands(r, "avatar")
  /\ \/ avatar' = Pointed(r) /\ Moves(r, "done")
     \/ avatar' \in {avatar, Pointed(r)} /\ Moves(r, "failed")
  /\ UNCHANGED <<variant, blob, taken, attachments, posts>>

\* A text-message with an attachment: ownsAttachment reads the row, whatever the upload
\* answered.
PostPicture(u, r) ==
  /\ r \in attachments /\ AccountOf[r] = u
  /\ posts' = posts \cup {<<u, r>>}
  /\ UNCHANGED <<stage, variant, blob, taken, attachments, avatar>>

\* The process goes down with its uploads and its slots.
Die ==
  /\ stage' = [r \in Uploads |-> IF stage[r] \in Over \cup {"idle"} THEN stage[r] ELSE "dead"]
  /\ taken' = 0
  /\ UNCHANGED <<variant, blob, uploadRows>>

\* What an upload does once its client has sent it.
Work(r) ==
  \/ Stat(r) \/ CreateTemp(r) \/ Write(r) \/ Rename(r)
  \/ CreateRow(r) \/ SetAvatar(r)

Upload(r) ==
  \/ Start(r) \/ Acquire(r) \/ GoAway(r) \/ Process(r)
  \/ Work(r) \/ \E u \in Accounts : PostPicture(u, r)

\* GET /attachment/{id} and /thumb find the row and the file.
Serves(a) == a \in attachments /\ \A v \in Variants : blob[<<PictureOf[a], v>>] = "whole"

-----------------------------------------------------------------------------
\* A row names a picture and a thumbnail that are there and complete, whoever wrote them
\* and wherever uploads of the picture failed or died (upload_http.go:143).
BlobsBehindRows == \A a \in attachments : Serves(a)

\* What clients are shown can be fetched: what an upload answered, what messages carry,
\* and what an account has as its avatar, which is its own upload.
ShownIsServed ==
  /\ \A r \in Uploads : Stands(r, "done") => Serves(r)
  /\ \A p \in posts : Serves(p[2]) /\ AccountOf[p[2]] = p[1]
  /\ \A u \in Accounts : avatar[u] # NoUpload => Serves(avatar[u]) /\ AccountOf[avatar[u]] = u

-----------------------------------------------------------------------------
(* The files, rows and stages as Gallery sees them. *)
\* What GET /attachment/{id} and /thumb give.
Answer(r) == IF r \notin attachments THEN "nothing" ELSE IF Serves(r) THEN "picture" ELSE "broken"

Told(r) ==
  IF Stands(r, "done") THEN "id" ELSE IF Stands(r, "failed") THEN "error"
  ELSE IF Stands(r, "dead") THEN "lost" ELSE "nothing"

Promise == INSTANCE Gallery WITH
  answers <- [r \in Uploads |-> Answer(r)],
  told <- [r \in Uploads |-> Told(r)]

\* Wherever uploads of one picture race, fail or die: an id gives nothing until it gives
\* the whole picture and its thumbnail, and from then on gives them for ever, as the
\* clients that cache it believe (upload_http.go:24); who hears an id can fetch it; avatars
\* and posts change only to a picture of their own account.
GallerySpec == Promise!Spec

-----------------------------------------------------------------------------
Receivers == {r \in Uploads : Stands(r, "receive")}

\* Uploads that their clients are still sending hold every slot.
Stalled == Cardinality(Receivers) = Slots

\* An upload ends unless its own client stalls, or clients that stall hold every slot.
UploadsEnd == \A r \in Uploads :
  \/ []<>(stage[r] \in Over \cup {"idle"})
  \/ <>[]Stands(r, "receive")
  \/ <>[]Stalled
=============================================================================
