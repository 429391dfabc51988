---------------------------- MODULE InstanceProofs ---------------------------
(***************************************************************************)
(* Instance for every number of runs, uploads and slots.  It goes through  *)
(* the steps of Bootstrap; and a named file is never less than whole, so   *)
(* that the upload which finds one instead of writing it may rely on it.   *)
(* As the row comes last, Instance implements Gallery.                     *)
(***************************************************************************)
EXTENDS Instance, FiniteSetTheorems, TLAPS

\* What the current run has written when it stands at a step of the bootstrap.
Progress ==
  /\ step \in {"server", "text", "voice", "record"} => defaultId = NoId /\ id = run
  /\ step \in {"text", "voice", "record"} => id \in serverRows
  /\ step \in {"voice", "record"} => <<id, "text">> \in channelRows
  /\ step = "record" => <<id, "voice">> \in channelRows

\* Server rows come from runs that have happened.
RowsArePast == \A s \in serverRows : s <= run

IInv ==
  /\ TypeOK
  /\ Progress
  /\ RowsArePast
  /\ DefaultServerComplete
  /\ ServesTheDefault
  /\ AbandonedStayAbandoned

-----------------------------------------------------------------------------
\* A fresh database satisfies the inductive invariant.
LEMMA BootstrapInit == Init => IInv
  BY MaxRunsAssumption
  DEF Init, IInv, TypeOK, Progress, RowsArePast, DefaultServerComplete, ServesTheDefault,
      AbandonedStayAbandoned, Runs, NoId, Steps, Kinds

\* Every statement, failure, crash and restart preserves the inductive invariant.
LEMMA BootstrapStep == IInv /\ [Next]_vars => IInv'
<1> SUFFICES ASSUME IInv, [Next]_vars PROVE IInv'
  OBVIOUS
<1> USE MaxRunsAssumption
    DEF IInv, TypeOK, Progress, RowsArePast, DefaultServerComplete, ServesTheDefault,
        AbandonedStayAbandoned, Runs, NoId, Steps, Kinds, rows
<1>1. CASE ReadDefault
  BY <1>1 DEF ReadDefault, Exit, MayFail
<1>2. CASE CreateServer
  <2>1. CASE serverRows' = serverRows \cup {id} /\ GoOn("text")
    BY <1>2, <2>1 DEF CreateServer, GoOn
  <2>2. CASE serverRows' \in {serverRows, serverRows \cup {id}} /\ Exit
    BY <1>2, <2>2 DEF CreateServer, Exit, MayFail
  <2>3. QED
    BY <1>2, <2>1, <2>2 DEF CreateServer
<1>3. CASE CreateTextChannel
  BY <1>3 DEF CreateTextChannel, WithChannel, GoOn, Exit, MayFail
<1>4. CASE CreateVoiceChannel
  BY <1>4 DEF CreateVoiceChannel, WithChannel, GoOn, Exit, MayFail
<1>5. CASE RecordDefault
  BY <1>5 DEF RecordDefault, GoOn, Exit, MayFail
<1>6. CASE Crash
  BY <1>6 DEF Crash, Exit, MayFail
<1>7. CASE Restart
  BY <1>7 DEF Restart
<1>8. CASE UNCHANGED vars
  BY <1>8 DEF vars
<1>9. QED
  BY <1>1, <1>2, <1>3, <1>4, <1>5, <1>6, <1>7, <1>8 DEF Next, Boot

\* The inductive invariant holds in every reachable state of every instance.
THEOREM BootstrapInvariant == Spec => []IInv
  BY BootstrapInit, BootstrapStep, PTL DEF Spec

\* Every variable keeps its type.
THEOREM TypeCorrect == Spec => []TypeOK
  BY BootstrapInvariant, PTL DEF IInv

\* No server row is younger than the recorded server: what an unfinished bootstrap
\* left behind is never served.
THEOREM AbandonedRows == Spec => []AbandonedStayAbandoned
  BY BootstrapInvariant, PTL DEF IInv

\* For every number of runs, crashes and failed statements, a recorded default
\* server has its row and both channels.
THEOREM DefaultServerIsComplete == Spec => []DefaultServerComplete
  BY BootstrapInvariant, PTL DEF IInv

\* A process that serves has bound the recorded id.
THEOREM RunningServesTheDefault == Spec => []ServesTheDefault
  BY BootstrapInvariant, PTL DEF IInv

\* The recorded id never changes: ensureDefaultServer writes it only when it
\* read none, and no other run can have written one in between.
THEOREM DefaultIsStable == Spec => DefaultNeverChanges
<1>1. IInv /\ [Next]_vars => [defaultId # NoId => defaultId' = defaultId]_defaultId
  <2> SUFFICES ASSUME IInv, Next, defaultId # NoId PROVE defaultId' = defaultId
    BY DEF vars, rows
  <2> QED
    BY DEF IInv, Progress, Next, Boot, ReadDefault, CreateServer, CreateTextChannel,
           CreateVoiceChannel, RecordDefault, Crash, Restart, rows
<1> QED
  BY <1>1, BootstrapInvariant, PTL DEF Spec, DefaultNeverChanges

-----------------------------------------------------------------------------
(* Uploads, and the instance that serves them. *)

\* What is renamed into its place has been written.
NamedAreWhole == \A f \in Pictures \X Variants : blob[f] # "part"

\* What an upload has stored by the time it gets somewhere, and written of its row.
Kept ==
  \A r \in Uploads :
    /\ variant[r] = "thumb" => blob[<<PictureOf[r], "full">>] = "whole"
    /\ stage[r] \in {"row", "avatar", "done"} =>
         variant[r] = "thumb" /\ blob[<<PictureOf[r], "thumb">>] = "whole"
    /\ stage[r] \in {"avatar", "done"} => r \in attachments

\* A slot is taken for each upload that is being received, and for nothing else.
SlotsAreHeld == IsFiniteSet(Receivers) /\ taken = Cardinality(Receivers)

UInv ==
  /\ UploadsTypeOK
  /\ NamedAreWhole
  /\ Kept
  /\ SlotsAreHeld
  /\ BlobsBehindRows
  /\ ShownIsServed

CInv == IInv /\ UInv /\ InstanceTypeOK

-----------------------------------------------------------------------------
\* Before the first upload there is nothing to serve.
LEMMA UploadsInitially == UploadsInit => UInv
<1> SUFFICES ASSUME UploadsInit PROVE UInv
  OBVIOUS
<1> USE UploadsAssumption DEF UploadsInit
<1>1. UploadsTypeOK /\ NamedAreWhole /\ Kept
  BY DEF UploadsTypeOK, NamedAreWhole, Kept, Variants, Over
<1>2. SlotsAreHeld
  <2>1. Receivers = {}
    BY DEF Receivers, Stands
  <2> QED
    BY <2>1, FS_EmptySet DEF SlotsAreHeld
<1>3. BlobsBehindRows /\ ShownIsServed
  BY DEF BlobsBehindRows, ShownIsServed, Stands
<1> QED
  BY <1>1, <1>2, <1>3 DEF UInv

\* The pictures behind rows, and what clients are shown, follow from what uploads keep.
LEMMA KeptIsServed ==
  ASSUME UploadsTypeOK, Kept, NEW r \in Uploads, stage[r] \in {"row", "avatar", "done"}
  PROVE  \A v \in Variants : blob[<<PictureOf[r], v>>] = "whole"
  BY DEF Kept, Variants

\* Slots go with the uploads that hold them.
LEMMA SlotStep ==
  ASSUME UInv, NEW r \in Uploads, Upload(r)
  PROVE  SlotsAreHeld' /\ taken' \in 0 .. Slots
<1> USE UploadsAssumption DEF UInv, UploadsTypeOK, SlotsAreHeld
<1>1. CASE Acquire(r)
  <2>1. Receivers' = Receivers \cup {r} /\ r \notin Receivers
    BY <1>1 DEF Acquire, Receivers, Stands, Moves
  <2> QED
    BY <1>1, <2>1, FS_AddElement DEF Acquire
<1>2. CASE Process(r)
  <2>1. Receivers' = Receivers \ {r} /\ r \in Receivers
    BY <1>2 DEF Process, Receivers, Stands, Moves
  <2>2. Cardinality(Receivers) \in Nat /\ Cardinality(Receivers) # 0
    BY <2>1, FS_CardinalityType, FS_EmptySet
  <2>3. IsFiniteSet(Receivers') /\ Cardinality(Receivers') = Cardinality(Receivers) - 1
    BY <2>1, FS_RemoveElement
  <2> QED
    BY <1>2, <2>2, <2>3 DEF Process
<1>3. CASE Receivers' = Receivers /\ taken' = taken
  BY <1>3
<1> QED
  BY <1>1, <1>2, <1>3
  DEF Upload, Work, Start, GoAway, Stat, CreateTemp, Write, Rename, Stored, CreateRow,
      SetAvatar, PostPicture, After, Receivers, Stands, Moves

\* Every step of an upload keeps what was stored, and what was told of it.
LEMMA UploadStep ==
  ASSUME UInv, NEW r \in Uploads, Upload(r)
  PROVE  UInv'
<1> USE UploadsAssumption
    DEF UInv, UploadsTypeOK, NamedAreWhole, Kept, Variants, Over, Stands, Moves
<1>0. SlotsAreHeld' /\ taken' \in 0 .. Slots
  BY SlotStep
<1>1. CASE Start(r) \/ Acquire(r) \/ GoAway(r) \/ Process(r) \/ CreateTemp(r) \/ Write(r)
  <2>1. UNCHANGED <<variant, blob, uploadRows>>
        /\ \E s \in {"wait", "receive", "failed", "stat", "write", "rename"} :
             stage' = [stage EXCEPT ![r] = s]
    BY <1>1 DEF Start, Acquire, GoAway, Process, CreateTemp, Write
  <2>2. UploadsTypeOK' /\ NamedAreWhole' /\ Kept'
    BY <1>0, <2>1 DEF uploadRows
  <2>3. BlobsBehindRows' /\ ShownIsServed'
    BY <2>1 DEF uploadRows, BlobsBehindRows, ShownIsServed, Serves
  <2> QED
    BY <1>0, <2>2, <2>3
<1>2. ASSUME blob' = blob \/ blob' = [blob EXCEPT ![File(r)] = "whole"],
             blob'[File(r)] = "whole", Stored(r), stage[r] \in {"stat", "rename"},
             UNCHANGED uploadRows
      PROVE  UInv'
  <2>1. File(r) \in Pictures \X Variants /\ File(r) = <<PictureOf[r], variant[r]>>
    BY DEF File
  <2>2. \A f \in Pictures \X Variants : blob[f] = "whole" => blob'[f] = "whole"
    BY <1>2, <2>1
  <2>3. UploadsTypeOK' /\ NamedAreWhole'
    <3>1. blob' \in [Pictures \X Variants -> {"absent", "part", "whole"}]
          /\ \A f \in Pictures \X Variants : blob'[f] # "part"
      BY <1>2, <2>1
    <3>2. /\ variant' \in [Uploads -> Variants]
          /\ stage' \in [Uploads -> Over \cup {"idle", "wait", "receive", "stat", "temp",
                                              "write", "rename", "row", "avatar"}]
      BY <1>2 DEF Stored
    <3> QED
      BY <1>0, <1>2, <3>1, <3>2 DEF uploadRows
  <2>4. \/ variant[r] = "full" /\ variant'[r] = "thumb" /\ stage'[r] = "temp"
        \/ variant[r] = "thumb" /\ variant'[r] = "thumb" /\ stage'[r] = "row"
    BY <1>2 DEF Stored
  <2>5. \A q \in Uploads \ {r} : variant'[q] = variant[q] /\ stage'[q] = stage[q]
    BY <1>2 DEF Stored
  <2>6. blob'[<<PictureOf[r], variant[r]>>] = "whole"
    BY <1>2, <2>1
  <2>7. Kept'
    <3> SUFFICES ASSUME NEW q \in Uploads
                 PROVE  /\ variant'[q] = "thumb" => blob'[<<PictureOf[q], "full">>] = "whole"
                        /\ stage'[q] \in {"row", "avatar", "done"} =>
                             variant'[q] = "thumb" /\ blob'[<<PictureOf[q], "thumb">>] = "whole"
                        /\ stage'[q] \in {"avatar", "done"} => q \in attachments'
      OBVIOUS
    <3>1. \A v \in Variants : <<PictureOf[q], v>> \in Pictures \X Variants
      OBVIOUS
    <3>2. CASE q = r
      BY <2>2, <2>4, <2>6, <3>1, <3>2
    <3>3. CASE q # r
      BY <1>2, <2>2, <2>5, <3>1, <3>3 DEF uploadRows
    <3> QED
      BY <3>2, <3>3
  <2>8. \A a \in attachments : Serves(a) => Serves(a)'
    BY <1>2, <2>2 DEF Serves, uploadRows
  <2>9. BlobsBehindRows'
    BY <1>2, <2>8 DEF BlobsBehindRows, uploadRows
  <2>10. ShownIsServed'
    <3>1. \A q \in Uploads : stage'[q] = "done" => stage[q] = "done"
      BY <2>4, <2>5
    <3>2. \A q \in Uploads : Serves(q) => Serves(q)'
      BY <2>8 DEF Serves
    <3> QED
      BY <1>2, <3>1, <3>2 DEF ShownIsServed, uploadRows
  <2> QED
    BY <1>0, <2>3, <2>7, <2>9, <2>10
<1>3. CASE Stat(r)
  <2>1. File(r) \in Pictures \X Variants
    BY DEF File
  <2>2. CASE blob[File(r)] # "absent" /\ Stored(r)
    <3>1. blob[File(r)] = "whole"
      BY <2>1, <2>2
    <3> QED
      BY <1>2, <1>3, <2>2, <3>1 DEF Stat
  <2>3. CASE Moves(r, "temp") /\ UNCHANGED variant
    <3>1. UploadsTypeOK' /\ NamedAreWhole' /\ Kept'
      BY <1>0, <1>3, <2>3 DEF Stat, uploadRows
    <3>2. BlobsBehindRows' /\ ShownIsServed'
      BY <1>3, <2>3 DEF Stat, uploadRows, BlobsBehindRows, ShownIsServed, Serves
    <3> QED
      BY <1>0, <3>1, <3>2
  <2> QED
    BY <1>3, <2>2, <2>3 DEF Stat
<1>4. CASE Rename(r)
  <2>1. CASE blob' = [blob EXCEPT ![File(r)] = "whole"] /\ Stored(r)
    <3>1. blob'[File(r)] = "whole"
      BY <2>1 DEF File
    <3> QED
      BY <1>2, <1>4, <2>1, <3>1 DEF Rename
  <2>2. CASE UNCHANGED <<blob, variant>> /\ Moves(r, "failed")
    <3>1. UploadsTypeOK' /\ NamedAreWhole' /\ Kept'
      BY <1>0, <1>4, <2>2 DEF Rename, uploadRows
    <3>2. BlobsBehindRows' /\ ShownIsServed'
      BY <1>4, <2>2 DEF Rename, uploadRows, BlobsBehindRows, ShownIsServed, Serves
    <3> QED
      BY <1>0, <3>1, <3>2
  <2> QED
    BY <1>4, <2>1, <2>2 DEF Rename
<1>5. CASE CreateRow(r)
  <2>1. /\ UNCHANGED <<variant, blob, taken, avatar, posts>>
        /\ \/ attachments' = attachments \cup {r} /\ Moves(r, After(r))
           \/ attachments' \in {attachments, attachments \cup {r}} /\ Moves(r, "failed")
        /\ After(r) \in {"avatar", "done"} /\ stage[r] = "row"
    BY <1>5 DEF CreateRow, After
  <2>2. \A v \in Variants : blob[<<PictureOf[r], v>>] = "whole"
    BY <2>1, KeptIsServed
  <2>3. UploadsTypeOK' /\ NamedAreWhole' /\ Kept'
    BY <1>0, <2>1
  <2>4. BlobsBehindRows' /\ ShownIsServed'
    BY <2>1, <2>2 DEF BlobsBehindRows, ShownIsServed, Serves
  <2> QED
    BY <1>0, <2>3, <2>4
<1>6. CASE SetAvatar(r)
  <2>1. /\ UNCHANGED <<variant, blob, taken, attachments, posts>>
        /\ avatar' \in {avatar, [avatar EXCEPT ![AccountOf[r]] = r]}
        /\ Moves(r, "done") \/ Moves(r, "failed")
        /\ stage[r] = "avatar" /\ r \in attachments
    BY <1>6 DEF SetAvatar, Pointed
  <2>2. UploadsTypeOK' /\ NamedAreWhole' /\ Kept'
    BY <1>0, <2>1
  <2>3. BlobsBehindRows' /\ ShownIsServed'
    BY <2>1 DEF BlobsBehindRows, ShownIsServed, Serves
  <2> QED
    BY <1>0, <2>2, <2>3
<1>7. ASSUME NEW u \in Accounts, PostPicture(u, r) PROVE UInv'
  <2>1. UploadsTypeOK' /\ NamedAreWhole' /\ Kept'
    BY <1>0, <1>7 DEF PostPicture
  <2>2. BlobsBehindRows' /\ ShownIsServed'
    BY <1>7 DEF PostPicture, BlobsBehindRows, ShownIsServed, Serves
  <2> QED
    BY <1>0, <2>1, <2>2
<1> QED
  BY <1>1, <1>3, <1>4, <1>5, <1>6, <1>7 DEF Upload, Work

\* The process takes its uploads and its slots with it, and nothing that was stored.
LEMMA DieStep == UInv /\ Die => UInv'
<1> SUFFICES ASSUME UInv, Die PROVE UInv'
  OBVIOUS
<1> USE UploadsAssumption DEF UInv, Die, Over
<1>1. \A r \in Uploads : stage'[r] \in {"done", "failed", "dead", "idle"}
                          /\ (stage'[r] = "done" => stage[r] = "done")
  BY DEF UploadsTypeOK
<1>2. UploadsTypeOK' /\ NamedAreWhole'
  BY DEF UploadsTypeOK, NamedAreWhole, uploadRows
<1>3. Kept'
  BY <1>1 DEF Kept, uploadRows
<1>4. SlotsAreHeld'
  <2>1. Receivers' = {}
    BY <1>1 DEF Receivers, Stands
  <2> QED
    BY <2>1, FS_EmptySet DEF SlotsAreHeld
<1>5. BlobsBehindRows' /\ ShownIsServed'
  BY <1>1 DEF BlobsBehindRows, ShownIsServed, Serves, Stands, uploadRows
<1> QED
  BY <1>2, <1>3, <1>4, <1>5

-----------------------------------------------------------------------------
\* The instance starts like its parts.
LEMMA InstanceInitially == InstanceInit => CInv
<1> SUFFICES ASSUME InstanceInit PROVE CInv
  OBVIOUS
<1>1. IInv /\ UInv
  BY BootstrapInit, UploadsInitially DEF InstanceInit
<1>2. \A r \in Uploads : stage[r] \in Over \cup {"idle"}
  BY DEF InstanceInit, UploadsInit
<1> QED
  BY <1>1, <1>2 DEF CInv, InstanceTypeOK, IInv, UInv

\* A step of the instance is one of the bootstrap or one of an upload that is served.
LEMMA InstanceStep == CInv /\ [InstanceNext]_instanceVars => CInv' /\ [Next]_vars
<1> SUFFICES ASSUME CInv, [InstanceNext]_instanceVars PROVE CInv' /\ [Next]_vars
  OBVIOUS
<1> USE DEF CInv, InstanceTypeOK
<1>1. CASE Boots
  <2>1. Next /\ step # "up" /\ UNCHANGED uploadVars
    BY <1>1 DEF Boots, Boot, Next, ReadDefault, CreateServer, CreateTextChannel,
                CreateVoiceChannel, RecordDefault
  <2>2. IInv'
    BY <2>1, BootstrapStep
  <2>3. UInv'
    BY <2>1 DEF uploadVars, UInv, UploadsTypeOK, NamedAreWhole, Kept, SlotsAreHeld,
                BlobsBehindRows, ShownIsServed, Serves, Receivers, Stands
  <2> QED
    BY <2>1, <2>2, <2>3 DEF uploadVars, IInv, UInv
<1>2. CASE GoesDown
  <2>1. Next
    BY <1>2 DEF GoesDown, Next
  <2>2. IInv' /\ UInv'
    BY <1>2, <2>1, BootstrapStep, DieStep DEF GoesDown
  <2>3. \A r \in Uploads : stage'[r] \in Over \cup {"idle"}
    BY <1>2 DEF GoesDown, Die, UInv, UploadsTypeOK, Over
  <2> QED
    BY <2>1, <2>2, <2>3 DEF IInv, UInv
<1>3. CASE ComesBack
  <2>1. Next /\ step # "up" /\ UNCHANGED uploadVars
    BY <1>3 DEF ComesBack, Restart, Next
  <2>2. IInv'
    BY <2>1, BootstrapStep
  <2>3. UInv'
    BY <2>1 DEF uploadVars, UInv, UploadsTypeOK, NamedAreWhole, Kept, SlotsAreHeld,
                BlobsBehindRows, ShownIsServed, Serves, Receivers, Stands
  <2> QED
    BY <2>1, <2>2, <2>3 DEF uploadVars, IInv, UInv
<1>4. ASSUME NEW r \in Uploads, Serving(Upload(r)) PROVE CInv' /\ [Next]_vars
  <2>1. Upload(r) /\ UNCHANGED vars /\ step = "up"
    BY <1>4 DEF Serving
  <2>2. IInv'
    BY <2>1, BootstrapStep
  <2>3. UInv'
    BY <2>1, UploadStep
  <2> QED
    BY <2>1, <2>2, <2>3 DEF vars, IInv, UInv
<1>5. CASE UNCHANGED instanceVars
  <2>1. UNCHANGED vars /\ UNCHANGED uploadVars
    BY <1>5 DEF instanceVars, vars
  <2>2. IInv'
    BY <2>1, BootstrapStep
  <2>3. UInv'
    BY <2>1 DEF uploadVars, UInv, UploadsTypeOK, NamedAreWhole, Kept, SlotsAreHeld,
                BlobsBehindRows, ShownIsServed, Serves, Receivers, Stands
  <2> QED
    BY <2>1, <2>2, <2>3 DEF uploadVars, vars, IInv, UInv
<1> QED
  BY <1>1, <1>2, <1>3, <1>4, <1>5 DEF InstanceNext

\* In every reachable state of every instance, for any number of runs, uploads and slots.
THEOREM InstanceInvariant == InstanceSpec => []CInv
<1>1. InstanceInit => CInv
  BY InstanceInitially
<1>2. CInv /\ [InstanceNext]_instanceVars => CInv'
  BY InstanceStep
<1> QED
  BY <1>1, <1>2, PTL DEF InstanceSpec

\* An instance obtains its server exactly as Bootstrap says: serving uploads does not
\* interfere (ensureDefaultServer runs before the routes are registered).
THEOREM InstanceBoots == InstanceSpec => Spec
<1>1. InstanceInit => Init
  BY DEF InstanceInit
<1>2. CInv /\ [InstanceNext]_instanceVars => [Next]_vars
  BY InstanceStep
<1> QED
  BY <1>1, <1>2, InstanceInvariant, PTL DEF InstanceSpec, Spec

\* Every variable keeps its type, and no upload is under way in a process that is not up.
THEOREM InstanceTypeCorrect == InstanceSpec => []InstanceTypeOK
  BY InstanceInvariant, PTL DEF CInv

\* Whatever failed, died or raced before, the picture and the thumbnail behind every row
\* are there and complete (upload_http.go stores the files before it creates the row).
THEOREM PicturesBehindRows == InstanceSpec => []BlobsBehindRows
  BY InstanceInvariant, PTL DEF CInv, UInv

\* What clients are shown can be fetched, and an avatar or an attachment is an upload of
\* the account it is shown with.
THEOREM ShownPicturesAreServed == InstanceSpec => []ShownIsServed
  BY InstanceInvariant, PTL DEF CInv, UInv

-----------------------------------------------------------------------------
(* The promise of Gallery, kept step by step. *)

Answers == [r \in Uploads |-> Answer(r)]
Tellings == [r \in Uploads |-> Told(r)]

\* A row is a picture: none is broken.
LEMMA AnswersFollowRows ==
  ASSUME UInv
  PROVE  \A r \in Uploads : Answer(r) = IF r \in attachments THEN "picture" ELSE "nothing"
  BY DEF UInv, BlobsBehindRows, Answer

\* While the rows stay and an upload stays unanswered, its client sees nothing of a step.
LEMMA UnansweredIsQuiet ==
  ASSUME UInv, UInv', UNCHANGED uploadRows, NEW r \in Uploads, NEW s,
         stage' = [stage EXCEPT ![r] = s],
         stage[r] \notin Over, s \notin Over \ {"failed"}
  PROVE  \/ UNCHANGED <<Answers, Tellings, avatar, posts>>
         \/ Promise!Refuse(r)
<1> USE DEF UInv, UploadsTypeOK
<1>1. Answers' = Answers /\ UNCHANGED <<avatar, posts>>
  <2>1. \A q \in Uploads : Answer(q)' = IF q \in attachments' THEN "picture" ELSE "nothing"
    BY DEF BlobsBehindRows, Answer
  <2>2. \A q \in Uploads : Answer(q)' = Answer(q)
    BY <2>1, AnswersFollowRows DEF uploadRows
  <2> QED
    BY <2>2 DEF Answers, uploadRows
<1>2. \A q \in Uploads : q # r => Told(q)' = Told(q)
  BY DEF Told, Stands
<1>3. Told(r) = "nothing" /\ Told(r)' = IF s = "failed" THEN "error" ELSE "nothing"
  BY DEF Told, Stands, Over
<1>4. CASE s = "failed"
  <2>1. Tellings' = [q \in Uploads |-> IF q = r THEN "error" ELSE Told(q)]
    BY <1>2, <1>3, <1>4 DEF Tellings
  <2>2. Tellings' = [Tellings EXCEPT ![r] = "error"] /\ Tellings[r] = "nothing"
    BY <1>3, <2>1 DEF Tellings
  <2> QED
    BY <1>1, <2>2 DEF Promise!Refuse, Promise!Waiting, Promise!Tells, Answers, Tellings
<1>5. CASE s # "failed"
  <2>1. Tellings' = Tellings
    BY <1>2, <1>3, <1>5 DEF Tellings
  <2> QED
    BY <1>1, <2>1
<1> QED
  BY <1>4, <1>5

\* A row is the last thing an upload creates, and only an avatar goes on after it.
RowsComeLast ==
  \A r \in Uploads :
    /\ r \in attachments => stage[r] \in Over \cup {"avatar"}
    /\ stage[r] = "avatar" => r \in Avatars

\* No step creates a row too early, or sends back an upload that has one.
LEMMA RowsComeLastStep ==
  ASSUME UInv, RowsComeLast, (\E r \in Uploads : Upload(r)) \/ Die \/ UNCHANGED uploadVars
  PROVE  RowsComeLast'
<1> USE UploadsAssumption DEF UInv, UploadsTypeOK, Over, RowsComeLast, uploadRows
<1>1. ASSUME NEW r \in Uploads, Upload(r) PROVE RowsComeLast'
  <2>1. CASE CreateRow(r)
    BY <2>1 DEF CreateRow, After, Stands, Moves
  <2>2. CASE SetAvatar(r)
    BY <2>2 DEF SetAvatar, Stands, Moves
  <2>3. ASSUME NEW u \in Accounts, PostPicture(u, r) PROVE RowsComeLast'
    BY <2>3 DEF PostPicture
  <2>4. ASSUME NEW s \in {"wait", "receive", "failed", "stat", "temp", "write", "rename", "row"},
               stage' = [stage EXCEPT ![r] = s], stage[r] \notin Over \cup {"avatar"},
               attachments' = attachments
        PROVE  RowsComeLast'
    BY <2>4
  <2>5. CASE Start(r) \/ Acquire(r) \/ GoAway(r) \/ Process(r) \/ Stat(r)
             \/ CreateTemp(r) \/ Write(r) \/ Rename(r)
    BY <2>4, <2>5 DEF Start, Acquire, GoAway, Process, Stat, CreateTemp, Write, Rename,
                      Stored, Stands, Moves
  <2> QED
    BY <1>1, <2>1, <2>2, <2>3, <2>5 DEF Upload, Work
<1>2. CASE Die
  BY <1>2 DEF Die
<1>3. CASE UNCHANGED uploadVars
  BY <1>3 DEF uploadVars
<1> QED
  BY <1>1, <1>2, <1>3

\* The picture appears with its row.
LEMMA RowsAppear ==
  ASSUME UInv, UInv', RowsComeLast, NEW r \in Uploads, CreateRow(r)
  PROVE  Promise!Appear(r) \/ Promise!Refuse(r)
<1> USE UploadsAssumption DEF UInv, UploadsTypeOK
<1>1. /\ stage[r] = "row" /\ r \notin attachments /\ UNCHANGED <<avatar, posts>>
      /\ \E s \in {After(r), "failed"} : stage' = [stage EXCEPT ![r] = s]
      /\ attachments' \in {attachments, attachments \cup {r}}
      /\ attachments' = attachments => stage'[r] = "failed"
  BY DEF CreateRow, RowsComeLast, Stands, Moves, Over
<1>2. \A q \in Uploads : q # r => Told(q)' = Told(q)
  BY <1>1 DEF Told, Stands
<1>3. Told(r) = "nothing"
  BY <1>1 DEF Told, Stands
<1>4. \A q \in Uploads :
        /\ Answer(q) = IF q \in attachments THEN "picture" ELSE "nothing"
        /\ Answer(q)' = IF q \in attachments' THEN "picture" ELSE "nothing"
  BY DEF BlobsBehindRows, Answer
<1>5. \A what : Told(r)' = what =>
        Tellings' = [Tellings EXCEPT ![r] = what] /\ Tellings[r] = "nothing"
  <2> SUFFICES ASSUME NEW what, Told(r)' = what
               PROVE  Tellings' = [Tellings EXCEPT ![r] = what] /\ Tellings[r] = "nothing"
    OBVIOUS
  <2>1. Tellings' = [q \in Uploads |-> IF q = r THEN what ELSE Told(q)]
    BY <1>2 DEF Tellings
  <2> QED
    BY <1>3, <2>1 DEF Tellings
<1>6. CASE attachments' = attachments
  <2>1. Answers' = Answers /\ Told(r)' = "error"
    BY <1>1, <1>4, <1>6 DEF Answers, Told, Stands
  <2> QED
    BY <1>1, <1>5, <2>1
    DEF Promise!Refuse, Promise!Waiting, Promise!Tells, Answers, Tellings
<1>7. CASE attachments' = attachments \cup {r}
  <2>1. Answers' = [q \in Uploads |-> IF q = r THEN "picture" ELSE Answer(q)]
    BY <1>4, <1>7 DEF Answers
  <2>2. Answers' = [Answers EXCEPT ![r] = "picture"] /\ Answers[r] = "nothing"
    BY <1>1, <1>4, <2>1 DEF Answers
  <2>3. CASE r \in Avatars /\ stage'[r] = "avatar"
    <3>1. Told(r)' = "nothing"
      BY <2>3 DEF Told, Stands
    <3>2. Tellings' = Tellings /\ Tellings[r] = "nothing"
      BY <1>2, <1>3, <3>1 DEF Tellings
    <3> QED
      BY <1>1, <2>2, <2>3, <3>2 DEF Promise!Appear, Promise!Waiting, Answers, Tellings
  <2>4. CASE r \notin Avatars /\ stage'[r] = "done"
    <3>1. Told(r)' = "id"
      BY <2>4 DEF Told, Stands
    <3> QED
      BY <1>1, <1>5, <2>2, <2>4, <3>1
      DEF Promise!Appear, Promise!Waiting, Promise!Tells, Answers, Tellings
  <2>5. CASE stage'[r] = "failed"
    <3>1. Told(r)' = "error"
      BY <2>5 DEF Told, Stands
    <3> QED
      BY <1>1, <1>5, <2>2, <3>1
      DEF Promise!Appear, Promise!Waiting, Promise!Tells, Answers, Tellings
  <2> QED
    BY <1>1, <2>3, <2>4, <2>5 DEF After
<1> QED
  BY <1>1, <1>6, <1>7

\* An avatar is worn, perhaps although the statement reported an error.
LEMMA AvatarsAreWorn ==
  ASSUME UInv, UInv', RowsComeLast, NEW r \in Uploads, SetAvatar(r)
  PROVE  Promise!Wear(r) \/ Promise!Refuse(r)
<1> USE UploadsAssumption DEF UInv, UploadsTypeOK
<1>1. /\ stage[r] = "avatar" /\ r \in Avatars /\ r \in attachments
      /\ UNCHANGED <<attachments, blob, posts>>
      /\ avatar' \in {avatar, [avatar EXCEPT ![AccountOf[r]] = r]}
      /\ \E s \in {"done", "failed"} : stage' = [stage EXCEPT ![r] = s]
      /\ stage'[r] = "done" => avatar' = [avatar EXCEPT ![AccountOf[r]] = r]
  <2>1. stage[r] = "avatar" /\ UNCHANGED <<attachments, blob, posts>>
    BY DEF SetAvatar, Stands
  <2>2. r \in Avatars /\ r \in attachments
    BY <2>1 DEF RowsComeLast, Kept
  <2>3. \/ avatar' = Pointed(r) /\ stage' = [stage EXCEPT ![r] = "done"]
        \/ avatar' \in {avatar, Pointed(r)} /\ stage' = [stage EXCEPT ![r] = "failed"]
    BY DEF SetAvatar, Moves
  <2> QED
    BY <2>1, <2>2, <2>3 DEF Pointed
<1>2. Answers' = Answers /\ Answers[r] = "picture"
  <2>1. \A q \in Uploads : Answer(q)' = Answer(q)
    BY <1>1 DEF Answer, Serves
  <2>2. Answer(r) = "picture"
    BY <1>1, AnswersFollowRows
  <2> QED
    BY <2>1, <2>2 DEF Answers
<1>3. /\ \A q \in Uploads : q # r => Told(q)' = Told(q)
      /\ Told(r) = "nothing" /\ Told(r)' \in {"id", "error"}
      /\ Told(r)' = "id" => stage'[r] = "done"
  BY <1>1 DEF Told, Stands
<1>4. /\ Tellings' = [Tellings EXCEPT ![r] = Told(r)'] /\ Tellings[r] = "nothing"
  <2>1. Tellings' = [q \in Uploads |-> IF q = r THEN Told(r)' ELSE Told(q)]
    BY <1>3 DEF Tellings
  <2> QED
    BY <1>3, <2>1 DEF Tellings
<1>5. CASE avatar' = [avatar EXCEPT ![AccountOf[r]] = r]
  BY <1>1, <1>2, <1>3, <1>4, <1>5
  DEF Promise!Wear, Promise!Waiting, Promise!Tells, Answers, Tellings
<1>6. CASE avatar' = avatar /\ Told(r)' = "error"
  BY <1>1, <1>2, <1>4, <1>6
  DEF Promise!Refuse, Promise!Waiting, Promise!Tells, Answers, Tellings
<1> QED
  BY <1>1, <1>3, <1>5, <1>6

\* Whoever waits when the process dies hears nothing.
LEMMA DyingLoses ==
  ASSUME UInv, UInv', Die
  PROVE  Promise!Lose
<1> USE DEF UInv, UploadsTypeOK
<1> DEFINE lost == {r \in Uploads : stage[r] \notin Over \cup {"idle"}}
<1>1. /\ \A r \in lost : Told(r) = "nothing" /\ Told(r)' = "lost"
      /\ \A r \in Uploads \ lost : Told(r)' = Told(r)
  BY DEF Die, Told, Stands, Over
<1>2. Answers' = Answers /\ UNCHANGED <<avatar, posts>>
  BY DEF Die, uploadRows, Answers, Answer, Serves
<1>3. /\ \A r \in lost : Tellings[r] = "nothing"
      /\ Tellings' = [r \in Uploads |-> IF r \in lost THEN "lost" ELSE Tellings[r]]
  BY <1>1 DEF Tellings
<1> HIDE DEF lost
<1>4. lost \in SUBSET Uploads
  BY DEF lost
<1> QED
  BY <1>2, <1>3, <1>4 DEF Promise!Lose, Promise!Waiting, Answers, Tellings

\* Every step of an upload is one of the gallery, or nothing that anybody can see.
LEMMA UploadKeepsThePromise ==
  ASSUME UInv, RowsComeLast, NEW r \in Uploads, Upload(r)
  PROVE  [Promise!Next]_<<Answers, Tellings, avatar, posts>>
<1>0. UInv'
  BY UploadStep
<1>1. CASE CreateRow(r)
  BY <1>0, <1>1, RowsAppear DEF Promise!Next
<1>2. CASE SetAvatar(r)
  BY <1>0, <1>2, AvatarsAreWorn DEF Promise!Next
<1>3. ASSUME NEW u \in Accounts, PostPicture(u, r) PROVE Promise!Post(r)
  <2>1. Answers' = Answers /\ Tellings' = Tellings
    BY <1>3 DEF PostPicture, Answers, Answer, Serves, Tellings, Told, Stands
  <2>2. Answers[r] = "picture"
    BY <1>3 DEF PostPicture, Answers, Answer, UInv, BlobsBehindRows
  <2> QED
    BY <1>3, <2>1, <2>2 DEF PostPicture, Promise!Post, Answers, Tellings
<1>4. CASE Start(r) \/ Acquire(r) \/ GoAway(r) \/ Process(r) \/ Stat(r)
           \/ CreateTemp(r) \/ Write(r) \/ Rename(r)
  <2>1. PICK s \in {"wait", "receive", "failed", "stat", "temp", "write", "rename", "row"} :
          stage' = [stage EXCEPT ![r] = s]
    BY <1>4 DEF Start, Acquire, GoAway, Process, Stat, CreateTemp, Write, Rename, Stored, Moves
  <2>2. stage[r] \notin Over /\ UNCHANGED uploadRows
    BY <1>4 DEF Start, Acquire, GoAway, Process, Stat, CreateTemp, Write, Rename, Stands, Over
  <2> QED
    BY <1>0, <2>1, <2>2, UnansweredIsQuiet DEF Promise!Next, Over
<1> QED
  BY <1>1, <1>2, <1>3, <1>4 DEF Upload, Work, Promise!Next

\* A fresh instance shows an empty gallery.
LEMMA GalleryStarts == InstanceInit => Promise!Init /\ RowsComeLast
  BY DEF InstanceInit, UploadsInit, Promise!Init, RowsComeLast, Answer, Told, Stands

\* Every step of the instance is one of the gallery, or nothing that anybody can see.
LEMMA GalleryStep ==
  CInv /\ RowsComeLast /\ [InstanceNext]_instanceVars =>
    [Promise!Next]_(Promise!vars) /\ RowsComeLast'
<1> SUFFICES ASSUME CInv, RowsComeLast, [InstanceNext]_instanceVars
             PROVE  [Promise!Next]_<<Answers, Tellings, avatar, posts>> /\ RowsComeLast'
  BY DEF Promise!vars, Answers, Tellings
<1>0. UInv /\ UInv'
  BY InstanceStep DEF CInv
<1>1. ASSUME NEW r \in Uploads, Serving(Upload(r))
      PROVE  [Promise!Next]_<<Answers, Tellings, avatar, posts>> /\ RowsComeLast'
  BY <1>0, <1>1, UploadKeepsThePromise, RowsComeLastStep DEF Serving
<1>2. CASE GoesDown
  BY <1>0, <1>2, DyingLoses, RowsComeLastStep DEF GoesDown, Promise!Next
<1>3. CASE UNCHANGED uploadVars
  BY <1>0, <1>3, RowsComeLastStep
  DEF uploadVars, Answers, Answer, Serves, Tellings, Told, Stands
<1> QED
  BY <1>1, <1>2, <1>3 DEF InstanceNext, Boots, ComesBack, instanceVars

\* Uploads, their files and their rows implement the gallery, through failures, races for
\* one picture and any number of crashes.
THEOREM InstanceIsAGallery == InstanceSpec => GallerySpec
  BY GalleryStarts, GalleryStep, InstanceInvariant, PTL
  DEF InstanceSpec, GallerySpec, Promise!Spec
=============================================================================
