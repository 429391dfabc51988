-------------------------------- MODULE Media --------------------------------
(***************************************************************************)
(* An upload from its bytes to what is stored: Process decides and places  *)
(* the pixels, and an animation that is larger than its box goes on frame  *)
(* by frame, before the picture is returned.                               *)
(***************************************************************************)
EXTENDS Processing, Animation

mediaVars == <<processingVars, animationVars>>

\* processGIF calls gifThumbnail only then; a smaller animation is its own thumbnail.
Animated ==
  /\ result.kind = "picture" /\ file.magic = "gif"
  /\ file.frames > 1 /\ result.thumb # result.sides

MediaInit == ProcessingInit /\ AnimationInit

MediaNext ==
  \/ ProcessingNext /\ UNCHANGED animationVars
  \/ /\ Animated /\ Len(frames) < file.frames
     /\ AnimationNext /\ UNCHANGED processingVars

MediaSpec == MediaInit /\ [][MediaNext]_mediaVars
=============================================================================
