------------------------------ MODULE Animation -------------------------------
(***************************************************************************)
(* gifThumbnail: the frames of an animation, which may be patches over     *)
(* what earlier frames left behind, become full pictures of their own.  A  *)
(* step is one frame.  A pixel stands for a part of the picture in one     *)
(* colour: scaling is a function of the canvas and is left out, fitting    *)
(* the colours to the palette of the frame is not.                         *)
(***************************************************************************)
EXTENDS Integers, Sequences, FiniteSetsExt

CONSTANTS
  Pixels,
  Colours,
  Clear,        \* transparent
  Drawn         \* the frames an animation may have

Disposals == {"none", "background", "previous"}

\* A picture of the frame's area; its pixels have colours of its palette.
Frames ==
  [area : SUBSET Pixels, pixel : [Pixels -> Colours \cup {Clear}],
   palette : SUBSET (Colours \cup {Clear}), disposal : Disposals]

ASSUME AnimationAssumption == Clear \notin Colours /\ Drawn \subseteq Frames

VARIABLES
  frames,     \* of g, those that were composed
  canvas,
  out         \* the frames of the thumbnail

animationVars == <<frames, canvas, out>>

AnimationInit ==
  /\ frames = <<>>
  /\ canvas = [p \in Pixels |-> Clear]
  /\ out = <<>>

\* draw.Draw(canvas, frame.Bounds(), frame, ..., draw.Over)
Over(under, f) ==
  [p \in Pixels |-> IF p \in f.area /\ f.pixel[p] # Clear THEN f.pixel[p] ELSE under[p]]

\* What the frame leaves behind; drawn shows it, and before is the canvas without it.
DisposedLate(f, before, drawn) ==
  CASE f.disposal = "none" -> drawn
    [] f.disposal = "background" ->
         [p \in Pixels |-> IF p \in f.area THEN Clear ELSE drawn[p]]
    [] f.disposal = "previous" -> drawn

Disposed(f, before, drawn) ==
  CASE f.disposal = "none" -> drawn
    [] f.disposal = "background" ->
         [p \in Pixels |-> IF p \in f.area THEN Clear ELSE drawn[p]]
    [] f.disposal = "previous" -> before

\* Floyd-Steinberg with the palette: a picture in its colours stays as it is; otherwise
\* the errors that are carried on may change every pixel.
Fitted(picture, palette) ==
  IF \A p \in Pixels : picture[p] \in palette THEN {picture} ELSE [Pixels -> palette]

\* One round of the loop.
Compose(f) ==
  LET drawn == Over(canvas, f)
  IN /\ frames' = Append(frames, f)
     /\ \E picture \in Fitted(drawn, f.palette) :
          out' = Append(out, [area |-> Pixels, pixel |-> picture,
                              palette |-> f.palette, disposal |-> "background"])
     /\ canvas' = Disposed(f, canvas, drawn)

AnimationNext == \E f \in Drawn : Compose(f)

AnimationSpec == AnimationInit /\ [][AnimationNext]_animationVars

-----------------------------------------------------------------------------
(* GIF89a, 23.c.iv: what a viewer shows. *)

\* The frames up to the n-th that changed pixel p for those after it.
Lasting(g, n, p) ==
  {i \in 1 .. n : /\ p \in g[i].area
                  /\ \/ g[i].disposal = "background"
                     \/ g[i].disposal = "none" /\ g[i].pixel[p] # Clear}

\* What is left of pixel p after the n-th frame.
Left(g, n, p) ==
  LET marks == Lasting(g, n, p)
  IN IF marks = {} \/ g[Max(marks)].disposal = "background"
       THEN Clear ELSE g[Max(marks)].pixel[p]

Shown(g, n, p) ==
  IF p \in g[n].area /\ g[n].pixel[p] # Clear THEN g[n].pixel[p] ELSE Left(g, n - 1, p)

\* Frame by frame the thumbnail shows what the animation shows, wherever the palette of
\* the frame has the colours of the whole picture (process.go:176).
ThumbPlaysTheSame ==
  \A n \in 1 .. Len(frames) :
    (\A p \in Pixels : Shown(frames, n, p) \in frames[n].palette)
      => \A p \in Pixels : Shown(out, n, p) = Shown(frames, n, p)
=============================================================================
