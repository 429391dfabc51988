------------------------------ MODULE Processing ------------------------------
(***************************************************************************)
(* media.Process: one uploaded file becomes a picture and a thumbnail, or  *)
(* is refused.  The codecs are external: what they make of the bytes is    *)
(* part of the input, and a picture is where each of its pixels ends up.   *)
(* The frames of an animated thumbnail are in Animation.                   *)
(***************************************************************************)
EXTENDS Integers, Sequences, FiniteSetsExt

CONSTANTS
  MaxWidth, MaxHeight, MaxPixels, ThumbSize,    \* Limits
  Inputs                                        \* the files that may be uploaded

Formats == {"png", "jpeg", "gif", "webp"}

\* The first directory of an EXIF segment names count entries and has room for fewer,
\* perhaps; one that is no TIFF at all counts none.
Segments ==
  [kind : {"exif", "other", "stop"}, count : Nat,
   entries : Seq([orientation : BOOLEAN, short : BOOLEAN, value : Nat])]

\* A file: its length against the limit, or "broken" where reading it fails, the format
\* its first bytes claim, what the registered decoders take it for and the size they read
\* from its header, whether its pixels decode and to that size, whether anything follows
\* them, its frames, whether what was decoded can be encoded, and the segments of a JPEG:
\* "exif", "other", or "stop" where the walk gives up.
Files ==
  {f \in [length : {"short", "fits", "long", "broken"}, magic : Formats \cup {"none"},
          container : Formats \cup {"none"}, w : Int, h : Int, intact : BOOLEAN,
          sameSize : BOOLEAN, tail : BOOLEAN, frames : Nat, encodable : BOOLEAN,
          segments : Seq(Segments)] :
     f.magic # "gif" => f.frames = 1}

ASSUME LimitsAssumption ==
  /\ MaxWidth \in Nat /\ MaxHeight \in Nat /\ MaxPixels \in Nat /\ ThumbSize \in Nat
  /\ Inputs \subseteq Files

VARIABLES file, result

processingVars == <<file, result>>

-----------------------------------------------------------------------------
(* jpegOrientation *)
\* The first entry for the orientation decides, if it is there and makes sense.
OrientationTag(dir) ==
  LET ends == {e \in 1 .. dir.count :
                 e <= Len(dir.entries) => dir.entries[e].orientation}
      e == Min(ends)
  IN IF /\ ends # {} /\ e <= Len(dir.entries)
        /\ dir.entries[e].short /\ dir.entries[e].value \in 1 .. 8
       THEN dir.entries[e].value ELSE 1

Orientation(segments) ==
  LET ends == {i \in 1 .. Len(segments) : segments[i].kind # "other"}
  IN IF ends # {} /\ segments[Min(ends)].kind = "exif"
       THEN OrientationTag(segments[Min(ends)]) ELSE 1

\* Where applyOrientation puts the pixel in column x of row y of a w by h picture.
Turned(o, w, h, x, y) ==
  CASE o = 2 -> <<w - 1 - x, y>>
    [] o = 3 -> <<w - 1 - x, h - 1 - y>>
    [] o = 4 -> <<x, h - 1 - y>>
    [] o = 5 -> <<y, x>>
    [] o = 6 -> <<h - 1 - y, x>>
    [] o = 7 -> <<h - 1 - y, w - 1 - x>>
    [] o = 8 -> <<y, w - 1 - x>>
    [] OTHER -> <<x, y>>

SidesFromSix(o, w, h) == IF o >= 6 THEN <<h, w>> ELSE <<w, h>>

Sides(o, w, h) == IF o >= 5 THEN <<h, w>> ELSE <<w, h>>

-----------------------------------------------------------------------------
(* Limits.check and thumbnail *)
OverLimitOfOneFrame(w, h, frames) ==
  w > MaxWidth \/ h > MaxHeight \/ w * h > MaxPixels

OverLimit(w, h, frames) ==
  w > MaxWidth \/ h > MaxHeight \/ w * h * frames > MaxPixels

\* int(float64(a) * scale): where the product is a whole number the rounding of the
\* two floating point operations may end just below it.
Rounded(a, longest) ==
  LET exact == a * ThumbSize
      down == exact \div longest
  IN IF exact % longest = 0 THEN {down, down - 1} ELSE {down}

Scaled(a, longest) == {Max({1, side}) : side \in Rounded(a, longest)}

ThumbSidesByWidth(w, h) ==
  IF ThumbSize = 0 \/ w <= ThumbSize
    THEN {<<w, h>>}
    ELSE Scaled(w, Max({w, h})) \X Scaled(h, Max({w, h}))

\* The sizes a thumbnail may have; animated ones follow the same rule.
ThumbSides(w, h) ==
  IF ThumbSize = 0 \/ (w <= ThumbSize /\ h <= ThumbSize)
    THEN {<<w, h>>}
    ELSE Scaled(w, Max({w, h})) \X Scaled(h, Max({w, h}))

-----------------------------------------------------------------------------
(* Process *)

\* Each check with the error it ends in, in their order.
Checks(f) ==
  << [fails |-> f.length = "broken", error |-> "read"],
     [fails |-> f.length = "long", error |-> "too large"],
     [fails |-> f.length = "short" \/ f.magic = "none", error |-> "unsupported"],
     [fails |-> f.container = "none", error |-> "corrupt"],
     [fails |-> f.container # f.magic, error |-> "polyglot"],
     [fails |-> f.w <= 0 \/ f.h <= 0, error |-> "corrupt"],
     [fails |-> OverLimit(f.w, f.h, 1), error |-> "dimensions"],
     [fails |-> ~f.intact \/ f.frames = 0, error |-> "corrupt"],
     [fails |-> f.magic = "png" /\ f.tail, error |-> "polyglot"],
     [fails |-> f.magic # "gif" /\ ~f.sameSize, error |-> "corrupt"],
     [fails |-> OverLimit(f.w, f.h, f.frames), error |-> "dimensions"],
     [fails |-> ~f.encodable, error |-> "corrupt"] >>

Failing(f) == {i \in DOMAIN Checks(f) : Checks(f)[i].fails}

\* A WebP becomes a PNG, as the thumbnail of a GIF that does not move does.
FormatOf(f) == IF f.magic = "webp" THEN "png" ELSE f.magic
ThumbFormatOf(f) == IF f.magic = "gif" /\ f.frames = 1 THEN "png" ELSE FormatOf(f)

OrientationOf(f) == IF f.magic = "jpeg" THEN Orientation(f.segments) ELSE 1

\* The decoded picture is turned, and fitted into the box of its thumbnail.
Stored(f, thumb) ==
  LET o == OrientationOf(f)
  IN [kind |-> "picture", format |-> FormatOf(f), thumbFormat |-> ThumbFormatOf(f),
      sides |-> Sides(o, f.w, f.h), thumb |-> thumb,
      at |-> [p \in (0 .. f.w - 1) \X (0 .. f.h - 1) |-> Turned(o, f.w, f.h, p[1], p[2])]]

Undecided == [kind |-> "none"]

Refuse ==
  /\ Failing(file) # {}
  /\ result' = [kind |-> "refused", error |-> Checks(file)[Min(Failing(file))].error]

Accept ==
  /\ Failing(file) = {}
  /\ LET sides == Sides(OrientationOf(file), file.w, file.h)
     IN \E thumb \in ThumbSides(sides[1], sides[2]) : result' = Stored(file, thumb)

ProcessingInit == file \in Inputs /\ result = Undecided

ProcessingNext == result = Undecided /\ (Refuse \/ Accept) /\ UNCHANGED file

ProcessingSpec == ProcessingInit /\ [][ProcessingNext]_processingVars

-----------------------------------------------------------------------------
\* EXIF 2.3, 4.6.4: the sides of the scene that row 0 and column 0 of the file are at.
ZerothRow == <<"top", "top", "bottom", "bottom", "left", "right", "right", "left">>
ZerothColumn == <<"left", "right", "right", "left", "top", "top", "bottom", "bottom">>

Distance(side, at, sides) ==
  CASE side = "left" -> at[1]
    [] side = "right" -> sides[1] - 1 - at[1]
    [] side = "top" -> at[2]
    [] side = "bottom" -> sides[2] - 1 - at[2]

Within(at, sides) == at[1] \in 0 .. sides[1] - 1 /\ at[2] \in 0 .. sides[2] - 1

\* The pixel in column x of row y is where the orientation says.
Upright(o, at, sides, x, y) ==
  /\ Within(at, sides)
  /\ Distance(ZerothRow[o], at, sides) = y
  /\ Distance(ZerothColumn[o], at, sides) = x

\* The stored picture, which has lost its metadata, shows every pixel where a viewer
\* that honours the orientation of the file shows it (exif.go:86).
StoredUpright ==
  result.kind = "picture" =>
    \A x \in 0 .. file.w - 1, y \in 0 .. file.h - 1 :
      Upright(OrientationOf(file), result.at[<<x, y>>], result.sides, x, y)

\* A thumbnail has pixels, is no larger than its box and the picture, and is within a
\* pixel of its proportions, whatever the floating point arithmetic does
\* (process.go:260); the picture itself, all frames counted, is within the budget.
StoredWithinBounds ==
  result.kind = "picture" =>
    LET s == result.sides
        t == result.thumb
        longest == Max({s[1], s[2]})
    IN /\ s[1] * s[2] * file.frames <= MaxPixels
       /\ \/ s[1] <= MaxWidth /\ s[2] <= MaxHeight
          \/ s[1] <= MaxHeight /\ s[2] <= MaxWidth
       /\ \A i \in {1, 2} :
            /\ t[i] \in 1 .. s[i]
            /\ ThumbSize = 0 \/ t[i] <= ThumbSize
            /\ t # s => t[i] * longest - s[i] * ThumbSize \in -longest .. longest
=============================================================================
