----------------------------- MODULE MediaProofs -----------------------------
(***************************************************************************)
(* Pictures of every size, with every orientation and within every limit,  *)
(* and animations of any number of frames.  A picture that is stored       *)
(* passed every check, which is all that the first two theorems need; the  *)
(* third needs that the canvas of gifThumbnail is at each frame what a     *)
(* viewer has left of the frames before.                                   *)
(***************************************************************************)
EXTENDS Media, WellFoundedInduction, TLAPS

USE LimitsAssumption

-----------------------------------------------------------------------------
(* Processing *)

\* A picture that is stored passed every check, and was turned and fitted.
WasStored ==
  /\ file \in Inputs
  /\ result.kind = "picture" =>
       /\ Failing(file) = {}
       /\ LET sides == Sides(OrientationOf(file), file.w, file.h)
          IN \E thumb \in ThumbSides(sides[1], sides[2]) : result = Stored(file, thumb)

\* What passed has sides, and is within the limits with all its frames.
LEMMA PassedIsWithinLimits ==
  ASSUME NEW f \in Files, Failing(f) = {}
  PROVE  /\ f.w \in Nat \ {0} /\ f.h \in Nat \ {0} /\ f.frames \in Nat \ {0}
         /\ ~OverLimit(f.w, f.h, f.frames)
<1>1. /\ f.w \in Int /\ f.h \in Int /\ f.frames \in Nat
  BY DEF Files
<1>2. /\ ~Checks(f)[6].fails /\ ~Checks(f)[8].fails /\ ~Checks(f)[11].fails
  <2>1. 1 .. 12 = DOMAIN Checks(f)
    BY DEF Checks
  <2> QED
    BY <2>1 DEF Failing
<1>3. /\ ~(f.w <= 0 \/ f.h <= 0) /\ ~(~f.intact \/ f.frames = 0)
      /\ ~OverLimit(f.w, f.h, f.frames)
  BY <1>2 DEF Checks
<1> QED
  BY <1>1, <1>3

\* Whatever the segments hold, there are eight orientations.
LEMMA OrientationsAreEight == ASSUME NEW f PROVE OrientationOf(f) \in 1 .. 8
<1>1. ASSUME NEW dir PROVE OrientationTag(dir) \in 1 .. 8
  <2> DEFINE ends == {e \in 1 .. dir.count :
                        e <= Len(dir.entries) => dir.entries[e].orientation}
             first == Min(ends)
  <2>1. OrientationTag(dir) = IF /\ ends # {} /\ first <= Len(dir.entries)
                                 /\ dir.entries[first].short
                                 /\ dir.entries[first].value \in 1 .. 8
                                THEN dir.entries[first].value ELSE 1
    BY Zenon DEF OrientationTag
  <2> HIDE DEF ends, first
  <2> QED
    BY <2>1
<1>2. ASSUME NEW segments PROVE Orientation(segments) \in 1 .. 8
  <2> DEFINE ends == {i \in 1 .. Len(segments) : segments[i].kind # "other"}
             first == segments[Min(ends)]
  <2>1. Orientation(segments) = IF ends # {} /\ first.kind = "exif"
                                  THEN OrientationTag(first) ELSE 1
    BY Zenon DEF Orientation
  <2> HIDE DEF ends, first
  <2> QED
    BY <1>1, <2>1
<1> QED
  BY <1>2 DEF OrientationOf

\* Each of the eight turns puts the zeroth row and column where its number says.
LEMMA TurnedAsTheTagSays ==
  ASSUME NEW o \in 1 .. 8, NEW w \in Nat \ {0}, NEW h \in Nat \ {0},
         NEW x \in 0 .. w - 1, NEW y \in 0 .. h - 1
  PROVE  Upright(o, Turned(o, w, h, x, y), Sides(o, w, h), x, y)
<1> USE DEF Upright, Turned, Sides, Within, Distance, ZerothRow, ZerothColumn
<1>1. CASE o = 1 BY <1>1
<1>2. CASE o = 2 BY <1>2
<1>3. CASE o = 3 BY <1>3
<1>4. CASE o = 4 BY <1>4
<1>5. CASE o = 5 BY <1>5
<1>6. CASE o = 6 BY <1>6
<1>7. CASE o = 7 BY <1>7
<1>8. CASE o = 8 BY <1>8
<1> QED
  BY <1>1, <1>2, <1>3, <1>4, <1>5, <1>6, <1>7, <1>8

\* Nothing is stored before an upload is decided.
LEMMA ProcessingStarts == ProcessingInit => WasStored
  BY DEF ProcessingInit, WasStored, Undecided

\* What a decision stores is what Stored says of a file that passed every check.
LEMMA ProcessingStep == WasStored /\ [ProcessingNext]_processingVars => WasStored'
<1> SUFFICES ASSUME WasStored, [ProcessingNext]_processingVars PROVE WasStored'
  OBVIOUS
<1>1. CASE Refuse /\ UNCHANGED file
  BY <1>1 DEF WasStored, Refuse
<1>2. CASE Accept /\ UNCHANGED file
  BY <1>2 DEF WasStored, Accept
<1>3. CASE UNCHANGED processingVars
  BY <1>3 DEF WasStored, processingVars
<1> QED
  BY <1>1, <1>2, <1>3 DEF ProcessingNext

\* The tables of the EXIF standard and the switch of applyOrientation agree.
LEMMA StoredIsUpright == WasStored => StoredUpright
<1> SUFFICES ASSUME WasStored, result.kind = "picture",
                    NEW x \in 0 .. file.w - 1, NEW y \in 0 .. file.h - 1
             PROVE  Upright(OrientationOf(file), result.at[<<x, y>>], result.sides, x, y)
  BY DEF StoredUpright
<1>1. file \in Files /\ Failing(file) = {}
  BY DEF WasStored
<1>2. file.w \in Nat \ {0} /\ file.h \in Nat \ {0}
  BY <1>1, PassedIsWithinLimits
<1>3. /\ result.at[<<x, y>>] = Turned(OrientationOf(file), file.w, file.h, x, y)
      /\ result.sides = Sides(OrientationOf(file), file.w, file.h)
  BY <1>2 DEF WasStored, Stored
<1>4. OrientationOf(file) \in 1 .. 8
  BY OrientationsAreEight
<1> QED
  BY <1>2, <1>3, <1>4, TurnedAsTheTagSays

-----------------------------------------------------------------------------
(* Thumbnails *)

\* The larger of two sides.
LEMMA LargerOfTwo ==
  ASSUME NEW a \in Int, NEW b \in Int
  PROVE  Max({a, b}) \in {a, b} /\ Max({a, b}) >= a /\ Max({a, b}) >= b
<1>1. \E x \in {a, b} : \A y \in {a, b} : x >= y
  OBVIOUS
<1> QED
  BY <1>1 DEF Max

\* A whole division, with its remainder.
LEMMA Quotient ==
  ASSUME NEW n \in Nat, NEW d \in Nat \ {0}
  PROVE  /\ n \div d \in Nat
         /\ (n \div d) * d <= n /\ n < (n \div d) * d + d
         /\ n % d = 0 => n = (n \div d) * d
  BY SMT

\* A product grows with its factor.
LEMMA Monotone ==
  ASSUME NEW a \in Nat, NEW b \in Nat, NEW c \in Nat, a <= b
  PROVE  a * c <= b * c /\ c * a <= c * b
  BY SMT

\* A side that is scaled with the longest one has a pixel at least, has no more than it
\* had, fits into the box, and is within a pixel of its proportion.
LEMMA ScaledFits ==
  ASSUME NEW a \in Nat \ {0}, NEW longest \in Nat, a <= longest,
         ThumbSize # 0, ThumbSize < longest, NEW side \in Scaled(a, longest)
  PROVE  /\ side \in 1 .. a /\ side <= ThumbSize
         /\ side * longest - a * ThumbSize \in -longest .. longest
<1> PICK t \in Rounded(a, longest) : side = Max({1, t})
  BY DEF Scaled
<1> DEFINE exact == a * ThumbSize
           down == exact \div longest
<1>1. exact \in Nat /\ longest \in Nat \ {0} /\ ThumbSize \in Nat \ {0}
  OBVIOUS
<1>2. /\ down \in Nat
      /\ down * longest <= exact /\ exact < down * longest + longest
      /\ exact % longest = 0 => exact = down * longest
  <2> HIDE DEF exact
  <2> QED
    BY <1>1, Quotient
<1>3. t = down \/ (t = down - 1 /\ exact = down * longest)
  BY <1>2 DEF Rounded
<1>4. down <= ThumbSize
  <2> SUFFICES ASSUME ThumbSize + 1 <= down PROVE FALSE
    BY <1>1, <1>2
  <2>1. (ThumbSize + 1) * longest <= down * longest
    BY <1>1, <1>2, Monotone
  <2>2. a * ThumbSize <= longest * ThumbSize
    BY <1>1, Monotone
  <2>3. (ThumbSize + 1) * longest = longest * ThumbSize + longest
    BY <1>1
  <2>4. longest * ThumbSize \in Nat /\ down * longest \in Nat
    BY <1>1, <1>2
  <2> HIDE DEF down
  <2> QED
    BY <1>1, <1>2, <2>1, <2>2, <2>3, <2>4
<1>5. down <= a
  <2> SUFFICES ASSUME a + 1 <= down PROVE FALSE
    BY <1>1, <1>2
  <2>1. (a + 1) * longest <= down * longest
    BY <1>1, <1>2, Monotone
  <2>2. a * ThumbSize <= a * longest
    BY <1>1, Monotone
  <2>3. (a + 1) * longest = a * longest + longest
    BY <1>1
  <2>4. a * longest \in Nat /\ down * longest \in Nat
    BY <1>1, <1>2
  <2> HIDE DEF down
  <2> QED
    BY <1>1, <1>2, <2>1, <2>2, <2>3, <2>4
<1> HIDE DEF down, exact
<1>6. t \in Int /\ t * longest <= exact /\ exact - longest <= t * longest
  <2>1. (down - 1) * longest = down * longest - longest /\ down * longest \in Nat
    BY <1>1, <1>2
  <2> QED
    BY <1>1, <1>2, <1>3, <2>1
<1>larger. Max({1, t}) \in {1, t} /\ Max({1, t}) >= 1 /\ Max({1, t}) >= t
  BY <1>6, 1 \in Int, LargerOfTwo, Zenon
<1>7. CASE t >= 1
  <2>1. Max({1, t}) = t
    BY <1>6, <1>7, <1>larger
  <2> QED
    BY <1>1, <1>2, <1>3, <1>4, <1>5, <1>6, <1>7, <2>1 DEF exact
<1>8. CASE t < 1
  <2>1. Max({1, t}) = 1
    BY <1>6, <1>8, <1>larger
  <2>2. exact <= longest + longest
    BY <1>1, <1>2, <1>3, <1>8
  <2> QED
    BY <1>1, <1>2, <1>3, <2>1, <2>2 DEF exact
<1> QED
  BY <1>6, <1>7, <1>8

\* Both sides of a thumbnail at once.
LEMMA ThumbFits ==
  ASSUME NEW w \in Nat \ {0}, NEW h \in Nat \ {0}, NEW t \in ThumbSides(w, h)
  PROVE  /\ t[1] \in 1 .. w /\ t[2] \in 1 .. h
         /\ ThumbSize = 0 \/ (t[1] <= ThumbSize /\ t[2] <= ThumbSize)
         /\ t # <<w, h>> =>
              /\ t[1] * Max({w, h}) - w * ThumbSize \in -Max({w, h}) .. Max({w, h})
              /\ t[2] * Max({w, h}) - h * ThumbSize \in -Max({w, h}) .. Max({w, h})
<1> DEFINE longest == Max({w, h})
<1>1. longest \in Nat /\ w <= longest /\ h <= longest
  BY w \in Int, h \in Int, LargerOfTwo
<1>2. CASE ThumbSize = 0 \/ (w <= ThumbSize /\ h <= ThumbSize)
  <2>1. t = <<w, h>>
    BY <1>2 DEF ThumbSides
  <2>2. t[1] = w /\ t[2] = h
    BY <2>1
  <2> QED
    BY <1>2, <2>1, <2>2
<1>3. CASE ~(ThumbSize = 0 \/ (w <= ThumbSize /\ h <= ThumbSize))
  <2>1. t \in Scaled(w, longest) \X Scaled(h, longest)
    BY <1>3 DEF ThumbSides
  <2>2. ThumbSize # 0 /\ ThumbSize < longest
    BY <1>1, <1>3
  <2> HIDE DEF longest
  <2>3. /\ t[1] \in 1 .. w /\ t[1] <= ThumbSize
        /\ t[1] * longest - w * ThumbSize \in -longest .. longest
    BY <1>1, <2>1, <2>2, ScaledFits
  <2>4. /\ t[2] \in 1 .. h /\ t[2] <= ThumbSize
        /\ t[2] * longest - h * ThumbSize \in -longest .. longest
    BY <1>1, <2>1, <2>2, ScaledFits
  <2> QED
    BY <2>3, <2>4 DEF longest
<1> QED
  BY <1>2, <1>3

\* The limits were checked before the picture was turned, and hold after it.
LEMMA StoredIsWithinBounds == WasStored => StoredWithinBounds
<1> SUFFICES ASSUME WasStored, result.kind = "picture" PROVE StoredWithinBounds
  BY DEF StoredWithinBounds
<1> DEFINE s == result.sides
           t == result.thumb
<1>1. file \in Files /\ Failing(file) = {}
  BY DEF WasStored
<1>2. /\ file.w \in Nat \ {0} /\ file.h \in Nat \ {0} /\ file.frames \in Nat \ {0}
      /\ ~OverLimit(file.w, file.h, file.frames)
  BY <1>1, PassedIsWithinLimits
<1>3. s = <<file.w, file.h>> \/ s = <<file.h, file.w>>
  BY DEF WasStored, Stored, Sides
<1>4. t \in ThumbSides(s[1], s[2])
  BY DEF WasStored, Stored
<1>5. s[1] \in Nat \ {0} /\ s[2] \in Nat \ {0} /\ s = <<s[1], s[2]>>
  BY <1>2, <1>3
<1>6. /\ s[1] * s[2] * file.frames <= MaxPixels
      /\ \/ s[1] <= MaxWidth /\ s[2] <= MaxHeight
         \/ s[1] <= MaxHeight /\ s[2] <= MaxWidth
  <2>1. /\ file.w <= MaxWidth /\ file.h <= MaxHeight
        /\ file.w * file.h * file.frames <= MaxPixels
    BY <1>2 DEF OverLimit
  <2>2. file.w * file.h = file.h * file.w
    BY <1>2
  <2> QED
    BY <1>2, <1>3, <2>1, <2>2
<1>7. /\ t[1] \in 1 .. s[1] /\ t[2] \in 1 .. s[2]
      /\ ThumbSize = 0 \/ (t[1] <= ThumbSize /\ t[2] <= ThumbSize)
      /\ t # <<s[1], s[2]>> =>
           /\ t[1] * Max({s[1], s[2]}) - s[1] * ThumbSize
                \in -Max({s[1], s[2]}) .. Max({s[1], s[2]})
           /\ t[2] * Max({s[1], s[2]}) - s[2] * ThumbSize
                \in -Max({s[1], s[2]}) .. Max({s[1], s[2]})
  <2> HIDE DEF s, t
  <2> QED
    BY <1>4, <1>5, ThumbFits
<1> HIDE DEF s, t
<1>8. /\ s[1] * s[2] * file.frames <= MaxPixels
      /\ \/ s[1] <= MaxWidth /\ s[2] <= MaxHeight
         \/ s[1] <= MaxHeight /\ s[2] <= MaxWidth
      /\ \A i \in {1, 2} :
           /\ t[i] \in 1 .. s[i]
           /\ ThumbSize = 0 \/ t[i] <= ThumbSize
           /\ t # s => t[i] * Max({s[1], s[2]}) - s[i] * ThumbSize
                        \in -Max({s[1], s[2]}) .. Max({s[1], s[2]})
  BY <1>5, <1>6, <1>7
<1> QED
  BY <1>8, Zenon DEF StoredWithinBounds, s, t

-----------------------------------------------------------------------------
(* Animation *)

\* What the loop has composed so far.
Composed ==
  [area : {Pixels}, pixel : [Pixels -> Colours \cup {Clear}],
   palette : SUBSET (Colours \cup {Clear}), disposal : {"background"}]

\* The canvas is what a viewer has left of the frames so far, and each frame of the
\* thumbnail is the whole of what a viewer showed at its time.
CanvasIsLeft ==
  /\ frames \in Seq(Drawn) /\ out \in Seq(Composed) /\ Len(out) = Len(frames)
  /\ canvas \in [Pixels -> Colours \cup {Clear}]
  /\ \A p \in Pixels : canvas[p] = Left(frames, Len(frames), p)
  /\ \A n \in 1 .. Len(frames) :
       (\A p \in Pixels : Shown(frames, n, p) \in frames[n].palette)
         => \A p \in Pixels : out[n].pixel[p] = Shown(frames, n, p)

\* A set of frame numbers that is not empty has a last one.
LEMMA LargestIsThere ==
  ASSUME NEW n \in Nat, NEW S \in SUBSET (1 .. n), S # {}
  PROVE  Max(S) \in S /\ \A x \in S : Max(S) >= x
<1> DEFINE T == {n - x : x \in S}
           R == OpToRel(<, Nat)
<1>1. IsWellFoundedOn(R, Nat)
  BY NatLessThanWellFounded
<1>2. T \subseteq Nat /\ T # {}
  <2>1. T \subseteq Nat
    OBVIOUS
  <2>2. PICK x \in S : TRUE
    OBVIOUS
  <2>3. n - x \in T
    OBVIOUS
  <2> QED
    BY <2>1, <2>3
<1>3. PICK t \in T : \A y \in T : ~(<<y, t>> \in R)
  <2> HIDE DEF T, R
  <2> QED
    BY <1>1, <1>2, WFMin
<1>4. \A y \in T : t <= y
  <2> SUFFICES ASSUME NEW y \in T PROVE t <= y
    OBVIOUS
  <2> HIDE DEF T
  <2>1. y \in Nat /\ t \in Nat
    BY <1>2
  <2>2. <<y, t>> \in Nat \X Nat /\ <<y, t>>[1] = y /\ <<y, t>>[2] = t
    BY <2>1
  <2>3. ~(y < t)
    BY <1>3, <2>2 DEF OpToRel
  <2> QED
    BY <2>1, <2>3
<1>5. PICK x \in S : t = n - x
  BY <1>3
<1>6. \A y \in S : x >= y
  <2> SUFFICES ASSUME NEW y \in S PROVE x >= y
    OBVIOUS
  <2>1. n - y \in T
    OBVIOUS
  <2>2. n - x <= n - y
    BY <1>4, <1>5, <2>1
  <2> QED
    BY <2>2
<1>7. \E z \in S : \A y \in S : z >= y
  BY <1>6
<1> QED
  BY <1>7, Zenon DEF Max

\* A frame that lasts decides what is left, another leaves what was there.
LEMMA LeftAfter ==
  ASSUME NEW g, NEW n \in Nat, NEW p
  PROVE  /\ n + 1 \in Lasting(g, n + 1, p) =>
              Left(g, n + 1, p) = IF g[n + 1].disposal = "background" THEN Clear
                                                                    ELSE g[n + 1].pixel[p]
         /\ n + 1 \notin Lasting(g, n + 1, p) => Left(g, n + 1, p) = Left(g, n, p)
<1> DEFINE marks == Lasting(g, n + 1, p)
<1>1. ASSUME n + 1 \in marks
      PROVE  Left(g, n + 1, p) = IF g[n + 1].disposal = "background" THEN Clear
                                                                   ELSE g[n + 1].pixel[p]
  <2>1. marks \subseteq 1 .. n + 1
    BY DEF Lasting
  <2>2. Max(marks) = n + 1
    <3> HIDE DEF marks
    <3>1. n + 1 \in marks /\ \A x \in marks : n + 1 >= x
      BY <1>1, <2>1
    <3>2. Max(marks) \in marks /\ \A x \in marks : Max(marks) >= x
      BY <3>1 DEF Max
    <3>3. Max(marks) \in 1 .. n + 1 /\ Max(marks) >= n + 1
      BY <2>1, <3>1, <3>2
    <3> QED
      BY <3>3
  <2> QED
    BY <1>1, <2>2, Zenon DEF Left
<1>2. ASSUME n + 1 \notin marks PROVE Left(g, n + 1, p) = Left(g, n, p)
  <2>1. marks = Lasting(g, n, p)
    BY <1>2 DEF Lasting
  <2> QED
    BY <2>1, Zenon DEF Left
<1> QED
  BY <1>1, <1>2

\* Frames that come later do not change what earlier ones showed and left.
LEMMA LaterFramesDoNotMatter ==
  ASSUME NEW S, NEW g \in Seq(S), NEW f \in S, NEW p
  PROVE  /\ \A n \in 0 .. Len(g) : Left(Append(g, f), n, p) = Left(g, n, p)
         /\ \A n \in 1 .. Len(g) : Shown(Append(g, f), n, p) = Shown(g, n, p)
<1>1. ASSUME NEW n \in 0 .. Len(g) PROVE Left(Append(g, f), n, p) = Left(g, n, p)
  <2>1. \A i \in 1 .. n : Append(g, f)[i] = g[i]
    OBVIOUS
  <2>2. Lasting(Append(g, f), n, p) = Lasting(g, n, p)
    BY <2>1 DEF Lasting
  <2>3. CASE Lasting(g, n, p) = {}
    BY <2>2, <2>3, Zenon DEF Left
  <2>4. CASE Lasting(g, n, p) # {}
    <3>1. Max(Lasting(g, n, p)) \in 1 .. n
      <4>1. Lasting(g, n, p) \subseteq 1 .. n
        BY DEF Lasting
      <4> QED
        BY <2>4, <4>1, n \in Nat, LargestIsThere
    <3> QED
      BY <2>1, <2>2, <2>4, <3>1, Zenon DEF Left
  <2> QED
    BY <2>3, <2>4
<1>2. ASSUME NEW n \in 1 .. Len(g) PROVE Shown(Append(g, f), n, p) = Shown(g, n, p)
  <2>1. Append(g, f)[n] = g[n] /\ n - 1 \in 0 .. Len(g)
    OBVIOUS
  <2> QED
    BY <1>1, <2>1 DEF Shown
<1> QED
  BY <1>1, <1>2

\* Before the first frame the canvas is transparent.
LEMMA AnimationStarts == AnimationInit => CanvasIsLeft
<1> SUFFICES ASSUME AnimationInit PROVE CanvasIsLeft
  OBVIOUS
<1>1. \A p \in Pixels : Left(frames, 0, p) = Clear
  <2> SUFFICES ASSUME NEW p \in Pixels PROVE Left(frames, 0, p) = Clear
    OBVIOUS
  <2>1. Lasting(frames, 0, p) = {}
    BY DEF Lasting
  <2> QED
    BY <2>1, Zenon DEF Left
<1> QED
  BY <1>1 DEF AnimationInit, CanvasIsLeft

\* One round of the loop.
LEMMA ComposeKeeps ==
  ASSUME CanvasIsLeft, NEW f \in Drawn, Compose(f)
  PROVE  CanvasIsLeft'
<1> DEFINE n == Len(frames)
           drawn == Over(canvas, f)
<1>1. /\ f \in Frames /\ Clear \notin Colours
      /\ frames \in Seq(Drawn) /\ out \in Seq(Composed) /\ Len(out) = n /\ n \in Nat
      /\ canvas \in [Pixels -> Colours \cup {Clear}]
      /\ \A p \in Pixels : canvas[p] = Left(frames, n, p)
  BY AnimationAssumption DEF CanvasIsLeft
<1>2. /\ f.area \subseteq Pixels /\ f.pixel \in [Pixels -> Colours \cup {Clear}]
      /\ f.palette \subseteq Colours \cup {Clear} /\ f.disposal \in Disposals
  BY <1>1 DEF Frames
<1>3. /\ drawn \in [Pixels -> Colours \cup {Clear}]
      /\ \A p \in Pixels : drawn[p] = IF p \in f.area /\ f.pixel[p] # Clear
                                     THEN f.pixel[p] ELSE canvas[p]
  BY <1>1, <1>2 DEF Over
<1>4. PICK picture \in Fitted(drawn, f.palette) :
        out' = Append(out, [area |-> Pixels, pixel |-> picture,
                            palette |-> f.palette, disposal |-> "background"])
  BY DEF Compose
<1>5. frames' = Append(frames, f) /\ canvas' = Disposed(f, canvas, drawn)
  BY DEF Compose
<1>6. /\ picture \in [Pixels -> Colours \cup {Clear}]
      /\ (\A p \in Pixels : drawn[p] \in f.palette) => picture = drawn
  <2> HIDE DEF drawn
  <2> QED
    BY <1>2, <1>3 DEF Fitted
<1>7. /\ frames' \in Seq(Drawn) /\ Len(frames') = n + 1 /\ frames'[n + 1] = f
      /\ \A i \in 1 .. n : frames'[i] = frames[i]
  BY <1>1, <1>5
<1>8. /\ out' \in Seq(Composed) /\ Len(out') = n + 1 /\ out'[n + 1].pixel = picture
      /\ \A i \in 1 .. n : out'[i] = out[i]
  <2> DEFINE last == [area |-> Pixels, pixel |-> picture,
                      palette |-> f.palette, disposal |-> "background"]
  <2>1. last \in Composed /\ last.pixel = picture
    BY <1>2, <1>6 DEF Composed
  <2>2. out' = Append(out, last)
    BY <1>4
  <2> HIDE DEF last
  <2> QED
    BY <1>1, <2>1, <2>2
<1>9. ASSUME NEW p \in Pixels
      PROVE  /\ \A i \in 0 .. n : Left(frames', i, p) = Left(frames, i, p)
             /\ \A i \in 1 .. n : Shown(frames', i, p) = Shown(frames, i, p)
  BY <1>1, <1>5, LaterFramesDoNotMatter
<1>10. canvas' \in [Pixels -> Colours \cup {Clear}]
       /\ \A p \in Pixels : canvas'[p] = Left(frames', n + 1, p)
  <2> HIDE DEF drawn
  <2>1. CASE f.disposal = "none"
    <3>1. canvas' = drawn
      BY <1>5, <2>1 DEF Disposed
    <3>2. ASSUME NEW p \in Pixels PROVE drawn[p] = Left(frames', n + 1, p)
      <4>1. n + 1 \in Lasting(frames', n + 1, p) <=> p \in f.area /\ f.pixel[p] # Clear
        BY <1>1, <1>7, <2>1 DEF Lasting
      <4>2. Left(frames', n, p) = canvas[p]
        BY <1>1, <1>9
      <4> QED
        BY <1>1, <1>3, <1>7, <2>1, <4>1, <4>2, LeftAfter
    <3> QED
      BY <1>3, <3>1, <3>2
  <2>2. CASE f.disposal = "background"
    <3>1. canvas' = [p \in Pixels |-> IF p \in f.area THEN Clear ELSE drawn[p]]
      BY <1>5, <2>2 DEF Disposed
    <3>2. ASSUME NEW p \in Pixels PROVE canvas'[p] = Left(frames', n + 1, p)
      <4>1. n + 1 \in Lasting(frames', n + 1, p) <=> p \in f.area
        BY <1>1, <1>7, <2>2 DEF Lasting
      <4>2. Left(frames', n, p) = canvas[p]
        BY <1>1, <1>9
      <4> QED
        BY <1>1, <1>3, <1>7, <2>2, <3>1, <4>1, <4>2, LeftAfter
    <3> QED
      BY <1>3, <3>1, <3>2
  <2>3. CASE f.disposal = "previous"
    <3>1. canvas' = canvas
      BY <1>5, <2>3 DEF Disposed
    <3>2. ASSUME NEW p \in Pixels PROVE canvas[p] = Left(frames', n + 1, p)
      <4>1. n + 1 \notin Lasting(frames', n + 1, p)
        BY <1>1, <1>7, <2>3 DEF Lasting
      <4>2. Left(frames', n, p) = canvas[p]
        BY <1>1, <1>9
      <4> QED
        BY <1>1, <4>1, <4>2, LeftAfter
    <3> QED
      BY <1>1, <3>1, <3>2
  <2> QED
    BY <1>2, <2>1, <2>2, <2>3 DEF Disposals
<1>11. ASSUME NEW i \in 1 .. n + 1,
              \A p \in Pixels : Shown(frames', i, p) \in frames'[i].palette
       PROVE  \A p \in Pixels : out'[i].pixel[p] = Shown(frames', i, p)
  <2>1. CASE i \in 1 .. n
    <3>1. \A p \in Pixels : Shown(frames, i, p) \in frames[i].palette
      BY <1>7, <1>9, <1>11, <2>1
    <3>2. \A p \in Pixels : out[i].pixel[p] = Shown(frames, i, p)
      BY <2>1, <3>1 DEF CanvasIsLeft
    <3> QED
      BY <1>8, <1>9, <2>1, <3>2
  <2>2. CASE i = n + 1
    <3> HIDE DEF drawn
    <3>1. ASSUME NEW p \in Pixels PROVE Shown(frames', n + 1, p) = drawn[p]
      <4>1. Left(frames', n, p) = canvas[p] /\ (n + 1) - 1 = n
        BY <1>1, <1>9
      <4> QED
        BY <1>3, <1>7, <4>1 DEF Shown
    <3>2. \A p \in Pixels : drawn[p] \in f.palette
      BY <1>7, <1>11, <2>2, <3>1
    <3> QED
      BY <1>6, <1>8, <2>2, <3>1, <3>2
  <2> QED
    BY <1>1, <2>1, <2>2
<1> QED
  BY <1>7, <1>8, <1>10, <1>11 DEF CanvasIsLeft

\* Every step of an animation composes a frame.
LEMMA AnimationStep == CanvasIsLeft /\ [AnimationNext]_animationVars => CanvasIsLeft'
<1> SUFFICES ASSUME CanvasIsLeft, [AnimationNext]_animationVars PROVE CanvasIsLeft'
  OBVIOUS
<1>1. CASE AnimationNext
  BY <1>1, ComposeKeeps DEF AnimationNext
<1>2. CASE UNCHANGED animationVars
  BY <1>2 DEF CanvasIsLeft, animationVars
<1> QED
  BY <1>1, <1>2

\* What a viewer of the thumbnail sees of a frame is that frame alone.
LEMMA ThumbShowsItsFrames == CanvasIsLeft => ThumbPlaysTheSame
<1> SUFFICES ASSUME CanvasIsLeft, NEW n \in 1 .. Len(frames),
                    \A p \in Pixels : Shown(frames, n, p) \in frames[n].palette,
                    NEW p \in Pixels
             PROVE  Shown(out, n, p) = Shown(frames, n, p)
  BY DEF ThumbPlaysTheSame
<1>1. out[n].pixel[p] = Shown(frames, n, p)
  BY DEF CanvasIsLeft
<1>2. \A i \in 1 .. n : out[i] \in Composed
  BY DEF CanvasIsLeft
<1>3. \A i \in 1 .. n : out[i].area = Pixels /\ out[i].disposal = "background"
  BY <1>2 DEF Composed
<1>4. Left(out, n - 1, p) = Clear
  <2> DEFINE marks == Lasting(out, n - 1, p)
  <2>1. CASE marks = {}
    BY <2>1, Zenon DEF Left
  <2>2. CASE marks # {}
    <3>1. marks \in SUBSET (1 .. n - 1) /\ n - 1 \in Nat
      BY DEF Lasting
    <3>2. Max(marks) \in 1 .. n
      <4> DEFINE k == n - 1
      <4>1. k \in Nat /\ marks \in SUBSET (1 .. k) /\ \A i \in 1 .. k : i \in 1 .. n
        BY <3>1
      <4> HIDE DEF marks, k
      <4>2. Max(marks) \in marks
        BY <2>2, <4>1, LargestIsThere
      <4> QED
        BY <4>1, <4>2
    <3>3. out[Max(marks)].disposal = "background"
      BY <1>3, <3>2
    <3> QED
      BY <3>3, Zenon DEF Left
  <2> QED
    BY <2>1, <2>2
<1>5. out[n].area = Pixels
  BY <1>3
<1> QED
  BY <1>1, <1>4, <1>5, Zenon DEF Shown

-----------------------------------------------------------------------------
(* Media *)

\* Both parts start.
LEMMA MediaStarts == MediaInit => WasStored /\ CanvasIsLeft
  BY ProcessingStarts, AnimationStarts DEF MediaInit

\* Each part keeps its own invariant, and leaves the other's variables alone.
LEMMA MediaStep ==
  WasStored /\ CanvasIsLeft /\ [MediaNext]_mediaVars => WasStored' /\ CanvasIsLeft'
  BY ProcessingStep, AnimationStep DEF MediaNext, mediaVars

\* Whatever the files, the limits and the orientations: what is stored is upright.
THEOREM PicturesAreUpright == MediaSpec => []StoredUpright
  BY MediaStarts, MediaStep, StoredIsUpright, PTL DEF MediaSpec

\* For every size and every limit: what is stored keeps within the limits, and its
\* thumbnail has pixels, fits into its box and keeps the proportions.
THEOREM PicturesAreWithinBounds == MediaSpec => []StoredWithinBounds
  BY MediaStarts, MediaStep, StoredIsWithinBounds, PTL DEF MediaSpec

\* For any number of frames, whatever their areas and disposals: the thumbnail of an
\* animation shows what the animation shows.
THEOREM ThumbnailsPlayTheSame == MediaSpec => []ThumbPlaysTheSame
  BY MediaStarts, MediaStep, ThumbShowsItsFrames, PTL DEF MediaSpec
=============================================================================
