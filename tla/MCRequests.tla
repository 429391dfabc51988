------------------------------ MODULE MCRequests -----------------------------
(* What an HTTP request meets that changes no row: it is counted under an      *)
(* address, it logs in, or its picture is processed.  The three share no state *)
(* and each behaviour is about one of them; the other two stay where they are. *)
EXTENDS Login, ClientAddress, Media, TLC

CONSTANTS ann, bob, ann1, ann2, bob1, ch1, ch2,        \* Login: two of Ann's, one of Bob's
          proxy1, proxy2, v4, v6, v6Sibling,           \* ClientAddress
          red, blue, left, right                       \* Animation

Accounts == [r \in Requests |-> IF r = bob1 THEN bob ELSE ann]
Alike ==
  Permutations({ann1, ann2}) \cup Permutations(Challenges) \cup Permutations(Pixels)

\* Two IPv6 addresses share a block; headers have up to two elements.
OwnBlock == [a \in Addresses |-> IF a = v6Sibling THEN v6 ELSE a]
UpToTwoHops == UNION {[1 .. n -> Hops] : n \in 0 .. 2}

\* A picture of every small size, a JPEG with every kind of tag, one animation that is
\* larger than its box and one that is too long, and every way to fail the checks.
Plain ==
  [length |-> "fits", magic |-> "png", container |-> "png", w |-> 4, h |-> 3,
   intact |-> TRUE, sameSize |-> TRUE, tail |-> FALSE, frames |-> 1,
   encodable |-> TRUE, segments |-> <<>>]
SizesUpTo(n) == {Plain} \cup {[Plain EXCEPT !.w = w, !.h = h] : w, h \in 0 .. n}
As(f, format) == [f EXCEPT !.magic = format, !.container = format]

Directories == {<<>>} \cup {<<e>> : e \in [orientation : BOOLEAN, short : BOOLEAN, value : 0 .. 9]}
Exif == [kind : {"exif"}, count : 0 .. 2, entries : Directories]
Other == [kind |-> "other", count |-> 0, entries |-> <<>>]
Stop == [Other EXCEPT !.kind = "stop"]
Walks == {<<>>} \cup UNION {{<<x>>, <<Other, x>>, <<Stop, x>>} : x \in Exif}

Jpegs == {[As(f, "jpeg") EXCEPT !.segments = walk] : f \in SizesUpTo(5), walk \in Walks}
Gifs ==
  {[As(f, "gif") EXCEPT !.frames = n] : f \in SizesUpTo(5), n \in 0 .. 1}
    \cup {[As(f, "gif") EXCEPT !.frames = n] : f \in SizesUpTo(2), n \in 2 .. 3}
    \cup {[As(Plain, "gif") EXCEPT !.h = 1, !.frames = n] : n \in 3 .. 4}
Odd ==
  [length : {"short", "fits", "long", "broken"}, magic : Formats \cup {"none"},
   container : Formats \cup {"none"}, w : {2}, h : {1}, intact : BOOLEAN,
   sameSize : BOOLEAN, tail : BOOLEAN, frames : {1}, encodable : BOOLEAN,
   segments : {<<>>}]
Pictures == Jpegs \cup Gifs \cup Odd

\* Patches of two pixels with two palettes, one of which may lack a colour.
Patches ==
  {f \in Frames : /\ f.area # {} /\ f.palette \in {{red, Clear}, {red, blue, Clear}}
                  /\ \A p \in Pixels : f.pixel[p] \in IF p \in f.area THEN f.palette
                                                                    ELSE {Clear}}
-----------------------------------------------------------------------------
VARIABLE about

AboutLogin == Init /\ about = "login"
AboutAddress == AddressInit /\ about = "address"
AboutPicture == MediaInit /\ about = "picture"

LoginRests == Init
AddressRests == sender = v4 /\ peer = v4 /\ header = <<>> /\ key = <<>>
PictureRests == file = Plain /\ result = Undecided /\ AnimationInit

RequestsInit ==
  \/ AboutLogin /\ AddressRests /\ PictureRests
  \/ AboutAddress /\ LoginRests /\ PictureRests
  \/ AboutPicture /\ LoginRests /\ AddressRests

RequestsNext ==
  /\ \/ about = "login" /\ Next /\ UNCHANGED <<addressVars, mediaVars>>
     \/ about = "address" /\ AddressNext /\ UNCHANGED <<loginVars, mediaVars>>
     \/ about = "picture" /\ MediaNext /\ UNCHANGED <<loginVars, addressVars>>
  /\ UNCHANGED about

RequestsSpec == RequestsInit /\ [][RequestsNext]_<<loginVars, addressVars, mediaVars, about>>
=============================================================================
