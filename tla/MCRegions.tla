------------------------------ MODULE MCRegions ------------------------------
(* Model-checking instance of Regions, half pixels.                          *)
EXTENDS Regions, TLC

\* Long either way, larger than the networks' input, smaller, and of one row.
SomeSizes == {[w |-> 5, h |-> 4], [w |-> 3, h |-> 7], [w |-> 2, h |-> 2], [w |-> 9, h |-> 1]}

Image == [w |-> 4, h |-> 3]

\* The image, in batches of any number; and any image.
SomeBindings == {<<-1, 3, 3, 4>>, <<1, 3, -1, -1>>}

\* Sides before, across, within, beyond and past the frame, and back to front.
SidesX == {<<-9, -4>>, <<-3, 3>>, <<3, 5>>, <<2, 7>>, <<5, 22>>, <<20, 24>>, <<6, 3>>}
SidesY == {<<-5, 1>>, <<1, 5>>, <<3, 9>>, <<16, 17>>}

Boxes == {[x1 |-> x[1], y1 |-> y[1], x2 |-> x[2], y2 |-> y[2]] : x \in SidesX, y \in SidesY}

\* Nothing, one pantograph anywhere, or a second one.
SomeScenes == {<<>>} \cup {<<b>> : b \in Boxes}
                \cup {<<[x1 |-> 2, y1 |-> 1, x2 |-> 7, y2 |-> 5], b>> : b \in Boxes}

\* Of the 8 by 6 half pixels of the image: all, a part, a corner, one that
\* reaches out of it, one back to front.
SomeSightings ==
  {{}} \cup {{[x1 |-> s[1], y1 |-> s[2], x2 |-> s[3], y2 |-> s[4]]} :
    s \in {<<0, 0, 8, 6>>, <<3, 1, 5, 4>>, <<7, 5, 8, 6>>, <<-5, -3, 14, 11>>, <<6, 4, 1, 2>>}}
=============================================================================
