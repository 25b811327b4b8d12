----------------------------- MODULE Calibrator ------------------------------
(***************************************************************************)
(* The calibration of an analog input (src/server/calc/Calibrator.js): a   *)
(* piecewise linear function through the points that the user entered.     *)
(* Numbers are integers and a calibrated value is a fraction; the rounding *)
(* of floating point is left out.                                          *)
(***************************************************************************)
EXTENDS FiniteSets, Integers, Sequences

\* y + dy / dx * (input - x): the code's slope * input + offset.
Segment == [x : Int, y : Int, dx : Int, dy : Int]

\* What a constructor that throws leaves behind.
Failed == <<>>

Xs(raw) == {raw[i].x : i \in DOMAIN raw}
Rank(raw, x) == Cardinality({z \in Xs(raw) : z <= x})

\* The points by rising x; of those with the same x the first one stays.
Deduplicated(raw) ==
    [k \in 1..Cardinality(Xs(raw)) |->
        raw[CHOOSE i \in DOMAIN raw :
                Rank(raw, raw[i].x) = k /\ \A j \in 1..(i - 1) : raw[j].x # raw[i].x]]

\* Mutated form: the points are taken in the order in which they came.
Segments_Unsorted(raw) ==
    [i \in 1..Len(raw) - 1 |->
        [x |-> raw[i].x, y |-> raw[i].y,
         dx |-> raw[i + 1].x - raw[i].x, dy |-> raw[i + 1].y - raw[i].y]]

\* One segment from each point to the next.  The loop counts the raw points:
\* if some were removed it reads behind the end of the array and throws.
Segments(raw) ==
    LET points == Deduplicated(raw)
    IN  IF Len(points) < Len(raw) THEN Failed
        ELSE [i \in 1..Len(raw) - 1 |->
                [x |-> points[i].x, y |-> points[i].y,
                 dx |-> points[i + 1].x - points[i].x, dy |-> points[i + 1].y - points[i].y]]

\* Fewer than two points: an offset, or nothing at all.
Offset(raw) ==
    <<[x |-> 0, y |-> IF Len(raw) = 1 THEN raw[1].y - raw[1].x ELSE 0, dx |-> 1, dy |-> 1]>>

\* The constructor.
Calibration(raw) == IF Len(raw) >= 2 THEN Segments(raw) ELSE Offset(raw)

\* The last segment of those that begin at or before the value, else the first.
SegmentOf(segments, input) ==
    LET begun == {i \in DOMAIN segments : \A j \in 1..i : segments[j].x <= input}
    IN  IF begun = {} THEN 1 ELSE CHOOSE i \in begun : \A j \in begun : j <= i

\* calibrate(), as a fraction.
Calibrate(segments, input) ==
    LET s == segments[SegmentOf(segments, input)]
    IN  [num |-> s.y * s.dx + s.dy * (input - s.x), den |-> s.dx]

=============================================================================
