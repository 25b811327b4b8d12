----------------------------- MODULE Calculations -----------------------------
(***************************************************************************)
(* The two functions of src/server/calc, as local channels use them: the   *)
(* calibration of an analog input, and the logic of an output, while       *)
(* readings, calibration points and the values of tags change.             *)
(***************************************************************************)
EXTENDS Calibrator, ControlLogic

CONSTANTS Coordinate,    \* coordinates of calibration points
          MaxPoints,     \* number of points of a calibration
          Reading,       \* raw values of the input
          MaxConditions, \* number of conditions of an output
          TagNumber      \* numbers that tags may have

ASSUME NumbersAssumption ==
    /\ Coordinate \subseteq Int /\ Reading \subseteq Int
    /\ MaxPoints \in Nat /\ MaxConditions \in Nat

VARIABLES calPoints,  \* the calibration points of an input
          reading,    \* its raw value
          conditions, \* the conditions of an output
          readings    \* the value of each tag

calcVars == <<calPoints, reading, conditions, readings>>

Point == [x : Coordinate, y : Coordinate]

Calibrations == UNION {[1..n -> Point] : n \in 0..MaxPoints}

\* Operators on the first condition make no difference, and GTE, LTE and NE
\* are negations of the others.
Conditions == {c \in Condition : c.comparison \in {"GT", "EQ", "UNAVAILABLE"}}
Logics == {l \in UNION {[1..n -> Conditions] : n \in 0..MaxConditions} :
              l # <<>> => l[1].operator = "AND"}

Readings == [ConditionTag -> TagNumber \cup {Unavailable}]
NoReadings == [t \in ConditionTag |-> Unavailable]

\* A new reading of the input, or an edited calibration.
AnalogInput ==
    /\ \/ reading' \in Reading /\ UNCHANGED calPoints
       \/ \E i \in DOMAIN calPoints, p \in Point :
              calPoints' = [calPoints EXCEPT ![i] = p] /\ UNCHANGED reading
    /\ UNCHANGED <<conditions, readings>>

\* Another value of a tag.
Output ==
    /\ \E t \in ConditionTag, v \in TagNumber \cup {Unavailable} :
           readings' = [readings EXCEPT ![t] = v]
    /\ UNCHANGED <<calPoints, reading, conditions>>

\* The two do not meet: either varies while the other is empty.
CalcInit ==
    /\ reading \in Reading
    /\ \/ calPoints \in Calibrations /\ conditions = <<>> /\ readings = NoReadings
       \/ calPoints = <<>> /\ conditions \in Logics /\ readings = NoReadings
CalcNext ==
    \/ conditions = <<>> /\ readings = NoReadings /\ AnalogInput
    \/ calPoints = <<>> /\ Output
CalcSpec == CalcInit /\ [][CalcNext]_calcVars

-----------------------------------------------------------------------------
(* Calibration                                                             *)

Leq(a, b) == a.num * b.den <= b.num * a.den
Calibrated(raw, v) == Calibrate(Calibration(raw), v)

\* A reading that is the x of a point is calibrated to the y of that point,
\* in whatever order the points were entered.
PointsAreMet(raw) ==
    \A i \in DOMAIN raw :
        LET v == Calibrated(raw, raw[i].x) IN v.num = raw[i].y * v.den

\* Points that rise give a calibration that rises: no step down where one
\* segment ends and the next begins, nor before the first and after the last.
RisingStaysRising(raw, input) ==
    (\A i, j \in DOMAIN raw : raw[i].x < raw[j].x => raw[i].y <= raw[j].y)
      => \A v \in Reading : input <= v => Leq(Calibrated(raw, input), Calibrated(raw, v))

\* Every calibration of points that differ in x is the function a user expects.
CalibrationIsSound ==
    (\A i, j \in DOMAIN calPoints : calPoints[i].x = calPoints[j].x => i = j)
      => PointsAreMet(calPoints) /\ RisingStaysRising(calPoints, reading)

\* What the comment on the constructor says: duplicates are removed, and what
\* remains is a calibration.
DuplicatesAreRemoved == Calibration(calPoints) # Failed

-----------------------------------------------------------------------------
(* Control logic                                                           *)

Evaluated == EvaluateControlLogic(conditions, readings)

\* An output that is switched although some values are not available stays
\* as it is, whatever those values turn out to be, unless the logic itself
\* asks for availability.
KnownIsFinal ==
    [][(\A t \in ConditionTag : readings[t] \in {readings'[t], Unavailable})
         /\ (\A i \in DOMAIN conditions : conditions[i].comparison # "UNAVAILABLE")
         /\ Evaluated # Unknown
       => Evaluated' = Evaluated]_calcVars

=============================================================================
