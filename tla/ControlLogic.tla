---------------------------- MODULE ControlLogic -----------------------------
(***************************************************************************)
(* The conditions that switch a local output                               *)
(* (src/server/calc/evaluateControlLogic.js), in a logic of three values.  *)
(***************************************************************************)
EXTENDS Integers, Sequences, SequencesExt

CONSTANTS ConditionTag, \* tags that conditions compare
          Setpoint,     \* numbers that they are compared with
          Unavailable   \* not a finite number, or no value at all

\* TRUE, FALSE and null.
Unknown == "unknown"
Truth   == {"true", "false", Unknown}

Comparisons == {"GT", "GTE", "LT", "LTE", "EQ", "NE", "UNAVAILABLE"}

\* The operator joins a condition to those before it; the first one's is not used.
Condition == [tag : ConditionTag, comparison : Comparisons,
              setpoint : Setpoint \cup {Unavailable}, operator : {"AND", "OR"}]

Known(b) == IF b THEN "true" ELSE "false"

Or(a, b) == IF "true" \in {a, b} THEN "true"
            ELSE IF Unknown \in {a, b} THEN Unknown ELSE "false"

\* Mutated form: unknown counts as true.
And_UnknownIsTrue(a, b) == Known("false" \notin {a, b})

And(a, b) == IF "false" \in {a, b} THEN "false"
             ELSE IF Unknown \in {a, b} THEN Unknown ELSE "true"

Holds(v, comparison, setpoint) ==
    CASE comparison = "GT"  -> v > setpoint
      [] comparison = "GTE" -> v >= setpoint
      [] comparison = "LT"  -> v < setpoint
      [] comparison = "LTE" -> v <= setpoint
      [] comparison = "EQ"  -> v = setpoint
      [] comparison = "NE"  -> v # setpoint

\* evaluateCondition.
EvaluateCondition(c, values) ==
    IF c.comparison = "UNAVAILABLE" THEN Known(values[c.tag] = Unavailable)
    ELSE IF Unavailable \in {values[c.tag], c.setpoint} THEN Unknown
    ELSE Known(Holds(values[c.tag], c.comparison, c.setpoint))

\* The results after each condition, from the first to the last, no precedence.
Results(logic, values) ==
    LET result[i \in DOMAIN logic] ==
            LET holds == EvaluateCondition(logic[i], values)
            IN  IF i = 1 THEN holds
                ELSE IF logic[i].operator = "OR" THEN Or(result[i - 1], holds)
                ELSE And(result[i - 1], holds)
    IN  result

\* evaluateControlLogic.
EvaluateControlLogic(logic, values) ==
    IF logic = <<>> THEN Unknown ELSE Results(logic, values)[Len(logic)]

=============================================================================
