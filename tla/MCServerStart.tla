---------------------------- MODULE MCServerStart ----------------------------
(***************************************************************************)
(* A device with two channels, one of them with an analog input, and two   *)
(* migrations that build on each other.                                    *)
(***************************************************************************)
EXTENDS ServerStart, TLC

CONSTANTS channel1, channel2

DefaultTags == (0 :> channel1) @@ (1 :> channel2)
Default == [mode |-> "DIGITAL_INPUT", calibration |-> None]

\* What users ask for: an analog input that is calibrated, or nothing.
Configurations == {[mode |-> "ANALOG_INPUT", calibration |-> "good"]}

=============================================================================
