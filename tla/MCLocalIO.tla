------------------------------ MODULE MCLocalIO ------------------------------
(***************************************************************************)
(* Two local channels: channel 0 is an output or an input, channel 1 is an *)
(* input whose tag the condition of channel 0 reads.  Channel 0 may have    *)
(* the tag of channel 1: as an input, so that nothing provides the tag, or *)
(* as a settable output, so that it takes the commands and channel 1 gives *)
(* the value.                                                              *)
(***************************************************************************)
EXTENDS LocalIO, TLC

Config_(mode, control, logic, reverse, safe, tag) ==
    [mode |-> mode, controlMode |-> control, logic |-> logic,
     reversePolarity |-> reverse, safeState |-> safe, tag |-> tag]

Channel1IsOn ==
    <<[tag |-> 2, comparison |-> "GT", setpoint |-> 0, operator |-> "AND"]>>
Channel1IsMissing ==
    Append(Channel1IsOn, [tag |-> 2, comparison |-> "UNAVAILABLE",
                          setpoint |-> Unavailable, operator |-> "OR"])

Output(control, logic, reverse, safe, tag) ==
    Config_("DIGITAL_OUTPUT", control, logic, reverse, safe, tag)
Input(reverse, tag) == Config_("DIGITAL_INPUT", "OUTPUT_A_TAG", <<>>, reverse, 0, tag)

TwoChannels ==
    (0 :> {Output("OUTPUT_A_TAG", <<>>, FALSE, 1, 2),
           Output("FORCE_OFF", <<>>, TRUE, 0, None),
           Output("CONDITION", Channel1IsMissing, FALSE, 0, None),
           Input(FALSE, 2)})
      @@ (1 :> {Input(TRUE, 2)})

=============================================================================
