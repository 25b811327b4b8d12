----------------------------- MODULE ConnectMode -----------------------------
(***************************************************************************)
(* The connect button (src/server/device/ConnectModeHandler.js): a press   *)
(* puts the device into connect mode for a while, a long press resets its  *)
(* network mode.  The handler only sees the button in status messages of   *)
(* the hardware, which come whenever they come, and measures with a clock  *)
(* that may be set.                                                        *)
(***************************************************************************)
EXTENDS Integers, Sequences

CONSTANTS Debounce,        \* 1 second between presses that count
          StaticHold,      \* 10 seconds
          DHCPHold,        \* 20 seconds
          ModeTimeout,     \* CONNECT_MODE_TIMEOUT
          MaxPresses,      \* bound on the number of presses
          MaxTime,         \* bound on the time that passes
          Jumps,           \* by how much the clock may be set, once
          None             \* null or undefined

ASSUME ConnectAssumption ==
    /\ {Debounce, StaticHold, DHCPHold, ModeTimeout, MaxPresses, MaxTime} \subseteq Nat
    /\ 0 < Debounce /\ Debounce < StaticHold /\ StaticHold < DHCPHold
    /\ Debounce < ModeTimeout
    /\ Jumps \subseteq Int
ASSUME NoneAssumption ==
    None \notin BOOLEAN /\ None \notin Int /\ None \notin {"static", "dhcp"}

NoTimer == -1

VARIABLES
  (* The button, the clock and time *)
  button,      \* held down
  eventCount,  \* the hardware's count of presses
  time,        \* time that has passed
  skew,        \* Date.now() is time + skew
  (* ConnectModeHandler *)
  inConnectMode, prevCount, buttonHoldBegin, triggeredNetworkingMode, lastButtonPressTime,
  connectModeTimeout,  \* time left on it, or NoTimer
  (* For the properties *)
  commands,    \* network mode commands since the button went down
  forced,      \* the mutation was the last to turn connect mode on
  unseen,      \* a press that no message with the count has reported yet
  offAgo       \* time since the mutation turned connect mode off, up to Debounce

environment == <<button, eventCount, time, skew>>
handler == <<inConnectMode, prevCount, buttonHoldBegin, triggeredNetworkingMode,
             lastButtonPressTime, connectModeTimeout>>
vars == <<environment, handler, commands, forced, unseen, offAgo>>

Now == time + skew

-----------------------------------------------------------------------------
(* setConnectButtonState                                                   *)

\* Mutated form: the count of presses is not looked at.
CountsAsPress_Never(count) == FALSE

CountsAsPress(count) == count # None /\ prevCount # None /\ count # prevCount

\* The first message that finds the button down.
HoldBegins(pressed) == pressed = TRUE /\ buttonHoldBegin = None

HoldMode ==
    IF Now - buttonHoldBegin > DHCPHold THEN "dhcp"
    ELSE IF Now - buttonHoldBegin > StaticHold THEN "static"
    ELSE None

\* Mutated form: a command is sent with each message.
NewCommand_Always == IF HoldMode # None THEN <<HoldMode>> ELSE <<>>

NewCommand == IF HoldMode \notin {None, triggeredNetworkingMode} THEN <<HoldMode>> ELSE <<>>

Hold(pressed) ==
    CASE pressed = None ->
            UNCHANGED <<buttonHoldBegin, triggeredNetworkingMode, commands>>
      [] HoldBegins(pressed) ->
            /\ buttonHoldBegin' = Now
            /\ UNCHANGED <<triggeredNetworkingMode, commands>>
      [] pressed = TRUE /\ buttonHoldBegin # None ->
            /\ triggeredNetworkingMode' = HoldMode
            /\ commands' = commands \o NewCommand
            /\ UNCHANGED buttonHoldBegin
      [] pressed = FALSE ->
            /\ buttonHoldBegin' = None
            /\ triggeredNetworkingMode' = None
            /\ commands' = <<>>

\* A press soon after the last one, by the clock, does not count.
Debounced == lastButtonPressTime # None /\ Now - lastButtonPressTime <= Debounce

\* Mutated form: the old timer is stopped, and none started, in connect mode.
ButtonPressed_TimerLost ==
    IF Debounced THEN UNCHANGED <<lastButtonPressTime, inConnectMode, connectModeTimeout, forced>>
    ELSE /\ lastButtonPressTime' = Now
         /\ inConnectMode' = TRUE
         /\ connectModeTimeout' = IF inConnectMode THEN NoTimer ELSE ModeTimeout
         /\ forced' = FALSE

\* _handleButtonPressed.
ButtonPressed ==
    IF Debounced THEN UNCHANGED <<lastButtonPressTime, inConnectMode, connectModeTimeout, forced>>
    ELSE /\ lastButtonPressTime' = Now
         /\ inConnectMode' = TRUE
         /\ connectModeTimeout' = ModeTimeout
         /\ forced' = FALSE

\* A status message.  Either field may be missing.  A press that both fields
\* show is handled twice, the second time to no effect.
SetConnectButtonState(pressed, count) ==
    /\ prevCount' = IF count # None THEN count ELSE prevCount
    /\ IF CountsAsPress(count) \/ HoldBegins(pressed)
       THEN ButtonPressed
       ELSE UNCHANGED <<lastButtonPressTime, inConnectMode, connectModeTimeout, forced>>
    /\ Hold(pressed)
    /\ unseen' = (unseen /\ count = None)
    /\ UNCHANGED <<environment, offAgo>>

Message == \E pressed \in {button, None}, count \in {eventCount, None} :
               SetConnectButtonState(pressed, count)

-----------------------------------------------------------------------------

\* The timeout, 5 minutes after the last press that counted.
ConnectModeTimeoutExpired ==
    /\ connectModeTimeout = 0
    /\ connectModeTimeout' = NoTimer
    /\ inConnectMode' = FALSE
    /\ forced' = FALSE
    /\ UNCHANGED <<environment, prevCount, buttonHoldBegin, triggeredNetworkingMode,
                   lastButtonPressTime, commands, unseen, offAgo>>

\* The GraphQL mutation; it leaves the timer alone.
SetInConnectMode(on) ==
    /\ inConnectMode' = on
    /\ forced' = on
    /\ offAgo' = IF on THEN offAgo ELSE 0
    /\ UNCHANGED <<environment, prevCount, buttonHoldBegin, triggeredNetworkingMode,
                   lastButtonPressTime, connectModeTimeout, commands, unseen>>

\* The button goes down or up.
Press ==
    /\ ~ button
    /\ button' = TRUE
    /\ eventCount < MaxPresses
    /\ eventCount' = eventCount + 1
    /\ unseen' = TRUE
    /\ UNCHANGED <<time, skew, handler, commands, forced, offAgo>>

Release ==
    /\ button
    /\ button' = FALSE
    /\ UNCHANGED <<eventCount, time, skew, handler, commands, forced, unseen, offAgo>>

Tick ==
    /\ time < MaxTime
    /\ connectModeTimeout # 0
    /\ time' = time + 1
    /\ connectModeTimeout' = IF connectModeTimeout = NoTimer THEN NoTimer
                             ELSE connectModeTimeout - 1
    /\ offAgo' = IF offAgo > Debounce THEN offAgo ELSE offAgo + 1
    /\ UNCHANGED <<button, eventCount, skew, inConnectMode, prevCount, buttonHoldBegin,
                   triggeredNetworkingMode, lastButtonPressTime, commands, forced, unseen>>

\* The system clock is set.
SetClock ==
    /\ skew = 0
    /\ skew' \in Jumps
    /\ UNCHANGED <<button, eventCount, time, handler, commands, forced, unseen, offAgo>>

Init ==
    /\ button \in BOOLEAN
    /\ eventCount = 0 /\ time = 1 /\ skew = 0
    /\ inConnectMode = FALSE /\ connectModeTimeout = NoTimer
    /\ prevCount = None /\ buttonHoldBegin = None /\ triggeredNetworkingMode = None
    /\ lastButtonPressTime = None
    /\ commands = <<>> /\ forced = FALSE /\ unseen = FALSE /\ offAgo = Debounce + 1

Next ==
    \/ Message \/ ConnectModeTimeoutExpired
    \/ \E on \in BOOLEAN : SetInConnectMode(on)
    \/ Press \/ Release \/ Tick \/ SetClock

Spec == Init /\ [][Next]_vars

-----------------------------------------------------------------------------
(* Properties                                                              *)

\* The shape of the state.
TypeOK ==
    /\ {button, inConnectMode, forced, unseen} \subseteq BOOLEAN
    /\ prevCount \in {None} \cup 0..eventCount
    /\ {buttonHoldBegin, lastButtonPressTime} \subseteq {None} \cup Int
    /\ triggeredNetworkingMode \in {None, "static", "dhcp"}
    /\ connectModeTimeout \in {NoTimer} \cup 0..ModeTimeout

\* A press is not missed, however short it was and whatever else happened
\* since the last message: the message that counts it finds or leaves the
\* device in connect mode, unless the mutation turned it off a moment ago.
\* A clock that is set back is another matter.
PressIsNotMissed ==
    [][unseen /\ ~ unseen' /\ prevCount # None /\ skew >= 0
       => inConnectMode' \/ offAgo <= Debounce]_vars

\* Connect mode ends by itself, unless it was turned on by the mutation.
ModeIsTimed == inConnectMode => connectModeTimeout # NoTimer \/ forced

\* Types, and a timer for as long as a mode that was entered by a press.
Inv == TypeOK /\ ModeIsTimed

\* While the button is held each network mode is commanded at most once,
\* static before DHCP, unless the clock is set back.
CommandsInOrder ==
    skew >= 0 => commands \in {<<>>, <<"static">>, <<"dhcp">>, <<"static", "dhcp">>}

=============================================================================
