---------------------------- MODULE DeviceProofs -----------------------------
(***************************************************************************)
(* Proofs about the connect button, for any times, any clock that is set   *)
(* once, and any sequence of presses and status messages; and about the    *)
(* network settings, for any file, any number of calls and any addresses.  *)
(***************************************************************************)
EXTENDS ConnectMode, NetworkSettings, SequenceTheorems, FiniteSetTheorems, WellFoundedInduction,
        TLAPS

-----------------------------------------------------------------------------
(* The connect button                                                      *)

Times ==
    /\ Debounce \in Nat /\ StaticHold \in Nat /\ DHCPHold \in Nat /\ ModeTimeout \in Nat
    /\ 0 < Debounce /\ Debounce < StaticHold /\ StaticHold < DHCPHold /\ Debounce < ModeTimeout
    /\ \A j \in Jumps : j \in Int

LEMMA TimesOK == Times
BY ConnectAssumption DEF Times

LEMMA NoneIsNothing ==
    /\ None # TRUE /\ None # FALSE /\ None # "static" /\ None # "dhcp"
    /\ \A i \in Int : i # None
BY NoneAssumption

LEMMA Pair == ASSUME NEW S, NEW a \in S, NEW b \in S PROVE <<a>> \o <<b>> = <<a, b>>
<1>0. <<a, b>> \in Seq(S) /\ <<a>> \in Seq(S) /\ <<b>> \in Seq(S)
  OBVIOUS
<1>1. PICK s \in Seq(S) : s = <<a, b>>
  BY <1>0
<1>2. PICK t \in Seq(S) : t = <<a>> \o <<b>>
  <2>1. <<a>> \o <<b>> \in Seq(S)
    BY <1>0, ConcatProperties
  <2> QED BY <2>1
<1>3. Len(s) = 2 /\ s[1] = a /\ s[2] = b
  BY <1>1
<1>4. Len(t) = 2 /\ t[1] = a /\ t[2] = b
  BY <1>2
<1>5. \A i \in 1..Len(s) : s[i] = t[i]
  BY <1>3, <1>4
<1>6. s = t
  BY <1>3, <1>4, <1>5, SeqEqual
<1> QED BY <1>1, <1>2, <1>6

-----------------------------------------------------------------------------
(* The inductive invariant                                                 *)

\* TypeOK, and the types of what it leaves out.
Types ==
    /\ button \in BOOLEAN /\ inConnectMode \in BOOLEAN /\ forced \in BOOLEAN /\ unseen \in BOOLEAN
    /\ eventCount \in Nat /\ time \in Nat /\ skew \in Int /\ offAgo \in Nat
    /\ prevCount = None \/ prevCount \in 0..eventCount
    /\ buttonHoldBegin = None \/ buttonHoldBegin \in Int
    /\ lastButtonPressTime = None \/ lastButtonPressTime \in Int
    /\ triggeredNetworkingMode \in {None, "static", "dhcp"}
    /\ connectModeTimeout = NoTimer \/ connectModeTimeout \in 0..ModeTimeout

\* A press that no message has counted makes the next count differ.
UnseenInv == unseen /\ prevCount # None => prevCount < eventCount

\* By a clock that is not set back, a network mode that has been commanded has
\* been earned, so that a later message does not find a lesser one.
HoldInv ==
    skew >= 0 =>
        /\ buttonHoldBegin = None => triggeredNetworkingMode = None
        /\ buttonHoldBegin # None => buttonHoldBegin <= Now
        /\ triggeredNetworkingMode = None => commands = <<>>
        /\ triggeredNetworkingMode = "static" =>
              commands = <<"static">> /\ Now - buttonHoldBegin > StaticHold
        /\ triggeredNetworkingMode = "dhcp" =>
              commands \in {<<"dhcp">>, <<"static", "dhcp">>} /\ Now - buttonHoldBegin > DHCPHold

\* By such a clock, the timer has run for no longer than the clock says; and as
\* long as presses do not count, the last one that did has effect, unless the
\* mutation came after it.
PressInv ==
    skew >= 0 /\ lastButtonPressTime # None =>
        LET age == Now - lastButtonPressTime
        IN  /\ age >= 0
            /\ connectModeTimeout = NoTimer => age >= ModeTimeout
            /\ connectModeTimeout # NoTimer => age >= ModeTimeout - connectModeTimeout
            /\ age <= Debounce => inConnectMode \/ offAgo <= age

IInv == Types /\ ModeIsTimed /\ UnseenInv /\ HoldInv /\ PressInv

LEMMA InitConnect == Init => IInv
<1> SUFFICES ASSUME Init PROVE IInv
  OBVIOUS
<1>1. /\ inConnectMode \in BOOLEAN /\ forced \in BOOLEAN /\ unseen \in BOOLEAN
      /\ button \in BOOLEAN
  BY DEF Init
<1>2. Types
  BY <1>1, TimesOK DEF Init, Types, Times
<1>3. ModeIsTimed /\ UnseenInv
  BY DEF Init, ModeIsTimed, UnseenInv
<1>4. HoldInv
  BY NoneIsNothing DEF Init, HoldInv
<1>5. PressInv
  BY DEF Init, PressInv
<1> QED BY <1>2, <1>3, <1>4, <1>5 DEF IInv

-----------------------------------------------------------------------------
(* Status messages                                                         *)

LEMMA ButtonPressedKeeps ==
    ASSUME IInv, UNCHANGED <<time, skew, offAgo>>,
           ButtonPressed \/ UNCHANGED <<lastButtonPressTime, inConnectMode, connectModeTimeout, forced>>
    PROVE  /\ ModeIsTimed' /\ PressInv'
           /\ inConnectMode' \in BOOLEAN /\ forced' \in BOOLEAN
           /\ lastButtonPressTime' = None \/ lastButtonPressTime' \in Int
           /\ connectModeTimeout' = NoTimer \/ connectModeTimeout' \in 0..ModeTimeout
<1> USE TimesOK, NoneIsNothing DEF Times
<1>1. CASE UNCHANGED <<lastButtonPressTime, inConnectMode, connectModeTimeout, forced>>
  BY <1>1 DEF IInv, Types, ModeIsTimed, PressInv, Now
<1>2. CASE /\ lastButtonPressTime' = Now /\ inConnectMode' = TRUE
           /\ connectModeTimeout' = ModeTimeout /\ forced' = FALSE
  <2>1. Now \in Int /\ Now' = Now
    BY DEF IInv, Types, Now
  <2>2. connectModeTimeout' # NoTimer
    BY <1>2 DEF NoTimer
  <2>3. PressInv'
    BY <1>2, <2>1, <2>2 DEF PressInv
  <2>4. inConnectMode' \in BOOLEAN /\ forced' \in BOOLEAN
    BY <1>2
  <2>5. ModeIsTimed' /\ lastButtonPressTime' \in Int /\ connectModeTimeout' \in 0..ModeTimeout
    BY <1>2, <2>1, <2>2 DEF ModeIsTimed
  <2> QED BY <2>3, <2>4, <2>5
<1> QED BY <1>1, <1>2 DEF ButtonPressed

LEMMA HoldKeeps ==
    ASSUME IInv, UNCHANGED <<time, skew>>, NEW pressed \in {TRUE, FALSE, None}, Hold(pressed)
    PROVE  /\ HoldInv'
           /\ buttonHoldBegin' = None \/ buttonHoldBegin' \in Int
           /\ triggeredNetworkingMode' \in {None, "static", "dhcp"}
<1> USE TimesOK, NoneIsNothing DEF Times
<1>1. Now \in Int /\ Now' = Now /\ UNCHANGED skew
  BY DEF IInv, Types, Now
<1>2. CASE pressed = None
  <2>1. UNCHANGED <<buttonHoldBegin, triggeredNetworkingMode, commands>>
    BY <1>2 DEF Hold, HoldBegins
  <2> QED BY <1>1, <2>1 DEF IInv, Types, HoldInv
<1>3. CASE pressed = TRUE /\ buttonHoldBegin = None
  <2>1. buttonHoldBegin' = Now /\ UNCHANGED <<triggeredNetworkingMode, commands>>
    BY <1>3 DEF Hold, HoldBegins
  <2> QED BY <1>1, <1>3, <2>1 DEF IInv, Types, HoldInv
<1>4. CASE pressed = TRUE /\ buttonHoldBegin # None
  <2>1. /\ triggeredNetworkingMode' = HoldMode /\ commands' = commands \o NewCommand
        /\ UNCHANGED buttonHoldBegin
    BY <1>4 DEF Hold, HoldBegins
  <2>2. HoldMode \in {None, "static", "dhcp"}
    BY DEF HoldMode
  <2>3. buttonHoldBegin \in Int
    BY <1>4 DEF IInv, Types
  <2>4. ASSUME skew >= 0 PROVE HoldInv'
    <3>1. commands \o <<>> = commands /\ <<>> \o <<HoldMode>> = <<HoldMode>>
      BY <2>4 DEF IInv, HoldInv, Types
    <3>2. CASE triggeredNetworkingMode = None
      BY <1>1, <1>4, <2>1, <2>3, <2>4, <3>1, <3>2 DEF IInv, HoldInv, HoldMode, NewCommand
    <3>3. CASE triggeredNetworkingMode = "static"
      <4>1. <<"static">> \o <<"dhcp">> = <<"static", "dhcp">>
        <5>1. PICK a \in {"static"}, b \in {"dhcp"} : a = "static" /\ b = "dhcp"
          OBVIOUS
        <5>2. <<a>> \o <<b>> = <<a, b>>
          <6>1. a \in {"static", "dhcp"} /\ b \in {"static", "dhcp"}
            OBVIOUS
          <6> QED BY <6>1, Pair
        <5> QED BY <5>1, <5>2
      <4> QED BY <1>1, <1>4, <2>1, <2>3, <2>4, <3>1, <3>3, <4>1 DEF IInv, HoldInv, HoldMode, NewCommand
    <3>4. CASE triggeredNetworkingMode = "dhcp"
      <4>1. HoldMode = "dhcp"
        BY <2>4, <3>4 DEF IInv, HoldInv, HoldMode
      <4>2. commands' = commands
        BY <2>1, <3>1, <3>4, <4>1 DEF NewCommand
      <4> QED BY <1>1, <1>4, <2>1, <2>3, <2>4, <3>4, <4>1, <4>2 DEF IInv, HoldInv
    <3> QED BY <3>2, <3>3, <3>4 DEF IInv, Types
  <2> QED BY <1>1, <2>1, <2>2, <2>3, <2>4 DEF HoldInv
<1>5. CASE pressed = FALSE
  <2>1. buttonHoldBegin' = None /\ triggeredNetworkingMode' = None /\ commands' = <<>>
    BY <1>5 DEF Hold, HoldBegins
  <2> QED BY <2>1 DEF HoldInv
<1> QED BY <1>2, <1>3, <1>4, <1>5

LEMMA MessageKeeps ==
    ASSUME IInv, NEW pressed \in {button, None}, NEW count \in {eventCount, None},
           SetConnectButtonState(pressed, count)
    PROVE  IInv'
<1> USE TimesOK, NoneIsNothing DEF Times
<1>1. /\ prevCount' = IF count # None THEN count ELSE prevCount
      /\ ButtonPressed \/ UNCHANGED <<lastButtonPressTime, inConnectMode, connectModeTimeout, forced>>
      /\ Hold(pressed)
      /\ unseen' = (unseen /\ count = None)
      /\ UNCHANGED <<button, eventCount, time, skew, offAgo>>
  BY DEF SetConnectButtonState, environment
<1>2. pressed \in {TRUE, FALSE, None}
  BY DEF IInv, Types
<1>3. /\ ModeIsTimed' /\ PressInv'
      /\ inConnectMode' \in BOOLEAN /\ forced' \in BOOLEAN
      /\ lastButtonPressTime' = None \/ lastButtonPressTime' \in Int
      /\ connectModeTimeout' = NoTimer \/ connectModeTimeout' \in 0..ModeTimeout
  BY <1>1, ButtonPressedKeeps
<1>4. /\ HoldInv'
      /\ buttonHoldBegin' = None \/ buttonHoldBegin' \in Int
      /\ triggeredNetworkingMode' \in {None, "static", "dhcp"}
  BY <1>1, <1>2, HoldKeeps
<1>5. prevCount' = None \/ prevCount' \in 0..eventCount'
  BY <1>1 DEF IInv, Types
<1>6. UnseenInv'
  BY <1>1 DEF IInv, UnseenInv
<1>7. Types'
  <2>1. button' \in BOOLEAN /\ unseen' \in BOOLEAN
    BY <1>1 DEF IInv, Types
  <2>2. eventCount' \in Nat /\ time' \in Nat /\ skew' \in Int /\ offAgo' \in Nat
    BY <1>1 DEF IInv, Types
  <2> QED BY <1>3, <1>4, <1>5, <2>1, <2>2 DEF Types
<1> QED BY <1>3, <1>4, <1>6, <1>7 DEF IInv

-----------------------------------------------------------------------------
(* The other steps                                                         *)

LEMMA NextConnect == IInv /\ [Next]_vars => IInv'
<1> SUFFICES ASSUME IInv, [Next]_vars PROVE IInv'
  OBVIOUS
<1> USE TimesOK, NoneIsNothing DEF Times
<1>1. CASE Message
  BY <1>1, MessageKeeps DEF Message
<1>2. CASE ConnectModeTimeoutExpired
  <2>1. /\ connectModeTimeout = 0 /\ connectModeTimeout' = NoTimer
        /\ inConnectMode' = FALSE /\ forced' = FALSE
        /\ UNCHANGED <<button, eventCount, time, skew, prevCount, buttonHoldBegin,
                       triggeredNetworkingMode, lastButtonPressTime, commands, unseen, offAgo>>
    BY <1>2 DEF ConnectModeTimeoutExpired, environment
  <2>2. Types'
    <3>1. inConnectMode' \in BOOLEAN /\ forced' \in BOOLEAN /\ button' \in BOOLEAN
          /\ unseen' \in BOOLEAN
      BY <2>1 DEF IInv, Types
    <3> QED BY <2>1, <3>1 DEF IInv, Types
  <2>3. ModeIsTimed' /\ UnseenInv' /\ HoldInv'
    BY <2>1 DEF IInv, ModeIsTimed, UnseenInv, HoldInv, Now
  <2>4. PressInv'
    BY <2>1 DEF IInv, PressInv, Types, Now, NoTimer
  <2> QED BY <2>2, <2>3, <2>4 DEF IInv
<1>3. ASSUME NEW on \in BOOLEAN, SetInConnectMode(on) PROVE IInv'
  <2>1. /\ inConnectMode' = on /\ forced' = on /\ offAgo' = IF on THEN offAgo ELSE 0
        /\ UNCHANGED <<button, eventCount, time, skew, prevCount, buttonHoldBegin,
                       triggeredNetworkingMode, lastButtonPressTime, connectModeTimeout, commands,
                       unseen>>
    BY <1>3 DEF SetInConnectMode, environment
  <2>2. Types'
    <3>1. inConnectMode' \in BOOLEAN /\ forced' \in BOOLEAN /\ button' \in BOOLEAN
          /\ unseen' \in BOOLEAN
      BY <2>1 DEF IInv, Types
    <3>2. offAgo' \in Nat
      BY <2>1 DEF IInv, Types
    <3> QED BY <2>1, <3>1, <3>2 DEF IInv, Types
  <2>3. ModeIsTimed' /\ UnseenInv' /\ HoldInv'
    BY <2>1 DEF IInv, ModeIsTimed, UnseenInv, HoldInv, Now
  <2>4. PressInv'
    <3>1. CASE on = TRUE
      BY <2>1, <3>1 DEF IInv, PressInv, Now
    <3>2. CASE on = FALSE
      BY <2>1, <3>2 DEF IInv, PressInv, Types, Now
    <3> QED BY <3>1, <3>2
  <2> QED BY <2>2, <2>3, <2>4 DEF IInv
<1>4. CASE Press
  BY <1>4 DEF Press, handler, IInv, Types, ModeIsTimed, UnseenInv, HoldInv, PressInv, Now
<1>5. CASE Release
  BY <1>5 DEF Release, handler, IInv, Types, ModeIsTimed, UnseenInv, HoldInv, PressInv, Now
<1>6. CASE Tick
  BY <1>6 DEF Tick, IInv, Types, ModeIsTimed, UnseenInv, HoldInv, PressInv, Now, NoTimer
<1>7. CASE SetClock
  BY <1>7 DEF SetClock, handler, IInv, Types, ModeIsTimed, UnseenInv, HoldInv, PressInv, Now
<1>8. CASE UNCHANGED vars
  BY <1>8 DEF vars, environment, handler, IInv, Types, ModeIsTimed, UnseenInv, HoldInv, PressInv, Now
<1> QED BY <1>1, <1>2, <1>3, <1>4, <1>5, <1>6, <1>7, <1>8 DEF Next

LEMMA ConnectInvariance == Spec => []IInv
BY InitConnect, NextConnect, PTL DEF Spec

\* ConnectModeHandler.js: the types are right, and a connect mode that a press
\* has turned on has a timer that ends it.
THEOREM ConnectModeIsTimed == Spec => []Inv
<1>1. IInv => Inv
  BY TimesOK DEF IInv, Types, Inv, TypeOK
<1> QED BY <1>1, ConnectInvariance, PTL

\* ConnectModeHandler.js: while the button is held, each network mode is
\* commanded once at most, static before DHCP, unless the clock is set back.
THEOREM CommandsComeInOrder == Spec => []CommandsInOrder
<1>1. IInv => CommandsInOrder
  BY DEF IInv, Types, HoldInv, CommandsInOrder
<1> QED BY <1>1, ConnectInvariance, PTL

LEMMA CountedPressHasEffect ==
    ASSUME IInv, [Next]_vars, unseen, ~ unseen', prevCount # None, skew >= 0
    PROVE  inConnectMode' \/ offAgo <= Debounce
<1> USE TimesOK, NoneIsNothing DEF Times
<1>1. PICK pressed \in {button, None}, count \in {eventCount, None} :
          SetConnectButtonState(pressed, count)
  BY DEF Next, Message, ConnectModeTimeoutExpired, SetInConnectMode, Press, Release, Tick, SetClock, vars
<1>2. count = eventCount /\ count # None
  BY <1>1 DEF SetConnectButtonState, IInv, Types
<1>3. CountsAsPress(count)
  BY <1>2 DEF CountsAsPress, IInv, UnseenInv, Types
<1>4. ButtonPressed
  BY <1>1, <1>3 DEF SetConnectButtonState
<1>5. CASE Debounced
  <2>1. lastButtonPressTime # None /\ Now - lastButtonPressTime <= Debounce
    BY <1>5 DEF Debounced
  <2>2. UNCHANGED inConnectMode
    BY <1>4, <1>5 DEF ButtonPressed
  <2> QED BY <2>1, <2>2 DEF IInv, Types, PressInv, Now
<1>6. CASE ~ Debounced
  BY <1>4, <1>6 DEF ButtonPressed
<1> QED BY <1>5, <1>6

\* ConnectModeHandler.js: a press that lies between two messages with a count
\* turns connect mode on or finds it on, unless the mutation has just turned it
\* off; for any lost reports and any clock that is not set back.
THEOREM PressesAreSeen == Spec => PressIsNotMissed
<1>1. IInv /\ [Next]_vars =>
        [unseen /\ ~ unseen' /\ prevCount # None /\ skew >= 0
           => inConnectMode' \/ offAgo <= Debounce]_vars
  BY CountedPressHasEffect
<1> QED BY <1>1, ConnectInvariance, PTL DEF Spec, PressIsNotMissed

-----------------------------------------------------------------------------
(* The network settings: the file                                          *)

\* A line of the file at any time; what a write leaves may be torn.
FileLine == AnyLine \cup {Torn}

File == Seq(FileLine)

\* Sets of numbers have a least element.
LEMMA LeastNumber ==
    ASSUME NEW S \in SUBSET Nat, S # {}
    PROVE  \E m \in S : \A n \in S : m <= n
<1> DEFINE R == {p \in Nat \X Nat : p[1] < p[2]}
<1>1. IsWellFoundedOn(R, Nat)
  BY NatLessThanWellFounded, Zenon DEF OpToRel
<1>2. PICK m \in S : \A n \in S : ~ (<<n, m>> \in R)
  BY <1>1, WFMin
<1>3. \A n \in S : m <= n
  <2> TAKE n \in S
  <2>1. m \in Nat /\ n \in Nat /\ ~ (n < m)
    BY <1>2
  <2> QED BY <2>1
<1> QED BY <1>3

LEMMA MinIsLeast ==
    ASSUME NEW S \in SUBSET Nat, S # {}
    PROVE  Min(S) \in S /\ \A n \in S : Min(S) <= n
BY LeastNumber DEF Min

\* Where the eth0 section begins and ends.
LEMMA Eth0Section ==
    ASSUME NEW lines \in File, HasEth0(lines)
    PROVE  LET b == Eth0Begin(lines)
               e == Eth0End(lines)
           IN  /\ b \in 1..Len(lines) /\ lines[b] = AutoLine
               /\ \A j \in 1..(b - 1) : lines[j] # AutoLine
               /\ e \in b + 1 .. Len(lines) + 1
               /\ e <= Len(lines) => lines[e] = Blank
               /\ \A j \in b + 1 .. e - 1 : lines[j] # Blank
<1> DEFINE S == {i \in DOMAIN lines : lines[i] = AutoLine}
           b == Eth0Begin(lines)
           B == {i \in DOMAIN lines : i > b /\ lines[i] = Blank}
           e == Eth0End(lines)
<1>1. DOMAIN lines = 1..Len(lines) /\ Len(lines) \in Nat
  BY DEF File
<1>2. S \in SUBSET Nat /\ S # {}
  BY <1>1 DEF HasEth0
<1>3. PICK m \in S : \A n \in S : m <= n
  BY <1>2, LeastNumber
<1>4. \E i \in DOMAIN lines : lines[i] = AutoLine /\ \A j \in 1..(i - 1) : lines[j] # AutoLine
  <2>1. \A j \in 1..(m - 1) : lines[j] # AutoLine
    BY <1>1, <1>3
  <2> QED BY <1>3, <2>1
<1>5. b \in DOMAIN lines /\ lines[b] = AutoLine /\ \A j \in 1..(b - 1) : lines[j] # AutoLine
  BY <1>4 DEF Eth0Begin
<1>6. e = IF B = {} THEN Len(lines) + 1 ELSE Min(B)
  BY DEF Eth0End
<1>7. B \in SUBSET Nat
  BY <1>1
<1> HIDE DEF b, e
<1>8. CASE B = {}
  BY <1>1, <1>5, <1>6, <1>8 DEF b, e
<1>9. CASE B # {}
  <2>1. e \in B /\ \A n \in B : e <= n
    BY <1>6, <1>7, <1>9, MinIsLeast
  <2>2. \A j \in b + 1 .. e - 1 : lines[j] # Blank
    BY <1>1, <1>5, <2>1
  <2> QED BY <1>1, <1>5, <2>1, <2>2 DEF b, e
<1> QED BY <1>8, <1>9

\* A line that begins the section, and one that is blank and ends it.
LEMMA LineIsALine ==
    ASSUME NEW is \in {"auto", "blank", "dhcp", "static", "field"}, NEW value \in Address \cup {Nothing}, NEW c \in BOOLEAN
    PROVE  Line(is, value, c) \in FileLine
BY DEF Line, AnyLine, FileLine

LEMMA BlankIsNotAuto == Blank # AutoLine /\ Blank \in FileLine /\ AutoLine \in FileLine
<1>1. Blank # AutoLine
  BY DEF Blank, AutoLine, Line
<1> QED BY <1>1, LineIsALine DEF Blank, AutoLine

LEMMA BeforeAfter ==
    ASSUME NEW lines \in File
    PROVE  /\ Before(lines) \in File /\ After(lines) \in File
           /\ \A i \in 1..Len(Before(lines)) : Before(lines)[i] # AutoLine
           /\ After(lines) # <<>> => Head(After(lines)) = Blank
           /\ (\A i, j \in DOMAIN lines : lines[i] = AutoLine /\ lines[j] = AutoLine => i = j)
                => \A i \in 1..Len(After(lines)) : After(lines)[i] # AutoLine
<1>0. Len(lines) \in Nat /\ DOMAIN lines = 1..Len(lines) /\ \A i \in 1..Len(lines) : lines[i] \in FileLine
  BY DEF File
<1>1. CASE ~ HasEth0(lines)
  <2>1. Before(lines) = lines /\ After(lines) = <<>>
    BY <1>1 DEF Before, After
  <2>2. \A i \in 1..Len(lines) : lines[i] # AutoLine
    BY <1>0, <1>1 DEF HasEth0
  <2>3. <<>> \in File /\ Len(<<>>) = 0
    BY DEF File
  <2> QED BY <2>1, <2>2, <2>3
<1>2. CASE HasEth0(lines)
  <2> DEFINE b == Eth0Begin(lines)
             e == Eth0End(lines)
  <2>1. /\ b \in 1..Len(lines) /\ lines[b] = AutoLine
        /\ \A j \in 1..(b - 1) : lines[j] # AutoLine
        /\ e \in b + 1 .. Len(lines) + 1
        /\ e <= Len(lines) => lines[e] = Blank
    BY <1>2, Eth0Section
  <2>2. Before(lines) = SubSeq(lines, 1, b - 1) /\ After(lines) = SubSeq(lines, e, Len(lines))
    BY <1>2 DEF Before, After
  <2> HIDE DEF b, e
  <2>3. /\ Before(lines) \in File /\ Len(Before(lines)) = b - 1
        /\ \A i \in 1..(b - 1) : Before(lines)[i] = lines[i]
    <3>1. \A i \in 1..(b - 1) : lines[i] \in FileLine
      BY <1>0, <2>1
    <3>2. /\ SubSeq(lines, 1, b - 1) \in Seq(FileLine)
          /\ Len(SubSeq(lines, 1, b - 1)) = IF 1 <= b - 1 THEN b - 1 - 1 + 1 ELSE 0
          /\ \A i \in 1 .. b - 1 - 1 + 1 : SubSeq(lines, 1, b - 1)[i] = lines[1 + i - 1]
      BY <2>1, <3>1, SubSeqProperties
    <3> QED BY <2>1, <2>2, <3>2 DEF File
  <2>4. /\ After(lines) \in File /\ Len(After(lines)) = Len(lines) - e + 1
        /\ \A i \in 1..(Len(lines) - e + 1) : After(lines)[i] = lines[e + i - 1]
    <3>1. \A i \in e..Len(lines) : lines[i] \in FileLine
      BY <1>0, <2>1
    <3>2. /\ SubSeq(lines, e, Len(lines)) \in Seq(FileLine)
          /\ Len(SubSeq(lines, e, Len(lines))) = IF e <= Len(lines) THEN Len(lines) - e + 1 ELSE 0
          /\ \A i \in 1 .. Len(lines) - e + 1 : SubSeq(lines, e, Len(lines))[i] = lines[e + i - 1]
      BY <1>0, <2>1, <3>1, SubSeqProperties
    <3> QED BY <1>0, <2>1, <2>2, <3>2 DEF File
  <2>5. \A i \in 1..Len(Before(lines)) : Before(lines)[i] # AutoLine
    BY <2>1, <2>3
  <2>6. After(lines) # <<>> => Head(After(lines)) = Blank
    <3>1. SUFFICES ASSUME After(lines) # <<>> PROVE Head(After(lines)) = Blank
      OBVIOUS
    <3>2. Len(After(lines)) \in Nat \ {0}
      BY <2>4, <3>1, EmptySeq DEF File
    <3>3. After(lines)[1] = lines[e] /\ e <= Len(lines)
      <4>1. e \in Nat /\ Len(lines) - e + 1 \in Nat \ {0}
        BY <1>0, <2>1, <2>4, <3>2
      <4>2. 1 \in 1..(Len(lines) - e + 1) /\ e + 1 - 1 = e
        BY <4>1
      <4>3. After(lines)[1] = lines[e + 1 - 1]
        BY <2>4, <4>2
      <4> QED BY <1>0, <4>1, <4>2, <4>3
    <3>4. Head(After(lines)) = After(lines)[1]
      BY <2>4, <3>1 DEF File
    <3> QED BY <2>1, <3>3, <3>4
  <2>7. (\A i, j \in DOMAIN lines : lines[i] = AutoLine /\ lines[j] = AutoLine => i = j)
                => \A i \in 1..Len(After(lines)) : After(lines)[i] # AutoLine
    <3>1. SUFFICES ASSUME \A i, j \in DOMAIN lines : lines[i] = AutoLine /\ lines[j] = AutoLine => i = j,
                          NEW i \in 1..Len(After(lines))
                   PROVE  After(lines)[i] # AutoLine
      OBVIOUS
    <3>2. e + i - 1 \in 1..Len(lines) /\ e + i - 1 # b /\ After(lines)[i] = lines[e + i - 1]
      BY <1>0, <2>1, <2>4
    <3> QED BY <1>0, <2>1, <3>1, <3>2
  <2> QED BY <2>3, <2>4, <2>5, <2>6, <2>7
<1> QED BY <1>1, <1>2

LEMMA ConfigLinesFacts ==
    ASSUME NEW s \in Settings
    PROVE  LET eth == ConfigLines(s)
           IN  /\ eth \in File /\ Len(eth) \in {3, 4}
               /\ eth[1] = AutoLine /\ eth[2] = DHCP(~ s.dhcpEnabled) /\ eth[3] = Static(s.dhcpEnabled)
               /\ Len(eth) = 4 => eth[4] = Field(s.address, s.dhcpEnabled)
<1> DEFINE three == <<AutoLine, DHCP(~ s.dhcpEnabled), Static(s.dhcpEnabled)>>
           field == Field(s.address, s.dhcpEnabled)
<1>0. s.dhcpEnabled \in BOOLEAN /\ s.address \in Address \cup {Nothing}
  BY DEF Settings
<1>1. AutoLine \in FileLine /\ DHCP(~ s.dhcpEnabled) \in FileLine /\ Static(s.dhcpEnabled) \in FileLine
        /\ field \in FileLine
  BY <1>0, LineIsALine DEF AutoLine, DHCP, Static, Field
<1>2. three \in File /\ <<field>> \in File /\ <<>> \in File /\ Len(three) = 3 /\ Len(<<field>>) = 1
  BY <1>1 DEF File
<1>3. three[1] = AutoLine /\ three[2] = DHCP(~ s.dhcpEnabled) /\ three[3] = Static(s.dhcpEnabled)
        /\ <<field>>[1] = field
  OBVIOUS
<1> HIDE DEF three, field
<1>4. CASE s.address = Nothing
  <2>1. ConfigLines(s) = three \o <<>>
    BY <1>4 DEF ConfigLines, three
  <2>2. three \o <<>> = three
    BY <1>2, ConcatEmptySeq DEF File
  <2> QED BY <1>2, <1>3, <2>1, <2>2
<1>5. CASE s.address # Nothing
  <2>1. ConfigLines(s) = three \o <<field>>
    BY <1>5 DEF ConfigLines, three, field
  <2>2. /\ three \o <<field>> \in Seq(FileLine) /\ Len(three \o <<field>>) = 3 + 1
        /\ \A i \in 1..(3 + 1) : (three \o <<field>>)[i] = IF i <= 3 THEN three[i] ELSE <<field>>[i - 3]
    <3>1. three \in Seq(FileLine) /\ <<field>> \in Seq(FileLine)
      BY <1>2 DEF File
    <3>2. PICK last : last = <<field>>
      OBVIOUS
    <3>3. three \in Seq(FileLine) /\ last \in Seq(FileLine) /\ Len(three) = 3 /\ Len(last) = 1
      BY <1>2, <3>1, <3>2
    <3>4. /\ three \o last \in Seq(FileLine) /\ Len(three \o last) = Len(three) + Len(last)
          /\ \A i \in 1..(Len(three) + Len(last)) :
                (three \o last)[i] = IF i <= Len(three) THEN three[i] ELSE last[i - Len(three)]
      BY <3>3, ConcatProperties
    <3> QED BY <3>2, <3>3, <3>4
  <2> QED BY <1>3, <2>1, <2>2 DEF field, File
<1> QED BY <1>4, <1>5


\* A part of a file is what its lines are.
LEMMA Part ==
    ASSUME NEW lines \in File, NEW part \in File, NEW m \in Nat \ {0}, NEW n \in Nat,
           n <= Len(lines), Len(part) = n - m + 1,
           \A i \in 1..Len(part) : part[i] = lines[m + i - 1]
    PROVE  SubSeq(lines, m, n) = part
<1> DEFINE sub == SubSeq(lines, m, n)
<1>1. \A i \in m..n : lines[i] \in FileLine
  BY DEF File
<1>2. /\ sub \in Seq(FileLine)
      /\ Len(sub) = IF m <= n THEN n - m + 1 ELSE 0
      /\ \A i \in 1..(n - m + 1) : sub[i] = lines[m + i - 1]
  BY <1>1, SubSeqProperties
<1>3. Len(part) \in Nat
  BY DEF File
<1> HIDE DEF sub
<1>4. Len(sub) = Len(part)
  <2>1. CASE m <= n
    BY <1>2, <2>1
  <2>2. CASE ~ (m <= n)
    <3>1. Len(sub) = 0 /\ n - m + 1 <= 0
      BY <1>2, <2>2
    <3> QED BY <1>3, <3>1
  <2> QED BY <2>1, <2>2
<1>6. \A i \in 1..Len(sub) : sub[i] = part[i]
  BY <1>2, <1>4
<1>5. sub = part
  BY <1>2, <1>4, <1>6, SeqEqual DEF File
<1> QED BY <1>5 DEF sub

\* The lines of b, then those of eth, then those of a.
Around(lines, b, eth, a) ==
    \A i \in 1..Len(lines) :
        lines[i] = IF i <= Len(b) THEN b[i]
                   ELSE IF i <= Len(b) + Len(eth) THEN eth[i - Len(b)]
                   ELSE a[i - Len(b) - Len(eth)]

LEMMA ConcatThree ==
    ASSUME NEW b \in File, NEW eth \in File, NEW a \in File, NEW lines, lines = b \o eth \o a
    PROVE  /\ lines \in File /\ Len(lines) = Len(b) + Len(eth) + Len(a)
           /\ Around(lines, b, eth, a)
<1>0. /\ b \in Seq(FileLine) /\ eth \in Seq(FileLine) /\ a \in Seq(FileLine)
      /\ Len(b) \in Nat /\ Len(eth) \in Nat /\ Len(a) \in Nat
  BY DEF File
<1>1. PICK head : head = b \o eth
  OBVIOUS
<1>2. /\ head \in Seq(FileLine) /\ Len(head) = Len(b) + Len(eth)
      /\ \A i \in 1..(Len(b) + Len(eth)) : head[i] = IF i <= Len(b) THEN b[i] ELSE eth[i - Len(b)]
  <2>1. /\ b \o eth \in Seq(FileLine) /\ Len(b \o eth) = Len(b) + Len(eth)
        /\ \A i \in 1..(Len(b) + Len(eth)) :
              (b \o eth)[i] = IF i <= Len(b) THEN b[i] ELSE eth[i - Len(b)]
    BY <1>0, ConcatProperties
  <2> QED BY <1>1, <2>1
<1>3. lines = head \o a
  BY <1>1
<1>4. /\ lines \in Seq(FileLine) /\ Len(lines) = Len(head) + Len(a)
      /\ \A i \in 1..(Len(head) + Len(a)) : lines[i] = IF i <= Len(head) THEN head[i] ELSE a[i - Len(head)]
  <2>1. /\ head \o a \in Seq(FileLine) /\ Len(head \o a) = Len(head) + Len(a)
        /\ \A i \in 1..(Len(head) + Len(a)) :
              (head \o a)[i] = IF i <= Len(head) THEN head[i] ELSE a[i - Len(head)]
    <3>1. head \in Seq(FileLine) /\ a \in Seq(FileLine)
      BY <1>0, <1>2
    <3> QED BY <3>1, ConcatProperties
  <2> QED BY <1>3, <2>1
<1>5. Len(lines) = Len(b) + Len(eth) + Len(a)
  BY <1>2, <1>4
<1>6. \A i \in 1..Len(lines) :
         lines[i] = IF i <= Len(b) THEN b[i]
                    ELSE IF i <= Len(b) + Len(eth) THEN eth[i - Len(b)]
                    ELSE a[i - Len(b) - Len(eth)]
  <2> TAKE i \in 1..Len(lines)
  <2>0. i \in Nat /\ 1 <= i /\ i <= Len(lines)
    BY <1>0, <1>5
  <2>1. CASE i <= Len(b) + Len(eth)
    <3>1. lines[i] = head[i] /\ i \in 1..(Len(b) + Len(eth))
      BY <1>0, <1>2, <1>4, <1>5, <2>0, <2>1
    <3>2. head[i] = IF i <= Len(b) THEN b[i] ELSE eth[i - Len(b)]
      BY <1>2, <3>1
    <3>3. i <= Len(b) => b[i] = head[i]
      BY <3>2
    <3>4. ~ (i <= Len(b)) => head[i] = eth[i - Len(b)]
      BY <3>2
    <3> QED BY <2>1, <3>1, <3>3, <3>4
  <2>2. CASE ~ (i <= Len(b) + Len(eth))
    <3>1. i \in 1..(Len(head) + Len(a)) /\ ~ (i <= Len(head)) /\ ~ (i <= Len(b))
      BY <1>0, <1>2, <1>5, <2>0, <2>2
    <3>2. lines[i] = a[i - Len(head)]
      BY <1>4, <3>1
    <3>3. i - Len(head) = i - Len(b) - Len(eth)
      BY <1>0, <1>2, <2>0
    <3> QED BY <2>2, <3>1, <3>2, <3>3
  <2> QED BY <2>1, <2>2
<1> QED BY <1>1, <1>3, <1>4, <1>5, <1>6 DEF File, Around

\* A file that is put together around a section has it where it was put.
LEMMA PutTogether ==
    ASSUME NEW b \in File, NEW eth \in File, NEW a \in File,
           \A i \in 1..Len(b) : b[i] # AutoLine,
           Len(eth) > 0, eth[1] = AutoLine, \A i \in 1..Len(eth) : eth[i] # Blank,
           Len(a) > 0, a[1] = Blank,
           NEW lines \in File, Len(lines) = Len(b) + Len(eth) + Len(a),
           Around(lines, b, eth, a)
    PROVE  HasEth0(lines) /\ Before(lines) = b /\ Eth0Lines(lines) = eth /\ After(lines) = a
<1>1. PICK k \in Nat : k = Len(b)
  BY DEF File
<1>2. PICK l \in Nat : l = Len(eth) /\ l > 0
  BY DEF File
<1>3. PICK n \in Nat : n = Len(a) /\ n > 0
  BY DEF File
<1>4. Len(lines) = k + l + n /\ DOMAIN lines = 1..(k + l + n)
  BY <1>1, <1>2, <1>3 DEF File
<1>5. \A i \in 1..k : lines[i] = b[i] /\ lines[i] # AutoLine
  <2> TAKE i \in 1..k
  <2>1. i \in 1..Len(lines) /\ i <= Len(b) /\ i \in 1..Len(b)
    BY <1>1, <1>4
  <2> QED BY <2>1 DEF Around
<1>6. \A i \in 1..l : lines[k + i] = eth[i] /\ lines[k + i] # Blank
  <2> TAKE i \in 1..l
  <2>1. k + i \in 1..Len(lines) /\ ~ (k + i <= k) /\ k + i <= k + l /\ k + i - k = i
    BY <1>4
  <2>2. lines[k + i] = eth[k + i - k]
    BY <1>1, <1>2, <2>1 DEF Around
  <2> QED BY <1>2, <2>1, <2>2
<1>7. \A i \in 1..n : lines[k + l + i] = a[i]
  <2> TAKE i \in 1..n
  <2>1. /\ k + l + i \in 1..Len(lines) /\ ~ (k + l + i <= k)
        /\ ~ (k + l + i <= k + l) /\ k + l + i - k - l = i
    BY <1>4
  <2>2. lines[k + l + i] = a[k + l + i - k - l]
    BY <1>1, <1>2, <2>1 DEF Around
  <2> QED BY <2>1, <2>2
<1>8. lines[k + 1] = AutoLine /\ lines[k + l + 1] = Blank /\ k + 1 \in 1..(k + l + n)
  <2>1. 1 \in 1..l /\ 1 \in 1..n /\ k + 1 \in 1..(k + l + n)
    BY <1>2, <1>3
  <2> QED BY <1>6, <1>7, <2>1
<1>9. HasEth0(lines)
  BY <1>4, <1>8 DEF HasEth0
<1>10. PICK begin, end : begin = Eth0Begin(lines) /\ end = Eth0End(lines)
  OBVIOUS
<1>11. /\ begin \in 1..(k + l + n) /\ lines[begin] = AutoLine
       /\ \A j \in 1..(begin - 1) : lines[j] # AutoLine
       /\ end \in begin + 1 .. k + l + n + 1
       /\ \A j \in begin + 1 .. end - 1 : lines[j] # Blank
       /\ end <= k + l + n => lines[end] = Blank
  <2>1. LET bb == Eth0Begin(lines)
            ee == Eth0End(lines)
        IN  /\ bb \in 1..Len(lines) /\ lines[bb] = AutoLine
            /\ \A j \in 1..(bb - 1) : lines[j] # AutoLine
            /\ ee \in bb + 1 .. Len(lines) + 1
            /\ ee <= Len(lines) => lines[ee] = Blank
            /\ \A j \in bb + 1 .. ee - 1 : lines[j] # Blank
    BY <1>9, Eth0Section
  <2> QED BY <1>4, <1>10, <2>1
<1>12. begin = k + 1
  <2>1. k + 1 < begin => k + 1 \in 1..(begin - 1)
    BY <1>11
  <2>2. begin <= k => begin \in 1..k
    BY <1>11
  <2>3. begin \in Nat /\ ~ (k + 1 < begin) /\ ~ (begin <= k)
    BY <1>5, <1>8, <1>11, <2>1, <2>2
  <2> QED BY <2>3
<1>13. end = k + l + 1
  <2>0. end \in Nat /\ end >= k + 2
    BY <1>11, <1>12
  <2>1. ~ (k + l + 1 < end)
    <3>1. k + l + 1 < end => k + l + 1 \in begin + 1 .. end - 1
      BY <1>2, <1>12, <2>0
    <3> QED BY <1>8, <1>11, <3>1
  <2>2. ~ (end <= k + l)
    <3>1. SUFFICES ASSUME end <= k + l PROVE FALSE
      OBVIOUS
    <3>2. end - k \in 1..l /\ k + (end - k) = end /\ end <= k + l + n
      BY <2>0, <3>1
    <3> QED BY <1>6, <1>11, <3>2
  <2> QED BY <2>0, <2>1, <2>2
<1>14. Before(lines) = b
  <2>1. Before(lines) = SubSeq(lines, 1, begin - 1)
    BY <1>9, <1>10 DEF Before
  <2>2. begin - 1 = k /\ 1 \in Nat \ {0} /\ k <= Len(lines) /\ Len(b) = k - 1 + 1
    BY <1>1, <1>4, <1>12
  <2>3. \A i \in 1..Len(b) : b[i] = lines[1 + i - 1]
    <3> TAKE i \in 1..Len(b)
    <3>1. i \in 1..k /\ 1 + i - 1 = i
      BY <1>1
    <3> QED BY <1>5, <3>1
  <2>4. SubSeq(lines, 1, k) = b
    BY <2>2, <2>3, Part
  <2> QED BY <2>1, <2>2, <2>4
<1>15. Eth0Lines(lines) = eth
  <2>1. Eth0Lines(lines) = SubSeq(lines, begin, end - 1)
    BY <1>10 DEF Eth0Lines
  <2>2. /\ end - 1 = k + l /\ k + 1 \in Nat \ {0} /\ k + l \in Nat /\ k + l <= Len(lines)
        /\ Len(eth) = k + l - (k + 1) + 1
    BY <1>2, <1>4, <1>13
  <2>3. \A i \in 1..Len(eth) : eth[i] = lines[k + 1 + i - 1]
    <3> TAKE i \in 1..Len(eth)
    <3>1. i \in 1..l /\ k + 1 + i - 1 = k + i
      BY <1>2
    <3> QED BY <1>6, <3>1
  <2>4. SubSeq(lines, k + 1, k + l) = eth
    <3>1. PICK m \in Nat \ {0} : m = k + 1
      BY <2>2
    <3>2. PICK e \in Nat : e = k + l
      BY <2>2
    <3>3. Len(eth) = e - m + 1 /\ e <= Len(lines)
      BY <2>2, <3>1, <3>2
    <3>4. \A i \in 1..Len(eth) : eth[i] = lines[m + i - 1]
      BY <2>3, <3>1
    <3>5. SubSeq(lines, m, e) = eth
      BY <3>3, <3>4, Part
    <3> QED BY <3>1, <3>2, <3>5
  <2> QED BY <1>12, <2>1, <2>2, <2>4
<1>16. After(lines) = a
  <2>1. After(lines) = SubSeq(lines, end, Len(lines))
    BY <1>9, <1>10 DEF After
  <2>2. /\ end \in Nat \ {0} /\ Len(lines) \in Nat /\ Len(lines) <= Len(lines)
        /\ Len(a) = Len(lines) - end + 1
    <3>1. end \in Nat \ {0} /\ k + l + n \in Nat /\ k + l + n - (k + l + 1) + 1 = n
      BY <1>13
    <3>2. Len(lines) \in Nat
      BY <1>4, <3>1
    <3>3. Len(lines) <= Len(lines)
      BY <3>2
    <3>4. Len(a) = Len(lines) - end + 1
      <4>1. Len(lines) - end + 1 = k + l + n - (k + l + 1) + 1
        <5>1. PICK e \in Nat : e = Len(lines)
          BY <3>2
        <5>2. e = k + l + n
          BY <1>4, <5>1
        <5>3. e - end + 1 = k + l + n - (k + l + 1) + 1
          BY <1>1, <1>2, <1>3, <1>13, <5>2
        <5> QED BY <5>1, <5>3
      <4> QED BY <1>3, <3>1, <4>1
    <3> QED BY <3>1, <3>2, <3>3, <3>4
  <2>3. \A i \in 1..Len(a) : a[i] = lines[end + i - 1]
    <3> TAKE i \in 1..Len(a)
    <3>1. i \in 1..n /\ end + i - 1 = k + l + i
      BY <1>3, <1>13
    <3> QED BY <1>7, <3>1
  <2>4. SubSeq(lines, end, Len(lines)) = a
    <3>1. PICK e \in Nat : e = Len(lines)
      BY <2>2
    <3>2. SubSeq(lines, end, e) = a
      BY <2>2, <2>3, <3>1, Part
    <3> QED BY <3>1, <3>2
  <2> QED BY <2>1, <2>4
<1> QED BY <1>9, <1>14, <1>15, <1>16

\* At most one section.
OneSection(lines) ==
    \A i, j \in DOMAIN lines : lines[i] = AutoLine /\ lines[j] = AutoLine => i = j

\* What _writeNetworkSettings writes has the new section in the place of the
\* old one, and the rest as it was.
LEMMA NewLinesFacts ==
    ASSUME NEW lines \in File, NEW s \in Settings
    PROVE  LET new == NewLines(lines, s)
           IN  /\ new \in File /\ HasEth0(new) /\ Kept(new, lines)
               /\ Eth0Lines(new) = ConfigLines(s)
               /\ OneSection(lines) => OneSection(new)
<1> DEFINE b   == Before(lines)
           eth == ConfigLines(s)
           old == After(lines)
           a   == IF old # <<>> /\ Head(old) = Blank THEN old ELSE <<Blank>> \o old
           new == NewLines(lines, s)
<1>0. <<Blank>> \in File /\ Len(<<Blank>>) = 1 /\ <<Blank>>[1] = Blank
  BY BlankIsNotAuto DEF File
<1>1. /\ b \in File /\ old \in File /\ \A i \in 1..Len(b) : b[i] # AutoLine
      /\ old # <<>> => Head(old) = Blank
      /\ OneSection(lines) => \A i \in 1..Len(old) : old[i] # AutoLine
  BY BeforeAfter DEF OneSection
<1>2. a = IF old = <<>> THEN <<Blank>> ELSE old
  <2>1. CASE old = <<>>
    BY <1>0, <2>1, ConcatEmptySeq DEF File
  <2>2. CASE old # <<>>
    BY <1>1, <2>2
  <2> QED BY <2>1, <2>2
<1>3. new = b \o eth \o a
  BY DEF NewLines
<1>4. /\ eth \in File /\ Len(eth) > 0 /\ eth[1] = AutoLine
      /\ \A i \in 1..Len(eth) : eth[i] # Blank
      /\ \A i \in 1..Len(eth) : eth[i] = AutoLine => i = 1
  <2>1. /\ eth \in File /\ Len(eth) \in {3, 4}
        /\ eth[1] = AutoLine /\ eth[2] = DHCP(~ s.dhcpEnabled) /\ eth[3] = Static(s.dhcpEnabled)
        /\ Len(eth) = 4 => eth[4] = Field(s.address, s.dhcpEnabled)
    BY ConfigLinesFacts
  <2>2. \A c, v : DHCP(c).is = "dhcp" /\ Static(c).is = "static" /\ Field(v, c).is = "field"
    BY DEF DHCP, Static, Field, Line
  <2>3. Blank.is = "blank" /\ AutoLine.is = "auto"
    BY DEF Blank, AutoLine, Line
  <2> HIDE DEF eth
  <2>4. \A i \in 1..Len(eth) : i = 1 \/ i = 2 \/ i = 3 \/ (i = 4 /\ Len(eth) = 4)
    <3>1. CASE Len(eth) = 3
      BY <3>1
    <3>2. CASE Len(eth) = 4
      BY <3>2
    <3> QED BY <2>1, <3>1, <3>2
  <2>5. \A i \in 1..Len(eth) : eth[i].is # "blank" /\ (eth[i].is = "auto" => i = 1)
    BY <2>1, <2>2, <2>3, <2>4
  <2> QED BY <2>1, <2>3, <2>5
<1> HIDE DEF b, eth, old, a, new
<1>5. /\ a \in File /\ Len(a) > 0 /\ a[1] = Blank
      /\ OneSection(lines) => \A i \in 1..Len(a) : a[i] # AutoLine
  <2>1. CASE old = <<>>
    BY <1>0, <1>2, <2>1, BlankIsNotAuto
  <2>2. CASE old # <<>>
    BY <1>1, <1>2, <2>2 DEF File
  <2> QED BY <2>1, <2>2
<1>6. /\ new \in File /\ HasEth0(new) /\ Before(new) = b /\ Eth0Lines(new) = eth
      /\ After(new) = a /\ Len(new) = Len(b) + Len(eth) + Len(a)
      /\ \A i \in 1..Len(new) :
            new[i] = IF i <= Len(b) THEN b[i]
                     ELSE IF i <= Len(b) + Len(eth) THEN eth[i - Len(b)]
                     ELSE a[i - Len(b) - Len(eth)]
  <2>1. /\ new \in File /\ Len(new) = Len(b) + Len(eth) + Len(a)
        /\ Around(new, b, eth, a)
    <3>1. PICK x, y, z \in File : x = b /\ y = eth /\ z = a
      BY <1>1, <1>4, <1>5
    <3>2. PICK w : w = x \o y \o z
      OBVIOUS
    <3>3. /\ w \in File /\ Len(w) = Len(x) + Len(y) + Len(z)
          /\ Around(w, x, y, z)
      <4>1. x \in File /\ y \in File /\ z \in File
        BY <3>1
      <4>2. \A p \in File : \A q \in File : \A r \in File : \A v : v = p \o q \o r =>
               v \in File /\ Len(v) = Len(p) + Len(q) + Len(r) /\ Around(v, p, q, r)
        BY ConcatThree, Zenon
      <4>3. \A r \in File : \A v : v = x \o y \o r =>
               v \in File /\ Len(v) = Len(x) + Len(y) + Len(r) /\ Around(v, x, y, r)
        BY <4>1, <4>2
      <4>4. w = x \o y \o z
        BY <3>2
      <4>5. w \in File
        BY <4>4, <4>1, <4>3
      <4>6. Around(w, x, y, z)
        BY <4>4, <4>1, <4>3
      <4>7. Len(w) = Len(x) + Len(y) + Len(z)
        BY <4>4, <4>1, <4>3
      <4> QED BY <4>5, <4>6, <4>7
    <3>4. w = new
      BY <1>3, <3>1, <3>2
    <3> QED BY <3>1, <3>3, <3>4
  <2>2. HasEth0(new) /\ Before(new) = b /\ Eth0Lines(new) = eth /\ After(new) = a
    <3>1. PICK x, y, z, w \in File : x = b /\ y = eth /\ z = a /\ w = new
      BY <1>1, <1>4, <1>5, <2>1
    <3>2. /\ \A i \in 1..Len(x) : x[i] # AutoLine
          /\ Len(y) > 0 /\ y[1] = AutoLine /\ \A i \in 1..Len(y) : y[i] # Blank
          /\ Len(z) > 0 /\ z[1] = Blank
      BY <1>1, <1>4, <1>5, <3>1
    <3>3. /\ Len(w) = Len(x) + Len(y) + Len(z)
          /\ Around(w, x, y, z)
      BY <2>1, <3>1
    <3>4. HasEth0(w) /\ Before(w) = x /\ Eth0Lines(w) = y /\ After(w) = z
      BY <3>2, <3>3, PutTogether
    <3> QED BY <3>1, <3>4
  <2> QED BY <2>1, <2>2 DEF Around
<1>7. ASSUME OneSection(lines) PROVE OneSection(new)
  <2>1. Len(b) \in Nat /\ Len(eth) \in Nat /\ Len(a) \in Nat /\ DOMAIN new = 1..Len(new)
    BY <1>1, <1>4, <1>5, <1>6 DEF File
  <2>2. \A i \in 1..Len(new) : new[i] = AutoLine => i = Len(b) + 1
    <3> SUFFICES ASSUME NEW i \in 1..Len(new), new[i] = AutoLine PROVE i = Len(b) + 1
      OBVIOUS
    <3>1. ~ (i <= Len(b))
      BY <1>1, <1>6, <2>1
    <3>2. ~ (i > Len(b) + Len(eth))
      <4>1. i > Len(b) + Len(eth) =>
               new[i] = a[i - Len(b) - Len(eth)] /\ i - Len(b) - Len(eth) \in 1..Len(a)
        BY <1>6, <2>1
      <4> QED BY <1>5, <1>7, <4>1
    <3>3. new[i] = eth[i - Len(b)] /\ i - Len(b) \in 1..Len(eth)
      BY <1>6, <2>1, <3>1, <3>2
    <3>4. i - Len(b) = 1
      BY <1>4, <3>3
    <3> QED BY <2>1, <3>4
  <2> QED BY <2>1, <2>2 DEF OneSection
<1>8. Kept(new, lines)
  BY <1>2, <1>6 DEF Kept, b, old
<1> QED BY <1>6, <1>7, <1>8 DEF new, eth

LEMMA EmptyFile == Empty \in File /\ OneSection(Empty) /\ Torn # AutoLine
<1>1. Empty \in File
  BY BlankIsNotAuto DEF Empty, File
<1>2. Len(Empty) = 1 /\ Empty[1] = Blank
  BY DEF Empty
<1>3. OneSection(Empty)
  BY <1>1, <1>2 DEF OneSection, File
<1>4. Torn # AutoLine
  BY DEF Torn, AutoLine, Line
<1> QED BY <1>1, <1>3, <1>4

LEMMA FirstLines ==
    ASSUME NEW lines \in File, NEW m \in 1..(Len(lines) + 1), NEW n \in Int, n <= Len(lines)
    PROVE  /\ SubSeq(lines, m, n) \in File
           /\ Len(SubSeq(lines, m, n)) = IF m <= n THEN n - m + 1 ELSE 0
           /\ \A i \in 1 .. n - m + 1 : SubSeq(lines, m, n)[i] = lines[m + i - 1]
<1>1. m \in Int /\ Len(lines) \in Nat
  BY DEF File
<1>2. \A i \in m..n : lines[i] \in FileLine
  BY <1>1 DEF File
<1> QED BY <1>1, <1>2, SubSeqProperties DEF File

LEMMA RemainsAreLines ==
    /\ \A lines \in File : Remains(lines) \subseteq File
    /\ Remains(Empty) = {<<>>}
<1>1. ASSUME NEW lines \in File, NEW k \in 2..(Len(lines) + 1)
      PROVE  SubSeq(lines, k, Len(lines)) \in File
  <2>1. Len(lines) \in Nat
    BY DEF File
  <2>2. k \in 1..(Len(lines) + 1) /\ Len(lines) \in Int /\ Len(lines) <= Len(lines)
    BY <2>1
  <2> QED BY <2>2, FirstLines
<1>2. \A lines \in File : Remains(lines) \subseteq File
  BY <1>1 DEF Remains
<1>3. Remains(Empty) = {<<>>}
  <2>1. Len(Empty) = 1
    BY DEF Empty
  <2>2. Remains(Empty) = {SubSeq(Empty, k, 1) : k \in 2..(1 + 1)}
    BY <2>1 DEF Remains
  <2>3. 2..(1 + 1) = {2}
    OBVIOUS
  <2>4. SubSeq(Empty, 2, 1) = <<>>
    BY SubSeqEmpty
  <2> QED BY <2>2, <2>3, <2>4
<1> QED BY <1>2, <1>3

IsPart(part, lines, old) ==
    \E n \in 0..(Len(lines) - 1) : \E last \in {lines[n + 1], Blank, Torn} :
        \E rest \in Remains(old) : part = SubSeq(lines, 1, n) \o <<last>> \o rest

LEMMA PartlyWrittenIs ==
    ASSUME NEW lines, NEW old, NEW part \in PartlyWritten(lines, old)
    PROVE  IsPart(part, lines, old)
<1> DEFINE Lasts(n) == {lines[n + 1], Blank, Torn}
           Text(n, last, rest) == SubSeq(lines, 1, n) \o <<last>> \o rest
           Parts(n) == {Text(n, last, rest) : last \in Lasts(n), rest \in Remains(old)}
<1>1. PartlyWritten(lines, old) = UNION {Parts(n) : n \in 0..(Len(lines) - 1)}
  BY DEF PartlyWritten
<1>2. PICK n \in 0..(Len(lines) - 1) : part \in Parts(n)
  <2> HIDE DEF Parts
  <2> QED BY <1>1
<1>3. \E last \in Lasts(n) : \E rest \in Remains(old) : part = Text(n, last, rest)
  <2> HIDE DEF Lasts, Text
  <2>1. part \in {Text(n, last, rest) : last \in Lasts(n), rest \in Remains(old)}
    BY <1>2
  <2> QED BY <2>1
<1> QED BY <1>3, Zenon DEF IsPart

\* What a write leaves, in part or over other lines, are lines.
LEMMA WrittenIsAFile ==
    ASSUME NEW lines \in File, NEW old \in File
    PROVE  Written(lines, old) \subseteq File /\ PartlyWritten(lines, old) \subseteq File
<1>0. Len(lines) \in Nat
  BY DEF File
<1>1. ASSUME NEW n \in -1..(Len(lines) - 1), NEW last \in FileLine, NEW rest \in Remains(old)
      PROVE  SubSeq(lines, 1, n) \o <<last>> \o rest \in File
  <2>1. 1 \in 1..(Len(lines) + 1) /\ n \in Int /\ n <= Len(lines)
    BY <1>0
  <2>2. SubSeq(lines, 1, n) \in File
    BY <2>1, FirstLines
  <2>3. <<last>> \in File /\ rest \in File
    BY RemainsAreLines DEF File
  <2>4. PICK x, y \in File : x = SubSeq(lines, 1, n) /\ y = <<last>>
    BY <2>2, <2>3
  <2>5. x \o y \o rest \in File
    BY <2>3, <2>4, ConcatThree
  <2> QED BY <2>4, <2>5
<1>2. Torn \in FileLine /\ Blank \in FileLine /\ \A n \in 0..(Len(lines) - 1) : lines[n + 1] \in FileLine
  <2>1. \A n \in 0..(Len(lines) - 1) : n + 1 \in 1..Len(lines)
    BY <1>0
  <2>2. \A i \in 1..Len(lines) : lines[i] \in FileLine
    BY DEF File
  <2> QED BY <2>1, <2>2, BlankIsNotAuto DEF FileLine
<1>3. Written(lines, old) \subseteq File
  <2>1. Len(lines) - 1 \in -1..(Len(lines) - 1)
    BY <1>0
  <2>2. \A rest \in Remains(old) : SubSeq(lines, 1, Len(lines) - 1) \o <<Torn>> \o rest \in File
    BY <1>1, <1>2, <2>1
  <2> QED BY <2>2 DEF Written
<1>4. PartlyWritten(lines, old) \subseteq File
  <2> SUFFICES ASSUME NEW part \in PartlyWritten(lines, old) PROVE part \in File
    OBVIOUS
  <2>1. IsPart(part, lines, old)
    BY PartlyWrittenIs
  <2>2. PICK n \in 0..(Len(lines) - 1) : \E last \in {lines[n + 1], Blank, Torn} :
           \E rest \in Remains(old) : part = SubSeq(lines, 1, n) \o <<last>> \o rest
    BY <2>1, Zenon DEF IsPart
  <2>3. PICK last \in {lines[n + 1], Blank, Torn} :
           \E rest \in Remains(old) : part = SubSeq(lines, 1, n) \o <<last>> \o rest
    BY <2>2, Zenon
  <2>4. PICK rest \in Remains(old) : part = SubSeq(lines, 1, n) \o <<last>> \o rest
    BY <2>3
  <2>5. n \in -1..(Len(lines) - 1) /\ last \in FileLine
    BY <1>0, <1>2
  <2> QED BY <1>1, <2>4, <2>5
<1> QED BY <1>3, <1>4

\* A part of a text with one section has no second one.
LEMMA PartHasOneSection ==
    ASSUME NEW lines \in File, OneSection(lines), NEW part \in PartlyWritten(lines, Empty)
    PROVE  OneSection(part)
<1>0. Len(lines) \in Nat /\ DOMAIN lines = 1..Len(lines)
  BY DEF File
<1>1. PICK n \in 0..(Len(lines) - 1) : \E last \in {lines[n + 1], Blank, Torn} :
         part = SubSeq(lines, 1, n) \o <<last>> \o <<>>
  <2>1. IsPart(part, lines, Empty)
    BY PartlyWrittenIs
  <2>2. Remains(Empty) = {<<>>}
    BY RemainsAreLines
  <2> QED BY <2>1, <2>2 DEF IsPart
<1>9. PICK last \in {lines[n + 1], Blank, Torn} : part = SubSeq(lines, 1, n) \o <<last>> \o <<>>
  BY <1>1
<1>2. PICK front : front = SubSeq(lines, 1, n)
  OBVIOUS
<1>3. front \in File /\ Len(front) = n /\ \A i \in 1..n : front[i] = lines[i]
  <2>1. 1 \in 1..(Len(lines) + 1) /\ n \in Int /\ n <= Len(lines)
    BY <1>0
  <2>2. /\ front \in File
        /\ Len(front) = IF 1 <= n THEN n - 1 + 1 ELSE 0
        /\ \A i \in 1 .. n - 1 + 1 : front[i] = lines[1 + i - 1]
    BY <1>2, <2>1, FirstLines
  <2>3. \A i \in 1..n : i \in 1 .. n - 1 + 1 /\ 1 + i - 1 = i
    BY <1>0
  <2> QED BY <1>0, <2>2, <2>3
<1>4. PICK end \in File : end = <<last>>
  <2>1. n + 1 \in 1..Len(lines)
    BY <1>0
  <2>2. lines[n + 1] \in FileLine
    BY <2>1 DEF File
  <2>3. last \in FileLine
    BY <1>9, <2>2, BlankIsNotAuto DEF FileLine
  <2>4. <<last>> \in File
    BY <2>3 DEF File
  <2> QED BY <2>4
<1>5. Len(end) = 1 /\ end[1] = last
  BY <1>4
<1>6. part = front \o end
  <2>1. front \o end \in Seq(FileLine)
    BY <1>3, <1>4, ConcatProperties DEF File
  <2>2. (front \o end) \o <<>> = front \o end
    BY <2>1, ConcatEmptySeq
  <2> QED BY <1>2, <1>4, <1>9, <2>2
<1>7. /\ DOMAIN part = 1..(n + 1)
      /\ \A i \in 1..(n + 1) : part[i] = IF i <= n THEN front[i] ELSE end[i - n]
  <2>1. /\ front \o end \in Seq(FileLine) /\ Len(front \o end) = Len(front) + Len(end)
        /\ \A i \in 1..(Len(front) + Len(end)) :
              (front \o end)[i] = IF i <= Len(front) THEN front[i] ELSE end[i - Len(front)]
    BY <1>3, <1>4, ConcatProperties DEF File
  <2>2. part \in Seq(FileLine) /\ Len(part) = n + 1
    BY <1>3, <1>5, <1>6, <2>1
  <2>3. DOMAIN part = 1..(n + 1)
    BY <2>2
  <2> QED BY <1>3, <1>5, <1>6, <2>1, <2>3
<1>8. ASSUME NEW i \in DOMAIN part, part[i] = AutoLine
      PROVE  i \in DOMAIN lines /\ lines[i] = AutoLine
  <2>1. CASE i <= n
    <3>1. i \in 1..n /\ i \in 1..(n + 1)
      BY <1>0, <1>7, <2>1
    <3> QED BY <1>0, <1>3, <1>7, <1>8, <2>1, <3>1
  <2>2. CASE ~ (i <= n)
    <3>1. i = n + 1 /\ i - n = 1 /\ i \in 1..(n + 1) /\ i \in 1..Len(lines)
      BY <1>0, <1>7, <2>2
    <3>2. part[i] = last
      BY <1>5, <1>7, <2>2, <3>1
    <3>3. last = lines[n + 1]
      BY <1>8, <1>9, <3>2, BlankIsNotAuto, EmptyFile
    <3> QED BY <1>0, <1>8, <3>1, <3>2, <3>3
  <2> QED BY <2>1, <2>2
<1> QED BY <1>8 DEF OneSection

LEMMA KeptTwice ==
    ASSUME NEW new, NEW lines, NEW old, Kept(new, lines), Kept(lines, old)
    PROVE  Kept(new, old)
<1>1. <<Blank>> # <<>>
  <2>1. Len(<<Blank>>) = 1 /\ Len(<<>>) = 0
    OBVIOUS
  <2> QED BY <2>1
<1> QED BY <1>1 DEF Kept

-----------------------------------------------------------------------------
(* The inductive invariant                                                 *)

Reading == [at : {"read"}, settings : Settings]
Writing == [at : {"write", "truncated", "restart"}, settings : Settings, lines : File]

NetworkTypes ==
    /\ file \in File /\ original \in File
    /\ wanted \in Settings \cup {Nothing}
    /\ calls \in [Call -> {NoCall} \cup Reading \cup Writing]

NoneTruncated == \A c \in Call : calls[c].at # "truncated"

\* One section; and the rest as it was in old, if no write has been cut off.
Sound(lines, old, torn) == OneSection(lines) /\ (~ torn => Kept(lines, old))

\* The section is that of the settings.
Says(lines, s) == HasEth0(lines) /\ Eth0Lines(lines) = ConfigLines(s)

\* One call uses the file at a time.  The lines that it has computed are sound
\* and say what it was asked for, and so does the file once they are written.
FileInv == ~ overlapped =>
    /\ \A c, d \in UsingFile : c = d
    /\ NoneTruncated => Sound(file, original, cut) /\ (wanted # Nothing => Says(file, wanted))
    /\ \A c \in Call : calls[c].at \in {"write", "truncated"} =>
           Sound(calls[c].lines, original, cut) /\ Says(calls[c].lines, calls[c].settings)
    /\ \A c \in Call : calls[c].at = "truncated" => file = Empty

\* Until the file is truncated, or a restart is due, a successful restart has
\* set the mode that the file says, even when calls overlap.
LiveInv ==
    restarted /\ (\A c \in Call : calls[c].at \notin {"truncated", "restart"}) =>
        live = GetNetworkSettings(file).dhcpEnabled

NetworkInv == NetworkTypes /\ FileInv /\ LiveInv

LEMMA NetworkInitInv == NetworkInit => NetworkInv
<1> SUFFICES ASSUME NetworkInit PROVE NetworkInv
  OBVIOUS
<1>1. \A c \in Call : calls[c].at = "idle"
  BY DEF NetworkInit, NoCall
<1>2. file \in Seq(AnyLine) /\ OneSection(file)
  BY FilesAssumption DEF NetworkInit, OneSection
<1>3. file \in File
  <2>1. /\ file \in [1..Len(file) -> AnyLine] /\ Len(file) \in Nat
    BY <1>2
  <2>2. file \in [1..Len(file) -> FileLine]
    BY <2>1 DEF FileLine
  <2> QED BY <2>1, <2>2, SeqDef DEF File
<1>4. NetworkTypes
  BY <1>3 DEF NetworkTypes, NetworkInit
<1>5. FileInv
  <2>1. Kept(file, original)
    BY DEF NetworkInit, Kept
  <2> QED BY <1>1, <1>2, <2>1 DEF FileInv, Sound, NetworkInit, UsingFile
<1>6. LiveInv
  BY DEF LiveInv, NetworkInit
<1> QED BY <1>4, <1>5, <1>6 DEF NetworkInv

\* What a call is at tells what it holds.
LEMMA CallTypes ==
    ASSUME NetworkTypes, NEW c \in Call
    PROVE  /\ calls[c].at \in {"idle", "read", "write", "truncated", "restart"}
           /\ calls[c].at = "idle" <=> calls[c] = NoCall
           /\ calls[c].at = "read" => calls[c] \in Reading
           /\ calls[c].at \in {"write", "truncated", "restart"} => calls[c] \in Writing
<1>1. calls[c] \in {NoCall} \cup Reading \cup Writing
  BY DEF NetworkTypes
<1>2. NoCall.at = "idle"
  BY DEF NoCall
<1>3. \A r \in Reading : r.at = "read"
  BY DEF Reading
<1>4. \A r \in Writing : r.at \in {"write", "truncated", "restart"}
  BY DEF Writing
<1> QED BY <1>1, <1>2, <1>3, <1>4

LEMMA SetNetworkSettingsInv ==
    ASSUME NetworkInv, NEW c \in Call, NEW s \in Settings, SetNetworkSettings(c, s)
    PROVE  NetworkInv'
<1> DEFINE r == [at |-> "read", settings |-> s]
<1>0. /\ NetworkTypes /\ FileInv /\ LiveInv
      /\ calls[c] = NoCall /\ calls' = [calls EXCEPT ![c] = r]
      /\ UNCHANGED <<file, live, original, wanted, cut, restarted>>
      /\ overlapped' = (overlapped \/ UsingFile # {})
  BY DEF NetworkInv, SetNetworkSettings
<1>1. r \in Reading /\ r.at = "read"
  BY DEF Reading
<1> HIDE DEF r
<1>2. NetworkTypes'
  BY <1>0, <1>1 DEF NetworkTypes
<1>3. /\ calls'[c] = r
      /\ \A d \in Call : d # c => calls'[d] = calls[d]
  BY <1>0 DEF NetworkTypes
<1>4. calls[c].at = "idle"
  BY <1>0, CallTypes
<1>5. FileInv'
  <2> SUFFICES ASSUME ~ overlapped' PROVE FileInv'
    BY DEF FileInv
  <2>1. ~ overlapped /\ UsingFile = {}
    BY <1>0
  <2>2. UsingFile' = {c}
    BY <1>1, <1>3, <2>1 DEF UsingFile
  <2>3. NoneTruncated
    BY <2>1 DEF UsingFile, NoneTruncated
  <2>4. \A d \in Call : ~ (calls'[d].at \in {"write", "truncated"})
    BY <1>1, <1>3, <2>1 DEF UsingFile
  <2>5. Sound(file, original, cut) /\ (wanted # Nothing => Says(file, wanted))
    BY <1>0, <2>1, <2>3 DEF FileInv
  <2> QED BY <1>0, <2>2, <2>4, <2>5 DEF FileInv, Sound, Says
<1>6. LiveInv'
  <2>1. (\A d \in Call : calls'[d].at \notin {"truncated", "restart"})
           => \A d \in Call : calls[d].at \notin {"truncated", "restart"}
    BY <1>3, <1>4
  <2> QED BY <1>0, <2>1 DEF LiveInv
<1> QED BY <1>2, <1>5, <1>6 DEF NetworkInv

LEMMA ReadInv ==
    ASSUME NetworkInv, NEW c \in Call, ReadNetworkSettingsFile(c)
    PROVE  NetworkInv'
<1>0. /\ NetworkTypes /\ FileInv /\ LiveInv /\ calls[c].at = "read"
      /\ calls' = [calls EXCEPT ![c] = [at |-> "write", settings |-> calls[c].settings,
                                        lines |-> NewLines(file, calls[c].settings)]]
      /\ UNCHANGED <<file, made, live, original, wanted, overlapped, cut, restarted>>
  BY DEF NetworkInv, ReadNetworkSettingsFile
<1>1. PICK s \in Settings : s = calls[c].settings
  BY <1>0, CallTypes DEF Reading
<1>2. PICK new : new = NewLines(file, s)
  OBVIOUS
<1>3. /\ new \in File /\ Kept(new, file) /\ Says(new, s)
      /\ OneSection(file) => OneSection(new)
  BY <1>0, <1>1, <1>2, NewLinesFacts DEF NetworkTypes, Says
<1>4. PICK r : r = [at |-> "write", settings |-> s, lines |-> new]
  OBVIOUS
<1>5. r \in Writing /\ r.at = "write" /\ r.settings = s /\ r.lines = new
  BY <1>1, <1>3, <1>4 DEF Writing
<1>6. calls' = [calls EXCEPT ![c] = r]
  BY <1>0, <1>1, <1>2, <1>4
<1>7. /\ calls'[c] = r
      /\ \A d \in Call : d # c => calls'[d] = calls[d]
  BY <1>0, <1>6 DEF NetworkTypes
<1>8. NetworkTypes'
  BY <1>0, <1>5, <1>6 DEF NetworkTypes
<1>9. FileInv'
  <2> SUFFICES ASSUME ~ overlapped PROVE FileInv'
    BY <1>0 DEF FileInv
  <2>1. UsingFile' = UsingFile /\ c \in UsingFile
    BY <1>0, <1>5, <1>7 DEF UsingFile
  <2>2. \A d \in Call : d # c => ~ (calls[d].at \in {"write", "truncated"})
    BY <1>0, <2>1 DEF FileInv, UsingFile
  <2>3. NoneTruncated
    BY <1>0, <2>2 DEF NoneTruncated
  <2>4. Sound(file, original, cut) /\ (wanted # Nothing => Says(file, wanted))
    BY <1>0, <2>3 DEF FileInv
  <2>5. Sound(new, original, cut)
    BY <1>3, <2>4, KeptTwice DEF Sound
  <2>6. \A d, e \in UsingFile' : d = e
    BY <1>0, <2>1 DEF FileInv
  <2>7. \A d \in Call : calls'[d].at \in {"write", "truncated"} =>
           d = c /\ calls'[d] = r
    BY <1>7, <2>2
  <2>8. \A d \in Call : calls'[d].at \in {"write", "truncated"} =>
           Sound(calls'[d].lines, original', cut') /\ Says(calls'[d].lines, calls'[d].settings)
    BY <1>0, <1>3, <1>5, <2>5, <2>7 DEF Sound
  <2>9. \A d \in Call : calls'[d].at # "truncated"
    BY <1>5, <2>7
  <2> QED BY <1>0, <2>4, <2>6, <2>8, <2>9 DEF FileInv, Sound, Says
<1>10. LiveInv'
  <2>1. (\A d \in Call : calls'[d].at \notin {"truncated", "restart"})
           => \A d \in Call : calls[d].at \notin {"truncated", "restart"}
    BY <1>0, <1>7
  <2> QED BY <1>0, <2>1 DEF LiveInv
<1> QED BY <1>8, <1>9, <1>10 DEF NetworkInv

LEMMA TruncateInv ==
    ASSUME NetworkInv, NEW c \in Call, Truncate(c)
    PROVE  NetworkInv'
<1>0. /\ NetworkTypes /\ FileInv /\ calls[c].at = "write"
      /\ calls' = [calls EXCEPT ![c].at = "truncated"]
      /\ file' = Empty
      /\ UNCHANGED <<made, live, original, wanted, overlapped, cut, restarted>>
  BY DEF NetworkInv, Truncate
<1>1. calls[c] \in Writing
  BY <1>0, CallTypes
<1>2. PICK r : r = [calls[c] EXCEPT !.at = "truncated"]
  OBVIOUS
<1>3. r \in Writing /\ r.at = "truncated" /\ r.settings = calls[c].settings /\ r.lines = calls[c].lines
  BY <1>1, <1>2 DEF Writing
<1>4. calls' = [calls EXCEPT ![c] = r]
  BY <1>0, <1>2
<1>5. /\ calls'[c] = r
      /\ \A d \in Call : d # c => calls'[d] = calls[d]
  BY <1>0, <1>4 DEF NetworkTypes
<1>6. Empty \in File
  BY EmptyFile
<1>7. NetworkTypes'
  BY <1>0, <1>3, <1>4, <1>6 DEF NetworkTypes
<1>8. FileInv'
  <2> SUFFICES ASSUME ~ overlapped PROVE FileInv'
    BY <1>0 DEF FileInv
  <2>1. UsingFile' = UsingFile
    BY <1>0, <1>3, <1>5 DEF UsingFile
  <2>2. \A d, e \in UsingFile' : d = e
    BY <1>0, <2>1 DEF FileInv
  <2>3. \A d \in Call : calls[d].at \in {"write", "truncated"} =>
           Sound(calls[d].lines, original, cut) /\ Says(calls[d].lines, calls[d].settings)
    BY <1>0 DEF FileInv
  <2>4. \A d \in Call : calls'[d].at \in {"write", "truncated"} =>
           Sound(calls'[d].lines, original', cut') /\ Says(calls'[d].lines, calls'[d].settings)
    <3> SUFFICES ASSUME NEW d \in Call, calls'[d].at \in {"write", "truncated"}
                 PROVE  Sound(calls'[d].lines, original', cut') /\ Says(calls'[d].lines, calls'[d].settings)
      OBVIOUS
    <3>1. Sound(calls[d].lines, original, cut) /\ Says(calls[d].lines, calls[d].settings)
      BY <1>0, <1>5, <2>3
    <3>2. calls'[d].lines = calls[d].lines /\ calls'[d].settings = calls[d].settings
      BY <1>3, <1>5
    <3> QED BY <1>0, <3>1, <3>2 DEF Sound
  <2>5. ~ NoneTruncated'
    BY <1>3, <1>5 DEF NoneTruncated
  <2> QED BY <1>0, <2>2, <2>4, <2>5 DEF FileInv, Sound, Says
<1>9. LiveInv'
  BY <1>3, <1>5 DEF LiveInv
<1> QED BY <1>7, <1>8, <1>9 DEF NetworkInv

LEMMA WriteFileInv ==
    ASSUME NetworkInv, NEW c \in Call, WriteFile(c)
    PROVE  NetworkInv'
<1>0. /\ NetworkTypes /\ FileInv /\ calls[c].at = "truncated"
      /\ file' \in Written(calls[c].lines, file)
      /\ wanted' = calls[c].settings
      /\ calls' = [calls EXCEPT ![c].at = "restart"]
      /\ UNCHANGED <<made, live, original, overlapped, cut, restarted>>
  BY DEF NetworkInv, WriteFile
<1>1. calls[c] \in Writing /\ calls[c].lines \in File /\ calls[c].settings \in Settings
  <2>1. calls[c] \in Writing
    BY <1>0, CallTypes
  <2> QED BY <2>1 DEF Writing
<1>2. PICK r : r = [calls[c] EXCEPT !.at = "restart"]
  OBVIOUS
<1>3. r \in Writing /\ r.at = "restart"
  BY <1>1, <1>2 DEF Writing
<1>4. calls' = [calls EXCEPT ![c] = r]
  BY <1>0, <1>2
<1>5. /\ calls'[c] = r
      /\ \A d \in Call : d # c => calls'[d] = calls[d]
  BY <1>0, <1>4 DEF NetworkTypes
<1>6. file' \in File
  <2>1. PICK lines \in File : lines = calls[c].lines
    BY <1>1
  <2>2. Written(lines, file) \subseteq File
    BY <1>0, WrittenIsAFile DEF NetworkTypes
  <2> QED BY <1>0, <2>1, <2>2
<1>7. NetworkTypes'
  BY <1>0, <1>1, <1>3, <1>4, <1>6 DEF NetworkTypes
<1>8. FileInv'
  <2> SUFFICES ASSUME ~ overlapped PROVE FileInv'
    BY <1>0 DEF FileInv
  <2>1. UsingFile' = UsingFile \ {c} /\ c \in UsingFile
    BY <1>0, <1>3, <1>5 DEF UsingFile
  <2>2. UsingFile' = {}
    BY <1>0, <2>1 DEF FileInv
  <2>3. file' = calls[c].lines
    BY <1>0 DEF FileInv, Written
  <2>4. Sound(calls[c].lines, original, cut) /\ Says(calls[c].lines, calls[c].settings)
    BY <1>0 DEF FileInv
  <2>5. \A d \in Call : ~ (calls'[d].at \in {"write", "truncated"})
    BY <2>2 DEF UsingFile
  <2>6. Sound(file', original', cut') /\ Says(file, wanted)'
    <3>1. Sound(file', original', cut')
      BY <1>0, <2>3, <2>4 DEF Sound
    <3>2. Says(file, wanted)'
      BY <1>0, <2>3, <2>4 DEF Says
    <3> QED BY <3>1, <3>2
  <2> QED BY <2>2, <2>5, <2>6 DEF FileInv
<1>9. LiveInv'
  BY <1>3, <1>5 DEF LiveInv
<1> QED BY <1>7, <1>8, <1>9 DEF NetworkInv

LEMMA RestartNetworkingInv ==
    ASSUME NetworkInv, NEW c \in Call, RestartNetworking(c)
    PROVE  NetworkInv'
<1>0. /\ NetworkTypes /\ FileInv /\ LiveInv /\ calls[c].at = "restart"
      /\ calls' = [calls EXCEPT ![c] = NoCall]
      /\ UNCHANGED <<file, made, original, wanted, overlapped, cut>>
      /\ restarted' => live' = GetNetworkSettings(file).dhcpEnabled
  BY DEF NetworkInv, RestartNetworking
<1>1. /\ calls'[c] = NoCall /\ NoCall.at = "idle"
      /\ \A d \in Call : d # c => calls'[d] = calls[d]
  BY <1>0 DEF NetworkTypes, NoCall
<1>2. NetworkTypes'
  BY <1>0 DEF NetworkTypes
<1>3. FileInv'
  <2> SUFFICES ASSUME ~ overlapped PROVE FileInv'
    BY <1>0 DEF FileInv
  <2>1. UsingFile' = UsingFile
    BY <1>0, <1>1 DEF UsingFile
  <2>2. NoneTruncated' <=> NoneTruncated
    BY <1>0, <1>1 DEF NoneTruncated
  <2>3. \A d, e \in UsingFile' : d = e
    BY <1>0, <2>1 DEF FileInv
  <2>4. NoneTruncated' => Sound(file', original', cut') /\ (wanted' # Nothing => Says(file, wanted)')
    <3>1. NoneTruncated' => Sound(file, original, cut) /\ (wanted # Nothing => Says(file, wanted))
      BY <1>0, <2>2 DEF FileInv
    <3> QED BY <1>0, <3>1 DEF Sound, Says
  <2>5. \A d \in Call : calls'[d].at \in {"write", "truncated"} => calls'[d] = calls[d]
    BY <1>1
  <2>6. \A d \in Call : calls[d].at \in {"write", "truncated"} =>
           Sound(calls[d].lines, original, cut) /\ Says(calls[d].lines, calls[d].settings)
    BY <1>0 DEF FileInv
  <2>7. \A d \in Call : calls'[d].at \in {"write", "truncated"} =>
           Sound(calls'[d].lines, original', cut') /\ Says(calls'[d].lines, calls'[d].settings)
    BY <1>0, <2>5, <2>6 DEF Sound
  <2>8. \A d \in Call : calls'[d].at = "truncated" => file' = Empty
    BY <1>0, <2>5 DEF FileInv
  <2> QED BY <2>3, <2>4, <2>7, <2>8 DEF FileInv, Sound, Says
<1>4. LiveInv'
  BY <1>0 DEF LiveInv
<1> QED BY <1>2, <1>3, <1>4 DEF NetworkInv

LEMMA FileFailsInv ==
    ASSUME NetworkInv, NEW c \in Call, FileFails(c)
    PROVE  NetworkInv'
<1>0. /\ NetworkTypes /\ FileInv /\ LiveInv /\ calls[c].at \in {"read", "write"}
      /\ calls' = [calls EXCEPT ![c] = NoCall]
      /\ UNCHANGED <<file, made, live, original, wanted, overlapped, cut, restarted>>
  BY DEF NetworkInv, FileFails
<1>1. /\ calls'[c] = NoCall /\ NoCall.at = "idle"
      /\ \A d \in Call : d # c => calls'[d] = calls[d]
  BY <1>0 DEF NetworkTypes, NoCall
<1>2. NetworkTypes'
  BY <1>0 DEF NetworkTypes
<1>3. FileInv'
  <2> SUFFICES ASSUME ~ overlapped PROVE FileInv'
    BY <1>0 DEF FileInv
  <2>1. UsingFile' \subseteq UsingFile
    BY <1>0, <1>1 DEF UsingFile
  <2>2. NoneTruncated' => NoneTruncated
    BY <1>0, <1>1 DEF NoneTruncated
  <2>3. \A d, e \in UsingFile' : d = e
    BY <1>0, <2>1 DEF FileInv
  <2>4. NoneTruncated' => Sound(file', original', cut') /\ (wanted' # Nothing => Says(file, wanted)')
    <3>1. NoneTruncated' => Sound(file, original, cut) /\ (wanted # Nothing => Says(file, wanted))
      BY <1>0, <2>2 DEF FileInv
    <3> QED BY <1>0, <3>1 DEF Sound, Says
  <2>5. \A d \in Call : calls'[d].at \in {"write", "truncated"} => calls'[d] = calls[d]
    BY <1>1
  <2>6. \A d \in Call : calls[d].at \in {"write", "truncated"} =>
           Sound(calls[d].lines, original, cut) /\ Says(calls[d].lines, calls[d].settings)
    BY <1>0 DEF FileInv
  <2>7. \A d \in Call : calls'[d].at \in {"write", "truncated"} =>
           Sound(calls'[d].lines, original', cut') /\ Says(calls'[d].lines, calls'[d].settings)
    BY <1>0, <2>5, <2>6 DEF Sound
  <2>8. \A d \in Call : calls'[d].at = "truncated" => file' = Empty
    BY <1>0, <2>5 DEF FileInv
  <2> QED BY <2>3, <2>4, <2>7, <2>8 DEF FileInv, Sound, Says
<1>4. LiveInv'
  <2>1. (\A d \in Call : calls'[d].at \notin {"truncated", "restart"})
           => \A d \in Call : calls[d].at \notin {"truncated", "restart"}
    BY <1>0, <1>1
  <2> QED BY <1>0, <2>1 DEF LiveInv
<1> QED BY <1>2, <1>3, <1>4 DEF NetworkInv

\* A write that is cut off leaves a file, in which there is no second section.
LEMMA CutOffFacts ==
    ASSUME NetworkInv, NEW c \in Call, CutOff(c)
    PROVE  /\ file' \in File /\ wanted' = Nothing /\ cut' = TRUE /\ restarted' = FALSE
           /\ ~ overlapped => OneSection(file') /\ \A d \in UsingFile : d = c
<1>0. /\ NetworkTypes /\ FileInv /\ calls[c].at = "truncated" /\ calls[c] \in Writing
      /\ file' \in {file} \cup PartlyWritten(calls[c].lines, file)
      /\ wanted' = Nothing /\ cut' = TRUE /\ restarted' = FALSE
  BY CallTypes DEF NetworkInv, CutOff
<1>1. PICK lines \in File : lines = calls[c].lines
  BY <1>0 DEF Writing
<1>2. file' \in File
  <2>1. file \in File
    BY <1>0 DEF NetworkTypes
  <2>2. PartlyWritten(lines, file) \subseteq File
    BY <2>1, WrittenIsAFile
  <2> QED BY <1>0, <1>1, <2>1, <2>2
<1>3. ASSUME ~ overlapped PROVE OneSection(file') /\ \A d \in UsingFile : d = c
  <2>1. c \in UsingFile
    BY <1>0 DEF UsingFile
  <2>2. \A d \in UsingFile : d = c
    BY <1>0, <1>3, <2>1 DEF FileInv
  <2>3. file = Empty /\ OneSection(lines)
    BY <1>0, <1>1, <1>3 DEF FileInv, Sound
  <2>4. file' = Empty \/ file' \in PartlyWritten(lines, Empty)
    BY <1>0, <1>1, <2>3
  <2>5. OneSection(file')
    <3>1. CASE file' = Empty
      BY <3>1, EmptyFile
    <3>2. CASE file' \in PartlyWritten(lines, Empty)
      <4>1. PICK part \in PartlyWritten(lines, Empty) : part = file'
        BY <3>2
      <4>2. OneSection(part)
        BY <2>3, PartHasOneSection
      <4> QED BY <4>1, <4>2
    <3> QED BY <2>4, <3>1, <3>2
  <2> QED BY <2>2, <2>5
<1> QED BY <1>0, <1>2, <1>3

LEMMA WriteFailsInv ==
    ASSUME NetworkInv, NEW c \in Call, WriteFails(c)
    PROVE  NetworkInv'
<1>0. /\ NetworkTypes /\ calls' = [calls EXCEPT ![c] = NoCall]
      /\ UNCHANGED <<original, overlapped>>
  BY DEF NetworkInv, WriteFails
<1>1. /\ file' \in File /\ wanted' = Nothing /\ cut' = TRUE /\ restarted' = FALSE
      /\ ~ overlapped => OneSection(file') /\ \A d \in UsingFile : d = c
  BY CutOffFacts DEF WriteFails
<1>2. /\ calls'[c] = NoCall /\ NoCall.at = "idle"
      /\ \A d \in Call : d # c => calls'[d] = calls[d]
  BY <1>0 DEF NetworkTypes, NoCall
<1>3. NetworkTypes'
  BY <1>0, <1>1 DEF NetworkTypes
<1>4. FileInv'
  <2> SUFFICES ASSUME ~ overlapped PROVE FileInv'
    BY <1>0 DEF FileInv
  <2>1. UsingFile' = {}
    BY <1>1, <1>2 DEF UsingFile
  <2>2. \A d \in Call : ~ (calls'[d].at \in {"write", "truncated"})
    BY <2>1 DEF UsingFile
  <2>3. Sound(file', original', cut') /\ ~ (wanted' # Nothing)
    BY <1>1 DEF Sound
  <2> QED BY <2>1, <2>2, <2>3 DEF FileInv, Sound
<1>5. LiveInv'
  BY <1>1 DEF LiveInv
<1> QED BY <1>3, <1>4, <1>5 DEF NetworkInv

LEMMA PowerLossInv ==
    ASSUME NetworkInv, PowerLoss
    PROVE  NetworkInv'
<1>0. /\ NetworkTypes /\ FileInv /\ calls' = [d \in Call |-> NoCall] /\ NoCall.at = "idle"
      /\ UNCHANGED <<original, overlapped>>
  BY DEF NetworkInv, PowerLoss, NoCall
<1>1. /\ file' \in File /\ wanted' \in Settings \cup {Nothing} /\ restarted' = FALSE
      /\ ~ overlapped => Sound(file', original', cut') /\ (wanted' # Nothing => Says(file', wanted'))
  <2>1. CASE \E c \in Call : CutOff(c)
    <3>1. /\ file' \in File /\ wanted' = Nothing /\ cut' = TRUE /\ restarted' = FALSE
          /\ ~ overlapped => OneSection(file')
      BY <2>1, CutOffFacts
    <3> QED BY <3>1 DEF Sound
  <2>2. CASE /\ \A c \in Call : calls[c].at # "truncated"
             /\ restarted' = FALSE
             /\ UNCHANGED <<file, wanted, cut>>
    <3>1. ~ overlapped => Sound(file, original, cut) /\ (wanted # Nothing => Says(file, wanted))
      BY <1>0, <2>2 DEF FileInv, NoneTruncated
    <3>2. ~ overlapped => Sound(file', original', cut') /\ (wanted' # Nothing => Says(file', wanted'))
      BY <1>0, <2>2, <3>1 DEF Sound
    <3> QED BY <1>0, <2>2, <3>2 DEF NetworkTypes
  <2> QED BY <2>1, <2>2 DEF PowerLoss
<1>2. NetworkTypes'
  BY <1>0, <1>1 DEF NetworkTypes
<1>3. FileInv'
  <2>1. \A d \in Call : calls'[d].at = "idle"
    BY <1>0
  <2>2. UsingFile' = {}
    BY <2>1 DEF UsingFile
  <2>3. \A d \in Call : ~ (calls'[d].at \in {"write", "truncated"})
    BY <2>1
  <2>4. ~ overlapped' => Sound(file', original', cut') /\ (wanted' # Nothing => Says(file', wanted'))
    BY <1>0, <1>1
  <2> QED BY <2>2, <2>3, <2>4 DEF FileInv, Sound, Says
<1>4. LiveInv'
  BY <1>1 DEF LiveInv
<1> QED BY <1>2, <1>3, <1>4 DEF NetworkInv

LEMMA NetworkNextInv == NetworkInv /\ [NetworkNext]_networkVars => NetworkInv'
<1> SUFFICES ASSUME NetworkInv, [NetworkNext]_networkVars PROVE NetworkInv'
  OBVIOUS
<1>1. CASE UNCHANGED networkVars
  BY <1>1 DEF networkVars, NetworkInv, NetworkTypes, FileInv, LiveInv, UsingFile,
              NoneTruncated, Sound, Says
<1>2. CASE NetworkNext
  <2>1. ASSUME NEW c \in Call, NEW s \in Settings, SetNetworkSettings(c, s) PROVE NetworkInv'
    BY <2>1, SetNetworkSettingsInv
  <2>2. ASSUME NEW c \in Call, ReadNetworkSettingsFile(c) PROVE NetworkInv'
    BY <2>2, ReadInv
  <2>3. ASSUME NEW c \in Call, Truncate(c) PROVE NetworkInv'
    BY <2>3, TruncateInv
  <2>4. ASSUME NEW c \in Call, WriteFile(c) PROVE NetworkInv'
    BY <2>4, WriteFileInv
  <2>5. ASSUME NEW c \in Call, RestartNetworking(c) PROVE NetworkInv'
    BY <2>5, RestartNetworkingInv
  <2>6. ASSUME PowerLoss PROVE NetworkInv'
    BY <2>6, PowerLossInv
  <2>7. ASSUME NEW c \in Call, FileFails(c) PROVE NetworkInv'
    BY <2>7, FileFailsInv
  <2>8. ASSUME NEW c \in Call, WriteFails(c) PROVE NetworkInv'
    BY <2>8, WriteFailsInv
  <2> QED BY <1>2, <2>1, <2>2, <2>3, <2>4, <2>5, <2>6, <2>7, <2>8 DEF NetworkNext
<1> QED BY <1>1, <1>2

\* The lines of a section that says s: one mode in force, the one of s.
LEMMA SectionInForce ==
    ASSUME NEW s \in Settings
    PROVE  LET eth == ConfigLines(s)
               InForce == {eth[i].is : i \in {j \in DOMAIN eth : ~ eth[j].commented}}
           IN  InForce \cap {"dhcp", "static"} = {IF s.dhcpEnabled THEN "dhcp" ELSE "static"}
<1>1. PICK eth \in File : eth = ConfigLines(s)
  BY ConfigLinesFacts
<1>2. /\ Len(eth) \in {3, 4}
      /\ eth[1] = AutoLine /\ eth[2] = DHCP(~ s.dhcpEnabled) /\ eth[3] = Static(s.dhcpEnabled)
      /\ Len(eth) = 4 => eth[4] = Field(s.address, s.dhcpEnabled)
  BY <1>1, ConfigLinesFacts
<1>3. /\ eth[1].is = "auto" /\ eth[2].is = "dhcp" /\ eth[3].is = "static"
      /\ Len(eth) = 4 => eth[4].is = "field"
      /\ eth[2].commented = ~ s.dhcpEnabled /\ eth[3].commented = s.dhcpEnabled
  BY <1>2 DEF AutoLine, DHCP, Static, Field, Line
<1>4. DOMAIN eth = 1..Len(eth)
  BY <1>1 DEF File
<1>5. \A i \in DOMAIN eth : i = 1 \/ i = 2 \/ i = 3 \/ (i = 4 /\ Len(eth) = 4)
  <2>1. CASE Len(eth) = 3
    BY <1>4, <2>1
  <2>2. CASE Len(eth) = 4
    BY <1>4, <2>2
  <2> QED BY <1>2, <2>1, <2>2
<1>6. 2 \in DOMAIN eth /\ 3 \in DOMAIN eth
  BY <1>2, <1>4
<1>7. s.dhcpEnabled \in BOOLEAN
  BY DEF Settings
<1> DEFINE InForce == {eth[i].is : i \in {j \in DOMAIN eth : ~ eth[j].commented}}
<1>8. CASE s.dhcpEnabled
  <2>1. "dhcp" \in InForce
    BY <1>3, <1>6, <1>8
  <2>2. \A x \in InForce : x \in {"dhcp", "static"} => x = "dhcp"
    BY <1>3, <1>5, <1>8
  <2>3. InForce \cap {"dhcp", "static"} = {"dhcp"}
    BY <2>1, <2>2
  <2> QED BY <1>1, <1>8, <2>3
<1>9. CASE ~ s.dhcpEnabled
  <2>1. "static" \in InForce
    BY <1>3, <1>6, <1>9
  <2>2. \A x \in InForce : x \in {"dhcp", "static"} => x = "static"
    BY <1>3, <1>5, <1>9
  <2>3. InForce \cap {"dhcp", "static"} = {"static"}
    BY <2>1, <2>2
  <2> QED BY <1>1, <1>9, <2>3
<1> QED BY <1>8, <1>9

LEMMA NetworkInvImplies == NetworkInv => FileIsSound /\ LiveIsConfigured
<1> SUFFICES ASSUME NetworkInv PROVE FileIsSound /\ LiveIsConfigured
  OBVIOUS
<1>0. NetworkTypes /\ FileInv /\ LiveInv /\ NoCall.at = "idle"
  BY DEF NetworkInv, NoCall
<1>1. OthersAreKept
  <2>1. Quiet => NoneTruncated
    BY <1>0 DEF Quiet, NoneTruncated
  <2> QED BY <1>0, <2>1 DEF OthersAreKept, FileInv, Sound
<1>2. OneModeInForce
  <2> SUFFICES ASSUME UsingFile = {}, ~ overlapped, wanted # Nothing PROVE OneModeInForce
    BY DEF OneModeInForce
  <2>1. NoneTruncated
    BY DEF UsingFile, NoneTruncated
  <2>2. OneSection(file) /\ HasEth0(file) /\ Eth0Lines(file) = ConfigLines(wanted)
    BY <1>0, <2>1 DEF FileInv, Sound, Says
  <2>3. wanted \in Settings
    BY <1>0 DEF NetworkTypes
  <2>4. Cardinality({i \in DOMAIN file : file[i] = AutoLine}) = 1
    <3>1. PICK b \in DOMAIN file : file[b] = AutoLine
      BY <2>2 DEF HasEth0
    <3>2. {i \in DOMAIN file : file[i] = AutoLine} = {b}
      BY <2>2, <3>1 DEF OneSection
    <3> QED BY <3>2, FS_Singleton
  <2>5. LET eth == ConfigLines(wanted)
            InForce == {eth[i].is : i \in {j \in DOMAIN eth : ~ eth[j].commented}}
        IN  InForce \cap {"dhcp", "static"} = {IF wanted.dhcpEnabled THEN "dhcp" ELSE "static"}
    BY <2>3, SectionInForce
  <2> QED BY <2>2, <2>4, <2>5 DEF OneModeInForce, ModesInForce
<1>3. LiveIsConfigured
  <2>1. Quiet => \A c \in Call : calls[c].at \notin {"truncated", "restart"}
    BY <1>0 DEF Quiet
  <2> QED BY <1>0, <2>1 DEF LiveIsConfigured, LiveInv
<1> QED BY <1>1, <1>2, <1>3 DEF FileIsSound

\* As long as calls do not overlap, after every write that succeeds the file
\* has one section, with the mode of the settings written in force, also when an
\* earlier write had left a part of the file; and as long as no write is cut off
\* either, by an error or a loss of power, the rest is as it was at first
\* (_writeNetworkSettings).
THEOREM FileIsSoundAlways == NetworkSpec => []FileIsSound
<1>1. NetworkSpec => []NetworkInv
  BY NetworkInitInv, NetworkNextInv, PTL DEF NetworkSpec
<1>2. NetworkInv => FileIsSound
  BY NetworkInvImplies
<1> QED BY <1>1, <1>2, PTL

\* However calls overlap and fail, once they are done the interface runs in the
\* mode that the file says, if the last restart succeeded and no write was cut
\* off since (_restartNetworking).
THEOREM LiveIsConfiguredAlways == NetworkSpec => []LiveIsConfigured
<1>1. NetworkSpec => []NetworkInv
  BY NetworkInitInv, NetworkNextInv, PTL DEF NetworkSpec
<1>2. NetworkInv => LiveIsConfigured
  BY NetworkInvImplies
<1> QED BY <1>1, <1>2, PTL

=============================================================================
