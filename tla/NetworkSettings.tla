--------------------------- MODULE NetworkSettings ---------------------------
(***************************************************************************)
(* The network configuration of the device                                 *)
(* (src/server/network-settings/NetworkSettingsHandler.js).  A call reads  *)
(* /etc/network/interfaces, writes it with a new section for eth0, and     *)
(* restarts the interface; other calls, from the connect button or from    *)
(* users, may run in between, reading or writing may fail, and the device  *)
(* may lose power.                                                         *)
(*                                                                         *)
(* The file is a sequence of lines, of which an empty file has one, a blank *)
(* one.  A line is what it says, if the handler looks at it, and whether   *)
(* it is commented.                                                        *)
(***************************************************************************)
EXTENDS FiniteSets, Integers, Sequences, SequencesExt

CONSTANTS Call,      \* calls of setNetworkSettings and setMode
          Address,   \* what the four address fields say, as one
          Nothing,   \* no value
          Other,     \* what lines may say that the handler does not look for
          InitFiles, \* what the file may be at first
          MaxCalls   \* bound on the number of calls

Line(is, value, commented) == [is |-> is, value |-> value, commented |-> commented]

AutoLine == Line("auto", Nothing, FALSE)
Blank    == Line("blank", Nothing, FALSE)
DHCP(c)  == Line("dhcp", Nothing, c)
Static(c) == Line("static", Nothing, c)
Field(a, c) == Line("field", a, c)

\* What is left of a line that was written in part, or over another.
Torn == Line("torn", Nothing, FALSE)

Empty == <<Blank>>

\* Settings that pass validation: static settings need an address.
Settings == {s \in [dhcpEnabled : BOOLEAN, address : Address \cup {Nothing}] :
                s.dhcpEnabled \/ s.address # Nothing}

\* The lines of a file, which has at most one section for eth0 at first.
AnyLine == [is : {"auto", "blank", "dhcp", "static", "field"} \cup Other,
            value : Address \cup {Nothing}, commented : BOOLEAN]

ASSUME FilesAssumption ==
    /\ InitFiles \subseteq Seq(AnyLine)
    /\ \A lines \in InitFiles : \A i, j \in DOMAIN lines :
           lines[i] = AutoLine /\ lines[j] = AutoLine => i = j

Error == "error"

VARIABLES
  file,     \* lines of /etc/network/interfaces
  calls,    \* of each call: the step it is at, its settings and new lines
  made,     \* number of calls made
  live,     \* whether the interface runs on DHCP
  (* For the properties *)
  original,   \* the file at first
  wanted,     \* the settings of the last write, if it was not cut off
  overlapped, \* two calls have used the file at the same time
  cut,        \* a write has been cut off after it had truncated the file
  restarted   \* the last restart succeeded, and no write was cut off since

networkVars == <<file, calls, made, live, original, wanted, overlapped, cut, restarted>>

NoCall == [at |-> "idle"]
UsingFile == {c \in Call : calls[c].at \in {"read", "write", "truncated"}}
Quiet == \A c \in Call : calls[c] = NoCall

-----------------------------------------------------------------------------
(* The file                                                                *)

Eth0Begin(lines) == CHOOSE i \in DOMAIN lines :
    lines[i] = AutoLine /\ \A j \in 1..(i - 1) : lines[j] # AutoLine

HasEth0(lines) == \E i \in DOMAIN lines : lines[i] = AutoLine

\* Index of the first line after the eth0 section.
Eth0End(lines) ==
    LET blanks == {i \in DOMAIN lines : i > Eth0Begin(lines) /\ lines[i] = Blank}
    IN  IF blanks = {} THEN Len(lines) + 1 ELSE Min(blanks)

Eth0Lines(lines) == SubSeq(lines, Eth0Begin(lines), Eth0End(lines) - 1)

Before(lines) ==
    IF HasEth0(lines) THEN SubSeq(lines, 1, Eth0Begin(lines) - 1) ELSE lines

After(lines) ==
    IF HasEth0(lines) THEN SubSeq(lines, Eth0End(lines), Len(lines)) ELSE <<>>

\* configLines: one of the two modes is commented, and the fields with DHCP.
ConfigLines(s) ==
    <<AutoLine, DHCP(~ s.dhcpEnabled), Static(s.dhcpEnabled)>>
      \o (IF s.address = Nothing THEN <<>> ELSE <<Field(s.address, s.dhcpEnabled)>>)

\* Mutated form: what follows the section is not kept.
NewLines_AfterDropped(lines, s) == Before(lines) \o ConfigLines(s) \o <<Blank>>

\* _writeNetworkSettings up to the write, with a blank line after the section.
NewLines(lines, s) ==
    LET after == After(lines)
    IN  Before(lines) \o ConfigLines(s)
          \o (IF after # <<>> /\ Head(after) = Blank THEN after ELSE <<Blank>> \o after)

\* getNetworkSettings.  A commented field does not begin with a space and is
\* not taken for a field.
GetNetworkSettings(lines) ==
    IF ~ HasEth0(lines) THEN Error
    ELSE LET eth == Eth0Lines(lines)
             statics == {i \in DOMAIN eth : eth[i].is = "static"}
             fields  == {i \in DOMAIN eth : eth[i].is = "field" /\ ~ eth[i].commented}
         IN  [dhcpEnabled |-> statics = {} \/ eth[Max(statics)].commented,
              address     |-> IF fields = {} THEN Nothing ELSE eth[Max(fields)].value]

\* The modes of the eth0 section that are not commented.
ModesInForce(lines) ==
    LET eth == Eth0Lines(lines)
    IN  {eth[i].is : i \in {j \in DOMAIN eth : ~ eth[j].commented}} \cap {"dhcp", "static"}

-----------------------------------------------------------------------------
(* setNetworkSettings                                                      *)

\* A call begins to read the file.  setMode is such a call, too: the queue it
\* means to keep (_setModeInProgress, _setModeNext) is never in use, because
\* no mode is ever assigned to _setModeInProgress.
SetNetworkSettings(c, s) ==
    /\ calls[c] = NoCall
    /\ made < MaxCalls
    /\ made' = made + 1
    /\ calls' = [calls EXCEPT ![c] = [at |-> "read", settings |-> s]]
    /\ overlapped' = (overlapped \/ UsingFile # {})
    /\ UNCHANGED <<file, live, original, wanted, cut, restarted>>

\* The file has been read: compute the new lines and open it for writing.
ReadNetworkSettingsFile(c) ==
    /\ calls[c].at = "read"
    /\ calls' = [calls EXCEPT ![c] =
          [at |-> "write", settings |-> @.settings, lines |-> NewLines(file, @.settings)]]
    /\ UNCHANGED <<file, made, live, original, wanted, overlapped, cut, restarted>>

\* The file cannot be read, or not be opened for writing: the call ends.
FileFails(c) ==
    /\ calls[c].at \in {"read", "write"}
    /\ calls' = [calls EXCEPT ![c] = NoCall]
    /\ UNCHANGED <<file, made, live, original, wanted, overlapped, cut, restarted>>

\* writeFile truncates the file ...
Truncate(c) ==
    /\ calls[c].at = "write"
    /\ file' = Empty
    /\ calls' = [calls EXCEPT ![c].at = "truncated"]
    /\ UNCHANGED <<made, live, original, wanted, overlapped, cut, restarted>>

\* What may remain of the lines of another call that has written since, when
\* a text is written over their beginning.
Remains(lines) == {SubSeq(lines, k, Len(lines)) : k \in 2..(Len(lines) + 1)}

Written(lines, old) ==
    {lines} \cup {SubSeq(lines, 1, Len(lines) - 1) \o <<Torn>> \o rest :
                     rest \in IF old = Empty THEN {} ELSE Remains(old)}

\* The first of the lines, the last of them whole, not begun or in part.
PartlyWritten(lines, old) ==
    UNION {{SubSeq(lines, 1, n) \o <<last>> \o rest :
               last \in {lines[n + 1], Blank, Torn}, rest \in Remains(old)} :
           n \in 0..(Len(lines) - 1)}

\* ... and writes from its beginning.
WriteFile(c) ==
    /\ calls[c].at = "truncated"
    /\ file' \in Written(calls[c].lines, file)
    /\ wanted' = calls[c].settings
    /\ calls' = [calls EXCEPT ![c].at = "restart"]
    /\ UNCHANGED <<made, live, original, overlapped, cut, restarted>>

\* The file may be left as it is, truncated, or with a part of the lines.
CutOff(c) ==
    /\ calls[c].at = "truncated"
    /\ file' \in {file} \cup PartlyWritten(calls[c].lines, file)
    /\ wanted' = Nothing
    /\ cut' = TRUE
    /\ restarted' = FALSE

\* The write fails, when the disk is full, say: setNetworkSettings ends before
\* _restartNetworking, and what is in the file remains there.
WriteFails(c) ==
    /\ CutOff(c)
    /\ calls' = [calls EXCEPT ![c] = NoCall]
    /\ UNCHANGED <<made, live, original, overlapped>>

\* Mutated form: the interface is restarted with the settings of the call.
RestartNetworking_OwnSettings(c) ==
    /\ calls[c].at = "restart"
    /\ \E ok \in BOOLEAN :
          /\ ok => HasEth0(file) /\ ModesInForce(file) # {}
          /\ restarted' = ok
          /\ live' = IF ok THEN calls[c].settings.dhcpEnabled ELSE live
    /\ calls' = [calls EXCEPT ![c] = NoCall]
    /\ UNCHANGED <<file, made, original, wanted, overlapped, cut>>

\* _restartNetworking: ifup reads the file, or a command fails.
RestartNetworking(c) ==
    /\ calls[c].at = "restart"
    /\ \E ok \in BOOLEAN :
          /\ ok => HasEth0(file) /\ ModesInForce(file) # {}
          /\ restarted' = ok
          /\ live' = IF ok THEN GetNetworkSettings(file).dhcpEnabled ELSE live
    /\ calls' = [calls EXCEPT ![c] = NoCall]
    /\ UNCHANGED <<file, made, original, wanted, overlapped, cut>>

\* The device loses power, with a write under way or not, and starts again
\* with the file as it is then.
PowerLoss ==
    /\ \/ \E c \in Call : CutOff(c)
       \/ /\ \A c \in Call : calls[c].at # "truncated"
          /\ restarted' = FALSE
          /\ UNCHANGED <<file, wanted, cut>>
    /\ calls' = [c \in Call |-> NoCall]
    /\ live' \in BOOLEAN
    /\ UNCHANGED <<made, original, overlapped>>

NetworkInit ==
    /\ file \in InitFiles
    /\ original = file
    /\ live \in BOOLEAN
    /\ calls = [c \in Call |-> NoCall]
    /\ made = 0 /\ wanted = Nothing
    /\ overlapped = FALSE /\ cut = FALSE /\ restarted = FALSE

NetworkNext ==
    \/ \E c \in Call :
          \/ \E s \in Settings : SetNetworkSettings(c, s)
          \/ ReadNetworkSettingsFile(c) \/ Truncate(c) \/ WriteFile(c) \/ RestartNetworking(c)
          \/ FileFails(c) \/ WriteFails(c)
    \/ PowerLoss

NetworkSpec == NetworkInit /\ [][NetworkNext]_networkVars

-----------------------------------------------------------------------------
(* Properties                                                              *)

\* What is before and after the eth0 section of old is so in lines, where a
\* blank line ends the section.
Kept(lines, old) ==
    /\ Before(lines) = Before(old)
    /\ \/ After(lines) = After(old)
       \/ After(old) = <<>> /\ After(lines) = <<Blank>>

\* The sections of other interfaces are kept line by line, however often the
\* settings change and whichever calls fail or lose power elsewhere, as long as
\* calls do not use the file together and none is cut off in its write.
OthersAreKept == Quiet /\ ~ overlapped /\ ~ cut => Kept(file, original)

\* Overlapping calls aside, the file has one eth0 section after every write
\* that is not cut off, whatever an earlier one has left of the file, and in it
\* the mode that was asked for is in force and the other is not.
OneModeInForce ==
    UsingFile = {} /\ ~ overlapped /\ wanted # Nothing =>
        /\ Cardinality({i \in DOMAIN file : file[i] = AutoLine}) = 1
        /\ ModesInForce(file) = {IF wanted.dhcpEnabled THEN "dhcp" ELSE "static"}

\* The file says what was asked for, and all that it said of other interfaces.
FileIsSound == OthersAreKept /\ OneModeInForce

\* However calls overlap and fail, the interface ends up in the mode that the
\* file says, if the last restart succeeded and no write was cut off since.
LiveIsConfigured ==
    Quiet /\ restarted => live = GetNetworkSettings(file).dhcpEnabled

\* What the comment on getNetworkSettings says: it returns the configured
\* settings, with the addresses that static mode uses.  This does not hold:
\* with DHCP the addresses are commented and not read.
SettingsAreRead ==
    Quiet /\ ~ overlapped /\ ~ cut /\ wanted # Nothing => GetNetworkSettings(file) = wanted

=============================================================================
