-------------------------- MODULE MCNetworkSettings --------------------------
(***************************************************************************)
(* Network settings on devices whose file has no eth0 section, has it      *)
(* between others, and has it at the end.                                  *)
(***************************************************************************)
EXTENDS NetworkSettings, TLC

Lo   == Line("lo", Nothing, FALSE)
Wlan == Line("wlan", Nothing, FALSE)

Files == {<<Lo, Blank>>,
          <<Lo, Blank, AutoLine, DHCP(FALSE), Blank, Wlan>>,
          <<Lo, Blank, AutoLine, Static(FALSE), Field(CHOOSE a \in Address : TRUE, FALSE)>>}

\* Nothing tells one call from another.
Symmetry == Permutations(Call)

=============================================================================
