---------------------------- MODULE MCConnectMode ----------------------------
(***************************************************************************)
(* The connect button with the code's times scaled down in their order.    *)
(***************************************************************************)
EXTENDS ConnectMode

\* The clock goes forward, back a little, back for long.
ForwardAndBack == {3, -2, -9}

=============================================================================
