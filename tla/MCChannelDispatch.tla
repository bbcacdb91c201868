------------------------- MODULE MCChannelDispatch --------------------------
(* Instances of ChannelDispatch for TLC.                                   *)
EXTENDS ChannelDispatch

OneChat == [m \in Message |-> "home"]
Alice == [m \in Message |-> "alice"]
=============================================================================
