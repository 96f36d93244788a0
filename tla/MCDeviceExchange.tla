-------------------------- MODULE MCDeviceExchange --------------------------
(***************************************************************************)
(* Small instances of DeviceExchange for TLC.                              *)
(***************************************************************************)
EXTENDS ClientResults, TLC

CONSTANTS c1, c2, d1, d2, d3, n1, n2, n3, n4, shared

(* Two clients of node n1 send requests to the device of node n2; the      *)
(* device of node n3 listens only.                                         *)
TwoClients    == {c1, c2}
OneNode       == [c \in TwoClients |-> n1]
OneDevice     == [c \in TwoClients |-> n2]
TwoDevices    == {d1, d2}
TwoNodes      == d1 :> n2 @@ d2 :> n3
OwnFmus       == [d \in TwoDevices |-> NoName]
NoData        == [d \in TwoDevices |-> NoDataPeer]

(* Devices d1 and d2 share an FMU, d3 has one of its own; d1 answers the   *)
(* client of node n1, d2 sends data to that node.                          *)
OneClient     == {c1}
ClientOnN1    == [c \in OneClient |-> n1]
ClientOfN2    == [c \in OneClient |-> n2]
ThreeDevices  == {d1, d2, d3}
ThreeNodes    == d1 :> n2 @@ d2 :> n3 @@ d3 :> n4
OneSharedFmu  == d1 :> shared @@ d2 :> shared @@ d3 :> NoName
DataFromN3    == d1 :> NoDataPeer @@ d2 :> n1 @@ d3 :> NoDataPeer

(* Two clients that only listen, on nodes n1 and n2, and a device of node  *)
(* n3 that sends its data to node n2.                                      *)
ListenOnly    == [c \in TwoClients |-> NoPeer]
OnTwoNodes    == c1 :> n1 @@ c2 :> n2
JustOneDevice == {d1}
DeviceOnN3    == d1 :> n3
OwnFmu        == d1 :> NoName
DataToN2      == d1 :> n2
=============================================================================
