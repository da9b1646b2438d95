---------------------------- MODULE MCUploadTraffic ----------------------------
(* Instances of UploadTraffic for TLC. *)
EXTENDS UploadTraffic, TLC

CONSTANTS u1, u2, o1, o2

\* Two uploads that together need more than one source.
MixedLength == u1 :> 2 @@ u2 :> 1
TwoOrders == <<o1, o2>>
NoOrders == <<>>
BothMethods == o1 :> "points" @@ o2 :> "sandbox"
Points == [o \in Orders |-> "points"]
TrafficOfOrders == o1 :> 1 @@ o2 :> 2
NoTraffic == [o \in Orders |-> 1]

===============================================================================
