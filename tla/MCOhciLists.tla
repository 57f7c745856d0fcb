----------------------------- MODULE MCOhciLists -----------------------------
(* Two endpoint descriptors on two lists and one or two transfer             *)
(* descriptors.                                                              *)
EXTENDS OhciLists, TLC

CONSTANTS e1, e2, t1, t2, d1
MCEds == {e1, e2}
MCTds == {t1, t2}
MCListOf == e1 :> "control" @@ e2 :> "bulk"
TdSymmetry == Permutations(MCTds)
MCPeriodic == e1 :> "periodic" @@ e2 :> "bulk"
MCDeviceOf == e1 :> d1 @@ e2 :> d1

\* The two that wait for the controller are served: what is on the done queue
\* with a delay is handed over, unless the bus stops or a reset empties it
\* (usb-ohci.cpp:1105); the packet of an endpoint that the driver paused is
\* cancelled, unless the driver lets the endpoint go again, takes its list out
\* or stops the bus (usb-ohci.cpp:976).
WaitersAreServed == DoneIsHandedOver /\ PausedIsCancelled
===============================================================================
