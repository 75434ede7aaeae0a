------------------------------ MODULE MCHubFeed ------------------------------
(***************************************************************************)
(* HubFeed for TLC: the two agent threads of the hub, two sources.         *)
(***************************************************************************)
EXTENDS HubFeed

CONSTANTS udp, tcp, x, y

MCAgents == {udp, tcp}
MCUDPAgents == {udp}
MCIDs == {x, y}

==============================================================================
