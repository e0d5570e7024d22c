------------------------------ MODULE MCNetwork ------------------------------
(* Two clients and a stranger, who can crowd one of them out of a table of *)
(* two entries.                                                            *)
EXTENDS Network
MCHosts == {"wcs", "mirror", "other"}
MCClients == <<"wcs", "mirror">>
MCLengths == {64, 300}

(* The wire is faster than a pass of the main loop: every step of the pass *)
(* begins with all descriptors idle.                                       *)
WireFast == (pc' # pc \/ client' # client) => \A d \in TxSlots : ~own[d]
=============================================================================
