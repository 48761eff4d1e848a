--------------------------- MODULE MCPPSRoomUnit ---------------------------
(* Instances of PPSRoomUnit. *)
EXTENDS PPSRoomUnit

\* Requests: the first position, one in the middle of the rota, and the time,
\* which stands behind its end.
MCRequests == {0, 16, 26}
MCTimeRequest == {26}
MCUnits == {"QAA70", "QAA50", "MCBA"}
MCUnit == {"QAA70"}
MCModes == {TRUE, FALSE}
MCWrite == {TRUE}
=============================================================================
