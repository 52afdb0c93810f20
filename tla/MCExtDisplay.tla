---------------------------- MODULE MCExtDisplay ----------------------------
(* Three displays, two of them with the same codec id.                        *)
EXTENDS ExtDisplay

CONSTANTS dp0, dp1, hdmi, dpId, hdmiId

MCCodec == [d \in Displays |-> IF d = hdmi THEN hdmiId ELSE dpId]
=============================================================================
