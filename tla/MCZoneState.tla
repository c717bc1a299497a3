----------------------------- MODULE MCZoneState -----------------------------
(* Zone 1, which is always there, and zone 2, which may come and go. *)
EXTENDS ZoneState

\* Every frame that says something of zone 2, or that leaves it out.
MCFeed == {f \in AllFrames : IF f.kind \in {"041E", "041F"} THEN f.zone = 2
                             ELSE f.kind \in {"3B02", "mask"} \/ f.zones \subseteq {2}}
=============================================================================
