----------------------------- MODULE MCDiscovery -----------------------------
(* Two boxes, one of which serves HTTPS on a port of its own.               *)
EXTENDS Discovery

CONSTANTS box1, box2

MCBoxes == {box1, box2}
MCHttpsPort == (box1 :> 42460) @@ (box2 :> HTTPS)
==============================================================================
