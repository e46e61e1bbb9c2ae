----------------------------- MODULE MCP2PChat -----------------------------
(* Overlays of three peers: a chain, a peer that dials himself with two    *)
(* others behind him, and two that dial each other with a third behind.    *)
EXTENDS P2PChat

Chain == <<Nobody, 1, 2>>
Self == <<1, 1, 1>>
Pair == <<2, 1, 1>>
ThreeOverlays == {Chain, Self, Pair}
============================================================================
