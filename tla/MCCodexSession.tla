--------------------------- MODULE MCCodexSession ---------------------------
(* Two calls of one session, or of two.  *)
EXTENDS CodexSession, TLC
CONSTANTS a1, a2, b1
MCCalls == {a1, a2, b1}
MCSessionOf == a1 :> "a" @@ a2 :> "a" @@ b1 :> "b"
MCTraffic == {{a1, a2}, {a1, b1}}
MCUnruly == {a1}
=============================================================================
