---------------------------- MODULE MCSessionLock ----------------------------
(* Three invocations share one session and ask in any order, a fourth uses *)
(* another session.                                                        *)
EXTENDS SessionLock, TLC

CONSTANTS u1, u2, u3, u4, s1, s2

MCUsers == {u1, u2, u3, u4}
MCSessions == {s1, s2}
MCSessionOf == u1 :> s1 @@ u2 :> s1 @@ u3 :> s1 @@ u4 :> s2
MCRankOf == u1 :> 2 @@ u2 :> 1 @@ u3 :> 3 @@ u4 :> 0
=============================================================================
