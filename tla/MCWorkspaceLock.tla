--------------------------- MODULE MCWorkspaceLock ---------------------------
(* Four invocations of three owners on one workspace: i1 and i2 share an   *)
(* owner (a nested workflow and its child), and two pairs of creation      *)
(* ordinals are equal (two contexts number their invocations from zero).   *)
EXTENDS WorkspaceLock, TLC

CONSTANTS i1, i2, i3, i4, o1, o2, o3

MCInvocations == {i1, i2, i3, i4}
MCOwners == {o1, o2, o3}
MCOwnerOf == i1 :> o1 @@ i2 :> o1 @@ i3 :> o2 @@ i4 :> o3
MCOrdinalOf == i1 :> 0 @@ i2 :> 1 @@ i3 :> 1 @@ i4 :> 0
=============================================================================
