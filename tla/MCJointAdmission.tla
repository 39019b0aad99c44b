--------------------------- MODULE MCJointAdmission ---------------------------
(* Two sets of invocations for the joint admission.                        *)
EXTENDS JointAdmission, TLC

(* One Run: a writer taskA, a reader taskC and a workflow flowP compete    *)
(* for one workspace; taskA and taskD, which works in another workspace,   *)
(* compete for one session; childX runs in the context of flowP, re-enters *)
(* its lease and has a session there; taskC is validated by an evaluator   *)
(* evalC once it has answered.                                             *)
MCInvocations == {"taskA", "taskC", "taskD", "evalC", "flowP", "childX"}
MCOwners == MCInvocations \ {"childX"}
MCOwnerOf == [i \in MCInvocations |-> IF i = "childX" THEN "flowP" ELSE i]
MCOrdinalOf == "taskA" :> 1 @@ "flowP" :> 2 @@ "taskC" :> 0 @@ "taskD" :> 3 @@ "evalC" :> 4 @@ "childX" :> 0
MCKeyOf == [i \in MCInvocations |-> IF i = "taskD" THEN "w2" ELSE "w"]
MCPolicyOf == [i \in MCInvocations |-> IF i \in {"taskC", "evalC"} THEN "shared" ELSE "exclusive"]
MCSessionOf == "taskA" :> "s1" @@ "taskC" :> "s2" @@ "taskD" :> "s1" @@ "evalC" :> NoSession
               @@ "flowP" :> NoSession @@ "childX" :> "s3"
MCContextOf == [i \in MCInvocations |-> IF i = "childX" THEN "child" ELSE "run"]
MCBodyOf == [i \in MCInvocations |-> IF i = "flowP" THEN {"childX"} ELSE {}]
MCChecksOf == [i \in MCInvocations |-> IF i = "taskC" THEN {"evalC"} ELSE {}]

(* A workflow node flowP runs a child workflow whose workflow node flowQ   *)
(* runs a grandchild workflow with one task childX: flowQ re-enters the    *)
(* lease of flowP, but childX asks under the owner flowQ.                  *)
DeepInvocations == {"flowP", "flowQ", "childX"}
DeepOwners == {"flowP", "flowQ"}
DeepOwnerOf == "flowP" :> "flowP" @@ "flowQ" :> "flowP" @@ "childX" :> "flowQ"
DeepOrdinalOf == [i \in DeepInvocations |-> 0]
DeepKeyOf == [i \in DeepInvocations |-> "w"]
DeepPolicyOf == [i \in DeepInvocations |-> "exclusive"]
DeepSessionOf == [i \in DeepInvocations |-> NoSession]
DeepContextOf == "flowP" :> "run" @@ "flowQ" :> "child" @@ "childX" :> "grandchild"
DeepBodyOf == "flowP" :> {"flowQ"} @@ "flowQ" :> {"childX"} @@ "childX" :> {}
DeepChecksOf == [i \in DeepInvocations |-> {}]
=============================================================================
